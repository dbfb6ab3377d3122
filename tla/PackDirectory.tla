--------------------------- MODULE PackDirectory ---------------------------
(***************************************************************************)
(* What discovery promises its users, in two variables: an append-only     *)
(* directory that gives each pack at most one slot and each slot at most   *)
(* one pack, and a display that shows in a slot only a reading of the pack *)
(* the directory puts there.  Scans, ports, failures, the grace period and *)
(* restarts are the business of Discovery, which implements this.          *)
(***************************************************************************)
EXTENDS Integers

CONSTANTS Slots, Packs, NoSlot, NoPack

VARIABLES
  dir,     \* pack -> its slot, or NoSlot
  shown    \* slot -> the pack whose reading is shown there, or NoPack

Unused == Slots \ {dir[s] : s \in Packs}

DirInit ==
  /\ dir = [s \in Packs |-> NoSlot]
  /\ shown = [i \in Slots |-> NoPack]

\* A pack seen for the first time gets the lowest unused slot, for good.
Assign(s) ==
  /\ dir[s] = NoSlot
  /\ \E i \in Unused :
       /\ \A j \in Unused : i <= j
       /\ dir' = [dir EXCEPT ![s] = i]
  /\ UNCHANGED shown

\* Any display, complete or not, in which every pack is in its own slot.
Publish ==
  /\ shown' \in [Slots -> Packs \cup {NoPack}]
  /\ \A i \in Slots : shown'[i] # NoPack => dir[shown'[i]] = i
  /\ UNCHANGED dir

DirNext == (\E s \in Packs : Assign(s)) \/ Publish

DirSpec == DirInit /\ [][DirNext]_<<dir, shown>>

=============================================================================
