------------------------------- MODULE Daemon -------------------------------
(***************************************************************************)
(* dbus-felicity-bank.py, dbusservice.py and what they use of vedbus.py:    *)
(* the GLib main loop of the daemon and the values it publishes.            *)
(*                                                                         *)
(* One thread runs callbacks to their end.  The 2 s poll timer and incoming *)
(* D-Bus calls have the default priority; the reset of /Redetect is queued  *)
(* with GLib.idle_add, whose priority is lower: it runs only in an          *)
(* iteration in which nothing else is ready.  A scan is abstracted to the   *)
(* SoC of each pack, the history to its coulomb counter and the arming of   *)
(* its full-charge detection; the other paths are published by the same     *)
(* update() from the same scan.                                             *)
(***************************************************************************)
EXTENDS Integers, Sequences

CONSTANTS
  Capacity,    \* BANK_CAPACITY_AH; SoC is the charge left, Capacity is 100%
  RearmSoc,    \* FULL_CHARGE_REARM_SOC
  SlowCycles,  \* a cycle may take longer than the poll interval
  MaxQueue,    \* bound: D-Bus calls waiting
  MaxIdle,     \* bound: D-Bus calls and resets waiting
  Presses,     \* values written to /Redetect
  Ids,         \* values written to /Battery/Request/Id
  None,
  Fraction,    \* a value of which int() makes 1 but that is not 1: 1.5, "1"
  Text         \* a value of which int() makes nothing

ASSUME ConstantsAssumption ==
  /\ Capacity \in Nat \ {0} /\ RearmSoc \in 0 .. Capacity
  /\ SlowCycles \in BOOLEAN
  /\ MaxQueue \in Nat /\ MaxIdle \in Nat
  /\ 0 \in Presses /\ 1 \in Ids
  /\ None \notin Int /\ Fraction \notin Int /\ Text \notin Int /\ Fraction # Text

Slots == {1, 2}                         \* BATTERY_SLOT_INDICES
Charges == 0 .. Capacity
Socs == Charges \cup {None}             \* None: the pack, or any pack, is gone
Packs == [Slots -> Socs]

Truthy(v) == v \notin {0, None}

IntOf(v) == IF v = Fraction THEN 1 ELSE IF v = Text THEN None ELSE v

Writes == [path : {"/Redetect"}, value : Presses]
            \cup [path : {"/Battery/Request/Id"}, value : Ids]

VARIABLES
  packs,     \* self.packs, as the SoC of every pack
  history,   \* self.history_state: consumed_amphours and full_charge_armed
  timerDue,  \* the poll timer is ready
  inbox,     \* D-Bus calls not yet handled, in order
  idle,      \* reset_redetect() callbacks queued by GLib.idle_add
  bus        \* the published values

vars == <<packs, history, timerDue, inbox, idle, bus>>

Histories == [consumed : Socs, armed : BOOLEAN]

\* The selector keeps what was written, of which int() makes 1 or 2.
Selections == {v \in Ids : IntOf(v) \in Slots}

Published ==
  [redetect : Presses, request : Selections, connected : {0, 1},
   battery : Packs, soc : Socs, consumed : Socs]

\* The values _add_paths() starts with.
Unpublished ==
  [redetect |-> 0, request |-> 1, connected |-> 0,
   battery |-> [i \in Slots |-> None], soc |-> None, consumed |-> None]

----------------------------------------------------------------------------
(* What one cycle computes and publishes.                                  *)

\* The SoCs of the packs that are present.
Present(ps) == {ps[i] : i \in Slots} \ {None}

\* Variant: the bank is as full as its fullest pack.
SocOfFullest(ps) ==
  IF Present(ps) = {} THEN None
  ELSE CHOOSE x \in Present(ps) : \A y \in Present(ps) : x >= y

\* build_bank_params(): the weakest pack present limits the string.
BankSoc(ps) ==
  IF Present(ps) = {} THEN None
  ELSE CHOOSE x \in Present(ps) : \A y \in Present(ps) : x <= y

\* build_bank_params(): consumed Ah as the SoC implies it.
Approximation(soc) == IF soc = None THEN None ELSE Capacity - soc

\* update_history(): nothing without a SoC; seeded from the first one, moved
\* by the charge of one interval, then zeroed and disarmed by a full charge.
HistoryAfter(h, soc) ==
  LET base == IF h.consumed = None THEN Approximation(soc) ELSE h.consumed IN
  IF soc = None THEN {h}
  ELSE IF soc = Capacity /\ h.armed THEN {[consumed |-> 0, armed |-> FALSE]}
  ELSE [consumed : {x \in Charges : x - base \in -1 .. 1},
        armed : {h.armed \/ soc < RearmSoc}]

\* Variant: the history is applied below the parameters.
MergedUnder(soc, c) == IF soc # None THEN Approximation(soc) ELSE c

\* to_dbus_dict() applied on top of build_bank_params().
Merged(soc, c) == IF c # None THEN c ELSE Approximation(soc)

\* update(params) of a scan that yields the packs ps, with c for consumed Ah.
Updated(b, ps, c) ==
  [redetect |-> b.redetect, request |-> b.request,
   connected |-> IF Present(ps) = {} THEN 0 ELSE 1,
   battery |-> ps, soc |-> BankSoc(ps), consumed |-> c]

\* _cycle(), when the scan yields ps.
RunCycle(b, h, ps) ==
  /\ packs' = ps
  /\ history' \in HistoryAfter(h, BankSoc(ps))
  /\ bus' = Updated(b, ps, Merged(BankSoc(ps), history'.consumed))

\* Variant: the rescan is kept but not published.
RescannedSilently(b, ps) == b

\* _on_redetect(): the rescan is published without the history.
Rescanned(b, ps) == Updated(b, ps, Approximation(BankSoc(ps)))

\* Variant: reset_redetect() is called inside the callback, whose caller
\* stores the written value after it.
ResetsQueuedInline(n) == n

\* GLib.idle_add(self.svc.reset_redetect).
ResetsQueued(n) == n + 1

\* What SetValue stores when the callback has accepted the value.
Stored(b, v) == [b EXCEPT !.redetect = v]

\* Variant: whatever int() can read selects.
SelectedAny(b, id) == [b EXCEPT !.request = IF IntOf(id) # None THEN id ELSE @]

\* _on_request_id(): accepted if int() makes 1 or 2 of it; what SetValue then
\* stores is the value as written.
Selected(b, id) == [b EXCEPT !.request = IF IntOf(id) \in Slots THEN id ELSE @]

----------------------------------------------------------------------------
(* The main loop.                                                          *)

\* Some history is loaded, the paths are added and one cycle is run.
Init ==
  /\ \E ps \in Packs, h \in Histories :
       /\ packs = ps
       /\ history \in HistoryAfter(h, BankSoc(ps))
       /\ bus = Updated(Unpublished, ps, Merged(BankSoc(ps), history.consumed))
  /\ timerDue = FALSE
  /\ inbox = <<>>
  /\ idle = 0

\* The process ends, one way or another, and daemontools starts a new one.
Restart ==
  /\ \E ps \in Packs, h \in Histories : RunCycle(Unpublished, h, ps)
  /\ timerDue' = FALSE
  /\ inbox' = <<>>
  /\ idle' = 0

\* A client calls SetValue: the call waits until the loop handles it.
Send(w) ==
  /\ Len(inbox) < MaxQueue
  /\ Len(inbox) + idle < MaxIdle
  /\ inbox' = Append(inbox, w)
  /\ UNCHANGED <<packs, history, timerDue, idle, bus>>

TimerExpires ==
  /\ ~timerDue
  /\ timerDue' = TRUE
  /\ UNCHANGED <<packs, history, inbox, idle, bus>>

\* _poll_cb().  The next expiry is measured from the start of this callback,
\* so after a slow cycle the timer is ready again at once.
Poll ==
  /\ timerDue
  /\ \E ps \in Packs : RunCycle(bus, history, ps)
  /\ timerDue' \in {FALSE, SlowCycles}
  /\ UNCHANGED <<inbox, idle>>

\* The next call is a SetValue of path.
Receive(path) ==
  /\ inbox # <<>>
  /\ Head(inbox).path = path
  /\ inbox' = Tail(inbox)

\* /Redetect, a value it already has: no callback.  A falsy value is stored
\* and nothing else happens; any other is stored after the callback's rescan.
HandleSame ==
  /\ Receive("/Redetect")
  /\ Head(inbox).value = bus.redetect
  /\ UNCHANGED <<packs, history, timerDue, idle, bus>>

HandleClear ==
  /\ Receive("/Redetect")
  /\ Head(inbox).value # bus.redetect /\ ~Truthy(Head(inbox).value)
  /\ bus' = Stored(bus, Head(inbox).value)
  /\ UNCHANGED <<packs, history, timerDue, idle>>

HandleRedetect ==
  /\ Receive("/Redetect")
  /\ Head(inbox).value # bus.redetect /\ Truthy(Head(inbox).value)
  /\ \E ps \in Packs :
       /\ packs' = ps
       /\ bus' = Stored(Rescanned(bus, ps), Head(inbox).value)
  /\ idle' = ResetsQueued(idle)
  /\ UNCHANGED <<history, timerDue>>

\* A value the selector already has passes this too, and changes nothing.
HandleRequest ==
  /\ Receive("/Battery/Request/Id")
  /\ bus' = Selected(bus, Head(inbox).value)
  /\ UNCHANGED <<packs, history, timerDue, idle>>

\* No source of the default priority is ready.
LoopIdle == ~timerDue /\ inbox = <<>>

\* reset_redetect(), unconditional.
ResetRedetect ==
  /\ idle > 0 /\ LoopIdle
  /\ idle' = idle - 1
  /\ bus' = Stored(bus, 0)
  /\ UNCHANGED <<packs, history, timerDue, inbox>>

Handle == HandleSame \/ HandleClear \/ HandleRedetect \/ HandleRequest

Next ==
  \/ Restart \/ TimerExpires \/ Poll \/ ResetRedetect
  \/ HandleSame \/ HandleClear \/ HandleRedetect \/ HandleRequest
  \/ \E w \in Writes : Send(w)

Spec == Init /\ [][Next]_vars

\* The timer runs, a ready timer and a waiting call are dispatched, and an
\* idle callback is dispatched if the loop is idle often enough.
FairSpec ==
  Spec /\ WF_vars(TimerExpires) /\ WF_vars(Poll) /\ WF_vars(Handle)
       /\ SF_vars(ResetRedetect)

----------------------------------------------------------------------------
(* Properties.                                                             *)

\* Types; whatever is written to /Battery/Request/Id, the selector holds a
\* value that int() takes for one of the two packs.
TypeOK ==
  /\ packs \in Packs
  /\ history \in Histories
  /\ timerDue \in BOOLEAN
  /\ inbox \in Seq(Writes)
  /\ idle \in Nat
  /\ bus \in Published

\* A set /Redetect always has a reset on its way: neither the order in which
\* the callback and its caller store values nor several presses, clears and
\* resets in a row leave it set with nothing to clear it.
ResetScheduled == Truthy(bus.redetect) => idle > 0

\* What is on the bus is the scan the next one will be merged with, and fits
\* together, rescanned or polled: the bank is shown connected if and only if a
\* pack is, and no fuller than any pack shown.
BusIsScan ==
  /\ bus.battery = packs
  /\ bus.connected = 0 <=> \A i \in Slots : bus.battery[i] = None
  /\ bus.soc = None <=> bus.connected = 0
  /\ \A i \in Slots : bus.battery[i] # None => bus.soc <= bus.battery[i]

\* A full charge is counted, and the coulomb counter zeroed, only when every
\* pack that is present is full.
FullChargeIsEveryPacks ==
  [][Poll /\ history.armed /\ ~history'.armed
       => \A i \in Slots : packs'[i] \in {Capacity, None}]_vars

\* If the loop is idle again and again, /Redetect is cleared after every press.
RedetectResets ==
  []<>LoopIdle => (Truthy(bus.redetect) ~> ~Truthy(bus.redetect))

\* The published /ConsumedAmphours is the coulomb counter again and again: a
\* rescan that published the SoC approximation is corrected by a later poll.
CounterShownAgain ==
  []<>(history.consumed # None => bus.consumed = history.consumed)

\* What dbusservice.py says of idle_add and the unconditional reset: /Redetect
\* is never left set.
RedetectNeverStuck == Truthy(bus.redetect) ~> ~Truthy(bus.redetect)

\* What history.py says of /ConsumedAmphours: once the counter has a value,
\* that is what is published.
ConsumedIsCounted == history.consumed # None => bus.consumed = history.consumed

=============================================================================
