----------------------------- MODULE Discovery -----------------------------
(***************************************************************************)
(* discovery.py: which battery pack sits in which bank slot.               *)
(*                                                                         *)
(* A scan is a sequence of blocking Modbus reads, seconds long, so it is   *)
(* modelled one read per step: BeginScan, a Refresh step for every claimed *)
(* slot, BeginProbe, a Probe step for every candidate port, EndScan.       *)
(* Between two steps the process can be killed, and (Hotplug) an adapter   *)
(* can be moved.  A pack is named by its serial; a reading is abstracted   *)
(* to the pack it was taken from.  Every read may fail or succeed: that    *)
(* choice is the only data a read contributes to the control.              *)
(***************************************************************************)
EXTENDS Integers

CONSTANTS
  NSlots,         \* bank size; _SLOT_INDICES = (1, 2) in the code
  Ports,          \* device nodes matching the glob, numbered in sorted order
  Serials,        \* pack serial numbers (register 63492)
  NoPack,         \* None: no serial, no data, nothing plugged in
  SimPack,        \* the serial of a simulated reading
  FailThreshold,  \* FAIL_THRESHOLD
  FailCap,        \* bound: fail_count saturates here; it is only ever compared
                  \* with FAIL_THRESHOLD
  Simulate,       \* SIMULATE_UNCLAIMED_SLOTS
  Hotplug,        \* adapters may change port while the daemon runs
  MappingFaults   \* reads and writes of the mapping file may fail

ASSUME ConstantsAssumption ==
  /\ NSlots \in Nat \ {0}
  /\ Ports \subseteq Nat \ {0}
  /\ NoPack \notin Serials /\ SimPack \notin Serials /\ SimPack # NoPack
  /\ FailThreshold \in Nat \ {0}
  /\ FailCap \in Nat /\ FailCap >= FailThreshold
  /\ {Simulate, Hotplug, MappingFaults} \subseteq BOOLEAN

SlotIndices == 1 .. NSlots
NoSlot == 0
NoPort == 0
SimPort(i) == -i                       \* "sim:A", "sim:B"

VARIABLES
  wiring,     \* the world: port -> the pack plugged into it
  file,       \* pack_mapping.json: serial -> slot
  known,      \* the daemon's self.packs: what the last finished scan returned
  result,     \* scan()'s working copy
  mapping,    \* scan()'s local copy of the file
  phase,      \* where the scan is
  toRefresh,  \* claimed slots still to be re-read
  toProbe,    \* candidate ports still to be probed
  misses      \* history variable: consecutive failed reads of each slot's port

vars == <<wiring, file, known, result, mapping, phase, toRefresh, toProbe, misses>>

Status ==
  [port : Int, serial : Serials \cup {NoPack, SimPack},
   present : BOOLEAN, simulated : BOOLEAN, real_claimed : BOOLEAN,
   fail_count : 0 .. FailCap, data : Serials \cup {NoPack, SimPack}]

Banks == [SlotIndices -> Status]
Mappings == [Serials -> SlotIndices \cup {NoSlot}]
EmptyMapping == [s \in Serials |-> NoSlot]

\* A pack has one RS485 plug: it is on at most one port.
Placements ==
  {w \in [Ports -> Serials \cup {NoPack}] :
     \A p, q \in Ports : w[p] = w[q] /\ w[p] # NoPack => p = q}

Plugged(s) == \E p \in Ports : wiring[p] = s

----------------------------------------------------------------------------
(* What one step of the scan does to one slot or to the mapping.           *)

EmptyStatus ==
  [port |-> NoPort, serial |-> NoPack, present |-> FALSE, simulated |-> FALSE,
   real_claimed |-> FALSE, fail_count |-> 0, data |-> NoPack]

EmptyBank == [i \in SlotIndices |-> EmptyStatus]

\* Variant: the reading is blanked at the start of every scan.
CarriedForwardBlank(bank) ==
  [i \in SlotIndices |-> [bank[i] EXCEPT !.present = FALSE, !.simulated = FALSE,
                                         !.data = NoPack]]

CarriedForward(bank) ==
  [i \in SlotIndices |-> [bank[i] EXCEPT !.present = FALSE, !.simulated = FALSE]]

OneMore(n) == IF n < FailCap THEN n + 1 ELSE n

\* Variant: a good read does not reset the failure count.
AfterGoodReadKeepsCount(st, s) ==
  [st EXCEPT !.data = s, !.serial = s, !.present = TRUE, !.simulated = FALSE]

AfterGoodRead(st, s) ==
  [port |-> st.port, serial |-> s, present |-> TRUE, simulated |-> FALSE,
   real_claimed |-> st.real_claimed, fail_count |-> 0, data |-> s]

\* Variant: the last reading of a dropped pack is kept.
AfterFailedReadKeepsData(st) ==
  LET n == OneMore(st.fail_count) IN
  [st EXCEPT !.fail_count = n, !.present = n < FailThreshold]

\* The grace period: below the threshold the carried-forward data stays.
AfterFailedRead(st) ==
  LET n == OneMore(st.fail_count) IN
  IF n < FailThreshold
    THEN [st EXCEPT !.fail_count = n, !.present = TRUE]
    ELSE [st EXCEPT !.fail_count = n, !.present = FALSE, !.data = NoPack]

Claimed(p, s) ==
  [port |-> p, serial |-> s, present |-> TRUE, simulated |-> FALSE,
   real_claimed |-> TRUE, fail_count |-> 0, data |-> s]

FreeSlots(m) == SlotIndices \ {m[s] : s \in Serials}

LowestOf(S) == CHOOSE i \in S : \A j \in S : i <= j

\* Variant: a serial already in the mapping is not looked up.
SlotForAnew(m, s) == IF FreeSlots(m) = {} THEN NoSlot ELSE LowestOf(FreeSlots(m))

\* Variant: a new pack gets the lowest slot that is empty now, reserved or not.
SlotForByArrival(m, s) ==
  LET empty == {i \in SlotIndices : ~result[i].real_claimed} IN
  IF m[s] # NoSlot THEN m[s]
  ELSE IF empty = {} THEN NoSlot ELSE LowestOf(empty)

\* mapping.get(serial), else the lowest slot no serial is mapped to.
SlotFor(m, s) ==
  IF m[s] # NoSlot THEN m[s]
  ELSE IF FreeSlots(m) = {} THEN NoSlot ELSE LowestOf(FreeSlots(m))

\* A simulated reading, in a slot that is not claimed.
Padded(i) ==
  [port |-> SimPort(i), serial |-> SimPack, present |-> TRUE, simulated |-> TRUE,
   real_claimed |-> FALSE, fail_count |-> 0, data |-> SimPack]

\* Variant: an absent slot is padded whether it is claimed or not.
FilledIfAbsent(st, i) ==
  IF st.present THEN st
  ELSE IF Simulate THEN [Padded(i) EXCEPT !.real_claimed = st.real_claimed]
  ELSE EmptyStatus

Filled(st, i) ==
  IF st.real_claimed \/ st.present THEN st
  ELSE IF Simulate THEN Padded(i) ELSE EmptyStatus

UnclaimedSlots(bank) == {i \in SlotIndices : ~bank[i].real_claimed}
ClaimedPorts(bank) == {bank[i].port : i \in SlotIndices \ UnclaimedSlots(bank)}

\* Variant: probing stops as soon as one slot is claimed.
CandidatesUntilFirstClaim(bank, globbed) ==
  IF UnclaimedSlots(bank) # SlotIndices THEN {} ELSE globbed

\* Variant: the ports remembered for the unclaimed slots are probed.
CandidatesRemembered(bank, globbed) == {bank[i].port : i \in UnclaimedSlots(bank)}

Candidates(bank, globbed) ==
  IF UnclaimedSlots(bank) = {} THEN {} ELSE globbed \ ClaimedPorts(bank)

\* What the glob may find: a port without a pack is an adapter with nothing
\* behind it, or no device node at all.
Globs == {g \in SUBSET Ports : {p \in Ports : wiring[p] # NoPack} \subseteq g}

IsFirst(x, S) == x \in S /\ \A y \in S : x <= y

----------------------------------------------------------------------------
Init ==
  /\ wiring \in Placements
  /\ file = EmptyMapping
  /\ known = EmptyBank
  /\ result = EmptyBank
  /\ mapping = EmptyMapping
  /\ phase = "idle"
  /\ toRefresh = {}
  /\ toProbe = {}
  /\ misses = [i \in SlotIndices |-> 0]

\* What read_mapping() can return: a read that fails counts as an empty file.
ReadableMappings == {file} \cup (IF MappingFaults THEN {EmptyMapping} ELSE {})

\* scan() up to the first read: _carry_forward, read_mapping.
BeginScan ==
  /\ phase = "idle"
  /\ phase' = "refresh"
  /\ result' = CarriedForward(known)
  /\ mapping' \in ReadableMappings
  /\ toRefresh' = SlotIndices \ UnclaimedSlots(known)
  /\ UNCHANGED <<wiring, file, known, toProbe, misses>>

\* The claimed slot's port answers: whatever pack is on that port now.
RefreshOk(i) ==
  LET s == wiring[result[i].port] IN
  /\ phase = "refresh" /\ IsFirst(i, toRefresh)
  /\ s # NoPack
  /\ result' = [result EXCEPT ![i] = AfterGoodRead(@, s)]
  /\ misses' = [misses EXCEPT ![i] = 0]
  /\ toRefresh' = toRefresh \ {i}
  /\ UNCHANGED <<wiring, file, known, mapping, phase, toProbe>>

RefreshFail(i) ==
  /\ phase = "refresh" /\ IsFirst(i, toRefresh)
  /\ result' = [result EXCEPT ![i] = AfterFailedRead(@)]
  /\ misses' = [misses EXCEPT ![i] = OneMore(@)]
  /\ toRefresh' = toRefresh \ {i}
  /\ UNCHANGED <<wiring, file, known, mapping, phase, toProbe>>

\* The glob is taken once, before the first probe.
BeginProbe ==
  /\ phase = "refresh" /\ toRefresh = {}
  /\ phase' = "probe"
  /\ \E globbed \in Globs : toProbe' = Candidates(result, globbed)
  /\ UNCHANGED <<wiring, file, known, result, mapping, toRefresh, misses>>

ProbeFail(p) ==
  /\ phase = "probe" /\ IsFirst(p, toProbe)
  /\ toProbe' = toProbe \ {p}
  /\ UNCHANGED <<wiring, file, known, result, mapping, phase, toRefresh, misses>>

\* A pack answers, and every slot is mapped to some other serial.
ProbeBankFull(p) ==
  /\ phase = "probe" /\ IsFirst(p, toProbe)
  /\ wiring[p] # NoPack
  /\ SlotFor(mapping, wiring[p]) = NoSlot
  /\ toProbe' = toProbe \ {p}
  /\ UNCHANGED <<wiring, file, known, result, mapping, phase, toRefresh, misses>>

\* Variant: a new assignment is not persisted.
WrittenNever(m) == {file}

\* What the file can hold after write_mapping(m): a failed write is swallowed
\* and, the replace being atomic, leaves the old file.
Written(m) == {m} \cup (IF MappingFaults THEN {file} ELSE {})

\* A pack answers and has a slot, old or new: a new one is persisted at once,
\* and the slot is claimed unless another pack holds it already.
ProbeOk(p) ==
  LET s == wiring[p]
      i == SlotFor(mapping, s) IN
  /\ phase = "probe" /\ IsFirst(p, toProbe)
  /\ s # NoPack /\ i # NoSlot
  /\ mapping' = [mapping EXCEPT ![s] = i]
  /\ IF mapping[s] = NoSlot THEN file' \in Written(mapping') ELSE file' = file
  /\ IF result[i].real_claimed
       THEN UNCHANGED <<result, misses>>
       ELSE /\ result' = [result EXCEPT ![i] = Claimed(p, s)]
            /\ misses' = [misses EXCEPT ![i] = 0]
  /\ toProbe' = toProbe \ {p}
  /\ UNCHANGED <<wiring, known, phase, toRefresh>>

\* _fill_unclaimed_with_sim, and the new bank handed to the daemon.
EndScan ==
  /\ phase = "probe" /\ toProbe = {}
  /\ phase' = "idle"
  /\ result' = [i \in SlotIndices |-> Filled(result[i], i)]
  /\ known' = result'
  /\ mapping' = EmptyMapping             \* the local goes out of scope
  /\ UNCHANGED <<wiring, file, toRefresh, toProbe, misses>>

\* The process is killed, between scans or inside one, and started again by
\* daemontools: only the file survives.  Ports may be renumbered by a reboot.
Restart ==
  /\ wiring' \in Placements
  /\ known' = EmptyBank
  /\ result' = EmptyBank
  /\ mapping' = EmptyMapping
  /\ phase' = "idle"
  /\ toRefresh' = {}
  /\ toProbe' = {}
  /\ misses' = [i \in SlotIndices |-> 0]
  /\ UNCHANGED file

\* An adapter is pulled out, or plugged into some port, under a live daemon.
Unplug(p) ==
  /\ Hotplug
  /\ wiring[p] # NoPack
  /\ wiring' = [wiring EXCEPT ![p] = NoPack]
  /\ UNCHANGED <<file, known, result, mapping, phase, toRefresh, toProbe, misses>>

Plug(p, s) ==
  /\ Hotplug
  /\ wiring[p] = NoPack /\ ~Plugged(s)
  /\ wiring' = [wiring EXCEPT ![p] = s]
  /\ UNCHANGED <<file, known, result, mapping, phase, toRefresh, toProbe, misses>>

Replug == \E p \in Ports : Unplug(p) \/ \E s \in Serials : Plug(p, s)

ScanStep ==
  \/ BeginScan
  \/ \E i \in SlotIndices : RefreshOk(i) \/ RefreshFail(i)
  \/ BeginProbe
  \/ \E p \in Ports : ProbeFail(p) \/ ProbeBankFull(p) \/ ProbeOk(p)
  \/ EndScan

Next == ScanStep \/ Restart \/ Replug

Spec == Init /\ [][Next]_vars

\* The 2 s timer starts a scan again and again, and every read has a deadline.
FairSpec == Spec /\ WF_vars(ScanStep)

----------------------------------------------------------------------------
(* Properties *)

\* Types of all variables.
TypeOK ==
  /\ wiring \in Placements
  /\ file \in Mappings
  /\ known \in Banks
  /\ result \in Banks
  /\ mapping \in Mappings
  /\ phase \in {"idle", "refresh", "probe"}
  /\ toRefresh \subseteq SlotIndices
  /\ toProbe \subseteq Ports
  /\ misses \in [SlotIndices -> 0 .. FailCap]

OneSerialPerSlot(m) ==
  \A s, t \in Serials : m[s] = m[t] /\ m[s] # NoSlot => s = t

\* Neither the file nor a scan's copy of it ever maps two packs to one slot,
\* whatever is lost, killed or re-plugged.
MappingInjective == OneSerialPerSlot(file) /\ OneSerialPerSlot(mapping)

\* A claimed slot shows the pack the file assigns to that slot: what is shown
\* now is what will be shown after a restart.
SeatsMatchFile ==
  \A i \in SlotIndices :
     known[i].real_claimed =>
       known[i].serial \in Serials /\ file[known[i].serial] = i

\* Once the file assigns a slot to a serial, it is never reassigned or lost.
NeverReassigned ==
  [][\A s \in Serials : file[s] # NoSlot => file'[s] = file[s]]_file

\* A finished scan shows a claimed slot as present exactly while fewer than
\* FAIL_THRESHOLD reads in a row have failed: a glitch never drops a pack and
\* a dead pack's last reading never outlives the grace period.
PresenceTracksFailures ==
  phase = "idle" =>
    \A i \in SlotIndices :
      known[i].real_claimed => (known[i].present <=> misses[i] < FailThreshold)

\* A present slot has a reading to aggregate and an absent one has none: the
\* reading is the slot's own pack's.
PresentHasData ==
  \A i \in SlotIndices :
    IF known[i].present THEN known[i].data = known[i].serial /\ known[i].data # NoPack
                        ELSE known[i].data = NoPack

\* Padding never hides a pack: a claimed slot is never simulated, and with the
\* switch off nothing is.
SimulationNeverMasks ==
  \A i \in SlotIndices :
    known[i].simulated \/ known[i].data = SimPack =>
      Simulate /\ ~known[i].real_claimed

ReadFails(s) ==
  \/ \E i \in SlotIndices : RefreshFail(i) /\ wiring[result[i].port] = s
  \/ \E p \in Ports : ProbeFail(p) /\ wiring[p] = s

ReadAnswers(s) ==
  \/ \E i \in SlotIndices : RefreshOk(i) /\ wiring[result[i].port] = s
  \/ \E p \in Ports : (ProbeOk(p) \/ ProbeBankFull(p)) /\ wiring[p] = s

Shown(s) ==
  \E i \in SlotIndices : file[s] = i /\ known[i].present /\ known[i].data = s

\* A pack the file knows, plugged in and answering from some point on without
\* another restart, ends up in its own slot and stays there: not left out
\* because the other pack, a stranger or a dead port keeps the scan busy.
AnsweringPackRejoins ==
  \A s \in Serials :
    <>[][~Restart /\ ~ReadFails(s)]_vars =>
      <>[](Plugged(s) /\ file[s] # NoSlot => Shown(s))

\* A pack that never answers again eventually leaves the bank for good.
SilentPackLeaves ==
  \A s \in Serials :
    <>[][~ReadAnswers(s)]_vars =>
      <>[](\A i \in SlotIndices : known[i].data # s)

ShownPacks ==
  [i \in SlotIndices |->
     IF known[i].present /\ ~known[i].simulated THEN known[i].data ELSE NoPack]

Directory ==
  INSTANCE PackDirectory
    WITH Slots <- SlotIndices, Packs <- Serials, dir <- file, shown <- ShownPacks

\* Scans interleaved with kills and reboots implement the directory: packs get
\* the lowest unused slot once and for all, and are only ever shown there.
ImplementsDirectory == Directory!DirSpec

=============================================================================
