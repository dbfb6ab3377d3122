-------------------------- MODULE DiscoveryProofs --------------------------
(***************************************************************************)
(* Theorems about Discovery, for every number of slots, set of ports and   *)
(* set of packs.                                                           *)
(***************************************************************************)
EXTENDS Discovery, WellFoundedInduction, TLAPS

\* A nonempty set of naturals has the element LowestOf chooses.
LEMMA LowestOfIsLeast ==
  ASSUME NEW S \in SUBSET Nat, S # {}
  PROVE  LowestOf(S) \in S /\ \A j \in S : LowestOf(S) <= j
<1> DEFINE R == OpToRel(<, Nat)
<1>1. \E i \in S : \A j \in S : <<j, i>> \notin R
  <2>1. IsWellFoundedOn(R, Nat)
    BY NatLessThanWellFounded
  <2> HIDE DEF R
  <2> QED BY <2>1, WFMin
<1>2. \A i, j \in Nat : <<j, i>> \in R <=> j < i
  BY DEF OpToRel
<1>3. \E i \in S : \A j \in S : i <= j
  <2>1. PICK i \in S : \A j \in S : <<j, i>> \notin R
    BY <1>1
  <2>2. \A j \in S : ~(j < i)
    BY <1>2, <2>1
  <2> QED BY <2>2
<1> QED BY <1>3 DEF LowestOf

\* SlotFor keeps a known serial's slot and gives a new one an unused slot.
LEMMA SlotForSpec ==
  ASSUME NEW m \in Mappings, NEW s \in Serials
  PROVE  /\ SlotFor(m, s) \in SlotIndices \cup {NoSlot}
         /\ m[s] # NoSlot => SlotFor(m, s) = m[s]
         /\ m[s] = NoSlot /\ SlotFor(m, s) # NoSlot =>
              /\ SlotFor(m, s) \in FreeSlots(m)
              /\ \A j \in FreeSlots(m) : SlotFor(m, s) <= j
<1>1. m[s] \in SlotIndices \cup {NoSlot}
  BY DEF Mappings
<1>2. FreeSlots(m) \in SUBSET Nat /\ FreeSlots(m) \subseteq SlotIndices
  BY ConstantsAssumption DEF FreeSlots, SlotIndices
<1>3. FreeSlots(m) # {} =>
        LowestOf(FreeSlots(m)) \in FreeSlots(m)
        /\ \A j \in FreeSlots(m) : LowestOf(FreeSlots(m)) <= j
  BY <1>2, LowestOfIsLeast
<1> QED BY <1>1, <1>2, <1>3 DEF SlotFor

\* What each step of a scan does to a slot's status keeps it a status, and all
\* but a claim keep who holds the slot and through which port.
LEMMA CarriedStatus ==
  ASSUME NEW st \in Status
  PROVE  LET c == [st EXCEPT !.present = FALSE, !.simulated = FALSE]
         IN  c \in Status /\ c.real_claimed = st.real_claimed /\ c.port = st.port
             /\ c.serial = st.serial /\ c.data = st.data
             /\ ~c.present /\ ~c.simulated
  BY DEF Status

LEMMA GoodReadStatus ==
  ASSUME NEW st \in Status, NEW s \in Serials
  PROVE  LET g == AfterGoodRead(st, s)
         IN  g \in Status /\ g.real_claimed = st.real_claimed /\ g.port = st.port
             /\ g.serial = s /\ g.data = s
  BY ConstantsAssumption DEF AfterGoodRead, Status

LEMMA FailedReadStatus ==
  ASSUME NEW st \in Status
  PROVE  LET f == AfterFailedRead(st)
         IN  f \in Status /\ f.real_claimed = st.real_claimed /\ f.port = st.port
             /\ f.serial = st.serial /\ f.data \in {st.data, NoPack}
<1>1. OneMore(st.fail_count) \in 0 .. FailCap
  BY ConstantsAssumption DEF OneMore, Status
<1> QED BY <1>1 DEF AfterFailedRead, Status

LEMMA ClaimedStatus ==
  ASSUME NEW p \in Ports, NEW s \in Serials
  PROVE  LET c == Claimed(p, s)
         IN  c \in Status /\ c.real_claimed /\ c.port = p /\ c.serial = s
             /\ c.data = s
  BY ConstantsAssumption DEF Claimed, Status

LEMMA FilledStatus ==
  ASSUME NEW st \in Status, NEW i \in SlotIndices
  PROVE  LET f == Filled(st, i)
         IN  f \in Status /\ (f.real_claimed => f = st)
             /\ (f.present /\ ~f.simulated => f = st)
<1>1. EmptyStatus \in Status /\ Padded(i) \in Status
  BY ConstantsAssumption
  DEF Status, EmptyStatus, Padded, SimPort, NoPort, SlotIndices
<1> QED BY <1>1 DEF Filled, EmptyStatus, Padded

\* A claimed slot's port is a real one: RefreshOk reads the wiring there.
ClaimedHavePorts(bank) ==
  \A i \in SlotIndices : bank[i].real_claimed => bank[i].port \in Ports

TypeInv ==
  /\ TypeOK
  /\ ClaimedHavePorts(known) /\ ClaimedHavePorts(result)
  /\ phase = "refresh" => toRefresh \subseteq SlotIndices \ UnclaimedSlots(result)

LEMMA TypeInvInit == Init => TypeInv
<1> SUFFICES ASSUME Init PROVE TypeInv
  OBVIOUS
<1> USE ConstantsAssumption
<1>1. EmptyMapping \in Mappings
  BY DEF EmptyMapping, Mappings
<1>2. EmptyBank \in Banks /\ ClaimedHavePorts(EmptyBank)
  BY DEF EmptyBank, EmptyStatus, Banks, Status, ClaimedHavePorts, NoPort
<1> QED BY <1>1, <1>2 DEF Init, TypeInv, TypeOK

LEMMA TypeInvStep == TypeInv /\ [Next]_vars => TypeInv'
<1> SUFFICES ASSUME TypeInv, [Next]_vars PROVE TypeInv'
  OBVIOUS
<1> USE ConstantsAssumption DEF TypeInv, TypeOK
<1>1. CASE UNCHANGED vars
  BY <1>1 DEF vars, ClaimedHavePorts, UnclaimedSlots
<1>2. CASE BeginScan
  <2>1. CarriedForward(known) \in Banks /\ ClaimedHavePorts(CarriedForward(known))
        /\ UnclaimedSlots(CarriedForward(known)) = UnclaimedSlots(known)
    <3>1. ASSUME NEW i \in SlotIndices
          PROVE  /\ CarriedForward(known)[i] \in Status
                 /\ CarriedForward(known)[i].real_claimed = known[i].real_claimed
                 /\ CarriedForward(known)[i].port = known[i].port
      <4>1. known[i] \in Status
        BY DEF Banks
      <4> QED BY <4>1, CarriedStatus DEF CarriedForward
    <3>2. CarriedForward(known) \in Banks
      BY <3>1 DEF CarriedForward, Banks
    <3> QED BY <3>1, <3>2 DEF ClaimedHavePorts, UnclaimedSlots
  <2>2. ReadableMappings \subseteq Mappings
    BY DEF ReadableMappings, EmptyMapping, Mappings
  <2>3. toRefresh' \subseteq SlotIndices \ UnclaimedSlots(result')
    BY <1>2, <2>1 DEF BeginScan
  <2>4. UnclaimedSlots(result)' = UnclaimedSlots(result')
    BY DEF UnclaimedSlots
  <2> QED BY <1>2, <2>1, <2>2, <2>3, <2>4 DEF BeginScan, ClaimedHavePorts
<1>3. ASSUME NEW i \in SlotIndices, RefreshOk(i) PROVE TypeInv'
  <2>1. wiring[result[i].port] \in Serials
    BY <1>3 DEF RefreshOk, IsFirst, Placements, ClaimedHavePorts, UnclaimedSlots
  <2>2. result[i] \in Status
    BY DEF Banks
  <2> DEFINE st == AfterGoodRead(result[i], wiring[result[i].port])
  <2>3. /\ st \in Status
        /\ st.real_claimed = result[i].real_claimed /\ st.port = result[i].port
    BY <2>1, <2>2, GoodReadStatus
  <2>4. result' = [result EXCEPT ![i] = st]
    BY <1>3 DEF RefreshOk
  <2> HIDE DEF st
  <2>5. result' \in Banks /\ ClaimedHavePorts(result')
        /\ UnclaimedSlots(result') = UnclaimedSlots(result)
    BY <2>3, <2>4 DEF Banks, ClaimedHavePorts, UnclaimedSlots
  <2>6. UnclaimedSlots(result)' = UnclaimedSlots(result')
    BY DEF UnclaimedSlots
  <2>7. /\ phase = "refresh" /\ toRefresh' = toRefresh \ {i}
        /\ misses' = [misses EXCEPT ![i] = 0]
        /\ UNCHANGED <<wiring, file, known, mapping, phase, toProbe>>
    BY <1>3 DEF RefreshOk
  <2> QED BY <2>5, <2>6, <2>7 DEF ClaimedHavePorts
<1>4. ASSUME NEW i \in SlotIndices, RefreshFail(i) PROVE TypeInv'
  <2>1. result[i] \in Status
    BY DEF Banks
  <2>2. /\ AfterFailedRead(result[i]) \in Status
        /\ AfterFailedRead(result[i]).real_claimed = result[i].real_claimed
        /\ AfterFailedRead(result[i]).port = result[i].port
    BY <2>1, FailedReadStatus
  <2>3. OneMore(misses[i]) \in 0 .. FailCap
    BY DEF OneMore
  <2>4. result' = [result EXCEPT ![i] = AfterFailedRead(result[i])]
    BY <1>4 DEF RefreshFail
  <2>5. result' \in Banks /\ ClaimedHavePorts(result')
        /\ UnclaimedSlots(result') = UnclaimedSlots(result)
    BY <2>2, <2>4 DEF Banks, ClaimedHavePorts, UnclaimedSlots
  <2>6. UnclaimedSlots(result)' = UnclaimedSlots(result')
    BY DEF UnclaimedSlots
  <2>7. /\ phase = "refresh" /\ toRefresh' = toRefresh \ {i}
        /\ misses' = [misses EXCEPT ![i] = OneMore(@)]
        /\ UNCHANGED <<wiring, file, known, mapping, phase, toProbe>>
    BY <1>4 DEF RefreshFail
  <2> QED BY <2>3, <2>5, <2>6, <2>7 DEF ClaimedHavePorts
<1>5. CASE BeginProbe
  BY <1>5 DEF BeginProbe, Candidates, Globs, ClaimedHavePorts
<1>6. ASSUME NEW p \in Ports, ProbeFail(p) \/ ProbeBankFull(p) PROVE TypeInv'
  BY <1>6 DEF ProbeFail, ProbeBankFull, ClaimedHavePorts
<1>7. ASSUME NEW p \in Ports, ProbeOk(p) PROVE TypeInv'
  <2> DEFINE s == wiring[p]
             i == SlotFor(mapping, s)
  <2>1. s \in Serials
    BY <1>7 DEF ProbeOk, Placements
  <2>2. i \in SlotIndices
    BY <1>7, <2>1, SlotForSpec DEF ProbeOk
  <2>3. mapping' \in Mappings
    BY <1>7, <2>2 DEF ProbeOk, Mappings
  <2>4. file' \in Mappings
    BY <1>7, <2>3 DEF ProbeOk, Written
  <2>5. Claimed(p, s) \in Status /\ Claimed(p, s).port = p
    BY <2>1, ClaimedStatus
  <2>6. result' \in Banks /\ ClaimedHavePorts(result')
        /\ misses' \in [SlotIndices -> 0 .. FailCap]
    <3> HIDE DEF s
    <3>1. CASE result[i].real_claimed
      BY <1>7, <3>1 DEF ProbeOk, s
    <3>2. CASE ~result[i].real_claimed
      <4>1. /\ result' = [result EXCEPT ![i] = Claimed(p, s)]
            /\ misses' = [misses EXCEPT ![i] = 0]
        BY <1>7, <3>2 DEF ProbeOk, s
      <4> HIDE DEF i
      <4> QED BY <4>1, <2>2, <2>5 DEF Banks, ClaimedHavePorts
    <3> QED BY <3>1, <3>2
  <2> QED
    BY <1>7, <2>3, <2>4, <2>6 DEF ProbeOk, ClaimedHavePorts
<1>8. CASE EndScan
  <2> DEFINE bank == [i \in SlotIndices |-> Filled(result[i], i)]
  <2>1. bank \in Banks /\ ClaimedHavePorts(bank)
    <3>1. ASSUME NEW i \in SlotIndices
          PROVE  /\ Filled(result[i], i) \in Status
                 /\ Filled(result[i], i).real_claimed =>
                      Filled(result[i], i) = result[i]
      <4>1. result[i] \in Status
        BY DEF Banks
      <4> QED BY <4>1, FilledStatus
    <3> QED BY <3>1 DEF Banks, ClaimedHavePorts
  <2>2. EmptyMapping \in Mappings
    BY DEF EmptyMapping, Mappings
  <2> QED BY <1>8, <2>1, <2>2 DEF EndScan, ClaimedHavePorts
<1>9. CASE Restart
  <2>1. EmptyMapping \in Mappings
    BY DEF EmptyMapping, Mappings
  <2>2. EmptyBank \in Banks /\ ClaimedHavePorts(EmptyBank)
    BY DEF EmptyBank, EmptyStatus, Banks, Status, ClaimedHavePorts, NoPort
  <2> QED BY <1>9, <2>1, <2>2 DEF Restart, ClaimedHavePorts
<1>10. CASE Replug
  <2>1. wiring' \in Placements
    BY <1>10 DEF Replug, Unplug, Plug, Plugged, Placements
  <2> QED
    BY <1>10, <2>1 DEF Replug, Unplug, Plug, ClaimedHavePorts, UnclaimedSlots
<1> QED
  BY <1>1, <1>2, <1>3, <1>4, <1>5, <1>6, <1>7, <1>8, <1>9, <1>10
  DEF Next, ScanStep

\* Every variable keeps its type, whatever is killed, lost or re-plugged.
THEOREM TypeCorrect == Spec => []TypeOK
<1>1. TypeInv => TypeOK
  BY DEF TypeInv
<1> QED BY <1>1, TypeInvInit, TypeInvStep, PTL DEF Spec

LEMMA TypeInvariant == Spec => []TypeInv
  BY TypeInvInit, TypeInvStep, PTL DEF Spec

\* What a probe that finds a pack with a slot does to the mapping and the file.
LEMMA ProbeOkMapping ==
  ASSUME TypeInv, NEW p \in Ports, ProbeOk(p)
  PROVE  LET s == wiring[p]  i == SlotFor(mapping, wiring[p])
         IN  /\ s \in Serials /\ i \in SlotIndices
             /\ mapping' = [mapping EXCEPT ![s] = i]
             /\ file' \in {file, mapping'}
             /\ mapping[s] # NoSlot => i = mapping[s] /\ file' = file
             /\ mapping[s] = NoSlot => i \in FreeSlots(mapping)
             /\ mapping[s] = NoSlot /\ ~MappingFaults => file' = mapping'
<1> USE DEF TypeInv, TypeOK
<1>1. wiring[p] \in Serials
  BY DEF ProbeOk, Placements
<1>2. SlotFor(mapping, wiring[p]) \in SlotIndices \cup {NoSlot}
  BY <1>1, SlotForSpec
<1>3. SlotFor(mapping, wiring[p]) # NoSlot
  BY DEF ProbeOk
<1>4. mapping' = [mapping EXCEPT ![wiring[p]] = SlotFor(mapping, wiring[p])]
  BY DEF ProbeOk
<1>5. /\ file' \in {file, mapping'}
      /\ mapping[wiring[p]] # NoSlot => file' = file
      /\ mapping[wiring[p]] = NoSlot /\ ~MappingFaults => file' = mapping'
  BY DEF ProbeOk, Written
<1>6. /\ mapping[wiring[p]] # NoSlot =>
           SlotFor(mapping, wiring[p]) = mapping[wiring[p]]
      /\ mapping[wiring[p]] = NoSlot =>
           SlotFor(mapping, wiring[p]) \in FreeSlots(mapping)
  BY <1>1, <1>3, SlotForSpec
<1> QED BY <1>1, <1>2, <1>3, <1>4, <1>5, <1>6

\* Only a successful probe touches the file.
LEMMA FileUnchanged ==
  ASSUME [Next]_vars, \A p \in Ports : ~ProbeOk(p)
  PROVE  file' = file
BY DEF Next, ScanStep, BeginScan, RefreshOk, RefreshFail, BeginProbe, ProbeFail,
       ProbeBankFull, EndScan, Restart, Replug, Unplug, Plug, vars

\* And only a probe or the bounds of a scan touch the scan's mapping.
LEMMA MappingUnchanged ==
  ASSUME [Next]_vars, \A p \in Ports : ~ProbeOk(p)
  PROVE  \/ mapping' = mapping /\ phase' # "idle" /\ phase # "idle"
         \/ mapping' = mapping /\ phase' = phase
         \/ phase' = "idle" /\ mapping' = EmptyMapping
         \/ phase' = "refresh" /\ mapping' \in ReadableMappings
BY DEF Next, ScanStep, BeginScan, RefreshOk, RefreshFail, BeginProbe, ProbeFail,
       ProbeBankFull, EndScan, Restart, Replug, Unplug, Plug, vars

----------------------------------------------------------------------------
(* The mapping.                                                            *)

LEMMA MappingInjectiveStep ==
  TypeInv /\ MappingInjective /\ [Next]_vars => MappingInjective'
<1> SUFFICES ASSUME TypeInv, MappingInjective, [Next]_vars PROVE MappingInjective'
  OBVIOUS
<1>1. OneSerialPerSlot(EmptyMapping)
  BY DEF OneSerialPerSlot, EmptyMapping
<1>2. ASSUME NEW p \in Ports, ProbeOk(p) PROVE MappingInjective'
  <2> DEFINE s == wiring[p]
             i == SlotFor(mapping, wiring[p])
  <2>1. /\ s \in Serials /\ mapping' = [mapping EXCEPT ![s] = i]
        /\ file' \in {file, mapping'}
        /\ mapping[s] # NoSlot => i = mapping[s]
        /\ mapping[s] = NoSlot => i \in FreeSlots(mapping)
    BY <1>2, ProbeOkMapping
  <2> HIDE DEF s, i
  <2>2. mapping \in [Serials -> SlotIndices \cup {NoSlot}]
    BY DEF TypeInv, TypeOK, Mappings
  <2>3. OneSerialPerSlot(mapping')
    BY <2>1, <2>2 DEF MappingInjective, OneSerialPerSlot, FreeSlots
  <2> QED BY <2>1, <2>3 DEF MappingInjective, OneSerialPerSlot
<1>3. CASE \A p \in Ports : ~ProbeOk(p)
  <2>1. mapping' \in {mapping, EmptyMapping, file}
    BY <1>3, MappingUnchanged DEF ReadableMappings
  <2>2. file' = file
    BY <1>3, FileUnchanged
  <2> QED BY <1>1, <2>1, <2>2 DEF MappingInjective, OneSerialPerSlot
<1> QED BY <1>2, <1>3

\* Neither the file nor a scan's copy of it ever maps two packs to one slot,
\* with every failure the model has.
THEOREM MappingStaysInjective == Spec => []MappingInjective
<1>1. Init => MappingInjective
  BY DEF Init, MappingInjective, OneSerialPerSlot, EmptyMapping
<1> QED BY <1>1, TypeInvariant, MappingInjectiveStep, PTL DEF Spec

\* While a scan runs, its copy of the mapping is the file's content.
MappingIsFile == phase # "idle" => mapping = file

LEMMA MappingIsFileStep ==
  ~MappingFaults /\ TypeInv /\ MappingIsFile /\ [Next]_vars => MappingIsFile'
<1> SUFFICES ASSUME ~MappingFaults, TypeInv, MappingIsFile, [Next]_vars
             PROVE  MappingIsFile'
  OBVIOUS
<1>1. ASSUME NEW p \in Ports, ProbeOk(p) PROVE MappingIsFile'
  <2>1. phase # "idle"
    BY <1>1 DEF ProbeOk
  <2>2. mapping[wiring[p]] # NoSlot => mapping' = mapping
    BY <1>1, ProbeOkMapping DEF TypeInv, TypeOK, Mappings
  <2> QED BY <1>1, <2>1, <2>2, ProbeOkMapping DEF MappingIsFile
<1>2. CASE \A p \in Ports : ~ProbeOk(p)
  BY <1>2, FileUnchanged, MappingUnchanged DEF MappingIsFile, ReadableMappings
<1> QED BY <1>1, <1>2

LEMMA MappingIsFileInvariant == ASSUME ~MappingFaults
                                PROVE  Spec => []MappingIsFile
<1>1. Init => MappingIsFile
  BY DEF Init, MappingIsFile
<1>2. TypeInv /\ MappingIsFile /\ [Next]_vars => MappingIsFile'
  BY MappingIsFileStep
<1> QED BY <1>1, <1>2, TypeInvariant, PTL DEF Spec

LEMMA FileGrows ==
  ASSUME ~MappingFaults, TypeInv, MappingIsFile, [Next]_vars
  PROVE  \A s \in Serials : file[s] # NoSlot => file'[s] = file[s]
<1>1. ASSUME NEW p \in Ports, ProbeOk(p), NEW s \in Serials, file[s] # NoSlot
      PROVE  file'[s] = file[s]
  <2>1. mapping = file
    BY <1>1 DEF ProbeOk, MappingIsFile
  <2> QED BY <1>1, <2>1, ProbeOkMapping DEF TypeInv, TypeOK, Mappings
<1>2. CASE \A p \in Ports : ~ProbeOk(p)
  BY <1>2, FileUnchanged
<1> QED BY <1>1, <1>2

\* As long as the mapping file can be read and written, the slot it assigns to
\* a serial is never reassigned, through any number of kills and reboots.
THEOREM AssignmentsAreForever == ASSUME ~MappingFaults
                                 PROVE  Spec => NeverReassigned
<1>1. TypeInv /\ MappingIsFile /\ [Next]_vars =>
        [\A s \in Serials : file[s] # NoSlot => file'[s] = file[s]]_file
  BY FileGrows
<1>2. Spec => []MappingIsFile
  BY MappingIsFileInvariant
<1> QED
  BY <1>1, <1>2, TypeInvariant, PTL DEF Spec, NeverReassigned

----------------------------------------------------------------------------
(* The seats.                                                              *)

\* Every claimed slot holds the pack that is on its port, and the file agrees.
Seated(bank) ==
  \A i \in SlotIndices :
    bank[i].real_claimed =>
      /\ bank[i].serial \in Serials
      /\ wiring[bank[i].port] = bank[i].serial
      /\ file[bank[i].serial] = i

SeatInv == Seated(known) /\ Seated(result)

LEMMA SeatInvStep ==
  ASSUME ~Hotplug, ~MappingFaults, TypeInv, MappingIsFile, SeatInv, [Next]_vars
  PROVE  SeatInv'
<1> USE DEF TypeInv, TypeOK, SeatInv
<1>1. \A s \in Serials : file[s] # NoSlot => file'[s] = file[s]
  BY FileGrows
<1>2. CASE UNCHANGED vars
  BY <1>2 DEF vars, Seated
<1>3. CASE BeginScan
  <2>1. \A i \in SlotIndices :
           /\ result'[i].real_claimed = known[i].real_claimed
           /\ result'[i].port = known[i].port
           /\ result'[i].serial = known[i].serial
    <3>1. ASSUME NEW i \in SlotIndices
          PROVE  /\ CarriedForward(known)[i].real_claimed = known[i].real_claimed
                 /\ CarriedForward(known)[i].port = known[i].port
                 /\ CarriedForward(known)[i].serial = known[i].serial
      <4>1. known[i] \in Status
        BY DEF Banks
      <4> QED BY <4>1, CarriedStatus DEF CarriedForward
    <3> QED BY <1>3, <3>1 DEF BeginScan
  <2>2. UNCHANGED <<wiring, file, known>>
    BY <1>3 DEF BeginScan
  <2> QED BY <2>1, <2>2 DEF Seated
<1>4. ASSUME NEW i \in SlotIndices, RefreshOk(i) PROVE SeatInv'
  <2> DEFINE s == wiring[result[i].port]
             st == AfterGoodRead(result[i], s)
  <2>1. /\ result' = [result EXCEPT ![i] = st]
        /\ UNCHANGED <<wiring, file, known>>
    BY <1>4 DEF RefreshOk
  <2>2. result[i].real_claimed /\ result[i] \in Status
    BY <1>4 DEF RefreshOk, IsFirst, UnclaimedSlots, Banks
  <2>3. s \in Serials /\ s = result[i].serial
    BY <2>2 DEF Seated
  <2>4. /\ st.serial = result[i].serial /\ st.port = result[i].port
        /\ st.real_claimed
    BY <2>2, <2>3, GoodReadStatus
  <2> HIDE DEF st
  <2> QED BY <2>1, <2>2, <2>4 DEF Seated, Banks
<1>5. ASSUME NEW i \in SlotIndices, RefreshFail(i) PROVE SeatInv'
  <2>1. /\ result' = [result EXCEPT ![i] = AfterFailedRead(result[i])]
        /\ UNCHANGED <<wiring, file, known>>
    BY <1>5 DEF RefreshFail
  <2>2. result[i] \in Status
    BY DEF Banks
  <2>3. /\ AfterFailedRead(result[i]).serial = result[i].serial
        /\ AfterFailedRead(result[i]).port = result[i].port
        /\ AfterFailedRead(result[i]).real_claimed = result[i].real_claimed
    BY <2>2, FailedReadStatus
  <2> QED BY <2>1, <2>3 DEF Seated, Banks
<1>6. CASE BeginProbe
  BY <1>6 DEF BeginProbe, Seated
<1>7. ASSUME NEW p \in Ports, ProbeFail(p) \/ ProbeBankFull(p) PROVE SeatInv'
  BY <1>7 DEF ProbeFail, ProbeBankFull, Seated
<1>8. ASSUME NEW p \in Ports, ProbeOk(p) PROVE SeatInv'
  <2> DEFINE s == wiring[p]
             i == SlotFor(mapping, wiring[p])
  <2>1. UNCHANGED <<wiring, known>>
    BY <1>8 DEF ProbeOk
  <2>2. Seated(known)'
    <3>1. Seated(known)
      OBVIOUS
    <3> QED BY <1>1, <2>1, <3>1 DEF Seated, SlotIndices, NoSlot
  <2>3. s \in Serials /\ i \in SlotIndices /\ file'[s] = i
    <3>1. mapping = file
      BY <1>8 DEF ProbeOk, MappingIsFile
    <3> QED BY <1>8, <3>1, ProbeOkMapping DEF Mappings
  <2>4. CASE result[i].real_claimed
    <3>1. result' = result
      BY <1>8, <2>4 DEF ProbeOk
    <3> QED BY <1>1, <2>1, <2>2, <3>1 DEF Seated, SlotIndices, NoSlot
  <2>5. CASE ~result[i].real_claimed
    <3>1. result' = [result EXCEPT ![i] = Claimed(p, s)]
      BY <1>8, <2>5 DEF ProbeOk
    <3>2. Claimed(p, s).serial = s /\ Claimed(p, s).port = p
      BY DEF Claimed
    <3>3. \A k \in SlotIndices \ {i} : result'[k] = result[k]
      BY <3>1 DEF Banks
    <3>4. result'[i] = Claimed(p, s)
      BY <2>3, <3>1 DEF Banks
    <3> HIDE DEF i
    <3>5. \A k \in SlotIndices :
            result'[k].real_claimed =>
              /\ result'[k].serial \in Serials
              /\ wiring[result'[k].port] = result'[k].serial
              /\ file'[result'[k].serial] = k
      BY <1>1, <2>3, <3>2, <3>3, <3>4 DEF Seated, SlotIndices, NoSlot
    <3> QED BY <2>1, <2>2, <3>5 DEF Seated
  <2> QED BY <2>4, <2>5
<1>9. CASE EndScan
  <2>1. \A k \in SlotIndices :
          Filled(result[k], k).real_claimed => Filled(result[k], k) = result[k]
    BY FilledStatus DEF Banks
  <2>2. /\ result' = [k \in SlotIndices |-> Filled(result[k], k)]
        /\ known' = result' /\ UNCHANGED <<wiring, file>>
    BY <1>9 DEF EndScan
  <2> QED BY <2>1, <2>2 DEF Seated
<1>10. CASE Restart
  <2>1. \A k \in SlotIndices : ~EmptyBank[k].real_claimed
    BY DEF EmptyBank, EmptyStatus
  <2> QED BY <1>10, <2>1 DEF Restart, Seated
<1>11. CASE Replug
  BY <1>11 DEF Replug, Unplug, Plug
<1> QED
  BY <1>2, <1>3, <1>4, <1>5, <1>6, <1>7, <1>8, <1>9, <1>10, <1>11
  DEF Next, ScanStep

LEMMA SeatInvariant == ASSUME ~Hotplug, ~MappingFaults
                       PROVE  Spec => []SeatInv
<1>1. Init => SeatInv
  BY DEF Init, SeatInv, Seated, EmptyBank, EmptyStatus
<1>2. TypeInv /\ MappingIsFile /\ SeatInv /\ [Next]_vars => SeatInv'
  BY SeatInvStep
<1>3. Spec => []MappingIsFile
  BY MappingIsFileInvariant
<1> QED BY <1>1, <1>2, <1>3, TypeInvariant, PTL DEF Spec

\* With a working file and no port renumbered under the live daemon, a claimed
\* slot shows the pack the file assigns to it: the serial, never the port or
\* the order of arrival, decides.
THEOREM SeatsAreStable == ASSUME ~Hotplug, ~MappingFaults
                          PROVE  Spec => []SeatsMatchFile
<1>1. SeatInv => SeatsMatchFile
  BY DEF SeatInv, Seated, SeatsMatchFile
<1>2. Spec => []SeatInv
  BY SeatInvariant
<1> QED BY <1>1, <1>2, PTL

----------------------------------------------------------------------------
(* What a slot shows.                                                      *)

\* A claimed slot is never simulated; it keeps its pack's reading below the
\* threshold and has none from the threshold on.
ClaimedShape(st) ==
  st.real_claimed =>
    /\ ~st.simulated
    /\ st.serial # NoPack /\ st.serial # SimPack
    /\ st.data = IF st.fail_count < FailThreshold THEN st.serial ELSE NoPack

\* The same for a slot whose turn in the scan has come.
Settled(st) ==
  st.real_claimed => (st.present <=> st.fail_count < FailThreshold)

\* An unclaimed slot in a finished scan: padded or empty.
UnclaimedShape(st) ==
  ~st.real_claimed =>
    \/ Simulate /\ st.present /\ st.serial = SimPack /\ st.data = SimPack
       /\ st.simulated
    \/ ~st.present /\ st.data = NoPack /\ ~st.simulated

Shape ==
  \A i \in SlotIndices :
    /\ ClaimedShape(known[i]) /\ ClaimedShape(result[i])
    /\ Settled(known[i]) /\ UnclaimedShape(known[i])
    /\ phase # "idle" /\ ~result[i].real_claimed => ~result[i].present
    /\ phase = "idle" => known[i] = result[i]
    /\ (phase = "refresh" /\ i \in toRefresh) \/ Settled(result[i])
    /\ result[i].real_claimed => misses[i] = result[i].fail_count

LEMMA ShapeInit == Init => Shape
BY DEF Init, Shape, ClaimedShape, Settled, UnclaimedShape, EmptyBank, EmptyStatus

LEMMA CarriedShape ==
  ASSUME NEW st \in Status, ClaimedShape(st)
  PROVE  LET c == [st EXCEPT !.present = FALSE, !.simulated = FALSE]
         IN  ClaimedShape(c) /\ c.fail_count = st.fail_count
             /\ ~c.present /\ c.real_claimed = st.real_claimed
  BY DEF Status, ClaimedShape

LEMMA GoodReadShape ==
  ASSUME NEW st \in Status, NEW s \in Serials
  PROVE  LET g == AfterGoodRead(st, s)
         IN  ClaimedShape(g) /\ Settled(g) /\ g.fail_count = 0
             /\ g.real_claimed = st.real_claimed
  BY ConstantsAssumption DEF Status, ClaimedShape, Settled, AfterGoodRead

LEMMA FailedReadShape ==
  ASSUME NEW st \in Status, ClaimedShape(st)
  PROVE  LET f == AfterFailedRead(st)
         IN  ClaimedShape(f) /\ Settled(f) /\ f.real_claimed = st.real_claimed
             /\ f.fail_count = OneMore(st.fail_count)
<1>1. /\ OneMore(st.fail_count) \in 0 .. FailCap
      /\ OneMore(st.fail_count) < FailThreshold => st.fail_count < FailThreshold
  BY ConstantsAssumption DEF OneMore, Status
<1> QED BY <1>1 DEF AfterFailedRead, Status, ClaimedShape, Settled

LEMMA ClaimShape ==
  ASSUME NEW p \in Ports, NEW s \in Serials
  PROVE  LET c == Claimed(p, s)
         IN  ClaimedShape(c) /\ Settled(c) /\ c.real_claimed /\ c.fail_count = 0
  BY ConstantsAssumption DEF Claimed, ClaimedShape, Settled

LEMMA FilledShape ==
  ASSUME NEW st \in Status, NEW i \in SlotIndices,
         ClaimedShape(st), Settled(st), ~st.real_claimed => ~st.present
  PROVE  LET f == Filled(st, i)
         IN  ClaimedShape(f) /\ Settled(f) /\ UnclaimedShape(f)
             /\ (f.real_claimed => f = st)
  BY ConstantsAssumption
  DEF Filled, Padded, EmptyStatus, ClaimedShape, Settled, UnclaimedShape

LEMMA ShapeStep == ASSUME TypeInv, Shape, [Next]_vars PROVE Shape'
<1> USE DEF TypeInv, TypeOK
<1>0. \A i \in SlotIndices : known[i] \in Status /\ result[i] \in Status
  BY DEF Banks
<1>1. CASE UNCHANGED vars
  BY <1>1 DEF vars, Shape, ClaimedShape, Settled, UnclaimedShape
<1>2. CASE BeginScan
  <2>1. ASSUME NEW i \in SlotIndices
        PROVE  /\ ClaimedShape(result'[i]) /\ ~result'[i].present
               /\ result'[i].fail_count = known[i].fail_count
               /\ result'[i].real_claimed = known[i].real_claimed
    BY <1>0, <1>2, CarriedShape DEF BeginScan, CarriedForward, Shape
  <2>2. ASSUME NEW i \in SlotIndices
        PROVE  i \in toRefresh' \/ Settled(result'[i])
    BY <1>2, <2>1 DEF BeginScan, UnclaimedSlots, Settled
  <2>3. /\ phase = "idle" /\ phase' = "refresh" /\ UNCHANGED <<known, misses>>
    BY <1>2 DEF BeginScan
  <2> QED BY <2>1, <2>2, <2>3 DEF Shape, ClaimedShape, Settled, UnclaimedShape
<1>3. ASSUME NEW i \in SlotIndices, RefreshOk(i) PROVE Shape'
  <2> DEFINE st == AfterGoodRead(result[i], wiring[result[i].port])
  <2>1. wiring[result[i].port] \in Serials
    BY <1>3 DEF RefreshOk, IsFirst, Placements, ClaimedHavePorts, UnclaimedSlots
  <2>2. /\ ClaimedShape(st) /\ Settled(st) /\ st.fail_count = 0
        /\ st.real_claimed = result[i].real_claimed
    BY <1>0, <2>1, GoodReadShape
  <2>3. /\ result' = [result EXCEPT ![i] = st]
        /\ misses' = [misses EXCEPT ![i] = 0]
        /\ toRefresh' = toRefresh \ {i}
        /\ phase = "refresh" /\ UNCHANGED <<known, phase>>
        /\ result[i].real_claimed
    BY <1>3 DEF RefreshOk, IsFirst, UnclaimedSlots
  <2> HIDE DEF st
  <2>4. result'[i] = st /\ \A k \in SlotIndices \ {i} : result'[k] = result[k]
    BY <2>3 DEF Banks
  <2>5. ASSUME NEW k \in SlotIndices
        PROVE  /\ ClaimedShape(result'[k])
               /\ ~result'[k].real_claimed => ~result'[k].present
               /\ k \in toRefresh' \/ Settled(result'[k])
               /\ result'[k].real_claimed => misses'[k] = result'[k].fail_count
    BY <2>2, <2>3, <2>4 DEF Shape
  <2> QED BY <2>3, <2>5 DEF Shape, ClaimedShape, Settled, UnclaimedShape
<1>4. ASSUME NEW i \in SlotIndices, RefreshFail(i) PROVE Shape'
  <2> DEFINE st == AfterFailedRead(result[i])
  <2>1. ClaimedShape(result[i]) /\ result[i] \in Status
    BY <1>0 DEF Shape
  <2>2. /\ ClaimedShape(st) /\ Settled(st)
        /\ st.fail_count = OneMore(result[i].fail_count)
        /\ st.real_claimed = result[i].real_claimed
    BY <2>1, FailedReadShape
  <2>3. /\ result' = [result EXCEPT ![i] = st]
        /\ misses' = [misses EXCEPT ![i] = OneMore(misses[i])]
        /\ toRefresh' = toRefresh \ {i}
        /\ phase = "refresh" /\ UNCHANGED <<known, phase>>
        /\ result[i].real_claimed
    BY <1>4 DEF RefreshFail, IsFirst, UnclaimedSlots
  <2> HIDE DEF st
  <2>4. result'[i] = st /\ \A k \in SlotIndices \ {i} : result'[k] = result[k]
    BY <2>3 DEF Banks
  <2>5. ASSUME NEW k \in SlotIndices
        PROVE  /\ ClaimedShape(result'[k])
               /\ ~result'[k].real_claimed => ~result'[k].present
               /\ k \in toRefresh' \/ Settled(result'[k])
               /\ result'[k].real_claimed => misses'[k] = result'[k].fail_count
    BY <2>2, <2>3, <2>4 DEF Shape
  <2> QED BY <2>3, <2>5 DEF Shape, ClaimedShape, Settled, UnclaimedShape
<1>5. CASE BeginProbe
  BY <1>5 DEF BeginProbe, Shape, ClaimedShape, Settled, UnclaimedShape
<1>6. ASSUME NEW p \in Ports, ProbeFail(p) \/ ProbeBankFull(p) PROVE Shape'
  BY <1>6
  DEF ProbeFail, ProbeBankFull, Shape, ClaimedShape, Settled, UnclaimedShape
<1>7. ASSUME NEW p \in Ports, ProbeOk(p) PROVE Shape'
  <2> DEFINE s == wiring[p]
             i == SlotFor(mapping, wiring[p])
  <2>1. /\ s \in Serials /\ i \in SlotIndices
        /\ phase = "probe" /\ UNCHANGED <<known, phase, toRefresh>>
    BY <1>7, ProbeOkMapping DEF ProbeOk
  <2>2. CASE result[i].real_claimed
    <3>1. UNCHANGED <<result, misses>>
      BY <1>7, <2>2 DEF ProbeOk
    <3> QED BY <2>1, <3>1 DEF Shape, ClaimedShape, Settled, UnclaimedShape
  <2>3. CASE ~result[i].real_claimed
    <3>1. /\ result' = [result EXCEPT ![i] = Claimed(p, s)]
          /\ misses' = [misses EXCEPT ![i] = 0]
      BY <1>7, <2>3 DEF ProbeOk
    <3> DEFINE st == Claimed(p, s)
    <3>2. ClaimedShape(st) /\ Settled(st) /\ st.real_claimed /\ st.fail_count = 0
      BY <2>1, ClaimShape
    <3> HIDE DEF st, i
    <3>3. result'[i] = st /\ \A k \in SlotIndices \ {i} : result'[k] = result[k]
      BY <2>1, <3>1 DEF Banks, st
    <3>4. ASSUME NEW k \in SlotIndices
          PROVE  /\ ClaimedShape(result'[k]) /\ Settled(result'[k])
                 /\ ~result'[k].real_claimed => ~result'[k].present
                 /\ result'[k].real_claimed => misses'[k] = result'[k].fail_count
      BY <2>1, <3>1, <3>2, <3>3 DEF Shape
    <3> QED BY <2>1, <3>4 DEF Shape, ClaimedShape, Settled, UnclaimedShape
  <2> QED BY <2>2, <2>3
<1>8. CASE EndScan
  <2>1. /\ phase = "probe" /\ phase' = "idle" /\ misses' = misses
        /\ result' = [i \in SlotIndices |-> Filled(result[i], i)]
        /\ known' = result'
    BY <1>8 DEF EndScan
  <2>2. ASSUME NEW i \in SlotIndices
        PROVE  /\ ClaimedShape(result'[i]) /\ Settled(result'[i])
               /\ UnclaimedShape(result'[i])
               /\ result'[i].real_claimed => result'[i] = result[i]
    <3>1. /\ ClaimedShape(result[i]) /\ Settled(result[i])
          /\ ~result[i].real_claimed => ~result[i].present
      BY <2>1 DEF Shape
    <3> QED BY <1>0, <2>1, <3>1, FilledShape
  <2> QED BY <2>1, <2>2 DEF Shape, ClaimedShape, Settled, UnclaimedShape
<1>9. CASE Restart
  BY <1>9
  DEF Restart, Shape, ClaimedShape, Settled, UnclaimedShape, EmptyBank, EmptyStatus
<1>10. CASE Replug
  BY <1>10
  DEF Replug, Unplug, Plug, Shape, ClaimedShape, Settled, UnclaimedShape
<1> QED
  BY <1>1, <1>2, <1>3, <1>4, <1>5, <1>6, <1>7, <1>8, <1>9, <1>10
  DEF Next, ScanStep

LEMMA ShapeInvariant == Spec => []Shape
<1>1. TypeInv /\ Shape /\ [Next]_vars => Shape'
  BY ShapeStep
<1> QED BY <1>1, ShapeInit, TypeInvariant, PTL DEF Spec

\* After every scan a claimed slot is present exactly while fewer than
\* FAIL_THRESHOLD reads in a row have failed.
THEOREM PresenceIsHonest == Spec => []PresenceTracksFailures
<1>1. Shape => PresenceTracksFailures
  BY DEF Shape, Settled, PresenceTracksFailures
<1> QED BY <1>1, ShapeInvariant, PTL

\* A slot has a reading exactly when it is present, and it is its own pack's.
THEOREM ReadingsBelong == Spec => []PresentHasData
<1>1. TypeInv /\ Shape => PresentHasData
  BY ConstantsAssumption
  DEF Shape, ClaimedShape, Settled, UnclaimedShape, PresentHasData, TypeInv, TypeOK,
      Banks, Status
<1> QED BY <1>1, ShapeInvariant, TypeInvariant, PTL

\* Simulated readings never stand in for a pack that was ever claimed.
THEOREM PaddingIsHarmless == Spec => []SimulationNeverMasks
<1>1. Shape => SimulationNeverMasks
  BY ConstantsAssumption
  DEF Shape, ClaimedShape, Settled, UnclaimedShape, SimulationNeverMasks
<1> QED BY <1>1, ShapeInvariant, PTL

----------------------------------------------------------------------------
(* The refinement.                                                         *)

\* What is displayed is always a pack in its own slot.
InPlace ==
  /\ ShownPacks \in [SlotIndices -> Serials \cup {NoPack}]
  /\ \A i \in SlotIndices : ShownPacks[i] # NoPack => file[ShownPacks[i]] = i

LEMMA ShownInPlace == TypeInv /\ Shape /\ SeatInv => InPlace
<1> SUFFICES ASSUME TypeInv, Shape, SeatInv, NEW i \in SlotIndices
             PROVE  /\ ShownPacks[i] \in Serials \cup {NoPack}
                    /\ ShownPacks[i] # NoPack => file[ShownPacks[i]] = i
  BY DEF InPlace, ShownPacks
<1>1. CASE known[i].present /\ ~known[i].simulated
  <2>1. known[i].real_claimed
    BY <1>1 DEF Shape, UnclaimedShape
  <2>2. known[i].data = known[i].serial
    BY <1>1, <2>1 DEF Shape, ClaimedShape, Settled
  <2> QED BY <1>1, <2>1, <2>2 DEF SeatInv, Seated, ShownPacks
<1>2. CASE ~(known[i].present /\ ~known[i].simulated)
  BY <1>2 DEF ShownPacks
<1> QED BY <1>1, <1>2

LEMMA DirectoryStep ==
  ASSUME ~MappingFaults, TypeInv, MappingIsFile,
         TypeInv', Shape', SeatInv', [Next]_vars
  PROVE  [Directory!DirNext]_<<file, ShownPacks>>
<1>1. CASE file' = file
  <2>1. InPlace'
    BY ShownInPlace, PTL
  <2> QED BY <1>1, <2>1 DEF InPlace, Directory!DirNext, Directory!Publish
<1>2. ASSUME NEW p \in Ports, ProbeOk(p), file' # file
      PROVE  Directory!DirNext
  <2> DEFINE s == wiring[p]
             i == SlotFor(mapping, wiring[p])
  <2>1. mapping = file
    BY <1>2 DEF ProbeOk, MappingIsFile
  <2>2. s \in Serials /\ i # NoSlot
    BY <1>2, ProbeOkMapping DEF ProbeOk
  <2>3. file[s] = NoSlot /\ file' = [file EXCEPT ![s] = i]
    BY <1>2, <2>1, ProbeOkMapping
  <2>4. i \in FreeSlots(file) /\ \A j \in FreeSlots(file) : i <= j
    <3>1. mapping \in Mappings
      BY DEF TypeInv, TypeOK
    <3> QED BY <2>1, <2>2, <2>3, <3>1, SlotForSpec
  <2>5. UNCHANGED ShownPacks
    BY <1>2 DEF ProbeOk, ShownPacks
  <2> HIDE DEF s, i
  <2>6. Directory!Assign(s)
    BY <2>3, <2>4, <2>5 DEF Directory!Assign, Directory!Unused, FreeSlots
  <2> QED BY <2>2, <2>6 DEF Directory!DirNext
<1> QED BY <1>1, <1>2, FileUnchanged

\* With a working file and no renumbering under the live daemon, discovery with
\* all its scans, failures, kills and reboots implements the pack directory.
THEOREM ScansImplementDirectory == ASSUME ~Hotplug, ~MappingFaults
                                   PROVE  Spec => ImplementsDirectory
<1>1. Init => Directory!DirInit
  BY DEF Init, Directory!DirInit, EmptyMapping, ShownPacks, EmptyBank, EmptyStatus
<1>2. /\ TypeInv /\ MappingIsFile
      /\ TypeInv' /\ Shape' /\ SeatInv' /\ [Next]_vars
      => [Directory!DirNext]_<<file, ShownPacks>>
  BY DirectoryStep
<1>3. Spec => [](TypeInv /\ MappingIsFile /\ Shape /\ SeatInv)
  BY TypeInvariant, MappingIsFileInvariant, ShapeInvariant, SeatInvariant, PTL
<1> QED BY <1>1, <1>2, <1>3, PTL DEF Spec, ImplementsDirectory, Directory!DirSpec

=============================================================================
