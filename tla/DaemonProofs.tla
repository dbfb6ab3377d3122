---------------------------- MODULE DaemonProofs ----------------------------
(***************************************************************************)
(* What the main loop keeps true, for every capacity and every queue.       *)
(***************************************************************************)
EXTENDS Daemon, TLAPS

----------------------------------------------------------------------------
(* The weakest pack.                                                       *)

LEMMA PresentCharges ==
  ASSUME NEW ps \in Packs
  PROVE  /\ Present(ps) \subseteq Charges
         /\ Present(ps) = {} <=> \A i \in Slots : ps[i] = None
         /\ \A i \in Slots : ps[i] # None => ps[i] \in Present(ps)
BY ConstantsAssumption DEF Present, Packs, Socs, Charges

LEMMA WeakestExists ==
  ASSUME NEW ps \in Packs, Present(ps) # {}
  PROVE  \E x \in Present(ps) : \A y \in Present(ps) : x <= y
<1> DEFINE a == ps[1]
           b == ps[2]
<1>1. a \in Socs /\ b \in Socs
  BY DEF Packs, Slots
<1>2. Present(ps) = {a, b} \ {None}
  BY DEF Present, Slots
<1> HIDE DEF a, b
<1>3. CASE a = None
  BY <1>1, <1>2, <1>3, ConstantsAssumption DEF Socs, Charges
<1>4. CASE b = None
  BY <1>1, <1>2, <1>4, ConstantsAssumption DEF Socs, Charges
<1>5. CASE a # None /\ b # None
  <2>1. a \in Int /\ b \in Int /\ Present(ps) = {a, b}
    BY <1>1, <1>2, <1>5, ConstantsAssumption DEF Socs, Charges
  <2>2. a <= b \/ b <= a
    BY <2>1
  <2>3. QED
    BY <2>1, <2>2
<1>6. QED
  BY <1>3, <1>4, <1>5

\* The bank has a SoC if and only if a pack is present, and then that of a
\* pack no fuller than any other.
LEMMA WeakestLimits ==
  ASSUME NEW ps \in Packs
  PROVE  /\ BankSoc(ps) \in Socs
         /\ BankSoc(ps) = None <=> Present(ps) = {}
         /\ \A i \in Slots : ps[i] # None => BankSoc(ps) <= ps[i]
<1>1. CASE Present(ps) = {}
  BY <1>1, PresentCharges DEF BankSoc, Socs
<1>2. CASE Present(ps) # {}
  <2>1. BankSoc(ps) = CHOOSE x \in Present(ps) : \A y \in Present(ps) : x <= y
    BY <1>2 DEF BankSoc
  <2>2. BankSoc(ps) \in Present(ps) /\ \A y \in Present(ps) : BankSoc(ps) <= y
    BY <2>1, <1>2, WeakestExists
  <2>3. BankSoc(ps) \in Charges /\ BankSoc(ps) # None
    BY <2>2, PresentCharges, ConstantsAssumption DEF Charges
  <2>4. \A i \in Slots : ps[i] # None => BankSoc(ps) <= ps[i]
    BY <2>2, PresentCharges
  <2>5. QED
    BY <1>2, <2>3, <2>4 DEF Socs
<1>3. QED
  BY <1>1, <1>2

----------------------------------------------------------------------------
(* What a scan publishes.                                                  *)

\* The published values b are those of a scan that yields ps.
Shows(b, ps) == b.battery = ps /\ b.soc = BankSoc(ps)
                /\ (b.connected = 0 <=> Present(ps) = {})

\* What a published scan contains, whoever publishes it.
LEMMA UpdatedType ==
  ASSUME NEW b \in Published, NEW ps \in Packs, NEW c \in Socs
  PROVE  /\ Updated(b, ps, c) \in Published
         /\ Shows(Updated(b, ps, c), ps)
         /\ Updated(b, ps, c).redetect = b.redetect
<1>1. BankSoc(ps) \in Socs
  BY WeakestLimits
<1>2. QED
  BY <1>1 DEF Updated, Published, Shows

LEMMA ApproximationType ==
  ASSUME NEW soc \in Socs
  PROVE  Approximation(soc) \in Socs
BY ConstantsAssumption DEF Approximation, Socs, Charges

LEMMA HistoryType ==
  ASSUME NEW soc \in Socs, NEW h \in Histories, NEW x \in HistoryAfter(h, soc)
  PROVE  x \in Histories /\ Merged(soc, x.consumed) \in Socs
<1>1. x \in Histories
  <2>1. CASE soc = None
    BY <2>1 DEF HistoryAfter
  <2>2. CASE soc # None /\ soc = Capacity /\ h.armed
    <3>1. x = [consumed |-> 0, armed |-> FALSE]
      BY <2>2 DEF HistoryAfter
    <3>2. 0 \in Socs
      BY ConstantsAssumption DEF Socs, Charges
    <3>3. QED
      BY <3>1, <3>2 DEF Histories
  <2>3. CASE soc # None /\ ~(soc = Capacity /\ h.armed)
    <3> DEFINE base == IF h.consumed = None THEN Approximation(soc) ELSE h.consumed
               C == {y \in Charges : y - base \in -1 .. 1}
               A == {h.armed \/ soc < RearmSoc}
    <3>1. x \in [consumed : C, armed : A]
      BY <2>3 DEF HistoryAfter
    <3> HIDE DEF A, C
    <3>2. x = [consumed |-> x.consumed, armed |-> x.armed]
          /\ x.consumed \in C /\ x.armed \in A
      BY <3>1
    <3>3. x.armed \in BOOLEAN /\ x.consumed \in Socs
      BY <3>2 DEF A, C, Socs
    <3>4. QED
      BY <3>2, <3>3 DEF Histories
  <2>4. QED
    BY <2>1, <2>2, <2>3
<1>2. x.consumed \in Socs
  BY <1>1 DEF Histories
<1>3. QED
  BY <1>1, <1>2, ApproximationType DEF Merged

\* Values that show a scan fit together.
LEMMA ShownFits ==
  ASSUME NEW ps \in Packs, NEW b, Shows(b, ps)
  PROVE  /\ b.connected = 0 <=> \A i \in Slots : b.battery[i] = None
         /\ b.soc = None <=> b.connected = 0
         /\ \A i \in Slots : b.battery[i] # None => b.soc <= b.battery[i]
BY PresentCharges, WeakestLimits DEF Shows

\* Whatever a cycle changes, it leaves the published values in agreement with
\* the scan and /Redetect alone.
LEMMA CycleFacts ==
  ASSUME NEW b \in Published, NEW ps \in Packs, NEW h \in Histories,
         RunCycle(b, h, ps)
  PROVE  /\ packs' = ps
         /\ history' \in Histories
         /\ bus' \in Published
         /\ BusIsScan'
         /\ bus'.redetect = b.redetect
<1>1. packs' = ps /\ history' \in HistoryAfter(h, BankSoc(ps))
  BY DEF RunCycle
<1>2. /\ history' \in Histories
      /\ Merged(BankSoc(ps), history'.consumed) \in Socs
  BY <1>1, HistoryType, WeakestLimits
<1>3. bus' = Updated(b, ps, Merged(BankSoc(ps), history'.consumed))
  BY DEF RunCycle
<1>4. /\ bus' \in Published
      /\ Shows(bus', ps)
      /\ bus'.redetect = b.redetect
  BY <1>2, <1>3, UpdatedType
<1>5. BusIsScan'
  BY <1>1, <1>4, ShownFits DEF BusIsScan, Shows
<1>6. QED
  BY <1>1, <1>2, <1>4, <1>5

LEMMA EmptySequence == <<>> \in Seq(Writes)
OBVIOUS

LEMMA UnpublishedType == Unpublished \in Published
<1>1. 1 \in Selections
  BY ConstantsAssumption DEF Selections, IntOf, Slots
<1>2. [i \in Slots |-> None] \in Packs
  BY DEF Packs, Socs
<1>3. QED
  BY <1>1, <1>2, ConstantsAssumption DEF Unpublished, Published, Socs

----------------------------------------------------------------------------
(* The invariant; each part is preserved with the help of TypeOK.           *)

LoopInv == TypeOK /\ ResetScheduled /\ BusIsScan

LEMMA LoopInit == Init => LoopInv
<1> SUFFICES ASSUME Init PROVE LoopInv
  OBVIOUS
<1>1. PICK ps \in Packs, h \in Histories :
        /\ packs = ps
        /\ history \in HistoryAfter(h, BankSoc(ps))
        /\ bus = Updated(Unpublished, ps, Merged(BankSoc(ps), history.consumed))
  BY DEF Init
<1>2. /\ history \in Histories
      /\ Merged(BankSoc(ps), history.consumed) \in Socs
  BY <1>1, HistoryType, WeakestLimits
<1>3. /\ bus \in Published
      /\ Shows(bus, ps)
      /\ bus.redetect = Unpublished.redetect
  BY <1>1, <1>2, UpdatedType, UnpublishedType
<1>4. BusIsScan
  BY <1>1, <1>3, ShownFits DEF BusIsScan, Shows
<1>5. ResetScheduled
  BY <1>3 DEF Unpublished, ResetScheduled, Truthy
<1>6. TypeOK
  <2>1. timerDue \in BOOLEAN
    BY DEF Init
  <2>2. inbox \in Seq(Writes)
    BY EmptySequence DEF Init
  <2>3. packs \in Packs /\ idle \in Nat
    BY <1>1 DEF Init
  <2>4. QED
    BY <1>2, <1>3, <2>1, <2>2, <2>3 DEF TypeOK
<1>7. QED
  BY <1>4, <1>5, <1>6 DEF LoopInv

LEMMA ReceiveType ==
  ASSUME NEW path, inbox \in Seq(Writes), Receive(path)
  PROVE  /\ inbox' \in Seq(Writes)
         /\ Head(inbox) \in Writes
         /\ Head(inbox).path = path
BY DEF Receive

\* Storing a value of /Redetect changes nothing else.
LEMMA StoredFacts ==
  ASSUME NEW b \in Published, NEW v \in Presses
  PROVE  /\ Stored(b, v) \in Published
         /\ Stored(b, v).redetect = v
         /\ Stored(b, v).battery = b.battery
         /\ Stored(b, v).soc = b.soc
         /\ Stored(b, v).connected = b.connected
BY DEF Stored, Published

\* The selector is the only value a request changes, and it selects a pack.
LEMMA SelectedFacts ==
  ASSUME NEW b \in Published, NEW id \in Ids
  PROVE  /\ Selected(b, id) \in Published
         /\ Selected(b, id).redetect = b.redetect
         /\ Selected(b, id).battery = b.battery
         /\ Selected(b, id).soc = b.soc
         /\ Selected(b, id).connected = b.connected
<1> DEFINE r == IF IntOf(id) \in Slots THEN id ELSE b.request
<1>1. r \in Selections
  BY DEF Selections, Published
<1>2. Selected(b, id) = [b EXCEPT !.request = r]
  BY DEF Selected
<1> HIDE DEF r
<1>3. QED
  BY <1>1, <1>2 DEF Published

\* The bank shown stays the bank scanned if neither is touched.
LEMMA BankKept ==
  ASSUME BusIsScan, packs' = packs, bus'.battery = bus.battery,
         bus'.soc = bus.soc, bus'.connected = bus.connected
  PROVE  BusIsScan'
BY DEF BusIsScan

LEMMA LoopStep == LoopInv /\ [Next]_vars => LoopInv'
<1> SUFFICES ASSUME LoopInv, [Next]_vars PROVE LoopInv'
  OBVIOUS
<1> USE DEF LoopInv
<1>1. CASE Restart
  <2>1. PICK ps \in Packs, h \in Histories : RunCycle(Unpublished, h, ps)
    BY <1>1 DEF Restart
  <2>2. /\ packs' = ps /\ history' \in Histories /\ bus' \in Published
        /\ BusIsScan' /\ bus'.redetect = Unpublished.redetect
    BY <2>1, CycleFacts, UnpublishedType
  <2>3. TypeOK'
    <3>1. timerDue' \in BOOLEAN
      BY <1>1 DEF Restart
    <3>2. inbox' \in Seq(Writes)
      BY <1>1, EmptySequence DEF Restart
    <3>3. packs' \in Packs /\ idle' \in Nat
      BY <1>1, <2>2 DEF Restart
    <3>4. QED
      BY <2>2, <3>1, <3>2, <3>3 DEF TypeOK
  <2>4. ResetScheduled'
    BY <2>2 DEF ResetScheduled, Unpublished, Truthy
  <2>5. QED
    BY <2>2, <2>3, <2>4
<1>2. CASE TimerExpires
  BY <1>2 DEF TimerExpires, TypeOK, ResetScheduled, BusIsScan
<1>3. CASE Poll
  <2>1. PICK ps \in Packs : RunCycle(bus, history, ps)
    BY <1>3 DEF Poll
  <2>2. /\ packs' = ps /\ history' \in Histories /\ bus' \in Published
        /\ BusIsScan' /\ bus'.redetect = bus.redetect
    BY <2>1, CycleFacts DEF TypeOK
  <2>3. TypeOK'
    BY <1>3, <2>2, ConstantsAssumption DEF Poll, TypeOK
  <2>4. ResetScheduled'
    BY <1>3, <2>2 DEF Poll, ResetScheduled
  <2>5. QED
    BY <2>2, <2>3, <2>4
<1>4. CASE ResetRedetect
  <2>1. 0 \in Presses /\ bus \in Published /\ bus' = Stored(bus, 0)
    BY <1>4, ConstantsAssumption DEF ResetRedetect, TypeOK
  <2>2. BusIsScan'
    BY <1>4, <2>1, StoredFacts, BankKept DEF ResetRedetect
  <2>3. bus' \in Published /\ ResetScheduled'
    BY <2>1, StoredFacts DEF ResetScheduled, Truthy
  <2>4. TypeOK'
    BY <1>4, <2>3 DEF ResetRedetect, TypeOK
  <2>5. QED
    BY <2>2, <2>3, <2>4
<1>5. CASE HandleSame
  <2>1. inbox' \in Seq(Writes)
    BY <1>5, ReceiveType DEF HandleSame, TypeOK
  <2>2. QED
    BY <1>5, <2>1 DEF HandleSame, TypeOK, ResetScheduled, BusIsScan
<1>6. CASE HandleClear
  <2> DEFINE v == Head(inbox).value
  <2>1. inbox' \in Seq(Writes) /\ v \in Presses
    BY <1>6, ReceiveType DEF HandleClear, TypeOK, Writes
  <2>2. bus' = Stored(bus, v) /\ ~Truthy(v) /\ bus \in Published
    BY <1>6 DEF HandleClear, TypeOK
  <2> HIDE DEF v
  <2>3. BusIsScan'
    BY <1>6, <2>1, <2>2, StoredFacts, BankKept DEF HandleClear
  <2>4. bus' \in Published /\ ResetScheduled'
    BY <2>1, <2>2, StoredFacts DEF ResetScheduled
  <2>5. TypeOK'
    BY <1>6, <2>1, <2>4 DEF HandleClear, TypeOK
  <2>6. QED
    BY <2>3, <2>4, <2>5
<1>7. CASE HandleRedetect
  <2> DEFINE v == Head(inbox).value
  <2>1. inbox' \in Seq(Writes) /\ v \in Presses
    BY <1>7, ReceiveType DEF HandleRedetect, TypeOK, Writes
  <2>2. PICK ps \in Packs : packs' = ps /\ bus' = Stored(Rescanned(bus, ps), v)
    BY <1>7 DEF HandleRedetect
  <2> DEFINE r == Rescanned(bus, ps)
  <2>3. r \in Published /\ Shows(r, ps)
    BY UpdatedType, ApproximationType, WeakestLimits DEF Rescanned, TypeOK
  <2>4. bus' = Stored(r, v)
    BY <2>2
  <2> HIDE DEF r, v
  <2>5. bus' \in Published /\ Shows(bus', ps)
    BY <2>1, <2>3, <2>4, StoredFacts DEF Shows
  <2>6. BusIsScan'
    BY <2>2, <2>5, ShownFits DEF BusIsScan, Shows
  <2>7. idle' \in Nat /\ idle' > 0
    BY <1>7 DEF HandleRedetect, ResetsQueued, TypeOK
  <2>8. TypeOK'
    BY <1>7, <2>1, <2>2, <2>5, <2>7 DEF HandleRedetect, TypeOK
  <2>9. QED
    BY <2>6, <2>7, <2>8 DEF ResetScheduled
<1>8. CASE HandleRequest
  <2> DEFINE id == Head(inbox).value
  <2>1. inbox' \in Seq(Writes) /\ id \in Ids
    BY <1>8, ReceiveType DEF HandleRequest, TypeOK, Writes
  <2>2. bus' = Selected(bus, id) /\ bus \in Published
    BY <1>8 DEF HandleRequest, TypeOK
  <2> HIDE DEF id
  <2>3. bus' \in Published /\ bus'.redetect = bus.redetect /\ BusIsScan'
    BY <1>8, <2>1, <2>2, SelectedFacts, BankKept DEF HandleRequest
  <2>4. TypeOK' /\ ResetScheduled'
    BY <1>8, <2>1, <2>3 DEF HandleRequest, TypeOK, ResetScheduled
  <2>5. QED
    BY <2>3, <2>4
<1>9. ASSUME NEW w \in Writes, Send(w) PROVE LoopInv'
  BY <1>9 DEF Send, TypeOK, ResetScheduled, BusIsScan
<1>10. CASE UNCHANGED vars
  BY <1>10 DEF vars, TypeOK, ResetScheduled, BusIsScan
<1>11. QED
  BY <1>1, <1>2, <1>3, <1>4, <1>5, <1>6, <1>7, <1>8, <1>9, <1>10 DEF Next

LEMMA LoopCorrect == Spec => []LoopInv
BY LoopInit, LoopStep, PTL DEF Spec

\* The published values and the queues are well formed; the pack selector
\* selects a pack whatever clients write.
THEOREM TypeCorrect == Spec => []TypeOK
<1>1. LoopInv => TypeOK
  BY DEF LoopInv
<1>2. QED
  BY <1>1, LoopCorrect, PTL

\* /Redetect is never set without a queued reset.
THEOREM ResetIsScheduled == Spec => []ResetScheduled
<1>1. LoopInv => ResetScheduled
  BY DEF LoopInv
<1>2. QED
  BY <1>1, LoopCorrect, PTL

\* Readers of the bus and the next scan see the same bank, and it fits
\* together.
THEOREM BusShowsScan == Spec => []BusIsScan
<1>1. LoopInv => BusIsScan
  BY DEF LoopInv
<1>2. QED
  BY <1>1, LoopCorrect, PTL

----------------------------------------------------------------------------
(* Full charges.                                                           *)

\* A cycle disarms the detection only at full SoC.
LEMMA DisarmedAtFull ==
  ASSUME NEW soc, NEW h, NEW x \in HistoryAfter(h, soc), h.armed, ~x.armed
  PROVE  soc = Capacity
<1> SUFFICES ASSUME soc # Capacity PROVE FALSE
  OBVIOUS
<1>1. CASE soc = None
  BY <1>1 DEF HistoryAfter
<1>2. CASE soc # None
  <2>1. x.armed = (h.armed \/ soc < RearmSoc)
    BY <1>2 DEF HistoryAfter
  <2>2. QED
    BY <2>1
<1>3. QED
  BY <1>1, <1>2

\* A full charge is counted only when every pack that is present is full.
THEOREM FullChargesAreReal == Spec => FullChargeIsEveryPacks
<1> DEFINE Full == \A i \in Slots : packs'[i] \in {Capacity, None}
<1>1. ASSUME Poll, history.armed, ~history'.armed PROVE Full
  <2>1. PICK ps \in Packs :
          packs' = ps /\ history' \in HistoryAfter(history, BankSoc(ps))
    BY <1>1 DEF Poll, RunCycle
  <2>2. BankSoc(ps) = Capacity
    BY <1>1, <2>1, DisarmedAtFull
  <2>3. \A i \in Slots : ps[i] # None => Capacity <= ps[i]
    BY <2>2, WeakestLimits
  <2>4. QED
    BY <2>1, <2>3, ConstantsAssumption DEF Packs, Socs, Charges
<1>2. [Next]_vars => [Poll /\ history.armed /\ ~history'.armed => Full]_vars
  BY <1>1
<1>3. QED
  BY <1>2, PTL DEF Spec, FullChargeIsEveryPacks

=============================================================================
