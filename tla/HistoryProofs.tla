--------------------------- MODULE HistoryProofs ---------------------------
(***************************************************************************)
(* What holds of the history for every capacity, threshold, interval and   *)
(* bound of exploration.                                                   *)
(***************************************************************************)
EXTENDS History, TLAPS

----------------------------------------------------------------------------
(* What one call of update_history() does.                                 *)

Total(h) == h.charged + h.drawn

\* The part of the state that the two clamps keep in range once it is seeded.
SeededStates == {h \in States : h.consumed \in 0 .. Capacity}

\* The interval integrated is never negative and never above the limit.
LEMMA IntervalBounded ==
  ASSUME NEW h \in States, NEW t \in Int
  PROVE  /\ Interval(h, t) \in 0 .. MaxDt
         /\ h.last_update # Absent /\ t >= h.last_update
              => Interval(h, t) <= t - h.last_update
         /\ h.last_update = Absent => Interval(h, t) = 0
  BY ConstantsAssumption DEF Interval, States

\* Seeding gives the counter a value within the bank and touches nothing else.
LEMMA SeededFacts ==
  ASSUME NEW h \in States, NEW r \in Readings \ {Absent}
  PROVE  /\ Seeded(h, r) \in SeededStates
         /\ Seeded(h, r) = [h EXCEPT !.consumed = Seeded(h, r).consumed]
<1>1. r \in [current : Currents, soc : 0 .. Capacity]
  BY DEF Readings
<1>2. r.soc \in 0 .. Capacity
  BY <1>1
<1>3. Capacity - r.soc \in 0 .. Capacity
  BY <1>2, ConstantsAssumption
<1>4. CASE h.consumed = Unset
  BY <1>3, <1>4 DEF Seeded, States, SeededStates
<1>5. CASE h.consumed # Unset
  BY <1>5 DEF Seeded, States, SeededStates
<1> QED  BY <1>4, <1>5

\* Integration keeps the counter within the bank and only adds to the
\* lifetime counters, by the charge integrated.
LEMMA IntegratedFacts ==
  ASSUME NEW h \in SeededStates, NEW q \in Int
  PROVE  /\ Integrated(h, q) \in SeededStates
         /\ Integrated(h, q).charged >= h.charged
         /\ Integrated(h, q).drawn >= h.drawn
         /\ Total(Integrated(h, q)) = Total(h) + (IF q > 0 THEN q ELSE -q)
         /\ Integrated(h, q).cycles = h.cycles
         /\ Integrated(h, q).armed = h.armed
         /\ Integrated(h, q).deepest = h.deepest
         /\ Integrated(h, q).last_update = h.last_update
<1> DEFINE filled == Greatest(0, h.consumed - q)
           emptied == Least(Capacity, h.consumed - q)
<1>0. h \in States /\ h.consumed \in 0 .. Capacity
  BY DEF SeededStates
<1>1. CASE q > 0
  <2>1. filled \in 0 .. Capacity
    BY <1>1, ConstantsAssumption DEF Greatest, SeededStates, States
  <2>2. h.charged + q \in Nat
    BY <1>1 DEF SeededStates, States
  <2>3. Integrated(h, q) =
          [charged |-> h.charged + q, drawn |-> h.drawn, consumed |-> filled,
           deepest |-> h.deepest, cycles |-> h.cycles, armed |-> h.armed,
           last_update |-> h.last_update]
    BY <1>0, <1>1 DEF Integrated, States
  <2> HIDE DEF filled
  <2>4. Integrated(h, q) \in States
    BY <1>0, <2>1, <2>2, <2>3 DEF States
  <2> QED  BY <1>0, <1>1, <2>1, <2>3, <2>4 DEF SeededStates, States, Total
<1>2. CASE q < 0
  <2>1. emptied \in 0 .. Capacity
    BY <1>2, ConstantsAssumption DEF Least, SeededStates, States
  <2>2. h.drawn - q \in Nat
    BY <1>2 DEF SeededStates, States
  <2>0. ~(q > 0)
    BY <1>2
  <2>3. Integrated(h, q) =
          [charged |-> h.charged, drawn |-> h.drawn - q, consumed |-> emptied,
           deepest |-> h.deepest, cycles |-> h.cycles, armed |-> h.armed,
           last_update |-> h.last_update]
    BY <1>0, <1>2, <2>0 DEF Integrated, States
  <2> HIDE DEF emptied
  <2>4. Integrated(h, q) \in States
    BY <1>0, <2>1, <2>2, <2>3 DEF States
  <2> QED  BY <1>0, <1>2, <2>1, <2>3, <2>4 DEF SeededStates, States, Total
<1>3. CASE q = 0
  BY <1>3 DEF Integrated, SeededStates, States, Total
<1> QED  BY <1>1, <1>2, <1>3

\* Full-charge detection.
LEMMA CountedFacts ==
  ASSUME NEW h \in SeededStates, NEW soc \in 0 .. Capacity
  PROVE  /\ Counted(h, soc) \in SeededStates
         /\ Counted(h, soc).charged = h.charged
         /\ Counted(h, soc).drawn = h.drawn
         /\ Counted(h, soc).deepest >= h.deepest
         /\ Counted(h, soc).last_update = h.last_update
         /\ Counted(h, soc).cycles
              = IF soc >= FullSoc /\ h.armed THEN h.cycles + 1 ELSE h.cycles
         /\ Counted(h, soc).armed
              <=> (h.armed /\ ~(soc >= FullSoc)) \/ soc < RearmSoc
<1>0. h \in States /\ h.consumed \in 0 .. Capacity
  BY DEF SeededStates
<1>1. CASE soc >= FullSoc /\ h.armed
  <2> DEFINE deep == Greatest(h.deepest, h.consumed)
  <2>1. deep \in 0 .. Capacity /\ deep >= h.deepest
    BY <1>0, ConstantsAssumption DEF Greatest, States
  <2>2. Counted(h, soc) =
          [charged |-> h.charged, drawn |-> h.drawn, consumed |-> 0,
           deepest |-> deep, cycles |-> h.cycles + 1, armed |-> FALSE,
           last_update |-> h.last_update]
    BY <1>0, <1>1 DEF Counted, States
  <2>3. ~(soc < RearmSoc)
    BY <1>1, ConstantsAssumption
  <2>4. 0 \in 0 .. Capacity
    BY ConstantsAssumption
  <2> HIDE DEF deep
  <2>5. Counted(h, soc) \in States
    BY <1>0, <2>1, <2>2, <2>4 DEF States
  <2> QED  BY <1>0, <1>1, <2>1, <2>2, <2>3, <2>4, <2>5 DEF SeededStates
<1>2. CASE ~(soc >= FullSoc /\ h.armed) /\ soc < RearmSoc
  <2>1. Counted(h, soc) =
          [charged |-> h.charged, drawn |-> h.drawn, consumed |-> h.consumed,
           deepest |-> h.deepest, cycles |-> h.cycles, armed |-> TRUE,
           last_update |-> h.last_update]
    BY <1>0, <1>2 DEF Counted, States
  <2>2. Counted(h, soc) \in States
    BY <1>0, <2>1 DEF States
  <2> QED  BY <1>0, <1>2, <2>1, <2>2 DEF SeededStates, States
<1>3. CASE ~(soc >= FullSoc /\ h.armed) /\ ~(soc < RearmSoc)
  <2>1. Counted(h, soc) = h
    BY <1>3 DEF Counted
  <2> QED  BY <1>0, <1>3, <2>1 DEF SeededStates, States
<1> QED  BY <1>1, <1>2, <1>3

\* A reading of a full bank, and one below the rearm threshold.
Full(r) == r # Absent /\ r.soc >= FullSoc
Low(r) == r # Absent /\ r.soc < RearmSoc

LEMMA CurrentIsInt == Currents \subseteq Int
BY ConstantsAssumption

\* One update: the state stays well formed, the lifetime counters only grow,
\* and a cycle is counted exactly when the armed counter sees a full bank.
LEMMA UpdatedFacts ==
  ASSUME NEW h \in States, NEW r \in Readings, NEW t \in Int
  PROVE  /\ Updated(h, r, t) \in States
         /\ Updated(h, r, t).last_update = t
         /\ Updated(h, r, t).charged >= h.charged
         /\ Updated(h, r, t).drawn >= h.drawn
         /\ Updated(h, r, t).deepest >= h.deepest
         /\ Updated(h, r, t).cycles
              = IF Full(r) /\ h.armed THEN h.cycles + 1 ELSE h.cycles
         /\ Updated(h, r, t).armed <=> (h.armed /\ ~Full(r)) \/ Low(r)
<1> DEFINE h1 == [h EXCEPT !.last_update = t]
<1>1. h1 = [charged |-> h.charged, drawn |-> h.drawn, consumed |-> h.consumed,
            deepest |-> h.deepest, cycles |-> h.cycles, armed |-> h.armed,
            last_update |-> t]
  BY DEF States
<1>2. h1 \in States
  BY <1>1 DEF States
<1>3. CASE r = Absent
  <2>1. Updated(h, r, t) = h1
    BY <1>3 DEF Updated
  <2> HIDE DEF h1
  <2> QED  BY <1>1, <1>2, <1>3, <2>1 DEF States, Full, Low
<1>4. CASE r # Absent
  <2> DEFINE q == r.current * Interval(h, t)
             h2 == Seeded(h1, r)
             h3 == Integrated(h2, q)
  <2>1. r.current \in Currents /\ r.soc \in 0 .. Capacity
    BY <1>4 DEF Readings
  <2>2. r.current \in Int /\ r.soc \in 0 .. Capacity
    BY <2>1, CurrentIsInt
  <2>3. Interval(h, t) \in Int
    BY IntervalBounded, ConstantsAssumption
  <2>4. q \in Int
    BY <2>2, <2>3
  <2>5. Updated(h, r, t) = Counted(h3, r.soc)
    BY <1>4 DEF Updated
  <2> HIDE DEF h1
  <2>6. h2 \in SeededStates /\ h2 = [h1 EXCEPT !.consumed = h2.consumed]
    BY <1>2, <1>4, SeededFacts
  <2>7. /\ h2.charged = h.charged /\ h2.drawn = h.drawn
        /\ h2.deepest = h.deepest /\ h2.cycles = h.cycles
        /\ h2.armed = h.armed /\ h2.last_update = t
    BY <1>1, <2>6
  <2> HIDE DEF q, h2
  <2>8. /\ h3 \in SeededStates
        /\ h3.charged >= h2.charged /\ h3.drawn >= h2.drawn
        /\ h3.cycles = h2.cycles /\ h3.armed = h2.armed
        /\ h3.deepest = h2.deepest /\ h3.last_update = h2.last_update
    BY <2>4, <2>6, IntegratedFacts
  <2> HIDE DEF h3
  <2>9. /\ Counted(h3, r.soc) \in States
        /\ Counted(h3, r.soc).charged = h3.charged
        /\ Counted(h3, r.soc).drawn = h3.drawn
        /\ Counted(h3, r.soc).deepest >= h3.deepest
        /\ Counted(h3, r.soc).last_update = h3.last_update
        /\ Counted(h3, r.soc).cycles
             = IF r.soc >= FullSoc /\ h3.armed THEN h3.cycles + 1 ELSE h3.cycles
        /\ Counted(h3, r.soc).armed
             <=> (h3.armed /\ ~(r.soc >= FullSoc)) \/ r.soc < RearmSoc
    BY <2>2, <2>8, CountedFacts DEF SeededStates
  <2> QED  BY <1>4, <2>5, <2>7, <2>8, <2>9 DEF Full, Low
<1> QED  BY <1>3, <1>4

----------------------------------------------------------------------------
(* Steps.                                                                  *)

\* Saving leaves the file alone or makes it the new history; a forced save
\* without a failed write does the latter.
LEMMA SaveFacts ==
  ASSUME NEW force \in BOOLEAN, NEW since, TypeOK, Save(force, since)
  PROVE  /\ file' = file \/ file' = hist'
         /\ lastSaved' \in {since, mono'}
         /\ unwritten' \in BOOLEAN
         /\ ~unwritten' => ~unwritten
         /\ force /\ ~unwritten' => file' = hist'
  BY DEF Save, WriteOk, WriteFails, NoWrite, TypeOK

\* The witnesses of full charges follow the readings.
LEMMA WitnessFacts ==
  ASSUME NEW r, TypeOK, Witness(r)
  PROVE  /\ fulls' = IF Full(r) /\ dipped THEN fulls + 1 ELSE fulls
         /\ fulls' \in Nat
         /\ dipped' \in BOOLEAN
         /\ dipped' <=> (dipped /\ ~Full(r)) \/ Low(r)
<1>1. fulls' = IF Full(r) /\ dipped THEN fulls + 1 ELSE fulls
  BY DEF Witness, Full
<1>2. fulls' \in Nat
  BY <1>1 DEF TypeOK
<1>3. dipped' = ((dipped /\ ~(Full(r) /\ dipped)) \/ Low(r))
  BY DEF Witness, Full, Low
<1> QED  BY <1>1, <1>2, <1>3

LEMMA FreshIsState == Fresh \in States
  BY ConstantsAssumption DEF Fresh, States, Unset

\* The clocks after a tick.
LEMMA ElapseFacts ==
  ASSUME TypeOK, Elapse
  PROVE  /\ now' \in Int /\ now' = now + 1
         /\ mono' \in Nat /\ elapsed' \in Nat /\ elapsed' = elapsed + 1
  BY DEF TypeOK, Elapse

\* An update of a well-formed history h keeps every variable it sets typed.
LEMMA AdvanceTyped ==
  ASSUME TypeOK, Elapse, NEW r \in Readings, NEW h \in States,
         NEW since \in Nat, Advance(h, r, since)
  PROVE  /\ hist' \in States /\ file' \in States
         /\ lastSaved' \in Nat /\ unwritten' \in BOOLEAN
         /\ fulls' \in Nat /\ dipped' \in BOOLEAN
<1>1. hist' \in States
  BY ElapseFacts, UpdatedFacts DEF Advance
<1>2. /\ file' = file \/ file' = hist'
      /\ lastSaved' \in {since, mono'} /\ unwritten' \in BOOLEAN
  BY SaveFacts DEF Advance
<1>3. fulls' \in Nat /\ dipped' \in BOOLEAN
  BY WitnessFacts DEF Advance
<1>4. mono' \in Nat /\ file \in States
  BY ElapseFacts DEF TypeOK
<1> QED  BY <1>1, <1>2, <1>3, <1>4

LEMMA TypeInit == Init => TypeOK
<1> SUFFICES ASSUME Init PROVE TypeOK
  OBVIOUS
<1>1. /\ up \in BOOLEAN /\ dipped \in BOOLEAN /\ killed \in BOOLEAN
      /\ unread \in BOOLEAN /\ unwritten \in BOOLEAN
  BY DEF Init
<1>2. hist \in States /\ file \in States
  BY FreshIsState DEF Init
<1>3. /\ now \in Int /\ mono \in Nat /\ elapsed \in Nat
      /\ lastSaved \in Nat /\ leaps \in Nat /\ fulls \in Nat
  BY DEF Init
<1> QED  BY <1>1, <1>2, <1>3 DEF TypeOK

LEMMA TypeStep == TypeOK /\ [Next]_vars => TypeOK'
<1> SUFFICES ASSUME TypeOK, [Next]_vars PROVE TypeOK'
  OBVIOUS
<1>1. ASSUME NEW r \in Readings, Start(r) PROVE TypeOK'
  <2>1. PICK h \in States : Advance(h, r, 0)
    BY <1>1, FreshIsState DEF Start, Loaded, TypeOK
  <2>2. Elapse /\ up' \in BOOLEAN /\ unread' \in BOOLEAN
        /\ leaps' = leaps /\ killed' = killed
    BY <1>1 DEF Start, TypeOK
  <2>3. /\ hist' \in States /\ file' \in States
        /\ lastSaved' \in Nat /\ unwritten' \in BOOLEAN
        /\ fulls' \in Nat /\ dipped' \in BOOLEAN
    BY <2>1, <2>2, AdvanceTyped
  <2> QED  BY <2>2, <2>3, ElapseFacts DEF TypeOK
<1>2. ASSUME NEW r \in Readings, Cycle(r) PROVE TypeOK'
  <2>1. /\ hist' \in States /\ file' \in States
        /\ lastSaved' \in Nat /\ unwritten' \in BOOLEAN
        /\ fulls' \in Nat /\ dipped' \in BOOLEAN
    BY <1>2, AdvanceTyped DEF Cycle, TypeOK
  <2> QED  BY <1>2, <2>1, ElapseFacts DEF Cycle, TypeOK
<1>3. CASE Shutdown
  BY <1>3, SaveFacts DEF Shutdown, TypeOK, seen
<1>4. CASE Crash
  BY <1>4 DEF Crash, TypeOK, seen
<1>5. CASE Reboot
  <2>1. up' \in BOOLEAN /\ killed' \in BOOLEAN /\ mono' \in Nat
    BY <1>5 DEF Reboot, TypeOK
  <2> QED  BY <1>5, <2>1 DEF Reboot, TypeOK, seen
<1>6. CASE Tick
  BY <1>6, ElapseFacts DEF Tick, TypeOK, seen
<1>7. ASSUME NEW d \in Leaps, SetClock(d) PROVE TypeOK'
  BY <1>7, ConstantsAssumption DEF SetClock, TypeOK, seen
<1>8. CASE UNCHANGED vars
  BY <1>8 DEF vars, TypeOK
<1> QED  BY <1>1, <1>2, <1>3, <1>4, <1>5, <1>6, <1>7, <1>8 DEF Next

\* Types, and with them the range of the coulomb counter: whatever currents
\* are integrated over whatever intervals, it stays within the bank.
THEOREM TypeCorrect == Spec => []TypeOK
  BY TypeInit, TypeStep, PTL DEF Spec

----------------------------------------------------------------------------
(* No charge cycle is invented.  The count alone is not inductive: a file  *)
(* that is still armed may count the present stay at the top again.  So an  *)
(* armed history must have a full charge in hand, unless the bank was seen  *)
(* low since the last one.                                                 *)

Honest(h, n, low) == h.cycles <= n /\ (h.armed /\ ~low => h.cycles + 1 <= n)

CycleInv ==
  /\ Honest(hist, fulls, dipped)
  /\ Honest(file, fulls, dipped)
  /\ fulls >= 1 \/ dipped

LEMMA AdvanceHonest ==
  ASSUME TypeOK, CycleInv, Elapse, NEW r \in Readings, NEW h \in States,
         Honest(h, fulls, dipped), NEW since, Advance(h, r, since)
  PROVE  CycleInv'
<1>1. /\ hist'.cycles = IF Full(r) /\ h.armed THEN h.cycles + 1 ELSE h.cycles
      /\ hist'.armed <=> (h.armed /\ ~Full(r)) \/ Low(r)
  BY ElapseFacts, UpdatedFacts DEF Advance
<1>2. /\ fulls' = IF Full(r) /\ dipped THEN fulls + 1 ELSE fulls
      /\ dipped' <=> (dipped /\ ~Full(r)) \/ Low(r)
  BY WitnessFacts DEF Advance
<1>3. Full(r) => ~Low(r)
  BY ConstantsAssumption DEF Full, Low, Readings
<1>4. /\ h.cycles \in Nat /\ file.cycles \in Nat /\ fulls \in Nat
      /\ h.armed \in BOOLEAN /\ dipped \in BOOLEAN
  BY DEF TypeOK, States
<1>5. Honest(hist', fulls', dipped')
  BY <1>1, <1>2, <1>3, <1>4 DEF Honest, CycleInv
<1>6. Honest(file, fulls', dipped')
  BY <1>2, <1>3, <1>4 DEF Honest, CycleInv
<1>7. file' = file \/ file' = hist'
  BY SaveFacts DEF Advance
<1>8. fulls' >= 1 \/ dipped'
  BY <1>2, <1>3, <1>4 DEF CycleInv
<1> QED  BY <1>5, <1>6, <1>7, <1>8 DEF CycleInv

LEMMA CycleInvStep == TypeOK /\ CycleInv /\ [Next]_vars => CycleInv'
<1> SUFFICES ASSUME TypeOK, CycleInv, [Next]_vars PROVE CycleInv'
  OBVIOUS
<1>1. ASSUME NEW r \in Readings, Start(r) PROVE CycleInv'
  <2>1. Honest(Fresh, fulls, dipped)
    BY DEF Honest, Fresh, CycleInv, TypeOK
  <2>2. Honest(file, fulls, dipped) /\ file \in States
    BY DEF CycleInv, TypeOK
  <2>3. CASE Advance(file, r, 0)
    BY <1>1, <2>2, <2>3, AdvanceHonest DEF Start
  <2>4. CASE Advance(Fresh, r, 0)
    BY <1>1, <2>1, <2>4, FreshIsState, AdvanceHonest DEF Start
  <2> QED  BY <1>1, <2>3, <2>4 DEF Start, Loaded
<1>2. ASSUME NEW r \in Readings, Cycle(r) PROVE CycleInv'
  BY <1>2, AdvanceHonest DEF Cycle, CycleInv, TypeOK
<1>3. CASE Shutdown
  <2>1. hist' = hist /\ fulls' = fulls /\ dipped' = dipped
    BY <1>3 DEF Shutdown, seen
  <2>2. file' = file \/ file' = hist'
    BY <1>3, SaveFacts DEF Shutdown
  <2> QED  BY <2>1, <2>2 DEF CycleInv
<1>4. CASE Crash \/ Reboot \/ Tick \/ UNCHANGED vars
  BY <1>4 DEF Crash, Reboot, Tick, vars, seen, CycleInv
<1>5. ASSUME NEW d \in Leaps, SetClock(d) PROVE CycleInv'
  BY <1>5 DEF SetClock, seen, CycleInv
<1> QED  BY <1>1, <1>2, <1>3, <1>4, <1>5 DEF Next

\* Neither the daemon nor its file ever counts a full charge twice, whatever
\* is killed, lost or reloaded.
THEOREM CyclesAreHonest == Spec => []CyclesNotInvented
<1>1. Init => CycleInv
  BY DEF Init, Fresh, Honest, CycleInv
<1>2. CycleInv => CyclesNotInvented
  BY DEF CycleInv, Honest, CyclesNotInvented
<1> QED  BY <1>1, <1>2, TypeCorrect, CycleInvStep, PTL DEF Spec

----------------------------------------------------------------------------
(* Lifetime counters.  A running history is never behind the file, unless  *)
(* a process started from an unreadable one.                               *)

AtLeast(a, b) ==
  /\ a.charged >= b.charged /\ a.drawn >= b.drawn
  /\ a.cycles >= b.cycles /\ a.deepest >= b.deepest

AheadInv == ~unread => AtLeast(hist, file)

\* A history that starts at or ahead of the file stays there, and what is
\* written is at or ahead of what was there.
LEMMA AdvanceAhead ==
  ASSUME TypeOK, Elapse, NEW r \in Readings, NEW h \in States,
         AtLeast(h, file), NEW since, Advance(h, r, since)
  PROVE  AtLeast(hist', file') /\ AtLeast(file', file)
<1>1. /\ hist' \in States
      /\ hist'.charged >= h.charged /\ hist'.drawn >= h.drawn
      /\ hist'.deepest >= h.deepest
      /\ hist'.cycles = IF Full(r) /\ h.armed THEN h.cycles + 1 ELSE h.cycles
  BY ElapseFacts, UpdatedFacts DEF Advance
<1>2. AtLeast(hist', file)
  BY <1>1 DEF AtLeast, States, TypeOK
<1>3. AtLeast(hist', hist') /\ AtLeast(file, file)
  BY <1>1 DEF AtLeast, States, TypeOK
<1>4. file' = file \/ file' = hist'
  BY SaveFacts DEF Advance
<1> QED  BY <1>2, <1>3, <1>4

LEMMA AheadStep ==
  TypeOK /\ AheadInv /\ [Next]_vars
    => AheadInv' /\ (~unread' => AtLeast(file', file))
<1> SUFFICES ASSUME TypeOK, AheadInv, [Next]_vars, ~unread'
             PROVE  AtLeast(hist', file') /\ AtLeast(file', file)
  BY DEF AheadInv
<1>0. AtLeast(hist, hist) /\ AtLeast(file, file)
  BY DEF AtLeast, States, TypeOK
<1>1. ASSUME NEW r \in Readings, Start(r)
      PROVE  AtLeast(hist', file') /\ AtLeast(file', file)
  <2>1. Advance(file, r, 0) /\ Elapse
    BY <1>1 DEF Start, Loaded
  <2> QED  BY <1>0, <2>1, AdvanceAhead DEF TypeOK
<1>2. ASSUME NEW r \in Readings, Cycle(r)
      PROVE  AtLeast(hist', file') /\ AtLeast(file', file)
  <2>1. AtLeast(hist, file)
    BY <1>2 DEF Cycle, AheadInv
  <2> QED  BY <1>2, <2>1, AdvanceAhead DEF Cycle, TypeOK
<1>3. CASE Shutdown
  <2>1. hist' = hist /\ AtLeast(hist, file)
    BY <1>3 DEF Shutdown, AheadInv
  <2>2. file' = file \/ file' = hist'
    BY <1>3, SaveFacts DEF Shutdown
  <2> QED  BY <1>0, <2>1, <2>2
<1>4. CASE Crash \/ Reboot \/ Tick \/ UNCHANGED vars
  BY <1>0, <1>4 DEF Crash, Reboot, Tick, vars, AheadInv
<1>5. ASSUME NEW d \in Leaps, SetClock(d)
      PROVE  AtLeast(hist', file') /\ AtLeast(file', file)
  BY <1>0, <1>5 DEF SetClock, AheadInv
<1> QED  BY <1>1, <1>2, <1>3, <1>4, <1>5 DEF Next

\* As long as no read of it failed, the lifetime counters in the file only
\* grow, whatever writes fail and whichever processes are killed.
THEOREM LifetimeCountersGrow == Spec => LifetimeCountersKept
<1>1. Init => AheadInv
  BY DEF Init, Fresh, AheadInv, AtLeast
<1>2. TypeOK /\ AheadInv /\ [Next]_vars =>
        [~unread' => /\ file'.charged >= file.charged
                     /\ file'.drawn >= file.drawn
                     /\ file'.cycles >= file.cycles
                     /\ file'.deepest >= file.deepest]_file
  BY AheadStep DEF AtLeast
<1>3. TypeOK /\ AheadInv /\ [Next]_vars => AheadInv'
  BY AheadStep
<1> QED
  BY <1>1, <1>2, <1>3, TypeCorrect, PTL DEF Spec, LifetimeCountersKept

----------------------------------------------------------------------------
(* No charge cycle is lost while every stop is a shutdown.  The armed flag  *)
(* must agree with what was seen, and a stopped daemon must have left its   *)
(* last state in the file.                                                  *)

Sound == ~killed /\ ~unread /\ ~unwritten

CountInv ==
  Sound => /\ hist.cycles = fulls
           /\ hist.armed <=> dipped
           /\ ~up => file = hist

LEMMA AdvanceCounts ==
  ASSUME TypeOK, Elapse, NEW r \in Readings, NEW h \in States,
         h.cycles = fulls, h.armed <=> dipped, NEW since, Advance(h, r, since)
  PROVE  hist'.cycles = fulls' /\ (hist'.armed <=> dipped')
<1>1. /\ hist'.cycles = IF Full(r) /\ h.armed THEN h.cycles + 1 ELSE h.cycles
      /\ hist'.armed <=> (h.armed /\ ~Full(r)) \/ Low(r)
  BY ElapseFacts, UpdatedFacts DEF Advance
<1>2. /\ fulls' = IF Full(r) /\ dipped THEN fulls + 1 ELSE fulls
      /\ dipped' <=> (dipped /\ ~Full(r)) \/ Low(r)
  BY WitnessFacts DEF Advance
<1> QED  BY <1>1, <1>2

LEMMA CountStep == TypeOK /\ CountInv /\ [Next]_vars => CountInv'
<1> DEFINE Agree == hist.cycles = fulls /\ (hist.armed <=> dipped)
<1> SUFFICES ASSUME TypeOK, CountInv, [Next]_vars, Sound'
             PROVE  Agree' /\ (~up' => file' = hist')
  BY DEF CountInv
<1>1. ASSUME NEW r \in Readings, Start(r)
      PROVE  Agree' /\ (~up' => file' = hist')
  <2>1. Advance(file, r, 0) /\ Elapse /\ up' = TRUE /\ ~unread /\ ~killed
    BY <1>1 DEF Start, Loaded, Sound
  <2>2. ~unwritten
    BY <2>1, SaveFacts DEF Advance, Sound
  <2>3. file.cycles = fulls /\ (file.armed <=> dipped) /\ file \in States
    BY <1>1, <2>1, <2>2 DEF Start, CountInv, Sound, TypeOK
  <2> QED  BY <2>1, <2>3, AdvanceCounts
<1>2. ASSUME NEW r \in Readings, Cycle(r)
      PROVE  Agree' /\ (~up' => file' = hist')
  <2>1. Advance(hist, r, lastSaved) /\ Elapse /\ up' /\ ~unread /\ ~killed
    BY <1>2 DEF Cycle, Sound
  <2>2. ~unwritten
    BY <2>1, SaveFacts DEF Advance, Sound
  <2>3. Agree /\ hist \in States
    BY <2>1, <2>2 DEF CountInv, Sound, TypeOK
  <2> QED  BY <2>1, <2>3, AdvanceCounts
<1>3. CASE Shutdown
  <2>1. Save(TRUE, lastSaved) /\ hist' = hist /\ fulls' = fulls
        /\ dipped' = dipped /\ ~unread /\ ~killed
    BY <1>3 DEF Shutdown, seen, Sound
  <2>2. ~unwritten /\ file' = hist'
    BY <2>1, SaveFacts DEF Sound
  <2> QED  BY <2>1, <2>2 DEF CountInv, Sound
<1>4. CASE Crash
  BY <1>4 DEF Crash, Sound
<1>5. CASE Reboot
  <2>1. killed' <=> killed \/ up
    BY <1>5 DEF Reboot
  <2> QED  BY <1>5, <2>1 DEF Reboot, seen, CountInv, Sound
<1>6. CASE Tick \/ UNCHANGED vars
  BY <1>6 DEF Tick, vars, seen, CountInv, Sound
<1>7. ASSUME NEW d \in Leaps, SetClock(d)
      PROVE  Agree' /\ (~up' => file' = hist')
  BY <1>7 DEF SetClock, seen, CountInv, Sound
<1> QED  BY <1>1, <1>2, <1>3, <1>4, <1>5, <1>6, <1>7 DEF Next

\* Restarts by SIGTERM lose no full charge, however many there are.
THEOREM EveryCycleCounted == Spec => []NoCycleLost
<1>1. Init => CountInv
  BY DEF Init, Fresh, CountInv
<1>2. CountInv => NoCycleLost
  BY DEF CountInv, Sound, NoCycleLost
<1> QED  BY <1>1, <1>2, TypeCorrect, CountStep, PTL DEF Spec

----------------------------------------------------------------------------
(* No stretch of time is integrated twice.  For a history h, either the     *)
(* clock was not set since its last update, and then the time not yet       *)
(* integrated is the time that passed; or it was, and then h has not yet    *)
(* used the allowance of the last change.                                   *)

Paced(h, e, w, k) ==
  \/ k >= 1 /\ Total(h) <= Charge(e + MaxDt * (k - 1))
  \/ /\ h.last_update # Absent /\ w >= h.last_update
     /\ Total(h) + Charge(w - h.last_update) <= Charge(e + MaxDt * k)
  \/ h.last_update = Absent /\ Total(h) = 0

PaceInv == Paced(hist, elapsed, now, leaps) /\ Paced(file, elapsed, now, leaps)

LEMMA Allowance ==
  ASSUME NEW k \in Nat
  PROVE  /\ MaxDt * k \in Nat
         /\ MaxDt * (k + 1) = MaxDt * k + MaxDt
         /\ k >= 1 => MaxDt * (k - 1) \in Nat /\ MaxDt * (k - 1) + MaxDt = MaxDt * k
  BY ConstantsAssumption

LEMMA TotalIsNat == ASSUME NEW h \in States PROVE Total(h) \in Nat
  BY DEF Total, States

\* Charges add up, and grow with the time.
LEMMA ChargeType ==
  ASSUME NEW a \in Int
  PROVE  Charge(a) \in Int
BY ConstantsAssumption DEF Charge

LEMMA ChargeZero == Charge(0) = 0
BY ConstantsAssumption DEF Charge

LEMMA ChargeSums ==
  ASSUME NEW a \in Int, NEW b \in Int, NEW c \in Int, c = a + b
  PROVE  Charge(c) = Charge(a) + Charge(b)
BY ConstantsAssumption DEF Charge

LEMMA ChargeIsNat ==
  ASSUME NEW a \in Nat
  PROVE  Charge(a) \in Nat
<1>1. \A m, n \in Nat : m * n \in Nat
  OBVIOUS
<1> QED  BY <1>1, ConstantsAssumption DEF Charge

LEMMA ChargeGrows ==
  ASSUME NEW a \in Int, NEW b \in Int, a <= b
  PROVE  Charge(a) <= Charge(b)
<1> DEFINE d == b - a
<1>1. d \in Nat /\ d \in Int /\ b = a + d
  OBVIOUS
<1> HIDE DEF d
<1>2. Charge(b) = Charge(a) + Charge(d)
  BY <1>1, ChargeSums
<1>3. Charge(d) \in Nat /\ Charge(a) \in Int
  BY <1>1, ChargeIsNat, ChargeType
<1> QED  BY <1>2, <1>3

\* What a current moves in a time.
LEMMA CurrentCharges ==
  ASSUME NEW c \in Currents, NEW gap \in Nat
  PROVE  /\ c * gap \in Int
         /\ (IF c * gap > 0 THEN c * gap ELSE -(c * gap)) <= Charge(gap)
<1>1. c \in Int /\ MaxCurrent \in Nat /\ MaxCurrent - c \in Nat /\ MaxCurrent + c \in Nat
  BY ConstantsAssumption
<1>2. \A m, n \in Nat : m * n >= 0
  OBVIOUS
<1>3. (MaxCurrent - c) * gap >= 0 /\ (MaxCurrent + c) * gap >= 0
  BY <1>1, <1>2
<1>4. /\ (MaxCurrent - c) * gap = MaxCurrent * gap - c * gap
      /\ (MaxCurrent + c) * gap = MaxCurrent * gap + c * gap
      /\ c * gap \in Int /\ MaxCurrent * gap \in Int
  BY <1>1
<1> QED  BY <1>3, <1>4 DEF Charge

\* One update adds at most what fits in the interval.
LEMMA UpdatedTotal ==
  ASSUME NEW h \in States, NEW r \in Readings, NEW t \in Int
  PROVE  Total(Updated(h, r, t)) <= Total(h) + Charge(Interval(h, t))
<1> DEFINE h1 == [h EXCEPT !.last_update = t]
<1>1. h1 = [charged |-> h.charged, drawn |-> h.drawn, consumed |-> h.consumed,
            deepest |-> h.deepest, cycles |-> h.cycles, armed |-> h.armed,
            last_update |-> t]
  BY DEF States
<1>2. h1 \in States /\ Total(h1) = Total(h)
  BY <1>1 DEF States, Total
<1>3. Interval(h, t) \in Nat
  BY IntervalBounded, ConstantsAssumption
<1>4. Charge(Interval(h, t)) \in Nat
  BY <1>3, ChargeIsNat
<1>5. CASE r = Absent
  <2>1. Updated(h, r, t) = h1
    BY <1>5 DEF Updated
  <2> HIDE DEF h1
  <2> QED  BY <1>2, <1>4, <2>1, TotalIsNat
<1>6. CASE r # Absent
  <2> DEFINE gap == Interval(h, t)
             q == r.current * gap
             h2 == Seeded(h1, r)
             h3 == Integrated(h2, q)
  <2>1. r.current \in Currents /\ r.soc \in 0 .. Capacity
    BY <1>6 DEF Readings
  <2>2. Updated(h, r, t) = Counted(h3, r.soc)
    BY <1>6 DEF Updated
  <2> HIDE DEF h1, gap
  <2>3. gap \in Nat /\ Charge(gap) \in Int
    BY <1>3, ChargeType DEF gap
  <2>4. q \in Int /\ (IF q > 0 THEN q ELSE -q) <= Charge(gap)
    BY <2>1, <2>3, CurrentCharges
  <2>5. h2 \in SeededStates /\ h2 = [h1 EXCEPT !.consumed = h2.consumed]
    BY <1>2, <1>6, SeededFacts
  <2>6. Total(h2) = Total(h1)
    BY <1>1, <2>5 DEF Total
  <2> HIDE DEF q, h2
  <2>7. h3 \in SeededStates
        /\ Total(h3) = Total(h2) + (IF q > 0 THEN q ELSE -q)
    BY <2>5, <2>4, IntegratedFacts
  <2> HIDE DEF h3
  <2>8. Total(Counted(h3, r.soc)) = Total(h3)
    BY <2>1, <2>7, CountedFacts DEF Total
  <2>9. Total(h) \in Nat
    BY TotalIsNat
  <2> QED  BY <1>2, <2>2, <2>3, <2>4, <2>6, <2>7, <2>8, <2>9 DEF gap
<1> QED  BY <1>5, <1>6

\* A paced history is within the bound.
LEMMA PacedBounds ==
  ASSUME NEW h \in States, NEW e \in Nat, NEW w \in Int, NEW k \in Nat,
         Paced(h, e, w, k)
  PROVE  Total(h) <= Charge(e + MaxDt * k)
<1> DEFINE x == e + MaxDt * k
<1>1. x \in Nat /\ Charge(x) \in Nat
  <2>1. x \in Nat
    BY Allowance
  <2> QED  BY <2>1, ChargeIsNat
<1>2. CASE k >= 1 /\ Total(h) <= Charge(e + MaxDt * (k - 1))
  <2> DEFINE y == e + MaxDt * (k - 1)
  <2>1. y \in Int /\ y <= x
    BY <1>2, Allowance, ConstantsAssumption
  <2> HIDE DEF x, y
  <2>2. Charge(y) <= Charge(x) /\ Charge(y) \in Int
    BY <1>1, <2>1, ChargeType, ChargeGrows
  <2>3. Total(h) <= Charge(x)
    BY <1>1, <1>2, <2>2, TotalIsNat DEF y
  <2> QED  BY <2>3 DEF x
<1>3. CASE /\ h.last_update # Absent /\ w >= h.last_update
           /\ Total(h) + Charge(w - h.last_update) <= Charge(x)
  <2>1. h.last_update \in Int
    BY <1>3 DEF States
  <2>2. w - h.last_update \in Nat
    BY <1>3, <2>1
  <2>3. Charge(w - h.last_update) \in Nat
    BY <2>2, ChargeIsNat
  <2> QED  BY <1>1, <1>3, <2>3, TotalIsNat
<1>4. CASE Total(h) = 0
  BY <1>1, <1>4
<1> QED  BY <1>2, <1>3, <1>4 DEF Paced

\* A tick keeps a history paced.
LEMMA ElapsePaced ==
  ASSUME NEW h \in States, NEW e \in Nat, NEW w \in Int, NEW k \in Nat,
         Paced(h, e, w, k)
  PROVE  Paced(h, e + 1, w + 1, k)
<1>1. CASE k >= 1 /\ Total(h) <= Charge(e + MaxDt * (k - 1))
  <2> DEFINE x == e + MaxDt * (k - 1)
             y == (e + 1) + MaxDt * (k - 1)
  <2>1. x \in Int /\ y \in Int /\ x <= y
    BY <1>1, Allowance
  <2> HIDE DEF x, y
  <2>2. Charge(x) <= Charge(y) /\ Charge(x) \in Int /\ Charge(y) \in Int
    BY <2>1, ChargeGrows, ChargeType
  <2>3. Total(h) <= Charge(y)
    BY <1>1, <2>2, TotalIsNat DEF x
  <2> QED  BY <1>1, <2>3 DEF Paced, y
<1>2. CASE /\ h.last_update # Absent /\ w >= h.last_update
           /\ Total(h) + Charge(w - h.last_update) <= Charge(e + MaxDt * k)
  <2> DEFINE x == e + MaxDt * k
             y == (e + 1) + MaxDt * k
             d == w - h.last_update
             f == (w + 1) - h.last_update
             one == 1
  <2>1. /\ h.last_update \in Int /\ x \in Int /\ d \in Int
        /\ y \in Int /\ y = x + one /\ f \in Int /\ f = d + one /\ one \in Int
    BY <1>2, Allowance DEF States
  <2> HIDE DEF x, y, d, f, one
  <2>2. /\ Charge(x) \in Int /\ Charge(y) \in Int /\ Charge(one) \in Int
        /\ Charge(d) \in Int /\ Charge(f) \in Int
    BY <2>1, ChargeType
  <2>3. Charge(y) = Charge(x) + Charge(one) /\ Charge(f) = Charge(d) + Charge(one)
    BY <2>1, ChargeSums
  <2>4. Total(h) + Charge(d) <= Charge(x) /\ Total(h) \in Nat
    BY <1>2, TotalIsNat DEF x, d
  <2>5. Total(h) + Charge(f) <= Charge(y)
    BY <2>2, <2>3, <2>4
  <2>6. w + 1 >= h.last_update
    BY <1>2, <2>1
  <2> QED  BY <1>2, <2>5, <2>6 DEF Paced, y, f
<1>3. CASE h.last_update = Absent /\ Total(h) = 0
  BY <1>3 DEF Paced
<1> QED  BY <1>1, <1>2, <1>3 DEF Paced

\* Setting the clock grants one more allowance.
LEMMA LeapPaced ==
  ASSUME NEW h \in States, NEW e \in Nat, NEW w \in Int, NEW v \in Int,
         NEW k \in Nat, Paced(h, e, w, k)
  PROVE  Paced(h, e, v, k + 1)
<1>1. k + 1 >= 1 /\ (k + 1) - 1 = k
  OBVIOUS
<1>2. Total(h) <= Charge(e + MaxDt * k)
  BY PacedBounds
<1> QED  BY <1>1, <1>2 DEF Paced

\* An update uses it up, or integrates the time that passed.
LEMMA UpdatedPaced ==
  ASSUME NEW h \in States, NEW r \in Readings, NEW e \in Nat, NEW w \in Int,
         NEW k \in Nat, Paced(h, e, w, k)
  PROVE  Paced(Updated(h, r, w), e, w, k)
<1> DEFINE x == e + MaxDt * k
           i == Interval(h, w)
           new == Updated(h, r, w)
<1>1. new \in States /\ new.last_update = w /\ Total(new) <= Total(h) + Charge(i)
  BY UpdatedFacts, UpdatedTotal
<1>2. /\ i \in Nat /\ i <= MaxDt /\ x \in Int
      /\ h.last_update # Absent /\ w >= h.last_update => i <= w - h.last_update
      /\ h.last_update = Absent => i = 0
  BY IntervalBounded, ConstantsAssumption, Allowance
<1>3. Total(h) + Charge(i) <= Charge(x)
  <2>1. CASE k >= 1 /\ Total(h) <= Charge(e + MaxDt * (k - 1))
    <3> DEFINE y == e + MaxDt * (k - 1)
    <3>1. y \in Int /\ x = y + MaxDt /\ MaxDt \in Int
      BY <2>1, Allowance, ConstantsAssumption
    <3> HIDE DEF x, y, i
    <3>2. Charge(x) = Charge(y) + Charge(MaxDt)
      BY <1>2, <3>1, ChargeSums
    <3>3. Charge(i) <= Charge(MaxDt)
      BY <1>2, <3>1, ChargeGrows
    <3>4. Charge(y) \in Int /\ Charge(MaxDt) \in Int /\ Charge(i) \in Int
      BY <1>2, <3>1, ChargeType
    <3>5. Total(h) <= Charge(y) /\ Total(h) \in Nat
      BY <2>1, TotalIsNat DEF y
    <3> QED  BY <3>2, <3>3, <3>4, <3>5
  <2>2. CASE /\ h.last_update # Absent /\ w >= h.last_update
             /\ Total(h) + Charge(w - h.last_update) <= Charge(x)
    <3> DEFINE d == w - h.last_update
    <3>1. d \in Int /\ i <= d
      BY <1>2, <2>2 DEF States
    <3>2. Total(h) + Charge(d) <= Charge(x) /\ Total(h) \in Nat
      BY <2>2, TotalIsNat
    <3> HIDE DEF x, i, d
    <3>3. Charge(i) <= Charge(d)
      BY <1>2, <3>1, ChargeGrows
    <3>4. Charge(i) \in Int /\ Charge(d) \in Int /\ Charge(x) \in Int
      BY <1>2, <3>1, ChargeType
    <3> QED  BY <3>2, <3>3, <3>4
  <2>3. CASE h.last_update = Absent /\ Total(h) = 0
    <3>1. 0 <= x
      BY Allowance
    <3> HIDE DEF x, i
    <3>2. Charge(i) = 0 /\ Charge(x) >= 0
      BY <1>2, <2>3, <3>1, ChargeZero, ChargeIsNat
    <3> QED  BY <1>2, <2>3, <3>2
  <2> QED  BY <2>1, <2>2, <2>3 DEF Paced
<1> HIDE DEF new, i, x
<1>4. Total(new) \in Nat /\ Total(h) \in Nat /\ Charge(i) \in Int /\ Charge(x) \in Int
  BY <1>1, <1>2, TotalIsNat, ChargeType
<1>5. Charge(w - w) = 0
  BY ChargeZero
<1>6. Total(new) + Charge(w - w) <= Charge(x)
  BY <1>1, <1>3, <1>4, <1>5
<1>7. w # Absent /\ w >= w
  BY ConstantsAssumption
<1>8. Paced(new, e, w, k)
  BY <1>1, <1>6, <1>7 DEF Paced, x
<1> QED  BY <1>8 DEF new

LEMMA AdvancePaced ==
  ASSUME TypeOK, PaceInv, Elapse, leaps' = leaps, NEW r \in Readings,
         NEW h \in States, Paced(h, elapsed, now, leaps),
         NEW since, Advance(h, r, since)
  PROVE  PaceInv'
<1>1. /\ Paced(h, elapsed', now', leaps') /\ Paced(file, elapsed', now', leaps')
      /\ elapsed' \in Nat /\ now' \in Int /\ leaps' \in Nat
  BY ElapseFacts, ElapsePaced DEF TypeOK, PaceInv
<1>2. Paced(hist', elapsed', now', leaps')
  BY <1>1, UpdatedPaced DEF Advance
<1>3. file' = file \/ file' = hist'
  BY SaveFacts DEF Advance
<1> QED  BY <1>1, <1>2, <1>3 DEF PaceInv

LEMMA PaceStep == TypeOK /\ PaceInv /\ [Next]_vars => PaceInv'
<1> SUFFICES ASSUME TypeOK, PaceInv, [Next]_vars PROVE PaceInv'
  OBVIOUS
<1>1. ASSUME NEW r \in Readings, Start(r) PROVE PaceInv'
  <2>1. Paced(Fresh, elapsed, now, leaps)
    BY DEF Paced, Fresh, Total
  <2>2. CASE Advance(file, r, 0)
    BY <1>1, <2>2, AdvancePaced DEF Start, PaceInv, TypeOK
  <2>3. CASE Advance(Fresh, r, 0)
    BY <1>1, <2>1, <2>3, FreshIsState, AdvancePaced DEF Start
  <2> QED  BY <1>1, <2>2, <2>3 DEF Start, Loaded
<1>2. ASSUME NEW r \in Readings, Cycle(r) PROVE PaceInv'
  BY <1>2, AdvancePaced DEF Cycle, PaceInv, TypeOK
<1>3. CASE Shutdown
  <2>1. hist' = hist /\ elapsed' = elapsed /\ now' = now /\ leaps' = leaps
    BY <1>3 DEF Shutdown
  <2>2. file' = file \/ file' = hist'
    BY <1>3, SaveFacts DEF Shutdown
  <2> QED  BY <2>1, <2>2 DEF PaceInv
<1>4. CASE Crash \/ Reboot \/ UNCHANGED vars
  BY <1>4 DEF Crash, Reboot, vars, PaceInv
<1>5. CASE Tick
  BY <1>5, ElapseFacts, ElapsePaced DEF Tick, PaceInv, TypeOK
<1>6. ASSUME NEW d \in Leaps, SetClock(d) PROVE PaceInv'
  <2>1. /\ hist' = hist /\ file' = file /\ elapsed' = elapsed
        /\ leaps' = leaps + 1 /\ now' \in Int
    BY <1>6, ConstantsAssumption DEF SetClock, TypeOK
  <2> QED  BY <2>1, LeapPaced DEF PaceInv, TypeOK
<1> QED  BY <1>1, <1>2, <1>3, <1>4, <1>5, <1>6 DEF Next

\* The charge counted never exceeds what the time that passed allows, but for
\* one MAX_REASONABLE_DT_S for each change of the wall clock.
THEOREM ChargeIsPaced == Spec => []ChargeNotInvented
<1>1. Init => PaceInv
  BY DEF Init, Fresh, PaceInv, Paced, Total
<1>2. TypeOK /\ PaceInv => ChargeNotInvented
  BY PacedBounds DEF TypeOK, PaceInv, ChargeNotInvented, Total
<1>3. TypeOK /\ PaceInv /\ [Next]_vars => PaceInv'
  BY PaceStep
<1> QED  BY <1>1, <1>2, <1>3, TypeCorrect, PTL DEF Spec

----------------------------------------------------------------------------
(* What a kill can lose.  While the daemon runs, the charge counted since   *)
(* the file was written is at most the time from that write to the last     *)
(* update, plus the interval bridged at the start; the throttle bounds the  *)
(* former.  Both are read on the monotonic clock, which while the wall      *)
(* clock is not set goes with it.                                           *)

Unsaved == Total(hist) - Total(file)

\* The monotonic clock at the last update.
Stamp == mono - (now - hist.last_update)

Throttled ==
  /\ hist.last_update \in Int /\ hist.last_update <= now
  /\ lastSaved <= Stamp /\ Stamp < lastSaved + SaveInterval
  /\ Unsaved <= Charge((Stamp - lastSaved) + (MaxDt - 1))

LossInv ==
  ~unwritten /\ leaps = 0 => LossBounded /\ (up => Throttled)

\* A throttled loss is a bounded loss.
LEMMA ThrottledBounds ==
  ASSUME TypeOK, Throttled
  PROVE  LossBounded
<1>1. /\ Total(hist) \in Nat /\ Total(file) \in Nat /\ lastSaved \in Nat
      /\ mono \in Nat /\ now \in Int
  BY TotalIsNat DEF TypeOK
<1> DEFINE m == Stamp
<1>2. m \in Int
  BY <1>1 DEF Stamp, Throttled
<1> HIDE DEF m
<1> DEFINE x == (m - lastSaved) + (MaxDt - 1)
           y == (SaveInterval - 1) + (MaxDt - 1)
<1>3. x \in Int /\ y \in Int /\ x <= y /\ Unsaved <= Charge(x)
  BY <1>1, <1>2, ConstantsAssumption DEF Throttled, m
<1> HIDE DEF x, y
<1>4. Unsaved <= Charge(y)
  <2>1. Charge(x) <= Charge(y)
    BY <1>3, ChargeGrows
  <2>2. Charge(x) \in Int /\ Charge(y) \in Int /\ Unsaved \in Int
    BY <1>1, <1>3, ChargeType DEF Unsaved
  <2> QED  BY <1>3, <2>1, <2>2
<1> QED  BY <1>4 DEF LossBounded, Unsaved, Total, y

\* The bounds, in numbers: m is the stamp, l the last save.
LEMMA Fits ==
  ASSUME NEW m \in Int, NEW l \in Int
  PROVE  /\ l = m => /\ l <= m /\ m < l + SaveInterval
                     /\ 0 <= Charge((m - l) + (MaxDt - 1))
         /\ ~SaveDue(m - l) => m < l + SaveInterval
<1>1. ASSUME l = m PROVE 0 <= Charge((m - l) + (MaxDt - 1))
  <2>1. (m - l) + (MaxDt - 1) \in Nat
    BY <1>1, ConstantsAssumption
  <2> QED  BY <2>1, ChargeIsNat
<1> QED  BY <1>1, ConstantsAssumption DEF SaveDue

LEMMA NoTimePasses ==
  ASSUME NEW w \in Int, NEW m \in Nat
  PROVE  m - (w - w) = m
  OBVIOUS

\* One update, at wall time w and monotonic time m: the throttle holds after
\* it if what it can add was small enough.
LEMMA AdvanceThrottled ==
  ASSUME TypeOK, Elapse, NEW r \in Readings, NEW h \in States,
         NEW since \in Nat, Advance(h, r, since), ~unwritten',
         NEW w \in Int, w = now', NEW m \in Nat, m = mono', since <= m,
         Total(h) + Charge(Interval(h, w)) - Total(file)
           <= Charge((m - since) + (MaxDt - 1))
  PROVE  Throttled'
<1> DEFINE new == Updated(h, r, w)
<1>1. /\ new \in States /\ new.last_update = w
      /\ Total(new) <= Total(h) + Charge(Interval(h, w))
  BY UpdatedFacts, UpdatedTotal
<1>2. hist' = new
  BY DEF Advance
<1>3. /\ Total(new) \in Nat /\ Total(h) \in Nat /\ Total(file) \in Nat
      /\ Charge(Interval(h, w)) \in Int
      /\ Charge((m - since) + (MaxDt - 1)) \in Int
  BY <1>1, TotalIsNat, IntervalBounded, ChargeType, ConstantsAssumption DEF TypeOK
<1> HIDE DEF new
<1>4. Stamp' = m
  <2>1. Stamp' = m - (w - w)
    BY <1>1, <1>2 DEF Stamp
  <2>2. m - (w - w) = m
    BY NoTimePasses
  <2> QED  BY <2>1, <2>2
<1>5. ASSUME file' = hist', lastSaved' = mono' PROVE Throttled'
  <2>1. Unsaved' = Total(new) - Total(new)
    BY <1>2, <1>5 DEF Unsaved, Total
  <2>2. Unsaved' = 0 /\ lastSaved' = m
    BY <1>3, <1>5, <2>1
  <2>3. 0 \in Int /\ m \in Int
    OBVIOUS
  <2>4. m <= m /\ m < m + SaveInterval /\ 0 <= Charge((m - m) + (MaxDt - 1))
    BY <2>3, Fits
  <2> QED  BY <1>1, <1>2, <1>4, <2>2, <2>4 DEF Throttled
<1>6. ASSUME file' = file, lastSaved' = since, ~SaveDue(m - since)
      PROVE  Throttled'
  <2>1. Unsaved' = Total(new) - Total(file)
    BY <1>2, <1>6 DEF Unsaved, Total
  <2>2. Total(new) - Total(file) <= Charge((m - since) + (MaxDt - 1))
    BY <1>1, <1>3
  <2>3. m < since + SaveInterval
    BY <1>6, Fits
  <2> QED  BY <1>1, <1>2, <1>4, <1>6, <2>1, <2>2, <2>3 DEF Throttled
<1>7. \/ file' = hist' /\ lastSaved' = mono'
      \/ file' = file /\ lastSaved' = since /\ ~SaveDue(m - since)
  BY DEF Advance, Save, WriteOk, WriteFails, NoWrite
<1> QED  BY <1>5, <1>6, <1>7

\* The first update of a process, from what it loaded.
LEMMA StartThrottled ==
  ASSUME TypeOK, Elapse, NEW r \in Readings, NEW h \in {file, Fresh},
         Advance(h, r, 0), ~unwritten'
  PROVE  Throttled'
<1>1. h \in States /\ Total(h) <= Total(file)
      /\ Total(h) \in Nat /\ Total(file) \in Nat
  <2>1. file \in States /\ Total(file) \in Nat
    BY TotalIsNat DEF TypeOK
  <2>2. Total(Fresh) = 0
    BY DEF Total, Fresh
  <2> QED  BY <2>1, <2>2, FreshIsState
<1> DEFINE w == now + 1
           m == mono + 1
<1>2. w = now' /\ m = mono' /\ w \in Int /\ m \in Nat /\ m >= 1
  BY DEF Elapse, TypeOK
<1> HIDE DEF w, m
<1>3. Interval(h, w) \in Int /\ Interval(h, w) <= MaxDt
  BY <1>1, <1>2, IntervalBounded, ConstantsAssumption
<1> DEFINE x == (m - 0) + (MaxDt - 1)
<1>4. x \in Int /\ Interval(h, w) <= x
  BY <1>2, <1>3, ConstantsAssumption
<1>5. /\ Charge(Interval(h, w)) <= Charge(x)
      /\ Charge(Interval(h, w)) \in Int /\ Charge(x) \in Int
  BY <1>3, <1>4, ChargeType, ChargeGrows
<1> HIDE DEF x
<1>6. 0 <= m /\ Total(h) + Charge(Interval(h, w)) - Total(file) <= Charge(x)
  BY <1>1, <1>2, <1>5
<1> QED  BY <1>1, <1>2, <1>6, AdvanceThrottled DEF x

\* A further update of a running process.
LEMMA CycleThrottled ==
  ASSUME TypeOK, Elapse, Throttled, NEW r \in Readings,
         Advance(hist, r, lastSaved), ~unwritten'
  PROVE  Throttled'
<1>1. /\ hist \in States /\ Total(hist) \in Nat /\ Total(file) \in Nat
      /\ lastSaved \in Nat /\ mono \in Nat /\ now \in Int
  BY TotalIsNat DEF TypeOK
<1> DEFINE w == now + 1
           m == mono + 1
           t == hist.last_update
<1>2. w = now' /\ m = mono' /\ w \in Int /\ m \in Nat
  BY <1>1 DEF Elapse
<1>3. /\ t \in Int /\ t <= now /\ lastSaved <= mono - (now - t)
      /\ Total(hist) - Total(file) <= Charge(((mono - (now - t)) - lastSaved) + (MaxDt - 1))
  BY DEF Throttled, Stamp, Unsaved
<1>4. w >= t
  BY <1>1, <1>3
<1>5. t # Absent
  BY <1>3, ConstantsAssumption
<1>6. Interval(hist, w) \in Int /\ Interval(hist, w) <= w - t
  BY <1>1, <1>2, <1>4, <1>5, IntervalBounded, ConstantsAssumption
<1> HIDE DEF t
<1> DEFINE i == Interval(hist, w)
           x == ((mono - (now - t)) - lastSaved) + (MaxDt - 1)
           y == (m - lastSaved) + (MaxDt - 1)
<1>7. lastSaved <= m /\ x \in Int /\ y \in Int /\ i \in Int /\ x + i <= y
  BY <1>1, <1>2, <1>3, <1>6, ConstantsAssumption DEF w, m
<1>8. Total(hist) - Total(file) <= Charge(x)
  BY <1>3
<1> HIDE DEF i, x, y
<1> DEFINE z == x + i
<1>9. z \in Int /\ z = x + i /\ z <= y
  BY <1>7
<1> HIDE DEF z
<1>10. Charge(z) = Charge(x) + Charge(i) /\ Charge(z) <= Charge(y)
  <2>1. Charge(z) = Charge(x) + Charge(i)
    BY <1>7, <1>9, ChargeSums
  <2> QED  BY <1>7, <1>9, <2>1, ChargeGrows
<1>11. Charge(x) \in Int /\ Charge(i) \in Int /\ Charge(y) \in Int
  BY <1>7, ChargeType
<1>12. Total(hist) + Charge(i) - Total(file) <= Charge(y)
  BY <1>1, <1>8, <1>10, <1>11
<1> HIDE DEF w, m
<1> QED  BY <1>1, <1>2, <1>7, <1>12, AdvanceThrottled DEF i, y

LEMMA BoundIsPositive == 0 <= Charge((SaveInterval - 1) + (MaxDt - 1))
<1>1. (SaveInterval - 1) + (MaxDt - 1) \in Nat
  BY ConstantsAssumption
<1> QED  BY <1>1, ChargeIsNat

LEMMA LossStep == TypeOK /\ LossInv /\ [Next]_vars => LossInv'
<1> SUFFICES ASSUME TypeOK, LossInv, [Next]_vars, ~unwritten', leaps' = 0
             PROVE  LossBounded' /\ (up' => Throttled')
  BY DEF LossInv
<1> DEFINE Goal == LossBounded' /\ (up' => Throttled')
<1>0. Throttled' => LossBounded'
  <2>1. TypeOK'
    BY TypeStep
  <2>2. (TypeOK /\ Throttled => LossBounded)'
    BY ThrottledBounds, PTL
  <2> QED  BY <2>1, <2>2
<1>1. ASSUME NEW r \in Readings, Start(r) PROVE Goal
  <2>1. PICK h \in {file, Fresh} : Advance(h, r, 0) /\ Elapse
    BY <1>1 DEF Start, Loaded
  <2> QED  BY <1>0, <2>1, StartThrottled
<1>2. ASSUME NEW r \in Readings, Cycle(r) PROVE Goal
  <2>1. Advance(hist, r, lastSaved) /\ Elapse /\ up /\ leaps = 0
    BY <1>2 DEF Cycle
  <2>2. ~unwritten
    BY <2>1, SaveFacts DEF Advance
  <2>3. Throttled
    BY <2>1, <2>2 DEF LossInv
  <2> QED  BY <1>0, <2>1, <2>3, CycleThrottled
<1>3. CASE Shutdown
  <2>1. Save(TRUE, lastSaved) /\ hist' = hist /\ ~up'
    BY <1>3 DEF Shutdown
  <2>2. file' = hist
    BY <2>1, SaveFacts
  <2>3. (hist.charged + hist.drawn) - (hist.charged + hist.drawn)
          <= Charge((SaveInterval - 1) + (MaxDt - 1))
    BY BoundIsPositive DEF TypeOK, States
  <2>4. LossBounded'
    BY <2>1, <2>2, <2>3 DEF LossBounded
  <2> QED  BY <2>1, <2>4
<1>4. CASE Crash \/ Reboot
  <2>1. /\ ~up' /\ hist' = hist /\ file' = file
        /\ unwritten' = unwritten /\ leaps' = leaps
    BY <1>4 DEF Crash, Reboot
  <2>2. LossBounded
    BY <2>1 DEF LossInv
  <2> QED  BY <2>1, <2>2 DEF LossBounded
<1>5. CASE Tick
  <2>1. /\ up' = up /\ hist' = hist /\ file' = file /\ lastSaved' = lastSaved
        /\ unwritten' = unwritten /\ leaps' = leaps
        /\ now' = now + 1 /\ mono' = mono + 1
    BY <1>5 DEF Tick, Elapse
  <2>2. LossBounded /\ (up => Throttled)
    BY <2>1 DEF LossInv
  <2>3. LossBounded'
    BY <2>1, <2>2 DEF LossBounded
  <2>4. ASSUME up PROVE Throttled'
    <3>1. Throttled /\ now \in Int /\ mono \in Nat
      BY <2>2, <2>4 DEF TypeOK
    <3>2. Stamp' = Stamp
      BY <2>1, <3>1 DEF Stamp, Throttled
    <3>3. Unsaved' = Unsaved
      BY <2>1 DEF Unsaved, Total
    <3>4. hist.last_update <= now + 1
      BY <3>1 DEF Throttled
    <3> QED  BY <2>1, <3>1, <3>2, <3>3, <3>4 DEF Throttled
  <2> QED  BY <2>1, <2>3, <2>4
<1>6. CASE UNCHANGED vars
  <2>1. LossBounded /\ (up => Throttled)
    BY <1>6 DEF LossInv, vars
  <2> QED
    BY <1>6, <2>1 DEF vars, LossBounded, Throttled, Stamp, Unsaved, Total
<1>7. ASSUME NEW d \in Leaps, SetClock(d) PROVE Goal
  <2>1. leaps' = leaps + 1 /\ leaps \in Nat
    BY <1>7 DEF SetClock, TypeOK
  <2> QED  BY <2>1
<1> QED  BY <1>1, <1>2, <1>3, <1>4, <1>5, <1>6, <1>7 DEF Next

\* While no write fails and the wall clock is not set, a kill loses less than
\* the save interval and one bridged interval allow, however often the daemon
\* is killed or the machine restarts.
THEOREM LossIsBounded == Spec => []LossBounded
<1>1. Init => LossInv
  BY BoundIsPositive DEF Init, Fresh, LossInv, LossBounded
<1>2. LossInv => LossBounded
  BY DEF LossInv, LossBounded
<1>3. TypeOK /\ LossInv /\ [Next]_vars => LossInv'
  BY LossStep
<1> QED  BY <1>1, <1>2, <1>3, TypeCorrect, PTL DEF Spec

=============================================================================
