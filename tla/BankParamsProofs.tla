-------------------------- MODULE BankParamsProofs --------------------------
(***************************************************************************)
(* The guard on charging, for any readings and thresholds.                  *)
(***************************************************************************)
EXTENDS BankParams, FiniteSetTheorems, WellFoundedInduction, TLAPS

ValidPacks == packs \in [Slots -> Readings \cup {Absent}]

\* What a slot reports of a numeric field.
LEMMA ReadingTypes ==
  ASSUME ValidPacks, NEW i \in Present(packs)
  PROVE  /\ i \in Slots
         /\ packs[i] \in Readings
         /\ packs[i].voltage \in Nat
         /\ packs[i].soc \in Nat
         /\ packs[i].dvcc_max_v \in Nat \cup {None}
         /\ packs[i].dvcc_min_v \in Nat \cup {None}
         /\ packs[i].dvcc_max_charge_current \in Nat \cup {None}
         /\ packs[i].dvcc_max_discharge_current \in Nat \cup {None}
<1>1. i \in Slots /\ packs[i] \in Readings
  BY DEF ValidPacks, Present
<1>2. packs[i] \in Reading
  BY <1>1, ConstantsAssumption
<1>3. QED
  BY <1>1, <1>2 DEF Reading

Numbers == {"voltage", "soc", "dvcc_max_v", "dvcc_min_v",
            "dvcc_max_charge_current", "dvcc_max_discharge_current"}

LEMMA ValueTypes ==
  ASSUME ValidPacks, NEW i \in Slots, NEW field \in Numbers
  PROVE  Value(packs, i, field) \in Nat \cup {None}
<1>1. CASE packs[i] = Absent
  BY <1>1 DEF Value
<1>2. CASE packs[i] # Absent
  <2>1. i \in Present(packs)
    BY <1>2 DEF Present
  <2>2. packs[i][field] \in Nat \cup {None}
    BY <2>1, ReadingTypes DEF Numbers
  <2>3. QED
    BY <1>2, <2>2 DEF Value
<1>3. QED
  BY <1>1, <1>2

LEMMA ValidInit == Init => ValidPacks
BY DEF Init, ValidPacks

LEMMA ValidStep == ValidPacks /\ [Next]_packs => ValidPacks'
BY DEF ValidPacks, Next, Appear, Drop

LEMMA AlwaysValid == Spec => []ValidPacks
BY ValidInit, ValidStep, PTL DEF Spec

\* A sum of two values is unknown only if both are, and of known ones it is
\* the sum.
LEMMA SumType ==
  ASSUME NEW field, Value(packs, 1, field) \in Nat \cup {None},
         Value(packs, 2, field) \in Nat \cup {None}
  PROVE  SeriesSum(packs, field) \in Nat \cup {None}
BY DEF SeriesSum

\* The least of two values is one of them.
LEMMA LeastType ==
  ASSUME NEW field, Value(packs, 1, field) \in Nat \cup {None},
         Value(packs, 2, field) \in Nat \cup {None}
  PROVE  Weakest(packs, field) \in Nat \cup {None}
BY DEF Weakest

\* The published aggregates are numbers or unknown.
LEMMA ValidIsTyped == ValidPacks => TypeOK
<1> SUFFICES ASSUME ValidPacks PROVE TypeOK
  OBVIOUS
<1>1. \A i \in {1, 2}, field \in Numbers : Value(packs, i, field) \in Nat \cup {None}
  BY ValueTypes DEF Slots
<1>2. /\ BankVoltage(packs) \in Nat \cup {None}
      /\ MaxChargeVoltage(packs) \in Nat \cup {None}
      /\ BatteryLowVoltage(packs) \in Nat \cup {None}
  BY <1>1, SumType DEF BankVoltage, MaxChargeVoltage, BatteryLowVoltage, Numbers
<1>3. /\ BankSoc(packs) \in Nat \cup {None}
      /\ MaxChargeCurrent(packs) \in Nat \cup {None}
      /\ MaxDischargeCurrent(packs) \in Nat \cup {None}
  BY <1>1, LeastType DEF BankSoc, MaxChargeCurrent, MaxDischargeCurrent, Numbers
<1>4. QED
  BY <1>2, <1>3 DEF TypeOK, ValidPacks

\* Every aggregate is a number or unknown, whatever the packs report.
THEOREM TypeCorrect == Spec => []TypeOK
BY ValidIsTyped, AlwaysValid, PTL

\* If the series voltage has reached the summed limit and both limits are
\* known, some pack has reached its own.
LEMMA SumAtCeiling ==
  ASSUME ValidPacks, CeilingReached(packs),
         \A i \in Present(packs) : packs[i].dvcc_max_v # None
  PROVE  \E i \in Present(packs) :
           packs[i].dvcc_max_v # None /\ packs[i].voltage >= packs[i].dvcc_max_v
<1> DEFINE v(i) == packs[i].voltage
           d(i) == packs[i].dvcc_max_v
<1>1. \A i \in Present(packs) : v(i) \in Nat /\ d(i) \in Nat
  BY ReadingTypes
<1>2. \A i \in Slots :
        IF i \in Present(packs)
        THEN Value(packs, i, "voltage") = v(i) /\ Value(packs, i, "dvcc_max_v") = d(i)
        ELSE Value(packs, i, "voltage") = None /\ Value(packs, i, "dvcc_max_v") = None
  BY DEF Value, Present
<1>3. /\ BankVoltage(packs) # None /\ MaxChargeVoltage(packs) # None
      /\ BankVoltage(packs) >= MaxChargeVoltage(packs)
  BY DEF CeilingReached
<1>4. None \notin Nat
  BY ConstantsAssumption
<1> HIDE DEF v, d
<1>5. CASE 1 \in Present(packs) /\ 2 \in Present(packs)
  <2>1. BankVoltage(packs) = v(1) + v(2) /\ MaxChargeVoltage(packs) = d(1) + d(2)
    BY <1>1, <1>2, <1>4, <1>5 DEF BankVoltage, MaxChargeVoltage, SeriesSum, Slots
  <2>2. v(1) >= d(1) \/ v(2) >= d(2)
    BY <1>1, <1>3, <1>5, <2>1
  <2>3. QED
    BY <1>5, <2>2 DEF v, d
<1>6. CASE 1 \in Present(packs) /\ 2 \notin Present(packs)
  <2>1. BankVoltage(packs) = v(1) /\ MaxChargeVoltage(packs) = d(1)
    BY <1>1, <1>2, <1>4, <1>6 DEF BankVoltage, MaxChargeVoltage, SeriesSum, Slots
  <2>2. QED
    BY <1>3, <1>6, <2>1 DEF v, d
<1>7. CASE 1 \notin Present(packs) /\ 2 \in Present(packs)
  <2>1. BankVoltage(packs) = v(2) /\ MaxChargeVoltage(packs) = d(2)
    BY <1>1, <1>2, <1>4, <1>7 DEF BankVoltage, MaxChargeVoltage, SeriesSum, Slots
  <2>2. QED
    BY <1>3, <1>7, <2>1 DEF v, d
<1>8. CASE 1 \notin Present(packs) /\ 2 \notin Present(packs)
  <2>1. BankVoltage(packs) = None
    BY <1>2, <1>8 DEF BankVoltage, SeriesSum, Slots
  <2>2. QED
    BY <1>3, <2>1
<1>9. QED
  BY <1>5, <1>6, <1>7, <1>8

\* With every limit read, a present pack's own reading is behind every
\* refusal to charge.
THEOREM BlocksAreEarned == Spec => []ChargeBlockHasCulprit
<1>1. ValidPacks => ChargeBlockHasCulprit
  <2> SUFFICES ASSUME ValidPacks,
                      \A i \in Present(packs) : packs[i].dvcc_max_v # None,
                      Present(packs) # {}, ~AllowToCharge(packs)
               PROVE  \E i \in Present(packs) : Culprit(packs[i])
    BY DEF ChargeBlockHasCulprit, BlockHasCulprit
  <2>1. FaultBlockCharge(packs)
    BY DEF AllowToCharge
  <2>2. CASE \E i \in Present(packs) : OverVoltage(packs[i]) \/ OutOfRange(packs[i])
    BY <2>2 DEF Culprit
  <2>3. CASE CeilingReached(packs)
    BY <2>3, SumAtCeiling DEF Culprit
  <2>4. QED
    BY <2>1, <2>2, <2>3 DEF FaultBlockCharge
<1>2. QED
  BY <1>1, AlwaysValid, PTL

\* When every present pack is at its own limit, so is the series sum.
LEMMA AllAtCeiling ==
  ASSUME ValidPacks, Present(packs) # {},
         \A i \in Present(packs) :
           packs[i].dvcc_max_v # None /\ packs[i].voltage >= packs[i].dvcc_max_v
  PROVE  CeilingReached(packs)
<1> DEFINE v(i) == packs[i].voltage
           d(i) == packs[i].dvcc_max_v
<1>1. \A i \in Present(packs) : v(i) \in Nat /\ d(i) \in Nat /\ v(i) >= d(i)
  BY ReadingTypes
<1>2. \A i \in Slots :
        IF i \in Present(packs)
        THEN Value(packs, i, "voltage") = v(i) /\ Value(packs, i, "dvcc_max_v") = d(i)
        ELSE Value(packs, i, "voltage") = None /\ Value(packs, i, "dvcc_max_v") = None
  BY DEF Value, Present
<1>3. None \notin Nat
  BY ConstantsAssumption
<1>4. 1 \in Present(packs) \/ 2 \in Present(packs)
  BY DEF Present, Slots
<1> HIDE DEF v, d
<1>5. CASE 1 \in Present(packs) /\ 2 \in Present(packs)
  <2>1. BankVoltage(packs) = v(1) + v(2) /\ MaxChargeVoltage(packs) = d(1) + d(2)
    BY <1>1, <1>2, <1>3, <1>5 DEF BankVoltage, MaxChargeVoltage, SeriesSum, Slots
  <2>2. v(1) + v(2) \in Nat /\ d(1) + d(2) \in Nat /\ v(1) + v(2) >= d(1) + d(2)
    BY <1>1, <1>5
  <2>3. QED
    BY <1>3, <2>1, <2>2 DEF CeilingReached
<1>6. CASE 1 \in Present(packs) /\ 2 \notin Present(packs)
  <2>1. BankVoltage(packs) = v(1) /\ MaxChargeVoltage(packs) = d(1)
    BY <1>1, <1>2, <1>3, <1>6 DEF BankVoltage, MaxChargeVoltage, SeriesSum, Slots
  <2>2. QED
    BY <1>1, <1>3, <1>6, <2>1 DEF CeilingReached
<1>7. CASE 1 \notin Present(packs) /\ 2 \in Present(packs)
  <2>1. BankVoltage(packs) = v(2) /\ MaxChargeVoltage(packs) = d(2)
    BY <1>1, <1>2, <1>3, <1>7 DEF BankVoltage, MaxChargeVoltage, SeriesSum, Slots
  <2>2. QED
    BY <1>1, <1>3, <1>7, <2>1 DEF CeilingReached
<1>8. QED
  BY <1>4, <1>5, <1>6, <1>7

\* A bank whose present packs are all at a limit of their own is not charged.
THEOREM FullBankIsBlocked == Spec => []FullBankBlocks
<1>1. ValidPacks => FullBankBlocks
  <2> SUFFICES ASSUME ValidPacks,
                      \A i \in Present(packs) : Culprit(packs[i]),
                      AllowToCharge(packs)
               PROVE  FALSE
    BY DEF FullBankBlocks
  <2>1. Present(packs) # {} /\ ~FaultBlockCharge(packs)
    BY DEF AllowToCharge
  <2>2. \A i \in Present(packs) : ~OverVoltage(packs[i]) /\ ~OutOfRange(packs[i])
    BY <2>1 DEF FaultBlockCharge
  <2>3. \A i \in Present(packs) :
          packs[i].dvcc_max_v # None /\ packs[i].voltage >= packs[i].dvcc_max_v
    BY <2>2 DEF Culprit
  <2>4. CeilingReached(packs)
    BY <2>1, <2>3, AllAtCeiling
  <2>5. QED
    BY <2>1, <2>4 DEF FaultBlockCharge
<1>2. QED
  BY <1>1, AlwaysValid, PTL

----------------------------------------------------------------------------
(* Extremes of finite sets, on which every "max" of the code rests.        *)

\* Of the sets of larger elements there is a smallest one; it is empty.
LEMMA FiniteSetHasMaximum ==
  ASSUME NEW S \in SUBSET Int, S # {}, IsFiniteSet(S)
  PROVE  Max(S) \in S /\ \A x \in S : x <= Max(S)
<1> DEFINE Above(x) == {y \in S : y > x}
           Sets == {Above(x) : x \in S}
<1>1. IsWellFoundedOn(StrictSubsetOrdering(S), SUBSET S)
  BY FS_StrictSubsetOrderingWellFounded, FS_FiniteSubsetsOfFinite
<1>2. Sets \subseteq SUBSET S /\ Sets # {}
  OBVIOUS
<1>3. PICK U \in Sets : \A V \in Sets : <<V, U>> \notin StrictSubsetOrdering(S)
  <2> HIDE DEF Sets
  <2>1. QED
    BY <1>1, <1>2, WFMin
<1>4. PICK x \in S : U = Above(x)
  BY <1>3
<1>5. \A y \in S : y <= x
  <2> SUFFICES ASSUME NEW y \in S, y > x PROVE FALSE
    OBVIOUS
  <2>1. Above(y) \in Sets /\ Above(y) \subseteq U /\ Above(y) # U
    <3>1. y \in U /\ y \notin Above(y)
      BY <1>4
    <3>2. \A z \in Above(y) : z \in Above(x)
      OBVIOUS
    <3>3. QED
      BY <1>4, <3>1, <3>2
  <2>2. <<Above(y), U>> \in StrictSubsetOrdering(S)
    BY <1>2, <1>3, <2>1 DEF StrictSubsetOrdering
  <2>3. QED
    BY <1>3, <2>1, <2>2
<1>6. \A y \in S : x >= y
  BY <1>5
<1>7. Max(S) \in S /\ \A y \in S : Max(S) >= y
  BY <1>6 DEF Max
<1>8. QED
  BY <1>7

LEMMA FiniteSetHasMinimum ==
  ASSUME NEW S \in SUBSET Int, S # {}, IsFiniteSet(S)
  PROVE  Min(S) \in S /\ \A x \in S : Min(S) <= x
<1> DEFINE Below(x) == {y \in S : y < x}
           Sets == {Below(x) : x \in S}
<1>1. IsWellFoundedOn(StrictSubsetOrdering(S), SUBSET S)
  BY FS_StrictSubsetOrderingWellFounded, FS_FiniteSubsetsOfFinite
<1>2. Sets \subseteq SUBSET S /\ Sets # {}
  OBVIOUS
<1>3. PICK U \in Sets : \A V \in Sets : <<V, U>> \notin StrictSubsetOrdering(S)
  <2> HIDE DEF Sets
  <2>1. QED
    BY <1>1, <1>2, WFMin
<1>4. PICK x \in S : U = Below(x)
  BY <1>3
<1>5. \A y \in S : x <= y
  <2> SUFFICES ASSUME NEW y \in S, y < x PROVE FALSE
    OBVIOUS
  <2>1. Below(y) \in Sets /\ Below(y) \subseteq U /\ Below(y) # U
    <3>1. y \in U /\ y \notin Below(y)
      BY <1>4
    <3>2. \A z \in Below(y) : z \in Below(x)
      OBVIOUS
    <3>3. QED
      BY <1>4, <3>1, <3>2
  <2>2. <<Below(y), U>> \in StrictSubsetOrdering(S)
    BY <1>2, <1>3, <2>1 DEF StrictSubsetOrdering
  <2>3. QED
    BY <1>3, <2>1, <2>2
<1>6. QED
  BY <1>5 DEF Min

\* The spread of a row of cells is that of two of them.
LEMMA SpreadOfTwoCells ==
  ASSUME NEW cells \in Seq(Nat), cells # <<>>
  PROVE  /\ Spread(cells) \in Nat
         /\ \E m, n \in DOMAIN cells : Spread(cells) = cells[m] - cells[n]
<1>1. DOMAIN cells = 1 .. Len(cells) /\ Len(cells) \in Nat \ {0}
  OBVIOUS
<1>2. IsFiniteSet(DOMAIN cells)
  BY <1>1, FS_Interval
<1>3. cells \in Surjection(DOMAIN cells, Range(cells))
  BY <1>1 DEF Surjection, Range
<1>4. IsFiniteSet(Range(cells))
  BY <1>2, <1>3, FS_Surjection
<1>5. Range(cells) \in SUBSET Nat /\ Range(cells) # {}
  BY <1>1 DEF Range
<1>6. /\ Max(Range(cells)) \in Range(cells) /\ Min(Range(cells)) \in Range(cells)
      /\ Min(Range(cells)) <= Max(Range(cells))
  BY <1>4, <1>5, FiniteSetHasMaximum, FiniteSetHasMinimum
<1>7. PICK m \in DOMAIN cells : Max(Range(cells)) = cells[m]
  BY <1>6 DEF Range
<1>8. PICK n \in DOMAIN cells : Min(Range(cells)) = cells[n]
  BY <1>6 DEF Range
<1>9. /\ Spread(cells) = Max(Range(cells)) - Min(Range(cells))
      /\ Max(Range(cells)) \in Nat /\ Min(Range(cells)) \in Nat
  BY <1>5, <1>6 DEF Spread
<1>10. QED
  BY <1>6, <1>7, <1>8, <1>9

\* The spreads WorstSpread() takes the greatest of.
Spreads(ps) == {Spread(ps[i].cells) : i \in {j \in Present(ps) : Len(ps[j].cells) > 1}}

LEMMA WorstSpreadIsOne ==
  ASSUME NEW ps \in [Slots -> Readings \cup {Absent}], Spreads(ps) # {}
  PROVE  /\ Spreads(ps) \subseteq Nat
         /\ WorstSpread(ps) \in Spreads(ps)
         /\ \A x \in Spreads(ps) : x <= WorstSpread(ps)
<1>1. \A i \in Present(ps) : ps[i].cells \in Seq(Nat) /\ ps[i].cells # <<>>
  BY ConstantsAssumption DEF Reading, Present
<1>2. Spreads(ps) \subseteq Nat
  BY <1>1, SpreadOfTwoCells DEF Spreads
<1>3. IsFiniteSet(Spreads(ps))
  <2>1. Spreads(ps) \subseteq {Spread(ps[1].cells)} \cup {Spread(ps[2].cells)}
    BY DEF Spreads, Present, Slots
  <2>2. IsFiniteSet({Spread(ps[1].cells)} \cup {Spread(ps[2].cells)})
    BY FS_Singleton, FS_Union
  <2>3. QED
    BY <2>1, <2>2, FS_Subset
<1>4. WorstSpread(ps) = Max(Spreads(ps))
  BY DEF WorstSpread, Spreads
<1>5. QED
  BY <1>2, <1>3, <1>4, FiniteSetHasMaximum

\* The arms of Alarm().
LEMMA AlarmRules ==
  ASSUME NEW ps
  PROVE  /\ Alarm(ps, "CellImbalance") = Rising(WorstSpread(ps), SpreadWarn, SpreadAlarm)
         /\ Alarm(ps, "LowVoltage") = Falling(FullStringVoltage(ps), LowWarn, LowAlarm)
         /\ Alarm(ps, "HighVoltage") = Rising(FullStringVoltage(ps), HighWarn, HighAlarm)
         /\ Alarm(ps, "LowSoc") = Falling(BankSoc(ps), SocWarn, SocAlarm)
         /\ \A f \in Faults : Alarm(ps, f) = FaultAlarm(ps, f)
<1>1. \A a \in Faults : a \notin {"CellImbalance", "LowVoltage", "HighVoltage", "LowSoc"}
  BY DEF Faults
<1>2. \A f \in Faults : Alarm(ps, f) = FaultAlarm(ps, f)
  BY <1>1 DEF Alarm
<1>3. QED
  BY <1>1, <1>2 DEF Alarm

\* Two packs charged to different levels, each of them balanced, are no
\* imbalance: an alarm is one pack's own.
THEOREM ImbalanceIsOnePacksOwn == Spec => []ImbalanceBelongsToOnePack
<1>1. ValidPacks => ImbalanceBelongsToOnePack
  <2> SUFFICES ASSUME ValidPacks, Alarm(packs, "CellImbalance") # 0
               PROVE  \E i \in Present(packs) : \E m, n \in DOMAIN packs[i].cells :
                        packs[i].cells[m] - packs[i].cells[n] >= SpreadWarn
    BY DEF ImbalanceBelongsToOnePack
  <2>1. Rising(WorstSpread(packs), SpreadWarn, SpreadAlarm) # 0
    BY AlarmRules
  <2>2. Spreads(packs) # {}
    BY <2>1 DEF Rising, WorstSpread, Spreads
  <2>3. WorstSpread(packs) \in Nat /\ WorstSpread(packs) \in Spreads(packs)
    BY <2>2, WorstSpreadIsOne DEF ValidPacks
  <2>4. WorstSpread(packs) >= SpreadWarn
    BY <2>1, <2>3, ConstantsAssumption DEF Rising
  <2>5. PICK i \in Present(packs) : WorstSpread(packs) = Spread(packs[i].cells)
    BY <2>3 DEF Spreads
  <2>6. packs[i].cells \in Seq(Nat) /\ packs[i].cells # <<>>
    BY ReadingTypes, ConstantsAssumption DEF Reading
  <2>7. QED
    BY <2>4, <2>5, <2>6, SpreadOfTwoCells
<1>2. QED
  BY <1>1, AlwaysValid, PTL

LEMMA Thresholds ==
  /\ SpreadWarn \in Int /\ SpreadAlarm \in Int /\ SpreadWarn <= SpreadAlarm
  /\ SocWarn \in Int /\ SocAlarm \in Int /\ SocAlarm <= SocWarn
BY ConstantsAssumption

\* A weaker value of an alarm.
LEMMA RisingMonotone ==
  ASSUME NEW x \in Int, NEW y \in Int, x <= y, NEW w \in Int, NEW l \in Int, w <= l
  PROVE  Rising(x, w, l) <= Rising(y, w, l)
BY ConstantsAssumption DEF Rising

LEMMA FallingMonotone ==
  ASSUME NEW x \in Int, NEW y \in Int, x >= y, NEW w \in Int, NEW l \in Int, l <= w
  PROVE  Falling(x, w, l) <= Falling(y, w, l)
BY ConstantsAssumption DEF Falling

LEMMA AlarmRange ==
  ASSUME NEW v, NEW w, NEW l
  PROVE  /\ Rising(v, w, l) \in 0 .. 2 /\ Falling(v, w, l) \in 0 .. 2
         /\ Rising(None, w, l) = 0 /\ Falling(None, w, l) = 0
BY DEF Rising, Falling

\* Without one pack every alarm is what it was, or lower.
LEMMA DropLowersAlarms ==
  ASSUME ValidPacks, NEW i \in Slots, packs[i] # Absent,
         NEW qs, qs = [packs EXCEPT ![i] = Absent],
         NEW a \in Faults \cup Derived
  PROVE  Alarm(qs, a) <= Alarm(packs, a)
<1>1. /\ qs \in [Slots -> Readings \cup {Absent}]
      /\ packs \in [Slots -> Readings \cup {Absent}]
      /\ Present(qs) = Present(packs) \ {i}
      /\ \A k \in Present(qs) : qs[k] = packs[k]
  BY DEF ValidPacks, Present
<1>2. CASE a = "CellImbalance"
  <2>1. CASE Spreads(qs) = {}
    <3>1. WorstSpread(qs) = None
      BY <2>1 DEF WorstSpread, Spreads
    <3>2. QED
      BY <1>2, <3>1, AlarmRules, AlarmRange
  <2>2. CASE Spreads(qs) # {}
    <3>1. Spreads(qs) \subseteq Spreads(packs)
      BY <1>1 DEF Spreads
    <3>2. /\ WorstSpread(qs) \in Nat /\ WorstSpread(packs) \in Nat
          /\ WorstSpread(qs) <= WorstSpread(packs)
      BY <1>1, <2>2, <3>1, WorstSpreadIsOne
    <3>3. QED
      <4>1. Rising(WorstSpread(qs), SpreadWarn, SpreadAlarm)
              <= Rising(WorstSpread(packs), SpreadWarn, SpreadAlarm)
        BY <3>2, RisingMonotone, Thresholds
      <4>2. QED
        BY <1>2, <4>1, AlarmRules
  <2>3. QED
    BY <2>1, <2>2
<1>3. CASE a \in {"LowVoltage", "HighVoltage"}
  <2>1. FullStringVoltage(qs) = None
    BY <1>1 DEF FullStringVoltage
  <2>2. Alarm(qs, a) = 0 /\ Alarm(packs, a) \in 0 .. 2
    BY <1>3, <2>1, AlarmRules, AlarmRange
  <2>3. QED
    BY <2>2
<1>4. CASE a = "LowSoc"
  <2>1. CASE BankSoc(qs) = None
    BY <1>4, <2>1, AlarmRules, AlarmRange
  <2>2. CASE BankSoc(qs) # None
    <3> DEFINE v(k) == Value(packs, k, "soc")
               w(k) == Value(qs, k, "soc")
    <3>1. \A k \in {1, 2} : v(k) \in Nat \cup {None}
      BY ValueTypes DEF Numbers, Slots
    <3>2. \A k \in {1, 2} : w(k) = IF k = i THEN None ELSE v(k)
      BY DEF Value, ValidPacks, Slots
    <3>3. /\ BankSoc(packs) = IF v(1) = None THEN v(2)
                             ELSE IF v(2) = None \/ v(1) <= v(2) THEN v(1) ELSE v(2)
          /\ BankSoc(qs) = IF w(1) = None THEN w(2)
                          ELSE IF w(2) = None \/ w(1) <= w(2) THEN w(1) ELSE w(2)
      BY DEF BankSoc, Weakest
    <3>4. (i = 1 \/ i = 2) /\ None \notin Nat
      BY ConstantsAssumption DEF Slots
    <3> HIDE DEF v, w
    <3>5. /\ BankSoc(qs) \in Nat /\ BankSoc(packs) \in Nat
          /\ BankSoc(packs) <= BankSoc(qs)
      BY <2>2, <3>1, <3>2, <3>3, <3>4
    <3>6. QED
      <4>1. Falling(BankSoc(qs), SocWarn, SocAlarm) <= Falling(BankSoc(packs), SocWarn, SocAlarm)
        BY <3>5, FallingMonotone, Thresholds
      <4>2. QED
        BY <1>4, <4>1, AlarmRules
  <2>3. QED
    BY <2>1, <2>2
<1>5. CASE a \in Faults
  <2>1. (\E k \in Present(qs) : a \in qs[k].faults)
          => \E k \in Present(packs) : a \in packs[k].faults
    BY <1>1
  <2>2. FaultAlarm(qs, a) <= FaultAlarm(packs, a)
    <3>1. CASE \E k \in Present(qs) : a \in qs[k].faults
      <4>1. FaultAlarm(qs, a) = 2
        BY <3>1 DEF FaultAlarm
      <4>2. FaultAlarm(packs, a) = 2
        BY <2>1, <3>1 DEF FaultAlarm
      <4>3. QED
        BY <4>1, <4>2
    <3>2. CASE ~\E k \in Present(qs) : a \in qs[k].faults
      <4>1. FaultAlarm(qs, a) = 0
        BY <3>2 DEF FaultAlarm
      <4>2. FaultAlarm(packs, a) = 0 \/ FaultAlarm(packs, a) = 2
        BY DEF FaultAlarm
      <4>3. QED
        BY <4>1, <4>2
    <3>3. QED
      BY <3>1, <3>2
  <2>3. QED
    BY <1>5, <2>2, AlarmRules
<1>6. QED
  BY <1>2, <1>3, <1>4, <1>5 DEF Derived

\* Losing a pack raises no alarm.
THEOREM DropIsQuiet == Spec => DropRaisesNoAlarm
<1>1. ASSUME ValidPacks, [Next]_packs
      PROVE  [(\E i \in Slots : packs[i] # Absent /\ packs'[i] = Absent) =>
                \A a \in Faults \cup Derived : Alarm(packs', a) <= Alarm(packs, a)]_packs
  <2> SUFFICES ASSUME Next, NEW i \in Slots, packs[i] # Absent, packs'[i] = Absent,
                      NEW a \in Faults \cup Derived
               PROVE  Alarm(packs', a) <= Alarm(packs, a)
    BY <1>1
  <2>1. Absent \notin Readings
    BY ConstantsAssumption DEF Absent
  <2>2. packs' = [packs EXCEPT ![i] = Absent]
    BY <1>1, <2>1 DEF Next, Appear, Drop, ValidPacks
  <2>3. QED
    BY <1>1, <2>2, DropLowersAlarms
<1>2. QED
  BY <1>1, AlwaysValid, PTL DEF Spec, DropRaisesNoAlarm

=============================================================================
