----------------------------- MODULE BankParams -----------------------------
(***************************************************************************)
(* params.py: build_bank_params(), the values of the bank as a function of  *)
(* the readings of its two packs, with the guard on charging and            *)
(* discharging and the alarms.                                              *)
(*                                                                         *)
(* Values are in the units of PackReading, thresholds in those of what they *)
(* are compared with.  The function keeps no state, so it is enough to let  *)
(* packs appear with any reading and disappear again.  Guards that compare  *)
(* a maximum or minimum with a threshold are written as "some reading is    *)
(* beyond it".                                                              *)
(***************************************************************************)
EXTENDS PackReading

CONSTANTS
  Readings,                 \* what a present pack may report
  CellCeiling, CellFloor,   \* _CELL_OVERVOLTAGE_..., _CELL_UNDERVOLTAGE_...
  TempMin, TempMax,         \* _CHARGE_TEMP_MIN_C, _CHARGE_TEMP_MAX_C
  SpreadWarn, SpreadAlarm,  \* _CELL_IMBALANCE_...
  LowWarn, LowAlarm,        \* _BANK_LOW_VOLTAGE_...
  HighWarn, HighAlarm,      \* _BANK_HIGH_VOLTAGE_...
  SocWarn, SocAlarm         \* _LOW_SOC_...

Slots == {1, 2}
Absent == None
Capacity == 100   \* BANK_CAPACITY_AH, PACK_CAPACITY_AH

ASSUME ConstantsAssumption ==
  /\ \A r \in Readings : r \in Reading /\ r.cells # <<>>
  /\ {CellCeiling, CellFloor, TempMin, TempMax, SpreadWarn, SpreadAlarm,
      LowWarn, LowAlarm, HighWarn, HighAlarm, SocWarn, SocAlarm} \subseteq Int
  /\ SpreadWarn <= SpreadAlarm /\ SocAlarm <= SocWarn
  /\ None \notin Int /\ None \notin Readings

VARIABLE packs   \* the readings of the slots; Absent for one without data

----------------------------------------------------------------------------
(* Aggregates over the packs that are present.                             *)

Present(ps) == {i \in Slots : ps[i] # Absent}

Value(ps, i, field) == IF ps[i] = Absent THEN None ELSE ps[i][field]

\* The packs are in series: the sum of the values there are.
SeriesSum(ps, field) ==
  LET a == Value(ps, 1, field)
      b == Value(ps, 2, field)
  IN  IF a = None THEN b ELSE IF b = None THEN a ELSE a + b

\* The more restrictive pack: the least of the values there are.
Weakest(ps, field) ==
  LET a == Value(ps, 1, field)
      b == Value(ps, 2, field)
  IN  IF a = None THEN b ELSE IF b = None \/ a <= b THEN a ELSE b

BankVoltage(ps) == SeriesSum(ps, "voltage")

\* The average of the present packs' currents, in 0.05 A.
BankCurrent(ps) ==
  IF Present(ps) = {} THEN None
  ELSE (2 * SeriesSum(ps, "current")) \div Cardinality(Present(ps))

BankPower(ps) ==
  IF Present(ps) = {} THEN None ELSE BankVoltage(ps) * BankCurrent(ps)

\* Variant: SoC is summed like the voltages.
BankSocSummed(ps) == SeriesSum(ps, "soc")

BankSoc(ps) == Weakest(ps, "soc")

\* /Capacity and the approximation of /ConsumedAmphours.
CapacityRemaining(ps) ==
  IF BankSoc(ps) = None THEN None ELSE (Capacity * BankSoc(ps)) \div 100
ConsumedAmphours(ps) ==
  IF BankSoc(ps) = None THEN None ELSE Capacity - CapacityRemaining(ps)

\* Variant: the voltage ceiling follows the rule of the current limits.
MaxChargeVoltageOfWeakest(ps) == Weakest(ps, "dvcc_max_v")

MaxChargeVoltage(ps) == SeriesSum(ps, "dvcc_max_v")
BatteryLowVoltage(ps) == SeriesSum(ps, "dvcc_min_v")

\* Variant: a current limit follows the rule of the voltage limits.
MaxDischargeCurrentSummed(ps) == SeriesSum(ps, "dvcc_max_discharge_current")

MaxChargeCurrent(ps) == Weakest(ps, "dvcc_max_charge_current")
MaxDischargeCurrent(ps) == Weakest(ps, "dvcc_max_discharge_current")

NrOfCells(ps) == Max({0} \cup {Len(ps[i].cells) : i \in Present(ps)})

----------------------------------------------------------------------------
(* Cells and sensors, under the ids that are published for them: <<i, n>>   *)
(* is the cell B<i>C<n>, or the sensor B<i>T<n>, n = 0 standing for "BMS".  *)

CellVoltages(ps) ==
  [id \in UNION {{i} \X DOMAIN ps[i].cells : i \in Present(ps)} |->
     ps[id[1]].cells[id[2]]]

\* The sensor n of a reading.
TempOf(r, n) == IF n = 0 THEN r.temp_bms ELSE r.temps[n]

\* Variant: the board temperature is taken as it is.
TempReadingsOfAll(r) == [n \in {0} \cup DOMAIN r.temps |-> TempOf(r, n)]

\* _temp_readings_labeled()
TempReadings(r) ==
  [n \in {k \in {0} \cup DOMAIN r.temps : TempOf(r, k) # Sentinel} |-> TempOf(r, n)]

Temperatures(ps) ==
  [id \in UNION {{i} \X DOMAIN TempReadings(ps[i]) : i \in Present(ps)} |->
     TempReadings(ps[id[1]])[id[2]]]

\* The first of some ids in the order of the loops.
Earliest(ids) ==
  CHOOSE a \in ids : \A b \in ids : a[1] < b[1] \/ (a[1] = b[1] /\ a[2] <= b[2])

\* Variant: cells are counted from 0.
LeastIdFromZero(f) ==
  IF DOMAIN f = {} THEN None
  ELSE LET id == Earliest({a \in DOMAIN f : \A b \in DOMAIN f : f[a] <= f[b]})
       IN  <<id[1], id[2] - 1>>

LeastId(f) ==
  IF DOMAIN f = {} THEN None
  ELSE Earliest({a \in DOMAIN f : \A b \in DOMAIN f : f[a] <= f[b]})

GreatestId(f) ==
  IF DOMAIN f = {} THEN None
  ELSE Earliest({a \in DOMAIN f : \A b \in DOMAIN f : f[b] <= f[a]})

Least(f) == IF DOMAIN f = {} THEN None ELSE f[LeastId(f)]
Greatest(f) == IF DOMAIN f = {} THEN None ELSE f[GreatestId(f)]

Spread(cells) == Max(Range(cells)) - Min(Range(cells))

\* /Voltages/Diff, between any two cells of the bank.
VoltagesDiff(ps) ==
  LET v == CellVoltages(ps) IN
  IF DOMAIN v = {} THEN None ELSE Greatest(v) - Least(v)

\* Variant: the imbalance is that of the bank.
WorstSpreadOfBank(ps) == VoltagesDiff(ps)

\* max_intra_pack_spread: packs with fewer than two cells have none.
WorstSpread(ps) ==
  LET spreads == {Spread(ps[i].cells) : i \in {j \in Present(ps) : Len(ps[j].cells) > 1}}
  IN  IF spreads = {} THEN None ELSE Max(spreads)

----------------------------------------------------------------------------
(* The guard.                                                              *)

OverVoltage(r) == \E n \in DOMAIN r.cells : r.cells[n] >= CellCeiling
UnderVoltage(r) == \E n \in DOMAIN r.cells : r.cells[n] <= CellFloor
OutOfRange(r) ==
  \E n \in DOMAIN TempReadings(r) :
    TempReadings(r)[n] > TempMax \/ TempReadings(r)[n] < TempMin

\* Variant: only a voltage beyond the ceiling blocks.
CeilingPassed(ps) ==
  /\ BankVoltage(ps) # None /\ MaxChargeVoltage(ps) # None
  /\ BankVoltage(ps) > MaxChargeVoltage(ps)

CeilingReached(ps) ==
  /\ BankVoltage(ps) # None /\ MaxChargeVoltage(ps) # None
  /\ BankVoltage(ps) >= MaxChargeVoltage(ps)

FaultBlockCharge(ps) ==
  \/ \E i \in Present(ps) : OverVoltage(ps[i]) \/ OutOfRange(ps[i])
  \/ CeilingReached(ps)

FaultBlockDischarge(ps) == \E i \in Present(ps) : UnderVoltage(ps[i])

AllowToCharge(ps) == Present(ps) # {} /\ ~FaultBlockCharge(ps)
AllowToDischarge(ps) == Present(ps) # {} /\ ~FaultBlockDischarge(ps)

----------------------------------------------------------------------------
(* The alarms: 0, 1 for a warning, 2 for an alarm; 0 for an unknown value. *)

Rising(v, warn, alarm) ==
  IF v = None THEN 0 ELSE IF v >= alarm THEN 2 ELSE IF v >= warn THEN 1 ELSE 0

Falling(v, warn, alarm) ==
  IF v = None THEN 0 ELSE IF v <= alarm THEN 2 ELSE IF v <= warn THEN 1 ELSE 0

\* Variant: the sum of whatever packs are present.
FullStringVoltageOfAny(ps) == BankVoltage(ps)

\* bank_voltage_full_string: comparable only when both packs are present.
FullStringVoltage(ps) == IF Present(ps) = Slots THEN BankVoltage(ps) ELSE None

\* One fault bit in any present pack raises its alarm.
FaultAlarm(ps, f) == IF \E i \in Present(ps) : f \in ps[i].faults THEN 2 ELSE 0

Derived == {"CellImbalance", "LowVoltage", "HighVoltage", "LowSoc"}

Alarm(ps, a) ==
  CASE a = "CellImbalance" -> Rising(WorstSpread(ps), SpreadWarn, SpreadAlarm)
    [] a = "LowVoltage" -> Falling(FullStringVoltage(ps), LowWarn, LowAlarm)
    [] a = "HighVoltage" -> Rising(FullStringVoltage(ps), HighWarn, HighAlarm)
    [] a = "LowSoc" -> Falling(BankSoc(ps), SocWarn, SocAlarm)
    [] a \in Faults -> FaultAlarm(ps, a)

----------------------------------------------------------------------------
(* What build_bank_params() returns.                                       *)

Bank(ps) ==
  LET cells == CellVoltages(ps)
      temps == Temperatures(ps)
      flag(b) == IF b THEN 1 ELSE 0
  IN  [Connected |-> flag(Present(ps) # {}),
       NrOfBatteries |-> Cardinality(Present(ps)),
       NrOfModulesOffline |-> Cardinality(Slots \ Present(ps)),
       NrOfCellsPerBattery |-> NrOfCells(ps),
       MinCellVoltage |-> Least(cells),
       MaxCellVoltage |-> Greatest(cells),
       MinVoltageCellId |-> LeastId(cells), MaxVoltageCellId |-> GreatestId(cells),
       MinCellTemperature |-> Least(temps),
       MaxCellTemperature |-> Greatest(temps),
       MinTemperatureCellId |-> LeastId(temps),
       MaxTemperatureCellId |-> GreatestId(temps),
       Voltage |-> BankVoltage(ps), Current |-> BankCurrent(ps), Power |-> BankPower(ps),
       Soc |-> BankSoc(ps), Capacity |-> CapacityRemaining(ps),
       ConsumedAmphours |-> ConsumedAmphours(ps),
       MaxChargeVoltage |-> MaxChargeVoltage(ps),
       BatteryLowVoltage |-> BatteryLowVoltage(ps),
       MaxChargeCurrent |-> MaxChargeCurrent(ps),
       MaxDischargeCurrent |-> MaxDischargeCurrent(ps),
       AllowToCharge |-> flag(AllowToCharge(ps)),
       AllowToDischarge |-> flag(AllowToDischarge(ps)),
       NrOfModulesBlockingCharge |-> flag(FaultBlockCharge(ps)),
       NrOfModulesBlockingDischarge |-> flag(FaultBlockDischarge(ps)),
       VoltagesDiff |-> VoltagesDiff(ps),
       Serial |-> IF Present(ps) = {} THEN None ELSE ps[Min(Present(ps))].serial,
       Alarms |-> [a \in Faults \cup Derived |-> Alarm(ps, a)]]

\* The bank as if only slot i were present.
Alone(ps, i) == [j \in Slots |-> IF j = i THEN ps[i] ELSE Absent]

\* The entry of one slot under "packs": its capacity whether present or not.
PackEntry(ps, i) ==
  [Status |-> Cardinality(Present(ps) \cap {i}), Capacity |-> Capacity,
   Cells |-> IF ps[i] = Absent THEN <<>> ELSE ps[i].cells,
   Temperature |-> Greatest(Temperatures(Alone(ps, i))),
   Voltage |-> Value(ps, i, "voltage"), Current |-> Value(ps, i, "current"),
   Soc |-> Value(ps, i, "soc"), Serial |-> Value(ps, i, "serial"),
   ChargeFetObserved |-> Value(ps, i, "fet_charge"),
   DischargeFetObserved |-> Value(ps, i, "fet_discharge")]

----------------------------------------------------------------------------
Init == packs = [i \in Slots |-> Absent]

\* Discovery shows a pack with what it read, and drops a silent one.
Appear(i, r) == packs[i] = Absent /\ packs' = [packs EXCEPT ![i] = r]

Drop(i) == packs[i] # Absent /\ packs' = [packs EXCEPT ![i] = Absent]

Next == \E i \in Slots : Drop(i) \/ \E r \in Readings : Appear(i, r)

Spec == Init /\ [][Next]_packs

----------------------------------------------------------------------------
(* Properties.                                                             *)

\* Types of the readings and of what is published of them.
TypeOK ==
  /\ packs \in [Slots -> Readings \cup {Absent}]
  /\ \A v \in {BankVoltage(packs), BankSoc(packs), MaxChargeVoltage(packs),
              BatteryLowVoltage(packs), MaxChargeCurrent(packs),
              MaxDischargeCurrent(packs)} : v \in Nat \cup {None}

\* A present pack whose own readings forbid charging: a cell at the ceiling,
\* a temperature out of range, or its voltage at its own limit.
Culprit(r) ==
  OverVoltage(r) \/ OutOfRange(r) \/ (r.dvcc_max_v # None /\ r.voltage >= r.dvcc_max_v)

\* What params.py says of its guard: charging a bank that has a pack is only
\* ever forbidden because of some present pack's own reading.
BlockHasCulprit ==
  Present(packs) # {} /\ ~AllowToCharge(packs)
    => \E i \in Present(packs) : Culprit(packs[i])

\* As long as every present pack has reported its limit, that is so, although
\* the comparison is one of sums over the packs.
ChargeBlockHasCulprit ==
  (\A i \in Present(packs) : packs[i].dvcc_max_v # None) => BlockHasCulprit

\* The converse for a full bank: when every present pack is at its own limit,
\* charging is forbidden, with one pack or with two.
FullBankBlocks ==
  (\A i \in Present(packs) : Culprit(packs[i])) => ~AllowToCharge(packs)

\* An imbalance is one pack's own: two packs charged to different levels,
\* each of them balanced, raise nothing.
ImbalanceBelongsToOnePack ==
  Alarm(packs, "CellImbalance") # 0 =>
    \E i \in Present(packs) : \E m, n \in DOMAIN packs[i].cells :
      packs[i].cells[m] - packs[i].cells[n] >= SpreadWarn

\* Losing a pack raises no alarm: half of the string is never taken for a
\* discharged whole.
DropRaisesNoAlarm ==
  [][(\E i \in Slots : packs[i] # Absent /\ packs'[i] = Absent) =>
       \A a \in Faults \cup Derived : Alarm(packs', a) <= Alarm(packs, a)]_packs

=============================================================================
