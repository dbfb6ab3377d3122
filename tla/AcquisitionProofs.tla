------------------------- MODULE AcquisitionProofs --------------------------
(***************************************************************************)
(* From registers to bank values, for any registers, jitter and thresholds. *)
(***************************************************************************)
EXTENDS Acquisition, BankParamsProofs, ReadingProofs

\* Every present pack shows what its registers decode to, or is simulated.
Origin ==
  \A i \in Slots :
    IF registers[i] # None
    THEN Readable(registers[i]) /\ packs[i] = Decode(registers[i])
    ELSE packs[i] # Absent => \E j \in Jitters : packs[i] = Simulated(j)

AcqValid ==
  /\ ValidPacks
  /\ registers \in [Slots -> Blocks \cup {None}]
  /\ Origin

LEMMA AcqValidInit == AcqInit => AcqValid
BY ValidInit DEF AcqInit, AcqValid, Origin, Init

\* A step of the acquisition is one of the bank.
LEMMA StepIsBankStep ==
  ASSUME [AcqNext]_acqVars
  PROVE  [Next]_packs
<1>1. ASSUME NEW i \in Slots, NEW b \in Blocks, Read(i, b)
      PROVE  Next
  BY <1>1, BlocksAssumption DEF Read, Next
<1>2. ASSUME NEW i \in Slots, NEW j \in Jitters, Simulate(i, j)
      PROVE  Next
  BY <1>2, BlocksAssumption DEF Simulate, Next
<1>3. ASSUME NEW i \in Slots, Lose(i)
      PROVE  Next
  BY <1>3 DEF Lose, Next
<1>4. CASE UNCHANGED acqVars
  BY <1>4 DEF acqVars
<1>5. QED
  BY <1>1, <1>2, <1>3, <1>4 DEF AcqNext

LEMMA AcqValidStep == AcqValid /\ [AcqNext]_acqVars => AcqValid'
<1> SUFFICES ASSUME AcqValid, [AcqNext]_acqVars PROVE AcqValid'
  OBVIOUS
<1>0. ValidPacks'
  BY StepIsBankStep, ValidStep DEF AcqValid
<1>1. ASSUME NEW i \in Slots, NEW b \in Blocks, Read(i, b)
      PROVE  AcqValid'
  <2>1. /\ packs' = [packs EXCEPT ![i] = Decode(b)]
        /\ registers' = [registers EXCEPT ![i] = b]
        /\ Readable(b)
    BY <1>1 DEF Read, Appear
  <2>2. b # None
    BY BlocksAssumption
  <2>3. QED
    BY <1>0, <2>1, <2>2 DEF AcqValid, Origin, ValidPacks
<1>2. ASSUME NEW i \in Slots, NEW j \in Jitters, Simulate(i, j)
      PROVE  AcqValid'
  <2>1. /\ packs' = [packs EXCEPT ![i] = Simulated(j)]
        /\ packs[i] = Absent
        /\ registers' = registers
    BY <1>2 DEF Simulate, Appear
  <2>2. registers[i] = None
    <3>1. SUFFICES ASSUME registers[i] # None PROVE FALSE
      OBVIOUS
    <3>2. Decode(registers[i]) \in Readings
      BY <3>1, BlocksAssumption DEF AcqValid, Origin
    <3>3. QED
      BY <2>1, <3>1, <3>2, ConstantsAssumption DEF AcqValid, Origin, Absent
  <2>3. QED
    BY <1>0, <2>1, <2>2 DEF AcqValid, Origin, ValidPacks
<1>3. ASSUME NEW i \in Slots, Lose(i)
      PROVE  AcqValid'
  <2>1. /\ packs' = [packs EXCEPT ![i] = Absent]
        /\ registers' = [registers EXCEPT ![i] = None]
    BY <1>3 DEF Lose, Drop
  <2>2. QED
    BY <1>0, <2>1 DEF AcqValid, Origin, ValidPacks
<1>4. CASE UNCHANGED acqVars
  BY <1>0, <1>4 DEF AcqValid, Origin, acqVars
<1>5. QED
  BY <1>1, <1>2, <1>3, <1>4 DEF AcqNext

LEMMA AlwaysAcqValid == AcqSpec => []AcqValid
BY AcqValidInit, AcqValidStep, PTL DEF AcqSpec

\* The acquisition implements the bank: the readings BankParams assumes are
\* those the registers decode to.
THEOREM AcquisitionImplementsBank == AcqSpec => Spec
<1>1. AcqInit => Init
  BY DEF AcqInit
<1>2. QED
  BY <1>1, StepIsBankStep, PTL DEF AcqSpec, Spec

\* Types, and a slot always shows what its registers decode to.
THEOREM AcqTypeCorrect == AcqSpec => []AcqTypeOK
<1>1. AcqValid => AcqTypeOK
  BY ValidIsTyped DEF AcqValid, AcqTypeOK, Origin
<1>2. QED
  BY <1>1, AlwaysAcqValid, PTL

\* What is proved of the bank holds of the bank that is read.
THEOREM ReadBlocksAreEarned ==
  AcqSpec => [](ChargeBlockHasCulprit /\ FullBankBlocks)
BY AcquisitionImplementsBank, BlocksAreEarned, FullBankIsBlocked, PTL

LEMMA DecodedFields ==
  ASSUME NEW b
  PROVE  /\ Decode(b).soc = b.soc /\ Decode(b).faults = FaultFlags(b.fault)
         /\ Decode(b).dvcc_max_v = Limit(b.max_v)
         /\ Decode(b).dvcc_min_v = Limit(b.min_v)
         /\ Decode(b).dvcc_max_charge_current = Limit(b.max_charge)
         /\ Decode(b).dvcc_max_discharge_current = Limit(b.max_discharge)
BY DEF Decode

\* What a present pack reports, and where from.
LEMMA FromRegisters ==
  ASSUME AcqValid, NEW i \in ReadSlots
  PROVE  /\ i \in Slots /\ i \in Present(packs)
         /\ registers[i] \in Block
         /\ packs[i] = Decode(registers[i])
BY BlocksAssumption DEF AcqValid, Origin, ReadSlots, Present

LEMMA FromSimulation ==
  ASSUME AcqValid, NEW i \in Present(packs), i \notin ReadSlots
  PROVE  \E j \in Jitters : packs[i] = Simulated(j)
BY DEF AcqValid, Origin, ReadSlots, Present

\* A fault alarm is always some pack's own populated fault bit: the sentinel,
\* in which every fault bit is set, raises none, and a simulated pack neither.
THEOREM FaultAlarmsComeFromBits == AcqSpec => []FaultAlarmsAreRead
<1>1. AcqValid => FaultAlarmsAreRead
  <2> SUFFICES ASSUME AcqValid, NEW f \in Faults, Alarm(packs, f) # 0
               PROVE  \E i \in ReadSlots :
                        /\ registers[i].fault # Sentinel
                        /\ Bit(registers[i].fault, FaultBit[f])
    BY DEF FaultAlarmsAreRead
  <2>1. Alarm(packs, f) = FaultAlarm(packs, f)
    BY DEF Alarm, Faults
  <2>2. PICK i \in Present(packs) : f \in packs[i].faults
    BY <2>1 DEF FaultAlarm
  <2>3. i \in ReadSlots
    <3>1. \A j : Simulated(j).faults = {}
      BY DEF Simulated
    <3>2. QED
      BY <2>2, <3>1, FromSimulation
  <2>4. packs[i].faults = FaultFlags(registers[i].fault)
    BY <2>3, FromRegisters, DecodedFields
  <2>5. QED
    BY <2>2, <2>3, <2>4 DEF FaultFlags
<1>2. QED
  BY <1>1, AlwaysAcqValid, PTL

\* The weaker pack decides: an unread SoC of the other pack, which counts as
\* 32767 %, never hides a low one.
THEOREM LowSocIsNeverHidden == AcqSpec => []UnreadSocHidesNoAlarm
<1>1. AcqValid => UnreadSocHidesNoAlarm
  <2> SUFFICES ASSUME AcqValid, NEW i \in ReadSlots
               PROVE  Alarm(packs, "LowSoc") >= Falling(registers[i].soc, SocWarn, SocAlarm)
    BY DEF UnreadSocHidesNoAlarm
  <2>1. i \in Slots /\ packs[i] # Absent /\ packs[i].soc = registers[i].soc
    BY FromRegisters, DecodedFields DEF Present
  <2>2. \A k \in {1, 2} : Value(packs, k, "soc") \in Nat \cup {None}
    BY ValueTypes DEF AcqValid, Numbers, Slots
  <2>3. Value(packs, i, "soc") = registers[i].soc /\ registers[i].soc \in Nat
    <3>1. registers[i].soc \in Word
      BY FromRegisters DEF Block
    <3>2. Value(packs, i, "soc") = packs[i].soc
      BY <2>1 DEF Value
    <3>3. QED
      BY <2>1, <3>1, <3>2, WordIsNat
  <2>4. BankSoc(packs) \in Nat /\ BankSoc(packs) <= registers[i].soc
    <3>1. None \notin Nat
      BY ConstantsAssumption
    <3>2. i = 1 \/ i = 2
      BY <2>1 DEF Slots
    <3>3. QED
      BY <2>2, <2>3, <3>1, <3>2 DEF BankSoc, Weakest
  <2>5. SocWarn \in Int /\ SocAlarm \in Int /\ SocAlarm <= SocWarn /\ None \notin Int
    BY ConstantsAssumption
  <2>6. Falling(BankSoc(packs), SocWarn, SocAlarm) >= Falling(registers[i].soc, SocWarn, SocAlarm)
    BY <2>3, <2>4, <2>5 DEF Falling
  <2>7. Alarm(packs, "LowSoc") = Falling(BankSoc(packs), SocWarn, SocAlarm)
    BY DEF Alarm, Faults
  <2>8. QED
    BY <2>6, <2>7
<1>2. QED
  BY <1>1, AlwaysAcqValid, PTL

\* Below its own limits of voltage, every pack.
LEMMA PackLimits ==
  ASSUME AcqValid, NEW i \in Present(packs),
         i \in ReadSlots =>
           /\ registers[i].max_v # Sentinel /\ registers[i].min_v # Sentinel
           /\ registers[i].min_v < registers[i].max_v
  PROVE  /\ Value(packs, i, "dvcc_min_v") \in Nat
         /\ Value(packs, i, "dvcc_max_v") \in Nat
         /\ Value(packs, i, "dvcc_min_v") < Value(packs, i, "dvcc_max_v")
<1>0. /\ Value(packs, i, "dvcc_min_v") = packs[i].dvcc_min_v
      /\ Value(packs, i, "dvcc_max_v") = packs[i].dvcc_max_v
  BY DEF Value, Present
<1>1. CASE i \in ReadSlots
  <2>1. /\ registers[i].max_v \in Word /\ registers[i].min_v \in Word
        /\ packs[i].dvcc_max_v = registers[i].max_v
        /\ packs[i].dvcc_min_v = registers[i].min_v
    BY <1>1, FromRegisters, DecodedFields DEF Block, Limit
  <2>2. QED
    BY <1>0, <1>1, <2>1, WordIsNat
<1>2. CASE i \notin ReadSlots
  <2>1. PICK j \in Jitters : packs[i] = Simulated(j)
    BY <1>2, FromSimulation
  <2>2. packs[i].dvcc_min_v = 1200 /\ packs[i].dvcc_max_v = 1460
    BY <2>1 DEF Simulated
  <2>3. QED
    BY <1>0, <2>2
<1>3. QED
  BY <1>1, <1>2

\* The sum of the packs' low limits is below that of their charge limits.
LEMMA SumsOrdered ==
  ASSUME Present(packs) # {},
         \A i \in Present(packs) :
           /\ Value(packs, i, "dvcc_min_v") \in Nat
           /\ Value(packs, i, "dvcc_max_v") \in Nat
           /\ Value(packs, i, "dvcc_min_v") < Value(packs, i, "dvcc_max_v")
  PROVE  BatteryLowVoltage(packs) < MaxChargeVoltage(packs)
<1> DEFINE lo(i) == Value(packs, i, "dvcc_min_v")
           hi(i) == Value(packs, i, "dvcc_max_v")
<1>1. \A i \in {1, 2} : i \notin Present(packs) => lo(i) = None /\ hi(i) = None
  BY DEF Present, Value, Slots, Absent
<1>2. None \notin Nat
  BY ConstantsAssumption
<1>3. 1 \in Present(packs) \/ 2 \in Present(packs)
  BY DEF Present, Slots
<1>4. \A i \in Present(packs) : lo(i) \in Nat /\ hi(i) \in Nat /\ lo(i) < hi(i)
  OBVIOUS
<1>5. /\ BatteryLowVoltage(packs) = IF lo(1) = None THEN lo(2)
                                   ELSE IF lo(2) = None THEN lo(1) ELSE lo(1) + lo(2)
      /\ MaxChargeVoltage(packs) = IF hi(1) = None THEN hi(2)
                                  ELSE IF hi(2) = None THEN hi(1) ELSE hi(1) + hi(2)
  BY DEF BatteryLowVoltage, MaxChargeVoltage, SeriesSum
<1> HIDE DEF lo, hi
<1>6. CASE 1 \in Present(packs) /\ 2 \in Present(packs)
  BY <1>2, <1>4, <1>5, <1>6
<1>7. CASE 1 \in Present(packs) /\ 2 \notin Present(packs)
  BY <1>1, <1>2, <1>4, <1>5, <1>7
<1>8. CASE 1 \notin Present(packs) /\ 2 \in Present(packs)
  BY <1>1, <1>2, <1>4, <1>5, <1>8
<1>9. QED
  BY <1>3, <1>6, <1>7, <1>8

LEMMA VoltageLimitsOrdered == AcqValid => VoltageLimitsInOrder
BY PackLimits, SumsOrdered DEF VoltageLimitsInOrder

\* The bank takes the least of what the packs report, and nothing if they do not.
LEMMA WeakestIsLeast ==
  ASSUME ValidPacks, NEW field \in Numbers
  PROVE  /\ \A i \in Slots : Value(packs, i, field) # None =>
              Weakest(packs, field) <= Value(packs, i, field)
         /\ (\A i \in Slots : Value(packs, i, field) = None) =>
              Weakest(packs, field) = None
<1> DEFINE v(k) == Value(packs, k, field)
<1>1. Slots = {1, 2} /\ None \notin Nat
  BY ConstantsAssumption DEF Slots
<1>2. \A k \in {1, 2} : v(k) \in Nat \cup {None}
  BY <1>1, ValueTypes
<1>3. Weakest(packs, field) =
        IF v(1) = None THEN v(2)
        ELSE IF v(2) = None \/ v(1) <= v(2) THEN v(1) ELSE v(2)
  BY DEF Weakest
<1> HIDE DEF v
<1>4. /\ \A i \in {1, 2} : v(i) # None => Weakest(packs, field) <= v(i)
      /\ (\A i \in {1, 2} : v(i) = None) => Weakest(packs, field) = None
  BY <1>1, <1>2, <1>3
<1>5. QED
  BY <1>1, <1>4 DEF v

\* A limit that is decoded from one register of each pack, and of which the
\* bank takes the least, fits every pack.
LEMMA LeastFits ==
  ASSUME AcqValid, NEW register, NEW field \in Numbers,
         \A b \in Block :
           b[register] \in Word /\ Decode(b)[field] = Limit(b[register])
  PROVE  CurrentFits(Weakest(packs, field), register)
<1>1. \A i \in ReadSlots :
        i \in Slots /\ Value(packs, i, field) = Limit(registers[i][register])
  <2> SUFFICES ASSUME NEW i \in ReadSlots
               PROVE  i \in Slots /\ Value(packs, i, field) = Limit(registers[i][register])
    OBVIOUS
  <2>1. /\ i \in Slots /\ i \in Present(packs)
        /\ registers[i] \in Block /\ packs[i] = Decode(registers[i])
    BY FromRegisters
  <2>2. Value(packs, i, field) = packs[i][field]
    BY <2>1 DEF Value, Present
  <2>3. QED
    BY <2>1, <2>2
<1>2. ASSUME NEW i \in ReadSlots, registers[i][register] # Sentinel
      PROVE  Weakest(packs, field) <= registers[i][register]
  <2>1. /\ i \in Slots /\ Value(packs, i, field) = registers[i][register]
    BY <1>1, <1>2 DEF Limit
  <2>2. Value(packs, i, field) # None
    <3>1. registers[i][register] \in Word
      BY FromRegisters
    <3>2. None \notin Nat
      BY ConstantsAssumption
    <3>3. QED
      BY <2>1, <3>1, <3>2, WordIsNat
  <2>3. QED
    BY <2>1, <2>2, WeakestIsLeast DEF AcqValid
<1>3. ASSUME \A i \in ReadSlots : registers[i][register] = Sentinel,
             ReadSlots = Present(packs)
      PROVE  Weakest(packs, field) = None
  <2>1. \A i \in Slots : Value(packs, i, field) = None
    BY <1>1, <1>3 DEF Limit, Value, Present, Absent
  <2>2. QED
    BY <2>1, WeakestIsLeast DEF AcqValid
<1>4. QED
  BY <1>2, <1>3 DEF CurrentFits

\* Neither pack is offered more charge or discharge current than its registers
\* allow, for any registers and whatever the other pack is, and the limits of
\* voltage are in order when those of every pack are.
THEOREM LimitsAreSafe == AcqSpec => []LimitsFitEveryPack
<1>1. AcqValid => LimitsFitEveryPack
  <2> SUFFICES ASSUME AcqValid PROVE LimitsFitEveryPack
    OBVIOUS
  <2>1. CurrentFits(MaxChargeCurrent(packs), "max_charge")
    <3>1. \A b \in Block :
            /\ b["max_charge"] \in Word
            /\ Decode(b)["dvcc_max_charge_current"] = Limit(b["max_charge"])
      BY DecodedFields DEF Block
    <3>2. QED
      BY <3>1, LeastFits DEF MaxChargeCurrent, Numbers
  <2>2. CurrentFits(MaxDischargeCurrent(packs), "max_discharge")
    <3>1. \A b \in Block :
            /\ b["max_discharge"] \in Word
            /\ Decode(b)["dvcc_max_discharge_current"] = Limit(b["max_discharge"])
      BY DecodedFields DEF Block
    <3>2. QED
      BY <3>1, LeastFits DEF MaxDischargeCurrent, Numbers
  <2>3. QED
    BY <2>1, <2>2, VoltageLimitsOrdered DEF LimitsFitEveryPack
<1>2. QED
  BY <1>1, AlwaysAcqValid, PTL

----------------------------------------------------------------------------
(* The guard and the registers.                                            *)

\* What a reading of registers has of its cells, sensors and serial.
LEMMA DecodedRows ==
  ASSUME NEW b
  PROVE  /\ Decode(b).cells = Populated(b.cells)
         /\ Decode(b).temps = SensorValues(b.temps)
         /\ Decode(b).temp_bms = Signed(b.temp_bms)
         /\ Decode(b).voltage = b.voltage
         /\ Decode(b).serial = Joined(b.serial)
BY DEF Decode

LEMMA BlockRows ==
  ASSUME NEW b \in Block
  PROVE  /\ b.cells \in Seq(Word) /\ b.temps \in Seq(Word) /\ b.serial \in Seq(Word)
         /\ b.temp_bms \in Word
BY DEF Block

\* A value beyond a limit of the guard was read as such.
LEMMA CulpritWasRead ==
  ASSUME NEW b \in Block, Culprit(Decode(b)), b.voltage # Sentinel
  PROVE  PopulatedCause(b)
<1> DEFINE r == Decode(b)
<1>1. CASE OverVoltage(r)
  <2>1. PICK n \in DOMAIN Populated(b.cells) : Populated(b.cells)[n] >= CellCeiling
    BY <1>1, DecodedRows DEF OverVoltage
  <2>2. Populated(b.cells)[n] \in Range(b.cells) \ {Sentinel}
    <3>1. Populated(b.cells)[n] \in Range(Populated(b.cells))
      BY DEF Range
    <3>2. QED
      BY <3>1, BlockRows, PopulatedValues
  <2>3. PICK m \in DOMAIN b.cells : b.cells[m] = Populated(b.cells)[n]
    BY <2>2 DEF Range
  <2>4. QED
    BY <2>1, <2>2, <2>3 DEF PopulatedCause
<1>2. CASE OutOfRange(r)
  <2>1. PICK n \in {0} \cup DOMAIN r.temps :
          /\ TempOf(r, n) # Sentinel
          /\ TempOf(r, n) > TempMax \/ TempOf(r, n) < TempMin
    BY <1>2 DEF OutOfRange, TempReadings
  <2>2. \E t \in {b.temp_bms} \cup Range(b.temps) : t \in Word /\ TempOf(r, n) = Signed(t)
    <3>1. CASE n = 0
      BY <3>1, DecodedRows, BlockRows DEF TempOf
    <3>2. CASE n # 0
      <4> DEFINE t == Populated(b.temps)[n]
      <4>1. n \in DOMAIN SensorValues(b.temps) /\ TempOf(r, n) = SensorValues(b.temps)[n]
        BY <2>1, <3>2, DecodedRows DEF TempOf
      <4>2. n \in DOMAIN Populated(b.temps) /\ TempOf(r, n) = Signed(t)
        BY <4>1, BlockRows, SensorsTyped
      <4>3. t \in Range(Populated(b.temps))
        BY <4>2 DEF Range
      <4>4. t \in Range(b.temps) /\ t \in Word
        <5>1. Populated(b.temps) \in Seq(Word) /\ t \in Range(b.temps)
          BY <4>3, BlockRows, PopulatedValues
        <5>2. QED
          BY <4>2, <5>1
      <4>5. QED
        BY <4>2, <4>4
    <3>3. QED
      BY <3>1, <3>2
  <2>3. PICK t \in {b.temp_bms} \cup Range(b.temps) : t \in Word /\ TempOf(r, n) = Signed(t)
    BY <2>2
  <2>4. t # Sentinel
    BY <2>1, <2>3, SignedTyped
  <2>5. QED
    BY <2>1, <2>3, <2>4 DEF PopulatedCause
<1>3. CASE r.dvcc_max_v # None /\ r.voltage >= r.dvcc_max_v
  <2>1. b.max_v # Sentinel /\ r.dvcc_max_v = b.max_v /\ r.voltage = b.voltage
    BY <1>3, DecodedFields, DecodedRows DEF Limit
  <2>2. QED
    BY <1>3, <2>1 DEF PopulatedCause
<1>4. QED
  BY <1>1, <1>2, <1>3 DEF Culprit

\* What params.py says of its guard, of a bank whose packs all reported their
\* voltage and their limit: a bank is refused a charge only because of some
\* register that was read, and is populated.
THEOREM ReadBlockIsRead == AcqSpec => []BlockIsReadIfVoltagesAre
<1>1. AcqValid /\ ChargeBlockHasCulprit => BlockIsReadIfVoltagesAre
  <2> SUFFICES ASSUME AcqValid, ChargeBlockHasCulprit,
                      \A i \in ReadSlots : registers[i].voltage # Sentinel /\ registers[i].max_v # Sentinel,
                      Present(packs) # {}, ~AllowToCharge(packs)
               PROVE  \E i \in ReadSlots : PopulatedCause(registers[i])
    BY DEF BlockIsReadIfVoltagesAre, BlockIsRead
  <2>1. \A i \in Present(packs) : packs[i].dvcc_max_v # None
    <3> SUFFICES ASSUME NEW i \in Present(packs)
                 PROVE  packs[i].dvcc_max_v # None
      OBVIOUS
    <3>1. CASE i \in ReadSlots
      <4>1. packs[i].dvcc_max_v = registers[i].max_v /\ registers[i].max_v \in Word
        BY <3>1, FromRegisters, DecodedFields DEF Limit, Block
      <4>2. packs[i].dvcc_max_v \in Nat
        BY <4>1, WordIsNat
      <4>3. None \notin Nat
        BY ConstantsAssumption
      <4>4. QED
        BY <4>2, <4>3
    <3>2. CASE i \notin ReadSlots
      <4>1. PICK j \in Jitters : packs[i] = Simulated(j)
        BY <3>2, FromSimulation
      <4>2. packs[i].dvcc_max_v = 1460
        BY <4>1 DEF Simulated
      <4>3. QED
        BY <4>2, ConstantsAssumption
    <3>3. QED
      BY <3>1, <3>2
  <2>2. PICK i \in Present(packs) : Culprit(packs[i])
    BY <2>1 DEF ChargeBlockHasCulprit, BlockHasCulprit
  <2>3. i \in ReadSlots
    BY <2>2, FromSimulation, FixedByCode
  <2>4. registers[i] \in Block /\ packs[i] = Decode(registers[i])
    BY <2>3, FromRegisters
  <2>5. PopulatedCause(registers[i])
    BY <2>2, <2>3, <2>4, CulpritWasRead
  <2>6. QED
    BY <2>3, <2>5
<1>2. QED
  BY <1>1, AlwaysAcqValid, ReadBlocksAreEarned, PTL

\* Two packs are given one serial only by equal registers, or where numbers of
\* different length meet: joined without padding, (1, 23) and (12, 3) are the
\* same.
THEOREM SerialsNamePacks == AcqSpec => []SerialNamesPack
<1>1. AcqValid => SerialNamesPack
  <2> SUFFICES ASSUME AcqValid, NEW i \in ReadSlots, NEW j \in ReadSlots,
                      packs[i].serial = packs[j].serial,
                      \A n \in DOMAIN registers[i].serial :
                        Len(Digits[registers[i].serial[n]]) = Len(Digits[registers[j].serial[n]])
               PROVE  registers[i].serial = registers[j].serial
    BY DEF SerialNamesPack
  <2>1. registers[i] \in Blocks /\ registers[j] \in Blocks
    BY DEF AcqValid, ReadSlots, Present
  <2>2. /\ registers[i].serial \in Seq(Word) /\ registers[j].serial \in Seq(Word)
        /\ Len(registers[i].serial) = Len(registers[j].serial)
    BY <2>1, BlockRows, FromRegisters, FixedByCode
  <2>3. Joined(registers[i].serial) = Joined(registers[j].serial)
    BY FromRegisters, DecodedRows
  <2>4. QED
    BY <2>2, <2>3, JoinedInjective
<1>2. QED
  BY <1>1, AlwaysAcqValid, PTL

----------------------------------------------------------------------------
(* The ids of cells.                                                       *)

\* Of some ids one comes first in the order of the loops.
LEMMA EarliestExists ==
  ASSUME NEW ids \in SUBSET (Nat \X Nat), ids # {}
  PROVE  Earliest(ids) \in ids
<1> DEFINE firsts == {a[1] : a \in ids}
<1>1. PICK x \in firsts : \A y \in firsts : x <= y
  <2>1. firsts \in SUBSET Nat /\ firsts # {}
    OBVIOUS
  <2>2. QED
    BY <2>1, LeastNumber
<1> DEFINE seconds == {a[2] : a \in {b \in ids : b[1] = x}}
<1>2. PICK z \in seconds : \A y \in seconds : z <= y
  <2>1. seconds \in SUBSET Nat /\ seconds # {}
    BY <1>1
  <2>2. QED
    BY <2>1, LeastNumber
<1>3. PICK a \in ids : a[1] = x /\ a[2] = z
  BY <1>2
<1>4. \A b \in ids : a[1] < b[1] \/ (a[1] = b[1] /\ a[2] <= b[2])
  <2> SUFFICES ASSUME NEW b \in ids
               PROVE  a[1] < b[1] \/ (a[1] = b[1] /\ a[2] <= b[2])
    OBVIOUS
  <2>1. a[1] \in Nat /\ b[1] \in Nat /\ a[1] <= b[1]
    BY <1>1, <1>3
  <2>2. b[1] = x => a[2] <= b[2]
    BY <1>2, <1>3
  <2>3. QED
    BY <1>3, <2>1, <2>2
<1>5. QED
  BY <1>3, <1>4 DEF Earliest

\* Of some cells one has the least value and one the greatest.
LEMMA ExtremesExist ==
  ASSUME NEW D \in SUBSET (Nat \X Nat), D # {}, IsFiniteSet(D), NEW f \in [D -> Int]
  PROVE  LeastId(f) \in D /\ GreatestId(f) \in D
<1> DEFINE least == {a \in DOMAIN f : \A b \in DOMAIN f : f[a] <= f[b]}
           greatest == {a \in DOMAIN f : \A b \in DOMAIN f : f[b] <= f[a]}
           values == {f[a] : a \in D}
<1>1. values \in SUBSET Int /\ values # {} /\ IsFiniteSet(values)
  <2>1. values \in SUBSET Int /\ values # {}
    OBVIOUS
  <2>2. f \in Surjection(D, values)
    BY DEF Surjection
  <2>3. IsFiniteSet(values)
    BY <2>2, FS_Surjection
  <2>4. QED
    BY <2>1, <2>3
<1>2. Min(values) \in values /\ \A x \in values : Min(values) <= x
  BY <1>1, FiniteSetHasMinimum
<1>3. Max(values) \in values /\ \A x \in values : x <= Max(values)
  BY <1>1, FiniteSetHasMaximum
<1>4. least # {} /\ greatest # {}
  <2>1. PICK m \in D : Min(values) = f[m]
    BY <1>2
  <2>2. PICK n \in D : Max(values) = f[n]
    BY <1>3
  <2>3. \A b \in D : f[m] <= f[b] /\ f[b] <= f[n]
    BY <1>2, <1>3, <2>1, <2>2
  <2>4. QED
    BY <2>3
<1>5. least \in SUBSET (Nat \X Nat) /\ greatest \in SUBSET (Nat \X Nat)
  OBVIOUS
<1>6. Earliest(least) \in least /\ Earliest(greatest) \in greatest
  BY <1>4, <1>5, EarliestExists
<1>7. LeastId(f) = Earliest(least) /\ GreatestId(f) = Earliest(greatest)
  BY DEF LeastId, GreatestId
<1>8. QED
  BY <1>6, <1>7

\* The ids of the cells of the bank.
LEMMA CellIds ==
  ASSUME ValidPacks
  PROVE  LET cells == CellVoltages(packs)
         IN  /\ DOMAIN cells \in SUBSET (Nat \X Nat) /\ IsFiniteSet(DOMAIN cells)
             /\ \A a \in DOMAIN cells : /\ a[1] \in Present(packs)
                                       /\ a[2] \in DOMAIN packs[a[1]].cells
                                       /\ cells[a] = packs[a[1]].cells[a[2]]
                                       /\ cells[a] \in Int
<1> DEFINE cells == CellVoltages(packs)
           Row(i) == {i} \X DOMAIN packs[i].cells
           rows == {Row(i) : i \in Present(packs)}
<1>1. DOMAIN cells = UNION rows
  BY DEF CellVoltages
<1>2. ASSUME NEW i \in Present(packs)
      PROVE  /\ i \in Nat /\ packs[i].cells \in Seq(Nat)
             /\ DOMAIN packs[i].cells \in SUBSET Nat
             /\ IsFiniteSet(Row(i))
  <2>1. i \in Nat /\ packs[i] \in Readings
    BY DEF Present, ValidPacks, Slots
  <2>2. packs[i].cells \in Seq(Nat)
    BY <2>1, ConstantsAssumption DEF Reading
  <2>3. DOMAIN packs[i].cells = 1 .. Len(packs[i].cells) /\ Len(packs[i].cells) \in Nat
    BY <2>2
  <2>4. IsFiniteSet(DOMAIN packs[i].cells)
    BY <2>3, FS_Interval
  <2>5. IsFiniteSet(Row(i))
    BY <2>4, FS_Singleton, FS_Product
  <2>6. DOMAIN packs[i].cells \in SUBSET Nat
    BY <2>3
  <2> HIDE DEF Row
  <2>7. QED
    BY <2>1, <2>2, <2>5, <2>6
<1>3. IsFiniteSet(UNION rows)
  <2>1. \A i \in Present(packs) : i = 1 \/ i = 2
    BY DEF Present, Slots
  <2> HIDE DEF Row
  <2>2. IsFiniteSet({Row(1)} \cup {Row(2)})
    BY FS_Singleton, FS_Union
  <2>3. rows \in SUBSET ({Row(1)} \cup {Row(2)})
    BY <2>1
  <2>4. IsFiniteSet(rows)
    BY <2>2, <2>3, FS_Subset
  <2>5. \A r \in rows : IsFiniteSet(r)
    BY <1>2
  <2>6. QED
    BY <2>4, <2>5, FS_UNION
<1>4. ASSUME NEW a \in DOMAIN cells
      PROVE  /\ a \in Nat \X Nat
             /\ a[1] \in Present(packs)
             /\ a[2] \in DOMAIN packs[a[1]].cells
             /\ cells[a] = packs[a[1]].cells[a[2]]
             /\ cells[a] \in Int
  <2>1. PICK i \in Present(packs) : a \in Row(i)
    BY <1>1
  <2>2. a[1] = i /\ a[2] \in DOMAIN packs[i].cells /\ a = <<a[1], a[2]>>
    BY <2>1
  <2>3. cells[a] = packs[a[1]].cells[a[2]]
    BY DEF CellVoltages
  <2>4. packs[i].cells[a[2]] \in Nat /\ a[2] \in Nat /\ i \in Nat
    <3>1. /\ i \in Nat /\ packs[i].cells \in Seq(Nat)
          /\ DOMAIN packs[i].cells \in SUBSET Nat
      BY <1>2
    <3> DEFINE row == packs[i].cells
    <3> HIDE DEF row
    <3>2. row \in Seq(Nat) /\ a[2] \in DOMAIN row
      BY <2>2, <3>1 DEF row
    <3>3. row[a[2]] \in Nat /\ a[2] \in Nat
      BY <3>2
    <3>4. QED
      BY <3>1, <3>3 DEF row
  <2>5. QED
    BY <2>2, <2>3, <2>4
<1> HIDE DEF cells
<1>5. QED
  BY <1>1, <1>3, <1>4 DEF cells

\* The id published with the lowest or the highest cell names the register
\* the value was read from, as long as sentinels come last in the rows of the
\* packs.
THEOREM IdsNameTheirRegisters == AcqSpec => []IdsNameRegisters
<1>1. AcqValid => IdsNameRegisters
  <2> SUFFICES ASSUME AcqValid, \A i \in ReadSlots : Contiguous(registers[i].cells),
                      NEW id, id \in {LeastId(CellVoltages(packs)), GreatestId(CellVoltages(packs))},
                      id # None, id[1] \in ReadSlots
               PROVE  /\ id[2] \in DOMAIN registers[id[1]].cells
                      /\ registers[id[1]].cells[id[2]] = CellVoltages(packs)[id]
    BY DEF IdsNameRegisters
  <2> DEFINE cells == CellVoltages(packs)
             b == registers[id[1]]
  <2>1. ValidPacks
    BY DEF AcqValid
  <2>2. DOMAIN cells # {}
    BY DEF LeastId, GreatestId
  <2>3. id \in DOMAIN cells
    <3>1. /\ DOMAIN cells \in SUBSET (Nat \X Nat) /\ IsFiniteSet(DOMAIN cells)
          /\ \A a \in DOMAIN cells : cells[a] \in Int
      BY <2>1, CellIds
    <3>2. cells = [a \in DOMAIN cells |-> cells[a]]
      BY DEF CellVoltages
    <3> HIDE DEF cells
    <3>3. cells \in [DOMAIN cells -> Int]
      BY <3>1, <3>2
    <3>4. LeastId(cells) \in DOMAIN cells /\ GreatestId(cells) \in DOMAIN cells
      BY <2>2, <3>1, <3>3, ExtremesExist
    <3>5. QED
      BY <3>4 DEF cells
  <2>4. /\ id[2] \in DOMAIN packs[id[1]].cells
        /\ cells[id] = packs[id[1]].cells[id[2]]
    BY <2>1, <2>3, CellIds
  <2>5. packs[id[1]].cells = Populated(b.cells) /\ b.cells \in Seq(Word)
    BY FromRegisters, DecodedRows, BlockRows
  <2>6. Contiguous(b.cells)
    OBVIOUS
  <2>7. id[2] \in DOMAIN b.cells /\ Populated(b.cells)[id[2]] = b.cells[id[2]]
    BY <2>4, <2>5, <2>6, PopulatedPlaces
  <2>8. QED
    BY <2>4, <2>5, <2>7
<1>2. QED
  BY <1>1, AlwaysAcqValid, PTL

=============================================================================
