---------------------------- MODULE Acquisition -----------------------------
(***************************************************************************)
(* From the registers of the packs to the bank: the readings of BankParams  *)
(* are what PackReading makes of the registers that were read, or a         *)
(* simulated pack.                                                          *)
(***************************************************************************)
EXTENDS BankParams

CONSTANT Blocks   \* the registers a pack may answer with

ASSUME BlocksAssumption ==
  /\ \A b \in Blocks : b \in Block /\ (Readable(b) => Decode(b) \in Readings)
  /\ \A j \in Jitters : Simulated(j) \in Readings
  /\ None \notin Blocks

\* A serial is read from as many registers of every pack, and the jitter of a
\* simulated pack keeps it clear of what forbids charging.
ASSUME FixedByCode ==
  /\ \A b, c \in Blocks : Len(b.serial) = Len(c.serial)
  /\ \A j \in Jitters : ~Culprit(Simulated(j))

VARIABLE registers   \* what the data of a slot was read from

acqVars == <<packs, registers>>

AcqInit == Init /\ registers = [i \in Slots |-> None]

\* A pack answers every read, and has a populated cell.
Read(i, b) ==
  /\ Readable(b)
  /\ Appear(i, Decode(b))
  /\ registers' = [registers EXCEPT ![i] = b]

\* The slot has a simulated port.
Simulate(i, j) ==
  /\ Appear(i, Simulated(j))
  /\ UNCHANGED registers

Lose(i) ==
  /\ Drop(i)
  /\ registers' = [registers EXCEPT ![i] = None]

AcqNext ==
  \E i \in Slots :
    \/ \E b \in Blocks : Read(i, b)
    \/ \E j \in Jitters : Simulate(i, j)
    \/ Lose(i)

AcqSpec == AcqInit /\ [][AcqNext]_acqVars

----------------------------------------------------------------------------
(* Properties.                                                             *)

\* The slots whose data was read from registers.
ReadSlots == {i \in Present(packs) : registers[i] # None}

\* Types; a slot that holds registers shows what they decode to.
AcqTypeOK ==
  /\ TypeOK
  /\ registers \in [Slots -> Blocks \cup {None}]
  /\ \A i \in Slots : registers[i] # None => packs[i] = Decode(registers[i])

\* A register that was read and is beyond a limit of the guard.
PopulatedCause(b) ==
  \/ \E n \in DOMAIN b.cells : b.cells[n] # Sentinel /\ b.cells[n] >= CellCeiling
  \/ \E t \in {b.temp_bms} \cup Range(b.temps) :
       t # Sentinel /\ (Signed(t) > TempMax \/ Signed(t) < TempMin)
  \/ b.voltage # Sentinel /\ b.max_v # Sentinel /\ b.voltage >= b.max_v

\* What params.py says of its guard, that it "never trips from sentinel,
\* unread, or default state": a bank that has a pack is refused a charge
\* because of registers that were read.
BlockIsRead ==
  Present(packs) # {} /\ ~AllowToCharge(packs)
    => \E i \in ReadSlots : PopulatedCause(registers[i])

\* That is so as long as the voltage and the limit of every pack were read,
\* which the code does not check for each other.
BlockIsReadIfVoltagesAre ==
  (\A i \in ReadSlots : registers[i].voltage # Sentinel /\ registers[i].max_v # Sentinel)
    => BlockIsRead

\* A fault alarm is some pack's own populated fault bit.
FaultAlarmsAreRead ==
  \A f \in Faults : Alarm(packs, f) # 0 =>
    \E i \in ReadSlots :
      registers[i].fault # Sentinel /\ Bit(registers[i].fault, FaultBit[f])

\* An id published for a cell names the register of that cell, as long as
\* the sentinels come last in each pack: ids are counted after the sentinels
\* were left out.
IdsNameRegisters ==
  (\A i \in ReadSlots : Contiguous(registers[i].cells)) =>
    \A f \in {"Least", "Greatest"} :
      LET cells == CellVoltages(packs)
          id == IF f = "Least" THEN LeastId(cells) ELSE GreatestId(cells)
      IN  id # None /\ id[1] \in ReadSlots =>
            /\ id[2] \in DOMAIN registers[id[1]].cells
            /\ registers[id[1]].cells[id[2]] = cells[id]

\* A pack whose SoC was read to be low raises the alarm whatever the other
\* pack reports, a sentinel included.
UnreadSocHidesNoAlarm ==
  \A i \in ReadSlots :
    Alarm(packs, "LowSoc") >= Falling(registers[i].soc, SocWarn, SocAlarm)

\* A current limit of the bank is within what every pack allows that reports
\* one, and is not made up when packs are read and none of them does.
CurrentFits(limit, field) ==
  LET reported == {i \in ReadSlots : registers[i][field] # Sentinel} IN
  /\ \A i \in reported : limit <= registers[i][field]
  /\ reported = {} /\ ReadSlots = Present(packs) => limit = None

\* The low-voltage limit of the bank is below its charge limit, if that is so
\* in every pack that was read and both limits of each were.
VoltageLimitsInOrder ==
  (\A i \in ReadSlots :
     /\ registers[i].max_v # Sentinel /\ registers[i].min_v # Sentinel
     /\ registers[i].min_v < registers[i].max_v)
  /\ Present(packs) # {}
    => BatteryLowVoltage(packs) < MaxChargeVoltage(packs)

\* No pack of the string is charged or discharged with more current than it
\* allows, whatever the other pack reports, a sentinel included: the same
\* current flows through both, so that the least limit must win, while limits
\* of voltage add up.  Only of the latter something is supposed: both limits
\* read from every pack, and the lower one of each below the upper one.
LimitsFitEveryPack ==
  /\ CurrentFits(MaxChargeCurrent(packs), "max_charge")
  /\ CurrentFits(MaxDischargeCurrent(packs), "max_discharge")
  /\ VoltageLimitsInOrder

\* The two packs get one serial only if their registers are equal, or differ
\* in the number of digits.
SerialNamesPack ==
  \A i, j \in ReadSlots :
    packs[i].serial = packs[j].serial =>
      \/ registers[i].serial = registers[j].serial
      \/ \E n \in DOMAIN registers[i].serial :
           Len(Digits[registers[i].serial[n]]) # Len(Digits[registers[j].serial[n]])

=============================================================================
