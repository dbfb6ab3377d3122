---------------------------- MODULE PackReading -----------------------------
(***************************************************************************)
(* felicity_reader.py: what read_pack() makes of the registers of a pack,   *)
(* and what it makes up for a simulated one.                                *)
(*                                                                         *)
(* Values keep the unit of their register: mV for a cell, 0.01 V and 0.1 A  *)
(* for the pack, percent, degrees.                                          *)
(***************************************************************************)
EXTENDS Integers, Sequences, SequencesExt

CONSTANTS
  None,
  SimSerial,   \* the serial of a simulated pack
  Jitters      \* what _simulate_pack() may add to the values of its baseline

Word == 0 .. 65535
Sentinel == 32767   \* SENTINEL_INT16: the register is not populated

\* The registers of a pack that is read, under the names of their values.
Block ==
  [cells : Seq(Word), voltage : Word, current : Word, soc : Word,
   status : Word, fault : Word, temp_bms : Word, temps : Seq(Word),
   max_v : Word, min_v : Word, max_charge : Word, max_discharge : Word,
   serial : Seq(Word)]

Faults == {"HighCellVoltage", "LowCellVoltage", "HighChargeCurrent",
           "HighDischargeCurrent", "HighInternalTemperature",
           "HighChargeTemperature", "LowChargeTemperature"}

\* FAULT_BIT_MAP, under the names of the alarms the bits raise.
FaultBit ==
  [HighCellVoltage |-> 2, LowCellVoltage |-> 3, HighChargeCurrent |-> 4,
   HighDischargeCurrent |-> 5, HighInternalTemperature |-> 6,
   HighChargeTemperature |-> 8, LowChargeTemperature |-> 9]

\* The data dict of read_pack().
Reading ==
  [cells : Seq(Nat), voltage : Nat, current : Int, soc : Nat,
   temp_bms : Int, temps : Seq(Int), serial : Seq(0 .. 9) \cup {SimSerial},
   dvcc_max_v : Nat \cup {None}, dvcc_min_v : Nat \cup {None},
   dvcc_max_charge_current : Nat \cup {None},
   dvcc_max_discharge_current : Nat \cup {None},
   fet_charge : BOOLEAN \cup {None}, fet_discharge : BOOLEAN \cup {None},
   faults : SUBSET Faults, simulated : BOOLEAN]

----------------------------------------------------------------------------
Bit(w, n) == (w \div 2^n) % 2 = 1

\* _s16()
Signed(w) == IF w < 32768 THEN w ELSE w - 65536

\* Cells and temperatures that read as the sentinel are left out.
Populated(ws) ==
  FlattenSeq([n \in DOMAIN ws |-> IF ws[n] = Sentinel THEN <<>> ELSE <<ws[n]>>])

\* Limits that read as the sentinel are unknown.
Limit(w) == IF w = Sentinel THEN None ELSE w

Fet(w, n) == IF w = Sentinel THEN None ELSE Bit(w, n)

\* Variant: the sentinel is taken for a word of fault bits.
FaultFlagsOfAny(w) == {f \in Faults : Bit(w, FaultBit[f])}

FaultFlags(w) == IF w = Sentinel THEN {} ELSE {f \in Faults : Bit(w, FaultBit[f])}

\* The decimal digits of a word, as str() writes them.
Digits[w \in Nat] ==
  IF w < 10 THEN <<w>> ELSE Append(Digits[w \div 10], w % 10)

\* Variant: the last register is left out.
JoinedButLast(ws) == FlattenSeq([n \in 1 .. Len(ws) - 1 |-> Digits[ws[n]]])

\* The serial: the numbers of its registers, joined without padding.
Joined(ws) == FlattenSeq([n \in DOMAIN ws |-> Digits[ws[n]]])

\* temps, of the registers that are used of their block.
SensorValues(ws) ==
  LET t == Populated(ws) IN [n \in DOMAIN t |-> Signed(t[n])]

\* Voltage, current and SoC are not checked for the sentinel; the board
\* temperature is, but only by params.py.
Decode(b) ==
  [cells |-> Populated(b.cells), voltage |-> b.voltage,
   current |-> -Signed(b.current), soc |-> b.soc,
   temp_bms |-> Signed(b.temp_bms),
   temps |-> SensorValues(b.temps),
   serial |-> Joined(b.serial),
   dvcc_max_v |-> Limit(b.max_v), dvcc_min_v |-> Limit(b.min_v),
   dvcc_max_charge_current |-> Limit(b.max_charge),
   dvcc_max_discharge_current |-> Limit(b.max_discharge),
   fet_charge |-> Fet(b.status, 0), fet_discharge |-> Fet(b.status, 2),
   faults |-> FaultFlags(b.fault), simulated |-> FALSE]

\* A block without one populated cell is not a reading.
Readable(b) == Populated(b.cells) # <<>>

\* The populated registers of a row come first.
Contiguous(ws) ==
  \A m, n \in DOMAIN ws : m < n /\ ws[n] # Sentinel => ws[m] # Sentinel

----------------------------------------------------------------------------
(* The simulated pack: a baseline, with jitter on every value.             *)

SimCells == <<3343, 3425, 3376, 3378>>

SimulatedCells(j) == [n \in DOMAIN SimCells |-> SimCells[n] + j.cells[n]]

\* _simulate_pack(): the voltage follows the cells, the SoC stays in 0 .. 100.
Simulated(j) ==
  [cells |-> SimulatedCells(j),
   voltage |-> LET c == SimulatedCells(j)
               IN  (c[1] + c[2] + c[3] + c[4]) \div 10 + j.voltage,
   current |-> -1 + j.current, soc |-> Max({0, Min({100, 99 + j.soc})}),
   temp_bms |-> 37 + j.temp_bms, temps |-> [n \in {1, 2} |-> 37 + j.temps[n]],
   serial |-> SimSerial, dvcc_max_v |-> 1460, dvcc_min_v |-> 1200,
   dvcc_max_charge_current |-> 500, dvcc_max_discharge_current |-> 500,
   fet_charge |-> TRUE, fet_discharge |-> TRUE, faults |-> {},
   simulated |-> TRUE]

=============================================================================
