--------------------------- MODULE MCAcquisition ----------------------------
(***************************************************************************)
(* Registers for TLC: around every threshold of params.py, unpopulated, and *)
(* with the sign bit.  A block differs from a healthy one in its cells, or  *)
(* in what decides a charge, or in one of the other registers.              *)
(***************************************************************************)
EXTENDS Acquisition

CONSTANTS Cells, Voltages, MaxVs, MinVs, Currents, Temps, Socs, FaultWords, Serials

Healthy ==
  [cells |-> <<3300, 3300>>, voltage |-> 1340, current |-> 65526, soc |-> 60,
   status |-> 5, fault |-> 0, temp_bms |-> 20, temps |-> <<20, 21, Sentinel>>,
   max_v |-> 1450, min_v |-> 1200, max_charge |-> 500, max_discharge |-> 500,
   serial |-> <<1, 23>>]

CellRows == [1 .. 2 -> Cells] \cup {<<3300, Sentinel, 3410>>, <<3410, 3300, Sentinel>>}

\* Board temperature and temperatures.
MCTemps ==
  {<<20, <<20, 21, Sentinel>>>>, <<Sentinel, <<0, 50, Sentinel>>>>,
   <<65535, <<Sentinel, Sentinel, Sentinel>>>>, <<20, <<20, 51, Sentinel>>>>}

MCSerials == {<<1, 23>>, <<12, 3>>, <<1, 24>>, <<10, 0>>}

MCBlocks ==
  {[Healthy EXCEPT !.cells = c] : c \in CellRows}
    \cup {[Healthy EXCEPT !.voltage = v, !.max_v = m, !.temp_bms = t[1],
                          !.temps = t[2]] :
            v \in Voltages, m \in MaxVs, t \in Temps}
    \cup {[Healthy EXCEPT !.soc = s] : s \in Socs}
    \cup {[Healthy EXCEPT !.fault = f, !.status = f] : f \in FaultWords}
    \cup {[Healthy EXCEPT !.max_charge = c, !.max_discharge = d] :
            c \in Currents, d \in Currents}
    \cup {[Healthy EXCEPT !.min_v = l, !.max_v = m] : l \in MinVs, m \in MaxVs}
    \cup {[Healthy EXCEPT !.serial = s] : s \in Serials}

\* The extremes of the jitter of every cell, of the voltage and of the SoC.
MCJitters ==
  {[cells |-> c, voltage |-> v, current |-> 3, soc |-> v \div 2, temp_bms |-> 1,
    temps |-> <<1, -1>>] : c \in [1 .. 4 -> {-6, 6}], v \in {-5, 5}}

MCReadings ==
  {Decode(b) : b \in {c \in MCBlocks : Readable(c)}}
    \cup {Simulated(j) : j \in MCJitters}

=============================================================================
