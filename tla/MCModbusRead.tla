---------------------------- MODULE MCModbusRead ----------------------------
(***************************************************************************)
(* The nine reads of read_pack(): cells, voltage and current, SoC, status,  *)
(* board temperature, temperatures, limits, firmware, serial.               *)
(***************************************************************************)
EXTENDS ModbusRead

MCCounts == <<16, 2, 1, 3, 1, 5, 4, 1, 5>>

=============================================================================
