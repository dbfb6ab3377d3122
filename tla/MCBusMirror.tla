---------------------------- MODULE MCBusMirror ----------------------------
(* A bank of one pack: it is gone, or present.  Gone, its cell is not   *)
(* written.  The defaults of _add_paths() are no scan: the   *)
(* modules online and offline add up to no pack at all.                      *)
EXTENDS BusMirror

MCPaths == {"/Redetect", "/Soc", "/System/NrOfModulesOffline", "/Battery/1/Cell/1/Voltage"}

MCDefault ==
  [p \in MCPaths |->
     IF p \in {"/Redetect", "/System/NrOfModulesOffline"} THEN 0 ELSE Unknown]

Gone == [p \in {"/Soc", "/System/NrOfModulesOffline"} |->
           IF p = "/Soc" THEN Unknown ELSE 1]

Online ==
  [p \in MCPaths \ {"/Redetect"} |-> IF p = "/System/NrOfModulesOffline" THEN 0 ELSE 1]

MCScans == {Gone, Online}

=============================================================================
