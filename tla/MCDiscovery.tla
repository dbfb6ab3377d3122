---------------------------- MODULE MCDiscovery ----------------------------
(* Values for the constants of Discovery: model values for the packs.  The  *)
(* packs are interchangeable; the ports are not, a scan visits them in      *)
(* order.                                                                   *)
EXTENDS Discovery, TLC

PackSymmetry == Permutations(Serials)

=============================================================================
