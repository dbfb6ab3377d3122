----------------------------- MODULE MCHistory -----------------------------
(* Values for the constants of History.                                     *)
EXTENDS History

BankCurrents == {-1, 2}
ClockSteps == {-2, 4}

=============================================================================
