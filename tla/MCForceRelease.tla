--------------------------- MODULE MCForceRelease ---------------------------
(* Two runs over one held punch and an administrator who interferes, one   *)
(* run over two punches, released one at a time, with a fault, or one run  *)
(* with two faults.  The rosters are interchangeable, so one starts.       *)
EXTENDS ForceRelease

Budget(J, h, f, n) == [jobs |-> J, rosters |-> {1}, held |-> h, faults |-> f, controls |-> n]

MCBudgets == {Budget({1, 2}, 1, 0, 1), Budget({1}, 2, 1, 1), Budget({1}, 1, 2, 0)}
=============================================================================
