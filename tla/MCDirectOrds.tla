---------------------------- MODULE MCDirectOrds ----------------------------
(* Two CNICs and a roster change: two approval runs of the same punch with *)
(* one failure, or one run with two.                                       *)
EXTENDS DirectOrds

MCBudgets == {[jobs |-> {1, 2}, faults |-> 1, roster |-> 1],
              [jobs |-> {1}, faults |-> 2, roster |-> 1]}
=============================================================================
