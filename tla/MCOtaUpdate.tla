--------------------------- MODULE MCOtaUpdate ---------------------------
(* Instances of OtaUpdate: what each behaviour may meet. *)
EXTENDS OtaUpdate

Plan(E, f, n, r) == [esps |-> E, covered |-> E, faults |-> f, controls |-> n, resumes |-> r]
Parked(p) == [p EXCEPT !.covered = {}]

(* one ESP with two faults; with a fault and an owner action; a release whose
   downloads are not resumed; three owner actions; two ESPs; one that is never
   ready to be acknowledged *)
MCPlans == {Plan({1}, 2, 1, TRUE), Plan({1}, 1, 2, TRUE), Plan({1}, 1, 1, FALSE),
            Plan({1}, 0, 3, TRUE), Plan({1, 2}, 0, 2, TRUE), Parked(Plan({1}, 1, 1, TRUE))}

(* one ESP that resets once *)
OneReset == {Plan({1}, 1, 1, TRUE)}

=============================================================================
