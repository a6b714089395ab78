------------------------------ MODULE MCAckWait ------------------------------
(* AckWait for TLC: the outbox, a tail sender and one other task.          *)
EXTENDS AckWait, TLC
=============================================================================
