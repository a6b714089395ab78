------------------------- MODULE MCOutboxDelivery --------------------------
(* Small instances of OutboxDelivery: an ordinary row with a journal row   *)
(* whose content is checked, or with a membership row.                     *)
EXTENDS OutboxDelivery
=============================================================================
