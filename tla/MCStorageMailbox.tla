--------------------------- MODULE MCStorageMailbox ---------------------------
(* Model-checking instance of StorageMailbox. *)
EXTENDS StorageMailbox
=============================================================================
