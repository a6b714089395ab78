---------------------------- MODULE MCJournalStore ----------------------------
(* Model-checking instance of JournalStore. *)
EXTENDS JournalStore
=============================================================================
