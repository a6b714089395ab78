--------------------------- MODULE AttendanceCustody ---------------------------
(***************************************************************************)
(* What the capture path promises, whatever the storage and the network    *)
(* do: an entry reported as preserved is on the device or in ADD's custody *)
(* at every later moment, and the device lets go of an entry only after    *)
(* ADD has taken it.  The journal store (JournalStore) and the capture and *)
(* delivery tasks (CustodyDelivery) are each shown to implement this.      *)
(***************************************************************************)
CONSTANT Entries

VARIABLES
    held,       \* entries durable on the device
    taken,      \* entries ADD has committed a receipt for
    promised    \* entries reported as preserved

vars == <<held, taken, promised>>

Init == held = {} /\ taken = {} /\ promised = {}

(* An entry becomes durable, and may be reported in the same step. *)
Keep ==
    \E e \in Entries :
        /\ held' = held \cup {e}
        /\ promised' \in {promised, promised \cup {e}}
        /\ UNCHANGED taken

Promise ==
    \E S \in SUBSET (held \cup taken) :
        /\ promised' = promised \cup S
        /\ UNCHANGED <<held, taken>>

Take ==
    \E e \in Entries :
        /\ taken' = taken \cup {e}
        /\ UNCHANGED <<held, promised>>

Release ==
    \E S \in SUBSET (held \cap taken) :
        /\ held' = held \ S
        /\ UNCHANGED <<taken, promised>>

Next == Keep \/ Promise \/ Take \/ Release

Spec == Init /\ [][Next]_vars

(* Nothing that was reported as preserved is ever missing from both places. *)
PromiseKept == promised \subseteq held \cup taken
=============================================================================
