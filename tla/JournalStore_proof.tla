--------------------------- MODULE JournalStore_proof ---------------------------
(***************************************************************************)
(* Proofs about the journal, for every sequence range, reservation block,  *)
(* number and size of segments and number of failures: the allocator never *)
(* repeats itself, and every acknowledged capture is kept.  First comes    *)
(* the allocator, then the invariant of the whole store with its types,    *)
(* the flash and the checkpoint, then the RAM structures (OpenInv), the    *)
(* fate of each acknowledged capture (KeptInv), and what follows from      *)
(* them: StoreConsistent, CheckpointReplacedSafely and the refinement of   *)
(* AttendanceCustody.                                                      *)
(***************************************************************************)
EXTENDS JournalStore, SequenceTheorems, TLAPS

(* Most leaves are first-order and go to Zenon; the ones with arithmetic,   *)
(* sequences or many updates name SMT.                                      *)
USE Zenon

(* The variables the allocator depends on, with as much type as needed. *)
AllocatorTypes ==
    /\ root \in [present : BOOLEAN, limit : Nat, add : BOOLEAN]
    /\ state \in [ready : BOOLEAN, limit : Nat, add : BOOLEAN]
    /\ seq \in [ready : BOOLEAN, next : Nat, limit : Nat]
    /\ issued \subseteq Nat

(* The inductive invariant.  The limit in NVS is above every sequence handed *)
(* out; an opened state mirrors it; and the allocator works inside it.       *)
AllocatorInv ==
    /\ AllocatorTypes
    /\ ~root.present => root.limit = 0
    /\ \A n \in issued : n < root.limit
    /\ state.ready => root.present /\ state.limit = root.limit
    /\ pc = "opening" => state.ready
    /\ seq.ready => /\ seq.next <= seq.limit
                    /\ seq.limit <= root.limit
                    /\ root.present
                    /\ \A n \in issued : n < seq.next

allocator == <<root, state, seq, issued>>

(* The initial state satisfies the allocator invariant. *)
LEMMA InitAllocator == Init => AllocatorInv
  BY SMT DEF Init, AllocatorInv, AllocatorTypes, NoState, NoSequence

(* A reserved limit lies above the sequence it is reserved for. *)
LEMMA ReservedLimitAbove ==
  ASSUME AllocatorTypes, seq.next <= SequenceMax
  PROVE  ReservedLimit \in Nat /\ ReservedLimit > seq.next
  BY JournalAssumption, SMT DEF AllocatorTypes, ReservedLimit

(* zj_sequence_next keeps the invariant: a block is reserved in NVS first. *)
LEMMA NextKeepsAllocator ==
  ASSUME AllocatorInv, zj_sequence_next, pc' # "opening"
  PROVE  AllocatorInv'
<1>0. /\ AllocatorTypes /\ seq.ready /\ seq.next <= SequenceMax
      /\ issued' = issued \cup {seq.next}
      /\ seq.next \in Nat /\ seq.limit \in Nat /\ root.limit \in Nat /\ state.limit \in Nat
  BY DEF AllocatorInv, AllocatorTypes, zj_sequence_next
<1>1. CASE seq.next = seq.limit
  <2>1. /\ root' = [root EXCEPT !.limit = ReservedLimit]
        /\ state' = [state EXCEPT !.limit = ReservedLimit]
        /\ seq' = [seq EXCEPT !.next = @ + 1, !.limit = ReservedLimit]
        /\ state.ready
    BY <1>1 DEF zj_sequence_next, zj_state_reserve_ok
  <2>2. ReservedLimit \in Nat /\ ReservedLimit > seq.next
    BY <1>0, ReservedLimitAbove
  <2>a. root' \in [present : BOOLEAN, limit : Nat, add : BOOLEAN]
    BY <1>0, <2>1, <2>2 DEF AllocatorTypes
  <2>b. state' \in [ready : BOOLEAN, limit : Nat, add : BOOLEAN]
    BY <1>0, <2>1, <2>2 DEF AllocatorTypes
  <2>c. seq' \in [ready : BOOLEAN, next : Nat, limit : Nat]
    <3>1. seq \in [ready : BOOLEAN, next : Nat, limit : Nat] /\ seq.next + 1 \in Nat
      BY <1>0, SMT DEF AllocatorTypes
    <3> QED BY <3>1, <2>1, <2>2, Zenon
  <2>3. AllocatorTypes'
    BY <1>0, <2>a, <2>b, <2>c, Zenon DEF AllocatorTypes
  <2>4. /\ root'.limit = ReservedLimit /\ root'.present = root.present
        /\ state'.limit = ReservedLimit /\ seq'.limit = ReservedLimit
        /\ seq'.next = seq.next + 1
    BY <1>0, <2>1 DEF AllocatorTypes
  <2>5. \A n \in issued' : n < root'.limit /\ n < seq'.next
    BY <1>0, <2>2, <2>4, SMT DEF AllocatorInv, AllocatorTypes
  <2> QED BY <1>0, <2>1, <2>2, <2>3, <2>4, <2>5, SMT DEF AllocatorInv
<1>2. CASE seq.next # seq.limit
  <2>1. seq' = [seq EXCEPT !.next = @ + 1] /\ root' = root /\ state' = state
    BY <1>2 DEF zj_sequence_next
  <2>2. AllocatorTypes'
    BY <1>0, <2>1, SMT DEF AllocatorTypes
  <2>3. seq'.next = seq.next + 1 /\ seq'.limit = seq.limit
    BY <1>0, <2>1 DEF AllocatorTypes
  <2>4. \A n \in issued' : n < root'.limit /\ n < seq'.next
    BY <1>0, <1>2, <2>1, <2>3, SMT DEF AllocatorInv, AllocatorTypes
  <2> QED BY <1>0, <1>2, <2>1, <2>2, <2>3, <2>4, SMT DEF AllocatorInv
<1> QED BY <1>1, <1>2

(* A refused allocation keeps it, whichever limit the failed commit left. *)
LEMMA RefusedKeepsAllocator ==
  ASSUME AllocatorInv, zj_sequence_refused, pc' # "opening"
  PROVE  AllocatorInv'
<1>1. CASE UNCHANGED <<root, state, seq, issued>>
  BY <1>1 DEF AllocatorInv, AllocatorTypes
<1>2. CASE /\ seq' = [seq EXCEPT !.ready = FALSE]
           /\ UNCHANGED <<root, state, issued>>
  BY <1>2, Zenon DEF AllocatorInv, AllocatorTypes
<1>3. CASE /\ seq' = [seq EXCEPT !.ready = FALSE]
           /\ seq.next <= SequenceMax /\ seq.next = seq.limit
           /\ zj_state_reserve_ok
           /\ root' \in {root, [root EXCEPT !.limit = ReservedLimit]}
           /\ state' = [state EXCEPT !.ready = FALSE]
           /\ issued' = issued
  <2>1. ReservedLimit \in Nat
    BY <1>3, ReservedLimitAbove DEF AllocatorInv
  <2>2. AllocatorTypes'
    BY <1>3, <2>1, Zenon DEF AllocatorInv, AllocatorTypes
  <2>3. root'.limit \in Nat /\ root'.limit >= root.limit /\ root'.present = root.present
    BY <1>3, <2>1, SMT DEF AllocatorInv, AllocatorTypes, zj_state_reserve_ok
  <2>4. ~seq'.ready /\ ~state'.ready /\ root.present
    BY <1>3 DEF AllocatorInv, AllocatorTypes, zj_state_reserve_ok
  <2> QED BY <1>3, <2>2, <2>3, <2>4, SMT DEF AllocatorInv, AllocatorTypes
<1> QED BY <1>1, <1>2, <1>3, Zenon DEF zj_sequence_refused

(* Every step of the journal keeps the allocator invariant. *)
LEMMA NextAllocator == AllocatorInv /\ [Next]_vars => AllocatorInv'
<1> SUFFICES ASSUME AllocatorInv, [Next]_vars PROVE AllocatorInv'
  OBVIOUS
<1>1. CASE UNCHANGED vars
  BY <1>1 DEF AllocatorInv, AllocatorTypes, vars, durable, ram, history
<1>2. CASE zj_state_open
  <2>1. /\ root' = IF root.present THEN root ELSE [present |-> TRUE, limit |-> 1, add |-> FALSE]
        /\ state' = [ready |-> TRUE, limit |-> root'.limit, add |-> root'.add]
        /\ seq' = seq /\ issued' = issued
    BY <1>2 DEF zj_state_open, OpenedState, history
  <2>2. /\ root' \in [present : BOOLEAN, limit : Nat, add : BOOLEAN]
        /\ root'.present /\ root'.limit >= root.limit
    BY <2>1, SMT DEF AllocatorInv, AllocatorTypes
  <2>3. /\ state' \in [ready : BOOLEAN, limit : Nat, add : BOOLEAN]
        /\ state'.ready /\ state'.limit = root'.limit
    BY <2>1, <2>2, Zenon
  <2>4. AllocatorTypes'
    BY <2>1, <2>2, <2>3, Zenon DEF AllocatorInv, AllocatorTypes
  <2>5. \A n \in issued' : n < root'.limit
    BY <2>1, <2>2, SMT DEF AllocatorInv, AllocatorTypes
  <2>6. seq'.ready => seq'.next <= seq'.limit /\ seq'.limit <= root'.limit
    BY <2>1, <2>2 DEF AllocatorInv, AllocatorTypes
  <2> QED BY <2>1, <2>2, <2>3, <2>4, <2>5, <2>6 DEF AllocatorInv
<1>3. CASE zj_state_open_failed
  <2>1. /\ root' = root \/ (~root.present /\ root' = [present |-> TRUE, limit |-> 1, add |-> FALSE])
        /\ state' = [ready |-> FALSE, limit |-> 0, add |-> FALSE]
        /\ seq' = seq /\ issued' = issued /\ pc' = "idle"
    BY <1>3 DEF zj_state_open_failed, NoState, history
  <2>2. /\ root' \in [present : BOOLEAN, limit : Nat, add : BOOLEAN]
        /\ root'.limit >= root.limit /\ (root.present => root'.present)
        /\ ~root'.present => root'.limit = 0
    <3>1. CASE root' = root
      BY <3>1, SMT DEF AllocatorInv, AllocatorTypes
    <3>2. CASE ~root.present /\ root' = [present |-> TRUE, limit |-> 1, add |-> FALSE]
      BY <3>2, SMT DEF AllocatorInv, AllocatorTypes
    <3> QED BY <2>1, <3>1, <3>2
  <2>3. state' \in [ready : BOOLEAN, limit : Nat, add : BOOLEAN] /\ ~state'.ready
    BY <2>1
  <2> QED BY <2>1, <2>2, <2>3, SMT DEF AllocatorInv, AllocatorTypes
<1>4. CASE zj_state_enable_add \/ zj_state_enable_add_failed
  BY <1>4, Zenon DEF zj_state_enable_add, zj_state_enable_add_failed, Usable, AllocatorInv,
              AllocatorTypes, history
<1>5. CASE zj_store_open \/ zj_store_open_failed
  <2>1. /\ seq' = [ready |-> TRUE, next |-> state.limit, limit |-> state.limit]
        /\ root' = root /\ state' = state /\ issued' = issued
        /\ pc = "opening" /\ pc' # "opening"
    BY <1>5, Zenon DEF zj_store_open, zj_store_open_failed, zj_sequence_init, durable, history
  <2>2. seq' \in [ready : BOOLEAN, next : Nat, limit : Nat]
        /\ seq'.next = root.limit /\ seq'.limit = root.limit
    BY <2>1 DEF AllocatorInv, AllocatorTypes
  <2> QED BY <2>1, <2>2, SMT DEF AllocatorInv, AllocatorTypes
<1>6. CASE preserve_allocate
  BY <1>6, NextKeepsAllocator DEF preserve_allocate
<1>7. CASE preserve_refused
  <2>1. CASE UNCHANGED <<root, state, seq, issued>>
    BY <1>7, <2>1 DEF preserve_refused, AllocatorInv, AllocatorTypes
  <2>2. CASE zj_sequence_refused
    BY <1>7, <2>2, RefusedKeepsAllocator DEF preserve_refused
  <2> QED BY <1>7, <2>1, <2>2 DEF preserve_refused
<1>8. CASE append_needs_segment
  <2>1. CASE zj_sequence_next
    BY <1>8, <2>1, NextKeepsAllocator DEF append_needs_segment
  <2>2. CASE zj_sequence_refused
    BY <1>8, <2>2, RefusedKeepsAllocator DEF append_needs_segment
  <2>3. CASE UNCHANGED <<root, state, seq, issued>> /\ pc' = "idle"
    BY <2>3 DEF AllocatorInv, AllocatorTypes
  <2> QED BY <1>8, <2>1, <2>2, <2>3 DEF append_needs_segment
<1>9. CASE append_allocate
  <2>1. CASE zj_sequence_next
    BY <1>9, <2>1, NextKeepsAllocator DEF append_allocate
  <2>2. CASE zj_sequence_refused
    BY <1>9, <2>2, RefusedKeepsAllocator DEF append_allocate
  <2> QED BY <1>9, <2>1, <2>2 DEF append_allocate
<1>10. CASE Crash
  BY <1>10 DEF Crash, AllocatorInv, AllocatorTypes, NoState, NoSequence, history
<1>11. CASE replay_commit_failed
  BY <1>11, Zenon DEF replay_commit_failed, AllocatorInv, AllocatorTypes, history
<1>12. ASSUME NEW item \in tokens, zj_store_settle_failed(item) PROVE AllocatorInv'
  BY <1>12, Zenon DEF zj_store_settle_failed, Usable, AllocatorInv, AllocatorTypes, history
<1>13. CASE UNCHANGED allocator /\ (pc' = pc \/ pc' # "opening")
  BY <1>13 DEF AllocatorInv, AllocatorTypes, allocator
<1>14. CASE preserve_reuse \/ preserve_write \/ preserve_write_failed \/ replay_commit
  BY <1>13, <1>14, ZenonT(60) DEF preserve_reuse, preserve_write, preserve_write_failed, replay_commit,
                      ram, history, allocator
<1>15. CASE append_to_writer \/ create_segment \/ create_segment_failed \/ append_record
            \/ append_record_failed
  BY <1>13, <1>15, Zenon DEF append_to_writer, create_segment, create_segment_failed, append_record,
                      append_record_failed, durable, ram, history, allocator
<1>16. CASE zj_store_peek \/ zj_store_reclaim_step \/ zj_store_reclaim_failed
            \/ DamageCheckpoint
  BY <1>13, <1>16, Zenon DEF zj_store_peek, zj_store_reclaim_step, zj_store_reclaim_failed,
                      DamageCheckpoint, durable, ram, history, allocator
<1>17. ASSUME NEW item \in tokens,
              AddReceipt(item) \/ zj_store_settle(item) \/ DropToken(item)
       PROVE  AllocatorInv'
  BY <1>13, <1>17 DEF AddReceipt, zj_store_settle, DropToken, durable, ram, history, allocator
<1> QED
  BY <1>1, <1>2, <1>3, <1>4, <1>5, <1>6, <1>7, <1>8, <1>9, <1>10, <1>11, <1>12, <1>14, <1>15,
     <1>16, <1>17
     DEF Next, Recover, AppendSteps, Failure

(* The journal's allocator, across power losses, failed reservations and     *)
(* recoveries, never offers a sequence (an AES-GCM nonce and a segment       *)
(* identity) that it handed out before.                                      *)
THEOREM NonceNeverReusedInvariant == Spec => []NonceNeverReused
<1>1. AllocatorInv => NonceNeverReused
  BY DEF AllocatorInv, NonceNeverReused
<1> QED BY <1>1, InitAllocator, NextAllocator, PTL DEF Spec

-----------------------------------------------------------------------------
(* StoreConsistent.  The invariant describes the flash (FlashInv), the     *)
(* checkpoint (CheckpointInv), the RAM structures (OpenInv) and what has   *)
(* become of every acknowledged capture (KeptInv).                         *)

(* Records lie in files with a header, in the order of their sequences,    *)
(* and a synced one has been acknowledged.                                 *)
FlashInv ==
    /\ files \subseteq issued
    /\ \A i \in files : \A k \in 1..Len(content[i]) :
          content[i][k].kind # "rec" => content[i][k].seq = 0
    /\ \A i \in files : \A k \in 1..Len(content[i]) : content[i][k].kind = "rec" =>
          /\ content[i][k].seq \in issued
          /\ content[i][k].synced => content[i][k].seq \in acked
          /\ content[i][1].kind = "head"
    /\ \A i, j \in files : \A k \in 1..Len(content[i]) : \A l \in 1..Len(content[j]) :
          (content[i][k].kind = "rec" /\ content[j][l].kind = "rec" /\ (i < j \/ (i = j /\ k < l)))
              => content[i][k].seq < content[j][l].seq

(* A record that the checkpoint has not passed is above the last sequence  *)
(* it settled, also while the checkpoint is damaged.                       *)
CheckpointInv ==
    /\ cp.segment \in issued \cup {0} /\ cp.last \in issued \cup {0}
    /\ cp.state = "absent" => cp = NoCheckpoint
    /\ ~root.present => cp.state = "absent"
    /\ \A i \in files : \A k \in 1..Len(content[i]) :
          content[i][k].kind = "rec" => Passed(cp, i, k) \/ content[i][k].seq > cp.last

(* Everything on flash precedes the sequence n. *)
Precedes(n) ==
    /\ \A i \in files : i < n
    /\ \A i \in files : \A k \in 1..Len(content[i]) : content[i][k].seq < n
    /\ cp.segment < n /\ cp.last < n

Replaying == {"evidence", "preserve", "reset"}

OpenInv ==
    /\ store.ready => cursor = CursorOf(cp)
    /\ store.ready \/ pc \in Replaying =>
          /\ store.segments = files /\ store.metadata \subseteq files
          /\ \A i \in store.metadata : HeaderOnFlash(i)
    /\ pc = "opening" => ~store.ready
    /\ pc \in Replaying => ~store.ready /\ store.writer = 0 /\ cp.state # "absent"
    /\ pc = "header" => store.ready /\ store.writer = 0
    /\ pc \in {"allocate", "record"} => store.ready /\ store.writer # 0
    /\ store.ready /\ store.writer # 0 =>
          /\ store.writer \in files /\ HeaderOnFlash(store.writer)
          /\ \A i \in files : i <= store.writer
          /\ cp.segment < store.writer
             \/ (cp.segment = store.writer /\ cp.offset <= Len(content[store.writer]))
    /\ pc \in {"header", "record", "preserve"} => alloc # 0 /\ alloc \in issued /\ Precedes(alloc)
    /\ pc = "reset" => \E i \in files : content[i] = <<Evidence>>

(* The cell of an acknowledged capture that a later read still finds.      *)
Keeps(q, i, k) ==
    /\ content[i][k].kind = "rec" /\ content[i][k].seq = q /\ content[i][k].synced
    /\ (cp.state = "valid" \/ store.ready) => ~Passed(cp, i, k)

KeptInv ==
    \A q \in acked : Received(q) \/ \E i \in files : \E k \in 1..Len(content[i]) : Keeps(q, i, k)

(* Sequences and limits stay in range, and zero is never handed out.       *)
Bounds ==
    /\ root.limit <= SequenceMax + 1 /\ state.limit <= SequenceMax + 1
    /\ seq.next <= SequenceMax + 1 /\ seq.limit <= SequenceMax + 1
    /\ alloc \in 0..SequenceMax /\ issued \subseteq Ids
    /\ root.present => root.limit # 0
    /\ seq.ready => seq.next # 0

JournalInv == TypeOK /\ AllocatorInv /\ Bounds /\ FlashInv /\ CheckpointInv /\ OpenInv /\ KeptInv

-----------------------------------------------------------------------------
(* Ranges of the allocator.                                                *)

LEMMA SequenceBounds ==
    ASSUME AllocatorInv, Bounds, zj_sequence_next
    PROVE  Bounds' /\ alloc' = seq.next /\ alloc' # 0 /\ issued' = issued \cup {alloc'}
<1> USE JournalAssumption
<1>1. /\ AllocatorTypes /\ seq.ready /\ seq.next <= SequenceMax /\ seq.next # 0
      /\ alloc' = seq.next /\ issued' = issued \cup {seq.next} /\ seq.next \in Nat
  BY DEF AllocatorInv, AllocatorTypes, Bounds, zj_sequence_next
<1>2. seq.next \in Ids /\ alloc' \in 0..SequenceMax /\ issued' \subseteq Ids
  <2>1. seq.next \in 1..SequenceMax /\ seq.next \in 0..SequenceMax
    BY <1>1, SMT
  <2>2. issued \subseteq Ids
    BY DEF Bounds
  <2> QED
    BY <1>1, <2>1, <2>2, Zenon DEF Ids
<1>3. ReservedLimit \in Nat /\ ReservedLimit <= SequenceMax + 1 /\ ReservedLimit # 0
  <2>1. ReservedLimit \in Nat /\ ReservedLimit > seq.next
    BY <1>1, ReservedLimitAbove
  <2>2. ReservedLimit <= SequenceMax + 1
    BY <1>1, SMT DEF ReservedLimit
  <2> QED
    BY <1>1, <2>1, <2>2, SMT
<1>4. CASE seq.next = seq.limit
  <2>1. /\ root' = [root EXCEPT !.limit = ReservedLimit]
        /\ state' = [state EXCEPT !.limit = ReservedLimit]
        /\ seq' = [seq EXCEPT !.next = @ + 1, !.limit = ReservedLimit]
    BY <1>4 DEF zj_sequence_next
  <2>2. /\ root'.limit = ReservedLimit /\ state'.limit = ReservedLimit
        /\ seq'.next = seq.next + 1 /\ seq'.limit = ReservedLimit
    BY <1>1, <2>1 DEF AllocatorTypes
  <2> QED
    BY <1>1, <1>2, <1>3, <2>2, SMT DEF Bounds
<1>5. CASE seq.next # seq.limit
  <2>1. seq' = [seq EXCEPT !.next = @ + 1] /\ root' = root /\ state' = state
    BY <1>5 DEF zj_sequence_next
  <2>2. seq'.next = seq.next + 1 /\ seq'.limit = seq.limit /\ seq'.ready = seq.ready
    BY <1>1, <2>1, Zenon DEF AllocatorTypes
  <2> QED
    BY <1>1, <1>2, <2>1, <2>2, SMT DEF Bounds
<1> QED
  BY <1>1, <1>4, <1>5

LEMMA RefusedBounds ==
    ASSUME AllocatorInv, Bounds, zj_sequence_refused
    PROVE  Bounds'
<1> USE JournalAssumption
<1>1. CASE UNCHANGED <<root, state, seq, issued, alloc>>
  BY <1>1 DEF Bounds
<1>2. CASE seq' = [seq EXCEPT !.ready = FALSE] /\ UNCHANGED <<root, state, issued, alloc>>
  BY <1>2 DEF Bounds, AllocatorInv, AllocatorTypes
<1>3. CASE /\ seq' = [seq EXCEPT !.ready = FALSE]
           /\ seq.next <= SequenceMax
           /\ zj_state_reserve_ok
           /\ root' \in {root, [root EXCEPT !.limit = ReservedLimit]}
           /\ state' = [state EXCEPT !.ready = FALSE]
           /\ UNCHANGED <<issued, alloc>>
  <2>1. ReservedLimit \in Nat /\ ReservedLimit > seq.next /\ seq.next \in Nat
    BY <1>3, ReservedLimitAbove DEF AllocatorInv, AllocatorTypes
  <2>2. ReservedLimit <= SequenceMax + 1 /\ ReservedLimit # 0
    BY <1>3, <2>1, SMT DEF ReservedLimit
  <2>3. /\ seq'.next = seq.next /\ seq'.limit = seq.limit /\ ~seq'.ready
        /\ state'.limit = state.limit
    BY <1>3 DEF AllocatorInv, AllocatorTypes
  <2>4. root'.limit <= SequenceMax + 1 /\ (root'.present => root'.limit # 0)
    <3>1. CASE root' = root
      BY <3>1 DEF Bounds
    <3>2. CASE root' = [root EXCEPT !.limit = ReservedLimit]
      BY <2>2, <3>2 DEF AllocatorInv, AllocatorTypes
    <3> QED
      BY <1>3, <3>1, <3>2
  <2> QED
    BY <1>3, <2>3, <2>4 DEF Bounds
<1> QED
  BY <1>1, <1>2, <1>3, Zenon DEF zj_sequence_refused

LEMMA NextBounds ==
    ASSUME AllocatorInv, Bounds, [Next]_vars
    PROVE  Bounds'
<1> USE JournalAssumption
<1>1. CASE UNCHANGED <<root, state, seq, alloc, issued>>
  BY <1>1 DEF Bounds
<1>2. CASE zj_state_open
  <2>1. /\ root' = IF root.present THEN root ELSE [present |-> TRUE, limit |-> 1, add |-> FALSE]
        /\ state' = [ready |-> TRUE, limit |-> root'.limit, add |-> root'.add]
        /\ UNCHANGED <<seq, issued, alloc>>
    BY <1>2 DEF zj_state_open, OpenedState, history
  <2>2. root'.limit <= SequenceMax + 1 /\ root'.limit # 0
    BY <2>1, SMT DEF Bounds
  <2> QED
    BY <2>1, <2>2 DEF Bounds
<1>3. CASE zj_state_open_failed
  <2>1. /\ root' = root \/ root' = [present |-> TRUE, limit |-> 1, add |-> FALSE]
        /\ state' = [ready |-> FALSE, limit |-> 0, add |-> FALSE]
        /\ UNCHANGED <<seq, issued, alloc>>
    BY <1>3 DEF zj_state_open_failed, NoState, history
  <2>2. root'.limit <= SequenceMax + 1 /\ (root'.present => root'.limit # 0)
    <3>1. CASE root' = root
      BY <3>1 DEF Bounds
    <3>2. CASE root' = [present |-> TRUE, limit |-> 1, add |-> FALSE]
      BY <3>2, SMT
    <3> QED
      BY <2>1, <3>1, <3>2
  <2> QED
    BY <2>1, <2>2, SMT DEF Bounds
<1>4. CASE zj_state_enable_add \/ zj_state_enable_add_failed
  BY <1>4 DEF zj_state_enable_add, zj_state_enable_add_failed, AllocatorInv, AllocatorTypes,
              Bounds, history
<1>5. CASE zj_store_open \/ zj_store_open_failed
  <2>1. /\ seq' = [ready |-> TRUE, next |-> state.limit, limit |-> state.limit]
        /\ UNCHANGED <<root, state, issued, alloc>> /\ pc = "opening"
    BY <1>5, Zenon DEF zj_store_open, zj_store_open_failed, zj_sequence_init, durable, history
  <2>2. root.present /\ state.limit = root.limit
    BY <2>1 DEF AllocatorInv
  <2> QED
    BY <2>1, <2>2 DEF Bounds
<1>6. CASE preserve_allocate
  BY <1>6, SequenceBounds DEF preserve_allocate
<1>7. CASE preserve_refused
  BY <1>1, <1>7, RefusedBounds DEF preserve_refused
<1>8. CASE append_needs_segment
  BY <1>1, <1>8, SequenceBounds, RefusedBounds DEF append_needs_segment
<1>9. CASE append_allocate
  BY <1>9, SequenceBounds, RefusedBounds DEF append_allocate
<1>10. CASE Crash
  BY <1>10, SMT DEF Crash, Bounds, NoState, NoSequence, history
<1>11. CASE replay_commit_failed
  BY <1>11 DEF replay_commit_failed, AllocatorInv, AllocatorTypes, Bounds, history
<1>12. ASSUME NEW item \in tokens, zj_store_settle_failed(item) PROVE Bounds'
  BY <1>12 DEF zj_store_settle_failed, AllocatorInv, AllocatorTypes, Bounds, history
<1>13. CASE preserve_reuse \/ preserve_write \/ preserve_write_failed \/ replay_commit
  BY <1>1, <1>13, ZenonT(60) DEF preserve_reuse, preserve_write, preserve_write_failed, replay_commit,
                     ram, history
<1>14. CASE append_to_writer \/ create_segment \/ create_segment_failed \/ append_record
            \/ append_record_failed
  BY <1>1, <1>14, Zenon DEF append_to_writer, create_segment, create_segment_failed, append_record,
                     append_record_failed, durable, ram, history
<1>15. CASE zj_store_peek \/ zj_store_reclaim_step \/ zj_store_reclaim_failed
            \/ DamageCheckpoint
  BY <1>1, <1>15, Zenon DEF zj_store_peek, zj_store_reclaim_step, zj_store_reclaim_failed,
                     DamageCheckpoint, durable, ram, history
<1>16. ASSUME NEW item \in tokens,
              AddReceipt(item) \/ zj_store_settle(item) \/ DropToken(item)
       PROVE  Bounds'
  BY <1>1, <1>16 DEF AddReceipt, zj_store_settle, DropToken, durable, ram, history
<1>17. CASE UNCHANGED vars
  BY <1>1, <1>17 DEF vars, durable, ram, history
<1> QED
  BY <1>2, <1>3, <1>4, <1>5, <1>6, <1>7, <1>8, <1>9, <1>10, <1>11, <1>12, <1>13, <1>14,
     <1>15, <1>16, <1>17 DEF Next, Recover, AppendSteps, Failure


-----------------------------------------------------------------------------
(* Types of the checkpoint, the cursor and the segment files.              *)

CursorRecord == [revision : Nat, segment : Nat, offset : Nat, last : Nat]

Kinds == {"head", "rec", "torn", "evid"}

LEMMA CheckpointTyped ==
    /\ NoCheckpoint \in Checkpoint /\ ResetCheckpoint \in Checkpoint
    /\ NoCursor \in CursorRecord
    /\ \A c \in Checkpoint : CursorOf(c) \in CursorRecord
    /\ ResetCheckpoint.state = "valid" /\ ResetCheckpoint.revision = 1
    /\ ResetCheckpoint.segment = 0 /\ ResetCheckpoint.offset = 0 /\ ResetCheckpoint.last = 0
<1>1. /\ ResetCheckpoint.state = "valid" /\ ResetCheckpoint.revision = 1
      /\ ResetCheckpoint.segment = 0 /\ ResetCheckpoint.offset = 0 /\ ResetCheckpoint.last = 0
  BY DEF NoCheckpoint, ResetCheckpoint
<1>2. NoCheckpoint \in Checkpoint /\ NoCursor \in CursorRecord
  BY DEF NoCheckpoint, NoCursor, Checkpoint, CursorRecord
<1>3. ResetCheckpoint \in Checkpoint
  BY <1>2, Zenon DEF Checkpoint, ResetCheckpoint
<1>4. \A c \in Checkpoint : CursorOf(c) \in CursorRecord
  BY DEF Checkpoint, CursorRecord, CursorOf
<1> QED
  BY <1>1, <1>2, <1>3, <1>4

LEMMA CellTyped ==
    ASSUME NEW kind \in Kinds, NEW n \in Nat, NEW c \in Checkpoint, NEW b \in BOOLEAN
    PROVE  /\ Cell(kind, n, c, b) \in CellRecord
           /\ Cell(kind, n, c, b).kind = kind /\ Cell(kind, n, c, b).seq = n
           /\ Cell(kind, n, c, b).cp = c /\ Cell(kind, n, c, b).synced = b
BY DEF Cell, CellRecord, Kinds

LEMMA TornTyped == Torn \in CellRecord /\ Torn.kind = "torn" /\ Torn.seq = 0 /\ ~Torn.synced
<1>1. "torn" \in Kinds /\ 0 \in Nat /\ FALSE \in BOOLEAN
  BY DEF Kinds
<1> QED
  BY <1>1, CheckpointTyped DEF Torn, Cell, CellRecord

(* What one cell more, one cell less and a single cell do to a sequence.   *)
LEMMA OneCell ==
    ASSUME NEW c \in CellRecord
    PROVE  <<c>> \in Seq(CellRecord) /\ Len(<<c>>) = 1 /\ <<c>>[1] = c /\ <<c>> # <<>>
BY SMT

LEMMA NoCell == <<>> \in Seq(CellRecord) /\ Len(<<>>) = 0
BY SMT

LEMMA CellAdded ==
    ASSUME NEW s \in Seq(CellRecord), NEW c \in CellRecord
    PROVE  /\ Append(s, c) \in Seq(CellRecord)
           /\ Len(Append(s, c)) = Len(s) + 1
           /\ Append(s, c)[Len(s) + 1] = c
           /\ \A k \in 1..Len(s) : Append(s, c)[k] = s[k]
           /\ Append(s, c) # <<>>
BY SMT

LEMMA FirstCells ==
    ASSUME NEW s \in Seq(CellRecord), NEW n \in Nat, n <= Len(s)
    PROVE  /\ SubSeq(s, 1, n) \in Seq(CellRecord)
           /\ Len(SubSeq(s, 1, n)) = n
           /\ \A k \in 1..n : SubSeq(s, 1, n)[k] = s[k]
<1>1. \A k \in 1..n : s[k] \in CellRecord
  BY SMT
<1>2. 1 \in Int /\ n \in Int
  BY SMT
<1>3. Len(SubSeq(s, 1, n)) = IF 1 <= n THEN n - 1 + 1 ELSE 0
  BY <1>1, <1>2, SubSeqProperties, SMT
<1>4. \A k \in 1..(n - 1 + 1) : SubSeq(s, 1, n)[k] = s[1 + k - 1]
  BY <1>1, <1>2, SubSeqProperties, SMT
<1>5. SubSeq(s, 1, n) \in Seq(CellRecord)
  BY <1>1, <1>2, SubSeqProperties
<1> QED
  BY <1>3, <1>4, <1>5, SMT

LEMMA CellLost ==
    ASSUME NEW s \in Seq(CellRecord), s # <<>>
    PROVE  /\ SubSeq(s, 1, Len(s) - 1) \in Seq(CellRecord)
           /\ Len(SubSeq(s, 1, Len(s) - 1)) = Len(s) - 1
           /\ \A k \in 1..(Len(s) - 1) : SubSeq(s, 1, Len(s) - 1)[k] = s[k]
<1> DEFINE n == Len(s) - 1
<1>1. n \in Nat /\ n <= Len(s)
  BY SMT
<1> HIDE DEF n
<1>2. /\ SubSeq(s, 1, n) \in Seq(CellRecord)
      /\ Len(SubSeq(s, 1, n)) = n
      /\ \A k \in 1..n : SubSeq(s, 1, n)[k] = s[k]
  BY <1>1, FirstCells
<1> QED
  BY <1>2 DEF n

LEMMA SettledTyped ==
    ASSUME NEW item \in ItemRecord, cursor \in CursorRecord
    PROVE  /\ Settled(item) \in Checkpoint
           /\ Settled(item).state = "valid" /\ Settled(item).revision = cursor.revision + 1
           /\ Settled(item).segment = item.segment /\ Settled(item).offset = item.end
           /\ Settled(item).last = IF item.observation THEN item.bytes[2] ELSE cursor.last
<1>1. item.segment \in Nat /\ item.end \in Nat /\ item.bytes[2] \in Nat
  BY SMT DEF ItemRecord, Ids
<1>2. cursor.revision + 1 \in Nat /\ cursor.last \in Nat
  BY SMT DEF CursorRecord
<1> QED
  BY <1>1, <1>2 DEF Settled, Checkpoint


-----------------------------------------------------------------------------
(* The five things a step does to the segment files.                       *)

Untouched == UNCHANGED <<files, content>>

(* A file with a fresh identity and at most one cell, which is no record.  *)
NewFile ==
    /\ pc \in {"header", "preserve"}
    /\ files' = files \cup {alloc}
    /\ \E cells \in Seq(CellRecord) :
          /\ content' = [content EXCEPT ![alloc] = cells]
          /\ \A k \in 1..Len(cells) : cells[k].kind # "rec" /\ cells[k].seq = 0
    /\ UNCHANGED <<cp, acked, issued, custody>>

(* A cell at the end of the writer's file: a record, or its first bytes.   *)
NewCell ==
    /\ pc = "record"
    /\ files' = files
    /\ \E c \in CellRecord :
          /\ content' = [content EXCEPT ![store.writer] = Append(@, c)]
          /\ \/ c.kind = "rec" /\ c.seq = alloc /\ (c.synced => alloc \in acked')
             \/ c.kind # "rec" /\ c.seq = 0
    /\ UNCHANGED <<cp, issued, custody>>

(* Evidence of the present checkpoint, synced again. *)
Resynced ==
    /\ pc = "evidence"
    /\ files' = files
    /\ \E i \in files : /\ IsEvidence(i)
                        /\ content' = [content EXCEPT ![i] = <<Evidence>>]
    /\ UNCHANGED <<cp, acked, issued, custody, store>>

(* Files deleted, or last cells lost. *)
Shrunk ==
    /\ files' \subseteq files
    /\ content' \in [Ids -> Seq(CellRecord)]
    /\ \A i \in files' :
          /\ Len(content'[i]) <= Len(content[i])
          /\ \A k \in 1..Len(content'[i]) : content'[i][k] = content[i][k]
    /\ UNCHANGED <<cp, acked, issued, custody>>

LEMMA CrashShrinks ==
    ASSUME TypeOK, Crash
    PROVE  /\ Shrunk
           /\ \A i \in files : \A k \in 1..Len(content[i]) :
                 content[i][k].synced => i \in files' /\ k \in 1..Len(content'[i])
<1>1. content \in [Ids -> Seq(CellRecord)] /\ files \subseteq Ids
  BY DEF TypeOK
<1>2. PICK lost \in SUBSET {i \in files : Unsynced(i)} :
      \E gone \in SUBSET {i \in files : content[i] = <<>> \/ (Unsynced(i) /\ Len(content[i]) = 1)} :
        /\ files' = files \ gone
        /\ content' = [i \in Ids |-> IF i \in gone THEN <<>>
                                     ELSE IF i \in lost THEN SubSeq(content[i], 1, Len(content[i]) - 1)
                                     ELSE content[i]]
  BY Zenon DEF Crash
<1>3. PICK gone \in SUBSET {i \in files : content[i] = <<>> \/ (Unsynced(i) /\ Len(content[i]) = 1)} :
        /\ files' = files \ gone
        /\ content' = [i \in Ids |-> IF i \in gone THEN <<>>
                                     ELSE IF i \in lost THEN SubSeq(content[i], 1, Len(content[i]) - 1)
                                     ELSE content[i]]
  BY <1>2, Zenon
<1>4. ASSUME NEW i \in lost
      PROVE  /\ SubSeq(content[i], 1, Len(content[i]) - 1) \in Seq(CellRecord)
             /\ Len(SubSeq(content[i], 1, Len(content[i]) - 1)) = Len(content[i]) - 1
             /\ \A k \in 1..(Len(content[i]) - 1) :
                   SubSeq(content[i], 1, Len(content[i]) - 1)[k] = content[i][k]
  <2> DEFINE s == content[i]
  <2>1. s \in Seq(CellRecord) /\ s # <<>>
    BY <1>1 DEF Unsynced
  <2> HIDE DEF s
  <2>2. /\ SubSeq(s, 1, Len(s) - 1) \in Seq(CellRecord)
        /\ Len(SubSeq(s, 1, Len(s) - 1)) = Len(s) - 1
        /\ \A k \in 1..(Len(s) - 1) : SubSeq(s, 1, Len(s) - 1)[k] = s[k]
    BY <2>1, CellLost
  <2> QED
    BY <2>2 DEF s
<1>5. content' \in [Ids -> Seq(CellRecord)]
  BY <1>1, <1>3, <1>4, SMT
<1>6. ASSUME NEW i \in files'
      PROVE  /\ Len(content'[i]) <= Len(content[i])
             /\ \A k \in 1..Len(content'[i]) : content'[i][k] = content[i][k]
  <2>1. i \in Ids /\ i \notin gone /\ i \in files /\ Len(content[i]) \in Nat
    BY <1>1, <1>3, SMT
  <2>2. CASE i \in lost
    <3>1. content'[i] = SubSeq(content[i], 1, Len(content[i]) - 1)
      BY <1>3, <2>1, <2>2
    <3> QED
      BY <1>4, <2>1, <2>2, <3>1, SMT
  <2>3. CASE i \notin lost
    <3>1. content'[i] = content[i]
      BY <1>3, <2>1, <2>3
    <3> QED
      BY <2>1, <3>1, SMT
  <2> QED
    BY <2>2, <2>3
<1>7. ASSUME NEW i \in files, NEW k \in 1..Len(content[i]), content[i][k].synced
      PROVE  i \in files' /\ k \in 1..Len(content'[i])
  <2>1. i \in Ids /\ Len(content[i]) \in Nat
    BY <1>1, SMT
  <2>2. i \notin gone
    <3>1. content[i] = <<>> => Len(content[i]) = 0
      BY SMT
    <3> QED
      BY <1>7, <2>1, <3>1, SMT DEF Unsynced
  <2>3. CASE i \in lost
    <3>1. content'[i] = SubSeq(content[i], 1, Len(content[i]) - 1)
      BY <1>3, <2>1, <2>2, <2>3
    <3>2. ~content[i][Len(content[i])].synced
      BY <2>3 DEF Unsynced
    <3> QED
      BY <1>3, <1>4, <1>7, <2>1, <2>2, <2>3, <3>1, <3>2, SMT
  <2>4. CASE i \notin lost
    BY <1>3, <2>1, <2>2, <2>4
  <2> QED
    BY <1>3, <2>2, <2>3, <2>4
<1> QED
  BY <1>3, <1>5, <1>6, <1>7, Zenon DEF Crash, Shrunk, history

LEMMA ReclaimShrinks ==
    ASSUME TypeOK, zj_store_reclaim_step
    PROVE  Shrunk
<1>1. content \in [Ids -> Seq(CellRecord)] /\ files \subseteq Ids
  BY DEF TypeOK
<1>2. PICK i \in Reclaimable : files' = files \ {i} /\ content' = [content EXCEPT ![i] = <<>>]
  BY Zenon DEF zj_store_reclaim_step
<1>3. content' \in [Ids -> Seq(CellRecord)]
  BY <1>1, <1>2, NoCell, Zenon
<1>4. \A j \in files' : j \in files /\ content'[j] = content[j] /\ Len(content[j]) \in Nat
  BY <1>1, <1>2, SMT
<1> QED
  BY <1>2, <1>3, <1>4, SMT DEF zj_store_reclaim_step, Shrunk, history


LEMMA EvidenceTyped ==
    ASSUME TypeOK, NEW b \in BOOLEAN
    PROVE  /\ Cell("evid", 0, cp, b) \in CellRecord
           /\ Cell("evid", 0, cp, b).kind = "evid" /\ Cell("evid", 0, cp, b).seq = 0
           /\ Cell("evid", 0, cp, b).cp = cp
BY DEF TypeOK, Cell, CellRecord

LEMMA HeaderTyped ==
    ASSUME NEW b \in BOOLEAN
    PROVE  /\ Cell("head", 0, NoCheckpoint, b) \in CellRecord
           /\ Cell("head", 0, NoCheckpoint, b).kind = "head"
           /\ Cell("head", 0, NoCheckpoint, b).seq = 0
BY CheckpointTyped DEF Cell, CellRecord

LEMMA RecordTyped ==
    ASSUME NEW n \in Nat, NEW b \in BOOLEAN
    PROVE  /\ Cell("rec", n, NoCheckpoint, b) \in CellRecord
           /\ Cell("rec", n, NoCheckpoint, b).kind = "rec"
           /\ Cell("rec", n, NoCheckpoint, b).seq = n
           /\ Cell("rec", n, NoCheckpoint, b).synced = b
BY CheckpointTyped DEF Cell, CellRecord

(* A file of one cell that is no record, or of none. *)
LEMMA SingleFile ==
    ASSUME NEW c \in CellRecord, c.kind # "rec", c.seq = 0
    PROVE  /\ <<c>> \in Seq(CellRecord)
           /\ \A k \in 1..Len(<<c>>) : <<c>>[k].kind # "rec" /\ <<c>>[k].seq = 0
<1>1. <<c>> \in Seq(CellRecord) /\ Len(<<c>>) = 1 /\ <<c>>[1] = c
  BY OneCell
<1> QED
  BY <1>1, SMT

LEMMA EmptyFile ==
    /\ <<>> \in Seq(CellRecord)
    /\ \A k \in 1..Len(<<>>) : <<>>[k].kind # "rec" /\ <<>>[k].seq = 0
<1>1. <<>> \in Seq(CellRecord) /\ Len(<<>>) = 0
  BY NoCell
<1> QED
  BY <1>1, SMT

LEMMA CreatesFile ==
    ASSUME TypeOK, create_segment
    PROVE  NewFile /\ files' = files \cup {alloc}
           /\ content' = [content EXCEPT ![alloc] = <<Cell("head", 0, NoCheckpoint, TRUE)>>]
<1> DEFINE c == Cell("head", 0, NoCheckpoint, TRUE)
<1>1. c \in CellRecord /\ c.kind = "head" /\ c.seq = 0
  BY HeaderTyped, ZenonT(60)
<1>2. content' = [content EXCEPT ![alloc] = <<c>>] /\ files' = files \cup {alloc}
  BY DEF create_segment
<1> HIDE DEF c
<1>3. /\ <<c>> \in Seq(CellRecord)
      /\ \A k \in 1..Len(<<c>>) : <<c>>[k].kind # "rec" /\ <<c>>[k].seq = 0
  BY <1>1, SingleFile
<1> QED
  BY <1>2, <1>3, Zenon DEF create_segment, NewFile, history, c

LEMMA CreateFails ==
    ASSUME TypeOK, create_segment_failed
    PROVE  Untouched \/ NewFile
<1>1. CASE UNCHANGED <<files, content, store>>
  BY <1>1, SMTT(60) DEF Untouched
<1>2. CASE /\ files' = files \cup {alloc}
           /\ \E cells \in {<<>>, <<Torn>>, <<Cell("head", 0, NoCheckpoint, FALSE)>>} :
                 content' = [content EXCEPT ![alloc] = cells]
  <2> DEFINE c == Cell("head", 0, NoCheckpoint, FALSE)
  <2>1. c \in CellRecord /\ c.kind = "head" /\ c.seq = 0
    BY HeaderTyped, Zenon
  <2>2. PICK cells \in {<<>>, <<Torn>>, <<c>>} : content' = [content EXCEPT ![alloc] = cells]
    BY <1>2, Zenon
  <2> HIDE DEF c
  <2>3. \A x \in CellRecord : x.kind # "rec" /\ x.seq = 0 =>
           /\ <<x>> \in Seq(CellRecord)
           /\ \A k \in 1..Len(<<x>>) : <<x>>[k].kind # "rec" /\ <<x>>[k].seq = 0
    BY SingleFile
  <2>4. cells \in Seq(CellRecord) /\ \A k \in 1..Len(cells) : cells[k].kind # "rec" /\ cells[k].seq = 0
    BY <2>1, <2>2, <2>3, TornTyped, EmptyFile, Zenon
  <2> QED
    BY <1>2, <2>2, <2>4, Zenon DEF create_segment_failed, NewFile, history
<1> QED
  BY <1>1, <1>2, Zenon DEF create_segment_failed

LEMMA PreservesFile ==
    ASSUME TypeOK, preserve_write
    PROVE  NewFile /\ files' = files \cup {alloc} /\ content' = [content EXCEPT ![alloc] = <<Evidence>>]
<1>1. Evidence \in CellRecord /\ Evidence.kind = "evid" /\ Evidence.seq = 0
  BY EvidenceTyped, Zenon DEF Evidence
<1>2. content' = [content EXCEPT ![alloc] = <<Evidence>>] /\ files' = files \cup {alloc}
  BY DEF preserve_write
<1>3. /\ <<Evidence>> \in Seq(CellRecord)
      /\ \A k \in 1..Len(<<Evidence>>) : <<Evidence>>[k].kind # "rec" /\ <<Evidence>>[k].seq = 0
  BY <1>1, SingleFile
<1> QED
  BY <1>2, <1>3, Zenon DEF preserve_write, NewFile, history

LEMMA PreserveFails ==
    ASSUME TypeOK, preserve_write_failed
    PROVE  Untouched \/ NewFile
<1>1. CASE UNCHANGED <<files, content>>
  BY <1>1 DEF Untouched
<1>2. CASE /\ files' = files \cup {alloc}
           /\ \E cells \in {<<>>, <<Torn>>, <<Cell("evid", 0, cp, FALSE)>>} :
                 content' = [content EXCEPT ![alloc] = cells]
  <2> DEFINE c == Cell("evid", 0, cp, FALSE)
  <2>1. c \in CellRecord /\ c.kind = "evid" /\ c.seq = 0
    BY EvidenceTyped, Zenon
  <2>2. PICK cells \in {<<>>, <<Torn>>, <<c>>} : content' = [content EXCEPT ![alloc] = cells]
    BY <1>2, Zenon
  <2> HIDE DEF c
  <2>3. \A x \in CellRecord : x.kind # "rec" /\ x.seq = 0 =>
           /\ <<x>> \in Seq(CellRecord)
           /\ \A k \in 1..Len(<<x>>) : <<x>>[k].kind # "rec" /\ <<x>>[k].seq = 0
    BY SingleFile
  <2>4. cells \in Seq(CellRecord) /\ \A k \in 1..Len(cells) : cells[k].kind # "rec" /\ cells[k].seq = 0
    BY <2>1, <2>2, <2>3, TornTyped, EmptyFile, ZenonT(60)
  <2> QED
    BY <1>2, <2>2, <2>4, Zenon DEF preserve_write_failed, NewFile, history, ram
<1> QED
  BY <1>1, <1>2, Zenon DEF preserve_write_failed

LEMMA RecordsCell ==
    ASSUME TypeOK, append_record
    PROVE  NewCell
<1> DEFINE c == Cell("rec", alloc, NoCheckpoint, TRUE)
<1>1. alloc \in Nat /\ TRUE \in BOOLEAN
  BY SMT DEF TypeOK
<1>2. c \in CellRecord /\ c.kind = "rec" /\ c.seq = alloc
  BY <1>1, RecordTyped, ZenonT(60)
<1>3. content' = [content EXCEPT ![store.writer] = Append(@, c)] /\ alloc \in acked'
  BY DEF append_record
<1> HIDE DEF c
<1> QED
  BY <1>2, <1>3, Zenon DEF append_record, NewCell

LEMMA RecordFails ==
    ASSUME TypeOK, append_record_failed
    PROVE  Untouched \/ NewCell
<1>1. CASE UNCHANGED content
  BY <1>1, ZenonT(60) DEF Untouched, append_record_failed
<1>2. CASE \E cell \in {Torn, Cell("rec", alloc, NoCheckpoint, FALSE)} :
             content' = [content EXCEPT ![store.writer] = Append(@, cell)]
  <2> DEFINE c == Cell("rec", alloc, NoCheckpoint, FALSE)
  <2>1. alloc \in Nat /\ FALSE \in BOOLEAN
    BY SMT DEF TypeOK
  <2>2. c \in CellRecord /\ c.kind = "rec" /\ c.seq = alloc /\ c.synced = FALSE
    BY <2>1, RecordTyped, Zenon
  <2>3. PICK cell \in {Torn, c} : content' = [content EXCEPT ![store.writer] = Append(@, cell)]
    BY <1>2, Zenon
  <2> HIDE DEF c
  <2> QED
    BY <2>2, <2>3, TornTyped, Zenon DEF append_record_failed, NewCell, history
<1> QED
  BY <1>1, <1>2, Zenon DEF append_record_failed

LEMMA ReuseResyncs ==
    ASSUME JournalInv, preserve_reuse
    PROVE  Resynced
<1>1. PICK i \in Reusable : content' = [content EXCEPT ![i] = <<Evidence>>]
  BY Zenon DEF preserve_reuse
<1>2. i \in store.segments /\ IsEvidence(i) /\ store.segments = files
  BY <1>1 DEF Reusable, Lowest, preserve_reuse, JournalInv, OpenInv, Replaying
<1> QED
  BY <1>1, <1>2, Zenon DEF preserve_reuse, Resynced, history, ram

LEMMA FlashSteps ==
    ASSUME JournalInv, [Next]_vars
    PROVE  \/ Untouched \/ NewFile \/ Resynced
           \/ NewCell /\ (append_record \/ append_record_failed)
           \/ Shrunk /\ (Crash \/ zj_store_reclaim_step)
<1>0. TypeOK
  BY DEF JournalInv
<1>1. CASE create_segment \/ create_segment_failed \/ preserve_write \/ preserve_write_failed
  BY <1>0, <1>1, CreatesFile, CreateFails, PreservesFile, PreserveFails, Zenon
<1>2. CASE append_record \/ append_record_failed
  BY <1>0, <1>2, RecordsCell, RecordFails
<1>3. CASE preserve_reuse
  BY <1>3, ReuseResyncs
<1>4. CASE Crash \/ zj_store_reclaim_step
  BY <1>0, <1>4, CrashShrinks, ReclaimShrinks
<1>5. CASE \/ zj_state_open \/ zj_state_open_failed \/ zj_state_enable_add
           \/ zj_state_enable_add_failed \/ zj_store_open \/ zj_store_open_failed
           \/ preserve_allocate \/ preserve_refused \/ replay_commit \/ replay_commit_failed
           \/ append_to_writer \/ append_needs_segment \/ append_allocate
           \/ zj_store_peek \/ zj_store_reclaim_failed \/ DamageCheckpoint \/ UNCHANGED vars
  BY <1>5, Zenon DEF Untouched, zj_state_open, zj_state_open_failed, zj_state_enable_add,
     zj_state_enable_add_failed, zj_store_open, zj_store_open_failed, preserve_allocate,
     preserve_refused, replay_commit, replay_commit_failed, append_to_writer,
     append_needs_segment, append_allocate, zj_store_peek, zj_store_reclaim_failed,
     DamageCheckpoint, durable, vars
<1>6. ASSUME NEW item \in tokens, \/ AddReceipt(item) \/ zj_store_settle(item)
                                  \/ zj_store_settle_failed(item) \/ DropToken(item)
      PROVE  Untouched
  BY <1>6 DEF Untouched, AddReceipt, zj_store_settle, zj_store_settle_failed, DropToken, durable
<1> QED
  BY <1>1, <1>2, <1>3, <1>4, <1>5, <1>6 DEF Next, Recover, AppendSteps, Failure


(* Histories only grow. *)
LEMMA HistoryGrows ==
    ASSUME [Next]_vars
    PROVE  issued \subseteq issued' /\ acked \subseteq acked' /\ custody \subseteq custody'
<1> USE DEF history
<1>3. CASE preserve_allocate
  BY <1>3 DEF preserve_allocate, zj_sequence_next
<1>4. CASE preserve_refused
  BY <1>4 DEF preserve_refused, zj_sequence_refused
<1>5. CASE append_needs_segment
  BY <1>5 DEF append_needs_segment, zj_sequence_next, zj_sequence_refused
<1>6. CASE append_allocate
  BY <1>6 DEF append_allocate, zj_sequence_next, zj_sequence_refused
<1>7. CASE create_segment \/ create_segment_failed \/ preserve_write \/ preserve_write_failed
           \/ append_record \/ append_record_failed \/ preserve_reuse
           \/ Crash \/ zj_store_reclaim_step \/ zj_state_open \/ zj_state_open_failed
           \/ zj_state_enable_add \/ zj_state_enable_add_failed \/ zj_store_open
           \/ zj_store_open_failed \/ replay_commit \/ replay_commit_failed \/ append_to_writer
           \/ zj_store_peek \/ zj_store_reclaim_failed \/ DamageCheckpoint \/ UNCHANGED vars
  BY <1>7, Zenon DEF create_segment, create_segment_failed, preserve_write, preserve_write_failed,
     append_record, append_record_failed, preserve_reuse, Crash, zj_store_reclaim_step,
     zj_state_open, zj_state_open_failed, zj_state_enable_add, zj_state_enable_add_failed,
     zj_store_open, zj_store_open_failed, replay_commit, replay_commit_failed, append_to_writer,
     zj_store_peek, zj_store_reclaim_failed, DamageCheckpoint, vars
<1>8. ASSUME NEW item \in tokens, \/ AddReceipt(item) \/ zj_store_settle(item)
                                  \/ zj_store_settle_failed(item) \/ DropToken(item)
      PROVE  issued \subseteq issued' /\ acked \subseteq acked' /\ custody \subseteq custody'
  BY <1>8 DEF AddReceipt, zj_store_settle, zj_store_settle_failed, DropToken
<1> QED
  BY <1>3, <1>4, <1>5, <1>6, <1>7, <1>8 DEF Next, Recover, AppendSteps, Failure

LEMMA FlashTypes ==
    ASSUME JournalInv, [Next]_vars
    PROVE  files' \subseteq Ids /\ content' \in [Ids -> Seq(CellRecord)]
<1>1. files \subseteq Ids /\ content \in [Ids -> Seq(CellRecord)]
  BY DEF JournalInv, TypeOK
<1>2. CASE Untouched
  BY <1>1, <1>2 DEF Untouched
<1>3. CASE NewFile
  <2>1. alloc \in Ids
    BY <1>3, JournalAssumption DEF NewFile, JournalInv, OpenInv, TypeOK, Ids
  <2> QED
    BY <1>1, <1>3, <2>1 DEF NewFile
<1>4. CASE NewCell
  <2>1. store.writer \in Ids /\ files' = files
    BY <1>1, <1>4 DEF NewCell, JournalInv, OpenInv
  <2>2. PICK c \in CellRecord : content' = [content EXCEPT ![store.writer] = Append(content[store.writer], c)]
    BY <1>4, Zenon DEF NewCell
  <2>3. Append(content[store.writer], c) \in Seq(CellRecord)
    BY <1>1, <2>1, SMT
  <2> QED
    BY <1>1, <2>1, <2>2, <2>3
<1>5. CASE Resynced
  <2>1. Evidence \in CellRecord
    BY EvidenceTyped, Zenon DEF Evidence, JournalInv
  <2>2. <<Evidence>> \in Seq(CellRecord)
    BY <2>1, OneCell
  <2> QED
    BY <1>1, <1>5, <2>2 DEF Resynced
<1>6. CASE Shrunk
  BY <1>1, <1>6 DEF Shrunk
<1> QED
  BY <1>2, <1>3, <1>4, <1>5, <1>6, FlashSteps

(* Every record after the step was there before it, under the same header. *)
NoNewRecords ==
    \A i \in files' : \A k \in 1..Len(content'[i]) : content'[i][k].kind = "rec" =>
        /\ i \in files /\ k \in 1..Len(content[i])
        /\ content'[i][k] = content[i][k] /\ content'[i][1] = content[i][1]

LEMMA OldRecords ==
    ASSUME FlashInv, NoNewRecords, files' \subseteq issued', issued \subseteq issued',
           acked \subseteq acked',
           \A i \in files' : \A k \in 1..Len(content'[i]) :
              content'[i][k].kind # "rec" => content'[i][k].seq = 0
    PROVE  FlashInv'
<1>1. \A i \in files' : \A k \in 1..Len(content'[i]) : content'[i][k].kind = "rec" =>
          /\ content'[i][k].seq \in issued'
          /\ content'[i][k].synced => content'[i][k].seq \in acked'
          /\ content'[i][1].kind = "head"
  BY SMT DEF FlashInv, NoNewRecords
<1>2. \A i, j \in files' : \A k \in 1..Len(content'[i]) : \A l \in 1..Len(content'[j]) :
          (content'[i][k].kind = "rec" /\ content'[j][l].kind = "rec" /\ (i < j \/ (i = j /\ k < l)))
              => content'[i][k].seq < content'[j][l].seq
  BY ZenonT(60) DEF FlashInv, NoNewRecords
<1> QED
  BY <1>1, <1>2 DEF FlashInv

LEMMA NewFileRecords ==
    ASSUME JournalInv, NewFile
    PROVE  /\ NoNewRecords /\ alloc \notin files /\ alloc \in Ids
           /\ \A i \in files : i \in files' /\ content'[i] = content[i]
           /\ \A k \in 1..Len(content'[alloc]) : content'[alloc][k].kind # "rec" /\ content'[alloc][k].seq = 0
<1>1. content \in [Ids -> Seq(CellRecord)] /\ files \subseteq Ids
  BY DEF JournalInv, TypeOK
<1>2. alloc \in Ids /\ \A i \in files : i < alloc
  BY JournalAssumption, SMTT(60) DEF NewFile, JournalInv, OpenInv, TypeOK, Precedes, Ids
<1>3. alloc \notin files
  BY <1>1, <1>2, SMT DEF Ids
<1>4. PICK cells \in Seq(CellRecord) :
          /\ content' = [content EXCEPT ![alloc] = cells]
          /\ \A k \in 1..Len(cells) : cells[k].kind # "rec" /\ cells[k].seq = 0
  BY Zenon DEF NewFile
<1>5. content'[alloc] = cells /\ \A i \in files : content'[i] = content[i]
  BY <1>1, <1>2, <1>3, <1>4
<1>6. files' = files \cup {alloc}
  BY DEF NewFile
<1>7. \A k \in 1..Len(content'[alloc]) : content'[alloc][k].kind # "rec" /\ content'[alloc][k].seq = 0
  BY <1>4, <1>5
<1> QED
  BY <1>2, <1>3, <1>5, <1>6, <1>7 DEF NoNewRecords

LEMMA ResyncedRecords ==
    ASSUME JournalInv, Resynced
    PROVE  /\ NoNewRecords /\ files' = files
           /\ \A i \in files : content'[i] = content[i] \/ (IsEvidence(i) /\ content'[i] = <<Evidence>>)
<1>1. content \in [Ids -> Seq(CellRecord)] /\ files \subseteq Ids
  BY DEF JournalInv, TypeOK
<1>2. PICK j \in files : IsEvidence(j) /\ content' = [content EXCEPT ![j] = <<Evidence>>]
  BY Zenon DEF Resynced
<1>3. Evidence \in CellRecord /\ Evidence.kind = "evid"
  BY EvidenceTyped, Zenon DEF Evidence, JournalInv
<1>4. Len(<<Evidence>>) = 1 /\ <<Evidence>>[1] = Evidence
  OBVIOUS
<1>5. content'[j] = <<Evidence>> /\ \A i \in files : i # j => content'[i] = content[i]
  BY <1>1, <1>2
<1>6. files' = files
  BY DEF Resynced
<1>7. \A k \in 1..Len(content'[j]) : content'[j][k].kind # "rec"
  BY <1>3, <1>4, <1>5, SMT
<1> QED
  BY <1>2, <1>5, <1>6, <1>7 DEF NoNewRecords

LEMMA ShrunkRecords ==
    ASSUME JournalInv, Shrunk
    PROVE  NoNewRecords
<1>1. \A i \in files' : i \in files /\ Len(content'[i]) \in Nat /\ Len(content[i]) \in Nat
  BY SMTT(60) DEF JournalInv, TypeOK, Shrunk
<1> QED
  BY <1>1, SMT DEF Shrunk, NoNewRecords


(* A new cell follows every other cell of the last file. *)
LEMMA NewCellRecords ==
    ASSUME JournalInv, NewCell, NEW w, w = store.writer, NEW n, n = Len(content[w]) + 1
    PROVE  /\ w \in files /\ w \in Ids /\ n \in Nat /\ n > 1 /\ files' = files
           /\ content[w][1].kind = "head" /\ content'[w][1] = content[w][1]
           /\ \A i \in files : i <= w /\ (i # w => content'[i] = content[i])
           /\ Len(content'[w]) = n
           /\ \A k \in 1..(n - 1) : content'[w][k] = content[w][k]
           /\ content'[w][n] \in CellRecord
           /\ \/ /\ content'[w][n].kind = "rec" /\ content'[w][n].seq = alloc
                 /\ content'[w][n].synced => alloc \in acked'
              \/ content'[w][n].kind # "rec" /\ content'[w][n].seq = 0
<1>1. content \in [Ids -> Seq(CellRecord)] /\ files \subseteq Ids
  BY DEF JournalInv, TypeOK
<1>2. /\ w \in files /\ HeaderOnFlash(w) /\ files' = files /\ \A i \in files : i <= w
  BY DEF JournalInv, OpenInv, NewCell
<1>3. content[w] \in Seq(CellRecord) /\ content[w] # <<>> /\ content[w][1].kind = "head" /\ w \in Ids
  BY <1>1, <1>2 DEF HeaderOnFlash
<1>4. PICK c \in CellRecord :
          /\ content' = [content EXCEPT ![w] = Append(content[w], c)]
          /\ \/ c.kind = "rec" /\ c.seq = alloc /\ (c.synced => alloc \in acked')
             \/ c.kind # "rec" /\ c.seq = 0
  BY ZenonT(60) DEF NewCell
<1>5. content'[w] = Append(content[w], c) /\ \A i \in files : i # w => content'[i] = content[i]
  BY <1>1, <1>2, <1>4
<1> DEFINE s == content[w]
<1> HIDE DEF s
<1>6. /\ Len(Append(s, c)) = Len(s) + 1 /\ Append(s, c)[Len(s) + 1] = c
      /\ \A k \in 1..Len(s) : Append(s, c)[k] = s[k]
      /\ Len(s) \in Nat /\ Len(s) # 0
  <2>1. s \in Seq(CellRecord) /\ s # <<>>
    BY <1>3 DEF s
  <2> QED
    BY <2>1, CellAdded, SMT
<1>7. n = Len(s) + 1 /\ n - 1 = Len(s) /\ n > 1 /\ n \in Nat /\ 1 \in 1..Len(s)
  BY <1>6, SMT DEF s
<1>8. /\ Len(content'[w]) = n /\ content'[w][n] = c
      /\ \A k \in 1..(n - 1) : content'[w][k] = content[w][k]
      /\ content'[w][1] = content[w][1]
  BY <1>5, <1>6, <1>7 DEF s
<1> QED
  BY <1>2, <1>3, <1>4, <1>5, <1>7, <1>8

LEMMA NewCellFlash ==
    ASSUME JournalInv, NewCell, [Next]_vars
    PROVE  FlashInv'
<1> DEFINE w == store.writer
           n == Len(content[w]) + 1
<1>1. /\ w \in files /\ w \in Ids /\ n \in Nat /\ n > 1 /\ files' = files
      /\ content[w][1].kind = "head" /\ content'[w][1] = content[w][1]
      /\ \A i \in files : i <= w /\ (i # w => content'[i] = content[i])
      /\ Len(content'[w]) = n
      /\ \A k \in 1..(n - 1) : content'[w][k] = content[w][k]
      /\ \/ /\ content'[w][n].kind = "rec" /\ content'[w][n].seq = alloc
            /\ content'[w][n].synced => alloc \in acked'
         \/ content'[w][n].kind # "rec" /\ content'[w][n].seq = 0
  BY NewCellRecords, ZenonT(60)
<1>2. n - 1 = Len(content[w]) /\ files \subseteq Ids /\ \A i \in files : Len(content[i]) \in Nat
  BY <1>1, SMTT(20) DEF JournalInv, TypeOK
<1> HIDE DEF w, n
<1>3. /\ alloc \in issued /\ alloc \in Nat
      /\ \A i \in files : \A k \in 1..Len(content[i]) : content[i][k].seq < alloc
  BY SMT DEF JournalInv, OpenInv, TypeOK, Precedes, NewCell
<1>4. issued \subseteq issued' /\ acked \subseteq acked'
  BY HistoryGrows
<1>5. FlashInv
  BY DEF JournalInv
<1>6. \A i \in files : \A k \in 1..Len(content'[i]) :
          \/ k \in 1..Len(content[i]) /\ content'[i][k] = content[i][k]
          \/ i = w /\ k = n
  BY <1>1, <1>2, SMT
<1>7. \A i \in files : \A k \in 1..Len(content'[i]) :
          /\ content'[i][k].kind # "rec" => content'[i][k].seq = 0
          /\ content'[i][k].kind = "rec" =>
                /\ content'[i][k].seq \in issued'
                /\ content'[i][k].synced => content'[i][k].seq \in acked'
                /\ content'[i][1].kind = "head"
  <2> SUFFICES ASSUME NEW i \in files, NEW k \in 1..Len(content'[i])
               PROVE  /\ content'[i][k].kind # "rec" => content'[i][k].seq = 0
                      /\ content'[i][k].kind = "rec" =>
                            /\ content'[i][k].seq \in issued'
                            /\ content'[i][k].synced => content'[i][k].seq \in acked'
                            /\ content'[i][1].kind = "head"
    OBVIOUS
  <2>1. content'[i][1] = content[i][1]
    BY <1>1
  <2>2. CASE k \in 1..Len(content[i]) /\ content'[i][k] = content[i][k]
    BY <1>4, <1>5, <2>1, <2>2 DEF FlashInv
  <2>3. CASE i = w /\ k = n
    BY <1>1, <1>3, <1>4, <2>3
  <2> QED
    BY <1>6, <2>2, <2>3
<1>8. ASSUME NEW i \in files, NEW j \in files,
             NEW k \in 1..Len(content'[i]), NEW l \in 1..Len(content'[j]),
             content'[i][k].kind = "rec", content'[j][l].kind = "rec", i < j \/ (i = j /\ k < l)
      PROVE  content'[i][k].seq < content'[j][l].seq
  <2>1. ~(i = w /\ k = n)
    <3>1. ASSUME i = w, k = n PROVE FALSE
      <4>1. j <= w /\ j \in Nat /\ w \in Nat
        BY <1>1, <1>2, SMT DEF Ids
      <4>2. i = j /\ k < l
        BY <1>8, <3>1, <4>1, SMT
      <4> QED
        BY <1>1, <3>1, <4>2, SMT
    <3> QED
      BY <3>1
  <2>2. k \in 1..Len(content[i]) /\ content'[i][k] = content[i][k]
    BY <1>6, <2>1
  <2>3. CASE l \in 1..Len(content[j]) /\ content'[j][l] = content[j][l]
    BY <1>5, <1>8, <2>2, <2>3 DEF FlashInv
  <2>4. CASE j = w /\ l = n
    <3>1. content'[j][l].seq = alloc
      BY <1>1, <1>8, <2>4
    <3> QED
      BY <1>3, <2>2, <3>1
  <2> QED
    BY <1>6, <2>3, <2>4
<1>9. files' \subseteq issued'
  BY <1>1, <1>4, <1>5 DEF FlashInv
<1> QED
  BY <1>1, <1>7, <1>8, <1>9, SMTT(60) DEF FlashInv

LEMMA NextFlash ==
    ASSUME JournalInv, [Next]_vars
    PROVE  FlashInv'
<1>1. FlashInv /\ issued \subseteq issued' /\ acked \subseteq acked'
  BY HistoryGrows, SMTT(60) DEF JournalInv
<1>2. CASE Untouched
  BY <1>1, <1>2, OldRecords, SMTT(60) DEF Untouched, NoNewRecords, FlashInv
<1>3. CASE NewFile
  <2>1. /\ NoNewRecords
        /\ \A i \in files : i \in files' /\ content'[i] = content[i]
        /\ \A k \in 1..Len(content'[alloc]) : content'[alloc][k].seq = 0
    BY <1>3, NewFileRecords, SMTT(60)
  <2>2. files' = files \cup {alloc} /\ alloc \in issued
    BY <1>3 DEF NewFile, JournalInv, OpenInv
  <2> QED
    BY <1>1, <2>1, <2>2, OldRecords, SMT DEF FlashInv
<1>4. CASE NewCell
  BY <1>4, NewCellFlash, SMTT(60)
<1>5. CASE Resynced
  <2>1. /\ NoNewRecords /\ files' = files
        /\ \A i \in files : content'[i] = content[i] \/ (IsEvidence(i) /\ content'[i] = <<Evidence>>)
    BY <1>5, ResyncedRecords
  <2>2. Evidence.seq = 0 /\ Len(<<Evidence>>) = 1 /\ <<Evidence>>[1] = Evidence
    BY EvidenceTyped, Zenon DEF Evidence, JournalInv
  <2>3. \A i \in files' : \A k \in 1..Len(content'[i]) :
              content'[i][k].kind # "rec" => content'[i][k].seq = 0
    BY <1>1, <2>1, <2>2, SMT DEF FlashInv
  <2> QED
    BY <1>1, <2>1, <2>3, OldRecords DEF FlashInv
<1>6. CASE Shrunk
  <2>1. NoNewRecords
    BY <1>6, ShrunkRecords
  <2>2. \A i \in files' : i \in files /\ Len(content'[i]) \in Nat /\ Len(content[i]) \in Nat
    BY <1>6, SMT DEF JournalInv, TypeOK, Shrunk
  <2>3. \A i \in files' : \A k \in 1..Len(content'[i]) :
              content'[i][k].kind # "rec" => content'[i][k].seq = 0
    BY <1>1, <1>6, <2>2, SMT DEF FlashInv, Shrunk
  <2>4. files' \subseteq issued'
    BY <1>1, <1>6 DEF FlashInv, Shrunk
  <2> QED
    BY <1>1, <2>1, <2>3, <2>4, OldRecords
<1> QED
  BY <1>2, <1>3, <1>4, <1>5, <1>6, FlashSteps


-----------------------------------------------------------------------------
(* zj_store_peek and zj_store_settle: the read head is the first cell the  *)
(* checkpoint has not passed, apart from headers.                          *)
LEMMA HeadItem ==
    ASSUME JournalInv, store.ready, NEW item \in ReadHead,
           NEW i, i = item.segment, NEW k, k = item.end
    PROVE  /\ item \in ItemRecord
           /\ i \in files /\ i \in Ids /\ k \in 1..Len(content[i])
           /\ item.bytes[2] = content[i][k].seq
           /\ item.observation <=> (content[i][1].kind = "head" /\ content[i][k].kind = "rec"
                                       /\ content[i][k].seq > cp.last)
           /\ cp.segment < i \/ (cp.segment = i /\ cp.offset < k)
           /\ \A j \in files : \A l \in 1..Len(content[j]) :
                 (content[j][l].kind = "rec" /\ (j < i \/ (j = i /\ l < k))) => Passed(cp, j, l)
<1>1. /\ content \in [Ids -> Seq(CellRecord)] /\ files \subseteq Ids /\ cursor \in CursorRecord
      /\ store.segments = files /\ store.metadata \subseteq files /\ cp \in Checkpoint
      /\ \A j \in store.metadata : HeaderOnFlash(j)
      /\ cursor = CursorOf(cp)
  BY SMTT(60) DEF JournalInv, TypeOK, OpenInv, CursorRecord
<1>2. /\ cursor.segment = cp.segment /\ cursor.offset = cp.offset /\ cursor.last = cp.last
      /\ cp.segment \in Nat /\ cp.offset \in Nat /\ cp.last \in Nat
  BY <1>1, Zenon DEF CursorOf, Checkpoint
<1>3. PICK m \in Lowest({j \in store.segments : Unread(j)}) : item = Item(m, ReadOffset(m) + 1)
  BY DEF ReadHead
<1>4. /\ m \in files /\ m \in Ids /\ m \in Nat /\ m >= cp.segment /\ ReadOffset(m) < Len(content[m])
      /\ \A j \in files : Unread(j) => m <= j
  <2>1. m \in store.segments /\ Unread(m) /\ \A j \in store.segments : Unread(j) => m <= j
    BY <1>3 DEF Lowest
  <2>2. m >= cursor.segment /\ ReadOffset(m) < Len(content[m])
    BY <2>1 DEF Unread
  <2>3. m \in Ids
    BY <1>1, <2>1
  <2>4. m \in Nat
    BY <2>3, JournalAssumption, SMT DEF Ids
  <2> QED
    BY <1>1, <1>2, <2>1, <2>2, <2>3, <2>4
<1>5. \A j \in files : ReadOffset(j) = IF j = cp.segment THEN cp.offset
                                       ELSE IF j \in store.metadata THEN 1 ELSE 0
  BY <1>2 DEF ReadOffset
<1>6. content[m] \in Seq(CellRecord) /\ ReadOffset(m) \in Nat
  BY <1>1, <1>2, <1>4, <1>5, SMT
<1> DEFINE p == ReadOffset(m) + 1
<1>7. p \in 1..Len(content[m]) /\ p \in Nat /\ content[m][p] \in CellRecord
  BY <1>4, <1>6, SMTT(60)
<1>8. item = [segment |-> m, end |-> p,
              bytes |-> <<content[m][p].kind, content[m][p].seq, content[m][p].cp>>,
              observation |-> IsObservation(m, content[m][p])]
  BY <1>3 DEF Item
<1> HIDE DEF p
<1>9. i = m /\ k = p /\ item.bytes[2] = content[m][p].seq
      /\ item.observation = IsObservation(m, content[m][p])
  BY <1>8
<1>10. IsObservation(m, content[m][p]) <=>
          (content[m][1].kind = "head" /\ content[m][p].kind = "rec" /\ content[m][p].seq > cp.last)
  BY <1>2, <1>6, <1>7, SMTT(20) DEF IsObservation, HeaderOnFlash
<1>11. item \in ItemRecord
  <2>1. IsObservation(m, content[m][p]) \in BOOLEAN
    BY DEF IsObservation
  <2>2. /\ content[m][p].kind \in {"head", "rec", "torn", "evid"} /\ content[m][p].seq \in Nat
        /\ content[m][p].cp \in Checkpoint
    BY <1>7 DEF CellRecord
  <2> QED
    BY <1>4, <1>7, <1>8, <2>1, <2>2 DEF ItemRecord
<1>12. cp.segment < m \/ (cp.segment = m /\ cp.offset < p)
  BY <1>2, <1>4, <1>5, SMT DEF p
<1>13. ASSUME NEW j \in files, NEW l \in 1..Len(content[j]), content[j][l].kind = "rec",
              j < m \/ (j = m /\ l < p)
       PROVE  Passed(cp, j, l)
  <2>1. j \in Nat /\ content[j] \in Seq(CellRecord) /\ l \in Nat /\ ReadOffset(j) \in Nat
    BY <1>1, <1>2, <1>5, SMT DEF Ids
  <2>2. l <= ReadOffset(j) \/ j < cp.segment
    <3>1. CASE j < m
      <4>1. ~Unread(j)
        BY <1>4, <2>1, <3>1, SMT
      <4> QED
        BY <1>2, <2>1, <4>1, SMT DEF Unread
    <3>2. CASE j = m /\ l < p
      BY <2>1, <3>2, SMT DEF p
    <3> QED
      BY <1>13, <3>1, <3>2
  <2>3. CASE j < cp.segment
    BY <2>3 DEF Passed
  <2>4. CASE l <= ReadOffset(j) /\ j = cp.segment
    BY <1>5, <2>4 DEF Passed
  <2>5. CASE l <= ReadOffset(j) /\ j # cp.segment
    <3>1. j \in store.metadata /\ l = 1
      BY <1>5, <2>1, <2>5, SMT
    <3>2. content[j][1].kind = "head"
      BY <1>1, <3>1, SMTT(60) DEF HeaderOnFlash
    <3> QED
      BY <1>13, <3>1, <3>2
  <2> QED
    BY <2>2, <2>3, <2>4, <2>5
<1> QED
  BY <1>4, <1>7, <1>9, <1>10, <1>11, <1>12, <1>13

(* Settling the head moves the checkpoint on, past that one record.        *)
LEMMA SettledHead ==
    ASSUME JournalInv, Usable, NEW item \in ReadHead, NEW c, c = Settled(item)
    PROVE  /\ c \in Checkpoint /\ c.state = "valid"
           /\ c.revision = cursor.revision + 1 /\ c.segment = item.segment /\ c.offset = item.end
           /\ c.segment \in files /\ c.segment \in Ids /\ c.offset \in 1..Len(content[c.segment])
           /\ c.segment \in issued /\ c.last \in issued \cup {0}
           /\ \A j \in files : \A l \in 1..Len(content[j]) : content[j][l].kind = "rec" =>
                 /\ Passed(cp, j, l) => Passed(c, j, l)
                 /\ ~Passed(c, j, l) => content[j][l].seq > c.last
                 /\ (Passed(c, j, l) /\ ~Passed(cp, j, l)) =>
                       item.observation /\ item.bytes[2] = content[j][l].seq
<1> DEFINE i == item.segment
           k == item.end
<1>1. store.ready /\ FlashInv /\ CheckpointInv
  BY SMTT(60) DEF JournalInv, Usable
<1>2. /\ item \in ItemRecord
      /\ i \in files /\ i \in Ids /\ k \in 1..Len(content[i])
      /\ item.bytes[2] = content[i][k].seq
      /\ item.observation <=> (content[i][1].kind = "head" /\ content[i][k].kind = "rec"
                                  /\ content[i][k].seq > cp.last)
      /\ cp.segment < i \/ (cp.segment = i /\ cp.offset < k)
      /\ \A j \in files : \A l \in 1..Len(content[j]) :
            (content[j][l].kind = "rec" /\ (j < i \/ (j = i /\ l < k))) => Passed(cp, j, l)
  BY <1>1, HeadItem
<1> HIDE DEF i, k
<1>3. cursor \in CursorRecord /\ cp \in Checkpoint /\ cursor.last = cp.last
  BY <1>1, SMTT(60) DEF JournalInv, TypeOK, OpenInv, CursorRecord, CursorOf
<1>4. /\ c \in Checkpoint /\ c.state = "valid"
      /\ c.revision = cursor.revision + 1 /\ c.segment = i /\ c.offset = k
      /\ c.last = IF item.observation THEN item.bytes[2] ELSE cp.last
  BY <1>2, <1>3, SettledTyped DEF i, k
<1>5. /\ files \subseteq Ids /\ cp.segment \in Nat /\ cp.offset \in Nat /\ k \in Nat /\ i \in Nat
      /\ \A j \in files : j \in Nat /\ Len(content[j]) \in Nat
  <2>1. files \subseteq Ids /\ content \in [Ids -> Seq(CellRecord)]
    BY DEF JournalInv, TypeOK
  <2>2. \A j \in files : j \in Nat /\ Len(content[j]) \in Nat
    BY <2>1, SMT DEF Ids
  <2>3. cp.segment \in Nat /\ cp.offset \in Nat
    BY <1>3 DEF Checkpoint
  <2> QED
    BY <1>2, <2>1, <2>2, <2>3, SMT
<1>6. \A j \in files : \A l \in 1..Len(content[j]) : Passed(c, j, l) <=> (j < i \/ (j = i /\ l <= k))
  BY <1>4 DEF Passed
<1>7. \A j \in files : \A l \in 1..Len(content[j]) : Passed(cp, j, l) => Passed(c, j, l)
  <2> SUFFICES ASSUME NEW j \in files, NEW l \in 1..Len(content[j]), Passed(cp, j, l)
               PROVE  j < i \/ (j = i /\ l <= k)
    BY <1>6
  <2>1. j \in Nat /\ l \in Nat
    BY <1>5, SMT
  <2>2. j < cp.segment \/ (j = cp.segment /\ l <= cp.offset)
    BY DEF Passed
  <2> QED
    BY <1>2, <1>5, <2>1, <2>2, SMT
<1>8. c.last \in issued \cup {0}
  <2>1. CASE item.observation
    BY <1>1, <1>2, <1>4, <2>1, SMTT(60) DEF FlashInv
  <2>2. CASE ~item.observation
    BY <1>1, <1>4, <2>2, SMTT(60) DEF CheckpointInv
  <2> QED
    BY <2>1, <2>2, SMTT(60)
<1>9. ASSUME NEW j \in files, NEW l \in 1..Len(content[j]), content[j][l].kind = "rec", ~Passed(c, j, l)
      PROVE  content[j][l].seq > c.last
  <2>1. ~Passed(cp, j, l) /\ (i < j \/ (i = j /\ k < l))
    BY <1>5, <1>6, <1>7, <1>9, SMT
  <2>2. content[j][l].seq > cp.last
    BY <1>1, <1>9, <2>1, SMTT(60) DEF CheckpointInv
  <2>3. CASE item.observation
    <3>1. content[i][k].seq < content[j][l].seq
      BY <1>1, <1>2, <1>9, <2>1, <2>3, SMTT(60) DEF FlashInv
    <3>2. content[i][k].seq \in Nat /\ content[j][l].seq \in Nat
      <4>1. content[i] \in Seq(CellRecord) /\ content[j] \in Seq(CellRecord)
        BY <1>2, <1>5, SMTT(60) DEF JournalInv, TypeOK
      <4>2. content[i][k] \in CellRecord /\ content[j][l] \in CellRecord
        BY <1>2, <4>1, SMTT(60)
      <4> QED
        BY <4>2 DEF CellRecord
    <3> QED
      BY <1>2, <1>4, <2>3, <3>1, <3>2, SMTT(60)
  <2> QED
    BY <1>4, <2>2, <2>3
<1>10. ASSUME NEW j \in files, NEW l \in 1..Len(content[j]), content[j][l].kind = "rec",
              Passed(c, j, l), ~Passed(cp, j, l)
       PROVE  item.observation /\ item.bytes[2] = content[j][l].seq
  <2>1. j = i /\ l = k
    <3>1. j < i \/ (j = i /\ l <= k)
      BY <1>6, <1>10
    <3>2. ~(j < i \/ (j = i /\ l < k))
      BY <1>2, <1>10
    <3>3. k \in Nat /\ l \in Nat
      BY <1>5, SMT
    <3> QED
      BY <3>1, <3>2, <3>3, SMT
  <2>2. content[i][1].kind = "head"
    BY <1>1, <1>10, <2>1, SMTT(60) DEF FlashInv
  <2>3. content[i][k].seq > cp.last
    BY <1>1, <1>10, <2>1, SMTT(60) DEF CheckpointInv
  <2> QED
    BY <1>2, <1>10, <2>1, <2>2, <2>3
<1>11. i \in issued
  BY <1>1, <1>2, Zenon DEF FlashInv
<1> QED
  BY <1>2, <1>4, <1>7, <1>8, <1>9, <1>10, <1>11 DEF i, k


(* The root, once created, stays. *)
LEMMA RootStays ==
    ASSUME AllocatorInv, [Next]_vars, root.present
    PROVE  root'.present
<1>1. root \in [present : BOOLEAN, limit : Nat, add : BOOLEAN]
  BY DEF AllocatorInv, AllocatorTypes
<1>2. CASE root' = root
  BY <1>2
<1>3. CASE \E n : root' = [root EXCEPT !.limit = n]
  BY <1>1, <1>3
<1>4. CASE zj_state_open \/ zj_state_open_failed
  BY <1>4 DEF zj_state_open, zj_state_open_failed
<1>5. CASE zj_state_enable_add \/ zj_state_enable_add_failed
  BY <1>1, <1>5 DEF zj_state_enable_add, zj_state_enable_add_failed
<1>6. CASE zj_sequence_next
  BY <1>2, <1>3, <1>6 DEF zj_sequence_next
<1>7. CASE zj_sequence_refused
  BY <1>2, <1>3, <1>7 DEF zj_sequence_refused
<1>8. CASE preserve_allocate \/ preserve_refused \/ append_needs_segment \/ append_allocate
  BY <1>2, <1>6, <1>7, <1>8, SMTT(60) DEF preserve_allocate, preserve_refused, append_needs_segment, append_allocate
<1>9. CASE create_segment \/ create_segment_failed \/ preserve_write \/ preserve_write_failed
           \/ append_record \/ append_record_failed \/ preserve_reuse
           \/ Crash \/ zj_store_reclaim_step \/ zj_store_open
           \/ zj_store_open_failed \/ replay_commit \/ replay_commit_failed \/ append_to_writer
           \/ zj_store_peek \/ zj_store_reclaim_failed \/ DamageCheckpoint \/ UNCHANGED vars
  BY <1>2, <1>9, Zenon DEF create_segment, create_segment_failed, preserve_write, preserve_write_failed,
     append_record, append_record_failed, preserve_reuse, Crash, zj_store_reclaim_step,
     zj_store_open, zj_store_open_failed, replay_commit, replay_commit_failed, append_to_writer,
     zj_store_peek, zj_store_reclaim_failed, DamageCheckpoint, vars, durable
<1>10. ASSUME NEW item \in tokens, \/ AddReceipt(item) \/ zj_store_settle(item)
                                   \/ zj_store_settle_failed(item) \/ DropToken(item)
       PROVE  root' = root
  BY <1>10 DEF AddReceipt, zj_store_settle, zj_store_settle_failed, DropToken, durable
<1> QED
  BY <1>2, <1>4, <1>5, <1>8, <1>9, <1>10 DEF Next, Recover, AppendSteps, Failure

(* The four things a step does to the checkpoint. *)
Settles == \E item \in ReadHead : Usable /\ item \in custody /\ cp' = Settled(item)
Resets == pc = "reset" /\ cp' = ResetCheckpoint
Damages == cp' = [cp EXCEPT !.state = "damaged"] /\ cp.state = "valid" /\ pc = "idle"

LEMMA CheckpointSteps ==
    ASSUME [Next]_vars
    PROVE  \/ cp' = cp
           \/ Settles /\ UNCHANGED <<root, files, content>>
           \/ Resets /\ UNCHANGED <<root, files, content>>
           \/ Damages /\ UNCHANGED <<root, files, content>>
<1>1. CASE create_segment \/ create_segment_failed \/ preserve_write \/ preserve_write_failed
           \/ append_record \/ append_record_failed \/ preserve_reuse
           \/ preserve_allocate \/ preserve_refused \/ append_needs_segment \/ append_allocate
           \/ Crash \/ zj_store_reclaim_step \/ zj_state_open \/ zj_state_open_failed
           \/ zj_state_enable_add \/ zj_state_enable_add_failed \/ zj_store_open
           \/ zj_store_open_failed \/ append_to_writer
           \/ zj_store_peek \/ zj_store_reclaim_failed \/ UNCHANGED vars
  BY <1>1, Zenon DEF create_segment, create_segment_failed, preserve_write, preserve_write_failed,
     append_record, append_record_failed, preserve_reuse, Crash, zj_store_reclaim_step,
     preserve_allocate, preserve_refused, append_needs_segment, append_allocate,
     zj_state_open, zj_state_open_failed, zj_state_enable_add, zj_state_enable_add_failed,
     zj_store_open, zj_store_open_failed, append_to_writer,
     zj_store_peek, zj_store_reclaim_failed, vars, durable
<1>2. CASE replay_commit \/ replay_commit_failed
  BY <1>2 DEF replay_commit, replay_commit_failed, Resets
<1>3. CASE DamageCheckpoint
  BY <1>3 DEF DamageCheckpoint, Damages
<1>4. ASSUME NEW item \in tokens, zj_store_settle(item) \/ zj_store_settle_failed(item)
      PROVE  cp' = cp \/ (Settles /\ UNCHANGED <<root, files, content>>)
  BY <1>4 DEF zj_store_settle, zj_store_settle_failed, Settles
<1>5. ASSUME NEW item \in tokens, AddReceipt(item) \/ DropToken(item)
      PROVE  cp' = cp
  BY <1>5 DEF AddReceipt, DropToken, durable
<1> QED
  BY <1>1, <1>2, <1>3, <1>4, <1>5, SMTT(60) DEF Next, Recover, AppendSteps, Failure

LEMMA NextCheckpoint ==
    ASSUME JournalInv, [Next]_vars
    PROVE  CheckpointInv' /\ cp' \in Checkpoint
<1>1. /\ CheckpointInv /\ FlashInv /\ AllocatorInv /\ cp \in Checkpoint
      /\ issued \subseteq issued' /\ (root.present => root'.present)
  BY HistoryGrows, RootStays DEF JournalInv, TypeOK
<1>2. ASSUME cp' = cp PROVE CheckpointInv'
  <2>1. CASE NoNewRecords \/ Untouched
    <3>1. \A i \in files' : \A k \in 1..Len(content'[i]) :
            content'[i][k].kind = "rec" => Passed(cp, i, k) \/ content'[i][k].seq > cp.last
      BY <1>1, <2>1 DEF CheckpointInv, NoNewRecords, Untouched
    <3> QED
      BY <1>1, <1>2, <3>1, SMTT(60) DEF CheckpointInv, Passed
  <2>2. CASE NewCell
    <3> DEFINE w == store.writer
               n == Len(content[w]) + 1
    <3>1. /\ w \in files /\ n \in Nat /\ files' = files
          /\ \A i \in files : i # w => content'[i] = content[i]
          /\ Len(content'[w]) = n
          /\ \A k \in 1..(n - 1) : content'[w][k] = content[w][k]
          /\ content'[w][n].kind = "rec" => content'[w][n].seq = alloc
      BY <2>2, NewCellRecords, SMTT(60)
    <3>2. n - 1 = Len(content[w]) /\ Len(content[w]) \in Nat
      BY <3>1, SMT DEF JournalInv, TypeOK
    <3> HIDE DEF w, n
    <3>3. alloc > cp.last /\ alloc \in Nat /\ cp.last \in Nat
      BY <1>1, <2>2, SMT DEF JournalInv, OpenInv, TypeOK, Precedes, NewCell, Checkpoint
    <3>4. ASSUME NEW i \in files, NEW k \in 1..Len(content'[i]), content'[i][k].kind = "rec"
          PROVE  Passed(cp, i, k) \/ content'[i][k].seq > cp.last
      <4>1. CASE i = w /\ k = n
        BY <3>1, <3>3, <3>4, <4>1
      <4>2. CASE ~(i = w /\ k = n)
        <5>1. k \in 1..Len(content[i]) /\ content'[i][k] = content[i][k]
          BY <3>1, <3>2, <4>2, SMT
        <5> QED
          BY <1>1, <3>4, <5>1 DEF CheckpointInv
      <4> QED
        BY <4>1, <4>2
    <3>5. \A i \in files' : \A k \in 1..Len(content'[i]) :
            content'[i][k].kind = "rec" => Passed(cp', i, k) \/ content'[i][k].seq > cp'.last
      BY <1>2, <3>1, <3>4, SMTT(60) DEF Passed
    <3> QED
      BY <1>1, <1>2, <3>5, SMTT(60) DEF CheckpointInv, Passed
  <2> QED
    BY <2>1, <2>2, FlashSteps, NewFileRecords, ResyncedRecords, ShrunkRecords
<1>3. ASSUME Settles, UNCHANGED <<root, files, content>> PROVE CheckpointInv' /\ cp' \in Checkpoint
  <2>1. PICK item \in ReadHead : Usable /\ item \in custody /\ cp' = Settled(item)
    BY <1>3, SMTT(60) DEF Settles
  <2> DEFINE c == Settled(item)
  <2>2. /\ c \in Checkpoint /\ c.state = "valid"
        /\ c.segment \in issued /\ c.last \in issued \cup {0}
        /\ \A j \in files : \A l \in 1..Len(content[j]) : content[j][l].kind = "rec" =>
              (~Passed(c, j, l) => content[j][l].seq > c.last)
    BY <2>1, SettledHead, Zenon
  <2> HIDE DEF c
  <2>3. cp' = c /\ root.present
    BY <1>1, <2>1 DEF c, Usable, AllocatorInv
  <2>4. \A i \in files' : \A k \in 1..Len(content'[i]) :
            content'[i][k].kind = "rec" => Passed(cp', i, k) \/ content'[i][k].seq > cp'.last
    BY <1>3, <2>2, <2>3, SMTT(60) DEF Passed
  <2> QED
    BY <1>1, <2>2, <2>3, <2>4 DEF CheckpointInv, Passed
<1>4. ASSUME Resets, UNCHANGED <<root, files, content>> PROVE CheckpointInv' /\ cp' \in Checkpoint
  <2>1. cp.state # "absent"
    BY <1>4 DEF Resets, JournalInv, OpenInv, Replaying
  <2>2. root.present
    BY <1>1, <2>1 DEF CheckpointInv
  <2>3. \A n \in issued : n > 0
    BY JournalAssumption, SMT DEF JournalInv, TypeOK, Ids
  <2>4. cp' = ResetCheckpoint
    BY <1>4 DEF Resets
  <2>5. \A i \in files' : \A k \in 1..Len(content'[i]) :
            content'[i][k].kind = "rec" => content'[i][k].seq > cp'.last
    BY <1>1, <1>4, <2>3, <2>4, CheckpointTyped, SMTT(60) DEF FlashInv
  <2> QED
    BY <1>1, <2>2, <2>4, <2>5, CheckpointTyped, SMTT(60) DEF CheckpointInv
<1>5. ASSUME Damages, UNCHANGED <<root, files, content>> PROVE CheckpointInv' /\ cp' \in Checkpoint
  <2>1. /\ cp' \in Checkpoint /\ cp'.state = "damaged" /\ cp'.segment = cp.segment
        /\ cp'.offset = cp.offset /\ cp'.last = cp.last
    BY <1>1, <1>5 DEF Damages, Checkpoint
  <2>2. root.present
    BY <1>1, <1>5 DEF CheckpointInv, Damages
  <2>3. \A i \in files' : \A k \in 1..Len(content'[i]) :
            content'[i][k].kind = "rec" => Passed(cp', i, k) \/ content'[i][k].seq > cp'.last
    BY <1>1, <1>5, <2>1 DEF CheckpointInv, Passed
  <2> QED
    BY <1>1, <2>1, <2>2, <2>3 DEF CheckpointInv
<1> QED
  BY <1>1, <1>2, <1>3, <1>4, <1>5, CheckpointSteps


-----------------------------------------------------------------------------
(* The remaining types. *)

LEMMA CursorTypes ==
    ASSUME JournalInv, [Next]_vars
    PROVE  cursor' \in CursorRecord
<1>1. cursor \in CursorRecord /\ cp' \in Checkpoint
  BY NextCheckpoint DEF JournalInv, TypeOK, CursorRecord
<1>2. CASE cursor' = cursor \/ cursor' = NoCursor \/ cursor' = CursorOf(cp') \/ cursor' = CursorOf(cp)
  BY <1>1, <1>2, CheckpointTyped, SMTT(60) DEF JournalInv, TypeOK
<1>3. CASE create_segment \/ create_segment_failed \/ preserve_write \/ preserve_write_failed
           \/ append_record \/ append_record_failed \/ preserve_reuse
           \/ preserve_allocate \/ preserve_refused \/ append_needs_segment \/ append_allocate
           \/ zj_store_reclaim_step \/ zj_state_open \/ zj_state_open_failed
           \/ zj_state_enable_add \/ zj_state_enable_add_failed \/ append_to_writer
           \/ replay_commit_failed \/ DamageCheckpoint
           \/ zj_store_peek \/ zj_store_reclaim_failed \/ UNCHANGED vars
  BY <1>2, <1>3, Zenon DEF create_segment, create_segment_failed, preserve_write, preserve_write_failed,
     append_record, append_record_failed, preserve_reuse, zj_store_reclaim_step,
     preserve_allocate, preserve_refused, append_needs_segment, append_allocate,
     zj_state_open, zj_state_open_failed, zj_state_enable_add, zj_state_enable_add_failed,
     append_to_writer, replay_commit_failed, DamageCheckpoint,
     zj_store_peek, zj_store_reclaim_failed, vars, ram
<1>4. CASE Crash \/ zj_store_open \/ zj_store_open_failed \/ replay_commit
  BY <1>2, <1>4, Zenon DEF Crash, zj_store_open, zj_store_open_failed, replay_commit
<1>5. ASSUME NEW item \in tokens, \/ AddReceipt(item) \/ zj_store_settle(item)
                                  \/ zj_store_settle_failed(item) \/ DropToken(item)
      PROVE  cursor' \in CursorRecord
  BY <1>2, <1>5 DEF AddReceipt, zj_store_settle, zj_store_settle_failed, DropToken, ram
<1> QED
  BY <1>3, <1>4, <1>5 DEF Next, Recover, AppendSteps, Failure

StoreRecord ==
    [ready : BOOLEAN, writer : 0..SequenceMax, segments : SUBSET Ids, metadata : SUBSET Ids]

(* How the fields of a store record change. *)
LEMMA StoreFields ==
    ASSUME NEW s \in StoreRecord, NEW b \in BOOLEAN, NEW n \in 0..SequenceMax,
           NEW S \in SUBSET Ids, NEW M \in SUBSET Ids
    PROVE  /\ [s EXCEPT !.ready = b] \in StoreRecord
           /\ [s EXCEPT !.writer = n] \in StoreRecord
           /\ [s EXCEPT !.segments = S] \in StoreRecord
           /\ [s EXCEPT !.segments = S, !.ready = b] \in StoreRecord
           /\ [s EXCEPT !.writer = n, !.ready = b] \in StoreRecord
           /\ [s EXCEPT !.segments = S, !.metadata = M, !.writer = n] \in StoreRecord
BY ZenonT(60) DEF StoreRecord

LEMMA StoreTypes ==
    ASSUME JournalInv, [Next]_vars
    PROVE  store' \in StoreRecord
<1>1. /\ store \in StoreRecord /\ store.segments \in SUBSET Ids /\ store.metadata \in SUBSET Ids
      /\ files \in SUBSET Ids /\ 0 \in 0..SequenceMax /\ store.writer \in 0..SequenceMax
      /\ TRUE \in BOOLEAN /\ FALSE \in BOOLEAN
  BY JournalAssumption, SMT DEF JournalInv, TypeOK, StoreRecord
<1>2. alloc # 0 => alloc \in Ids /\ alloc \in 0..SequenceMax
  BY JournalAssumption, SMT DEF JournalInv, TypeOK, Ids
<1>3. NoStore \in StoreRecord
  BY <1>1 DEF NoStore, StoreRecord
<1>4. \A b \in BOOLEAN : Scanned(b) \in StoreRecord
  BY <1>1 DEF Scanned, StoreRecord
<1>5. CASE store' = store
  BY <1>1, <1>5, SMTT(60)
<1>6. CASE create_segment
  <2>1. alloc # 0
    BY <1>6 DEF create_segment, JournalInv, OpenInv
  <2>2. store.segments \cup {alloc} \in SUBSET Ids /\ store.metadata \cup {alloc} \in SUBSET Ids
    BY <1>1, <1>2, <2>1
  <2>3. store' = [store EXCEPT !.segments = store.segments \cup {alloc},
                               !.metadata = store.metadata \cup {alloc}, !.writer = alloc]
    BY <1>6 DEF create_segment
  <2> QED
    BY <1>1, <1>2, <2>1, <2>2, <2>3, StoreFields, Zenon
<1>7. CASE create_segment_failed
  <2>1. alloc # 0
    BY <1>7, Zenon DEF create_segment_failed, JournalInv, OpenInv
  <2>2. store.segments \cup {alloc} \in SUBSET Ids
    BY <1>1, <1>2, <2>1, SMTT(60)
  <2>3. store' = store \/ \E b \in BOOLEAN : store' = [store EXCEPT !.segments = store.segments \cup {alloc}, !.ready = b]
    BY <1>7, ZenonT(60) DEF create_segment_failed
  <2>4. \A b \in BOOLEAN : [store EXCEPT !.segments = store.segments \cup {alloc}, !.ready = b] \in StoreRecord
    BY <1>1, <2>2, StoreFields, ZenonT(60)
  <2> QED
    BY <1>1, <2>3, <2>4, ZenonT(60)
<1>8. CASE preserve_write
  <2>1. alloc # 0
    BY <1>8 DEF preserve_write, JournalInv, OpenInv
  <2>2. store.segments \cup {alloc} \in SUBSET Ids
    BY <1>1, <1>2, <2>1, SMTT(60)
  <2>3. store' = [store EXCEPT !.segments = store.segments \cup {alloc}]
    BY <1>8 DEF preserve_write
  <2> QED
    BY <1>1, <2>2, <2>3, StoreFields, Zenon
<1>9. CASE append_record_failed
  <2>1. store' = store \/ \E b \in BOOLEAN : store' = [store EXCEPT !.writer = 0, !.ready = b]
    BY <1>9, ZenonT(60) DEF append_record_failed
  <2>2. \A b \in BOOLEAN : [store EXCEPT !.writer = 0, !.ready = b] \in StoreRecord
    BY <1>1, StoreFields, ZenonT(60)
  <2> QED
    BY <1>1, <2>1, <2>2, ZenonT(60)
<1>10. CASE zj_store_reclaim_step
  <2>1. PICK i \in Reclaimable :
           store' = [store EXCEPT !.segments = store.segments \ {i}, !.metadata = store.metadata \ {i},
                                  !.writer = IF store.writer = i THEN 0 ELSE store.writer]
    BY <1>10, Zenon DEF zj_store_reclaim_step
  <2>2. /\ store.segments \ {i} \in SUBSET Ids /\ store.metadata \ {i} \in SUBSET Ids
        /\ (IF store.writer = i THEN 0 ELSE store.writer) \in 0..SequenceMax
    BY <1>1, SMTT(60)
  <2> QED
    BY <1>1, <2>1, <2>2, StoreFields, ZenonT(60)
<1>11. CASE zj_store_reclaim_failed
  <2>1. PICK i \in Reclaimable :
           store' = [store EXCEPT !.writer = IF store.writer = i THEN 0 ELSE store.writer]
    BY <1>11 DEF zj_store_reclaim_failed
  <2>2. (IF store.writer = i THEN 0 ELSE store.writer) \in 0..SequenceMax
    BY <1>1, SMTT(60)
  <2> QED
    BY <1>1, <2>1, <2>2, StoreFields, Zenon
<1>12. CASE append_needs_segment
  BY <1>1, <1>12, StoreFields, ZenonT(60) DEF append_needs_segment
<1>13. CASE zj_state_open \/ zj_state_open_failed \/ replay_commit
  BY <1>1, <1>13, StoreFields, ZenonT(60) DEF zj_state_open, zj_state_open_failed, replay_commit
<1>14. CASE zj_store_open \/ zj_store_open_failed \/ Crash
  BY <1>1, <1>3, <1>4, <1>14, Zenon DEF zj_store_open, zj_store_open_failed, Crash
<1>15. CASE preserve_write_failed \/ append_record \/ preserve_reuse
           \/ preserve_allocate \/ preserve_refused \/ append_allocate
           \/ zj_state_enable_add \/ zj_state_enable_add_failed \/ append_to_writer
           \/ replay_commit_failed \/ DamageCheckpoint \/ zj_store_peek \/ UNCHANGED vars
  BY <1>5, <1>15, ZenonT(60) DEF preserve_write_failed, append_record, preserve_reuse,
     preserve_allocate, preserve_refused, append_allocate,
     zj_state_enable_add, zj_state_enable_add_failed, append_to_writer,
     replay_commit_failed, DamageCheckpoint, zj_store_peek, vars, ram
<1>16. ASSUME NEW item \in tokens, \/ AddReceipt(item) \/ zj_store_settle(item) \/ DropToken(item)
       PROVE  store' = store
  BY <1>16 DEF AddReceipt, zj_store_settle, DropToken, ram
<1>17. ASSUME NEW item \in tokens, zj_store_settle_failed(item)
       PROVE  store' \in StoreRecord
  BY <1>1, <1>17, StoreFields, ZenonT(60) DEF zj_store_settle_failed
<1> QED
  BY <1>5, <1>6, <1>7, <1>8, <1>9, <1>10, <1>11, <1>12, <1>13, <1>14, <1>15, <1>16, <1>17, SMTT(20)
     DEF Next, Recover, AppendSteps, Failure


Steps == {"idle", "opening", "evidence", "preserve", "reset", "header", "allocate", "record"}

LEMMA CallTypes ==
    ASSUME JournalInv, [Next]_vars
    PROVE  pc' \in Steps /\ faults' \in Nat
<1>1. pc \in Steps /\ faults \in Nat
  BY DEF JournalInv, TypeOK, Steps
<1> USE <1>1 DEF Steps, Fault
<1>2. CASE create_segment
  BY <1>2 DEF create_segment
<1>3. CASE create_segment_failed
  <2>1. pc' = "idle" /\ faults' = faults + 1
    BY <1>3, Zenon DEF create_segment_failed
  <2> QED
    BY <2>1, SMT
<1>4. CASE preserve_write
  BY <1>4 DEF preserve_write
<1>5. CASE preserve_write_failed
  BY <1>5, SMT DEF preserve_write_failed
<1>6. CASE append_record
  BY <1>6 DEF append_record
<1>7. CASE append_record_failed
  <2>1. pc' = "idle" /\ faults' = faults + 1
    BY <1>7, Zenon DEF append_record_failed
  <2> QED
    BY <2>1, SMT
<1>8. CASE preserve_reuse
  BY <1>8 DEF preserve_reuse
<1>9. CASE preserve_allocate
  BY <1>9 DEF preserve_allocate
<1>10. CASE preserve_refused
  BY <1>10, SMT DEF preserve_refused, zj_sequence_refused
<1>11. CASE append_needs_segment
  BY <1>11, SMT DEF append_needs_segment, zj_sequence_refused
<1>12. CASE append_allocate
  BY <1>12, SMT DEF append_allocate, zj_sequence_refused
<1>13. CASE zj_store_reclaim_step
  BY <1>13 DEF zj_store_reclaim_step
<1>14. CASE zj_state_open
  BY <1>14 DEF zj_state_open
<1>15. CASE zj_state_open_failed
  BY <1>15, SMT DEF zj_state_open_failed
<1>16. CASE zj_state_enable_add
  BY <1>16 DEF zj_state_enable_add
<1>17. CASE zj_state_enable_add_failed
  BY <1>17, SMT DEF zj_state_enable_add_failed
<1>18. CASE append_to_writer
  BY <1>18 DEF append_to_writer
<1>19. CASE replay_commit_failed
  BY <1>19, SMT DEF replay_commit_failed
<1>20. CASE DamageCheckpoint
  BY <1>20, SMT DEF DamageCheckpoint
<1>21. CASE zj_store_peek
  BY <1>21 DEF zj_store_peek
<1>22. CASE zj_store_reclaim_failed
  BY <1>22, SMT DEF zj_store_reclaim_failed
<1>23. CASE Crash
  BY <1>23, SMT DEF Crash
<1>24. CASE zj_store_open
  BY <1>24, Zenon DEF zj_store_open
<1>25. CASE zj_store_open_failed
  BY <1>25, SMT DEF zj_store_open_failed
<1>26. CASE replay_commit
  BY <1>26 DEF replay_commit
<1>27. CASE UNCHANGED vars
  BY <1>27 DEF vars
<1>28. ASSUME NEW item \in tokens, \/ AddReceipt(item) \/ zj_store_settle(item)
                                  \/ zj_store_settle_failed(item) \/ DropToken(item)
      PROVE  pc' \in Steps /\ faults' \in Nat
  BY <1>28, SMT DEF AddReceipt, zj_store_settle, zj_store_settle_failed, DropToken
<1> QED
  BY SMTT(60), <1>2, <1>3, <1>4, <1>5, <1>6, <1>7, <1>8, <1>9, <1>10, <1>11, <1>12, <1>13, 
     <1>14, <1>15, <1>16, <1>17, <1>18, <1>19, <1>20, <1>21, <1>22, <1>23, <1>24, <1>25, 
     <1>26, <1>27, <1>28
     DEF Next, Recover, AppendSteps, Failure

LEMMA TokenTypes ==
    ASSUME JournalInv, [Next]_vars
    PROVE  tokens' \subseteq ItemRecord /\ custody' \subseteq ItemRecord /\ acked' \subseteq Ids
<1>1. tokens \subseteq ItemRecord /\ custody \subseteq ItemRecord /\ acked \subseteq Ids
  BY SMTT(60) DEF JournalInv, TypeOK
<1> USE <1>1 DEF history
<1>2. CASE create_segment \/ create_segment_failed \/ preserve_write \/ preserve_write_failed
           \/ append_record_failed \/ preserve_reuse
  BY <1>2, Zenon DEF create_segment, create_segment_failed, preserve_write, preserve_write_failed,
     append_record_failed, preserve_reuse
<1>3. CASE append_record
  <2>1. alloc \in Ids
    BY <1>3, JournalAssumption DEF append_record, JournalInv, OpenInv, TypeOK, Ids
  <2> QED
    BY <1>3, <2>1, SMTT(60) DEF append_record
<1>4. CASE preserve_allocate \/ preserve_refused \/ append_needs_segment \/ append_allocate
  BY <1>4, SMTT(60) DEF preserve_allocate, preserve_refused, append_needs_segment, append_allocate
<1>5. CASE zj_store_reclaim_step \/ zj_state_open \/ zj_state_open_failed
           \/ zj_state_enable_add \/ zj_state_enable_add_failed \/ append_to_writer
           \/ replay_commit_failed \/ DamageCheckpoint
           \/ zj_store_reclaim_failed \/ UNCHANGED vars
  BY <1>5, Zenon DEF zj_store_reclaim_step,
     zj_state_open, zj_state_open_failed, zj_state_enable_add, zj_state_enable_add_failed,
     append_to_writer, replay_commit_failed, DamageCheckpoint, zj_store_reclaim_failed, vars
<1>6. CASE zj_store_peek
  <2>1. store.ready
    BY <1>6, SMTT(60) DEF zj_store_peek, Usable
  <2>2. ReadHead \subseteq ItemRecord
    BY <2>1, HeadItem, Zenon
  <2> QED
    BY <1>6, <2>2 DEF zj_store_peek
<1>7. CASE Crash \/ zj_store_open \/ zj_store_open_failed \/ replay_commit
  BY <1>7, Zenon DEF Crash, zj_store_open, zj_store_open_failed, replay_commit
<1>8. ASSUME NEW item \in tokens, \/ AddReceipt(item) \/ zj_store_settle(item)
                                  \/ zj_store_settle_failed(item) \/ DropToken(item)
      PROVE  tokens' \subseteq ItemRecord /\ custody' \subseteq ItemRecord /\ acked' \subseteq Ids
  BY <1>8 DEF AddReceipt, zj_store_settle, zj_store_settle_failed, DropToken
<1> QED
  BY <1>2, <1>3, <1>4, <1>5, <1>6, <1>7, <1>8 DEF Next, Recover, AppendSteps, Failure

LEMMA NextTypes ==
    ASSUME JournalInv, [Next]_vars
    PROVE  TypeOK' /\ AllocatorInv' /\ Bounds'
<1>1. AllocatorInv' /\ Bounds'
  BY NextAllocator, NextBounds DEF JournalInv
<1>2. /\ root' \in [present : BOOLEAN, limit : 0..(SequenceMax + 1), add : BOOLEAN]
      /\ state' \in [ready : BOOLEAN, limit : 0..(SequenceMax + 1), add : BOOLEAN]
      /\ seq' \in [ready : BOOLEAN, next : 0..(SequenceMax + 1), limit : 0..(SequenceMax + 1)]
  <2> DEFINE N == 0..(SequenceMax + 1)
  <2>1. AllocatorTypes'
    BY <1>1 DEF AllocatorInv
  <2>2. root'.limit \in N /\ state'.limit \in N /\ seq'.next \in N /\ seq'.limit \in N
    BY <1>1, <2>1, JournalAssumption, SMT DEF Bounds, AllocatorTypes
  <2> HIDE DEF N
  <2>3. /\ root' \in [present : BOOLEAN, limit : N, add : BOOLEAN]
        /\ state' \in [ready : BOOLEAN, limit : N, add : BOOLEAN]
        /\ seq' \in [ready : BOOLEAN, next : N, limit : N]
    BY <2>1, <2>2 DEF AllocatorTypes
  <2> QED
    BY <2>3 DEF N
<1>3. alloc' \in 0..SequenceMax /\ issued' \subseteq Ids
  BY <1>1 DEF Bounds
<1> QED
  BY <1>1, <1>2, <1>3, FlashTypes, NextCheckpoint, CursorTypes, StoreTypes, CallTypes, TokenTypes
     DEF TypeOK, CursorRecord, StoreRecord, Steps

-----------------------------------------------------------------------------
(* The RAM structures. *)

(* A store that was closed, by an error or a power loss, promises nothing. *)
LEMMA ClosedStore ==
    ASSUME ~store'.ready, pc' \in {"idle", "opening"}
    PROVE  OpenInv'
BY DEF OpenInv, Replaying

(* A call that ends and leaves flash and inventory as they are. *)
LEMMA QuietStore ==
    ASSUME JournalInv, UNCHANGED <<files, content, cursor>>, pc' = "idle",
           cp'.revision = cp.revision, cp'.segment = cp.segment, cp'.offset = cp.offset,
           cp'.last = cp.last,
           store'.ready = store.ready, store'.segments = store.segments,
           store'.metadata = store.metadata, store'.writer \in {store.writer, 0}
    PROVE  OpenInv'
<1>1. OpenInv
  BY DEF JournalInv
<1>2. CursorOf(cp') = CursorOf(cp)
  BY DEF CursorOf
<1>3. store'.ready => cursor' = CursorOf(cp')
  BY <1>1, <1>2 DEF OpenInv
<1>4. store'.ready => /\ store'.segments = files' /\ store'.metadata \subseteq files'
                      /\ \A i \in store'.metadata : HeaderOnFlash(i)'
  BY <1>1 DEF OpenInv, HeaderOnFlash
<1>5. store'.ready /\ store'.writer # 0 =>
          /\ store'.writer \in files' /\ HeaderOnFlash(store.writer)'
          /\ \A i \in files' : i <= store'.writer
          /\ cp'.segment < store'.writer
             \/ (cp'.segment = store'.writer /\ cp'.offset <= Len(content'[store'.writer]))
  BY <1>1 DEF OpenInv, HeaderOnFlash
<1> QED
  BY <1>3, <1>4, <1>5 DEF OpenInv, Replaying, CursorOf

(* A sequence just handed out is above everything on flash. *)
LEMMA FreshSequence ==
    ASSUME JournalInv, zj_sequence_next, UNCHANGED <<cp, files, content>>
    PROVE  alloc' # 0 /\ alloc' \in issued' /\ Precedes(alloc)'
<1>1. alloc' = seq.next /\ alloc' # 0 /\ issued' = issued \cup {alloc'} /\ seq.ready
  BY SequenceBounds DEF JournalInv, zj_sequence_next
<1>2. seq.next \in Nat /\ \A n \in issued : n < seq.next
  BY <1>1 DEF JournalInv, AllocatorInv, AllocatorTypes
<1>3. seq.next > 0
  BY <1>1, <1>2, SMT
<1>4. cp.segment < seq.next /\ cp.last < seq.next
  BY <1>2, <1>3 DEF JournalInv, CheckpointInv
<1>5. \A i \in files : i < seq.next
  BY <1>2 DEF JournalInv, FlashInv
<1>6. \A i \in files : \A k \in 1..Len(content[i]) : content[i][k].seq < seq.next
  BY <1>2, <1>3 DEF JournalInv, FlashInv
<1> QED
  BY <1>1, <1>4, <1>5, <1>6 DEF Precedes

LEMMA OpenCreate ==
    ASSUME JournalInv, create_segment
    PROVE  OpenInv'
<1>1. /\ OpenInv /\ TypeOK /\ NewFile /\ alloc # 0 /\ alloc \in Ids /\ Precedes(alloc)
      /\ store.ready /\ pc' = "allocate" /\ store \in StoreRecord
      /\ UNCHANGED <<cp, cursor>>
      /\ content' = [content EXCEPT ![alloc] = <<Cell("head", 0, NoCheckpoint, TRUE)>>]
  BY CreatesFile, NewFileRecords, SMTT(60) DEF JournalInv, OpenInv, create_segment, StoreRecord, TypeOK
<1>2. /\ store'.ready /\ store'.segments = store.segments \cup {alloc}
      /\ store'.metadata = store.metadata \cup {alloc} /\ store'.writer = alloc
      /\ files' = files \cup {alloc}
  BY <1>1 DEF create_segment, StoreRecord
<1>3. /\ alloc \notin files
      /\ \A i \in files : content'[i] = content[i]
  BY <1>1, NewFileRecords
<1>4. content'[alloc] = <<Cell("head", 0, NoCheckpoint, TRUE)>>
  BY <1>1, Zenon DEF TypeOK
<1>5. HeaderOnFlash(alloc)'
  <2>1. alloc' = alloc
    BY DEF create_segment
  <2>2. content'[alloc] # <<>> /\ content'[alloc][1].kind = "head"
    BY <1>4, SMTT(20) DEF Cell
  <2> QED
    BY <2>1, <2>2 DEF HeaderOnFlash
<1>6. store.segments = files /\ store.metadata \subseteq files /\ \A i \in store.metadata : HeaderOnFlash(i)
  BY <1>1 DEF OpenInv
<1>7. \A i \in store'.metadata : HeaderOnFlash(i)'
  <2>1. alloc' = alloc
    BY DEF create_segment
  <2> QED
    BY <1>2, <1>3, <1>5, <1>6, <2>1 DEF HeaderOnFlash
<1>8. \A i \in files' : i <= alloc
  BY <1>1, <1>2, SMT DEF Precedes, TypeOK, Ids
<1>9. cp'.segment < alloc
  BY <1>1 DEF Precedes
<1>10. cursor' = CursorOf(cp)'
  BY <1>1 DEF OpenInv, CursorOf
<1>11. HeaderOnFlash(store.writer)'
  BY <1>2, <1>7, SMTT(60)
<1> QED
  BY <1>1, <1>2, <1>6, <1>7, <1>8, <1>9, <1>10, <1>11 DEF OpenInv, Replaying

LEMMA OpenCreateFailed ==
    ASSUME JournalInv, create_segment_failed
    PROVE  OpenInv'
<1>1. /\ OpenInv /\ TypeOK /\ store.ready /\ store.writer = 0 /\ pc' = "idle"
      /\ UNCHANGED <<cp, cursor>> /\ store \in StoreRecord
  BY Zenon DEF JournalInv, OpenInv, create_segment_failed, StoreRecord, TypeOK
<1>2. CASE UNCHANGED <<files, content, store>>
  BY <1>1, <1>2, QuietStore, Zenon
<1>3. CASE files' = files \cup {alloc} /\ ~UNCHANGED <<files, content, store>>
  <2>1. PICK b \in BOOLEAN : store' = [store EXCEPT !.segments = @ \cup {alloc}, !.ready = b]
    BY <1>3, Zenon DEF create_segment_failed
  <2>2. /\ store'.segments = store.segments \cup {alloc} /\ store'.metadata = store.metadata
        /\ store'.writer = 0
    BY <1>1, <2>1 DEF StoreRecord
  <2>3. CASE ~store'.ready
    BY <1>1, <2>3, ClosedStore
  <2>4. NewFile
    <3>1. pc = "header"
      BY Zenon DEF create_segment_failed
    <3>2. Untouched \/ NewFile
      BY <1>1, CreateFails
    <3>3. alloc \notin files
      BY <1>1, <3>1, SMT DEF OpenInv, Precedes, TypeOK, Ids
    <3> QED
      BY <1>3, <3>2, <3>3, SMTT(60) DEF Untouched
  <2>5. \A i \in files : content'[i] = content[i]
    BY <2>4, NewFileRecords
  <2>6. store.segments = files /\ store.metadata \subseteq files /\ \A i \in store.metadata : HeaderOnFlash(i)
    BY <1>1 DEF OpenInv
  <2>7. \A i \in store'.metadata : HeaderOnFlash(i)'
    BY <2>2, <2>5, <2>6 DEF HeaderOnFlash
  <2>8. cursor' = CursorOf(cp)'
    BY <1>1 DEF OpenInv, CursorOf
  <2>9. store'.segments = files' /\ store'.metadata \subseteq files'
    BY <1>3, <2>2, <2>6
  <2> QED
    BY <1>1, <2>2, <2>7, <2>8, <2>9 DEF OpenInv, Replaying
<1> QED
  BY <1>2, <1>3, ZenonT(60) DEF create_segment_failed

LEMMA OpenRecord ==
    ASSUME JournalInv, append_record \/ append_record_failed
    PROVE  OpenInv'
<1>1. /\ OpenInv /\ TypeOK /\ store \in StoreRecord /\ pc = "record" /\ pc' = "idle"
      /\ store.ready /\ store.writer # 0 /\ UNCHANGED <<cp, cursor, files>>
  BY ZenonT(60) DEF JournalInv, OpenInv, append_record, append_record_failed, StoreRecord, TypeOK, ram
<1>2. /\ store'.segments = store.segments /\ store'.metadata = store.metadata
      /\ store'.writer \in {store.writer, 0}
  <2>1. CASE store' = store
    BY <2>1
  <2>2. CASE \E b \in BOOLEAN : store' = [store EXCEPT !.writer = 0, !.ready = b]
    BY <1>1, <2>2 DEF StoreRecord
  <2> QED
    BY <2>1, <2>2, Zenon DEF append_record, append_record_failed, ram
<1>3. CASE ~store'.ready
  BY <1>1, <1>3, ClosedStore
<1>4. CASE store'.ready /\ Untouched
  <2>1. store'.ready = store.ready
    <3>1. CASE store' = store
      BY <3>1
    <3>2. CASE \E b \in BOOLEAN : store' = [store EXCEPT !.writer = 0, !.ready = b]
      BY <1>1, <1>4, <3>2 DEF StoreRecord
    <3> QED
      BY <3>1, <3>2, Zenon DEF append_record, append_record_failed, ram
  <2> QED
    BY <1>1, <1>2, <1>4, <2>1, QuietStore, SMTT(60) DEF Untouched
<1>5. CASE store'.ready /\ NewCell
  <2> DEFINE w == store.writer
             n == Len(content[w]) + 1
  <2>1. /\ w \in files /\ n \in Nat /\ n > 1
        /\ content[w][1].kind = "head" /\ content'[w][1] = content[w][1]
        /\ \A i \in files : i <= w /\ (i # w => content'[i] = content[i])
        /\ Len(content'[w]) = n
    BY <1>5, NewCellRecords, SMTT(20)
  <2>2. Len(content[w]) <= n /\ Len(content[w]) \in Nat
    BY <1>1, <2>1, SMT DEF TypeOK
  <2> HIDE DEF n
  <2>3. content'[w] # <<>>
    BY <2>1, SMT
  <2>4. \A i \in files : HeaderOnFlash(i) => HeaderOnFlash(i)'
    BY <2>1, <2>3 DEF HeaderOnFlash
  <2>5. /\ store.segments = files /\ store.metadata \subseteq files
        /\ \A i \in store.metadata : HeaderOnFlash(i)
        /\ HeaderOnFlash(w)
        /\ cp.segment < w \/ (cp.segment = w /\ cp.offset <= Len(content[w]))
    BY <1>1 DEF OpenInv
  <2>6. cp'.segment < w \/ (cp'.segment = w /\ cp'.offset <= Len(content'[w]))
    BY <1>1, <2>1, <2>2, <2>5, SMTT(20) DEF TypeOK, Checkpoint
  <2>7. cursor' = CursorOf(cp)'
    BY <1>1 DEF OpenInv, CursorOf
  <2>8. store'.writer # 0 => HeaderOnFlash(store.writer)'
    BY <1>2, <2>1, <2>4, <2>5 DEF HeaderOnFlash
  <2>9. \A i \in store'.metadata : HeaderOnFlash(i)'
    BY <1>2, <2>4, <2>5
  <2> QED
    BY <1>1, <1>2, <2>1, <2>5, <2>6, <2>7, <2>8, <2>9 DEF OpenInv, Replaying
<1> QED
  BY <1>1, <1>3, <1>4, <1>5, RecordsCell, RecordFails, SMTT(60)

LEMMA OpenPreserve ==
    ASSUME JournalInv, preserve_reuse \/ preserve_write
    PROVE  OpenInv'
<1>1. /\ OpenInv /\ TypeOK /\ store \in StoreRecord /\ pc \in Replaying /\ pc' = "reset"
      /\ ~store.ready /\ store.writer = 0 /\ UNCHANGED <<cp, alloc>>
      /\ cp.state # "absent"
      /\ store.segments = files /\ store.metadata \subseteq files
      /\ \A i \in store.metadata : HeaderOnFlash(i)
  BY DEF JournalInv, OpenInv, preserve_reuse, preserve_write, StoreRecord, TypeOK, ram, Replaying
<1>2. Evidence' = Evidence
  BY <1>1 DEF Evidence, Cell
<1>3. /\ ~store'.ready /\ store'.writer = 0 /\ store'.segments = files'
      /\ store'.metadata = store.metadata
  BY <1>1 DEF preserve_reuse, preserve_write, StoreRecord, ram
<1>4. /\ \A i \in store.metadata : content'[i] = content[i] /\ i \in files'
      /\ \E i \in files' : content'[i] = <<Evidence>>
  <2>1. CASE preserve_reuse
    <3>1. PICK j \in Reusable : content' = [content EXCEPT ![j] = <<Evidence>>]
      BY <2>1, Zenon DEF preserve_reuse
    <3>2. j \in files /\ content[j][1].kind = "evid" /\ files' = files
      BY <1>1, <2>1, <3>1 DEF Reusable, Lowest, IsEvidence, preserve_reuse
    <3>3. j \notin store.metadata
      BY <1>1, <3>2 DEF HeaderOnFlash
    <3> QED
      BY <1>1, <3>1, <3>2, <3>3, Zenon DEF TypeOK
  <2>2. CASE preserve_write
    <3>1. NewFile /\ files' = files \cup {alloc} /\ content' = [content EXCEPT ![alloc] = <<Evidence>>]
      BY <1>1, <2>2, PreservesFile
    <3>2. alloc \in Ids /\ \A i \in files : content'[i] = content[i]
      BY <3>1, NewFileRecords
    <3> QED
      BY <1>1, <3>1, <3>2 DEF TypeOK
  <2> QED
    BY <2>1, <2>2
<1>5. \A i \in store'.metadata : HeaderOnFlash(i)'
  BY <1>1, <1>3, <1>4 DEF HeaderOnFlash
<1>6. \E i \in files' : content'[i] = <<Evidence>>'
  BY <1>2, <1>4
<1>7. cp'.state # "absent" /\ store'.metadata \subseteq files'
  BY <1>1, <1>3, <1>4
<1> QED
  BY <1>1, <1>3, <1>5, <1>6, <1>7 DEF OpenInv, Replaying

LEMMA OpenAllocate ==
    ASSUME JournalInv, preserve_allocate \/ append_needs_segment \/ append_allocate
    PROVE  OpenInv'
<1>1. /\ OpenInv /\ store \in StoreRecord /\ UNCHANGED <<cp, files, content, cursor>>
  BY DEF JournalInv, preserve_allocate, append_needs_segment, append_allocate, StoreRecord, TypeOK
<1>2. CursorOf(cp)' = CursorOf(cp) /\ \A i : HeaderOnFlash(i)' = HeaderOnFlash(i)
  BY <1>1 DEF CursorOf, HeaderOnFlash
<1>3. zj_sequence_next => alloc' # 0 /\ alloc' \in issued' /\ Precedes(alloc)'
  BY <1>1, FreshSequence
<1>4. CASE preserve_allocate
  <2>1. /\ pc = "evidence" /\ pc' = "preserve" /\ store' = store /\ zj_sequence_next
    BY <1>4 DEF preserve_allocate
  <2> QED
    BY <1>1, <1>2, <1>3, <2>1 DEF OpenInv, Replaying
<1>5. CASE append_needs_segment
  <2>1. /\ pc = "idle" /\ store.ready
        /\ (pc' = "header" /\ zj_sequence_next) \/ pc' = "idle"
        /\ store' = [store EXCEPT !.writer = 0]
    BY <1>5 DEF append_needs_segment, Usable
  <2>2. /\ store'.ready /\ store'.segments = store.segments /\ store'.metadata = store.metadata
        /\ store'.writer = 0
    BY <1>1, <2>1 DEF StoreRecord
  <2> QED
    BY <1>1, <1>2, <1>3, <2>1, <2>2 DEF OpenInv, Replaying
<1>6. CASE append_allocate
  <2>1. /\ pc = "allocate" /\ store' = store
        /\ (pc' = "record" /\ zj_sequence_next) \/ pc' = "idle"
    BY <1>6 DEF append_allocate
  <2>2. store.writer # 0 => HeaderOnFlash(store.writer)' = HeaderOnFlash(store.writer)
    BY <1>1, <2>1 DEF HeaderOnFlash
  <2> QED
    BY <1>1, <1>2, <1>3, <2>1, <2>2 DEF OpenInv, Replaying
<1> QED
  BY <1>4, <1>5, <1>6

LEMMA OpenSettle ==
    ASSUME JournalInv, NEW item \in tokens, zj_store_settle(item)
    PROVE  OpenInv'
<1>1. /\ OpenInv /\ TypeOK /\ Usable /\ UNCHANGED <<files, content, store, pc>>
      /\ pc = "idle" /\ store.ready
  BY DEF JournalInv, zj_store_settle, Usable
<1>2. CASE item \notin ReadHead
  BY <1>1, <1>2, QuietStore DEF zj_store_settle
<1>3. CASE item \in ReadHead
  <2> DEFINE c == Settled(item)
  <2>1. /\ c \in Checkpoint /\ c.segment \in files /\ c.offset \in 1..Len(content[c.segment])
        /\ c.segment \in Ids
    BY <1>1, <1>3, SettledHead
  <2>2. cp' = c /\ cursor' = CursorOf(cp')
    BY <1>3 DEF zj_store_settle
  <2> HIDE DEF c
  <2>3. \A i : HeaderOnFlash(i)' = HeaderOnFlash(i)
    BY <1>1 DEF HeaderOnFlash
  <2>4. cursor' = CursorOf(cp)'
    BY <2>2 DEF CursorOf
  <2>5. store.writer # 0 =>
            /\ store.writer \in files /\ HeaderOnFlash(store.writer)
            /\ \A i \in files : i <= store.writer
    BY <1>1 DEF OpenInv
  <2>6. store.writer # 0 => cp'.segment < store.writer
             \/ (cp'.segment = store.writer /\ cp'.offset <= Len(content[store.writer]))
    <3>1. c.offset <= Len(content[c.segment])
      BY <1>1, <2>1, SMT DEF TypeOK
    <3>2. store.writer \in Nat /\ c.segment \in Nat
      BY <1>1, <2>1, SMT DEF TypeOK, Ids
    <3> QED
      BY <2>1, <2>2, <2>5, <3>1, <3>2, SMT
  <2>7. HeaderOnFlash(store.writer)' = HeaderOnFlash(store.writer)
    BY <1>1 DEF HeaderOnFlash
  <2>8. /\ store.segments = files /\ store.metadata \subseteq files
        /\ \A i \in store.metadata : HeaderOnFlash(i)
    BY <1>1 DEF OpenInv
  <2> QED
    BY <1>1, <2>3, <2>4, <2>5, <2>6, <2>7, <2>8 DEF OpenInv, Replaying
<1> QED
  BY <1>2, <1>3

LEMMA OpenReclaim ==
    ASSUME JournalInv, zj_store_reclaim_step
    PROVE  OpenInv'
<1>1. /\ OpenInv /\ TypeOK /\ Usable /\ UNCHANGED <<cp, cursor, pc>> /\ pc = "idle" /\ store.ready
      /\ store \in StoreRecord
  BY SMTT(60) DEF JournalInv, zj_store_reclaim_step, Usable, TypeOK, StoreRecord
<1>2. PICK j \in Reclaimable :
        /\ files' = files \ {j}
        /\ content' = [content EXCEPT ![j] = <<>>]
        /\ store' = [store EXCEPT !.segments = @ \ {j}, !.metadata = @ \ {j},
                                  !.writer = IF @ = j THEN 0 ELSE @]
  BY Zenon DEF zj_store_reclaim_step
<1>3. /\ store'.ready /\ store'.segments = store.segments \ {j} /\ store'.metadata = store.metadata \ {j}
      /\ store'.writer = IF store.writer = j THEN 0 ELSE store.writer
  BY <1>1, <1>2 DEF StoreRecord
<1>4. /\ store.segments = files /\ store.metadata \subseteq files
      /\ \A i \in store.metadata : HeaderOnFlash(i)
      /\ files \subseteq Ids
  BY <1>1 DEF OpenInv, TypeOK
<1>5. \A i \in files' : content'[i] = content[i]
  BY <1>1, <1>2, <1>4 DEF TypeOK
<1>6. \A i \in store'.metadata : HeaderOnFlash(i)'
  BY <1>2, <1>3, <1>4, <1>5 DEF HeaderOnFlash
<1>7. store'.writer # 0 =>
        /\ store'.writer = store.writer /\ store.writer \in files'
        /\ \A i \in files' : i <= store.writer
        /\ cp.segment < store.writer
           \/ (cp.segment = store.writer /\ cp.offset <= Len(content'[store.writer]))
  BY <1>1, <1>2, <1>3, <1>5 DEF OpenInv
<1>8. store'.writer # 0 => HeaderOnFlash(store.writer)'
  BY <1>1, <1>5, <1>7 DEF OpenInv, HeaderOnFlash
<1>9. cursor' = CursorOf(cp)'
  BY <1>1 DEF OpenInv, CursorOf
<1>10. store'.segments = files' /\ store'.metadata \subseteq files'
  BY <1>2, <1>3, <1>4
<1>11. store'.writer # 0 =>
        /\ store'.writer \in files'
        /\ \A i \in files' : i <= store'.writer
        /\ cp'.segment < store'.writer
           \/ (cp'.segment = store'.writer /\ cp'.offset <= Len(content'[store'.writer]))
  BY <1>1, <1>7
<1> QED
  BY <1>1, <1>3, <1>6, <1>8, <1>9, <1>10, <1>11 DEF OpenInv, Replaying

LEMMA OpenScan ==
    ASSUME JournalInv, zj_store_open
    PROVE  OpenInv'
<1>1. UNCHANGED <<cp, files, content>>
  BY DEF zj_store_open, durable
<1>2. CursorOf(cp)' = CursorOf(cp) /\ \A i : HeaderOnFlash(i)' = HeaderOnFlash(i)
  BY <1>1 DEF CursorOf, HeaderOnFlash
<1>3. CASE ScanRefuses
  BY <1>3, ClosedStore, SMT DEF zj_store_open, NoStore
<1>4. CASE ~ScanRefuses /\ Replay
  <2>1. pc' = "evidence" /\ store' = Scanned(FALSE) /\ cp.state # "absent"
    BY <1>4, Zenon DEF zj_store_open, Replay
  <2>2. /\ ~store'.ready /\ store'.writer = 0 /\ store'.segments = files
        /\ store'.metadata = {i \in files : HeaderOnFlash(i)}
    BY <2>1 DEF Scanned
  <2> QED
    BY <1>1, <1>2, <2>1, <2>2, Zenon DEF OpenInv, Replaying
<1>5. CASE ~ScanRefuses /\ ~Replay
  <2>1. pc' = "idle" /\ store' = Scanned(TRUE) /\ cursor' = CursorOf(cp)
    BY <1>5 DEF zj_store_open
  <2>2. /\ store'.ready /\ store'.writer = 0 /\ store'.segments = files
        /\ store'.metadata = {i \in files : HeaderOnFlash(i)}
    BY <2>1 DEF Scanned
  <2> QED
    BY <1>1, <1>2, <2>1, <2>2, Zenon DEF OpenInv, Replaying
<1> QED
  BY <1>3, <1>4, <1>5

LEMMA OpenReset ==
    ASSUME JournalInv, replay_commit
    PROVE  OpenInv'
<1>1. /\ OpenInv /\ store \in StoreRecord /\ UNCHANGED <<files, content>>
      /\ pc = "reset" /\ pc' = "idle" /\ cp' = ResetCheckpoint /\ cursor' = CursorOf(ResetCheckpoint)
      /\ store' = [store EXCEPT !.ready = TRUE]
  BY DEF JournalInv, replay_commit, StoreRecord, TypeOK
<1>2. /\ store'.segments = store.segments /\ store'.metadata = store.metadata
      /\ store'.writer = store.writer
  BY <1>1 DEF StoreRecord
<1>3. \A i : HeaderOnFlash(i)' = HeaderOnFlash(i)
  BY <1>1 DEF HeaderOnFlash
<1>4. cursor' = CursorOf(cp)'
  BY <1>1 DEF CursorOf
<1> QED
  BY <1>1, <1>2, <1>3, <1>4 DEF OpenInv, Replaying

LEMMA OpenToWriter ==
    ASSUME JournalInv, append_to_writer
    PROVE  OpenInv'
<1>1. /\ OpenInv /\ TypeOK /\ UNCHANGED <<cp, files, content, cursor, store, alloc, issued>>
      /\ store.ready /\ pc = "idle" /\ pc' = "allocate" /\ store.writer \in store.segments
  BY DEF JournalInv, append_to_writer, Usable, durable, ram, history, WriterHasRoom
<1>2. store.writer # 0
  BY <1>1, SMT DEF TypeOK, Ids
<1>3. /\ \A i : HeaderOnFlash(i)' = HeaderOnFlash(i)
      /\ HeaderOnFlash(store.writer)' = HeaderOnFlash(store.writer)
  BY <1>1 DEF HeaderOnFlash
<1>4. CursorOf(cp)' = CursorOf(cp)
  BY <1>1 DEF CursorOf
<1> QED
  BY <1>1, <1>2, <1>3, <1>4 DEF OpenInv, Replaying

LEMMA OpenUnchanged ==
    ASSUME JournalInv, UNCHANGED <<cp, files, content, cursor, store, alloc, issued, pc>>
    PROVE  OpenInv'
<1>1. OpenInv
  BY DEF JournalInv
<1>2. /\ \A i : HeaderOnFlash(i)' = HeaderOnFlash(i)
      /\ HeaderOnFlash(store.writer)' = HeaderOnFlash(store.writer)
  BY DEF HeaderOnFlash
<1>3. CursorOf(cp)' = CursorOf(cp) /\ Evidence' = Evidence /\ Precedes(alloc)' = Precedes(alloc)
  BY DEF CursorOf, Evidence, Cell, Precedes
<1> QED
  BY <1>1, <1>2, <1>3 DEF OpenInv, Replaying

LEMMA NextOpen ==
    ASSUME JournalInv, [Next]_vars
    PROVE  OpenInv'
<1>0. OpenInv /\ store \in StoreRecord /\ cp \in Checkpoint
  BY DEF JournalInv, TypeOK, StoreRecord
<1>1. CASE create_segment \/ create_segment_failed \/ append_record \/ append_record_failed
           \/ preserve_reuse \/ preserve_write \/ preserve_allocate \/ append_needs_segment
           \/ append_allocate \/ zj_store_reclaim_step \/ zj_store_open \/ replay_commit
           \/ append_to_writer
  BY SMTT(60), <1>1, OpenCreate, OpenCreateFailed, OpenRecord, OpenPreserve, OpenAllocate, OpenReclaim,
     OpenScan, OpenReset, OpenToWriter
<1>2. CASE zj_state_open
  BY <1>0, <1>2, ClosedStore DEF zj_state_open, StoreRecord
<1>3. CASE zj_state_open_failed
  BY <1>0, <1>3, ClosedStore DEF zj_state_open_failed, StoreRecord
<1>4. CASE zj_store_open_failed \/ Crash
  <2>1. store' = NoStore /\ pc' = "idle"
    BY <1>4 DEF zj_store_open_failed, Crash
  <2> QED
    BY <2>1, ClosedStore DEF NoStore
<1>5. CASE preserve_refused \/ preserve_write_failed \/ replay_commit_failed
  <2>1. store' = store /\ pc' = "idle" /\ pc \in Replaying
    BY <1>5, Zenon DEF preserve_refused, preserve_write_failed, replay_commit_failed, Replaying, ram
  <2> QED
    BY <1>0, <2>1, ClosedStore DEF OpenInv
<1>6. CASE zj_state_enable_add \/ zj_state_enable_add_failed \/ zj_store_peek \/ UNCHANGED vars
  BY <1>6, OpenUnchanged DEF zj_state_enable_add, zj_state_enable_add_failed, zj_store_peek, vars,
     durable, ram, history
<1>7. CASE zj_store_reclaim_failed
  <2>1. PICK i \in Reclaimable : store' = [store EXCEPT !.writer = IF @ = i THEN 0 ELSE @]
    BY <1>7 DEF zj_store_reclaim_failed
  <2>2. /\ store'.ready = store.ready /\ store'.segments = store.segments
        /\ store'.metadata = store.metadata /\ store'.writer \in {store.writer, 0}
    BY <1>0, <2>1 DEF StoreRecord
  <2>3. UNCHANGED <<files, content, cursor, cp>> /\ pc' = "idle"
    BY <1>7 DEF zj_store_reclaim_failed, durable, Usable
  <2> QED
    BY <2>2, <2>3, QuietStore
<1>8. CASE DamageCheckpoint
  <2>1. /\ cp'.revision = cp.revision /\ cp'.segment = cp.segment /\ cp'.offset = cp.offset
        /\ cp'.last = cp.last
    BY <1>0, <1>8 DEF DamageCheckpoint, Checkpoint
  <2>2. UNCHANGED <<files, content, cursor, store>> /\ pc' = "idle"
    BY <1>8 DEF DamageCheckpoint, ram
  <2> QED
    BY <2>1, <2>2, QuietStore
<1>9. ASSUME NEW item \in tokens, zj_store_settle(item) PROVE OpenInv'
  BY <1>9, OpenSettle
<1>10. ASSUME NEW item \in tokens, zj_store_settle_failed(item) PROVE OpenInv'
  BY <1>0, <1>10, ClosedStore DEF zj_store_settle_failed, StoreRecord, Usable
<1>11. ASSUME NEW item \in tokens, AddReceipt(item) \/ DropToken(item) PROVE OpenInv'
  BY <1>11, OpenUnchanged DEF AddReceipt, DropToken, durable, ram, history
<1> QED
  BY <1>1, <1>2, <1>3, <1>4, <1>5, <1>6, <1>7, <1>8, <1>9, <1>10, <1>11, SMTT(60)
     DEF Next, Recover, AppendSteps, Failure

-----------------------------------------------------------------------------
(* What becomes of acknowledged captures. *)

(* A synced record goes only when reclamation finds it passed. *)
LEMMA SyncedStays ==
    ASSUME JournalInv, [Next]_vars, NEW i \in files, NEW k \in 1..Len(content[i]),
           content[i][k].kind = "rec", content[i][k].synced,
           store.ready => ~Passed(cp, i, k)
    PROVE  i \in files' /\ k \in 1..Len(content'[i]) /\ content'[i][k] = content[i][k]
<1>1. /\ TypeOK /\ OpenInv /\ i \in Ids /\ Len(content[i]) \in Nat /\ k \in Nat
  BY SMTT(60) DEF JournalInv, TypeOK
<1>2. CASE Untouched
  BY <1>2 DEF Untouched
<1>3. CASE NewFile
  BY <1>3, NewFileRecords
<1>4. CASE NewCell
  <2>1. PICK w : w = store.writer
    BY Zenon
  <2>2. PICK n : n = Len(content[w]) + 1
    BY Zenon
  <2>3. /\ w \in files /\ n \in Nat /\ files' = files
        /\ i # w => content'[i] = content[i]
        /\ Len(content'[w]) = n
        /\ \A l \in 1..(n - 1) : content'[w][l] = content[w][l]
    BY <1>4, <2>1, <2>2, NewCellRecords, SMTT(20)
  <2>4. i = w => n - 1 = Len(content[i])
    BY <1>1, <2>2, <2>3, SMT
  <2> QED
    BY <1>1, <2>3, <2>4, SMT
<1>5. CASE Resynced
  <2>1. files' = files /\ (content'[i] = content[i] \/ IsEvidence(i))
    BY <1>5, ResyncedRecords
  <2>2. ~IsEvidence(i)
    BY <1>1, SMTT(20) DEF IsEvidence
  <2> QED
    BY <2>1, <2>2
<1>6. CASE Crash
  BY <1>1, <1>6, CrashShrinks DEF Shrunk
<1>7. CASE zj_store_reclaim_step
  <2>1. PICK j \in Reclaimable : files' = files \ {j} /\ content' = [content EXCEPT ![j] = <<>>]
    BY <1>7, Zenon DEF zj_store_reclaim_step
  <2>2. store.ready /\ cursor = CursorOf(cp) /\ cp \in Checkpoint
    BY <1>1, <1>7 DEF zj_store_reclaim_step, Usable, OpenInv, TypeOK
  <2>3. cursor.segment = cp.segment /\ cursor.offset = cp.offset /\ cp.segment \in Nat /\ cp.offset \in Nat
    BY <2>2 DEF CursorOf, Checkpoint
  <2>4. Empty(j) \/ Retired(j)
    BY <2>1 DEF Reclaimable, Lowest
  <2>5. ~Empty(i)
    <3>1. CASE Len(content[i]) = 0
      BY <1>1, <3>1, SMTT(20)
    <3>2. CASE i \in store.metadata /\ Len(content[i]) = 1
      BY <1>1, <2>2, <3>2, SMT DEF OpenInv, HeaderOnFlash
    <3> QED
      BY <3>1, <3>2 DEF Empty
  <2>6. ~Retired(i)
    BY <1>1, <2>2, <2>3, SMTT(20) DEF Retired, Passed
  <2>7. i # j
    BY <2>4, <2>5, <2>6
  <2> QED
    BY <1>1, <2>1, <2>7 DEF TypeOK
<1> QED
  BY <1>2, <1>3, <1>4, <1>5, <1>6, <1>7, FlashSteps, SMTT(60)

(* A store that becomes ready has read a checkpoint it need not replay.    *)
LEMMA ReadyCheckpoint ==
    ASSUME JournalInv, [Next]_vars, store'.ready, ~store.ready
    PROVE  cp'.state \in {"valid", "absent"}
<1>1. store \in StoreRecord /\ cp \in Checkpoint
  BY DEF JournalInv, TypeOK, StoreRecord
<1>2. CASE zj_store_open
  <2>1. ~Replay
    BY <1>2, SMT DEF zj_store_open, NoStore, Scanned
  <2> QED
    BY <1>1, <1>2, <2>1 DEF zj_store_open, Replay, durable, Checkpoint
<1>3. CASE replay_commit
  BY <1>3, CheckpointTyped DEF replay_commit
<1>4. CASE create_segment
  BY <1>1, <1>4, SMTT(60) DEF create_segment, StoreRecord
<1>5. CASE create_segment_failed \/ append_record_failed
  BY <1>5, Zenon DEF create_segment_failed, append_record_failed, JournalInv, OpenInv
<1>6. CASE preserve_write
  BY <1>1, <1>6, SMTT(60) DEF preserve_write, StoreRecord
<1>7. CASE zj_store_reclaim_step \/ zj_store_reclaim_failed \/ append_needs_segment
  BY <1>7, Zenon DEF zj_store_reclaim_step, zj_store_reclaim_failed, append_needs_segment, Usable
<1>8. CASE zj_state_open \/ zj_state_open_failed
  BY <1>1, <1>8 DEF zj_state_open, zj_state_open_failed, StoreRecord
<1>9. CASE zj_store_open_failed \/ Crash
  BY <1>9, SMT DEF zj_store_open_failed, Crash, NoStore
<1>10. CASE preserve_write_failed \/ append_record \/ preserve_reuse
           \/ preserve_allocate \/ preserve_refused \/ append_allocate
           \/ zj_state_enable_add \/ zj_state_enable_add_failed \/ append_to_writer
           \/ replay_commit_failed \/ DamageCheckpoint \/ zj_store_peek \/ UNCHANGED vars
  BY <1>10, Zenon DEF preserve_write_failed, append_record, preserve_reuse,
     preserve_allocate, preserve_refused, append_allocate,
     zj_state_enable_add, zj_state_enable_add_failed, append_to_writer,
     replay_commit_failed, DamageCheckpoint, zj_store_peek, vars, ram
<1>11. ASSUME NEW item \in tokens, \/ AddReceipt(item) \/ zj_store_settle(item) \/ DropToken(item)
                                   \/ zj_store_settle_failed(item)
       PROVE  FALSE
  BY <1>11 DEF AddReceipt, zj_store_settle, DropToken, zj_store_settle_failed, Usable, ram
<1> QED
  BY <1>2, <1>3, <1>4, <1>5, <1>6, <1>7, <1>8, <1>9, <1>10, <1>11, SMTT(60) DEF Next, Recover, AppendSteps, Failure

(* An old witness survives, or the checkpoint passed it with its receipt.  *)
LEMMA KeptStays ==
    ASSUME JournalInv, [Next]_vars, NEW q, NEW i \in files, NEW k \in 1..Len(content[i]),
           Keeps(q, i, k)
    PROVE  Received(q)' \/ (i \in files' /\ k \in 1..Len(content'[i]) /\ Keeps(q, i, k)')
<1>1. /\ i \in files' /\ k \in 1..Len(content'[i]) /\ content'[i][k] = content[i][k]
  BY SyncedStays DEF Keeps
<1>2. /\ i \in Ids /\ i \in Nat /\ i > 0 /\ cp \in Checkpoint /\ cp.segment \in Nat
      /\ custody \subseteq custody'
  BY JournalAssumption, HistoryGrows, SMTT(20) DEF JournalInv, TypeOK, Ids, Checkpoint
<1>3. SUFFICES ASSUME cp'.state = "valid" \/ store'.ready
               PROVE  Received(q)' \/ ~Passed(cp', i, k)
  BY <1>1 DEF Keeps, Passed
<1>4. CASE cp' = cp
  <2>1. cp.state = "valid" \/ store.ready \/ cp.state = "absent"
    BY <1>3, <1>4, ReadyCheckpoint
  <2>2. CASE cp.state = "absent"
    <3>1. cp' = NoCheckpoint
      BY <1>4, <2>2 DEF JournalInv, CheckpointInv
    <3>2. cp'.segment = 0
      BY <3>1 DEF NoCheckpoint
    <3> QED
      BY <1>2, <3>2, SMT DEF Passed
  <2> QED
    BY <1>4, <2>1, <2>2 DEF Keeps
<1>5. CASE Settles
  <2>1. PICK item \in ReadHead : Usable /\ item \in custody /\ cp' = Settled(item)
    BY <1>5 DEF Settles
  <2> DEFINE c == Settled(item)
  <2>2. (Passed(c, i, k) /\ ~Passed(cp, i, k)) => item.observation /\ item.bytes[2] = content[i][k].seq
    BY <2>1, SettledHead, SMTT(20) DEF Keeps
  <2> HIDE DEF c
  <2>3. cp' = c /\ ~Passed(cp, i, k) /\ content[i][k].seq = q
    BY <2>1 DEF c, Usable, Keeps
  <2> QED
    BY <1>2, <2>1, <2>2, <2>3 DEF Received
<1>6. CASE Resets
  BY <1>2, <1>6, CheckpointTyped, SMT DEF Resets, Passed
<1>7. CASE Damages
  <2>1. cp'.segment = cp.segment /\ cp'.offset = cp.offset /\ cp.state = "valid"
    BY <1>2, <1>7 DEF Damages, Checkpoint
  <2> QED
    BY <2>1 DEF Keeps, Passed
<1> QED
  BY <1>4, <1>5, <1>6, <1>7, CheckpointSteps

(* The record of the capture that append_record acknowledges. *)
LEMMA RecordKept ==
    ASSUME JournalInv, append_record, NEW q, q = alloc, NEW w, w = store.writer,
           NEW n, n = Len(content[w]) + 1
    PROVE  w \in files' /\ n \in 1..Len(content'[w]) /\ Keeps(q, w, n)'
<1> DEFINE c == Cell("rec", alloc, NoCheckpoint, TRUE)
<1>1. /\ TypeOK /\ w \in files /\ w \in Ids /\ cp' = cp /\ files' = files
      /\ cp.segment < w \/ (cp.segment = w /\ cp.offset <= Len(content[w]))
      /\ cp.segment \in Nat /\ cp.offset \in Nat
  BY Zenon DEF JournalInv, TypeOK, OpenInv, append_record, Checkpoint
<1>2. Len(content[w]) \in Nat /\ content[w] \in Seq(CellRecord)
  BY <1>1, SMT DEF TypeOK
<1>3. alloc \in Nat /\ TRUE \in BOOLEAN
  BY <1>1, SMT DEF TypeOK
<1>4. c \in CellRecord /\ c.kind = "rec" /\ c.seq = alloc /\ c.synced
  BY <1>3, RecordTyped, Zenon
<1>5. content'[w] = Append(content[w], c)
  BY <1>1, Zenon DEF append_record, TypeOK
<1> HIDE DEF c
<1>6. n \in 1..Len(content'[w]) /\ content'[w][n] = c
  BY <1>2, <1>4, <1>5, SMT
<1>7. ~Passed(cp, w, n)
  BY <1>1, <1>2, SMT DEF Passed, Ids
<1> QED
  BY <1>1, <1>4, <1>6, <1>7, SMTT(60) DEF Keeps, Passed

(* Only append_record acknowledges, and only ADD commits receipts. *)
LEMMA HistorySteps ==
    ASSUME [Next]_vars
    PROVE  \/ UNCHANGED <<acked, custody>>
           \/ append_record /\ acked' = acked \cup {alloc} /\ UNCHANGED custody
           \/ (\E item \in tokens : AddReceipt(item)) /\ UNCHANGED acked
<1> USE DEF history
<1>1. CASE append_record
  BY <1>1, SMTT(60) DEF append_record
<1>2. CASE create_segment \/ create_segment_failed \/ preserve_write \/ preserve_write_failed
           \/ append_record_failed \/ preserve_reuse \/ preserve_allocate \/ preserve_refused
           \/ append_needs_segment \/ append_allocate
           \/ Crash \/ zj_store_reclaim_step \/ zj_state_open \/ zj_state_open_failed
           \/ zj_state_enable_add \/ zj_state_enable_add_failed \/ zj_store_open
           \/ zj_store_open_failed \/ replay_commit \/ replay_commit_failed \/ append_to_writer
           \/ zj_store_peek \/ zj_store_reclaim_failed \/ DamageCheckpoint \/ UNCHANGED vars
  BY <1>2, Zenon DEF create_segment, create_segment_failed, preserve_write, preserve_write_failed,
     append_record_failed, preserve_reuse, preserve_allocate, preserve_refused,
     append_needs_segment, append_allocate, Crash, zj_store_reclaim_step,
     zj_state_open, zj_state_open_failed, zj_state_enable_add, zj_state_enable_add_failed,
     zj_store_open, zj_store_open_failed, replay_commit, replay_commit_failed, append_to_writer,
     zj_store_peek, zj_store_reclaim_failed, DamageCheckpoint, vars
<1>3. ASSUME NEW item \in tokens, \/ zj_store_settle(item) \/ zj_store_settle_failed(item)
                                  \/ DropToken(item)
      PROVE  UNCHANGED <<acked, custody>>
  BY <1>3 DEF zj_store_settle, zj_store_settle_failed, DropToken
<1>4. ASSUME NEW item \in tokens, AddReceipt(item)
      PROVE  UNCHANGED acked
  BY <1>4 DEF AddReceipt
<1> QED
  BY <1>1, <1>2, <1>3, <1>4 DEF Next, Recover, AppendSteps, Failure

LEMMA NextKept ==
    ASSUME JournalInv, [Next]_vars
    PROVE  KeptInv'
<1>1. ASSUME NEW q \in acked
      PROVE  Received(q)' \/ \E i \in files' : \E k \in 1..Len(content'[i]) : Keeps(q, i, k)'
  <2>1. CASE Received(q)
    BY <2>1, HistoryGrows DEF Received
  <2>2. CASE \E i \in files : \E k \in 1..Len(content[i]) : Keeps(q, i, k)
    BY <2>2, KeptStays
  <2> QED
    BY <2>1, <2>2 DEF JournalInv, KeptInv
<1>2. CASE acked' = acked
  BY <1>1, <1>2 DEF KeptInv
<1>3. CASE append_record /\ acked' = acked \cup {alloc}
  <2>1. PICK a : a = alloc
    BY Zenon
  <2>2. PICK w : w = store.writer
    BY Zenon
  <2>3. PICK n : n = Len(content[w]) + 1
    BY Zenon
  <2>4. w \in files' /\ n \in 1..Len(content'[w]) /\ Keeps(a, w, n)'
    BY <1>3, <2>1, <2>2, <2>3, RecordKept
  <2>5. \A q \in acked' : q \in acked \/ q = a
    BY <1>3, <2>1
  <2> QED
    BY <1>1, <2>4, <2>5 DEF KeptInv
<1> QED
  BY <1>2, <1>3, HistorySteps

-----------------------------------------------------------------------------
(* The invariant, and what it says. *)

LEMMA InitJournal == Init => JournalInv
<1> SUFFICES ASSUME Init PROVE JournalInv
  OBVIOUS
<1> USE JournalAssumption
<1>1. AllocatorInv
  BY InitAllocator
<1>2. NoCheckpoint \in Checkpoint /\ NoCheckpoint.segment = 0 /\ NoCheckpoint.last = 0
  BY CheckpointTyped DEF NoCheckpoint
<1>3. <<>> \in Seq(CellRecord)
  BY NoCell
<1>4. /\ root \in [present : BOOLEAN, limit : 0..(SequenceMax + 1), add : BOOLEAN]
      /\ state \in [ready : BOOLEAN, limit : 0..(SequenceMax + 1), add : BOOLEAN]
      /\ seq \in [ready : BOOLEAN, next : 0..(SequenceMax + 1), limit : 0..(SequenceMax + 1)]
      /\ 0 \in 0..SequenceMax
  <2> DEFINE N == 0..(SequenceMax + 1)
  <2>1. 0 \in N /\ 0 \in 0..SequenceMax
    BY SMTT(20)
  <2> HIDE DEF N
  <2>2. /\ root \in [present : BOOLEAN, limit : N, add : BOOLEAN]
        /\ state \in [ready : BOOLEAN, limit : N, add : BOOLEAN]
        /\ seq \in [ready : BOOLEAN, next : N, limit : N]
    BY <2>1, SMTT(60) DEF Init, NoState, NoSequence
  <2> QED
    BY <2>1, <2>2 DEF N
<1>5. store \in StoreRecord /\ ~store.ready
  BY <1>4 DEF Init, NoStore, StoreRecord
<1>6. cursor \in CursorRecord
  BY DEF Init, NoCursor, CursorRecord
<1>7. TypeOK
  BY <1>2, <1>3, <1>4, <1>5, <1>6, SMTT(60) DEF Init, TypeOK, StoreRecord, CursorRecord
<1>8. Bounds
  BY <1>4, SMTT(60) DEF Init, Bounds, NoState, NoSequence
<1>9. FlashInv /\ CheckpointInv
  <2>1. cp = NoCheckpoint /\ files = {} /\ cp.state = "absent"
    BY CheckpointTyped DEF Init, NoCheckpoint
  <2> QED
    BY <1>2, <2>1, ZenonT(60) DEF FlashInv, CheckpointInv
<1>10. OpenInv
  BY <1>5 DEF Init, OpenInv, Replaying
<1>11. KeptInv
  BY DEF Init, KeptInv
<1> QED
  BY <1>1, <1>7, <1>8, <1>9, <1>10, <1>11 DEF JournalInv

LEMMA NextJournal == JournalInv /\ [Next]_vars => JournalInv'
<1> SUFFICES ASSUME JournalInv, [Next]_vars PROVE JournalInv'
  OBVIOUS
<1> QED
  BY NextTypes, NextFlash, NextCheckpoint, NextOpen, NextKept DEF JournalInv

LEMMA JournalInvariant == Spec => []JournalInv
  BY InitJournal, NextJournal, PTL DEF Spec

LEMMA JournalConsistent == JournalInv => StoreConsistent
<1> SUFFICES ASSUME JournalInv PROVE StoreConsistent
  OBVIOUS
<1>1. TypeOK /\ AllocatorInv /\ FlashInv /\ CheckpointInv /\ OpenInv /\ KeptInv
  BY DEF JournalInv
<1>2. \A n \in issued : n < root.limit /\ n > 0
  BY <1>1, JournalAssumption, SMT DEF AllocatorInv, TypeOK, Ids
<1>3. root.limit \in Nat /\ (~root.present => root.limit = 0)
  BY <1>1 DEF AllocatorInv, AllocatorTypes
<1>4. issued # {} => root.limit > 0 /\ root.present
  <2> SUFFICES ASSUME NEW n \in issued PROVE root.limit > 0 /\ root.present
    OBVIOUS
  <2>1. n < root.limit /\ n > 0 /\ n \in Nat
    BY <1>1, <1>2, SMTT(20) DEF TypeOK, Ids
  <2> QED
    BY <1>3, <2>1, SMT
<1>5. ReservedBeforeUse
  <2>1. ~root.present => files = {} /\ cp.state = "absent"
    BY <1>1, <1>4 DEF FlashInv, CheckpointInv
  <2>2. root.present => root.limit > 0
    BY <1>3, SMTT(20) DEF JournalInv, Bounds
  <2>3. root.present => \A i \in files : i < root.limit
    BY <1>1, <1>2 DEF FlashInv
  <2>4. root.present => \A i \in files : \A k \in 1..Len(content[i]) : content[i][k].seq < root.limit
    BY <1>1, <1>2, <2>2 DEF FlashInv
  <2>5. root.present => cp.segment < root.limit /\ cp.last < root.limit
    BY <1>1, <1>2, <2>2 DEF CheckpointInv
  <2> QED
    BY <2>1, <2>3, <2>4, <2>5, SMTT(60) DEF ReservedBeforeUse
<1>6. InventoryExact
  BY <1>1 DEF InventoryExact, OpenInv
<1>7. store.ready => \A i, k : Passed(cursor, i, k) = Passed(cp, i, k)
  <2>1. store.ready => cursor.segment = cp.segment /\ cursor.offset = cp.offset
    BY <1>1, SMTT(60) DEF OpenInv, CursorOf
  <2> QED
    BY <2>1 DEF Passed
<1>8. AckedNeverLost
  <2>1. ASSUME NEW q \in acked, NEW i \in files, NEW k \in 1..Len(content[i]), Keeps(q, i, k)
        PROVE  /\ content[i][k].kind = "rec" /\ content[i][k].seq = q /\ content[i][k].synced
               /\ store.ready => ~Passed(cursor, i, k)
               /\ cp.state = "valid" => ~Passed(cp, i, k)
    BY <1>7, <2>1 DEF Keeps
  <2>2. ASSUME NEW q \in acked, ~Received(q)
        PROVE  \E i \in files : \E k \in 1..Len(content[i]) :
                 /\ content[i][k].kind = "rec" /\ content[i][k].seq = q /\ content[i][k].synced
                 /\ store.ready => ~Passed(cursor, i, k)
                 /\ cp.state = "valid" => ~Passed(cp, i, k)
    <3>1. PICK i \in files : \E k \in 1..Len(content[i]) : Keeps(q, i, k)
      BY <1>1, <2>2, Zenon DEF KeptInv
    <3>2. PICK k \in 1..Len(content[i]) : Keeps(q, i, k)
      BY <3>1, Zenon
    <3>3. /\ content[i][k].kind = "rec" /\ content[i][k].seq = q /\ content[i][k].synced
          /\ store.ready => ~Passed(cursor, i, k)
          /\ cp.state = "valid" => ~Passed(cp, i, k)
      BY <2>1, <3>2
    <3> QED
      BY <3>3
  <2> QED
    BY <2>2, Zenon DEF AckedNeverLost
<1>9. RecordsReadAsObservations
  <2> SUFFICES ASSUME store.ready, NEW i \in store.segments, NEW k \in 1..Len(content[i]),
                      content[i][k].kind = "rec", ~Passed(cursor, i, k)
               PROVE  IsObservation(i, content[i][k])
    BY DEF RecordsReadAsObservations
  <2>1. i \in files /\ ~Passed(cp, i, k) /\ cursor.last = cp.last
    BY <1>1, <1>7, SMTT(20) DEF OpenInv, CursorOf
  <2>2. content[i][k].seq > cursor.last
    BY <1>1, <2>1, SMTT(60) DEF CheckpointInv
  <2>3. content[i] # <<>> /\ content[i][1].kind = "head"
    <3>1. content[i] = <<>> => Len(content[i]) = 0
      BY SMT
    <3> QED
      BY <1>1, <2>1, <3>1, SMTT(60) DEF FlashInv
  <2> QED
    BY <2>2, <2>3, SMTT(60) DEF IsObservation, HeaderOnFlash
<1> QED
  BY <1>1, <1>5, <1>6, <1>8, <1>9 DEF StoreConsistent

(* What is on flash and in memory agrees after every step, for every       *)
(* number and size of segments and every reservation block: no power loss, *)
(* failed write or replay loses an acknowledged capture, and a retained    *)
(* record always reads back as the observation it was written for.         *)
THEOREM StoreConsistentInvariant == Spec => []StoreConsistent
  BY JournalInvariant, JournalConsistent, PTL

LEMMA CheckpointReplaced ==
    ASSUME JournalInv, [Next]_vars, cp' # cp, cp'.state = "valid"
    PROVE  \/ \E t \in custody : /\ t.segment = cp'.segment /\ t.end = cp'.offset
                                 /\ cp'.revision = cursor.revision + 1
           \/ /\ cp' = ResetCheckpoint
              /\ \E i \in files : content[i] = <<Evidence>>
<1>1. CASE Settles
  <2>1. PICK item \in ReadHead : Usable /\ item \in custody /\ cp' = Settled(item)
    BY <1>1 DEF Settles
  <2> DEFINE c == Settled(item)
  <2>2. c.revision = cursor.revision + 1 /\ c.segment = item.segment /\ c.offset = item.end
    BY <2>1, SettledHead
  <2> HIDE DEF c
  <2>3. cp' = c
    BY <2>1, SMTT(60) DEF c
  <2> QED
    BY <2>1, <2>2, <2>3
<1>2. CASE Resets
  BY <1>2 DEF Resets, JournalInv, OpenInv
<1>3. CASE Damages
  BY <1>3 DEF Damages, JournalInv, TypeOK, Checkpoint
<1> QED
  BY <1>1, <1>2, <1>3, CheckpointSteps

(* The checkpoint moves only over an item ADD has receipted, or back to    *)
(* the replay position after its own damaged bytes were synced as          *)
(* evidence, for every instance.                                           *)
THEOREM CheckpointReplacedSafelyAlways == Spec => CheckpointReplacedSafely
<1>1. JournalInv /\ [Next]_vars =>
        [ (cp' # cp /\ cp'.state = "valid") =>
            \/ \E t \in custody : /\ t.segment = cp'.segment /\ t.end = cp'.offset
                                  /\ cp'.revision = cursor.revision + 1
            \/ /\ cp' = ResetCheckpoint
               /\ \E i \in files : content[i] = <<Evidence>> ]_vars
  BY CheckpointReplaced
<1> QED
  BY <1>1, JournalInvariant, PTL DEF Spec, CheckpointReplacedSafely

-----------------------------------------------------------------------------
(* The refinement: the journal's steps are steps of AttendanceCustody.     *)

(* The synced records of the sequence q. *)
Recorded(q) ==
    \E i \in files : \E k \in 1..Len(content[i]) :
        content[i][k].kind = "rec" /\ content[i][k].seq = q /\ content[i][k].synced

(* Only append_record writes a synced record. *)
LEMMA NoNewSynced ==
    ASSUME JournalInv, [Next]_vars, ~append_record, NEW q, Recorded(q)'
    PROVE  Recorded(q)
<1>1. PICK i \in files' : \E k \in 1..Len(content'[i]) :
        content'[i][k].kind = "rec" /\ content'[i][k].seq = q /\ content'[i][k].synced
  BY DEF Recorded
<1>2. PICK k \in 1..Len(content'[i]) :
        content'[i][k].kind = "rec" /\ content'[i][k].seq = q /\ content'[i][k].synced
  BY <1>1
<1>3. CASE NoNewRecords \/ Untouched
  BY <1>2, <1>3 DEF NoNewRecords, Untouched, Recorded
<1>4. CASE append_record_failed
  <2>1. CASE Untouched
    BY <1>3, <2>1
  <2>2. CASE NewCell
    <3>1. PICK w : w = store.writer
      BY Zenon
    <3>2. PICK n : n = Len(content[w]) + 1
      BY Zenon
    <3>3. /\ w \in files /\ w \in Ids /\ n \in Nat /\ files' = files
          /\ i # w => content'[i] = content[i]
          /\ Len(content'[w]) = n
          /\ \A l \in 1..(n - 1) : content'[w][l] = content[w][l]
      BY <1>1, <2>2, <3>1, <3>2, NewCellRecords, SMTT(60)
    <3>4. Len(content[w]) \in Nat /\ content[w] \in Seq(CellRecord) /\ n - 1 = Len(content[w])
          /\ content \in [Ids -> Seq(CellRecord)]
      BY <3>2, <3>3, SMTT(60) DEF JournalInv, TypeOK
    <3>5. ~(i = w /\ k = n)
      <4>1. content' = content \/ \E cell \in {Torn, Cell("rec", alloc, NoCheckpoint, FALSE)} :
                content' = [content EXCEPT ![w] = Append(@, cell)]
        BY <1>4, <3>1, Zenon DEF append_record_failed
      <4>2. CASE content' = content
        BY <3>3, <3>4, <4>2, SMT
      <4>3. ASSUME NEW cell \in {Torn, Cell("rec", alloc, NoCheckpoint, FALSE)},
                   content' = [content EXCEPT ![w] = Append(@, cell)]
            PROVE  ~content'[w][n].synced
        <5>1. ~cell.synced
          BY SMT DEF Torn, Cell
        <5>2. content'[w] = Append(content[w], cell)
          BY <3>3, <3>4, <4>3
        <5>3. content'[w][n] = cell
          BY <3>2, <3>4, <5>2, SMTT(20)
        <5> QED
          BY <5>1, <5>3
      <4> QED
        BY <1>2, <4>1, <4>2, <4>3, Zenon
    <3>6. k \in 1..Len(content[i]) /\ content'[i][k] = content[i][k]
      BY <3>3, <3>4, <3>5, SMT
    <3> QED
      BY <1>2, <3>3, <3>6, SMT DEF Recorded
  <2> QED
    BY <1>4, <2>1, <2>2, RecordFails DEF JournalInv
<1> QED
  BY <1>3, <1>4, FlashSteps, NewFileRecords, ResyncedRecords, ShrunkRecords

(* Bytes that go leave a receipt, or another copy, behind. *)
LEMMA ReleasedReceived ==
    ASSUME JournalInv, [Next]_vars, NEW q, Recorded(q), ~Recorded(q)'
    PROVE  Received(q)
<1>1. q \in acked
  BY SMTT(60) DEF Recorded, JournalInv, FlashInv
<1>2. CASE \E i \in files : \E k \in 1..Len(content[i]) : Keeps(q, i, k)
  <2>1. PICK i \in files : \E k \in 1..Len(content[i]) : Keeps(q, i, k)
    BY <1>2
  <2>2. PICK k \in 1..Len(content[i]) : Keeps(q, i, k)
    BY <2>1
  <2>3. i \in files' /\ k \in 1..Len(content'[i]) /\ content'[i][k] = content[i][k]
    BY <2>2, SyncedStays DEF Keeps
  <2> QED
    BY <2>2, <2>3 DEF Keeps, Recorded
<1> QED
  BY <1>1, <1>2 DEF JournalInv, KeptInv

LEMMA RecordAdds ==
    ASSUME JournalInv, append_record, NEW a, a = alloc
    PROVE  a \in Ids /\ \A q : Recorded(q)' <=> (Recorded(q) \/ q = a)
<1>1. PICK w : w = store.writer
  BY Zenon
<1>2. PICK n : n = Len(content[w]) + 1
  BY Zenon
<1>3. a \in Ids
  BY JournalAssumption DEF append_record, JournalInv, OpenInv, TypeOK, Ids
<1>4. w \in files' /\ n \in 1..Len(content'[w]) /\ Keeps(a, w, n)'
  BY <1>1, <1>2, RecordKept
<1>5. /\ content'[w][n].kind = "rec" /\ content'[w][n].seq = a /\ content'[w][n].synced
  BY <1>4 DEF Keeps
<1>6. NewCell
  BY RecordsCell DEF JournalInv
<1>7. /\ w \in files /\ w \in Ids /\ n \in Nat /\ files' = files
      /\ \A i \in files : i # w => content'[i] = content[i]
      /\ Len(content'[w]) = n
      /\ \A l \in 1..(n - 1) : content'[w][l] = content[w][l]
  BY <1>1, <1>2, <1>6, NewCellRecords, SMTT(20)
<1>8. Len(content[w]) \in Nat /\ n - 1 = Len(content[w])
  BY <1>2, <1>7, SMTT(20) DEF JournalInv, TypeOK
<1>9. ASSUME NEW q, Recorded(q) PROVE Recorded(q)'
  <2>1. PICK i \in files : \E k \in 1..Len(content[i]) :
          content[i][k].kind = "rec" /\ content[i][k].seq = q /\ content[i][k].synced
    BY <1>9 DEF Recorded
  <2>2. PICK k \in 1..Len(content[i]) :
          content[i][k].kind = "rec" /\ content[i][k].seq = q /\ content[i][k].synced
    BY <2>1
  <2>3. i \in files' /\ k \in 1..Len(content'[i]) /\ content'[i][k] = content[i][k]
    BY <1>7, <1>8, SMT
  <2> QED
    BY <2>2, <2>3 DEF Recorded
<1>10. ASSUME NEW q, Recorded(q)' PROVE Recorded(q) \/ q = a
  <2>1. PICK i \in files' : \E k \in 1..Len(content'[i]) :
          content'[i][k].kind = "rec" /\ content'[i][k].seq = q /\ content'[i][k].synced
    BY <1>10 DEF Recorded
  <2>2. PICK k \in 1..Len(content'[i]) :
          content'[i][k].kind = "rec" /\ content'[i][k].seq = q /\ content'[i][k].synced
    BY <2>1
  <2>3. CASE i = w /\ k = n
    BY <1>5, <2>2, <2>3
  <2>4. CASE ~(i = w /\ k = n)
    <3>1. i \in files /\ k \in 1..Len(content[i]) /\ content'[i][k] = content[i][k]
      BY <1>7, <1>8, <2>4, SMTT(60)
    <3> QED
      BY <2>2, <3>1 DEF Recorded
  <2> QED
    BY <2>3, <2>4
<1>11. Recorded(a)'
  BY <1>4, <1>5 DEF Recorded
<1> QED
  BY <1>3, <1>9, <1>10, <1>11

LEMMA InitCustody == Init => Custody!Init
  BY DEF Init, Custody!Init, HeldSequences, Received

LEMMA NextCustody == JournalInv /\ [Next]_vars => [Custody!Next]_(Custody!vars)
<1> SUFFICES ASSUME JournalInv, [Next]_vars PROVE Custody!Next \/ UNCHANGED Custody!vars
  OBVIOUS
<1> DEFINE T == {q \in Ids : Received(q)}
<1>1. /\ HeldSequences = {q \in Ids : Recorded(q)}
      /\ HeldSequences' = {q \in Ids : Recorded(q)'}
  BY DEF HeldSequences, Recorded
<1>2. UNCHANGED custody => T' = T
  BY DEF Received
<1>3. CASE append_record
  <2>1. PICK a : a = alloc
    BY Zenon
  <2>2. a \in Ids /\ \A q : Recorded(q)' <=> (Recorded(q) \/ q = a)
    BY <1>3, <2>1, RecordAdds
  <2>3. HeldSequences' = HeldSequences \cup {a}
    BY <1>1, <2>2
  <2>4. acked' = acked \cup {a} /\ T' = T
    BY <1>2, <1>3, <2>1 DEF append_record
  <2>5. Custody!Keep
    BY <2>2, <2>3, <2>4 DEF Custody!Keep
  <2> QED
    BY <2>5 DEF Custody!Next
<1>4. CASE UNCHANGED <<acked, custody>> /\ ~append_record
  <2>1. \A q : Recorded(q)' => Recorded(q)
    BY <1>4, NoNewSynced
  <2>2. \A q : Recorded(q) /\ ~Recorded(q)' => Received(q)
    BY ReleasedReceived
  <2> DEFINE S == HeldSequences \ HeldSequences'
  <2>3. S \in SUBSET (HeldSequences \cap T) /\ HeldSequences' = HeldSequences \ S
    BY <1>1, <2>1, <2>2
  <2>4. acked' = acked /\ T' = T
    BY <1>2, <1>4
  <2> HIDE DEF S
  <2>5. Custody!Release
    BY <2>3, <2>4 DEF Custody!Release
  <2> QED
    BY <2>5 DEF Custody!Next
<1>5. CASE (\E item \in tokens : AddReceipt(item)) /\ UNCHANGED acked
  <2>1. PICK item \in tokens : AddReceipt(item)
    BY <1>5
  <2>2. UNCHANGED <<files, content>> /\ custody' = custody \cup {item}
    BY <2>1 DEF AddReceipt, durable
  <2>3. HeldSequences' = HeldSequences
    BY <2>2 DEF HeldSequences
  <2>4. CASE item.observation /\ item.bytes[2] \in Ids
    <3>1. T' = T \cup {item.bytes[2]}
      BY <2>2, <2>4 DEF Received
    <3>2. Custody!Take
      BY <1>5, <2>3, <2>4, <3>1 DEF Custody!Take
    <3> QED
      BY <3>2 DEF Custody!Next
  <2>5. CASE ~(item.observation /\ item.bytes[2] \in Ids)
    <3>1. T' = T
      BY <2>2, <2>5 DEF Received
    <3> QED
      BY <1>5, <2>3, <3>1 DEF Custody!vars
  <2> QED
    BY <2>4, <2>5
<1> QED
  BY <1>3, <1>4, <1>5, HistorySteps

(* The journal implements AttendanceCustody for every instance: the synced *)
(* records, the observations ADD has and the acknowledged sequences change *)
(* only as that module allows, through every replay and power loss.        *)
THEOREM JournalImplementsCustody == Spec => ImplementsCustody
  BY InitCustody, NextCustody, JournalInvariant, PTL DEF Spec, ImplementsCustody, Custody!Spec

(* What AttendanceCustody promises, as a step of the journal keeps it. *)
LEMMA PromiseKept == Custody!Spec => []Custody!PromiseKept
<1>1. Custody!Init => Custody!PromiseKept
  BY DEF Custody!Init, Custody!PromiseKept
<1>2. Custody!PromiseKept /\ [Custody!Next]_(Custody!vars) => Custody!PromiseKept'
  BY DEF Custody!PromiseKept, Custody!Next, Custody!vars, Custody!Keep, Custody!Promise, Custody!Take, Custody!Release
<1> QED
  BY <1>1, <1>2, PTL DEF Custody!Spec

(* Every capture the journal has acknowledged (acked) is on flash as a synced *)
(* record or has ADD's receipt, whatever fails and whenever power is lost.    *)
THEOREM PromiseKeptInvariant == Spec => []Custody!PromiseKept
  BY JournalImplementsCustody, PromiseKept, PTL DEF ImplementsCustody
===============================================================================
