----------------------------- MODULE JournalStore -----------------------------
(***************************************************************************)
(* The durable attendance journal of the ZKT connector: the segment store  *)
(* (zkt_journal_store.c), its NVS root and retirement checkpoint           *)
(* (zkt_journal_state.c) and the sequence allocator (zkt_journal_codec.c). *)
(*                                                                         *)
(* All calls belong to one storage task, so what interleaves with an       *)
(* operation is only power loss and failing I/O.  An operation with        *)
(* several durable effects is therefore split at each of them: pc names    *)
(* the effect the running call performs next, and Crash may come between   *)
(* any two.                                                                *)
(*                                                                         *)
(* A segment file is a sequence of cells, one per unit that is written at  *)
(* once: the 240-byte segment header, a complete record, the complete      *)
(* 88-byte checkpoint evidence, or the incomplete bytes of any of these.   *)
(* Offsets count cells.  Cells written by a commit_file that failed may    *)
(* be readable and still vanish at a power loss: they are not synced.      *)
(* Encryption is abstracted to "a complete record authenticates".          *)
(***************************************************************************)
EXTENDS Integers, Sequences, FiniteSets

CONSTANTS
    SequenceMax,     \* ZJ_SEQUENCE_MAX
    ReserveBlock,    \* sequences reserved by one NVS commit (256)
    SegmentsMax,     \* ZJ_SEGMENTS_MAX
    SegmentCells,    \* cells that fit a segment (ZJ_SEGMENT_BYTES)
    AppendBound,     \* model bound: no append starts at a later sequence
    MaxTokens,       \* model bound: peeked items a caller holds at once
    MaxFaults        \* model bound: failures and power losses

ASSUME JournalAssumption ==
    /\ SequenceMax \in Nat \ {0}
    /\ ReserveBlock \in Nat \ {0}
    /\ SegmentsMax \in Nat \ {0}
    /\ SegmentCells \in Nat \ {0}
    /\ AppendBound \in Nat
    /\ MaxTokens \in Nat
    /\ MaxFaults \in Nat

VARIABLES
    root,      \* NVS "root": whether it exists, sequence limit, ADD authority
    cp,        \* NVS "retirement": the retirement checkpoint
    files,     \* segment files on flash
    content,   \* cells of every segment file
    state,     \* RAM zj_state_t: ready, limit, add
    seq,       \* RAM zj_sequence_t: ready, next, limit
    store,     \* RAM zj_store_t: ready, writer_id, inventory, valid headers
    cursor,    \* RAM read position: revision, segment, offset, last_sequence
    pc,        \* durable effect the running call performs next
    alloc,     \* sequence the running call has allocated
    tokens,    \* items peeked and not yet settled by the caller
    custody,   \* history: items ADD has committed a receipt for
    acked,     \* history: sequences whose append returned ZJ_OK
    issued,    \* history: sequences ever handed out
    faults     \* failures so far

durable == <<root, cp, files, content>>
ram == <<state, seq, store, cursor>>
history == <<custody, acked, issued>>
vars == <<durable, ram, pc, alloc, tokens, history, faults>>

Ids == 1..SequenceMax

NoCheckpoint == [state |-> "absent", revision |-> 0, segment |-> 0, offset |-> 0, last |-> 0]

(* What zj_store_open commits before a replay. *)
ResetCheckpoint == [NoCheckpoint EXCEPT !.state = "valid", !.revision = 1]

Cell(kind, n, blob, synced) == [kind |-> kind, seq |-> n, cp |-> blob, synced |-> synced]

Torn == Cell("torn", 0, NoCheckpoint, FALSE)

NoState == [ready |-> FALSE, limit |-> 0, add |-> FALSE]
NoSequence == [ready |-> FALSE, next |-> 0, limit |-> 0]
NoStore == [ready |-> FALSE, writer |-> 0, segments |-> {}, metadata |-> {}]
NoCursor == [revision |-> 0, segment |-> 0, offset |-> 0, last |-> 0]

Init ==
    /\ root = [present |-> FALSE, limit |-> 0, add |-> FALSE]
    /\ cp = NoCheckpoint
    /\ files = {}
    /\ content = [i \in Ids |-> <<>>]
    /\ state = NoState /\ seq = NoSequence /\ store = NoStore /\ cursor = NoCursor
    /\ pc = "idle" /\ alloc = 0
    /\ tokens = {}
    /\ custody = {} /\ acked = {} /\ issued = {}
    /\ faults = 0

Fault == faults < MaxFaults /\ faults' = faults + 1

(* The storage task recovers before any operation unless both are ready. *)
Usable == pc = "idle" /\ store.ready /\ state.ready

Lowest(S) == {x \in S : \A y \in S : x <= y}

-----------------------------------------------------------------------------
(* zj_sequence_next.  A block is reserved in NVS before any of it is used.   *)

ReservedLimit ==
    IF seq.next > SequenceMax + 1 - ReserveBlock THEN SequenceMax + 1
    ELSE seq.next + ReserveBlock

zj_state_reserve_ok == state.ready /\ state.add /\ ReservedLimit > state.limit

(* Deviation: the reservation stays in RAM and is not committed to NVS. *)
zj_sequence_nextVolatile ==
    /\ seq.ready /\ seq.next <= SequenceMax
    /\ alloc' = seq.next
    /\ issued' = issued \cup {seq.next}
    /\ seq' = [seq EXCEPT !.next = @ + 1]
    /\ UNCHANGED <<root, state>>

zj_sequence_next ==
    /\ seq.ready /\ seq.next <= SequenceMax
    /\ alloc' = seq.next
    /\ issued' = issued \cup {seq.next}
    /\ IF seq.next = seq.limit
       THEN /\ zj_state_reserve_ok
            /\ root' = [root EXCEPT !.limit = ReservedLimit]
            /\ state' = [state EXCEPT !.limit = ReservedLimit]
            /\ seq' = [seq EXCEPT !.next = @ + 1, !.limit = ReservedLimit]
       ELSE /\ seq' = [seq EXCEPT !.next = @ + 1]
            /\ UNCHANGED <<root, state>>

(* A failed reservation poisons the allocator; NVS may hold either limit.    *)
zj_sequence_refused ==
    /\ UNCHANGED <<alloc, issued>>
    /\ \/ /\ ~(seq.ready /\ seq.next <= SequenceMax)
          /\ UNCHANGED <<root, state, seq, faults>>
       \/ /\ seq.ready /\ seq.next <= SequenceMax /\ seq.next = seq.limit
          /\ seq' = [seq EXCEPT !.ready = FALSE]
          /\ IF zj_state_reserve_ok
             THEN /\ Fault
                  /\ root' \in {root, [root EXCEPT !.limit = ReservedLimit]}
                  /\ state' = [state EXCEPT !.ready = FALSE]
             ELSE UNCHANGED <<root, state, faults>>

-----------------------------------------------------------------------------
(* recover, first half: zj_state_open.  A missing root is created only when  *)
(* nothing else shows that one existed.                                      *)

OpenedState(r) == [ready |-> TRUE, limit |-> r.limit, add |-> r.add]

zj_state_open ==
    /\ pc = "idle" /\ ~(store.ready /\ state.ready)
    /\ root.present \/ (cp.state = "absent" /\ files = {})
    /\ root' = IF root.present THEN root ELSE [present |-> TRUE, limit |-> 1, add |-> FALSE]
    /\ state' = OpenedState(root')
    /\ store' = [store EXCEPT !.ready = FALSE]
    /\ pc' = "opening"
    /\ UNCHANGED <<cp, files, content, seq, cursor, alloc, tokens, history, faults>>

zj_state_open_failed ==
    /\ pc = "idle" /\ ~(store.ready /\ state.ready)
    /\ Fault
    /\ root' \in {root} \cup (IF root.present \/ cp.state # "absent" \/ files # {} THEN {}
                              ELSE {[present |-> TRUE, limit |-> 1, add |-> FALSE]})
    /\ state' = NoState
    /\ store' = [store EXCEPT !.ready = FALSE]
    /\ UNCHANGED <<cp, files, content, seq, cursor, pc, alloc, tokens, history>>

(* zj_state_enable_add: the irreversible transfer of delivery authority.     *)
zj_state_enable_add ==
    /\ Usable /\ ~state.add
    /\ root' = [root EXCEPT !.add = TRUE]
    /\ state' = [state EXCEPT !.add = TRUE]
    /\ UNCHANGED <<cp, files, content, seq, store, cursor, pc, alloc, tokens, history, faults>>

zj_state_enable_add_failed ==
    /\ Usable /\ ~state.add
    /\ Fault
    /\ root' \in {root, [root EXCEPT !.add = TRUE]}
    /\ state' = [state EXCEPT !.ready = FALSE]
    /\ UNCHANGED <<cp, files, content, seq, store, cursor, pc, alloc, tokens, history>>

-----------------------------------------------------------------------------
(* recover, second half: zj_store_open.                                      *)

HeaderOnFlash(i) == content[i] # <<>> /\ content[i][1].kind = "head"

CursorOf(c) == [revision |-> c.revision, segment |-> c.segment, offset |-> c.offset, last |-> c.last]

(* The checkpoint is damaged, names sequences never reserved, or points past *)
(* the bytes its segment still has.                                          *)
Replay ==
    /\ cp.state # "absent"
    /\ \/ cp.state = "damaged"
       \/ cp.segment >= state.limit
       \/ cp.last >= state.limit
       \/ /\ cp.segment \in files
          /\ \/ cp.offset > Len(content[cp.segment])
             \/ HeaderOnFlash(cp.segment) /\ cp.offset < 1

ScanRefuses ==
    \/ \E i \in files : i >= state.limit
    \/ Cardinality(files) > SegmentsMax

zj_sequence_init == [ready |-> TRUE, next |-> state.limit, limit |-> state.limit]

Scanned(ready) ==
    [ready |-> ready, writer |-> 0, segments |-> files,
     metadata |-> {i \in files : HeaderOnFlash(i)}]

zj_store_open ==
    /\ pc = "opening"
    /\ seq' = zj_sequence_init
    /\ IF ScanRefuses
       THEN /\ pc' = "idle"
            /\ store' = NoStore
            /\ cursor' = NoCursor
       ELSE IF Replay
       THEN /\ pc' = "evidence"
            /\ store' = Scanned(FALSE)
            /\ cursor' = NoCursor
       ELSE /\ pc' = "idle"
            /\ store' = Scanned(TRUE)
            /\ cursor' = CursorOf(cp)
    /\ UNCHANGED <<durable, state, alloc, tokens, history, faults>>

(* An unavailable checkpoint, directory, stat or header read.                *)
zj_store_open_failed ==
    /\ pc = "opening"
    /\ Fault
    /\ pc' = "idle"
    /\ store' = NoStore /\ cursor' = NoCursor
    /\ seq' = zj_sequence_init
    /\ UNCHANGED <<durable, state, alloc, tokens, history>>

(* preserve_checkpoint: the damaged bytes become an evidence segment before  *)
(* the checkpoint is replaced.  Identical evidence left by an interrupted    *)
(* attempt is synchronised again and reused.                                 *)
IsEvidence(i) == Len(content[i]) = 1 /\ content[i][1].kind = "evid"

Evidence == Cell("evid", 0, cp, TRUE)

Reusable == Lowest({i \in store.segments : IsEvidence(i) /\ content[i][1].cp = cp})

(* Deviation: evidence found complete is trusted without being synced. *)
preserve_reuseUnsynced ==
    /\ pc = "evidence"
    /\ Reusable # {}
    /\ pc' = "reset"
    /\ UNCHANGED <<durable, ram, alloc, tokens, history, faults>>

preserve_reuse ==
    /\ pc = "evidence"
    /\ \E i \in Reusable : content' = [content EXCEPT ![i] = <<Evidence>>]
    /\ pc' = "reset"
    /\ UNCHANGED <<root, cp, files, ram, alloc, tokens, history, faults>>

preserve_allocate ==
    /\ pc = "evidence"
    /\ Reusable = {}
    /\ Cardinality(store.segments) # SegmentsMax
    /\ zj_sequence_next
    /\ pc' = "preserve"
    /\ UNCHANGED <<cp, files, content, store, cursor, tokens, custody, acked, faults>>

(* Capacity, admission, synchronisation or allocation failed: nothing is     *)
(* replaced and the store stays closed.                                      *)
preserve_refused ==
    /\ pc = "evidence"
    /\ pc' = "idle"
    /\ \/ Reusable = {} /\ Cardinality(store.segments) = SegmentsMax
          /\ UNCHANGED <<root, state, seq, alloc, issued, faults>>
       \/ Fault /\ UNCHANGED <<root, state, seq, alloc, issued>>
       \/ Reusable = {} /\ Cardinality(store.segments) # SegmentsMax /\ zj_sequence_refused
    /\ UNCHANGED <<cp, files, content, store, cursor, tokens, custody, acked>>

preserve_write ==
    /\ pc = "preserve"
    /\ files' = files \cup {alloc}
    /\ content' = [content EXCEPT ![alloc] = <<Evidence>>]
    /\ store' = [store EXCEPT !.segments = @ \cup {alloc}]
    /\ pc' = "reset"
    /\ UNCHANGED <<root, cp, state, seq, cursor, alloc, tokens, history, faults>>

preserve_write_failed ==
    /\ pc = "preserve"
    /\ Fault
    /\ pc' = "idle"
    /\ \/ UNCHANGED <<files, content>>
       \/ /\ files' = files \cup {alloc}
          /\ \E cells \in {<<>>, <<Torn>>, <<Cell("evid", 0, cp, FALSE)>>} :
                content' = [content EXCEPT ![alloc] = cells]
    /\ UNCHANGED <<root, cp, ram, alloc, tokens, history>>

(* Only now is the cursor reset, to replay from the earliest retained byte.  *)
replay_commit ==
    /\ pc = "reset"
    /\ cp' = ResetCheckpoint
    /\ cursor' = CursorOf(ResetCheckpoint)
    /\ store' = [store EXCEPT !.ready = TRUE]
    /\ pc' = "idle"
    /\ UNCHANGED <<root, files, content, state, seq, alloc, tokens, history, faults>>

replay_commit_failed ==
    /\ pc = "reset"
    /\ Fault
    /\ cp' \in {cp, ResetCheckpoint}
    /\ state' = [state EXCEPT !.ready = FALSE]
    /\ pc' = "idle"
    /\ UNCHANGED <<root, files, content, seq, store, cursor, alloc, tokens, history>>

-----------------------------------------------------------------------------
(* zj_store_append, with create_segment inside it.                           *)

WriterHasRoom == store.writer \in store.segments /\ Len(content[store.writer]) < SegmentCells

append_to_writer ==
    /\ Usable /\ state.add /\ seq.next <= AppendBound
    /\ WriterHasRoom
    /\ pc' = "allocate"
    /\ UNCHANGED <<durable, ram, alloc, tokens, history, faults>>

append_needs_segment ==
    /\ Usable /\ state.add /\ seq.next <= AppendBound
    /\ ~WriterHasRoom
    /\ store' = [store EXCEPT !.writer = 0]
    /\ IF Cardinality(store.segments) = SegmentsMax
       THEN /\ pc' = "idle"
            /\ UNCHANGED <<root, state, seq, alloc, issued, faults>>
       ELSE \/ zj_sequence_next /\ pc' = "header" /\ UNCHANGED faults
            \/ zj_sequence_refused /\ pc' = "idle"
    /\ UNCHANGED <<cp, files, content, cursor, tokens, custody, acked>>

create_segment ==
    /\ pc = "header"
    /\ files' = files \cup {alloc}
    /\ content' = [content EXCEPT ![alloc] = <<Cell("head", 0, NoCheckpoint, TRUE)>>]
    /\ store' = [store EXCEPT !.segments = @ \cup {alloc}, !.metadata = @ \cup {alloc},
                              !.writer = alloc]
    /\ pc' = "allocate"
    /\ UNCHANGED <<root, cp, state, seq, cursor, alloc, tokens, history, faults>>

(* Inventory owns even a partially created file; it never becomes a writer.  *)
create_segment_failed ==
    /\ pc = "header"
    /\ Fault
    /\ pc' = "idle"
    /\ \/ UNCHANGED <<files, content, store>>
       \/ /\ files' = files \cup {alloc}
          /\ \E cells \in {<<>>, <<Torn>>, <<Cell("head", 0, NoCheckpoint, FALSE)>>} :
                content' = [content EXCEPT ![alloc] = cells]
          /\ \E statted \in BOOLEAN :
                store' = [store EXCEPT !.segments = @ \cup {alloc}, !.ready = statted]
    /\ UNCHANGED <<root, cp, state, seq, cursor, alloc, tokens, history>>

append_allocate ==
    /\ pc = "allocate"
    /\ \/ zj_sequence_next /\ pc' = "record" /\ UNCHANGED faults
       \/ zj_sequence_refused /\ pc' = "idle"
    /\ UNCHANGED <<cp, files, content, store, cursor, tokens, custody, acked>>

(* Deviation: acknowledged after the flush, without fsync. *)
append_recordUnsynced ==
    /\ pc = "record"
    /\ content' = [content EXCEPT ![store.writer] =
                        Append(@, Cell("rec", alloc, NoCheckpoint, FALSE))]
    /\ acked' = acked \cup {alloc}
    /\ pc' = "idle"
    /\ UNCHANGED <<root, cp, files, ram, alloc, tokens, custody, issued, faults>>

(* Written, flushed, synced and closed: only now is the capture acknowledged.*)
append_record ==
    /\ pc = "record"
    /\ content' = [content EXCEPT ![store.writer] =
                        Append(@, Cell("rec", alloc, NoCheckpoint, TRUE))]
    /\ acked' = acked \cup {alloc}
    /\ pc' = "idle"
    /\ UNCHANGED <<root, cp, files, ram, alloc, tokens, custody, issued, faults>>

(* The file cannot be opened: the writer stays.  An uncertain write retires  *)
(* the writer, and the inventory takes the size the file now has.            *)
append_record_failed ==
    /\ pc = "record"
    /\ Fault
    /\ pc' = "idle"
    /\ \/ UNCHANGED <<content, store>>
       \/ \E statted \in BOOLEAN :
            /\ store' = [store EXCEPT !.writer = 0, !.ready = statted]
            /\ \/ UNCHANGED content
               \/ \E cell \in {Torn, Cell("rec", alloc, NoCheckpoint, FALSE)} :
                    content' = [content EXCEPT ![store.writer] = Append(@, cell)]
    /\ UNCHANGED <<root, cp, files, state, seq, cursor, alloc, tokens, history>>

-----------------------------------------------------------------------------
(* zj_store_peek: the first unread cell of the lowest segment at or after    *)
(* the cursor.  A complete record under a valid header and above the last    *)
(* settled sequence is an observation, anything else opaque evidence.        *)

ReadOffset(i) ==
    IF i = cursor.segment THEN cursor.offset
    ELSE IF i \in store.metadata THEN 1 ELSE 0

Unread(i) == i >= cursor.segment /\ ReadOffset(i) < Len(content[i])

IsObservation(i, c) == HeaderOnFlash(i) /\ c.kind = "rec" /\ c.seq > cursor.last

Item(i, k) ==
    LET c == content[i][k]
    IN  [segment |-> i, end |-> k, bytes |-> <<c.kind, c.seq, c.cp>>,
         observation |-> IsObservation(i, c)]

ReadHead == {Item(i, ReadOffset(i) + 1) : i \in Lowest({j \in store.segments : Unread(j)})}

zj_store_peek ==
    /\ Usable
    /\ \E item \in ReadHead :
        /\ Cardinality(tokens \cup {item}) <= MaxTokens
        /\ tokens' = tokens \cup {item}
    /\ UNCHANGED <<durable, ram, pc, alloc, history, faults>>

(* External: ADD commits its receipt for an item it was sent.  The answer    *)
(* may be lost, so the item can be settled, dropped or sent again.           *)
AddReceipt(item) ==
    /\ item \in tokens
    /\ custody' = custody \cup {item}
    /\ UNCHANGED <<durable, ram, pc, alloc, tokens, acked, issued, faults>>

DropToken(item) ==
    /\ item \in tokens
    /\ Fault
    /\ tokens' = tokens \ {item}
    /\ UNCHANGED <<durable, ram, pc, alloc, history>>

(* zj_store_settle: the head is read again; a token that is not exactly the  *)
(* head is stale.  The receipt proof exists only once ADD has committed.     *)
Settled(item) ==
    [state |-> "valid", revision |-> cursor.revision + 1, segment |-> item.segment,
     offset |-> item.end,
     last |-> IF item.observation THEN item.bytes[2] ELSE cursor.last]

zj_store_settle(item) ==
    /\ Usable
    /\ item \in tokens \cap custody
    /\ tokens' = tokens \ {item}
    /\ IF item \in ReadHead
       THEN cp' = Settled(item) /\ cursor' = CursorOf(cp')
       ELSE UNCHANGED <<cp, cursor>>
    /\ UNCHANGED <<root, files, content, state, seq, store, pc, alloc, history, faults>>

zj_store_settle_failed(item) ==
    /\ Usable
    /\ item \in tokens \cap custody \cap ReadHead
    /\ Fault
    /\ tokens' = tokens \ {item}
    /\ cp' \in {cp, Settled(item)}
    /\ store' = [store EXCEPT !.ready = FALSE]
    /\ state' = [state EXCEPT !.ready = FALSE]
    /\ UNCHANGED <<root, files, content, seq, cursor, pc, alloc, history>>

-----------------------------------------------------------------------------
(* zj_store_reclaim_step: at most one settled or empty segment per call.     *)

Empty(i) == Len(content[i]) = 0 \/ (i \in store.metadata /\ Len(content[i]) = 1)

(* Deviations: the segment under the cursor retired too early, or never. *)
RetiredEarly(i) == i <= cursor.segment

RetiredLate(i) == i < cursor.segment

Retired(i) == i < cursor.segment \/ (i = cursor.segment /\ Len(content[i]) <= cursor.offset)

Reclaimable == Lowest({i \in store.segments : Empty(i) \/ Retired(i)})

zj_store_reclaim_step ==
    /\ Usable
    /\ \E i \in Reclaimable :
        /\ files' = files \ {i}
        /\ content' = [content EXCEPT ![i] = <<>>]
        /\ store' = [store EXCEPT !.segments = @ \ {i}, !.metadata = @ \ {i},
                                  !.writer = IF @ = i THEN 0 ELSE @]
    /\ UNCHANGED <<root, cp, state, seq, cursor, pc, alloc, tokens, history, faults>>

zj_store_reclaim_failed ==
    /\ Usable
    /\ Fault
    /\ \E i \in Reclaimable :
        store' = [store EXCEPT !.writer = IF @ = i THEN 0 ELSE @]
    /\ UNCHANGED <<durable, state, seq, cursor, pc, alloc, tokens, history>>

-----------------------------------------------------------------------------
(* External: power loss.  RAM is gone; cells that were never synced, and     *)
(* files that hold no synced cell, may be gone too.                          *)
Unsynced(i) == content[i] # <<>> /\ ~content[i][Len(content[i])].synced

Crash ==
    /\ Fault
    /\ state' = NoState /\ seq' = NoSequence /\ store' = NoStore /\ cursor' = NoCursor
    /\ pc' = "idle" /\ alloc' = 0 /\ tokens' = {}
    /\ \E lost \in SUBSET {i \in files : Unsynced(i)} :
       \E gone \in SUBSET {i \in files : content[i] = <<>> \/ (Unsynced(i) /\ Len(content[i]) = 1)} :
        /\ files' = files \ gone
        /\ content' = [i \in Ids |-> IF i \in gone THEN <<>>
                                     ELSE IF i \in lost THEN SubSeq(content[i], 1, Len(content[i]) - 1)
                                     ELSE content[i]]
    /\ UNCHANGED <<root, cp, history>>

(* External: the stored checkpoint loses its CRC.                            *)
DamageCheckpoint ==
    /\ Fault
    /\ pc = "idle" /\ cp.state = "valid"
    /\ cp' = [cp EXCEPT !.state = "damaged"]
    /\ UNCHANGED <<root, files, content, ram, pc, alloc, tokens, history>>

-----------------------------------------------------------------------------
Failure ==
    \/ zj_state_open_failed \/ zj_state_enable_add_failed \/ zj_store_open_failed
    \/ preserve_write_failed \/ replay_commit_failed
    \/ create_segment_failed \/ append_record_failed
    \/ \E item \in tokens : zj_store_settle_failed(item) \/ DropToken(item)
    \/ zj_store_reclaim_failed
    \/ Crash \/ DamageCheckpoint

Recover ==
    \/ zj_state_open \/ zj_store_open
    \/ preserve_reuse \/ preserve_allocate \/ preserve_refused \/ preserve_write
    \/ replay_commit

AppendSteps == create_segment \/ append_allocate \/ append_record

Next ==
    \/ Recover
    \/ zj_state_enable_add
    \/ append_to_writer \/ append_needs_segment \/ AppendSteps
    \/ zj_store_peek
    \/ \E item \in tokens : AddReceipt(item) \/ zj_store_settle(item)
    \/ zj_store_reclaim_step
    \/ Failure

Spec == Init /\ [][Next]_vars

(* The storage task retries recovery and finishes every call it started; the *)
(* delivery task keeps reading, ADD keeps answering, and settlement and      *)
(* reclamation follow.  Failures are finitely many (MaxFaults).              *)
Fairness ==
    /\ WF_vars(Recover)
    /\ WF_vars(AppendSteps)
    /\ WF_vars(zj_store_peek)
    /\ WF_vars(\E item \in tokens : item \notin custody /\ AddReceipt(item))
    /\ WF_vars(\E item \in tokens : zj_store_settle(item))
    /\ WF_vars(zj_store_reclaim_step)

FairSpec == Spec /\ Fairness

-----------------------------------------------------------------------------
Checkpoint ==
    [state : {"absent", "valid", "damaged"}, revision : Nat, segment : Nat,
     offset : Nat, last : Nat]

CellRecord ==
    [kind : {"head", "rec", "torn", "evid"}, seq : Nat, cp : Checkpoint, synced : BOOLEAN]

ItemRecord ==
    [segment : Ids, end : Nat, bytes : {"head", "rec", "torn", "evid"} \X Nat \X Checkpoint,
     observation : BOOLEAN]

(* Types of the NVS blobs, the flash files and the RAM structures. *)
TypeOK ==
    /\ root \in [present : BOOLEAN, limit : 0..(SequenceMax + 1), add : BOOLEAN]
    /\ cp \in Checkpoint
    /\ files \subseteq Ids
    /\ content \in [Ids -> Seq(CellRecord)]
    /\ state \in [ready : BOOLEAN, limit : 0..(SequenceMax + 1), add : BOOLEAN]
    /\ seq \in [ready : BOOLEAN, next : 0..(SequenceMax + 1), limit : 0..(SequenceMax + 1)]
    /\ store \in [ready : BOOLEAN, writer : 0..SequenceMax, segments : SUBSET Ids,
                  metadata : SUBSET Ids]
    /\ cursor \in [revision : Nat, segment : Nat, offset : Nat, last : Nat]
    /\ pc \in {"idle", "opening", "evidence", "preserve", "reset", "header", "allocate", "record"}
    /\ alloc \in 0..SequenceMax
    /\ tokens \subseteq ItemRecord
    /\ custody \subseteq ItemRecord
    /\ acked \subseteq Ids
    /\ issued \subseteq Ids
    /\ faults \in Nat

(* A sequence is an AES-GCM nonce and a segment identity.  Across power      *)
(* losses, failed reservations and recoveries the allocator never offers one *)
(* that was handed out before.                                               *)
NonceNeverReused == seq.ready => \A n \in issued : n < seq.next

(* What zj_state_open and zj_store_open refuse as corrupt never arises from  *)
(* the journal's own steps: no journal data precedes its root, and every     *)
(* file, record and checkpoint names a sequence already reserved.            *)
ReservedBeforeUse ==
    /\ ~root.present => files = {} /\ cp.state = "absent"
    /\ root.present =>
        /\ \A i \in files : i < root.limit
        /\ \A i \in files : \A k \in 1..Len(content[i]) : content[i][k].seq < root.limit
        /\ cp.segment < root.limit /\ cp.last < root.limit

Passed(c, i, k) == i < c.segment \/ (i = c.segment /\ k <= c.offset)

Received(q) == \E t \in custody : t.observation /\ t.bytes[2] = q

(* A capture whose append returned ZJ_OK is either in ADD's custody as an    *)
(* observation, or synced on flash where neither the running cursor nor the  *)
(* stored checkpoint has passed it.                                          *)
AckedNeverLost ==
    \A q \in acked :
        \/ Received(q)
        \/ \E i \in files : \E k \in 1..Len(content[i]) :
            /\ content[i][k].kind = "rec" /\ content[i][k].seq = q /\ content[i][k].synced
            /\ store.ready => ~Passed(cursor, i, k)
            /\ cp.state = "valid" => ~Passed(cp, i, k)

(* A complete record ahead of the cursor is always read as an observation:   *)
(* segment order and the last settled sequence never degrade an acknowledged *)
(* punch to opaque evidence.                                                 *)
RecordsReadAsObservations ==
    store.ready =>
        \A i \in store.segments : \A k \in 1..Len(content[i]) :
            (content[i][k].kind = "rec" /\ ~Passed(cursor, i, k))
                => IsObservation(i, content[i][k])

(* The RAM inventory of an open store is exactly the files on flash, also    *)
(* after a segment creation that failed half way.                            *)
InventoryExact == store.ready /\ pc = "idle" => store.segments = files

(* The stored checkpoint changes only to retire an item ADD has receipted,   *)
(* or to the replay position once its own exact bytes are synced evidence.   *)
CheckpointReplacedSafely ==
    [][ (cp' # cp /\ cp'.state = "valid") =>
            \/ \E t \in custody : /\ t.segment = cp'.segment /\ t.end = cp'.offset
                                  /\ cp'.revision = cursor.revision + 1
            \/ /\ cp' = ResetCheckpoint
               /\ \E i \in files : content[i] = <<Evidence>> ]_vars

(* Once failures stop, every acknowledged capture reaches ADD's custody and  *)
(* its bytes are reclaimed.                                                  *)
AckedDrains ==
    \A q \in Ids :
        (q \in acked) ~>
            (Received(q) /\ \A i \in files : \A k \in 1..Len(content[i]) : content[i][k].seq # q)

(* The sequences of complete synced records, those ADD holds as observations *)
(* and those acknowledged to the capture task.                               *)
HeldSequences ==
    {q \in Ids : \E i \in files : \E k \in 1..Len(content[i]) :
        content[i][k].kind = "rec" /\ content[i][k].seq = q /\ content[i][k].synced}

Custody == INSTANCE AttendanceCustody
    WITH Entries <- Ids, held <- HeldSequences, taken <- {q \in Ids : Received(q)},
         promised <- acked

(* The journal implements the custody promise: flash bytes of a capture go   *)
(* only once ADD has that capture as an observation, through every replay    *)
(* and power loss.                                                           *)
ImplementsCustody == Custody!Spec

(* What is on flash and in memory agrees after every step and power loss:    *)
(* types, a root that covers every sequence offered, an exact inventory, no  *)
(* acknowledged capture lost, and records that read back as the observations *)
(* they were written for.                                                    *)
StoreConsistent ==
    TypeOK /\ ReservedBeforeUse /\ InventoryExact /\ AckedNeverLost /\ RecordsReadAsObservations
=============================================================================
