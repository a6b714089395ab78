------------------------ MODULE OutboxDelivery_proof ------------------------
(***************************************************************************)
(* For any rows, payload versions and number of faults, the outbox, the    *)
(* journal ledger and Oracle agree (RowsConsistent), and a confirmed       *)
(* journal punch is final (JournalConfirmationFinal).                      *)
(***************************************************************************)
EXTENDS OutboxDelivery, TLAPS

Request == [row : Rows, attempt : 0..(Wrap - 1), payload : Versions]
Audit == [pc : {"idle", "request", "apply"}, rows : SUBSET (Rows \ Journal),
          missing : SUBSET Rows, failed : BOOLEAN]

(* Types, with those TypeOK leaves out: audits never touch journal rows.   *)
TypeInv == TypeOK /\ wire \subseteq Request /\ audits \in [AuditKinds -> Audit]

(* What a claim has found out stays true while it is carried along: past   *)
(* split_claims its payload is the frozen one, it posts only after saving  *)
(* the send, and a positive answer means Oracle has stored a copy.         *)
Backed(t, fr, po, st) ==
    /\ t.row \in Journal /\ t.pc # "split" => fr[t.row] = t.payload
    /\ t.row \in Journal /\ t.pc = "post" => po[t.row]
    /\ t.class = "MATCH" => t.payload \in st[t.row]
    /\ t.class \in {"UID_PRESENT", "present"} => st[t.row] # {}
    /\ t.reply = "stored" => st[t.row] # {}
ClaimsTrue == \A t \in tasks : Backed(t, frozen, posts, stored)

(* The same for the answer an audit carries from its request to its apply. *)
AuditsTrue ==
    \A k \in AuditKinds : audits[k].pc = "apply" /\ ~audits[k].failed =>
        \A r \in audits[k].rows \ audits[k].missing : stored[r] # {}

OracleRemembered == \A r \in Rows : oracle[r] # 0 => oracle[r] \in stored[r]
JournalConfirmed == \A r \in Journal : status[r] = "ACKED_CHECK" => confirmed[r]

RowsTrue == JournalConfirmed /\ ConfirmedStored /\ JournalCertified /\ RowAndEventAgree
PostsTrue == OneFrozenPayload /\ PostsAccounted

(* The inductive invariant: what claims and audits carry, and the parts of *)
(* RowsConsistent.                                                         *)
OutboxInv == TypeInv /\ ClaimsTrue /\ AuditsTrue /\ OracleRemembered /\ RowsTrue /\ PostsTrue

(* No step takes evidence back: a frozen payload, a saved send and what    *)
(* Oracle once stored stay.                                                *)
EvidenceGrows ==
    \A r \in Rows : /\ frozen[r] # 0 => frozen'[r] = frozen[r]
                    /\ posts[r] => posts'[r]
                    /\ stored[r] \subseteq stored'[r]

-----------------------------------------------------------------------------
LEMMA InitHolds == Init => OutboxInv
  <1> SUFFICES ASSUME Init PROVE OutboxInv
    OBVIOUS
  <1> USE OutboxAssumption DEF Init
  <1>1. TypeInv
    BY DEF TypeInv, TypeOK, Statuses, Eligible, Auditing, NoAudit, Audit, AuditKinds, AuditLock
  <1>2. ClaimsTrue /\ AuditsTrue /\ OracleRemembered
    BY DEF ClaimsTrue, AuditsTrue, OracleRemembered, NoAudit, AuditKinds
  <1>3. RowsTrue /\ PostsTrue
    BY DEF RowsTrue, PostsTrue, JournalConfirmed, ConfirmedStored, JournalCertified,
           OneFrozenPayload, PostsAccounted, RowAndEventAgree, Acknowledged
  <1> QED
    BY <1>1, <1>2, <1>3 DEF OutboxInv

-----------------------------------------------------------------------------
(* What the steps have in common *)

(* A claim that moves on is still a claim.                                 *)
LEMMA TaskMoves ==
    ASSUME NEW t \in Task, NEW p \in Pcs
    PROVE /\ [t EXCEPT !.pc = p] \in Task
          /\ \A c \in Classes : /\ [t EXCEPT !.class = c, !.pc = p] \in Task
                                /\ [t EXCEPT !.pc = p, !.class = c] \in Task
          /\ \A x \in Replies : [t EXCEPT !.reply = x, !.pc = p] \in Task
  BY Zenon DEF Task

LEMMA BackedLater ==
    ASSUME TypeInv, EvidenceGrows, NEW t \in Task, Backed(t, frozen, posts, stored)
    PROVE Backed(t, frozen', posts', stored')
  <1>1. t.row \in Rows /\ t.payload \in Versions /\ t.payload # 0
    BY OutboxAssumption DEF Task
  <1> QED
    BY <1>1 DEF Backed, EvidenceGrows

LEMMA ClaimsLater ==
    ASSUME TypeInv, ClaimsTrue, EvidenceGrows,
           \A t \in tasks' : t \in tasks \/ Backed(t, frozen', posts', stored')
    PROVE ClaimsTrue'
  BY BackedLater DEF TypeInv, TypeOK, ClaimsTrue

LEMMA AuditsLater ==
    ASSUME TypeInv, AuditsTrue, EvidenceGrows, UNCHANGED audits
    PROVE AuditsTrue'
  <1>1. \A k \in AuditKinds : audits[k].rows \subseteq Rows
    BY DEF TypeInv, Audit
  <1> QED
    BY <1>1 DEF AuditsTrue, EvidenceGrows

LEMMA RowsLater ==
    ASSUME TypeInv, RowsTrue, EvidenceGrows,
           UNCHANGED <<status, eventStatus, confirmed, frozen, receipts>>
    PROVE RowsTrue'
  BY OutboxAssumption DEF RowsTrue, JournalConfirmed, ConfirmedStored, JournalCertified,
     RowAndEventAgree, EvidenceGrows

LEMMA PostsLater ==
    ASSUME TypeInv, PostsTrue, EvidenceGrows, UNCHANGED <<frozen, stored>>, wire' \subseteq wire
    PROVE PostsTrue'
  BY OutboxAssumption DEF PostsTrue, OneFrozenPayload, PostsAccounted, EvidenceGrows

(* A step that neither settles a row nor posts.                            *)
LEMMA QuietKeeps ==
    ASSUME OutboxInv, UNCHANGED <<rowVars, intentVars, stored>>, wire' \subseteq wire,
           TypeInv', AuditsTrue', OracleRemembered',
           \A t \in tasks' : t \in tasks \/ Backed(t, frozen', posts', stored')
    PROVE OutboxInv'
  <1>1. EvidenceGrows
    BY DEF EvidenceGrows, intentVars
  <1>2. ClaimsTrue'
    BY <1>1, ClaimsLater DEF OutboxInv
  <1>3. RowsTrue' /\ PostsTrue'
    BY <1>1, RowsLater, PostsLater DEF OutboxInv, rowVars, intentVars
  <1> QED
    BY <1>2, <1>3 DEF OutboxInv

-----------------------------------------------------------------------------
(* Requests to Oracle *)

LEMMA TaskTyped ==
    ASSUME TypeInv, NEW t \in tasks
    PROVE t \in Task /\ t.row \in Rows /\ t.payload \in Versions /\ t.attempt \in 0..(Wrap - 1)
  BY DEF TypeInv, TypeOK, Task

LEMMA FaultsTyped ==
    ASSUME TypeInv, Fault \/ UNCHANGED faults PROVE faults' \in 0..MaxFaults
  BY OutboxAssumption DEF TypeInv, TypeOK, Fault

(* A claim moves on: only the claim, the send intent and the wire change.  *)
LEMMA MoveTyped ==
    ASSUME TypeInv, NEW t, NEW u \in Task, Replace(t, u), Fault \/ UNCHANGED faults,
           posts' \in [Rows -> BOOLEAN], wire' \subseteq Request,
           UNCHANGED <<rowVars, evidence, frozen, receipts, oracle, stored, lock, round, audits>>
    PROVE TypeInv'
  <1>1. tasks' \subseteq Task
    BY DEF TypeInv, TypeOK, Replace
  <1> QED
    BY <1>1, FaultsTyped DEF TypeInv, TypeOK, rowVars

LEMMA MoveKeeps ==
    ASSUME OutboxInv, NEW t \in tasks, NEW u \in Task, Replace(t, u), Backed(u, frozen, posts, stored),
           Fault \/ UNCHANGED faults, wire' \subseteq wire,
           UNCHANGED <<rowVars, evidence, intentVars, oracle, stored, lock, round, audits>>
    PROVE OutboxInv'
  <1>1. TypeInv'
    BY MoveTyped DEF OutboxInv, TypeInv, TypeOK, intentVars
  <1>2. Backed(u, frozen', posts', stored')
    BY DEF Backed, intentVars
  <1>3. AuditsTrue' /\ OracleRemembered'
    BY DEF OutboxInv, AuditsTrue, OracleRemembered
  <1>4. \A x \in tasks' : x \in tasks \/ Backed(x, frozen', posts', stored')
    BY <1>2 DEF Replace
  <1> QED
    BY <1>1, <1>3, <1>4, QuietKeeps

LEMMA VerifyKeeps ==
    ASSUME OutboxInv, NEW t \in tasks, Verify(t) PROVE OutboxInv'
  <1>1. PICK c \in Classes, p \in {"reserve", "apply"} :
          /\ Replace(t, [t EXCEPT !.class = c, !.pc = p])
          /\ c \in Verdicts(t) \cup {"UNKNOWN", "PENDING"}
    BY Zenon DEF Verify, Verdicts, Classes
  <1> DEFINE u == [t EXCEPT !.class = c, !.pc = p]
  <1>2. t \in Task /\ u \in Task /\ Backed(t, frozen, posts, stored)
    BY TaskTyped, TaskMoves, Zenon DEF OutboxInv, ClaimsTrue, Pcs
  <1>3. Backed(u, frozen, posts, stored)
    BY <1>1, <1>2, OutboxAssumption, Zenon DEF OutboxInv, OracleRemembered, Backed, Verdicts, Task, Verify
  <1> QED
    BY <1>1, <1>2, <1>3, MoveKeeps, Zenon DEF Verify

LEMMA VerifyAgainKeeps ==
    ASSUME OutboxInv, NEW t \in tasks, VerifyAgain(t) PROVE OutboxInv'
  <1>1. PICK c \in Classes : /\ \/ Replace(t, [t EXCEPT !.pc = "apply", !.class = c])
                                \/ Replace(t, [t EXCEPT !.class = c, !.pc = "apply"])
                             /\ c \in Verdicts(t) \cup {"UNKNOWN", "REJECTED"}
    BY Zenon DEF VerifyAgain, Verdicts, Classes
  <1> DEFINE u == [t EXCEPT !.class = c, !.pc = "apply"]
  <1>2. t \in Task /\ u \in Task /\ Backed(t, frozen, posts, stored)
    BY TaskTyped, TaskMoves, Zenon DEF OutboxInv, ClaimsTrue, Pcs
  <1>3. Replace(t, u)
    BY <1>1, <1>2, Zenon DEF Task
  <1>4. Backed(u, frozen, posts, stored)
    BY <1>1, <1>2, OutboxAssumption, Zenon DEF OutboxInv, OracleRemembered, Backed, Verdicts, Task, VerifyAgain
  <1> QED
    BY <1>2, <1>3, <1>4, MoveKeeps, Zenon DEF VerifyAgain

LEMMA ReservePostKeeps ==
    ASSUME OutboxInv, NEW t \in tasks, ReservePost(t) PROVE OutboxInv'
  <1>1. t \in Task /\ t.row \in Rows /\ Backed(t, frozen, posts, stored)
    BY TaskTyped DEF OutboxInv, ClaimsTrue
  <1>2. CASE SaveSend(t.row) /\ Owned(t) /\ Replace(t, [t EXCEPT !.pc = "post"]) /\ UNCHANGED faults
    <2> DEFINE u == [t EXCEPT !.pc = "post"]
    <2>1. u \in Task
      BY <1>1, TaskMoves, Zenon DEF Pcs
    <2>2. posts' \in [Rows -> BOOLEAN] /\ posts'[t.row] = TRUE /\ EvidenceGrows
      BY <1>1, <1>2 DEF ReservePost, SaveSend, EvidenceGrows, OutboxInv, TypeInv, TypeOK
    <2>3. TypeInv'
      BY <1>2, <2>1, <2>2, MoveTyped DEF ReservePost, OutboxInv, TypeInv
    <2>4. Backed(u, frozen', posts', stored')
      BY <1>1, <1>2, <2>2 DEF ReservePost, Backed, Owned, Task
    <2>5. ClaimsTrue'
      BY <1>2, <2>2, <2>4, ClaimsLater DEF OutboxInv, Replace
    <2> QED
      BY <2>2, <2>3, <2>5, AuditsLater, RowsLater, PostsLater DEF ReservePost, OutboxInv, OracleRemembered, rowVars
  <1>3. CASE UNCHANGED posts /\ (Fault \/ UNCHANGED faults)
             /\ \E c \in {"CHANGED", "UNKNOWN"} : Replace(t, [t EXCEPT !.class = c, !.pc = "apply"])
    <2>1. PICK c \in {"CHANGED", "UNKNOWN"} : Replace(t, [t EXCEPT !.class = c, !.pc = "apply"])
      BY <1>3, Zenon
    <2>2. [t EXCEPT !.class = c, !.pc = "apply"] \in Task
      BY <1>1, TaskMoves, Zenon DEF Pcs, Classes
    <2>3. Backed([t EXCEPT !.class = c, !.pc = "apply"], frozen, posts, stored)
      BY <1>1 DEF Backed, Task, ReservePost
    <2> QED
      BY <1>3, <2>1, <2>2, <2>3, MoveKeeps DEF ReservePost, intentVars
  <1> QED
    BY <1>2, <1>3 DEF ReservePost

LEMMA SendPostKeeps ==
    ASSUME OutboxInv, NEW t \in tasks, SendPost(t) PROVE OutboxInv'
  <1> DEFINE u == [t EXCEPT !.pc = "wait"]
             w == [row |-> t.row, attempt |-> t.attempt, payload |-> t.payload]
  <1>1. t \in Task /\ t.row \in Rows /\ w \in Request /\ Backed(t, frozen, posts, stored)
    BY TaskTyped DEF OutboxInv, ClaimsTrue, Request
  <1>2. u \in Task
    BY <1>1, TaskMoves, Zenon DEF Pcs
  <1>3. Backed(u, frozen', posts', stored')
    BY <1>1 DEF SendPost, intentVars, Backed, Task
  <1>4. wire' = wire \cup {w} /\ Replace(t, u)
    BY DEF SendPost
  <1>5. TypeInv'
    <2>1. wire' \subseteq Request /\ posts' \in [Rows -> BOOLEAN]
      BY <1>1, <1>4 DEF SendPost, intentVars, OutboxInv, TypeInv, TypeOK
    <2> QED
      BY <1>2, <1>4, <2>1, MoveTyped DEF SendPost, intentVars, OutboxInv
  <1>6. EvidenceGrows
    BY DEF EvidenceGrows, SendPost, intentVars
  <1>7. ClaimsTrue'
    BY <1>3, <1>4, <1>6, ClaimsLater DEF OutboxInv, Replace
  <1>8. PostsTrue'
    BY <1>1, <1>4 DEF OutboxInv, PostsTrue, OneFrozenPayload, PostsAccounted, SendPost, intentVars, Backed
  <1> QED
    BY <1>5, <1>6, <1>7, <1>8, AuditsLater, RowsLater
       DEF OutboxInv, SendPost, rowVars, intentVars, OracleRemembered

LEMMA ReplyLostKeeps ==
    ASSUME OutboxInv, NEW t \in tasks, ReplyLost(t) PROVE OutboxInv'
  <1> DEFINE u == [t EXCEPT !.reply = "error", !.pc = AfterReply(t)]
  <1>1. t \in Task /\ Backed(t, frozen, posts, stored)
    BY TaskTyped DEF OutboxInv, ClaimsTrue
  <1>2. u \in Task
    BY <1>1, TaskMoves, Zenon DEF Pcs, Replies, AfterReply
  <1>3. Backed(u, frozen, posts, stored)
    BY <1>1 DEF ReplyLost, Backed, Task, AfterReply
  <1> QED
    BY <1>2, <1>3, MoveKeeps DEF ReplyLost

(* A claim ends without a result: the row stays as it is until recovery.   *)
LEMMA PersistFailsKeeps ==
    ASSUME OutboxInv, NEW t \in tasks, PersistFails(t) PROVE OutboxInv'
  <1>1. TypeInv'
    <2>1. lock' \in {AuditLock} \cup 0..Wrap
      BY OutboxAssumption DEF PersistFails, OutboxInv, TypeInv, TypeOK
    <2>2. tasks' \subseteq Task
      BY DEF PersistFails, OutboxInv, TypeInv, TypeOK
    <2> QED
      BY <2>1, <2>2, FaultsTyped DEF PersistFails, OutboxInv, TypeInv, TypeOK, rowVars, intentVars
  <1>2. AuditsTrue' /\ OracleRemembered'
    BY DEF PersistFails, OutboxInv, AuditsTrue, OracleRemembered
  <1> QED
    BY <1>1, <1>2, QuietKeeps DEF PersistFails

(* Oracle's answer may store a payload; for a journal row it is the frozen *)
(* one, because only that is on the wire.                                  *)
LEMMA OracleAnswersKeeps ==
    ASSUME OutboxInv, NEW w \in wire, OracleAnswers(w) PROVE OutboxInv'
  <1>1. w \in Request /\ w.row \in Rows /\ w.payload \in Versions /\ w.payload # 0
    BY OutboxAssumption DEF OutboxInv, TypeInv, Request
  <1>2. PICK reply \in {"stored", "rejected", "error"} :
          /\ Answer(w, reply)
          /\ \/ /\ reply = "stored"
                /\ oracle' = [oracle EXCEPT ![w.row] = IF @ = 0 THEN w.payload ELSE @]
                /\ stored' = [stored EXCEPT ![w.row] = @ \cup {oracle'[w.row]}]
             \/ reply # "stored" /\ UNCHANGED <<oracle, stored>>
    BY DEF OracleAnswers
  <1>3. oracle' \in [Rows -> Versions \cup {0}] /\ stored' \in [Rows -> SUBSET Versions]
    BY <1>1, <1>2 DEF OutboxInv, TypeInv, TypeOK
  <1>4. EvidenceGrows /\ OracleRemembered' /\ (reply = "stored" => stored'[w.row] # {})
    <2>1. \A r \in Rows : /\ stored[r] \subseteq stored'[r]
                          /\ oracle'[r] # 0 => oracle'[r] \in stored'[r]
      <3>1. CASE UNCHANGED <<oracle, stored>>
        BY <3>1 DEF OutboxInv, OracleRemembered
      <3>2. CASE reply = "stored"
        <4>1. \A r \in Rows \ {w.row} : stored'[r] = stored[r] /\ oracle'[r] = oracle[r]
          BY <1>2, <3>2 DEF OutboxInv, TypeInv, TypeOK
        <4>2. stored'[w.row] = stored[w.row] \cup {oracle'[w.row]}
          BY <1>1, <1>2, <3>2 DEF OutboxInv, TypeInv, TypeOK
        <4> QED
          BY <4>1, <4>2 DEF OutboxInv, OracleRemembered
      <3> QED
        BY <1>2, <3>1, <3>2
    <2>2. reply = "stored" => stored'[w.row] # {}
      <3> HAVE reply = "stored"
      <3>1. stored' = [stored EXCEPT ![w.row] = @ \cup {oracle'[w.row]}]
        BY <1>2
      <3>2. stored \in [Rows -> SUBSET Versions]
        BY DEF OutboxInv, TypeInv, TypeOK
      <3>3. stored'[w.row] = stored[w.row] \cup {oracle'[w.row]}
        BY <1>1, <3>1, <3>2
      <3> QED
        BY <3>3
    <2> QED
      BY <2>1, <2>2 DEF EvidenceGrows, OracleRemembered, OracleAnswers, intentVars
  <1>5. \A x \in tasks' : x \in Task /\ (x \in tasks \/ Backed(x, frozen', posts', stored'))
    <2> SUFFICES ASSUME NEW x \in tasks', x \notin tasks
                 PROVE x \in Task /\ Backed(x, frozen', posts', stored')
      BY DEF OutboxInv, TypeInv, TypeOK
    <2>1. PICK t \in tasks : /\ t.pc = "wait" /\ t.row = w.row
                             /\ x = [t EXCEPT !.reply = reply, !.pc = AfterReply(t)]
      BY <1>2, Zenon DEF Answer
    <2>2. t \in Task /\ Backed(t, frozen', posts', stored')
      BY <1>4, BackedLater, TaskTyped DEF OutboxInv, ClaimsTrue
    <2>3. x \in Task
      BY <2>1, <2>2, TaskMoves, Zenon DEF Replies, Pcs, AfterReply
    <2>4. Backed(x, frozen', posts', stored')
      BY <1>4, <2>1, <2>2 DEF Backed, Task, AfterReply
    <2> QED
      BY <2>3, <2>4
  <1>6. TypeInv'
    <2>1. wire' \subseteq Request /\ (Fault \/ UNCHANGED faults)
      BY DEF OracleAnswers, OutboxInv, TypeInv
    <2> QED
      BY <1>3, <1>5, <2>1, FaultsTyped DEF OracleAnswers, OutboxInv, TypeInv, TypeOK, rowVars, intentVars
  <1>7. ClaimsTrue'
    BY <1>4, <1>5, ClaimsLater DEF OutboxInv
  <1>8. PostsTrue'
    <2>1. wire' \subseteq wire /\ UNCHANGED <<frozen, posts>>
      BY DEF OracleAnswers, intentVars
    <2>2. \A r \in Journal : stored'[r] \subseteq {frozen[r]} /\ (stored'[r] # {} => posts[r])
      <3> SUFFICES ASSUME NEW r \in Journal
                   PROVE stored'[r] \subseteq {frozen[r]} /\ (stored'[r] # {} => posts[r])
        OBVIOUS
      <3>1. r \in Rows /\ stored[r] \subseteq {frozen[r]} /\ (stored[r] # {} => posts[r])
            /\ (oracle[r] # 0 => oracle[r] \in stored[r])
        BY OutboxAssumption DEF OutboxInv, PostsTrue, OneFrozenPayload, PostsAccounted, OracleRemembered
      <3>2. CASE r # w.row \/ UNCHANGED stored
        BY <1>1, <1>2, <3>1, <3>2 DEF OutboxInv, TypeInv, TypeOK
      <3>3. CASE r = w.row /\ ~UNCHANGED stored
        <4>1. w.payload = frozen[r] /\ posts[r]
          BY <3>3 DEF OutboxInv, PostsTrue, OneFrozenPayload, PostsAccounted
        <4>2. stored'[r] = stored[r] \cup {oracle'[r]} /\ oracle'[r] = IF oracle[r] = 0 THEN w.payload ELSE oracle[r]
          BY <1>1, <1>2, <3>3 DEF OutboxInv, TypeInv, TypeOK
        <4> QED
          BY <3>1, <4>1, <4>2
      <3> QED
        BY <3>2, <3>3
    <2> QED
      BY <2>1, <2>2 DEF OutboxInv, PostsTrue, OneFrozenPayload, PostsAccounted
  <1> QED
    BY <1>4, <1>6, <1>7, <1>8, AuditsLater, RowsLater DEF OutboxInv, OracleAnswers, rowVars, intentVars

-----------------------------------------------------------------------------
(* Batches, audits and the environment: steps that settle nothing *)

LEMMA CheckBatchKeeps ==
    ASSUME OutboxInv, NEW b \in 1..Wrap, CheckBatch(b) PROVE OutboxInv'
  <1>1. \A x \in tasks' : x \in Task /\ (x \in tasks \/ Backed(x, frozen', posts', stored'))
    <2> SUFFICES ASSUME NEW x \in tasks', x \notin tasks
                 PROVE x \in Task /\ Backed(x, frozen', posts', stored')
      BY DEF OutboxInv, TypeInv, TypeOK
    <2>1. PICK t \in Ordinary(b) :
            \/ x = [t EXCEPT !.pc = IF oracle[t.row] = 0 THEN "post" ELSE "apply",
                             !.class = IF oracle[t.row] = 0 THEN "MISSING" ELSE "present"]
            \/ x = [t EXCEPT !.pc = "post"]
            \/ x = [t EXCEPT !.pc = "apply", !.class = "failed"]
      <3>1. CASE tasks' = (tasks \ Ordinary(b)) \cup
                  {[t EXCEPT !.pc = IF oracle[t.row] = 0 THEN "post" ELSE "apply",
                             !.class = IF oracle[t.row] = 0 THEN "MISSING" ELSE "present"] : t \in Ordinary(b)}
        BY <3>1, Zenon
      <3>2. CASE tasks' = (tasks \ Ordinary(b)) \cup {[t EXCEPT !.pc = "post"] : t \in Ordinary(b)}
        BY <3>2, Zenon
      <3>3. CASE tasks' = (tasks \ Ordinary(b)) \cup
                  {[t EXCEPT !.pc = "apply", !.class = "failed"] : t \in Ordinary(b)}
        BY <3>3, Zenon
      <3> QED
        BY <3>1, <3>2, <3>3, Zenon DEF CheckBatch
    <2>2. t \in Task /\ t.row \in Rows /\ t.row \notin Journal /\ Backed(t, frozen, posts, stored)
      BY TaskTyped DEF OutboxInv, ClaimsTrue, Ordinary
    <2>3. x \in Task
      BY <2>1, <2>2, Zenon DEF Task, Pcs, Classes
    <2>4. Backed(x, frozen, posts, stored)
      BY <2>1, <2>2, Zenon DEF Backed, Task, OutboxInv, OracleRemembered
    <2> QED
      BY <2>3, <2>4, Zenon DEF CheckBatch, intentVars
  <1>2. TypeInv'
    BY <1>1, FaultsTyped, Zenon DEF CheckBatch, OutboxInv, TypeInv, TypeOK, rowVars, intentVars
  <1>3. AuditsTrue' /\ OracleRemembered'
    BY Zenon DEF CheckBatch, OutboxInv, AuditsTrue, OracleRemembered
  <1> QED
    BY <1>1, <1>2, <1>3, QuietKeeps, Zenon DEF CheckBatch

LEMMA ApplyBatchFailsKeeps ==
    ASSUME OutboxInv, NEW b \in 1..Wrap, ApplyBatchFails(b) PROVE OutboxInv'
  <1>1. TypeInv'
    <2>1. lock' \in {AuditLock} \cup 0..Wrap
      BY OutboxAssumption DEF ApplyBatchFails, OutboxInv, TypeInv, TypeOK
    <2>2. tasks' \subseteq Task
      BY DEF ApplyBatchFails, OutboxInv, TypeInv, TypeOK
    <2> QED
      BY <2>1, <2>2, FaultsTyped DEF ApplyBatchFails, OutboxInv, TypeInv, TypeOK, rowVars, intentVars
  <1>2. AuditsTrue' /\ OracleRemembered'
    BY DEF ApplyBatchFails, OutboxInv, AuditsTrue, OracleRemembered
  <1> QED
    BY <1>1, <1>2, QuietKeeps DEF ApplyBatchFails

LEMMA FinishBatchKeeps == OutboxInv /\ FinishBatch => OutboxInv'
  <1> SUFFICES ASSUME OutboxInv, FinishBatch PROVE OutboxInv'
    OBVIOUS
  <1>1. TypeInv'
    BY OutboxAssumption DEF FinishBatch, OutboxInv, TypeInv, TypeOK, rowVars, intentVars
  <1>2. AuditsTrue' /\ OracleRemembered'
    BY DEF FinishBatch, OutboxInv, AuditsTrue, OracleRemembered
  <1> QED
    BY <1>1, <1>2, QuietKeeps DEF FinishBatch

(* The reply names what Oracle lacks now; the rest was stored.             *)
LEMMA AuditReplyKeeps ==
    ASSUME OutboxInv, NEW k \in AuditKinds, AuditReply(k) PROVE OutboxInv'
  <1>1. audits \in [AuditKinds -> Audit] /\ audits[k].rows \subseteq Rows
    BY DEF OutboxInv, TypeInv, Audit
  <1>2. audits' \in [AuditKinds -> Audit]
    BY <1>1 DEF AuditReply, Audit
  <1>3. TypeInv'
    BY <1>2, FaultsTyped, OutboxAssumption DEF AuditReply, OutboxInv, TypeInv, TypeOK, rowVars, intentVars
  <1>4. AuditsTrue'
    BY <1>1 DEF AuditReply, OutboxInv, AuditsTrue, OracleRemembered, Audit
  <1>5. OracleRemembered'
    BY DEF AuditReply, OutboxInv, OracleRemembered
  <1> QED
    BY <1>3, <1>4, <1>5, QuietKeeps DEF AuditReply

LEMMA EvidenceChangesKeeps ==
    ASSUME OutboxInv, NEW r \in Rows, EvidenceChanges(r) PROVE OutboxInv'
  <1>1. TypeInv'
    <2>1. evidence' \in [Rows -> Versions \cup {0}]
      BY DEF EvidenceChanges, OutboxInv, TypeInv, TypeOK
    <2> QED
      BY <2>1, FaultsTyped DEF EvidenceChanges, OutboxInv, TypeInv, TypeOK, rowVars, intentVars
  <1>2. AuditsTrue' /\ OracleRemembered'
    BY DEF EvidenceChanges, OutboxInv, AuditsTrue, OracleRemembered
  <1> QED
    BY <1>1, <1>2, QuietKeeps DEF EvidenceChanges

LEMMA OracleLosesKeeps ==
    ASSUME OutboxInv, NEW r \in Rows, OracleLoses(r) PROVE OutboxInv'
  <1>1. oracle' \in [Rows -> Versions \cup {0}] /\ OracleRemembered'
    BY DEF OracleLoses, OutboxInv, TypeInv, TypeOK, OracleRemembered
  <1>2. TypeInv'
    BY <1>1, FaultsTyped DEF OracleLoses, OutboxInv, TypeInv, TypeOK, rowVars, intentVars
  <1>3. AuditsTrue'
    BY DEF OracleLoses, OutboxInv, AuditsTrue
  <1> QED
    BY <1>1, <1>2, <1>3, QuietKeeps DEF OracleLoses

LEMMA CrashKeeps == OutboxInv /\ Crash => OutboxInv'
  <1> SUFFICES ASSUME OutboxInv, Crash PROVE OutboxInv'
    OBVIOUS
  <1>1. TypeInv'
    <2>1. audits' \in [AuditKinds -> Audit] /\ tasks' \subseteq Task
      BY DEF Crash, Audit, NoAudit
    <2> QED
      BY <2>1, FaultsTyped, OutboxAssumption DEF Crash, OutboxInv, TypeInv, TypeOK, rowVars, intentVars
  <1>2. AuditsTrue' /\ OracleRemembered'
    BY DEF Crash, OutboxInv, AuditsTrue, OracleRemembered, NoAudit
  <1> QED
    BY <1>1, <1>2, QuietKeeps DEF Crash

-----------------------------------------------------------------------------
(* Claiming and settling *)

(* What a step may do to a row: leave it, claim it, return or hold it, or  *)
(* acknowledge it on evidence that Oracle stored it.                       *)
LEMMA RowsSettled ==
    ASSUME OutboxInv, UNCHANGED <<frozen, stored>>,
           \A r \in Rows : receipts[r] \subseteq receipts'[r],
           \A r \in Rows :
             \/ /\ status'[r] = status[r] /\ eventStatus'[r] = eventStatus[r]
                /\ confirmed'[r] <=> confirmed[r]
             \/ /\ status'[r] = "IN_FLIGHT"
                /\ confirmed'[r] => confirmed[r]
             \/ /\ status'[r] \notin Acknowledged /\ eventStatus'[r] = status'[r]
                /\ confirmed'[r] => confirmed[r]
             \/ /\ eventStatus'[r] = status'[r] /\ stored[r] # {}
                /\ r \notin Journal
             \/ /\ eventStatus'[r] = status'[r] /\ stored[r] # {}
                /\ frozen[r] \in receipts'[r] /\ confirmed'[r]
                /\ r \in Membership \/ frozen[r] \in stored[r]
    PROVE RowsTrue'
  <1>1. RowAndEventAgree'
    BY DEF OutboxInv, RowsTrue, RowAndEventAgree
  <1>2. ConfirmedStored'
    BY DEF OutboxInv, RowsTrue, ConfirmedStored, Acknowledged
  <1>3. JournalConfirmed'
    BY OutboxAssumption DEF OutboxInv, RowsTrue, JournalConfirmed, Acknowledged
  <1>4. JournalCertified'
    BY OutboxAssumption DEF OutboxInv, RowsTrue, JournalCertified, Acknowledged
  <1> QED
    BY <1>1, <1>2, <1>3, <1>4 DEF RowsTrue

(* A step that settles rows and leaves the wire, the ledger's payloads and *)
(* Oracle alone.                                                           *)
LEMMA SettleKeeps ==
    ASSUME OutboxInv, UNCHANGED <<frozen, posts, oracle, stored, wire>>,
           TypeInv', RowsTrue', AuditsTrue',
           \A t \in tasks' : t \in tasks \/ Backed(t, frozen', posts', stored')
    PROVE OutboxInv'
  <1>1. EvidenceGrows
    BY DEF EvidenceGrows
  <1>2. ClaimsTrue'
    BY <1>1, ClaimsLater DEF OutboxInv
  <1>3. PostsTrue'
    BY <1>1, PostsLater DEF OutboxInv
  <1>4. OracleRemembered'
    BY DEF OutboxInv, OracleRemembered
  <1> QED
    BY <1>2, <1>3, <1>4 DEF OutboxInv

LEMMA ClaimBatchKeeps ==
    ASSUME OutboxInv, NEW stale \in StaleSets, NEW picked \in SUBSET Rows, NEW gate \in GateHolds,
           ClaimBatch(stale, picked, gate)
    PROVE OutboxInv'
  <1> DEFINE claimed == {r \in picked : evidence[r] # 0}
             next == 1 + (round % Wrap)
             new(r) == [row |-> r, attempt |-> attempt'[r], batch |-> next,
                        payload |-> evidence[r],
                        pc |-> IF r \in Journal THEN "split" ELSE "check",
                        class |-> "none", reply |-> "none"]
  <1>1. attempt' \in [Rows -> 0..(Wrap - 1)] /\ next \in 1..Wrap
    BY OutboxAssumption DEF ClaimBatch, OutboxInv, TypeInv, TypeOK
  <1>2. \A r \in claimed : new(r) \in Task /\ Backed(new(r), frozen', posts', stored')
    <2> SUFFICES ASSUME NEW r \in claimed
                 PROVE new(r) \in Task /\ Backed(new(r), frozen', posts', stored')
      OBVIOUS
    <2>1. r \in Rows /\ evidence[r] \in Versions /\ attempt'[r] \in 0..(Wrap - 1)
      BY <1>1 DEF OutboxInv, TypeInv, TypeOK
    <2> QED
      BY <1>1, <2>1 DEF Task, Pcs, Classes, Replies, Backed
  <1>3. \A x \in tasks' : x \in Task /\ (x \in tasks \/ Backed(x, frozen', posts', stored'))
    <2>1. tasks' = tasks \cup {new(r) : r \in claimed}
      BY DEF ClaimBatch
    <2>2. tasks \subseteq Task
      BY DEF OutboxInv, TypeInv, TypeOK
    <2> HIDE DEF new, claimed
    <2> QED
      BY <1>2, <2>1, <2>2
  <1>4. \A r \in Rows :
          /\ status'[r] \in Statuses /\ eventStatus'[r] \in Statuses
          /\ \/ status'[r] = status[r] /\ eventStatus'[r] = eventStatus[r]
             \/ status'[r] = "IN_FLIGHT"
             \/ status'[r] \notin Acknowledged /\ eventStatus'[r] = status'[r]
    BY DEF ClaimBatch, OutboxInv, TypeInv, TypeOK, Statuses, Eligible, Held, GateHolds, Acknowledged
  <1>5. TypeInv'
    <2>1. status' \in [Rows -> Statuses] /\ eventStatus' \in [Rows -> Statuses]
      BY <1>4 DEF ClaimBatch
    <2>2. round' \in 0..Wrap /\ lock' \in {AuditLock} \cup 0..Wrap
      BY <1>1, OutboxAssumption DEF ClaimBatch, OutboxInv, TypeInv, TypeOK
    <2>3. Fault \/ UNCHANGED faults
      BY DEF ClaimBatch
    <2>4. UNCHANGED <<confirmed, evidence, frozen, posts, receipts, oracle, stored, wire, audits>>
      BY DEF ClaimBatch
    <2> QED
      BY <1>1, <1>3, <2>1, <2>2, <2>3, <2>4, FaultsTyped DEF OutboxInv, TypeInv, TypeOK
  <1>6. UNCHANGED <<confirmed, frozen, posts, receipts, oracle, stored, wire, audits>>
    BY DEF ClaimBatch
  <1>7. RowsTrue'
    BY <1>4, <1>6, RowsSettled
  <1>8. AuditsTrue'
    BY <1>6 DEF OutboxInv, AuditsTrue
  <1> QED
    BY <1>3, <1>5, <1>6, <1>7, <1>8, SettleKeeps

(* _hold, _retry and the confirmation change one row.                      *)
LEMMA OneRow ==
    ASSUME OutboxInv, NEW r \in Rows, NEW s \in Statuses, NEW c \in BOOLEAN,
           SetBoth({r}, s), confirmed' = [confirmed EXCEPT ![r] = c]
    PROVE /\ status' \in [Rows -> Statuses] /\ eventStatus' \in [Rows -> Statuses]
          /\ confirmed' \in [Rows -> BOOLEAN]
          /\ status'[r] = s /\ eventStatus'[r] = s /\ (confirmed'[r] <=> c)
          /\ \A q \in Rows \ {r} : /\ status'[q] = status[q] /\ eventStatus'[q] = eventStatus[q]
                                   /\ confirmed'[q] <=> confirmed[q]
  BY DEF OutboxInv, TypeInv, TypeOK, SetBoth

(* The claim ends and its row is held or returned.                         *)
LEMMA UnconfirmKeeps ==
    ASSUME OutboxInv, NEW t \in tasks, NEW s \in {"QUARANTINED_IDENTITY_CONFLICT", "FAILED_RETRYABLE"},
           Unconfirm(t.row, s), tasks' = tasks \ {t}, Fault \/ UNCHANGED faults,
           UNCHANGED <<attempt, evidence, intentVars, oracle, stored, wire, lock, round, audits>>
    PROVE OutboxInv'
  <1>1. t.row \in Rows /\ s \in Statuses /\ s \notin Acknowledged
    BY TaskTyped DEF OutboxInv, Statuses, Eligible, Held, Acknowledged
  <1>2. /\ status' \in [Rows -> Statuses] /\ eventStatus' \in [Rows -> Statuses]
        /\ confirmed' \in [Rows -> BOOLEAN]
        /\ status'[t.row] = s /\ eventStatus'[t.row] = s /\ ~confirmed'[t.row]
        /\ \A q \in Rows \ {t.row} : /\ status'[q] = status[q] /\ eventStatus'[q] = eventStatus[q]
                                     /\ confirmed'[q] <=> confirmed[q]
    BY <1>1, OneRow, Zenon DEF Unconfirm
  <1>3. TypeInv'
    BY <1>2, FaultsTyped DEF OutboxInv, TypeInv, TypeOK, intentVars
  <1>4. RowsTrue'
    <2>1. \A q \in Rows :
            \/ /\ status'[q] = status[q] /\ eventStatus'[q] = eventStatus[q]
               /\ confirmed'[q] <=> confirmed[q]
            \/ /\ status'[q] \notin Acknowledged /\ eventStatus'[q] = status'[q]
               /\ confirmed'[q] => confirmed[q]
      <3> TAKE q \in Rows
      <3>1. CASE q = t.row
        BY <1>1, <1>2, <3>1, Zenon
      <3>2. CASE q \in Rows \ {t.row}
        BY <1>1, <1>2, <3>2, Zenon
      <3> QED
        BY <3>1, <3>2, Zenon
    <2>2. UNCHANGED <<frozen, stored, receipts>>
      BY DEF intentVars
    <2> QED
      BY <2>1, <2>2, RowsSettled
  <1>5. AuditsTrue'
    BY DEF OutboxInv, AuditsTrue
  <1> QED
    BY <1>3, <1>4, <1>5, SettleKeeps DEF intentVars

LEMMA SplitClaimKeeps ==
    ASSUME OutboxInv, NEW t \in tasks, SplitClaim(t) PROVE OutboxInv'
  <1>1. t \in Task /\ t.row \in Rows /\ t.payload \in Versions /\ Backed(t, frozen, posts, stored)
    BY TaskTyped DEF OutboxInv, ClaimsTrue
  <1>2. CASE tasks' = tasks \ {t} /\ UNCHANGED <<status, eventStatus, confirmed, frozen, faults>>
    <2>1. TypeInv'
      BY <1>2 DEF SplitClaim, OutboxInv, TypeInv, TypeOK
    <2>2. AuditsTrue' /\ OracleRemembered'
      BY DEF SplitClaim, OutboxInv, AuditsTrue, OracleRemembered
    <2> QED
      BY <1>2, <2>1, <2>2, QuietKeeps DEF SplitClaim, rowVars, intentVars
  <1>3. CASE /\ status[t.row] = "IN_FLIGHT" /\ Fits(t)
             /\ frozen' = [frozen EXCEPT ![t.row] = t.payload]
             /\ Replace(t, [t EXCEPT !.pc = "check"])
             /\ UNCHANGED <<status, eventStatus, confirmed, faults>>
    <2> DEFINE u == [t EXCEPT !.pc = "check"]
    <2>1. u \in Task
      BY <1>1, TaskMoves, Zenon DEF Pcs
    <2>2. /\ frozen' \in [Rows -> Versions \cup {0}] /\ frozen'[t.row] = t.payload
          /\ \A q \in Rows : frozen[q] # 0 \/ q # t.row => frozen'[q] = frozen[q]
      BY <1>1, <1>3 DEF Fits, OutboxInv, TypeInv, TypeOK
    <2>3. EvidenceGrows
      BY <2>2 DEF EvidenceGrows, SplitClaim
    <2>4. TypeInv'
      <3>1. tasks' \subseteq Task
        BY <1>3, <2>1 DEF Replace, OutboxInv, TypeInv, TypeOK
      <3> QED
        BY <1>3, <2>2, <3>1 DEF SplitClaim, OutboxInv, TypeInv, TypeOK
    <2>5. Backed(u, frozen', posts', stored')
      BY <1>1, <2>2 DEF Backed, SplitClaim, Task
    <2>6. ClaimsTrue'
      BY <1>3, <2>3, <2>5, ClaimsLater, Zenon DEF OutboxInv, Replace
    <2>7. RowsTrue'
      <3>1. JournalCertified'
        BY <1>3, <2>2, OutboxAssumption DEF SplitClaim, OutboxInv, RowsTrue, JournalCertified
      <3> QED
        BY <1>3, <3>1 DEF SplitClaim, OutboxInv, RowsTrue, JournalConfirmed, ConfirmedStored, RowAndEventAgree
    <2>8. PostsTrue'
      <3> SUFFICES ASSUME NEW q \in Journal
                   PROVE /\ stored[q] \subseteq {frozen'[q]}
                         /\ \A w \in wire : w.row = q => w.payload = frozen'[q]
        BY DEF SplitClaim, OutboxInv, PostsTrue, OneFrozenPayload, PostsAccounted
      <3>1. /\ stored[q] \subseteq {frozen[q]} /\ stored[q] \subseteq Versions
            /\ \A w \in wire : w.row = q => w.payload = frozen[q] /\ w.payload \in Versions
        BY OutboxAssumption DEF OutboxInv, PostsTrue, OneFrozenPayload, TypeInv, TypeOK, Request
      <3>2. 0 \notin Versions /\ q \in Rows
        BY OutboxAssumption
      <3> QED
        BY <2>2, <3>1, <3>2
    <2> QED
      BY <2>3, <2>4, <2>6, <2>7, <2>8, AuditsLater DEF OutboxInv, SplitClaim, OracleRemembered
  <1>4. CASE /\ Hold(t.row) \/ Retry(t.row)
             /\ tasks' = tasks \ {t} /\ UNCHANGED frozen /\ (Fault \/ UNCHANGED faults)
    BY <1>4, UnconfirmKeeps DEF SplitClaim, Hold, Retry, intentVars
  <1> QED
    BY <1>2, <1>3, <1>4 DEF SplitClaim

LEMMA PersistResultKeeps ==
    ASSUME OutboxInv, NEW t \in tasks, PersistResult(t) PROVE OutboxInv'
  <1>1. /\ t \in Task /\ t.row \in Rows /\ t.payload \in Versions /\ Backed(t, frozen, posts, stored)
        /\ tasks' = tasks \ {t} /\ t.row \in Journal
        /\ UNCHANGED <<attempt, evidence, frozen, posts, oracle, stored, wire, lock, round, audits, faults>>
    BY TaskTyped DEF OutboxInv, ClaimsTrue, PersistResult
  <1>2. AuditsTrue' /\ OracleRemembered'
    BY <1>1, Zenon DEF OutboxInv, AuditsTrue, OracleRemembered
  <1>3. CASE UNCHANGED <<status, eventStatus, confirmed, receipts>>
    <2>1. TypeInv'
      BY <1>1, <1>3 DEF OutboxInv, TypeInv, TypeOK
    <2> QED
      BY <1>1, <1>2, <1>3, <2>1, QuietKeeps DEF rowVars, intentVars
  <1>4. CASE /\ Owned(t) /\ Confirm(t.row)
             /\ receipts' = [receipts EXCEPT ![t.row] = @ \cup {t.payload}]
             /\ \/ t.class = "MATCH"
                \/ t.class = "UID_PRESENT" /\ t.row \in Membership
    <2>1. "ACKED_CHECK" \in Statuses
      BY DEF Statuses, Acknowledged
    <2>2. /\ status' \in [Rows -> Statuses] /\ eventStatus' \in [Rows -> Statuses]
          /\ confirmed' \in [Rows -> BOOLEAN]
          /\ status'[t.row] = "ACKED_CHECK" /\ eventStatus'[t.row] = "ACKED_CHECK" /\ confirmed'[t.row]
          /\ \A q \in Rows \ {t.row} : /\ status'[q] = status[q] /\ eventStatus'[q] = eventStatus[q]
                                       /\ confirmed'[q] <=> confirmed[q]
      BY <1>1, <1>4, <2>1, OneRow, Zenon DEF Confirm
    <2>3. /\ receipts' \in [Rows -> SUBSET Versions] /\ t.payload \in receipts'[t.row]
          /\ \A r \in Rows : receipts[r] \subseteq receipts'[r]
      BY <1>1, <1>4 DEF OutboxInv, TypeInv, TypeOK
    <2>4. TypeInv'
      BY <1>1, <2>2, <2>3 DEF OutboxInv, TypeInv, TypeOK
    <2>5. /\ frozen[t.row] = t.payload /\ stored[t.row] # {}
          /\ t.row \in Membership \/ frozen[t.row] \in stored[t.row]
      BY <1>1, <1>4, Zenon DEF Owned, Backed
    <2>6. RowsTrue'
      <3>1. \A q \in Rows :
              \/ /\ status'[q] = status[q] /\ eventStatus'[q] = eventStatus[q]
                 /\ confirmed'[q] <=> confirmed[q]
              \/ /\ eventStatus'[q] = status'[q] /\ stored[q] # {}
                 /\ frozen[q] \in receipts'[q] /\ confirmed'[q]
                 /\ q \in Membership \/ frozen[q] \in stored[q]
        <4> TAKE q \in Rows
        <4>1. CASE q = t.row
          BY <2>2, <2>3, <2>5, <4>1, Zenon
        <4>2. CASE q \in Rows \ {t.row}
          BY <2>2, <2>3, <2>5, <4>2, Zenon
        <4> QED
          BY <4>1, <4>2, Zenon
      <3> QED
        BY <1>1, <2>3, <3>1, RowsSettled
    <2> QED
      BY <1>1, <1>2, <2>4, <2>6, SettleKeeps
  <1>5. CASE UNCHANGED receipts /\ (Hold(t.row) \/ Retry(t.row))
    BY <1>1, <1>5, UnconfirmKeeps DEF Hold, Retry, intentVars
  <1> QED
    BY <1>3, <1>4, <1>5 DEF PersistResult

(* apply_ords_batch_results acknowledges on a stored copy only, and never  *)
(* touches a journal row.                                                  *)
LEMMA ApplyBatchKeeps ==
    ASSUME OutboxInv, NEW b \in 1..Wrap, ApplyBatch(b) PROVE OutboxInv'
  <1> DEFINE B == Ordinary(b)
             mine == {t.row : t \in {u \in B : ConfirmationAllowed(u.row)}}
             pick(r) == CHOOSE t \in B : t.row = r
             result == [r \in mine |-> Outcome(pick(r))]
  <1>1. \A r \in mine : pick(r) \in B /\ pick(r).row = r
    <2> SUFFICES ASSUME NEW r \in mine PROVE pick(r) \in B /\ pick(r).row = r
      OBVIOUS
    <2>1. \E t \in B : t.row = r
      OBVIOUS
    <2> QED
      BY <2>1
  <1>2. \A t \in B : /\ t.row \in Rows /\ t.row \notin Journal /\ Outcome(t) \in Statuses
                     /\ Outcome(t) \in Acknowledged => stored[t.row] # {}
    <2> SUFFICES ASSUME NEW t \in B
                 PROVE /\ t.row \in Rows /\ t.row \notin Journal /\ Outcome(t) \in Statuses
                       /\ Outcome(t) \in Acknowledged => stored[t.row] # {}
      OBVIOUS
    <2>1. t \in tasks /\ t.row \notin Journal /\ t.row \in Rows /\ Backed(t, frozen, posts, stored)
      BY TaskTyped DEF Ordinary, OutboxInv, ClaimsTrue
    <2> QED
      BY <2>1 DEF Outcome, Backed, Statuses, Eligible, Acknowledged, Held
  <1>3. \A r \in mine : /\ r \in Rows \ Journal /\ result[r] \in Statuses
                        /\ result[r] \in Acknowledged => stored[r] # {}
    <2> SUFFICES ASSUME NEW r \in mine
                 PROVE /\ r \in Rows \ Journal /\ result[r] \in Statuses
                       /\ result[r] \in Acknowledged => stored[r] # {}
      BY Zenon
    <2>1. result[r] = Outcome(pick(r)) /\ pick(r) \in B /\ pick(r).row = r
      BY <1>1
    <2> HIDE DEF pick, result, mine
    <2> QED
      BY <1>2, <2>1
  <1>4. /\ status' = [r \in Rows |-> IF r \in mine THEN result[r] ELSE status[r]]
        /\ eventStatus' = [r \in Rows |-> IF r \in mine THEN result[r] ELSE eventStatus[r]]
        /\ confirmed' = [r \in Rows |-> confirmed[r] \/ (r \in mine /\ result[r] \in Acknowledged)]
        /\ tasks' = tasks \ B
        /\ UNCHANGED <<attempt, evidence, frozen, posts, receipts, oracle, stored, wire, lock, round, audits, faults>>
    BY DEF ApplyBatch, intentVars
  <1> HIDE DEF mine, result
  <1>5. TypeInv'
    <2>1. status' \in [Rows -> Statuses] /\ eventStatus' \in [Rows -> Statuses]
      BY <1>3, <1>4 DEF OutboxInv, TypeInv, TypeOK
    <2>2. confirmed' \in [Rows -> BOOLEAN]
      BY <1>4
    <2> QED
      BY <1>4, <2>1, <2>2 DEF OutboxInv, TypeInv, TypeOK
  <1>6. \A r \in Rows :
          \/ /\ status'[r] = status[r] /\ eventStatus'[r] = eventStatus[r]
             /\ confirmed'[r] <=> confirmed[r]
          \/ /\ status'[r] \notin Acknowledged /\ eventStatus'[r] = status'[r]
             /\ confirmed'[r] => confirmed[r]
          \/ /\ eventStatus'[r] = status'[r] /\ stored[r] # {}
             /\ r \notin Journal
    <2> TAKE r \in Rows
    <2>1. CASE r \notin mine
      BY <1>4, <2>1, Zenon
    <2>2. CASE r \in mine /\ result[r] \in Acknowledged
      BY <1>3, <1>4, <2>2
    <2>3. CASE r \in mine /\ result[r] \notin Acknowledged
      BY <1>4, <2>3, Zenon
    <2> QED
      BY <2>1, <2>2, <2>3, Zenon
  <1>7. RowsTrue'
    BY <1>4, <1>6, RowsSettled, Zenon
  <1>8. AuditsTrue'
    BY <1>4 DEF OutboxInv, AuditsTrue
  <1> QED
    BY <1>4, <1>5, <1>7, <1>8, SettleKeeps

LEMMA AuditClaimKeeps ==
    ASSUME OutboxInv, NEW k \in AuditKinds, AuditClaim(k) PROVE OutboxInv'
  <1>1. PICK S \in SUBSET Auditable(k) :
          /\ audits' = [audits EXCEPT ![k] = [NoAudit EXCEPT !.pc = "request", !.rows = S]]
          /\ SetBoth(S, Verifying(k))
          /\ attempt' = [r \in Rows |-> IF r \in S THEN (attempt[r] + 1) % Wrap ELSE attempt[r]]
          /\ confirmed' = [r \in Rows |-> confirmed[r] /\ ~(k = "firmware" /\ r \in S)]
    BY Zenon DEF AuditClaim
  <1>2. S \subseteq Rows \ Journal /\ Verifying(k) \in Statuses \ Acknowledged
    BY DEF Auditable, FirmwareDue, ConfirmedDue, Verifying, Statuses, Auditing, Acknowledged
  <1>3. audits' \in [AuditKinds -> Audit] /\ AuditsTrue'
    <2>1. [NoAudit EXCEPT !.pc = "request", !.rows = S] \in Audit
          /\ [NoAudit EXCEPT !.pc = "request", !.rows = S].pc = "request"
      BY <1>2, Zenon DEF NoAudit, Audit
    <2>2. audits \in [AuditKinds -> Audit] /\ AuditsTrue /\ UNCHANGED stored
      BY DEF OutboxInv, TypeInv, AuditClaim
    <2> QED
      BY <1>1, <2>1, <2>2 DEF AuditsTrue
  <1>4. UNCHANGED <<evidence, frozen, posts, receipts, oracle, stored, tasks, wire, round, faults>> /\ lock' = AuditLock
    BY DEF AuditClaim, intentVars
  <1>5. TypeInv'
    <2>1. status' \in [Rows -> Statuses] /\ eventStatus' \in [Rows -> Statuses]
      BY <1>1, <1>2 DEF SetBoth, OutboxInv, TypeInv, TypeOK
    <2>2. attempt' \in [Rows -> 0..(Wrap - 1)]
      BY <1>1, OutboxAssumption DEF OutboxInv, TypeInv, TypeOK
    <2>3. confirmed' \in [Rows -> BOOLEAN]
      BY <1>1
    <2> QED
      BY <1>3, <1>4, <2>1, <2>2, <2>3 DEF OutboxInv, TypeInv, TypeOK
  <1>6. \A r \in Rows :
          \/ /\ status'[r] = status[r] /\ eventStatus'[r] = eventStatus[r]
             /\ confirmed'[r] <=> confirmed[r]
          \/ /\ status'[r] \notin Acknowledged /\ eventStatus'[r] = status'[r]
             /\ confirmed'[r] => confirmed[r]
    <2> TAKE r \in Rows
    <2>1. CASE r \notin S
      BY <1>1, <2>1 DEF SetBoth, OutboxInv, TypeInv, TypeOK
    <2>2. CASE r \in S
      BY <1>1, <1>2, <2>2, Zenon DEF SetBoth
    <2> QED
      BY <2>1, <2>2
  <1>7. RowsTrue'
    BY <1>4, <1>6, RowsSettled
  <1> QED
    BY <1>3, <1>4, <1>5, <1>7, SettleKeeps

LEMMA AuditApplyKeeps ==
    ASSUME OutboxInv, NEW k \in AuditKinds, AuditApply(k) PROVE OutboxInv'
  <1> DEFINE S == audits[k].rows
             verdict == [r \in S |-> AuditVerdict(k, r)]
  <1>1. /\ audits[k].pc = "apply" /\ S \subseteq Rows \ Journal
        /\ ~audits[k].failed => \A r \in S \ audits[k].missing : stored[r] # {}
    BY DEF AuditApply, OutboxInv, TypeInv, Audit, AuditsTrue
  <1>2. \A r \in S : /\ verdict[r] \in Statuses
                     /\ verdict[r] \in Acknowledged => stored[r] # {}
                     /\ verdict[r] # "ACKED_CHECK" => verdict[r] \notin Acknowledged
    BY <1>1 DEF AuditVerdict, FirmwareVerdict, ConfirmedVerdict, AuditKinds, Statuses, Auditing,
                Acknowledged, Eligible
  <1>3. /\ status' = [r \in Rows |-> IF r \in S THEN verdict[r] ELSE status[r]]
        /\ eventStatus' = [r \in Rows |-> IF r \in S THEN verdict[r] ELSE eventStatus[r]]
        /\ confirmed' = [r \in Rows |->
              IF r \notin S THEN confirmed[r]
              ELSE \/ verdict[r] = "ACKED_CHECK"
                   \/ verdict[r] = "MEMBERSHIP_REVERIFY_RETRY" /\ confirmed[r]]
        /\ audits' = [audits EXCEPT ![k] = NoAudit]
        /\ UNCHANGED <<attempt, evidence, frozen, posts, receipts, oracle, stored, tasks, wire, lock, round, faults>>
    BY DEF AuditApply, intentVars
  <1> HIDE DEF verdict, S
  <1>4. audits' \in [AuditKinds -> Audit] /\ AuditsTrue'
    <2>1. NoAudit \in Audit /\ NoAudit.pc = "idle"
      BY DEF NoAudit, Audit
    <2> QED
      BY <1>3, <2>1 DEF OutboxInv, TypeInv, AuditsTrue
  <1>5. TypeInv'
    <2>1. status' \in [Rows -> Statuses] /\ eventStatus' \in [Rows -> Statuses]
      BY <1>2, <1>3 DEF OutboxInv, TypeInv, TypeOK
    <2>2. confirmed' \in [Rows -> BOOLEAN]
      BY <1>3, Zenon DEF OutboxInv, TypeInv, TypeOK
    <2> QED
      BY <1>3, <1>4, <2>1, <2>2, Zenon DEF OutboxInv, TypeInv, TypeOK
  <1>6. \A r \in Rows :
          \/ /\ status'[r] = status[r] /\ eventStatus'[r] = eventStatus[r]
             /\ confirmed'[r] <=> confirmed[r]
          \/ /\ status'[r] \notin Acknowledged /\ eventStatus'[r] = status'[r]
             /\ confirmed'[r] => confirmed[r]
          \/ /\ eventStatus'[r] = status'[r] /\ stored[r] # {}
             /\ r \notin Journal
    <2> TAKE r \in Rows
    <2>1. CASE r \notin S
      BY <1>3, <2>1
    <2>2. CASE r \in S /\ verdict[r] = "ACKED_CHECK"
      <3>1. "ACKED_CHECK" \in Acknowledged
        BY DEF Acknowledged
      <3> QED
        BY <1>1, <1>2, <1>3, <2>2, <3>1 DEF S
    <2>3. CASE r \in S /\ verdict[r] # "ACKED_CHECK"
      BY <1>2, <1>3, <2>3
    <2> QED
      BY <2>1, <2>2, <2>3
  <1>7. RowsTrue'
    BY <1>3, <1>6, RowsSettled, Zenon
  <1> QED
    BY <1>3, <1>4, <1>5, <1>7, SettleKeeps

-----------------------------------------------------------------------------
LEMMA NextKeeps == OutboxInv /\ [Next]_vars => OutboxInv'
  <1> SUFFICES ASSUME OutboxInv, [Next]_vars PROVE OutboxInv'
    OBVIOUS
  <1>1. CASE UNCHANGED vars
    <2>1. TypeInv' /\ AuditsTrue' /\ OracleRemembered'
      BY <1>1 DEF vars, OutboxInv, TypeInv, TypeOK, AuditsTrue, OracleRemembered
    <2> QED
      BY <1>1, <2>1, QuietKeeps DEF vars, rowVars, intentVars
  <1>2. CASE Claim
    <2>1. PICK stale \in StaleSets : \E picked \in SUBSET Rows :
            \E gate \in GateHolds : ClaimBatch(stale, picked, gate)
      BY <1>2 DEF Claim
    <2> QED
      BY <2>1, ClaimBatchKeeps
  <1>3. ASSUME NEW t \in tasks, TaskStep(t) PROVE OutboxInv'
    BY <1>3, SplitClaimKeeps, VerifyKeeps, ReservePostKeeps, SendPostKeeps, ReplyLostKeeps,
       VerifyAgainKeeps, PersistResultKeeps, PersistFailsKeeps DEF TaskStep
  <1>4. ASSUME NEW b \in 1..Wrap, BatchStep(b) PROVE OutboxInv'
    BY <1>4, CheckBatchKeeps, ApplyBatchKeeps, ApplyBatchFailsKeeps DEF BatchStep
  <1>5. ASSUME NEW k \in AuditKinds, AuditStep(k) PROVE OutboxInv'
    BY <1>5, AuditClaimKeeps, AuditReplyKeeps, AuditApplyKeeps DEF AuditStep
  <1>6. ASSUME NEW r \in Rows, EvidenceChanges(r) \/ OracleLoses(r) PROVE OutboxInv'
    BY <1>6, EvidenceChangesKeeps, OracleLosesKeeps
  <1> QED
    BY <1>1, <1>2, <1>3, <1>4, <1>5, <1>6, FinishBatchKeeps, CrashKeeps, OracleAnswersKeeps DEF Next

LEMMA InvAlways == Spec => []OutboxInv
  BY InitHolds, NextKeeps, PTL DEF Spec

(* The worker, the journal lane and the audits together keep row, event,   *)
(* ledger, receipts and Oracle in agreement, for any number of rows,       *)
(* payload versions and faults.                                            *)
THEOREM RowsConsistentInvariant == Spec => []RowsConsistent
  <1>1. OutboxInv => RowsConsistent
    BY DEF OutboxInv, RowsConsistent, TypeInv, RowsTrue, PostsTrue
  <1> QED
    BY <1>1, InvAlways, PTL

(* A step that settles leaves confirmed journal rows alone: claims take    *)
(* only IN_FLIGHT and eligible rows, a journal result needs an IN_FLIGHT   *)
(* row, and ordinary results and audits take no journal rows.              *)
LEMMA ConfirmedStays ==
    ASSUME OutboxInv, [Next]_vars, NEW r \in Journal, status[r] = "ACKED_CHECK"
    PROVE status'[r] = "ACKED_CHECK" /\ confirmed'[r]
  <1>1. confirmed[r] /\ r \in Rows
    BY OutboxAssumption DEF OutboxInv, RowsTrue, JournalConfirmed
  <1>2. CASE UNCHANGED rowVars
    BY <1>1, <1>2 DEF rowVars
  <1>3. CASE Claim
    <2>1. PICK stale \in StaleSets : \E picked \in SUBSET {q \in Rows : status[q] \in Eligible \/ q \in stale} :
            \E gate \in GateHolds : ClaimBatch(stale, picked, gate)
      BY <1>3 DEF Claim
    <2>2. PICK picked \in SUBSET {q \in Rows : status[q] \in Eligible \/ q \in stale}, gate \in GateHolds :
            ClaimBatch(stale, picked, gate)
      BY <2>1
    <2>3. r \notin stale /\ r \notin picked
      BY DEF StaleSets, Eligible
    <2> QED
      BY <1>1, <2>2, <2>3 DEF ClaimBatch
  <1>4. ASSUME NEW t \in tasks, SplitClaim(t) \/ PersistResult(t)
        PROVE status'[r] = "ACKED_CHECK" /\ confirmed'[r]
    <2>1. UNCHANGED <<status, confirmed>>
          \/ /\ status[t.row] = "IN_FLIGHT"
             /\ \E s \in Statuses, c \in BOOLEAN :
                   SetBoth({t.row}, s) /\ confirmed' = [confirmed EXCEPT ![t.row] = c]
      BY <1>4, Zenon DEF SplitClaim, PersistResult, Owned, Hold, Retry, Unconfirm, Confirm,
                  Statuses, Eligible, Held, Acknowledged
    <2>2. CASE UNCHANGED <<status, confirmed>>
      BY <1>1, <2>2
    <2>3. ASSUME status[t.row] = "IN_FLIGHT", NEW s \in Statuses, NEW c \in BOOLEAN,
                 SetBoth({t.row}, s), confirmed' = [confirmed EXCEPT ![t.row] = c]
          PROVE status'[r] = "ACKED_CHECK" /\ confirmed'[r]
      <3>1. r # t.row /\ t.row \in Rows
        BY <2>3, TaskTyped DEF OutboxInv
      <3> QED
        BY <1>1, <2>3, <3>1, OneRow, Zenon
    <2> QED
      BY <2>1, <2>2, <2>3
  <1>5. ASSUME NEW b \in 1..Wrap, ApplyBatch(b)
        PROVE status'[r] = "ACKED_CHECK" /\ confirmed'[r]
    <2>1. r \notin {t.row : t \in {u \in Ordinary(b) : ConfirmationAllowed(u.row)}}
      BY DEF Ordinary
    <2> QED
      BY <1>1, <1>5, <2>1, Zenon DEF ApplyBatch
  <1>6. ASSUME NEW k \in AuditKinds, AuditClaim(k)
        PROVE status'[r] = "ACKED_CHECK" /\ confirmed'[r]
    BY <1>1, <1>6, Zenon DEF AuditClaim, SetBoth, Auditable, FirmwareDue, ConfirmedDue
  <1>7. ASSUME NEW k \in AuditKinds, AuditApply(k)
        PROVE status'[r] = "ACKED_CHECK" /\ confirmed'[r]
    <2>1. r \notin audits[k].rows
      BY DEF OutboxInv, TypeInv, Audit
    <2> QED
      BY <1>1, <1>7, <2>1 DEF AuditApply
  <1>8. \/ UNCHANGED rowVars \/ Claim
        \/ \E t \in tasks : SplitClaim(t) \/ PersistResult(t)
        \/ \E b \in 1..Wrap : ApplyBatch(b)
        \/ \E k \in AuditKinds : AuditClaim(k) \/ AuditApply(k)
    BY Zenon DEF Next, vars, rowVars, TaskStep, BatchStep, AuditStep, Verify, ReservePost, SendPost, ReplyLost,
           VerifyAgain, PersistFails, CheckBatch, ApplyBatchFails, FinishBatch, OracleAnswers, AuditReply,
           EvidenceChanges, OracleLoses, Crash
  <1> QED
    BY <1>2, <1>3, <1>4, <1>5, <1>6, <1>7, <1>8

(* persist_result, claim_ords_batch and the audits: once a journal punch   *)
(* is confirmed no late claim, stale recovery or audit takes it back.      *)
THEOREM JournalConfirmationAlways == Spec => JournalConfirmationFinal
  <1>1. OutboxInv /\ [Next]_vars =>
          [\A r \in Journal : status[r] = "ACKED_CHECK" =>
             status'[r] = "ACKED_CHECK" /\ confirmed'[r]]_vars
    BY ConfirmedStays
  <1> QED
    BY <1>1, InvAlways, PTL DEF Spec, JournalConfirmationFinal
=============================================================================
