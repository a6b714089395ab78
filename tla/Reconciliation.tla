--------------------------- MODULE Reconciliation ---------------------------
(***************************************************************************)
(* Full-history reconciliation of one ZKT terminal: the Zone Lite reader   *)
(* scans the terminal's record log for an ADD job, ADD commits the scan    *)
(* chunk by chunk into a per-epoch ledger, certifies the job, and from     *)
(* then on the reader extends the certified coverage with a live tail.     *)
(*                                                                         *)
(*   ADD     apps/add_backend/zk_add/reconciliation.py,                    *)
(*           source_newest_slot.py, source_tail_authority.py, web.py       *)
(*   reader  firmware/zone_lite/main/zone_lite.c, add_connector.c          *)
(*                                                                         *)
(* The terminal's count may be one ahead of the punches it has written.    *)
(* Its newest slot then reads as zero bytes, as a copy of an earlier       *)
(* record or as an unrelated punch; the next punch fills the slot.         *)
(*                                                                         *)
(* A record is a number: n in Punches is the n-th punch of the terminal    *)
(* (its number is also its time), Blank is bytes that decode to no punch,  *)
(* Ghost decodes to a punch nobody made.  A digest chain is the sequence   *)
(* of chunks it was computed from.                                         *)
(***************************************************************************)
EXTENDS Integers, Sequences, FiniteSets, FiniteSetsExt, Functions, TLC

CONSTANTS
    MaxPunch,      \* punches the terminal records
    MaxJobs,       \* reconciliation jobs operators create
    MaxEpoch,      \* source epochs: the first and the recovery epochs a day admits
    ChunkRecords,  \* reconciliation_chunk_records
    MaxChunks,     \* chunks of one assignment's credit
    TailRecords,   \* records of one tail message (100 in the reader)
    Plans          \* the fault and operator budgets a behaviour may start with

ASSUME ReconciliationAssumption ==
    /\ MaxPunch \in Nat \ {0} /\ MaxJobs \in Nat \ {0} /\ MaxEpoch \in Nat \ {0}
    /\ ChunkRecords \in Nat \ {0} /\ MaxChunks \in Nat \ {0} /\ TailRecords \in Nat \ {0}

Punches == 1..MaxPunch
Blank == 0
Ghost == MaxPunch + 1
Unset == -1
Decodes(v) == v # Blank
Time(v) == IF v = Ghost THEN 0 ELSE v

VARIABLES
    log,       \* the records the terminal has written, oldest first
    stale,     \* what the unwritten newest slot reads as, or Unset
    made,      \* punches made so far
    kept,      \* (history) the terminal never changed a record it had written
    outrun,    \* (history) a tail inside the range of a newer certificate ended the coverage
    att,       \* ADD's attendance: per record value "none", "live" or "source"
    conf,      \* attendance Oracle has confirmed
    epoch,     \* sequence of the ACTIVE source epoch
    rows,      \* per epoch, the canonical terminal_record_manifest rows by ordinal
    receipts,  \* re-read and tail-replay receipts that decode as a punch
    jobs,      \* reconciliation_jobs
    cov,       \* the active reconciliation_coverage, or NoCoverage
    sess,      \* the device stream: "off" (rebooting), "down", "opening", "open"
    boot,      \* the coverage push the bootstrap read
    owed,      \* coverage_push_outstanding
    up,        \* messages of this stream ADD has not handled
    late,      \* a message of the previous stream ADD is still handling
    dev,       \* the reader's certificate (certified flag, epoch, chain) and its last
               \* acknowledged chunk (job, ordinal)
    pushq,     \* the reader's coverage queue of one
    asgq,      \* the reader's assignment queue of one
    grant,     \* the assignment an open transaction of the worker read, or <<>>
    work,      \* the source step the reader waits in, or <<>>
    pass,      \* the reader's loop: 1 coverage taken, 2 assignment taken too, 0 neither
    left       \* what is left of the fault and operator budgets

terminalVars == <<log, stale, made, kept, outrun>>
ledgerVars == <<att, conf, epoch, rows, receipts>>
linkVars == <<sess, boot, owed>>
deviceVars == <<dev, pushq, asgq, work, pass, grant>>
vars == <<terminalVars, ledgerVars, jobs, cov, linkVars, up, late, deviceVars, left>>

-----------------------------------------------------------------------------
(* The terminal (external): a record log read through zk_get_counts and    *)
(* zk_prepare_bounded_buffer.                                              *)

Seen == IF stale = Unset THEN log ELSE Append(log, stale)
Count == Len(Seen)
Record(o) == Seen[o + 1]
Read(from, to) == SubSeq(Seen, from + 1, to)

StaleReads(l) ==
    {Unset} \cup (IF "blank" \in left.stale THEN {Blank} ELSE {})
            \cup (IF "ghost" \in left.stale THEN {Ghost} ELSE {})
            \cup (IF "copy" \in left.stale THEN {Head(l)} ELSE {})

-----------------------------------------------------------------------------
(* Chains, rows and jobs                                                   *)

Chunk(at, vals) == [at |-> at, vals |-> vals]
EndOf(c) == c.at + Len(c.vals)
Cursor(chain) == IF chain = <<>> THEN 0 ELSE EndOf(chain[Len(chain)])
ChunkIndexes(chain, at) == {i \in DOMAIN chain : chain[i].at = at}
Before(chain, i) == SubSeq(chain, 1, i - 1)

Ordinals(m) == m.at .. (m.at + Len(m.vals) - 1)
Val(m, o) == m.vals[o - m.at + 1]

Row(v, newest, held) == [val |-> v, newest |-> newest, held |-> held, reviewed |-> FALSE]
Linked(r) == Decodes(r.val) /\ ~r.held
NewestOrHeld(r) == r.newest \/ r.held
LinkedOrdinals(v) ==
    {o \in UNION {DOMAIN rows[e] : e \in 1..MaxEpoch} :
        \E e \in 1..MaxEpoch : o \in DOMAIN rows[e] /\ rows[e][o].val = v /\ Linked(rows[e][o])}

NoCoverage == [job |-> 0, ep |-> 0, cert |-> 0, chain |-> <<>>]
Covered == cov.job # 0

TerminalStates == {"COMPLETED", "CANCELLED", "INVALIDATED"}
NewJob == [st |-> "QUEUED", verify |-> FALSE, err |-> "none", ep |-> epoch, cut |-> Unset,
           first |-> Unset, n |-> 0, chain |-> <<>>, cert |-> FALSE, retained |-> 0,
           unconfirmed |-> {}, asg |-> 0, credit |-> 0, div |-> <<>>]
NoJob == [NewJob EXCEPT !.st = "NONE", !.ep = 1]
Created == {j \in 1..MaxJobs : jobs[j].st # "NONE"}
Open(j) == j \in Created /\ jobs[j].st \notin TerminalStates

(* _require_runnable *)
Runnable(J) == J.st \notin TerminalStates \cup {"PAUSED"}

(* _release_assignment *)
Released(J) == [J EXCEPT !.asg = 0, !.credit = 0]

(* _safety_hold *)
SafetyHold(J, code) == [Released(J) EXCEPT !.st = "NEEDS_ATTENTION", !.verify = FALSE, !.err = code]

-----------------------------------------------------------------------------
(* Assurance of a certified job                                            *)

(* The newest-slot claims newest_evidence collects for ordinal o: held      *)
(* rows, this job's re-read of its own final ordinal, and tail replays,     *)
(* which were read while later records existed.                             *)
Claims(J, j, o, R) ==
    (IF o \in DOMAIN R /\ R[o].held /\ R[o].newest
       THEN {[val |-> R[o].val, auth |-> FALSE]} ELSE {})
    \cup {[val |-> r.val, auth |-> r.kind = "REPLAY"] : r \in
            {r \in receipts : /\ r.ep = J.ep /\ r.o = o
                              /\ \/ r.kind = "REPLAY"
                                 \/ r.job = j /\ o = J.cut - 1}}

(* _evaluate_slots: a known slot is pending only for an authoritative       *)
(* unreceived punch; otherwise a LIVE punch no other ordinal holds          *)
(* accounts for it, and any unreceived claim leaves it pending.             *)
SlotPending(claims, o, R) ==
    LET authoritative == {c \in claims : c.auth}
    IN IF authoritative # {} \/ (o \in DOMAIN R /\ ~R[o].newest)
         THEN \E c \in authoritative : att[c.val] = "none"
         ELSE /\ \A c \in claims : ~(att[c.val] = "live" /\ LinkedOrdinals(c.val) \subseteq {o})
              /\ \E c \in claims : att[c.val] = "none"

PendingOrdinals(J, j, R) ==
    {o \in 0..(J.cut - 1) : SlotPending(Claims(J, j, o, R), o, R)}

(* _assurance_coverage: the job's own active certificate, or the retained   *)
(* one its certificate is bound to while that is active in the same epoch.  *)
AssuranceCovered(J, j, cv) ==
    \/ J.retained = 0 /\ cv.job = j
    \/ J.retained # 0 /\ cv.job = J.retained /\ cv.ep = J.ep /\ epoch = J.ep

(* source_exception_assurance *)
Quarantined(J, R) == {o \in DOMAIN R : o < J.n /\ ~Linked(R[o])}
SourceAssurance(J, j, cv, R) ==
    LET cohort == {o \in DOMAIN R : o < J.cut /\ ~Linked(R[o])}
        counted == Quarantined(J, R)
        pending == PendingOrdinals(J, j, R)
        waits(o) == R[o].held /\ R[o].newest
        resolved == {o \in cohort : R[o].reviewed \/ waits(o)} \ pending
    IN IF counted = {}
         THEN CASE J.cert /\ J.retained # 0 /\ ~AssuranceCovered(J, j, cv) -> "SCOPE_MISMATCH"
                [] J.cert /\ pending # {} -> "PUNCH_PENDING"
                [] OTHER -> "NONE"
         ELSE CASE J.cert /\ ~AssuranceCovered(J, j, cv) -> "SCOPE_MISMATCH"
                [] pending # {} -> "PUNCH_PENDING"
                [] cohort # resolved -> "REVIEW_REQUIRED"
                [] OTHER -> "NONE"

SourceHolds == {"SCOPE_MISMATCH", "PUNCH_PENDING", "REVIEW_REQUIRED"}

Members(J, j, R) ==
    {R[o].val : o \in {o \in DOMAIN R : o < J.cut /\ Linked(R[o])}}
    \cup {v \in UNION {{c.val : c \in Claims(J, j, o, R)} : o \in 0..(J.cut - 1)} : att[v] # "none"}

(* refresh_reconciliation_assurance *)
Assured(J, j, cv, R) ==
    IF \/ J.st \in TerminalStates \cup {"PAUSED"} \/ ~J.cert
       \/ J.st = "NEEDS_ATTENTION" /\ J.err \notin SourceHolds
      THEN J
      ELSE LET state == SourceAssurance(J, j, cv, R)
           IN CASE state \in SourceHolds -> [J EXCEPT !.st = "NEEDS_ATTENTION", !.err = state]
                [] Members(J, j, R) \subseteq conf -> [J EXCEPT !.st = "COMPLETED", !.err = "none"]
                [] OTHER -> [J EXCEPT !.st = "RUNNING", !.err = "none"]

-----------------------------------------------------------------------------
(* Environment: punches, LIVE capture, Oracle, terminal faults             *)

(* A punch fills the unwritten newest slot, or the next one.  A terminal    *)
(* that never rewrites a stale slot (skip) writes the punch after it; ADD   *)
(* has read that slot, and a real record lies below it.                     *)
Punch(skip, next) ==
    /\ made < left.punches
    /\ skip => /\ left.skips > 0 /\ stale # Unset /\ Len(log) > 0
               /\ Len(log) \in DOMAIN rows[epoch]
    /\ made' = made + 1
    /\ log' = (IF skip THEN Append(log, stale) ELSE log) \o <<made + 1>>
    /\ next \in StaleReads(log')
    /\ stale' = next
    /\ left' = IF skip THEN [left EXCEPT !.skips = @ - 1] ELSE left
    /\ UNCHANGED <<kept, outrun, ledgerVars, jobs, cov, linkVars, up, late, deviceVars>>

(* LIVE capture of a punch reaches ADD (ingest_attendance), at any time or  *)
(* never.                                                                   *)
LiveCapture(v) ==
    /\ v <= made /\ v \in left.live /\ att[v] = "none"
    /\ att' = [att EXCEPT ![v] = "live"]
    /\ UNCHANGED <<terminalVars, conf, epoch, rows, receipts, jobs, cov, linkVars, up, late,
                   deviceVars, left>>

OracleConfirms ==
    /\ conf' = {v \in DOMAIN att : att[v] # "none"}
    /\ conf' # conf
    /\ UNCHANGED <<terminalVars, att, epoch, rows, receipts, jobs, cov, linkVars, up, late,
                   deviceVars, left>>

(* The terminal changes a record ADD has committed, or changes it back.     *)
Rewrite(o) ==
    /\ left.rewrites > 0 /\ o < Len(log) /\ o \in DOMAIN rows[epoch]
    /\ ~rows[epoch][o].newest
    /\ log[o + 1] = Blank => o \in DOMAIN rows[1]
    /\ log' = [log EXCEPT ![o + 1] = IF @ = Blank THEN rows[1][o].val ELSE Blank]
    /\ log' # log
    /\ kept' = FALSE
    /\ left' = [left EXCEPT !.rewrites = @ - 1]
    /\ UNCHANGED <<stale, made, outrun, ledgerVars, jobs, cov, linkVars, up, late, deviceVars>>

(* The terminal loses its newest records. *)
Shrink ==
    /\ left.clears > 0 /\ Len(log) > 1
    /\ log' = SubSeq(log, 1, Len(log) - 1) /\ stale' = Unset
    /\ kept' = FALSE
    /\ left' = [left EXCEPT !.clears = @ - 1]
    /\ UNCHANGED <<made, outrun, ledgerVars, jobs, cov, linkVars, up, late, deviceVars>>

-----------------------------------------------------------------------------
(* Operators and the worker                                                *)

jobStepUnchanged == <<terminalVars, ledgerVars, cov, linkVars, up, late, deviceVars>>
SpendOp == left.ops > 0 /\ left' = [left EXCEPT !.ops = @ - 1]

(* create_reconciliation_job: one open job per connector *)
CreateJob(j) ==
    /\ j \notin Created /\ j = Cardinality(Created) + 1 /\ j <= left.jobs
    /\ \A i \in 1..MaxJobs : ~Open(i)
    /\ jobs' = [jobs EXCEPT ![j] = NewJob]
    /\ UNCHANGED <<jobStepUnchanged, left>>

PauseJob(j) ==
    /\ Open(j) /\ SpendOp
    /\ jobs' = [jobs EXCEPT ![j] = [Released(@) EXCEPT !.st = "PAUSED"]]
    /\ UNCHANGED jobStepUnchanged

CancelJob(j) ==
    /\ Open(j) /\ SpendOp
    /\ jobs' = [jobs EXCEPT ![j] = [Released(@) EXCEPT !.st = "CANCELLED"]]
    /\ UNCHANGED jobStepUnchanged

Requeued(J) == [Released(J) EXCEPT !.st = "QUEUED", !.verify = FALSE, !.err = "none"]

(* mutant: a job that seals behind the live cursor takes the coverage over *)
FinalisationPlanReplaces(J) == "REPLACE"

(* _finalisation_plan: a coverage that already reaches the cutoff is kept   *)
(* when its ledger is the job's, a shorter one is replaced.                 *)
FinalisationPlan(J) ==
    IF ~Covered \/ Cursor(cov.chain) < J.cut THEN "REPLACE"
    ELSE IF /\ cov.ep = J.ep /\ epoch = J.ep /\ jobs[cov.job].ep = J.ep
            /\ \A o \in 0..(Cursor(cov.chain) - 1) : o \in DOMAIN rows[J.ep]
           THEN "RETAIN" ELSE "HOLD"

(* What both retry and resume refuse: a job that sealing would hold again,  *)
(* and one whose slot no retry can read.                                    *)
Blocked(j) ==
    LET J == jobs[j]
    IN \/ /\ J.err = "RETENTION" /\ ~J.cert /\ J.n = J.cut
          /\ FinalisationPlan(J) = "HOLD"
       \/ /\ J.err = "PUNCH_PENDING"
          /\ SourceAssurance(J, j, cov, rows[J.ep]) = "PUNCH_PENDING"

(* retry needs a held job, and with exceptions open it may not help; resume *)
(* takes any open job.                                                      *)
RequeueJob(j, retry) ==
    /\ Open(j) /\ ~Blocked(j) /\ SpendOp
    /\ retry => /\ jobs[j].st = "NEEDS_ATTENTION"
                /\ \/ Quarantined(jobs[j], rows[jobs[j].ep]) = {}
                   \/ SourceAssurance(jobs[j], j, cov, rows[jobs[j].ep])
                        \notin {"REVIEW_REQUIRED", "SCOPE_MISMATCH"}
    /\ jobs' = [jobs EXCEPT ![j] = Requeued(@)]
    /\ UNCHANGED jobStepUnchanged

(* An operator reviews an exception row; the jobs whose cohort holds it are *)
(* refreshed in the same transaction.                                       *)
ReviewRow(o) ==
    /\ o \in DOMAIN rows[epoch] /\ ~Linked(rows[epoch][o]) /\ ~rows[epoch][o].reviewed
    /\ left.reviews > 0 /\ left' = [left EXCEPT !.reviews = @ - 1]
    /\ rows' = [rows EXCEPT ![epoch][o].reviewed = TRUE]
    /\ jobs' = [j \in 1..MaxJobs |->
                  IF jobs[j].ep = epoch /\ o < jobs[j].cut
                    THEN Assured(jobs[j], j, cov, rows'[epoch]) ELSE jobs[j]]
    /\ UNCHANGED <<terminalVars, att, conf, epoch, receipts, cov, linkVars, up, late, deviceVars>>

(* refresh_all_reconciliation_assurance, from the worker *)
RefreshAssurance(j) ==
    /\ Open(j)
    /\ jobs' = [jobs EXCEPT ![j] = Assured(@, j, cov, rows[@.ep])]
    /\ jobs' # jobs
    /\ UNCHANGED <<jobStepUnchanged, left>>

-----------------------------------------------------------------------------
(* The stream between the reader and ADD                                   *)

Online == sess \in {"opening", "open"}
Push(cv) == [active |-> cv.job # 0, ep |-> cv.ep, chain |-> cv.chain]
NoAssignment == [id |-> 0, job |-> 0, ep |-> 0, n |-> 0, cut |-> Unset, first |-> Unset,
                 chain |-> <<>>, pred |-> Unset, credit |-> 0, probe |-> Unset]

ReleaseMsg(a, n, failed) ==
    [k |-> "RELEASE", job |-> a.job, ep |-> a.ep, id |-> a.id, n |-> n, failed |-> failed]
FaultMsg(code) == [k |-> "FAULT", code |-> code]
ChunkMsg(w) == [k |-> "CHUNK", job |-> w.a.job, ep |-> w.a.ep, id |-> w.a.id, at |-> w.at,
                vals |-> SubSeq(w.raw, 1, Min({ChunkRecords, Len(w.raw)})), prev |-> w.chain]

(* The reader's step after its message was answered: ok and cont are the    *)
(* acknowledgement it reads (cont alone acknowledges the checkpoint of a    *)
(* chunk ADD did not commit), cut short is a pending command that takes the *)
(* rest of the credit back.  A failed scan step releases its credit.        *)
Finish(ok, cont, cutShort) ==
    LET w == Head(work)
        sent == Min({ChunkRecords, Len(w.raw)})
        more == w.k = "CHUNK" /\ Len(w.raw) > sent
        next == [w EXCEPT !.at = @ + sent, !.raw = SubSeq(@, sent + 1, Len(@)),
                          !.chain = Append(@, Chunk(w.at, SubSeq(w.raw, 1, sent)))]
    IN /\ dev' = CASE ok /\ w.k = "MANIFEST" ->
                          [dev EXCEPT !.cert = TRUE, !.ep = w.a.ep, !.chain = w.a.chain]
                   [] w.k = "CHUNK" /\ (ok \/ cont) ->
                          [dev EXCEPT !.last = <<w.a.job, IF ok THEN w.at + sent ELSE w.at>>]
                   [] ok /\ w.k = "TAIL" -> [dev EXCEPT !.chain = Append(@, Chunk(w.at, w.raw))]
                   [] OTHER -> dev
       /\ cutShort => ok /\ cont /\ more /\ left.commands > 0
       /\ work' = IF ok /\ cont /\ more /\ ~cutShort THEN <<next>> ELSE <<>>
       /\ up' = CASE ok /\ cont /\ more /\ ~cutShort -> <<ChunkMsg(next)>>
                  [] cutShort -> <<ReleaseMsg(w.a, next.at, FALSE)>>
                  [] w.k \in {"CHUNK", "MANIFEST"} /\ (~ok \/ (more /\ ~cont)) ->
                       <<ReleaseMsg(w.a, w.a.n, TRUE)>>
                  [] OTHER -> <<>>
       /\ left' = IF cutShort THEN [left EXCEPT !.commands = @ - 1] ELSE left

(* send_coverage_before_ack: the push ADD owes, or ADD's coverage after the *)
(* commit when an older push may still be queued; it replaces that push.    *)
CoverageBeforeAck(before, ackCoverage) ==
    IF before # <<>> THEN before
    ELSE IF owed /\ ackCoverage # <<>> THEN ackCoverage ELSE pushq

(* The answer to a message: pushes before the ACK, the ACK, a push after it.*)
(* The stream a late message came from is gone.                             *)
Reply(via, ok, cont, before, ackCoverage, after, lateNext) ==
    IF via = "late"
      THEN late' = <<>> /\ UNCHANGED <<linkVars, up, deviceVars, left>>
      ELSE /\ pushq' = IF after # <<>> THEN after ELSE CoverageBeforeAck(before, ackCoverage)
           /\ owed' = CASE after # <<>> \/ before # <<>> -> TRUE
                        [] owed /\ ackCoverage # <<>> -> FALSE
                        [] OTHER -> owed
           /\ IF Len(up) = 1 /\ work # <<>>
                THEN \E cutShort \in BOOLEAN : Finish(ok, cont, cutShort)
                ELSE up' = Tail(up) /\ UNCHANGED <<dev, work, left>>
           /\ late' = lateNext
           /\ UNCHANGED <<sess, boot, asgq, pass, grant>>

(* persist_envelope: a committed message advances the connector's sequence, *)
(* so an earlier one is a replay and changes nothing; a manifest is judged  *)
(* again all the same.                                                      *)
SequenceFence == IF late # <<>> /\ Head(late).k = "MANIFEST" THEN late ELSE <<>>

Answer(via, ok, cont, before, ackCoverage, after) ==
    Reply(via, ok, cont, before, ackCoverage, after, SequenceFence)
Refuse(via) == Answer(via, FALSE, FALSE, <<>>, <<>>, <<>>)

(* MESSAGE_REJECTED: the transaction is rolled back, its sequence included. *)
Reject(via) ==
    /\ UNCHANGED <<terminalVars, ledgerVars, jobs, cov>>
    /\ Reply(via, FALSE, FALSE, <<>>, <<>>, <<>>, late)

(* The stream drops; ADD may still be handling its first message.           *)
LinkDrop(handling) ==
    /\ Online /\ left.drops > 0
    /\ handling => sess = "open" /\ up # <<>> /\ late = <<>>
    /\ late' = IF handling THEN <<Head(up)>> ELSE late
    /\ sess' = "down" /\ boot' = <<>> /\ owed' = FALSE /\ up' = <<>>
    /\ left' = [left EXCEPT !.drops = @ - 1]
    /\ UNCHANGED <<terminalVars, ledgerVars, jobs, cov, deviceVars>>

(* A reboot also empties the reader's queues and forgets the source epoch;  *)
(* its certificate is in NVS.                                               *)
Reboot(handling) ==
    /\ left.reboots > 0
    /\ handling => sess = "open" /\ up # <<>> /\ late = <<>>
    /\ late' = IF handling THEN <<Head(up)>> ELSE late
    /\ sess' = "off" /\ boot' = <<>> /\ owed' = FALSE /\ up' = <<>>
    /\ dev' = [dev EXCEPT !.ep = 0, !.last = <<0, 0>>]
    /\ pushq' = <<>> /\ asgq' = <<>> /\ work' = <<>> /\ pass' = 0
    /\ left' = [left EXCEPT !.reboots = @ - 1]
    /\ UNCHANGED <<terminalVars, ledgerVars, jobs, cov, grant>>

(* load_stream_bootstrap reads the coverage; open_device_stream pushes it   *)
(* later, before it handles the stream's messages.  A reboot outlasts the   *)
(* message ADD was handling: its row lock and statements time out.          *)
OpenStream ==
    /\ sess = "down" \/ (sess = "off" /\ late = <<>>)
    /\ sess' = "opening" /\ boot' = <<Push(cov)>>
    /\ UNCHANGED <<terminalVars, ledgerVars, jobs, cov, owed, up, late, deviceVars, left>>

SendBootstrap ==
    /\ sess = "opening"
    /\ sess' = "open" /\ boot' = <<>> /\ owed' = TRUE
    /\ pushq' = boot
    /\ UNCHANGED <<terminalVars, ledgerVars, jobs, cov, up, late, dev, asgq, work, pass, grant,
                   left>>

-----------------------------------------------------------------------------
(* The reader                                                              *)

readerUnchanged == <<terminalVars, ledgerVars, jobs, cov, linkVars, late, grant>>

(* The top of the reader's loop: apply_add_source_coverage takes a queued   *)
(* push.  An assignment step and a tail step follow in the same pass.       *)
LoopTop ==
    /\ work = <<>> /\ (pass # 1 \/ pushq # <<>>)
    /\ pass' = 1
    /\ dev' = IF pushq = <<>> THEN dev
              ELSE LET p == Head(pushq)
                   IN IF p.active THEN [dev EXCEPT !.cert = TRUE, !.ep = p.ep, !.chain = p.chain]
                      ELSE [dev EXCEPT !.cert = FALSE, !.ep = 0]
    /\ pushq' = <<>>
    /\ UNCHANGED <<readerUnchanged, up, asgq, work, left>>

(* The next assignment becomes a step that waits for its message's ACK.     *)
Send(a, m, raw, chain) ==
    /\ Online
    /\ asgq' = <<>> /\ pass' = 2
    /\ work' = <<[k |-> m.k, a |-> a, raw |-> raw, at |-> a.n, chain |-> chain]>>
    /\ up' = Append(up, m)
    /\ UNCHANGED <<readerUnchanged, dev, pushq, left>>

Assignment(a) == asgq = <<a>> /\ work = <<>> /\ pass = 1
Cutoff(a) == IF a.cut = Unset THEN Count ELSE a.cut
CountOk(a) == Count >= Cutoff(a) /\ a.n <= Cutoff(a)

(* zk_validate_source_snapshot, on one consistent snapshot *)
SnapshotOk(a) ==
    /\ (a.first # Unset /\ Count > 0) => Record(0) = a.first
    /\ a.n > 0 => Record(a.n - 1) = a.pred

SendProbe(a) ==
    /\ Assignment(a) /\ a.probe # Unset /\ a.probe < Count
    /\ Send(a, [k |-> "PROBE", job |-> a.job, ep |-> a.ep, o |-> a.probe, val |-> Record(a.probe)],
            <<>>, <<>>)

SendManifest(a) ==
    /\ Assignment(a) /\ a.probe = Unset /\ a.cut # Unset /\ CountOk(a) /\ a.n = a.cut
    /\ Send(a, [k |-> "MANIFEST", job |-> a.job, ep |-> a.ep, cut |-> a.cut, latest |-> Count,
                chain |-> a.chain], <<>>, <<>>)

SendAnchor(a) ==
    /\ Assignment(a) /\ a.probe = Unset /\ a.cut = Unset /\ CountOk(a) /\ SnapshotOk(a)
    /\ Send(a, [k |-> "ANCHOR", job |-> a.job, ep |-> a.ep, cut |-> Count,
                first |-> IF Count > 0 THEN Record(0) ELSE Unset], <<>>, <<>>)

(* The burst is read once and sent chunk by chunk. *)
SendChunks(a) ==
    /\ Assignment(a) /\ a.probe = Unset /\ a.cut # Unset /\ CountOk(a) /\ a.n < a.cut
    /\ SnapshotOk(a)
    /\ LET end == Min({a.n + ChunkRecords * MaxChunks, a.credit, a.cut})
           w == [k |-> "CHUNK", a |-> a, raw |-> Read(a.n, end), at |-> a.n, chain |-> a.chain]
       IN Send(a, ChunkMsg(w), w.raw, a.chain)

(* A regressed count or a changed anchor stops the scan: the reader reports *)
(* the fault and keeps the credit.                                          *)
ReportFault(a) ==
    /\ Assignment(a) /\ a.probe = Unset /\ Online
    /\ \/ ~CountOk(a)
       \/ CountOk(a) /\ ~(a.cut # Unset /\ a.n = a.cut) /\ ~SnapshotOk(a)
    /\ asgq' = <<>> /\ pass' = 2 /\ up' = Append(up, FaultMsg("SCAN"))
    /\ UNCHANGED <<readerUnchanged, dev, pushq, work, left>>

(* A step that cannot read the terminal, or has no stream, gives its credit *)
(* back when it can; one that cannot start is dropped.                      *)
StepFails(a, release) ==
    /\ Assignment(a)
    /\ \/ ~Online /\ left' = left
       \/ a.probe # Unset /\ a.probe >= Count /\ left' = left
       \/ left.timeouts > 0 /\ left' = [left EXCEPT !.timeouts = @ - 1]
    /\ asgq' = <<>> /\ pass' = 2
    /\ release \/ left' # left
    /\ up' = IF release /\ Online /\ a.id # 0 THEN Append(up, ReleaseMsg(a, a.n, TRUE)) ELSE up
    /\ UNCHANGED <<readerUnchanged, dev, pushq, work>>

(* process_add_incremental_tail *)
SendTail ==
    /\ work = <<>> /\ pass # 0 /\ dev.cert /\ dev.ep # 0 /\ Online
    /\ pass' = 0
    /\ LET from == Cursor(dev.chain)
           vals == Read(from, Min({from + TailRecords, Count}))
       IN /\ Count > from
          /\ work' = <<[k |-> "TAIL", a |-> NoAssignment, raw |-> vals, at |-> from,
                        chain |-> dev.chain]>>
          /\ up' = Append(up, [k |-> "TAIL", ep |-> dev.ep, at |-> from, vals |-> vals,
                               latest |-> Count, prev |-> dev.chain])
    /\ UNCHANGED <<readerUnchanged, dev, pushq, asgq, left>>

TailRegressed ==
    /\ work = <<>> /\ pass # 0 /\ dev.cert /\ dev.ep # 0 /\ Count < Cursor(dev.chain)
    /\ pass' = 0
    /\ dev' = [dev EXCEPT !.cert = FALSE, !.ep = 0]
    /\ up' = IF ~Online THEN up ELSE Append(up, FaultMsg("COVERAGE"))
    /\ UNCHANGED <<readerUnchanged, pushq, asgq, work, left>>

(* The reader stops waiting: its message was lost with the stream, or the   *)
(* answer takes longer than 30 s.                                           *)
GiveUp ==
    /\ work # <<>>
    /\ \/ up = <<>> /\ left' = left
       \/ up # <<>> /\ left.timeouts > 0 /\ left' = [left EXCEPT !.timeouts = @ - 1]
    /\ work' = <<>>
    /\ LET w == Head(work)
       IN up' = IF w.k \in {"CHUNK", "MANIFEST"} /\ Online
                  THEN Append(up, ReleaseMsg(w.a, w.a.n, TRUE)) ELSE up
    /\ UNCHANGED <<readerUnchanged, dev, pushq, asgq, pass>>

-----------------------------------------------------------------------------
(* ADD: anchor, chunk, release and fault                                   *)

Inbox(via) == IF via = "late" THEN late ELSE IF sess = "open" THEN up ELSE <<>>
Arrived(via, m, kind) == Inbox(via) # <<>> /\ m = Head(Inbox(via)) /\ m.k = kind
handlerUnchanged == <<terminalVars, conf>>
OnlyJob(j, J) ==
    /\ jobs' = [jobs EXCEPT ![j] = J]
    /\ UNCHANGED <<handlerUnchanged, att, epoch, rows, receipts, cov>>
NoChange == UNCHANGED <<handlerUnchanged, att, epoch, rows, receipts, jobs, cov>>

Anchor(via, m) ==
    /\ Arrived(via, m, "ANCHOR")
    /\ LET J == jobs[m.job]
       IN CASE ~Runnable(J) \/ m.ep # J.ep -> Reject(via)
            [] Runnable(J) /\ m.ep = J.ep /\ J.cut # Unset /\ <<J.cut, J.first>> # <<m.cut, m.first>> ->
                 OnlyJob(m.job, SafetyHold(J, "SOURCE_ANCHOR_DIVERGED")) /\ Refuse(via)
            [] OTHER ->
                 /\ OnlyJob(m.job, [Released(J) EXCEPT !.st = "RUNNING", !.verify = FALSE,
                                                       !.cut = m.cut, !.first = m.first])
                 /\ Answer(via, TRUE, FALSE, <<>>, <<>>, <<>>)

Committed(m) == ChunkIndexes(jobs[m.job].chain, m.at)
Identical(chain, m) ==
    \E i \in ChunkIndexes(chain, m.at) : chain[i].vals = m.vals /\ Before(chain, i) = m.prev

(* What apply_reconciliation_chunk checks before it compares any record. *)
ChunkFits(m) ==
    LET J == jobs[m.job]
    IN /\ Runnable(J)
       /\ J.asg = m.id /\ m.at + Len(m.vals) <= J.credit
       /\ m.at = J.n /\ m.at + Len(m.vals) <= J.cut
       /\ m.at = 0 => m.vals[1] = J.first
       /\ m.prev = J.chain

ContinueAllowed(J, m) == J.st \in {"QUEUED", "RUNNING"} /\ J.asg = m.id /\ J.n < J.credit

ChunkRefused(via, m) ==
    /\ Arrived(via, m, "CHUNK")
    /\ LET J == jobs[m.job]
       IN \/ m.ep # J.ep \/ J.cut = Unset
          \/ Committed(m) = {} /\ ~ChunkFits(m)
          \/ Committed(m) # {} /\ ~Identical(J.chain, m) /\ ~Runnable(J)
    /\ Reject(via)

ChunkReplayed(via, m) ==
    /\ Arrived(via, m, "CHUNK")
    /\ LET J == jobs[m.job]
       IN /\ m.ep = J.ep /\ J.cut # Unset /\ Committed(m) # {}
          /\ \/ Identical(J.chain, m) /\ NoChange
                /\ Answer(via, TRUE, ContinueAllowed(J, m), <<>>, <<>>, <<>>)
             \/ ~Identical(J.chain, m) /\ Runnable(J)
                /\ OnlyJob(m.job, SafetyHold(J, "COMMITTED_RANGE_DIVERGED")) /\ Refuse(via)

(* in_time_order: the nearest decodable record of the chunk, or else the    *)
(* nearest canonical punch, on each side.                                   *)
InTimeOrder(m, o, R) ==
    LET inChunk == {p \in Ordinals(m) \ {o} : Decodes(Val(m, p))}
        inRows == {p \in DOMAIN R : Linked(R[p])}
        side(S) == {p \in S : p < o}
        low == IF side(inChunk) # {} THEN Time(Val(m, Max(side(inChunk))))
               ELSE IF side(inRows) # {} THEN Time(R[Max(side(inRows))].val) ELSE Unset
        above(S) == {p \in S : p > o}
        high == IF above(inChunk) # {} THEN Time(Val(m, Min(above(inChunk))))
                ELSE IF above(inRows) # {} THEN Time(R[Min(above(inRows))].val) ELSE Ghost
    IN low <= Time(Val(m, o)) /\ Time(Val(m, o)) <= high

(* mutant: the first read of a slot is kept, whatever the slot reads later *)
ComparedKeepsFirst(m, J, R) ==
    LET prior == Ordinals(m) \cap DOMAIN R
        newest == {o \in prior : NewestOrHeld(R[o])}
        rereads == {o \in newest : R[o].val # Val(m, o)}
        confirmed == newest \ (rereads \cup {J.cut - 1})
        disorder == {o \in confirmed : R[o].held}
    IN [prior |-> prior, rereads |-> rereads, settled |-> {}, confirmed |-> confirmed,
        disorder |-> disorder, ordinary |-> prior \ (rereads \cup disorder)]

(* How a chunk compares with the canonical rows: reads of the newest slot   *)
(* are settled, confirmed or kept as receipts, all other rows must match.   *)
Compared(m, J, R) ==
    LET prior == Ordinals(m) \cap DOMAIN R
        newest == {o \in prior : NewestOrHeld(R[o])}
        final == J.cut - 1
        same(o) == R[o].val = Val(m, o)
        rereads == {o \in newest \cap {final} : ~same(o)}
        settled == {o \in newest \ {final} : ~same(o) \/ (R[o].held /\ InTimeOrder(m, o, R))}
        confirmed == {o \in newest \ {final} : same(o) /\ o \notin settled}
        disorder == {o \in confirmed : R[o].held}
    IN [prior |-> prior, rereads |-> rereads, settled |-> settled, confirmed |-> confirmed,
        disorder |-> disorder, ordinary |-> prior \ (rereads \cup settled \cup disorder)]

(* mutant: the newest slot is ingested like any other record *)
HeldAtNever(m, newest) == {}

(* held_newest_uids: an undelivered punch in the newest slot that no other  *)
(* record of the message carries.                                           *)
HeldAt(m, newest) ==
    {o \in Ordinals(m) \cap {newest} :
        /\ Decodes(Val(m, o)) /\ att[Val(m, o)] = "none"
        /\ \A p \in Ordinals(m) \ {o} : Val(m, p) # Val(m, o)}

Changed(c, m, R) == {o \in c.ordinary : R[o].val # Val(m, o)}

(* ingest_attendance, of the punches a source read delivers *)
Ingested(m, S) ==
    [v \in DOMAIN att |-> IF att[v] = "none" /\ \E o \in S : Val(m, o) = v THEN "source" ELSE att[v]]

LastThree(s) == IF Len(s) > 3 THEN SubSeq(s, Len(s) - 2, Len(s)) ELSE s

(* _begin_source_divergence: no row changes; the ordinal is probed.         *)
BeginDivergence(J, o, old, new) ==
    LET open == {i \in DOMAIN J.div : J.div[i].o = o}
        div == IF open # {}
                 THEN [J.div EXCEPT ![Max(open)].obs = LastThree(Append(@, new))]
                 ELSE Append(J.div, [o |-> o, ep |-> J.ep, old |-> old, new |-> new,
                                     obs |-> <<new>>, probes |-> <<>>])
    IN [Released(J) EXCEPT !.st = "RUNNING", !.verify = TRUE, !.err = "none", !.div = div]

ChunkChanged(via, m) ==
    /\ Arrived(via, m, "CHUNK")
    /\ LET J == jobs[m.job]
           R == rows[J.ep]
           changed == Changed(Compared(m, J, R), m, R)
       IN /\ m.ep = J.ep /\ J.cut # Unset /\ Committed(m) = {} /\ ChunkFits(m) /\ changed # {}
          /\ LET o == Min(changed)
             IN OnlyJob(m.job, BeginDivergence(J, o, R[o].val, Val(m, o)))
    /\ Answer(via, FALSE, TRUE, <<>>, <<>>, <<>>)

(* mutant: a record that decodes to no punch leaves no row *)
ChunkRowsDecoded(m, J, R, c, held) ==
    [o \in DOMAIN R \cup {o \in Ordinals(m) : Decodes(Val(m, o))} |->
        IF o \in Ordinals(m) /\ (o \notin c.prior \/ o \in c.settled)
          THEN Row(Val(m, o), o = J.cut - 1, o \in held)
          ELSE IF o \in c.confirmed THEN [R[o] EXCEPT !.newest = FALSE] ELSE R[o]]

(* The rows after a chunk: new and settled ordinals get the chunk's record, *)
(* a confirmed newest read becomes an ordinary row.                         *)
ChunkRows(m, J, R, c, held) ==
    [o \in DOMAIN R \cup Ordinals(m) |->
        IF o \in Ordinals(m) /\ (o \notin c.prior \/ o \in c.settled)
          THEN Row(Val(m, o), o = J.cut - 1, o \in held)
          ELSE IF o \in c.confirmed THEN [R[o] EXCEPT !.newest = FALSE] ELSE R[o]]

ChunkReceipts(m, J, c) ==
    {[kind |-> "REREAD", job |-> m.job, ep |-> J.ep, o |-> o, val |-> Val(m, o)] :
        o \in {o \in c.rereads : Decodes(Val(m, o))}}

ChunkAdvanced(m, J) ==
    LET end == m.at + Len(m.vals)
        J2 == [J EXCEPT !.n = end, !.chain = Append(@, Chunk(m.at, m.vals)),
                        !.st = "RUNNING", !.verify = FALSE]
    IN IF end >= J.credit THEN Released(J2) ELSE J2

ChunkCommitted(via, m) ==
    /\ Arrived(via, m, "CHUNK")
    /\ LET J == jobs[m.job]
           R == rows[J.ep]
           c == Compared(m, J, R)
           held == HeldAt(m, J.cut - 1) \ c.prior
           drift == {o \in c.ordinary : R[o].held /\ R[o].val = Val(m, o)}
       IN /\ m.ep = J.ep /\ J.cut # Unset /\ Committed(m) = {} /\ ChunkFits(m)
          /\ Changed(c, m, R) = {}
          /\ att' = Ingested(m, Ordinals(m) \ (c.rereads \cup c.disorder \cup held \cup drift))
          /\ rows' = [rows EXCEPT ![J.ep] = ChunkRows(m, J, R, c, held)]
          /\ receipts' = receipts \cup ChunkReceipts(m, J, c)
          /\ jobs' = [jobs EXCEPT ![m.job] = ChunkAdvanced(m, J)]
          /\ Answer(via, TRUE, ContinueAllowed(jobs'[m.job], m), <<>>, <<>>, <<>>)
    /\ UNCHANGED <<handlerUnchanged, epoch, cov>>

(* apply_reconciliation_assignment_release: the credit of another           *)
(* assignment is not released; a failed step also leaves the verify phase.  *)
ReleaseFits(J, m) ==
    /\ m.ep = J.ep
    /\ IF J.cert THEN m.n = J.cut /\ J.asg = 0 /\ AssuranceCovered(J, m.job, cov)
       ELSE Runnable(J) /\ m.n <= J.n
Release(via, m) ==
    /\ Arrived(via, m, "RELEASE")
    /\ LET J == jobs[m.job]
       IN \/ ~ReleaseFits(J, m) /\ Reject(via)
          \/ /\ ReleaseFits(J, m) /\ Answer(via, TRUE, FALSE, <<>>, <<>>, <<>>)
             /\ IF ~J.cert /\ m.id = J.asg
                  THEN OnlyJob(m.job, [Released(J) EXCEPT !.verify = @ /\ ~m.failed])
                  ELSE NoChange

(* A source fault the reader reports holds the job it may concern or drops  *)
(* the coverage; coverage faults invalidate the coverage's job.             *)
Invalidated(j) == [jobs EXCEPT ![j].st = "INVALIDATED"]
DeviceFault(via, m) ==
    /\ Arrived(via, m, "FAULT")
    /\ LET scanning == {j \in Created : jobs[j].st \in {"QUEUED", "RUNNING"} /\ ~jobs[j].cert}
       IN CASE m.code = "SCAN" /\ scanning # {} ->
                 OnlyJob(Min(scanning), SafetyHold(jobs[Min(scanning)], "SOURCE_FAULT"))
            [] m.code = "COVERAGE" /\ Covered ->
                 /\ cov' = NoCoverage /\ jobs' = Invalidated(cov.job)
                 /\ UNCHANGED <<handlerUnchanged, att, epoch, rows, receipts>>
            [] OTHER -> NoChange
    /\ Answer(via, TRUE, FALSE, <<>>, <<>>, <<>>)

-----------------------------------------------------------------------------
(* ADD: manifest, probe, tail                                              *)

(* The certificate: the coverage, the job's certificate and its unconfirmed *)
(* newest ordinal.                                                          *)
Certified(J, plan) ==
    [Released(J) EXCEPT
        !.cert = TRUE, !.st = "RUNNING", !.verify = FALSE, !.err = "none",
        !.retained = IF plan = "RETAIN" THEN cov.job ELSE 0,
        !.unconfirmed = {o \in {J.cut - 1} : o >= 0 /\ rows[J.ep][o].newest}]

(* reconciliation_manifest_authority: a positive ACK installs the cutoff at *)
(* the reader, so it is sent only when that is ADD's cursor; otherwise the  *)
(* ACK is negative and ADD's coverage follows it.                           *)
ManifestAnswer(via, J, cv) ==
    IF Cursor(cv.chain) = J.cut /\ cv.chain = J.chain
      THEN Answer(via, TRUE, FALSE, <<>>, <<Push(cv)>>, <<>>)
      ELSE Answer(via, FALSE, FALSE, <<>>, <<>>, <<Push(cv)>>)
HasAuthority(J, cv) == cv.job # 0 /\ cv.ep = J.ep /\ Cursor(cv.chain) >= J.cut

ManifestReplayed(via, m) ==
    /\ Arrived(via, m, "MANIFEST") /\ jobs[m.job].cert
    /\ NoChange
    /\ LET J == jobs[m.job]
       IN IF /\ m.ep = J.ep /\ m.cut = J.cut /\ m.chain = J.chain /\ m.latest >= m.cut
             /\ HasAuthority(J, cov)
            THEN ManifestAnswer(via, J, cov) ELSE Reject(via)

ManifestSealed(via, m) ==
    /\ Arrived(via, m, "MANIFEST") /\ ~jobs[m.job].cert
    /\ LET J == jobs[m.job]
           plan == FinalisationPlan(J)
           complete == /\ m.latest >= m.cut
                       /\ <<J.cut, J.n, J.chain>> = <<m.cut, m.cut, m.chain>>
                       /\ \A o \in 0..(m.cut - 1) : o \in DOMAIN rows[J.ep]
           cv == IF plan = "RETAIN" THEN cov
                 ELSE [job |-> m.job, ep |-> J.ep, cert |-> m.cut, chain |-> J.chain]
           J2 == Assured(Certified(J, plan), m.job, cv, rows[J.ep])
       IN CASE m.ep # J.ep \/ ~Runnable(J) -> Reject(via)
            [] m.ep = J.ep /\ Runnable(J) /\ (~complete \/ plan = "HOLD") ->
                 /\ OnlyJob(m.job, SafetyHold(J, IF complete THEN "RETENTION" ELSE "SOURCE_MANIFEST"))
                 /\ Refuse(via)
            [] OTHER ->
                 /\ jobs' = [jobs EXCEPT ![m.job] = J2] /\ cov' = cv
                 /\ UNCHANGED <<handlerUnchanged, att, epoch, rows, receipts>>
                 /\ ManifestAnswer(via, J2, cv)

(* _activate_recovery_epoch: the committed rows below the job's cursor are  *)
(* copied, the coverage ends, and the scan goes on in the new epoch.        *)
RecoveryRows(d, J) ==
    [o \in {o \in DOMAIN rows[d.ep] : o < J.n} |-> [rows[d.ep][o] EXCEPT !.reviewed = FALSE]]

ActivateRecoveryEpoch(j, J, d) ==
    /\ epoch' = J.ep + 1
    /\ rows' = [rows EXCEPT ![epoch'] = RecoveryRows(d, J)]
    /\ cov' = NoCoverage
    /\ jobs' = [jobs EXCEPT ![j] = [J EXCEPT !.ep = epoch', !.st = "QUEUED", !.verify = FALSE,
                                             !.err = "none"]]
    /\ UNCHANGED <<handlerUnchanged, att, receipts>>

AllEqual(s, k, v) == Len(s) >= k /\ \A i \in (Len(s) - k + 1)..Len(s) : s[i] = v

(* Three observations of the same change, or three equal probes *)
ConfirmedChange(d) ==
    \/ AllEqual(d.obs, 3, d.new)
    \/ AllEqual(d.probes, 3, d.probes[Len(d.probes)])

(* apply_source_probe_result *)
Probe(via, m) ==
    /\ Arrived(via, m, "PROBE")
    /\ LET J == jobs[m.job]
           open == {i \in DOMAIN J.div : J.div[i].o = m.o}
           i == Max(open)
           d == [J.div[i] EXCEPT !.obs = LastThree(Append(@, m.val)),
                                 !.probes = LastThree(Append(@, m.val))]
           closed == [J EXCEPT !.div = SelectSeq(@, LAMBDA x : x.o # m.o)]
           held(code) == [closed EXCEPT !.st = "NEEDS_ATTENTION", !.verify = FALSE, !.err = code]
           done(push) == Answer(via, TRUE, FALSE, <<>>, <<>>, push)
       IN IF ~Runnable(J) \/ m.ep # J.ep \/ open = {}
            THEN Reject(via)
          ELSE IF AllEqual(d.probes, 2, d.old)
            THEN OnlyJob(m.job, [closed EXCEPT !.st = "QUEUED", !.verify = FALSE]) /\ done(<<>>)
          ELSE IF ConfirmedChange(d) /\ J.ep < MaxEpoch
            THEN ActivateRecoveryEpoch(m.job, closed, d) /\ done(<<Push(NoCoverage)>>)
          ELSE IF ConfirmedChange(d)
            THEN OnlyJob(m.job, held("SOURCE_EPOCH_RECOVERY_LIMIT")) /\ done(<<>>)
          ELSE /\ \/ OnlyJob(m.job, [J EXCEPT !.st = "RUNNING", !.verify = TRUE, !.div[i] = d])
                  \/ OnlyJob(m.job, held("SOURCE_DIVERGENCE_UNSTABLE"))
               /\ done(<<>>)

(* refuse_tail_without_authority: the coverage ADD holds, or none, is       *)
(* pushed before the negative ACK.                                          *)
TailRefused(via, m) ==
    /\ Arrived(via, m, "TAIL") /\ (~Covered \/ m.ep # cov.ep)
    /\ NoChange
    /\ Answer(via, FALSE, FALSE, <<Push(cov)>>, <<>>, <<>>)

TailChunks(m) == {i \in ChunkIndexes(cov.chain, m.at) : m.at >= cov.cert}

(* mutant: a replay may differ nowhere *)
ReplayBenignStrict(m) ==
    \A o \in Ordinals(m) : o < Cursor(cov.chain) => rows[cov.ep][o].val = Val(m, o)

(* judge_tail_replay: a rewound reader may read other bytes only where ADD  *)
(* holds a newest-slot read.                                                *)
ReplayBenign(m) ==
    LET R == rows[cov.ep]
    IN /\ m.at < Cursor(cov.chain) /\ m.latest >= Cursor(cov.chain)
       /\ \E i \in TailChunks(m) : Before(cov.chain, i) = m.prev
       /\ \A o \in Ordinals(m) : o < Cursor(cov.chain) =>
            /\ o \in DOMAIN R
            /\ R[o].val = Val(m, o) \/ NewestOrHeld(R[o])

(* _record_superseded_replay: slots read while a later record existed *)
ReplayReceipts(m) ==
    {[kind |-> "REPLAY", job |-> 0, ep |-> cov.ep, o |-> o, val |-> Val(m, o)] :
        o \in {o \in Ordinals(m) :
                 /\ o < Cursor(cov.chain) /\ o # m.latest - 1 /\ Decodes(Val(m, o))
                 /\ rows[cov.ep][o].val # Val(m, o) \/ rows[cov.ep][o].held}}

(* _invalidate_tail_coverage *)
InvalidateCoverage(m) ==
    /\ cov' = NoCoverage /\ jobs' = Invalidated(cov.job)
    /\ outrun' = (outrun \/ m.at < cov.cert)
    /\ UNCHANGED <<log, stale, made, kept, ledgerVars>>

TailReplayed(via, m) ==
    /\ Arrived(via, m, "TAIL") /\ Covered /\ m.ep = cov.ep /\ TailChunks(m) # {}
    /\ \/ /\ Identical(cov.chain, m) /\ NoChange
          /\ Answer(via, TRUE, FALSE, <<>>, <<Push(cov)>>, <<>>)
       \/ /\ ~Identical(cov.chain, m) /\ ReplayBenign(m)
          /\ receipts' = receipts \cup ReplayReceipts(m)
          /\ UNCHANGED <<handlerUnchanged, att, epoch, rows, jobs, cov>>
          /\ Answer(via, FALSE, FALSE, <<Push(cov)>>, <<>>, <<>>)
       \/ /\ ~Identical(cov.chain, m) /\ ~ReplayBenign(m)
          /\ InvalidateCoverage(m)
          /\ Answer(via, FALSE, FALSE, <<Push(NoCoverage)>>, <<>>, <<>>)

TailContinues(m) ==
    m.latest >= Cursor(cov.chain) /\ m.at = Cursor(cov.chain) /\ m.prev = cov.chain

TailDiverged(via, m) ==
    /\ Arrived(via, m, "TAIL") /\ Covered /\ m.ep = cov.ep /\ TailChunks(m) = {}
    /\ ~TailContinues(m)
    /\ InvalidateCoverage(m)
    /\ Answer(via, FALSE, FALSE, <<Push(NoCoverage)>>, <<>>, <<>>)

(* uq_add_terminal_source_ordinal: an ordinal a scan has committed already  *)
(* fails the insert and rolls the message back.                             *)
TailCollides(via, m) ==
    /\ Arrived(via, m, "TAIL") /\ Covered /\ m.ep = cov.ep /\ TailChunks(m) = {}
    /\ TailContinues(m) /\ Ordinals(m) \cap DOMAIN rows[cov.ep] # {}
    /\ Reject(via)

TailCommitted(via, m) ==
    /\ Arrived(via, m, "TAIL") /\ Covered /\ m.ep = cov.ep /\ TailChunks(m) = {}
    /\ TailContinues(m) /\ Ordinals(m) \cap DOMAIN rows[cov.ep] = {}
    /\ LET held == HeldAt(m, m.latest - 1)
           R == rows[cov.ep]
       IN /\ att' = Ingested(m, Ordinals(m) \ held)
          /\ rows' = [rows EXCEPT ![cov.ep] =
                        [o \in DOMAIN R \cup Ordinals(m) |->
                           IF o \in Ordinals(m) THEN Row(Val(m, o), o = m.latest - 1, o \in held)
                           ELSE R[o]]]
    /\ cov' = [cov EXCEPT !.chain = Append(@, Chunk(m.at, m.vals))]
    /\ UNCHANGED <<handlerUnchanged, epoch, receipts, jobs>>
    /\ Answer(via, TRUE, FALSE, <<>>, <<Push(cov')>>, <<>>)

-----------------------------------------------------------------------------
(* ADD: assignments (assignment_rows, one pass for one job)                *)

(* mutant: a job is passed over until its reader gives the credit back *)
AssignableReleased(j) ==
    Open(j) /\ jobs[j].st \in {"QUEUED", "RUNNING"} /\ ~jobs[j].cert /\ jobs[j].asg = 0

(* The jobs assignment_rows selects; a lease still running is Busy. *)
Assignable(j) == Open(j) /\ jobs[j].st \in {"QUEUED", "RUNNING"} /\ ~jobs[j].cert

(* Something of job j is still on its way, so next_retry_at and the lease   *)
(* normally lie ahead.                                                      *)
Busy(j) ==
    \/ asgq # <<>>
    \/ work # <<>> /\ Head(work).a.job = j
    \/ \E q \in {up, late} : \E i \in DOMAIN q : q[i].k # "TAIL" /\ (q[i].k = "FAULT" \/ q[i].job = j)

FreshId == Min((1..8) \ ({jobs[j].asg : j \in 1..MaxJobs} \cup {a.id : a \in Range(asgq \o grant)}
                         \cup {w.a.id : w \in Range(work)}
                         \cup {m.id : m \in {m \in Range(up) \cup Range(late) :
                                               m.k \in {"CHUNK", "RELEASE"}}}))

(* The assignment the job's row gives: a scan step from its checkpoint, or  *)
(* a probe of its newest open divergence.                                   *)
ScanAssignment(j) ==
    LET J == jobs[j]
        v2 == J.cut # Unset
    IN [id |-> IF v2 THEN FreshId ELSE 0, job |-> j, ep |-> J.ep, n |-> J.n, cut |-> J.cut,
        first |-> J.first, chain |-> J.chain, probe |-> Unset,
        credit |-> IF v2 THEN J.n + Min({ChunkRecords * MaxChunks, J.cut - J.n}) ELSE 0,
        pred |-> IF J.n > 0 THEN rows[J.ep][J.n - 1].val ELSE Unset]
ProbeAssignment(j) ==
    [NoAssignment EXCEPT !.job = j, !.ep = jobs[j].ep,
                         !.probe = jobs[j].div[Len(jobs[j].div)].o]

(* Only the columns of the credit are written; an anchor has none.          *)
Credited(a) ==
    IF a.id = 0 THEN jobs ELSE [jobs EXCEPT ![a.job].asg = a.id, ![a.job].credit = a.credit]

assignUnchanged == <<terminalVars, ledgerVars, cov, linkVars, up, late, dev, pushq, work, pass>>

(* The reader queues an assignment unless it lies behind the last chunk ADD *)
(* acknowledged to it.                                                      *)
Enqueued(a) ==
    IF a.probe = Unset /\ a.job = dev.last[1] /\ a.n < dev.last[2] THEN asgq ELSE <<a>>

(* An assignment before the last one's messages are through takes an        *)
(* expired lease.                                                           *)
Lease(j, spent) == IF Busy(j) THEN left.timeouts > 0 /\ left' = [spent EXCEPT !.timeouts = @ - 1]
                   ELSE left' = spent

Assign(j) ==
    /\ Assignable(j) /\ sess = "open" /\ grant = <<>>
    /\ Lease(j, left)
    /\ \/ ~jobs[j].verify /\ asgq' = Enqueued(ScanAssignment(j)) /\ jobs' = Credited(ScanAssignment(j))
       \/ jobs[j].verify /\ jobs[j].div # <<>> /\ asgq' = Enqueued(ProbeAssignment(j)) /\ jobs' = jobs
       \/ /\ jobs[j].verify /\ jobs[j].div = <<>> /\ asgq' = asgq
          /\ jobs' = [jobs EXCEPT ![j] = SafetyHold(@, "SOURCE_DIVERGENCE_EVIDENCE_MISSING")]
    /\ UNCHANGED <<assignUnchanged, grant>>

(* assignment_rows takes no row lock: what commits between its read of the  *)
(* job and its commit is not in the assignment it sends.  Its commit writes *)
(* the phase only where it differs from the one read.                       *)
AssignRead(j) ==
    /\ Assignable(j) /\ sess = "open" /\ grant = <<>> /\ ~jobs[j].verify
    /\ left.races > 0 /\ Lease(j, [left EXCEPT !.races = @ - 1])
    /\ grant' = <<ScanAssignment(j)>>
    /\ UNCHANGED <<assignUnchanged, asgq, jobs>>

AssignWrite(keepPhase) ==
    /\ grant # <<>>
    /\ LET a == Head(grant)
       IN jobs' = [Credited(a) EXCEPT ![a.job].verify = @ /\ keepPhase]
    /\ asgq' = IF sess = "open" THEN Enqueued(Head(grant)) ELSE asgq
    /\ grant' = <<>>
    /\ UNCHANGED <<assignUnchanged, left>>

(* A job whose reader is offline waits, and its phase forgets a             *)
(* verification under way.                                                  *)
WaitForDevice(j) ==
    /\ Assignable(j) /\ ~Online /\ jobs[j].verify
    /\ jobs' = [jobs EXCEPT ![j].verify = FALSE]
    /\ UNCHANGED <<jobStepUnchanged, left>>

-----------------------------------------------------------------------------
Init ==
    /\ left \in Plans
    /\ log = [i \in 1..left.start |-> i] /\ made = left.start
    /\ stale \in (IF log = <<>> THEN {Unset} ELSE StaleReads(log))
    /\ kept = TRUE /\ outrun = FALSE
    /\ att = [v \in Punches \cup {Ghost} |-> "none"] /\ conf = {}
    /\ epoch = 1 /\ rows = [e \in 1..MaxEpoch |-> <<>>] /\ receipts = {}
    /\ jobs = [j \in 1..MaxJobs |-> NoJob] /\ cov = NoCoverage
    /\ sess = "down" /\ boot = <<>> /\ owed = FALSE /\ up = <<>> /\ late = <<>>
    /\ dev = [cert |-> FALSE, ep |-> 0, chain |-> <<>>, last |-> <<0, 0>>]
    /\ pushq = <<>> /\ asgq = <<>> /\ work = <<>> /\ pass = 0 /\ grant = <<>>

Environment ==
    \/ \E skip \in BOOLEAN, next \in {Unset, Blank, Ghost, 1} : Punch(skip, next)
    \/ \E v \in Punches : LiveCapture(v)
    \/ OracleConfirms
    \/ \E o \in 0..(Len(log) - 1) : Rewrite(o)
    \/ Shrink
    \/ \E handling \in BOOLEAN : LinkDrop(handling) \/ Reboot(handling)

Operator ==
    \/ \E j \in 1..MaxJobs :
         CreateJob(j) \/ PauseJob(j) \/ CancelJob(j)
         \/ (\E retry \in BOOLEAN : RequeueJob(j, retry))
    \/ \E o \in DOMAIN rows[epoch] : ReviewRow(o)

Message(via, m) ==
    \/ Anchor(via, m) \/ ChunkRefused(via, m) \/ ChunkReplayed(via, m) \/ ChunkChanged(via, m)
    \/ ChunkCommitted(via, m) \/ Release(via, m) \/ DeviceFault(via, m)
    \/ ManifestReplayed(via, m) \/ ManifestSealed(via, m) \/ Probe(via, m)
    \/ TailRefused(via, m) \/ TailReplayed(via, m) \/ TailDiverged(via, m)
    \/ TailCollides(via, m) \/ TailCommitted(via, m)

Handle(via) == Inbox(via) # <<>> /\ Message(via, Head(Inbox(via)))

AssignmentStep(a) ==
    \/ SendProbe(a) \/ SendManifest(a) \/ SendAnchor(a) \/ SendChunks(a)
    \/ ReportFault(a) \/ (\E release \in BOOLEAN : StepFails(a, release))

Reader ==
    \/ LoopTop \/ SendTail \/ TailRegressed \/ GiveUp
    \/ asgq # <<>> /\ AssignmentStep(Head(asgq))

Add ==
    \/ OpenStream \/ SendBootstrap
    \/ \E via \in {"up", "late"} : Handle(via)
    \/ \E j \in 1..MaxJobs :
         RefreshAssurance(j) \/ WaitForDevice(j) \/ Assign(j) \/ AssignRead(j)
    \/ \E keepPhase \in BOOLEAN : AssignWrite(keepPhase)

Next == Environment \/ Operator \/ Reader \/ Add

(* The stream reconnects, ADD handles what it receives and its worker runs, *)
(* Oracle confirms what it was sent.  A pass of the reader's loop takes a   *)
(* queued push and a queued assignment before it reads a tail.              *)
Fairness ==
    /\ WF_vars(OracleConfirms) /\ WF_vars(OpenStream) /\ WF_vars(SendBootstrap)
    /\ WF_vars(Handle("up")) /\ WF_vars(Handle("late"))
    /\ WF_vars(\E keepPhase \in BOOLEAN : AssignWrite(keepPhase)) /\ WF_vars(GiveUp) /\ SF_vars(LoopTop)
    /\ SF_vars(asgq # <<>> /\ AssignmentStep(Head(asgq)))
    /\ \A j \in 1..MaxJobs : WF_vars(RefreshAssurance(j)) /\ SF_vars(~Busy(j) /\ Assign(j))

Spec == Init /\ [][Next]_vars /\ Fairness

-----------------------------------------------------------------------------
(* Properties                                                              *)

(* ADD's ledger, jobs, certificates and the reader agree: a committed range *)
(* has one canonical row per ordinal, an open job works in the ACTIVE       *)
(* epoch, a coverage belongs to a certified job of that epoch, and while    *)
(* the terminal keeps its records the reader's certified cursor is never    *)
(* ahead of ADD's (reconciliation_manifest_authority, coverage pushes).     *)
LedgerConsistent ==
    /\ \A j \in Created :
         LET J == jobs[j]
         IN /\ Open(j) => J.ep = epoch
            /\ J.n = Cursor(J.chain) /\ \A o \in 0..(J.n - 1) : o \in DOMAIN rows[J.ep]
            /\ J.cert => J.n = J.cut
            /\ J.asg # 0 => J.n <= J.credit
    /\ Covered => /\ cov.ep = epoch /\ jobs[cov.job].cert /\ jobs[cov.job].cut = cov.cert
                  /\ \A o \in 0..(Cursor(cov.chain) - 1) : o \in DOMAIN rows[cov.ep]
    /\ (kept /\ ~outrun /\ dev.cert /\ dev.ep # 0) => Covered /\ Cursor(dev.chain) <= Cursor(cov.chain)

(* A punch nobody made never becomes attendance, although the unwritten     *)
(* newest slot of the terminal reads as one (held_newest_uids,              *)
(* in_time_order).  A stale slot first read after later records, in time    *)
(* order with them, reads as any record; the environment shows none.        *)
OnlyRealPunches == att[Ghost] = "none" /\ \A v \in Punches : v > made => att[v] = "none"

(* A COMPLETED job accounts for every record of its range: its punches are  *)
(* in ADD and confirmed by Oracle; only the final slot, read when it may    *)
(* have been unwritten, may be missing, and then the certificate names it.  *)
CompletedAccounted ==
    kept => \A j \in Created : jobs[j].st = "COMPLETED" =>
      \A o \in 0..(jobs[j].cut - 1) :
         o < Len(log) /\ log[o + 1] \in Punches =>
           log[o + 1] \in conf \/ (o = jobs[j].cut - 1 /\ o \in jobs[j].unconfirmed)

(* While the terminal keeps its records, no reconnect, reboot, stale push,  *)
(* lost ACK, late message or unwritten slot costs a certified coverage: no  *)
(* job is INVALIDATED and no recovery epoch starts (judge_tail_replay,      *)
(* refuse_tail_without_authority, the newest-slot classification).  The one *)
(* exception: a reader that missed the ACK of a newer certificate tails     *)
(* from the older one before it applies the push of the new one.            *)
CoverageSurvives ==
    kept /\ ~outrun =>
       /\ epoch = 1
       /\ \A j \in Created : jobs[j].st # "INVALIDATED" /\ (jobs[j].cert => Covered)

(* Committed evidence is final: in one epoch the coverage's cursor never    *)
(* moves back, a row that is not a newest-slot read keeps its record, and a *)
(* certified job keeps its range.                                           *)
CommittedStable ==
    [][/\ (Covered /\ cov'.job # 0 /\ cov'.ep = cov.ep) =>
            Cursor(cov'.chain) >= Cursor(cov.chain)
       /\ \A e \in 1..MaxEpoch : \A o \in DOMAIN rows[e] :
            o \in DOMAIN rows'[e] /\ (NewestOrHeld(rows[e][o]) \/ rows'[e][o].val = rows[e][o].val)
       /\ \A j \in Created : jobs[j].cert =>
            <<jobs'[j].cut, jobs'[j].chain, jobs'[j].cert>> = <<jobs[j].cut, jobs[j].chain, TRUE>>]_vars

(* A verification whose record the terminal no longer has: the reader does  *)
(* not answer the probe, and only an answer ends a verification that lasts. *)
Unprobable(j) ==
    /\ jobs[j].verify /\ jobs[j].div # <<>>
    /\ jobs[j].div[Len(jobs[j].div)].o >= Count

(* An open job ends or waits for an operator: it is not left QUEUED or      *)
(* RUNNING by a lost assignment, an expired lease or a lost ACK.  The one   *)
(* exception: a job that verifies a changed record which the terminal then  *)
(* loses is probed for ever (process_add_reconciliation_assignment,         *)
(* apply_source_probe_result).                                              *)
JobEnds ==
    \A j \in 1..MaxJobs :
        []<>(jobs[j].st \notin {"QUEUED", "RUNNING"}) \/ <>[]Unprobable(j)
=============================================================================
