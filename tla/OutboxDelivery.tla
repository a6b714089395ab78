--------------------------- MODULE OutboxDelivery ---------------------------
(***************************************************************************)
(* The Oracle delivery worker of the ADD backend (worker.py) with the      *)
(* journal lane of zkt_oracle_delivery.py: rows of the outbox are claimed  *)
(* in batches under one process lock, checked against Oracle, posted, and  *)
(* settled by a later transaction, while requests are lost, evidence       *)
(* changes, the process dies and Oracle itself may lose a copy.            *)
(*                                                                         *)
(* A payload is the version of the identity evidence it was built from;    *)
(* version 0 stands for evidence that no longer authorises delivery.       *)
(* Oracle keeps the first payload stored under a punch's event_uid.  Times *)
(* are abstracted: a retry or an audit may be due at any moment.           *)
(***************************************************************************)
EXTENDS Integers, FiniteSets

CONSTANTS Rows,        \* outbox rows, one per attendance event
          Journal,     \* rows that own a ZktOracleIntent
          Membership,  \* journal rows whose intent asks for uid membership only
          Versions,    \* evidence versions, positive integers
          MaxFaults,   \* faults of one behaviour: crashes, lost replies, ...
          Wrap         \* claim numbers are kept modulo Wrap

ASSUME OutboxAssumption ==
    /\ Journal \subseteq Rows /\ Membership \subseteq Journal
    /\ Versions \subseteq Nat \ {0} /\ 1 \in Versions
    /\ MaxFaults \in Nat /\ Wrap \in Nat \ {0}

VARIABLES status,      \* ords_outbox.status
          eventStatus, \* attendance_event.ords_status
          confirmed,   \* attendance_event.oracle_confirmed_at is set
          attempt,     \* ords_outbox.attempt_count
          evidence,    \* the payload the current evidence would produce
          frozen,      \* zkt_oracle_intent.payload_digest, 0 while NULL
          posts,       \* zkt_oracle_intent.post_attempts is positive
          receipts,    \* payloads with a stored Oracle receipt
          oracle,      \* the payload Oracle holds under the uid, 0 for none
          stored,      \* every payload Oracle ever stored (history)
          tasks,       \* claims being delivered by this process
          wire,        \* POST requests on their way to Oracle
          lock,        \* the batch holding _ords_request_lock, 0 when free
          round,       \* number of the last batch
          audits,      \* the two membership audits
          faults       \* faults left

rowVars == <<status, eventStatus, confirmed, attempt>>
intentVars == <<frozen, posts, receipts>>
vars == <<status, eventStatus, confirmed, attempt, evidence, frozen, posts,
          receipts, oracle, stored, tasks, wire, lock, round, audits, faults>>

Eligible == {"PENDING", "FAILED_RETRYABLE"}
Acknowledged == {"ACKED", "ACKED_CHECK"}
GateHolds == {"BLOCKED_IDENTITY", "QUARANTINED_INVALID_EVENT_UID",
              "QUARANTINED_MISSING_TERMINAL_PROVENANCE",
              "QUARANTINED_INVALID_DEVICE_TIME"}
Held == GateHolds \cup {"QUARANTINED_IDENTITY_CONFLICT",
                        "QUARANTINED_ORDS_REJECTED"}
Auditing == {"ACKED_FIRMWARE", "FIRMWARE_RECEIPT_UNVERIFIED",
             "FIRMWARE_RECEIPT_VERIFYING", "MEMBERSHIP_REVERIFYING",
             "MEMBERSHIP_REVERIFY_RETRY"}
Statuses == Eligible \cup Acknowledged \cup Held \cup Auditing \cup {"IN_FLIGHT"}

Replies == {"none", "stored", "rejected", "error"}
Classes == {"none", "MISSING", "MATCH", "UID_PRESENT", "MISMATCH", "HOLD",
            "PENDING", "CHANGED", "REJECTED", "UNKNOWN", "present", "failed"}
Pcs == {"split", "check", "reserve", "post", "wait", "recheck", "apply"}
Task == [row : Rows, attempt : 0..(Wrap - 1), batch : 1..Wrap,
         payload : Versions, pc : Pcs, class : Classes, reply : Replies]

NoAudit == [pc |-> "idle", rows |-> {}, missing |-> {}, failed |-> FALSE]
AuditKinds == {"firmware", "confirmed"}
AuditLock == -1

Init ==
    /\ status \in [Rows -> {"PENDING", "ACKED_FIRMWARE"}]
    /\ \A r \in Journal : status[r] = "PENDING"
    /\ eventStatus = status
    /\ confirmed = [r \in Rows |-> FALSE]
    /\ attempt = [r \in Rows |-> 0]
    /\ evidence = [r \in Rows |-> 1]
    /\ frozen = [r \in Rows |-> 0]
    /\ posts = [r \in Rows |-> FALSE]
    /\ receipts = [r \in Rows |-> {}]
    /\ oracle \in [Rows -> {0, 1}]
    /\ \A r \in Rows : status[r] = "PENDING" => oracle[r] = 0
    /\ stored = [r \in Rows |-> {oracle[r]} \ {0}]
    /\ tasks = {} /\ wire = {} /\ lock = 0 /\ round = 0
    /\ audits = [k \in AuditKinds |-> NoAudit]
    /\ faults = MaxFaults

Fault == faults > 0 /\ faults' = faults - 1

(* row.status = event.ords_status = s, for every row of S *)
SetBoth(S, s) ==
    /\ status' = [r \in Rows |-> IF r \in S THEN s ELSE status[r]]
    /\ eventStatus' = [r \in Rows |-> IF r \in S THEN s ELSE eventStatus[r]]

-----------------------------------------------------------------------------
(* Claiming: claim_ords_batch and split_claims *)

Live(r) == \E t \in tasks : t.row = r

(* One transaction: stale IN_FLIGHT rows return to FAILED_RETRYABLE, then  *)
(* eligible rows are claimed or, when their evidence fails a gate (uid,    *)
(* approval, provenance, identity, time or proof), held under its status.  *)
(* A row of a claim that still runs is only stale after max(60 s, three    *)
(* request timeouts), which counts as a fault here.                        *)
ClaimBatch(stale, picked, gate) ==
    LET recovered == [r \in Rows |-> IF r \in stale THEN "FAILED_RETRYABLE"
                                     ELSE status[r]]
        claimed == {r \in picked : evidence[r] # 0}
        next == 1 + (round % Wrap)
    IN  /\ lock = 0
        /\ picked \subseteq {r \in Rows : recovered[r] \in Eligible}
        /\ stale \cup picked # {}
        /\ picked = claimed => gate = "BLOCKED_IDENTITY"   \* unused
        /\ IF \E r \in stale : Live(r) THEN Fault ELSE UNCHANGED faults
        /\ status' = [r \in Rows |->
                        IF r \in claimed THEN "IN_FLIGHT"
                        ELSE IF r \in picked THEN gate
                        ELSE recovered[r]]
        /\ eventStatus' = [r \in Rows |->
                        IF r \in picked \ claimed THEN gate
                        ELSE IF r \in stale THEN "FAILED_RETRYABLE"
                        ELSE eventStatus[r]]
        /\ attempt' = [r \in Rows |-> IF r \in claimed
                                      THEN (attempt[r] + 1) % Wrap
                                      ELSE attempt[r]]
        /\ tasks' = tasks \cup
              {[row |-> r, attempt |-> attempt'[r], batch |-> next,
                payload |-> evidence[r],
                pc |-> IF r \in Journal THEN "split" ELSE "check",
                class |-> "none", reply |-> "none"] : r \in claimed}
        /\ round' = IF claimed = {} THEN round ELSE next
        /\ lock' = IF claimed = {} THEN 0 ELSE next
        /\ UNCHANGED <<confirmed, evidence, frozen, posts, receipts, oracle,
                       stored, wire, audits>>

(* mutant: no recovery of stale claims *)
NoStaleSets == {{}}

StaleSets == SUBSET {r \in Rows : status[r] = "IN_FLIGHT"}

Claim ==
    \E stale \in StaleSets :
      \E picked \in SUBSET {r \in Rows : status[r] \in Eligible \/ r \in stale} :
        \E gate \in GateHolds : ClaimBatch(stale, picked, gate)

Replace(t, u) == tasks' = (tasks \ {t}) \cup {u}

(* _hold and _retry of the journal lane clear the confirmation as well *)
Unconfirm(r, s) ==
    /\ SetBoth({r}, s)
    /\ confirmed' = [confirmed EXCEPT ![r] = FALSE]

Hold(r) == Unconfirm(r, "QUARANTINED_IDENTITY_CONFLICT")

Retry(r) == Unconfirm(r, "FAILED_RETRYABLE")

Fits(t) == evidence[t.row] = t.payload /\ frozen[t.row] \in {0, t.payload}

(* split_claims freezes the payload of a journal claim the first time and  *)
(* holds the row when the evidence or the frozen payload differ.           *)
SplitClaim(t) ==
    LET r == t.row IN
    /\ t.pc = "split"
    /\ UNCHANGED <<attempt, evidence, posts, receipts, oracle, stored, wire,
                   lock, round, audits>>
    /\ \/ /\ status[r] # "IN_FLIGHT"
          /\ tasks' = tasks \ {t}
          /\ UNCHANGED <<status, eventStatus, confirmed, frozen, faults>>
       \/ /\ status[r] = "IN_FLIGHT"
          /\ Fits(t)
          /\ frozen' = [frozen EXCEPT ![r] = t.payload]
          /\ Replace(t, [t EXCEPT !.pc = "check"])
          /\ UNCHANGED <<status, eventStatus, confirmed, faults>>
       \/ /\ status[r] = "IN_FLIGHT"
          /\ ~Fits(t)
          /\ Hold(r)
          /\ tasks' = tasks \ {t}
          /\ UNCHANGED <<frozen, faults>>
       \/ /\ status[r] = "IN_FLIGHT" /\ Fault   \* keys or encryption fail
          /\ Retry(r)
          /\ tasks' = tasks \ {t}
          /\ UNCHANGED frozen

-----------------------------------------------------------------------------
(* Requests to Oracle: verify, verify_membership, post_ords_claim *)

(* What Oracle's read-only check answers for a journal claim *)
Verdicts(t) ==
    IF oracle[t.row] = 0 THEN {"MISSING"}
    ELSE IF t.row \in Membership THEN {"UID_PRESENT"}
    ELSE IF oracle[t.row] = t.payload THEN {"MATCH", "HOLD"}
    ELSE {"MISMATCH"}

(* The first content check of deliver: only MISSING goes on to a POST.     *)
Verify(t) ==
    /\ t.row \in Journal /\ t.pc = "check"
    /\ \/ /\ \E c \in Verdicts(t) :
               Replace(t, [t EXCEPT !.class = c,
                             !.pc = IF c = "MISSING" THEN "reserve" ELSE "apply"])
          /\ UNCHANGED faults
       \/ /\ Fault
          /\ \E c \in {"UNKNOWN", "PENDING"} :
               Replace(t, [t EXCEPT !.class = c, !.pc = "apply"])
    /\ UNCHANGED <<rowVars, evidence, intentVars, oracle, stored, wire, lock,
                   round, audits>>

(* mutant: neither the claim number nor the row's state is compared *)
OwnedByPayload(t) == frozen[t.row] = t.payload

Owned(t) == status[t.row] = "IN_FLIGHT" /\ attempt[t.row] = t.attempt
            /\ frozen[t.row] = t.payload

SaveSend(r) == posts' = [posts EXCEPT ![r] = TRUE]

(* reserve_post saves the send intent, or refuses a claim that is no       *)
(* longer owned or whose evidence changed.                                 *)
ReservePost(t) ==
    /\ t.pc = "reserve"
    /\ \/ /\ Owned(t) /\ evidence[t.row] = t.payload
          /\ SaveSend(t.row)
          /\ Replace(t, [t EXCEPT !.pc = "post"])
          /\ UNCHANGED faults
       \/ /\ ~(Owned(t) /\ evidence[t.row] = t.payload)
          /\ Replace(t, [t EXCEPT !.class = "CHANGED", !.pc = "apply"])
          /\ UNCHANGED <<posts, faults>>
       \/ /\ Fault
          /\ Replace(t, [t EXCEPT !.class = "UNKNOWN", !.pc = "apply"])
          /\ UNCHANGED posts
    /\ UNCHANGED <<rowVars, evidence, frozen, receipts, oracle, stored, wire,
                   lock, round, audits>>

SendPost(t) ==
    /\ t.pc = "post"
    /\ wire' = wire \cup {[row |-> t.row, attempt |-> t.attempt,
                           payload |-> t.payload]}
    /\ Replace(t, [t EXCEPT !.pc = "wait"])
    /\ UNCHANGED <<rowVars, evidence, intentVars, oracle, stored, lock, round,
                   audits, faults>>

AfterReply(t) == IF t.row \in Journal THEN "recheck" ELSE "apply"

Answer(w, reply) ==
    tasks' = {IF t.pc = "wait" /\ t.row = w.row /\ t.attempt = w.attempt
              THEN [t EXCEPT !.reply = reply, !.pc = AfterReply(t)]
              ELSE t : t \in tasks}

(* Oracle stores the first payload under a uid; a second POST answers 409, *)
(* which the worker also counts as stored.  A late request is still stored *)
(* although its sender gave up waiting.                                    *)
OracleAnswers(w) ==
    /\ wire' = wire \ {w}
    /\ \/ /\ oracle' = [oracle EXCEPT ![w.row] = IF @ = 0 THEN w.payload ELSE @]
          /\ stored' = [stored EXCEPT ![w.row] = @ \cup {oracle'[w.row]}]
          /\ Answer(w, "stored")
          /\ UNCHANGED faults
       \/ /\ oracle[w.row] = 0
          /\ Answer(w, "rejected")
          /\ UNCHANGED <<oracle, stored, faults>>
       \/ /\ Fault
          /\ Answer(w, "error")
          /\ UNCHANGED <<oracle, stored>>
    /\ UNCHANGED <<rowVars, evidence, intentVars, lock, round, audits>>

(* The reply is lost or times out: the request may or may not get there.   *)
ReplyLost(t) ==
    /\ t.pc = "wait" /\ Fault
    /\ wire' \in {wire, {w \in wire : w.row # t.row \/ w.attempt # t.attempt}}
    /\ Replace(t, [t EXCEPT !.reply = "error", !.pc = AfterReply(t)])
    /\ UNCHANGED <<rowVars, evidence, intentVars, oracle, stored, lock, round,
                   audits>>

(* The second check decides; a refused POST of a missing uid is REJECTED.  *)
VerifyAgain(t) ==
    /\ t.pc = "recheck"
    /\ \/ /\ \E c \in Verdicts(t) :
               Replace(t, [t EXCEPT !.pc = "apply",
                   !.class = IF c = "MISSING" /\ t.reply = "rejected"
                             THEN "REJECTED" ELSE c])
          /\ UNCHANGED faults
       \/ /\ Fault
          /\ Replace(t, [t EXCEPT !.class = "UNKNOWN", !.pc = "apply"])
    /\ UNCHANGED <<rowVars, evidence, intentVars, oracle, stored, wire, lock,
                   round, audits>>

-----------------------------------------------------------------------------
(* Settling: persist_result for one journal claim *)

Confirm(r) ==
    /\ SetBoth({r}, "ACKED_CHECK")
    /\ confirmed' = [confirmed EXCEPT ![r] = TRUE]

(* A claim that lost its row settles nothing; changed evidence overrides   *)
(* Oracle's answer; receipt and completion commit together.                *)
PersistResult(t) ==
    LET r == t.row
        c == IF evidence[r] # t.payload THEN "CHANGED" ELSE t.class
    IN  /\ t.row \in Journal /\ t.pc = "apply"
        /\ tasks' = tasks \ {t}
        /\ \/ /\ ~Owned(t)
              /\ UNCHANGED <<status, eventStatus, confirmed, receipts>>
           \/ /\ Owned(t)
              /\ \/ c = "MATCH" /\ r \notin Membership
                 \/ c = "UID_PRESENT" /\ r \in Membership
              /\ receipts' = [receipts EXCEPT ![r] = @ \cup {t.payload}]
              /\ Confirm(r)
           \/ /\ Owned(t) /\ c \in {"HOLD", "MISMATCH", "CHANGED", "REJECTED"}
              /\ Hold(r)
              /\ UNCHANGED receipts
           \/ /\ Owned(t) /\ c \in {"MISSING", "PENDING", "UNKNOWN"}
              /\ Retry(r)
              /\ UNCHANGED receipts
        /\ UNCHANGED <<attempt, evidence, frozen, posts, oracle, stored, wire,
                       lock, round, audits, faults>>

(* The transaction fails: gather raises at once, the lock is released and  *)
(* the other claims of the batch go on without it.                         *)
PersistFails(t) ==
    /\ t.row \in Journal /\ t.pc = "apply" /\ Fault
    /\ tasks' = tasks \ {t}
    /\ lock' = IF lock = t.batch THEN 0 ELSE lock
    /\ UNCHANGED <<rowVars, evidence, intentVars, oracle, stored, wire, round,
                   audits>>

-----------------------------------------------------------------------------
(* The ordinary lane: _deliver_ordinary_claims and apply_ords_batch_results *)

Ordinary(b) == {t \in tasks : t.batch = b /\ t.row \notin Journal}

(* One membership request for the whole batch.  A 404/405 sends every      *)
(* claim; any other failure sends none.                                    *)
CheckBatch(b) ==
    LET B == Ordinary(b) IN
    /\ B # {} /\ \A t \in B : t.pc = "check"
    /\ \/ /\ tasks' = (tasks \ B) \cup
               {[t EXCEPT !.pc = IF oracle[t.row] = 0 THEN "post" ELSE "apply",
                          !.class = IF oracle[t.row] = 0 THEN "MISSING"
                                    ELSE "present"] : t \in B}
          /\ UNCHANGED faults
       \/ /\ Fault
          /\ tasks' = (tasks \ B) \cup {[t EXCEPT !.pc = "post"] : t \in B}
       \/ /\ Fault
          /\ tasks' = (tasks \ B) \cup
               {[t EXCEPT !.pc = "apply", !.class = "failed"] : t \in B}
    /\ UNCHANGED <<rowVars, evidence, intentVars, oracle, stored, wire, lock,
                   round, audits>>

(* mutant: a lost reply counts as stored *)
OptimisticOutcome(t) ==
    CASE t.class = "present"  -> "ACKED_CHECK"
      [] t.class = "failed"   -> "FAILED_RETRYABLE"
      [] t.reply = "rejected" -> "QUARANTINED_ORDS_REJECTED"
      [] OTHER                -> "ACKED"

(* apply_ords_confirmation, apply_ords_membership_failure and              *)
(* apply_ords_delivery_result: none of them asks whether the claim still   *)
(* owns the row.                                                           *)
Outcome(t) ==
    CASE t.class = "present"    -> "ACKED_CHECK"
      [] t.class = "failed"     -> "FAILED_RETRYABLE"
      [] t.reply = "stored"     -> "ACKED"
      [] t.reply = "rejected"   -> "QUARANTINED_ORDS_REJECTED"
      [] OTHER                  -> "FAILED_RETRYABLE"

(* generic_confirmation_allowed, and the flush hook of the manual guard: a *)
(* result does not reopen a punch that was held for approval meanwhile.    *)
ConfirmationAllowed(r) == eventStatus[r] # "BLOCKED_IDENTITY"

ApplyBatch(b) ==
    LET B == Ordinary(b)
        mine == {t.row : t \in {u \in B : ConfirmationAllowed(u.row)}}
        result == [r \in mine |-> Outcome(CHOOSE t \in B : t.row = r)]
    IN  /\ B # {} /\ \A t \in B : t.pc = "apply"
        /\ tasks' = tasks \ B
        /\ status' = [r \in Rows |-> IF r \in mine THEN result[r] ELSE status[r]]
        /\ eventStatus' = [r \in Rows |-> IF r \in mine THEN result[r]
                                          ELSE eventStatus[r]]
        /\ confirmed' = [r \in Rows |-> confirmed[r]
                             \/ (r \in mine /\ result[r] \in Acknowledged)]
        /\ UNCHANGED <<attempt, evidence, intentVars, oracle, stored, wire,
                       lock, round, audits, faults>>

ApplyBatchFails(b) ==
    LET B == Ordinary(b) IN
    /\ B # {} /\ (\A t \in B : t.pc = "apply") /\ Fault
    /\ tasks' = tasks \ B
    /\ lock' = IF lock = b THEN 0 ELSE lock
    /\ UNCHANGED <<rowVars, evidence, intentVars, oracle, stored, wire, round,
                   audits>>

(* deliver_ords_batch returns: the lock is released *)
FinishBatch ==
    /\ lock > 0 /\ \A t \in tasks : t.batch # lock
    /\ lock' = 0
    /\ UNCHANGED <<rowVars, evidence, intentVars, oracle, stored, tasks, wire,
                   round, audits, faults>>

-----------------------------------------------------------------------------
(* The membership audits of ordinary rows *)

Verifying(k) == IF k = "firmware" THEN "FIRMWARE_RECEIPT_VERIFYING"
                ELSE "MEMBERSHIP_REVERIFYING"

(* Rows claim_firmware_receipt_audit_batch takes: those a firmware receipt *)
(* acknowledged, and those a dead process left in the verifying state.     *)
FirmwareDue == {r \in Rows \ Journal :
    status[r] \in {"ACKED_FIRMWARE", "FIRMWARE_RECEIPT_UNVERIFIED",
                   "FIRMWARE_RECEIPT_VERIFYING"}}

(* Rows claim_confirmed_membership_audit_batch takes: confirmed ones whose *)
(* proof is old, and those an earlier audit did not finish.                *)
ConfirmedDue == {r \in Rows \ Journal :
    status[r] \in Acknowledged \cup {"MEMBERSHIP_REVERIFYING",
                                     "MEMBERSHIP_REVERIFY_RETRY"}}

Auditable(k) == IF k = "firmware" THEN FirmwareDue ELSE ConfirmedDue

(* One claim transaction under the request lock; the firmware audit also   *)
(* withdraws the confirmation.                                             *)
AuditClaim(k) ==
    /\ lock = 0 /\ audits[k].pc = "idle"
    /\ \E S \in SUBSET Auditable(k) \ {{}} :
         /\ audits' = [audits EXCEPT ![k] =
                         [NoAudit EXCEPT !.pc = "request", !.rows = S]]
         /\ SetBoth(S, Verifying(k))
         /\ attempt' = [r \in Rows |-> IF r \in S THEN (attempt[r] + 1) % Wrap
                                       ELSE attempt[r]]
         /\ confirmed' = [r \in Rows |->
                            confirmed[r] /\ ~(k = "firmware" /\ r \in S)]
    /\ lock' = AuditLock
    /\ UNCHANGED <<evidence, intentVars, oracle, stored, tasks, wire, round,
                   faults>>

(* The membership reply; the lock is released before it is applied.        *)
AuditReply(k) ==
    /\ audits[k].pc = "request"
    /\ \/ /\ audits' = [audits EXCEPT ![k].pc = "apply",
                          ![k].missing = {r \in audits[k].rows : oracle[r] = 0}]
          /\ UNCHANGED faults
       \/ /\ Fault
          /\ audits' = [audits EXCEPT ![k].pc = "apply", ![k].failed = TRUE]
    /\ lock' = 0
    /\ UNCHANGED <<rowVars, evidence, intentVars, oracle, stored, tasks, wire,
                   round>>

(* apply_firmware_receipt_audit_results: one transaction for the batch *)
FirmwareVerdict(r) ==
    IF audits["firmware"].failed THEN "FIRMWARE_RECEIPT_UNVERIFIED"
    ELSE IF r \in audits["firmware"].missing THEN "PENDING" ELSE "ACKED_CHECK"

(* mutant: a missing punch is reported but not queued again *)
ReportOnlyVerdict(r) ==
    IF audits["confirmed"].failed THEN "MEMBERSHIP_REVERIFY_RETRY" ELSE "ACKED_CHECK"

(* apply_confirmed_membership_audit_results: missing rows are queued again *)
ConfirmedVerdict(r) ==
    IF audits["confirmed"].failed THEN "MEMBERSHIP_REVERIFY_RETRY"
    ELSE IF r \in audits["confirmed"].missing THEN "PENDING" ELSE "ACKED_CHECK"

AuditVerdict(k, r) == IF k = "firmware" THEN FirmwareVerdict(r) ELSE ConfirmedVerdict(r)

AuditApply(k) ==
    LET S == audits[k].rows
        verdict == [r \in S |-> AuditVerdict(k, r)]
    IN  /\ audits[k].pc = "apply"
        /\ status' = [r \in Rows |-> IF r \in S THEN verdict[r] ELSE status[r]]
        /\ eventStatus' = [r \in Rows |-> IF r \in S THEN verdict[r]
                                          ELSE eventStatus[r]]
        /\ confirmed' = [r \in Rows |->
              IF r \notin S THEN confirmed[r]
              ELSE \/ verdict[r] = "ACKED_CHECK"
                   \/ verdict[r] = "MEMBERSHIP_REVERIFY_RETRY" /\ confirmed[r]]
        /\ audits' = [audits EXCEPT ![k] = NoAudit]
        /\ UNCHANGED <<attempt, evidence, intentVars, oracle, stored, tasks,
                       wire, lock, round, faults>>

-----------------------------------------------------------------------------
(* The environment *)

EvidenceChanges(r) ==
    /\ Fault
    /\ \E v \in (Versions \cup {0}) \ {evidence[r]} :
         evidence' = [evidence EXCEPT ![r] = v]
    /\ UNCHANGED <<rowVars, intentVars, oracle, stored, tasks, wire, lock,
                   round, audits>>

OracleLoses(r) ==
    /\ oracle[r] # 0 /\ Fault
    /\ oracle' = [oracle EXCEPT ![r] = 0]
    /\ UNCHANGED <<rowVars, evidence, intentVars, stored, tasks, wire, lock,
                   round, audits>>

(* The process dies; requests already sent stay on the wire.               *)
Crash ==
    /\ Fault
    /\ tasks' = {} /\ lock' = 0
    /\ audits' = [k \in AuditKinds |-> NoAudit]
    /\ UNCHANGED <<rowVars, evidence, intentVars, oracle, stored, wire, round>>

TaskStep(t) ==
    \/ SplitClaim(t) \/ Verify(t) \/ ReservePost(t) \/ SendPost(t)
    \/ ReplyLost(t) \/ VerifyAgain(t) \/ PersistResult(t) \/ PersistFails(t)

BatchStep(b) == CheckBatch(b) \/ ApplyBatch(b) \/ ApplyBatchFails(b)

AuditStep(k) == AuditClaim(k) \/ AuditReply(k) \/ AuditApply(k)

Next ==
    \/ Claim
    \/ \E t \in tasks : TaskStep(t)
    \/ \E b \in 1..Wrap : BatchStep(b)
    \/ FinishBatch
    \/ \E w \in wire : OracleAnswers(w)
    \/ \E k \in AuditKinds : AuditStep(k)
    \/ \E r \in Rows : EvidenceChanges(r) \/ OracleLoses(r)
    \/ Crash

Spec == Init /\ [][Next]_vars

(* The loops run for ever and every awaited request ends, by its reply or  *)
(* by its timeout; a batch takes every row that is due, so a row is        *)
(* eventually part of a claim.                                             *)
Fairness ==
    /\ \A r \in Rows :
         /\ SF_vars(\E stale \in StaleSets : \E picked \in SUBSET Rows :
               \E gate \in GateHolds : r \in picked /\ ClaimBatch(stale, picked, gate))
         /\ WF_vars(\E t \in tasks : t.row = r /\ TaskStep(t))
         /\ WF_vars(\E w \in wire : w.row = r /\ OracleAnswers(w))
    /\ \A b \in 1..Wrap : WF_vars(BatchStep(b))
    /\ WF_vars(FinishBatch)
    /\ \A k \in AuditKinds :
         /\ WF_vars(AuditReply(k)) /\ WF_vars(AuditApply(k))
         /\ \A r \in Rows : SF_vars(AuditClaim(k) /\ r \in audits'[k].rows)

FairSpec == Spec /\ Fairness

-----------------------------------------------------------------------------
TypeOK ==
    /\ status \in [Rows -> Statuses] /\ eventStatus \in [Rows -> Statuses]
    /\ confirmed \in [Rows -> BOOLEAN]
    /\ attempt \in [Rows -> 0..(Wrap - 1)]
    /\ evidence \in [Rows -> Versions \cup {0}]
    /\ frozen \in [Rows -> Versions \cup {0}]
    /\ posts \in [Rows -> BOOLEAN]
    /\ receipts \in [Rows -> SUBSET Versions]
    /\ oracle \in [Rows -> Versions \cup {0}]
    /\ stored \in [Rows -> SUBSET Versions]
    /\ tasks \subseteq Task
    /\ lock \in {AuditLock} \cup 0..Wrap /\ round \in 0..Wrap
    /\ faults \in 0..MaxFaults

(* zkt_oracle_delivery.py: a journal punch is ACKED_CHECK only with a      *)
(* receipt for its frozen payload, and Oracle did store that payload (or,  *)
(* for a membership intent, some payload under its uid).                   *)
JournalCertified ==
    \A r \in Journal : status[r] = "ACKED_CHECK" =>
        /\ frozen[r] \in receipts[r]
        /\ IF r \in Membership THEN stored[r] # {} ELSE frozen[r] \in stored[r]

(* split_claims, reserve_post: whatever reaches Oracle for a journal punch *)
(* over all attempts, retries and crashes is the one frozen payload.       *)
OneFrozenPayload ==
    \A r \in Journal :
        /\ stored[r] \subseteq {frozen[r]}
        /\ \A w \in wire : w.row = r => w.payload = frozen[r]

(* reserve_post: an intent with no saved send attempt was never posted, so *)
(* a count of zero proves that Oracle holds nothing of it.                 *)
PostsAccounted ==
    \A r \in Journal : stored[r] # {} \/ (\E w \in wire : w.row = r) => posts[r]

(* worker.py: a punch is confirmed, or has an acknowledged status, only    *)
(* when Oracle stored a copy of it.                                        *)
ConfirmedStored ==
    \A r \in Rows : confirmed[r] \/ status[r] \in Acknowledged => stored[r] # {}

(* The outbox row and the punch's own ords_status agree, except that a     *)
(* claim only marks the row.                                               *)
RowAndEventAgree ==
    \A r \in Rows : status[r] # "IN_FLIGHT" => eventStatus[r] = status[r]

(* persist_result: a confirmed journal punch is never reopened or held by  *)
(* a late claim, a stale recovery or an audit.                             *)
JournalConfirmationFinal ==
    [][\A r \in Journal : status[r] = "ACKED_CHECK" =>
          status'[r] = "ACKED_CHECK" /\ confirmed'[r]]_vars

(* Once faults end, every row leaves delivery: no claim, no crash and no   *)
(* lost reply strands it in IN_FLIGHT or in an unfinished audit.           *)
RowsSettle ==
    \A r \in Rows : []<>(status[r] \in Acknowledged \cup Held)

(* audit_confirmed_membership_batch: an ordinary punch that Oracle lost    *)
(* after confirming it is sent again, or held.                             *)
LostCopyResent ==
    \A r \in Rows \ Journal :
        (status[r] \in Acknowledged /\ oracle[r] = 0)
            ~> (oracle[r] # 0 \/ status[r] \in Held)

(* Row, event, ledger, receipts and Oracle agree: types, what is confirmed *)
(* was stored, journal confirmations are certified, only the one frozen    *)
(* payload of a journal punch is ever posted, every copy in Oracle has a   *)
(* saved send, and the row and its event have one status.                  *)
RowsConsistent ==
    /\ TypeOK /\ ConfirmedStored /\ JournalCertified /\ OneFrozenPayload
    /\ PostsAccounted /\ RowAndEventAgree
=============================================================================
