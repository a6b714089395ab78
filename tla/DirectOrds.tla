----------------------------- MODULE DirectOrds -----------------------------
(***************************************************************************)
(* One held punch and the administrators who approve its direct delivery   *)
(* to Oracle (attendance_direct_ords.py), the forced lane that delivers an *)
(* approval (attendance_force_delivery.py), the guard that keeps a held    *)
(* punch held (attendance_manual_guard.py), and ADD's own release of the   *)
(* punch after a roster snapshot, which may name another person.           *)
(*                                                                         *)
(* A payload is its CNIC.  An approval takes the CNIC saved with the punch *)
(* (SAVED_PUNCH), today's CNIC of the terminal user (SYNCED_USER) or the   *)
(* one retained for the time of the punch (PUNCH_TIME_HISTORY).  Oracle    *)
(* keeps the first CNIC stored under the punch's uid and answers 409 to    *)
(* any later POST.                                                         *)
(***************************************************************************)
EXTENDS Integers, FiniteSets

CONSTANTS Cnics,      \* CNICs, positive integers
          Jobs,       \* approval runs, each with one item for the punch
          Budgets,    \* what a behaviour may meet: runs, failures, and changes
                      \* of today's or the retained CNIC
          Wrap        \* claim numbers are kept modulo Wrap

ASSUME DirectAssumption == Cnics \subseteq Nat \ {0} /\ 0 \notin Jobs /\ Wrap \in Nat \ {0}
                           /\ Budgets \subseteq [jobs : SUBSET Jobs, faults : Nat, roster : Nat]

VARIABLES current,     \* CNIC of the terminal user today
          retained,    \* CNIC retained for the time of the punch, 0 for none
          saved,       \* event.cnic_encrypted, 0 for none
          auto,        \* the punch is RESOLVED_SYNCED_CNIC
          required,    \* event.manual_release_required
          status,      \* ords_outbox.status
          eventStatus, \* event.ords_status
          confirmed,   \* event.oracle_confirmed_at is set
          uncertain,   \* outbox.last_error is PREVIOUS_POST_UNCERTAIN
          attempt,     \* outbox.attempt_count
          decision,    \* the latest AttendanceForceReleaseDecision
          items,       \* the run items of the punch
          job,         \* the runs' status
          oracle,      \* CNIC Oracle holds, 0 for none
          sender,      \* the lane whose POST Oracle stored (history)
          approvedPosts,\* CNICs posted under an approval (history)
          certified,   \* CNIC the confirmed punch is recorded under (history)
          overtaken,   \* a claim was taken for stale while it ran (history)
          tasks,       \* claims being delivered
          wire,        \* POST requests on their way
          lock,        \* claim holding the request lock, 0 when free
          roster,      \* roster changes left
          faults       \* failures left

evidenceVars == <<current, retained, saved, auto, required>>
rowVars == <<status, eventStatus, confirmed, uncertain, attempt>>
runVars == <<decision, items, job>>
oracleVars == <<oracle, sender, approvedPosts, certified, overtaken>>
vars == <<evidenceVars, rowVars, runVars, oracleVars, tasks, wire, lock,
          roster, faults>>

HELD == {"BLOCKED_IDENTITY", "WAITING_FOR_SNAPSHOT"}
Eligible == {"PENDING", "FAILED_RETRYABLE"}
Acknowledged == {"ACKED", "ACKED_CHECK"}
Statuses == HELD \cup Eligible \cup Acknowledged \cup
    {"IN_FLIGHT", "QUARANTINED_IDENTITY_CONFLICT", "QUARANTINED_ORDS_REJECTED"}
ItemStates == {"NONE", "READY", "WAITING_ORACLE", "CONFIRMED", "NEEDS_REVIEW",
               "SKIPPED"}
ACTIVE == {"RUNNING", "WAITING_ORACLE"}
NoItem == [state |-> "NONE", cnic |-> 0, source |-> "none", saved |-> 0,
           user |-> 0, posted |-> FALSE, verified |-> FALSE]
NoDecision == [job |-> 0, after |-> FALSE]

(* A run outside the budget has ended before, without this punch.          *)
Init ==
    \E b \in Budgets :
    /\ current \in Cnics /\ retained \in Cnics \cup {0} /\ saved = 0
    /\ auto = FALSE /\ required = TRUE
    /\ status = "BLOCKED_IDENTITY" /\ eventStatus = status
    /\ confirmed = FALSE /\ uncertain = FALSE /\ attempt = 0
    /\ decision = NoDecision
    /\ items = [j \in Jobs |-> NoItem]
    /\ job = [j \in Jobs |-> IF j \in b.jobs THEN "NONE" ELSE "COMPLETED"]
    /\ oracle = 0 /\ sender = "none" /\ approvedPosts = {} /\ certified = 0
    /\ overtaken = FALSE
    /\ tasks = {} /\ wire = {} /\ lock = 0
    /\ roster = b.roster /\ faults = b.faults

Fault == faults > 0 /\ faults' = faults - 1

SetBoth(s) == status' = s /\ eventStatus' = s

-----------------------------------------------------------------------------
(* attendance_manual_guard.py *)

requires_approval ==
    IF auto /\ eventStatus \notin HELD THEN FALSE
    ELSE required \/ eventStatus \in HELD

Decided == decision.job # 0

delivery_authorized == requires_approval => Decided

generic_confirmation_allowed ==
    requires_approval => delivery_authorized /\ ~Decided

-----------------------------------------------------------------------------
(* attendance_direct_ords.py: what an approval still stands on *)

(* _revalidate with _same_identity: the punch is as it was approved, and   *)
(* the approved source still names the approved CNIC.                      *)
Stands(i) ==
    /\ saved = i.saved
    /\ i.source # "PUNCH_TIME_HISTORY" => current = i.user
    /\ CASE i.source = "SAVED_PUNCH"        -> saved = i.cnic
         [] i.source = "SYNCED_USER"        -> saved = 0 /\ current = i.cnic
         [] i.source = "PUNCH_TIME_HISTORY" -> saved = 0 /\ retained = i.cnic
         [] OTHER                           -> FALSE

Approval == items[decision.job]

approved_payload == Decided /\ Stands(Approval)

_released_automatically_after == Decided /\ decision.after /\ ~requires_approval

(* mutant: a post of another CNIC does not matter *)
TakeoverWithoutPosts ==
    IF ~_released_automatically_after \/ approved_payload THEN "NONE" ELSE "TAKEOVER"

(* May ordinary delivery own the punch although it was approved?           *)
automatic_takeover ==
    IF ~_released_automatically_after \/ approved_payload THEN "NONE"
    ELSE IF Approval.posted /\ Approval.cnic # saved THEN "UNCERTAIN"
    ELSE "TAKEOVER"

_stopped_and_held == Approval.state = "NEEDS_REVIEW" /\ eventStatus \in HELD

(* Only an approval that can no longer deliver and never posted may be     *)
(* replaced by another.                                                    *)
_replacement_block ==
    \/ eventStatus = "QUARANTINED_IDENTITY_CONFLICT" /\ uncertain
    \/ ~ /\ eventStatus \in HELD \cup Eligible
         /\ status # "IN_FLIGHT" /\ ~confirmed
         /\ ~_released_automatically_after
         /\ _stopped_and_held \/ ~approved_payload
    \/ Approval.posted

AlreadyConfirmed == eventStatus \in Acknowledged /\ confirmed

-----------------------------------------------------------------------------
(* Approving and queueing *)

(* _resolve: a saved CNIC decides; otherwise the administrator may choose  *)
(* among the CNICs the evidence offers.                                    *)
Resolutions ==
    IF saved # 0 THEN {<<saved, "SAVED_PUNCH">>}
    ELSE {<<current, "SYNCED_USER">>} \cup
         IF retained = 0 THEN {} ELSE {<<retained, "PUNCH_TIME_HISTORY">>}

Refused == AlreadyConfirmed \/ status = "IN_FLIGHT" \/ (Decided /\ _replacement_block)

(* create: one transaction under the scheduler and row locks *)
create(j) ==
    /\ job[j] = "NONE"
    /\ \/ /\ ~Refused
          /\ \E r \in Resolutions :
               items' = [items EXCEPT ![j] = [NoItem EXCEPT !.state = "READY",
                           !.cnic = r[1], !.source = r[2], !.saved = saved,
                           !.user = current]]
          /\ job' = [job EXCEPT ![j] = "RUNNING"]
       \/ /\ Refused
          /\ items' = [items EXCEPT ![j].state = "SKIPPED"]
          /\ job' = [job EXCEPT ![j] = "COMPLETED_WITH_REVIEW"]
    /\ UNCHANGED <<evidenceVars, rowVars, decision, oracleVars, tasks, wire,
                   lock, roster, faults>>

JobStatus(state) ==
    CASE state = "READY"          -> "RUNNING"
      [] state = "WAITING_ORACLE" -> "WAITING_ORACLE"
      [] state = "CONFIRMED"      -> "COMPLETED"
      [] OTHER                    -> "COMPLETED_WITH_REVIEW"

SetItem(j, state) == items' = [items EXCEPT ![j].state = state]

(* _queue checks everything again under the row lock, then saves the       *)
(* decision and makes the punch eligible.  A punch in flight waits for the *)
(* claim to settle.                                                        *)
_queue(j) ==
    /\ items[j].state = "READY"
    /\ \/ /\ saved # items[j].saved \/ AlreadyConfirmed \/ (Decided /\ _replacement_block)
             \/ (status # "IN_FLIGHT" /\ ~Stands(items[j]))
          /\ SetItem(j, "SKIPPED")
          /\ UNCHANGED <<required, rowVars, decision>>
       \/ /\ Stands(items[j]) /\ ~AlreadyConfirmed /\ ~(Decided /\ _replacement_block)
          /\ status # "IN_FLIGHT"
          /\ decision' = [job |-> j, after |-> FALSE]
          /\ required' = ~auto   \* the flush hook clears it on a resolved punch
          /\ SetBoth("PENDING") /\ uncertain' = FALSE
          /\ SetItem(j, "WAITING_ORACLE")
          /\ UNCHANGED <<confirmed, attempt>>
    /\ UNCHANGED <<current, retained, saved, auto>>

(* mutant: a punch held again is not noticed *)
ObserveConfirmed(j) ==
    /\ items[j].state = "WAITING_ORACLE"
    /\ decision.job = j /\ AlreadyConfirmed /\ items[j].verified
    /\ SetItem(j, "CONFIRMED")
    /\ UNCHANGED <<evidenceVars, rowVars, decision>>

(* _observe: what the worker reads off the punch for a waiting item *)
_observe(j) ==
    /\ items[j].state = "WAITING_ORACLE"
    /\ \/ decision.job # j /\ SetItem(j, "SKIPPED")
       \/ /\ decision.job = j /\ AlreadyConfirmed
          /\ \/ items[j].verified /\ SetItem(j, "CONFIRMED")
             \/ /\ ~items[j].verified /\ automatic_takeover = "TAKEOVER"
                /\ SetItem(j, "SKIPPED")
       \/ /\ decision.job = j /\ ~AlreadyConfirmed
          /\ eventStatus \notin Eligible \cup {"IN_FLIGHT"}
          /\ SetItem(j, "NEEDS_REVIEW")
    /\ UNCHANGED <<evidenceVars, rowVars, decision>>

(* One tick: queue, observe, and settle the run by the state of its item.   *)
advance_once(j) ==
    /\ job[j] \in ACTIVE
    /\ \/ _queue(j) \/ _observe(j)
       \/ /\ items[j].state \notin {"READY", "WAITING_ORACLE"}
          /\ UNCHANGED <<evidenceVars, rowVars, decision, items>>
    /\ job' = [job EXCEPT ![j] = JobStatus(items'[j].state)]
    /\ UNCHANGED <<oracleVars, tasks, wire, lock, roster, faults>>

-----------------------------------------------------------------------------
(* ADD's own release: release_synced_cnic_attendance_event (service.py) *)

AutoRelease ==
    /\ eventStatus \in HELD /\ status # "IN_FLIGHT"
    /\ saved' = current /\ auto' = TRUE /\ required' = FALSE
    /\ SetBoth("PENDING") /\ uncertain' = FALSE
    /\ decision' = [decision EXCEPT !.after = Decided]
    /\ UNCHANGED <<current, retained, confirmed, attempt, items, job,
                   oracleVars, tasks, wire, lock, roster, faults>>

(* The terminal's roster or the retained history names another CNIC.       *)
RosterChanges ==
    /\ roster > 0 /\ roster' = roster - 1
    /\ \/ current' \in Cnics \ {current} /\ UNCHANGED retained
       \/ retained' \in (Cnics \cup {0}) \ {retained} /\ UNCHANGED current
    /\ UNCHANGED <<saved, auto, required, rowVars, runVars, oracleVars, tasks,
                   wire, lock, faults>>

-----------------------------------------------------------------------------
(* claim_ords_batch (worker.py) for this punch *)

Next1(n) == (n + 1) % Wrap

Start(lane, cnic) ==
    /\ status' = "IN_FLIGHT" /\ attempt' = Next1(attempt)
    /\ tasks' = tasks \cup {[lane |-> lane, attempt |-> attempt', cnic |-> cnic,
                             job |-> decision.job, class |-> "none",
                             pc |-> "check", reply |-> "none"]}
    /\ lock' = attempt' + 1
    /\ uncertain' = FALSE
    /\ UNCHANGED <<eventStatus, confirmed, items>>

HoldAs(s, maybe) ==
    /\ SetBoth(s) /\ uncertain' = maybe
    /\ UNCHANGED <<confirmed, attempt, tasks, lock>>

ByApproval == Decided /\ automatic_takeover # "TAKEOVER"

(* The branch of an approved punch: another CNIC may be in Oracle, the     *)
(* approval no longer stands, or the forced lane takes the claim.          *)
ClaimApproved ==
    \/ /\ automatic_takeover = "UNCERTAIN"
       /\ HoldAs("QUARANTINED_IDENTITY_CONFLICT", TRUE)
       /\ items' = [items EXCEPT ![decision.job].state = "NEEDS_REVIEW"]
    \/ /\ automatic_takeover # "UNCERTAIN" /\ ~approved_payload
       /\ HoldAs("BLOCKED_IDENTITY", FALSE)
       /\ UNCHANGED items
    \/ approved_payload /\ Start("forced", Approval.cnic)

(* The ordinary branch: approval, saved CNIC and delivery proof, or a hold *)
ClaimOrdinary ==
    \/ /\ delivery_authorized /\ saved # 0 /\ saved = current
       /\ Start("ordinary", saved)
    \/ /\ ~(delivery_authorized /\ saved # 0 /\ saved = current)
       /\ HoldAs("BLOCKED_IDENTITY", FALSE)
       /\ UNCHANGED items

claim_ords_batch ==
    /\ lock = 0 /\ status \in Eligible
    /\ IF ByApproval THEN ClaimApproved ELSE ClaimOrdinary
    /\ required' = (required \/ eventStatus' \in HELD)
    /\ UNCHANGED <<current, retained, saved, auto, decision, job, oracleVars,
                   wire, roster, faults>>

(* A claim left IN_FLIGHT is made eligible again by a later batch; doing   *)
(* so to a claim that still runs takes a long delay, counted as a fault.   *)
RecoverStale ==
    /\ lock = 0 /\ status = "IN_FLIGHT"
    /\ IF tasks = {} THEN UNCHANGED faults ELSE Fault
    /\ overtaken' = (overtaken \/ tasks # {})
    /\ SetBoth("FAILED_RETRYABLE")
    /\ UNCHANGED <<evidenceVars, confirmed, uncertain, attempt, runVars, oracle,
                   sender, approvedPosts, certified, tasks, wire, lock, roster>>

-----------------------------------------------------------------------------
(* attendance_force_delivery.py and the ordinary lane *)

Replace(t, u) == tasks' = (tasks \ {t}) \cup {u}

Finish(t) ==
    /\ tasks' = tasks \ {t}
    /\ lock' = IF lock = t.attempt + 1 THEN 0 ELSE lock

Verdict(t) == IF oracle = 0 THEN "MISSING"
              ELSE IF t.lane = "ordinary" THEN "PRESENT"
              ELSE IF oracle = t.cnic THEN "MATCH" ELSE "MISMATCH"

(* verify of deliver_forced, or the membership check of the ordinary lane. *)
(* The forced lane posts unless Oracle already holds the approved content, *)
(* even on an unreadable answer; no answer at all ends the attempt.        *)
Check(t) ==
    /\ t.pc = "check"
    /\ \/ /\ Replace(t, [t EXCEPT !.class = Verdict(t),
                  !.pc = IF Verdict(t) \in {"MATCH", "PRESENT"} THEN "apply"
                         ELSE IF t.lane = "forced" THEN "authorize" ELSE "post"])
          /\ UNCHANGED faults
       \/ /\ Fault
          /\ \E pc \in {"apply"} \cup (IF t.lane = "forced" THEN {"authorize"} ELSE {}) :
               Replace(t, [t EXCEPT !.class = "UNKNOWN", !.pc = pc])
    /\ UNCHANGED <<evidenceVars, rowVars, runVars, oracleVars, wire, lock, roster>>

Owns(t) == status = "IN_FLIGHT" /\ attempt = t.attempt

SaveIntent(t) == items' = [items EXCEPT ![t.job].posted = TRUE]

OwnsDecision(t) == Owns(t) /\ decision.job = t.job

still_authorized(t) == OwnsDecision(t) /\ approved_payload

Authorize(t) ==
    /\ t.pc = "authorize"
    /\ Replace(t, IF still_authorized(t) THEN [t EXCEPT !.pc = "reserve"]
                  ELSE [t EXCEPT !.class = "CHANGED", !.pc = "apply"])
    /\ UNCHANGED <<evidenceVars, rowVars, runVars, oracleVars, wire, lock, roster,
                   faults>>

(* The intent is saved before the POST; after an earlier one only a        *)
(* MISSING answer allows another.                                          *)
reserve_direct_post(t) ==
    /\ t.pc = "reserve"
    /\ \/ /\ OwnsDecision(t) /\ (Approval.posted => t.class = "MISSING")
          /\ SaveIntent(t)
          /\ Replace(t, [t EXCEPT !.pc = "post"])
       \/ /\ ~(OwnsDecision(t) /\ (Approval.posted => t.class = "MISSING"))
          /\ Replace(t, [t EXCEPT !.pc = "apply"])
          /\ UNCHANGED items
    /\ UNCHANGED <<evidenceVars, rowVars, decision, job, oracleVars, wire, lock,
                   roster, faults>>

Post(t) ==
    /\ t.pc = "post"
    /\ wire' = wire \cup {[lane |-> t.lane, attempt |-> t.attempt, cnic |-> t.cnic]}
    /\ Replace(t, [t EXCEPT !.pc = "wait"])
    /\ approvedPosts' = approvedPosts \cup (IF t.lane = "forced" THEN {t.cnic} ELSE {})
    /\ UNCHANGED <<evidenceVars, rowVars, runVars, oracle, sender, certified,
                   overtaken, lock, roster, faults>>

AfterReply(t) == IF t.lane = "forced" THEN "recheck" ELSE "apply"

Answer(w, reply) ==
    tasks' = {IF t.pc = "wait" /\ t.attempt = w.attempt
              THEN [t EXCEPT !.reply = reply, !.pc = AfterReply(t)] ELSE t : t \in tasks}

OracleAnswers(w) ==
    /\ wire' = wire \ {w}
    /\ \/ /\ oracle = 0 /\ oracle' = w.cnic /\ sender' = w.lane
          /\ Answer(w, "created") /\ UNCHANGED faults
       \/ /\ oracle # 0 /\ UNCHANGED <<oracle, sender>>
          /\ Answer(w, "exists") /\ UNCHANGED faults
       \/ /\ oracle = 0 /\ UNCHANGED <<oracle, sender>>
          /\ Fault /\ Answer(w, "rejected")
    /\ UNCHANGED <<evidenceVars, rowVars, runVars, approvedPosts, certified,
                   overtaken, lock, roster>>

(* The reply is lost; the request may still arrive.                        *)
ReplyLost(t) ==
    /\ t.pc = "wait" /\ Fault
    /\ Replace(t, [t EXCEPT !.reply = "lost", !.pc = AfterReply(t)])
    /\ UNCHANGED <<evidenceVars, rowVars, runVars, oracleVars, wire, lock, roster>>

Recheck(t) ==
    /\ t.pc = "recheck"
    /\ \/ /\ Replace(t, [t EXCEPT !.pc = "apply",
                !.class = IF Verdict(t) # "MATCH" /\ t.reply = "rejected"
                          THEN "REJECTED" ELSE Verdict(t)])
          /\ UNCHANGED faults
       \/ /\ Fault
          /\ \E c \in {"UNKNOWN"} \cup (IF t.reply = "rejected" THEN {"REJECTED"} ELSE {}) :
               Replace(t, [t EXCEPT !.class = c, !.pc = "apply"])
    /\ UNCHANGED <<evidenceVars, rowVars, runVars, oracleVars, wire, lock, roster>>

Review(j) == items' = [items EXCEPT ![j].state = "NEEDS_REVIEW"]

(* persist_result of the forced lane: fenced by claim and decision; only a *)
(* content match confirms.                                                 *)
PersistForced(t) ==
    /\ t.lane = "forced" /\ t.pc = "apply" /\ Finish(t)
    /\ \/ /\ ~OwnsDecision(t)
          /\ UNCHANGED <<rowVars, items, certified>>
       \/ /\ OwnsDecision(t) /\ uncertain' = FALSE /\ UNCHANGED attempt
          /\ \/ /\ t.class = "MATCH"
                /\ SetBoth("ACKED_CHECK") /\ confirmed' = TRUE /\ certified' = t.cnic
                /\ items' = [items EXCEPT ![t.job].state = "CONFIRMED",
                                          ![t.job].verified = TRUE]
             \/ /\ t.class \in {"MISMATCH", "CHANGED"}
                /\ SetBoth("QUARANTINED_IDENTITY_CONFLICT") /\ Review(t.job)
                /\ UNCHANGED <<confirmed, certified>>
             \/ /\ t.class = "REJECTED"
                /\ SetBoth("QUARANTINED_ORDS_REJECTED") /\ Review(t.job)
                /\ UNCHANGED <<confirmed, certified>>
             \/ /\ t.class \in {"MISSING", "UNKNOWN"}
                /\ SetBoth("FAILED_RETRYABLE")
                /\ UNCHANGED <<confirmed, certified, items>>
    /\ UNCHANGED <<evidenceVars, decision, job, oracle, sender, approvedPosts,
                   overtaken, wire, roster, faults>>

(* apply_ords_batch_results: no fencing; 201 and 409 both confirm, unless  *)
(* the punch needs an approval.  A failed membership check asks nothing,   *)
(* and the flush hook clears the requirement on a resolved punch.          *)
ApplyOrdinary(t) ==
    /\ t.lane = "ordinary" /\ t.pc = "apply" /\ Finish(t)
    /\ \/ /\ t.class = "UNKNOWN"
          /\ SetBoth("FAILED_RETRYABLE") /\ required' = ~auto
          /\ uncertain' = FALSE /\ UNCHANGED <<confirmed, attempt, certified>>
       \/ /\ t.class # "UNKNOWN" /\ UNCHANGED required
          /\ \/ /\ ~generic_confirmation_allowed
                /\ UNCHANGED <<rowVars, certified>>
             \/ /\ generic_confirmation_allowed
                /\ t.class = "PRESENT" \/ t.reply \in {"created", "exists"}
                /\ SetBoth(IF t.class = "PRESENT" THEN "ACKED_CHECK" ELSE "ACKED")
                /\ confirmed' = TRUE /\ certified' = saved
                /\ uncertain' = FALSE /\ UNCHANGED attempt
             \/ /\ generic_confirmation_allowed /\ t.reply \in {"rejected", "lost"}
                /\ SetBoth(IF t.reply = "rejected" THEN "QUARANTINED_ORDS_REJECTED"
                           ELSE "FAILED_RETRYABLE")
                /\ uncertain' = FALSE /\ UNCHANGED <<confirmed, attempt, certified>>
    /\ UNCHANGED <<current, retained, saved, auto, runVars, oracle, sender,
                   approvedPosts, overtaken, wire, roster, faults>>

(* Another lane of the batch fails: the lock is free, the claim goes on.   *)
OtherLaneFails ==
    /\ lock # 0 /\ Fault /\ lock' = 0
    /\ UNCHANGED <<evidenceVars, rowVars, runVars, oracleVars, tasks, wire, roster>>

Crash ==
    /\ Fault /\ tasks' = {} /\ lock' = 0
    /\ UNCHANGED <<evidenceVars, rowVars, runVars, oracleVars, wire, roster>>

TaskStep(t) == \/ Check(t) \/ Authorize(t) \/ reserve_direct_post(t) \/ Post(t) \/ ReplyLost(t)
               \/ Recheck(t) \/ PersistForced(t) \/ ApplyOrdinary(t)

Worker == \/ claim_ords_batch \/ RecoverStale
          \/ \E t \in tasks : TaskStep(t)
          \/ \E w \in wire : OracleAnswers(w)

Next ==
    \/ \E j \in Jobs : create(j) \/ advance_once(j)
    \/ AutoRelease \/ RosterChanges
    \/ Worker \/ OtherLaneFails \/ Crash

Spec == Init /\ [][Next]_vars

(* The worker's loops run for ever; approvals and snapshots need not come. *)
FairSpec ==
    /\ Spec
    /\ WF_vars(claim_ords_batch) /\ WF_vars(RecoverStale)
    /\ WF_vars(\E t \in tasks : TaskStep(t))
    /\ WF_vars(\E w \in wire : OracleAnswers(w))
    /\ \A j \in Jobs : WF_vars(advance_once(j))

-----------------------------------------------------------------------------
TypeOK ==
    /\ current \in Cnics /\ retained \in Cnics \cup {0} /\ saved \in Cnics \cup {0}
    /\ auto \in BOOLEAN /\ required \in BOOLEAN
    /\ status \in Statuses /\ eventStatus \in Statuses
    /\ confirmed \in BOOLEAN /\ uncertain \in BOOLEAN /\ attempt \in 0..(Wrap - 1)
    /\ decision.job \in Jobs \cup {0}
    /\ \A j \in Jobs : items[j].state \in ItemStates
                       /\ job[j] \in ACTIVE \cup {"NONE", "COMPLETED", "COMPLETED_WITH_REVIEW"}
    /\ oracle \in Cnics \cup {0} /\ approvedPosts \subseteq Cnics /\ overtaken \in BOOLEAN

(* automatic_takeover: when Oracle's copy came from an approval, the punch *)
(* is never confirmed as another person's, unless a claim that still ran   *)
(* was taken for stale: apply_ords_batch_results is not fenced.  Nothing   *)
(* is said of a copy that the ordinary lane sent: its membership check     *)
(* compares no CNIC, so a punch released again under another CNIC is       *)
(* confirmed by the copy of the first.                                     *)
NoForeignConfirmation ==
    ~overtaken /\ confirmed /\ sender = "forced" => certified = oracle

(* persist_result: an item is CONFIRMED only when Oracle holds the CNIC    *)
(* its administrator approved.                                             *)
ConfirmedAsApproved ==
    \A j \in Jobs : items[j].state = "CONFIRMED" => oracle = items[j].cnic

(* _replacement_block: however often a punch is approved and replaced, at  *)
(* most one CNIC is ever posted under an approval.                         *)
OneApprovedCnicPosted == Cardinality(approvedPosts) <= 1

(* reserve_direct_post: an approval without a saved send intent posted     *)
(* nothing, so Oracle cannot hold its CNIC through it.                     *)
IntentBeforePost ==
    \A w \in wire : w.lane = "forced" => \E j \in Jobs : items[j].posted /\ items[j].cnic = w.cnic

(* An ordinary claim, taken for stale while it ran, confirmed the punch of *)
(* a waiting item without a match for its approval: _observe has no case   *)
(* for such an item.                                                       *)
Unverified(j) ==
    /\ overtaken /\ items[j].state = "WAITING_ORACLE" /\ decision.job = j
    /\ AlreadyConfirmed /\ ~items[j].verified /\ automatic_takeover # "TAKEOVER"

(* advance_once, _observe: every approval run ends once failures stop,     *)
(* with one exception: a run whose item is Unverified waits for ever.      *)
RunsEnd == \A j \in Jobs : job[j] \in ACTIVE ~> (job[j] \notin ACTIVE \/ Unverified(j))

(* An approval is what was sent: types; an item is CONFIRMED only for the  *)
(* approved CNIC; a punch whose copy in Oracle came from an approval is    *)
(* not confirmed as another person's, unless a running claim was taken for *)
(* stale; at most one approved CNIC is ever posted; and no approved POST   *)
(* goes out before its intent is saved.                                    *)
ApprovalsConsistent ==
    /\ TypeOK /\ ConfirmedAsApproved /\ NoForeignConfirmation
    /\ OneApprovedCnicPosted /\ IntentBeforePost
=============================================================================
