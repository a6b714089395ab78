---------------------------- MODULE ForceRelease ----------------------------
(***************************************************************************)
(* Manual force release (attendance_force_release.py): an administrator    *)
(* checks the held punches of some devices against a fresh read of each    *)
(* terminal, approves the check, and ADD reads every terminal again before *)
(* it releases a punch.  The scheduler advances one task of one run at a   *)
(* time; the terminals, their roster snapshots, the REFRESH_USERS commands *)
(* and the Oracle lane move in between.                                    *)
(*                                                                         *)
(* A roster is a value of Rosters and identifies the punches' employee: a  *)
(* proof of identity is the roster it was made from.                       *)
(***************************************************************************)
EXTENDS Integers, FiniteSets

CONSTANTS Jobs, Devices,
          PerDevice,   \* punches of each device
          Rosters,
          STEP_BATCH,  \* punches scanned or released in one step
          MaxSyncs,    \* REFRESH_USERS commands of checks at a time
          Budgets      \* what a behaviour may meet: runs, first rosters, held
                       \* punches, faults (roster changes, losses, restarts,
                       \* delays) and uses of stop, pause and resume

ASSUME ForceAssumption == /\ Jobs \cup Devices \cup Rosters \subseteq Nat \ {0}
                          /\ {PerDevice, STEP_BATCH, MaxSyncs} \subseteq Nat \ {0}
                          /\ \A b \in Budgets : /\ b.jobs \subseteq Jobs /\ b.rosters \subseteq Rosters
                                               /\ {b.faults, b.controls} \subseteq Nat

Punches == Devices \X (1..PerDevice)

VARIABLES roster,    \* the roster in each terminal
          boot,      \* boot count of each connector
          connected,
          table,     \* the connector's copy of its last roster read, 0 for none
          transit,   \* a roster sent by the connector, not yet received
          snapshot,  \* ADD's committed roster snapshot of each terminal
          job,       \* run status
          expired,   \* the preview of the check has expired
          task,      \* one task per run and device
          item,      \* one item per run and punch
          event,     \* delivery state of each punch
          decision,  \* approved run and proof of each punch
          faults, controls

envVars == <<roster, boot, connected, table, transit, snapshot>>
vars == <<envVars, job, expired, task, item, event, decision, faults,
          controls>>

ACTIVE == {"CHECKING", "RUNNING", "WAITING_ORACLE", "PAUSED", "STOPPING"}
TERMINAL == {"COMPLETED", "COMPLETED_WITH_REVIEW", "STOPPED"}
TaskStates == {"BASELINE", "SYNC_PENDING", "SYNCING", "CHECKING", "CHECKED",
               "RELEASING", "DONE", "UNAVAILABLE"}
ItemStates == {"NONE", "READY", "EXCLUDED", "NEEDS_REVIEW", "SKIPPED", "STOPPED",
               "WAITING_ORACLE", "CONFIRMED"}

NoRead == [hash |-> 0, boot |-> 0, after |-> {}, approved |-> {}]
NoTask == [st |-> "NONE", moved |-> FALSE, base |-> 0, cmd |-> "none", boot |-> 0,
           snap |-> NoRead, aged |-> FALSE, cursor |-> 0]
NoItem == [st |-> "NONE", proof |-> 0]

(* A run outside the budget has ended before, a punch outside it is done.  *)
Init ==
    \E b \in Budgets :
    /\ roster \in [Devices -> b.rosters]
    /\ boot = [d \in Devices |-> 0] /\ connected = [d \in Devices |-> TRUE]
    /\ table = roster /\ transit = [d \in Devices |-> NoRead]
    /\ snapshot = [d \in Devices |-> [NoRead EXCEPT !.hash = roster[d]]]
    /\ job = [j \in Jobs |-> IF j \in b.jobs THEN "NONE" ELSE "STOPPED"]
    /\ expired = [j \in Jobs |-> FALSE]
    /\ task = [j \in Jobs |-> [d \in Devices |-> NoTask]]
    /\ item = [j \in Jobs |-> [p \in Punches |-> NoItem]]
    /\ event = [p \in Punches |-> IF p[2] <= b.held THEN "HELD" ELSE "CONFIRMED"]
    /\ decision = [p \in Punches |-> [job |-> 0, proof |-> 0]]
    /\ faults = b.faults /\ controls = b.controls

Fault == faults > 0 /\ faults' = faults - 1

Of(d) == {p \in Punches : p[1] = d}
ItemsIn(j, ps, states) == {p \in ps : item[j][p].st \in states}

-----------------------------------------------------------------------------
(* The devices *)

Approved == {"RUNNING", "PAUSED", "WAITING_ORACLE"}

(* A roster on its way: the stamp is the time of sending, so it answers    *)
(* every command that has started.                                         *)
Send(d, hash) ==
    transit' = [transit EXCEPT ![d] = [NoRead EXCEPT !.hash = hash, !.boot = boot[d],
                    !.after = {j \in Jobs : task[j][d].cmd = "started"}]]

(* Reading the roster on a change, after a restart or for a command.       *)
ReadRoster(d) ==
    /\ connected[d] /\ transit[d] = NoRead /\ (snapshot[d].hash # roster[d]
          \/ snapshot[d].boot # boot[d] \/ \E j \in Jobs : task[j][d].cmd = "started")
    /\ table' = [table EXCEPT ![d] = roster[d]] /\ Send(d, roster[d])
    /\ UNCHANGED <<roster, boot, connected, snapshot, job, expired, task, item,
                   event, decision, faults, controls>>

(* A complete and stable snapshot is committed as the next revision; the   *)
(* runs approved by then are noted with it (history).                      *)
SnapshotReceived(d) ==
    /\ connected[d] /\ transit[d] # NoRead
    /\ snapshot' = [snapshot EXCEPT ![d] =
                        [transit[d] EXCEPT !.approved = {j \in Jobs : job[j] \in Approved}]]
    /\ transit' = [transit EXCEPT ![d] = NoRead]
    /\ task' = [j \in Jobs |-> [task[j] EXCEPT
                    ![d].moved = @ \/ task[j][d].st = "BASELINE"]]
    /\ UNCHANGED <<roster, boot, connected, table, job, expired, item, event,
                   decision, faults, controls>>

SetCmd(j, d, c) == task' = [task EXCEPT ![j][d].cmd = c]

(* The command starts (is acknowledged, when that report is lost), ends,   *)
(* or fails or expires, which needs no terminal.  A roster received before *)
(* the start does not answer it.  One still on its way then may: it is     *)
(* accepted when its stamp, by the connector's clock, is at most five      *)
(* seconds older than the start.                                           *)
CommandStep(j, d) ==
    /\ \/ /\ connected[d] /\ task[j][d].cmd = "queued" /\ SetCmd(j, d, "started")
          /\ \/ transit' = [transit EXCEPT ![d].after = @ \ {j}]
             \/ transit[d] # NoRead /\ transit' = [transit EXCEPT ![d].after = @ \cup {j}]
          /\ snapshot' = [snapshot EXCEPT ![d].after = @ \ {j}]
       \/ /\ connected[d] /\ task[j][d].cmd = "started" /\ SetCmd(j, d, "succeeded")
          /\ UNCHANGED <<transit, snapshot>>
       \/ /\ task[j][d].cmd \in {"queued", "started"} /\ SetCmd(j, d, "failed")
          /\ UNCHANGED <<transit, snapshot>>
    /\ UNCHANGED <<roster, boot, connected, table, job, expired, item, event,
                   decision, faults, controls>>

RosterChanges(d) ==
    /\ Fault /\ roster' \in {[roster EXCEPT ![d] = r] : r \in Rosters \ {roster[d]}}
    /\ UNCHANGED <<boot, connected, table, transit, snapshot, job, expired, task,
                   item, event, decision, controls>>

Restart(d) ==
    /\ Fault /\ boot' = [boot EXCEPT ![d] = @ + 1]
    /\ transit' = [transit EXCEPT ![d] = NoRead] /\ table' = [table EXCEPT ![d] = 0]
    /\ UNCHANGED <<roster, connected, snapshot, job, expired, task, item, event,
                   decision, controls>>

Disconnect(d) ==
    /\ connected[d] /\ Fault /\ connected' = [connected EXCEPT ![d] = FALSE]
    /\ UNCHANGED <<roster, boot, table, transit, snapshot, job, expired, task,
                   item, event, decision, controls>>

(* On the connected edge the copy in memory is sent as a new snapshot,     *)
(* without another read of the terminal.                                   *)
Reconnect(d) ==
    /\ ~connected[d] /\ connected' = [connected EXCEPT ![d] = TRUE]
    /\ UNCHANGED transit \/ (table[d] # 0 /\ Send(d, table[d]))
    /\ UNCHANGED <<roster, boot, table, snapshot, job, expired, task, item, event,
                   decision, faults, controls>>

-----------------------------------------------------------------------------
(* The administrator *)

create_check(j) ==
    /\ job[j] = "NONE"
    /\ job' = [job EXCEPT ![j] = "CHECKING"]
    /\ task' = [task EXCEPT ![j] = [d \in Devices |-> [NoTask EXCEPT !.st = "BASELINE"]]]
    /\ UNCHANGED <<envVars, expired, item, event, decision, faults, controls>>

PreviewExpires(j) ==
    /\ job[j] = "CHECKED" /\ ~expired[j]
    /\ expired' = [expired EXCEPT ![j] = TRUE]
    /\ UNCHANGED <<envVars, job, task, item, event, decision, faults, controls>>

Actionable(j) == {d \in Devices : ItemsIn(j, Of(d), {"READY"}) # {}}

Running(j) == job[j] \in {"RUNNING", "WAITING_ORACLE", "PAUSED", "STOPPING"}

ReleaseActive(j, d) ==
    \E k \in Jobs \ {j} : Running(k) /\ ItemsIn(k, Of(d), {"READY", "WAITING_ORACLE"}) # {}

AfterStart == "SYNC_PENDING"

start(j) ==
    /\ job[j] = "CHECKED" /\ ~expired[j] /\ Actionable(j) # {}
    /\ \A d \in Actionable(j) : ~ReleaseActive(j, d)
    /\ job' = [job EXCEPT ![j] = "RUNNING"]
    /\ task' = [task EXCEPT ![j] = [d \in Devices |->
                  IF d \in Actionable(j) THEN [@[d] EXCEPT !.st = AfterStart] ELSE @[d]]]
    /\ UNCHANGED <<envVars, expired, item, event, decision, faults, controls>>

control(j) ==
    /\ controls > 0 /\ controls' = controls - 1
    /\ \/ /\ job[j] \notin TERMINAL \cup {"NONE"}
          /\ job' = [job EXCEPT ![j] = "STOPPING"] /\ UNCHANGED task
       \/ /\ job[j] \in {"RUNNING", "WAITING_ORACLE"}
          /\ job' = [job EXCEPT ![j] = "PAUSED"] /\ UNCHANGED task
       \/ /\ job[j] = "PAUSED"
          /\ job' = [job EXCEPT ![j] = "RUNNING"]
          /\ task' = [task EXCEPT ![j] = [d \in Devices |->
                        IF d \in Actionable(j) /\ @[d].st # "UNAVAILABLE"
                        THEN [@[d] EXCEPT !.st = "SYNC_PENDING"] ELSE @[d]]]
    /\ UNCHANGED <<envVars, expired, item, event, decision, faults>>

-----------------------------------------------------------------------------
(* One task of a run *)

SetTask(j, d, t) == task' = [task EXCEPT ![j][d] = t]
_unavailable(j, d) == SetTask(j, d, [task[j][d] EXCEPT !.st = "UNAVAILABLE"])

_baseline(j, d) ==
    LET t == task[j][d] IN
    /\ t.st = "BASELINE"
    /\ IF t.moved THEN _unavailable(j, d)
       ELSE SetTask(j, d, [t EXCEPT !.base = snapshot[d].hash, !.st = "SYNC_PENDING"])
    /\ UNCHANGED <<item, event, decision>>

ActiveCmd == {"queued", "started"}

Syncing == {jd \in Jobs \X Devices : task[jd[1]][jd[2]].cmd \in ActiveCmd}

SyncRoom == Cardinality(Syncing) < MaxSyncs

_request_sync(j, d) ==
    LET t == task[j][d] IN
    /\ t.st = "SYNC_PENDING" /\ SyncRoom
    /\ \/ /\ \E k \in Jobs \ {j} : <<k, d>> \in Syncing
          /\ _unavailable(j, d)
       \/ /\ \A k \in Jobs : <<k, d>> \notin Syncing
          /\ SetTask(j, d, [t EXCEPT !.cmd = "queued", !.boot = boot[d],
                                     !.st = "SYNCING", !.aged = FALSE])
    /\ UNCHANGED <<item, event, decision>>

(* mutant: any complete snapshot answers the command *)
AnySnapshot(j, d) == snapshot[d].boot = task[j][d].boot

(* The snapshot was received after the command started, on the same boot   *)
(* of the connector, with a stamp no older than the start allows.          *)
FreshSnapshot(j, d) == j \in snapshot[d].after /\ snapshot[d].boot = task[j][d].boot

_accept_sync(j, d) ==
    LET t == task[j][d] IN
    /\ t.st = "SYNCING"
    /\ \/ _unavailable(j, d)  \* command failed, connector restarted, or deadline
       \/ /\ boot[d] = t.boot /\ t.cmd = "succeeded" /\ FreshSnapshot(j, d)
          /\ SetTask(j, d, [t EXCEPT !.snap = snapshot[d],
                  !.st = IF job[j] = "RUNNING" THEN "RELEASING" ELSE "CHECKING"])
    /\ UNCHANGED <<item, event, decision>>

_snapshot_matches(j, d) ==
    /\ task[j][d].snap.hash = snapshot[d].hash
    /\ task[j][d].snap.boot = task[j][d].boot /\ snapshot[d].boot = task[j][d].boot

(* The proof of a punch is the roster, unless the task's read is outdated  *)
(* or the employee changed since the baseline.                             *)
identity_proof(j, d) ==
    IF _snapshot_matches(j, d) /\ task[j][d].base = snapshot[d].hash
    THEN snapshot[d].hash ELSE 0

classify(j, p) ==
    IF event[p] \in {"CONFIRMED", "PENDING"} THEN [st |-> "EXCLUDED", proof |-> 0]
    ELSE IF event[p] = "HELD" /\ identity_proof(j, p[1]) # 0
    THEN [st |-> "READY", proof |-> identity_proof(j, p[1])]
    ELSE [st |-> "NEEDS_REVIEW", proof |-> 0]

Least(n, S) == {x \in S : Cardinality({y \in S : y[2] < x[2]}) < n}

_scan(j, d) ==
    LET t == task[j][d]
        left == {p \in Of(d) : p[2] > t.cursor}
        step == Least(STEP_BATCH, left)
    IN /\ t.st = "CHECKING"
       /\ item' = [item EXCEPT ![j] = [p \in Punches |-> IF p \in step THEN classify(j, p) ELSE @[p]]]
       /\ SetTask(j, d, [t EXCEPT !.cursor = @ + Cardinality(step),
               !.st = IF Cardinality(step) < STEP_BATCH THEN "CHECKED" ELSE @])
       /\ UNCHANGED <<event, decision>>

(* _apply of one item: everything is proved again before the release.      *)
Release(j, p) == classify(j, p) = item[j][p]

(* mutant: a full step waits for a next one to finish the device *)
ReleasedShort(step, left) == Cardinality(step) < STEP_BATCH

Released(step, left) == Cardinality(step) < STEP_BATCH \/ left = step

_release_batch(j, d) ==
    LET t == task[j][d]
        left == ItemsIn(j, Of(d), {"READY"})
        step == Least(STEP_BATCH, left)
        go   == {p \in step : Release(j, p)}
    IN /\ t.st = "RELEASING"
       /\ \/ /\ t.aged \/ ~_snapshot_matches(j, d)
             /\ SetTask(j, d, [t EXCEPT !.st = "SYNC_PENDING"])
             /\ UNCHANGED <<item, event, decision>>
          \/ /\ ~t.aged /\ _snapshot_matches(j, d)
             /\ item' = [item EXCEPT ![j] = [p \in Punches |->
                     IF p \in go THEN [@[p] EXCEPT !.st = "WAITING_ORACLE"]
                     ELSE IF p \in step THEN [@[p] EXCEPT !.st = "SKIPPED"] ELSE @[p]]]
             /\ event' = [p \in Punches |-> IF p \in go THEN "PENDING" ELSE event[p]]
             /\ decision' = [p \in Punches |-> IF p \in go
                     THEN [job |-> j, proof |-> item[j][p].proof] ELSE decision[p]]
             /\ SetTask(j, d, [t EXCEPT !.st = IF Released(step, left) THEN "DONE" ELSE @])

(* mutant: the items of a lost device stay READY *)
KeepItems(j, d) == UNCHANGED <<item, event, decision>>

(* A task that became or stays UNAVAILABLE gives up its READY items, of a  *)
(* running job only.                                                       *)
GiveUp(j, d) ==
    /\ IF job[j] = "RUNNING"
       THEN item' = [item EXCEPT ![j] = [p \in Punches |->
               IF p \in Of(d) /\ @[p].st = "READY" THEN [@[p] EXCEPT !.st = "SKIPPED"] ELSE @[p]]]
       ELSE UNCHANGED item
    /\ UNCHANGED <<event, decision>>

TaskStep(j, d) ==
    \/ /\ ~connected[d] \/ task[j][d].st = "UNAVAILABLE"
       /\ task[j][d].st \notin {"CHECKED", "DONE", "NONE"}
       /\ _unavailable(j, d) /\ GiveUp(j, d)
    \/ /\ connected[d]
       /\ \/ _baseline(j, d) \/ _request_sync(j, d) \/ _accept_sync(j, d)
          \/ _scan(j, d) \/ _release_batch(j, d)

(* The scheduler's next run of the task gives up the items.                *)
StopTask(j) ==
    /\ task' = [task EXCEPT ![j] = [d \in Devices |->
            IF @[d].st \in {"DONE", "UNAVAILABLE"} THEN @[d] ELSE [@[d] EXCEPT !.st = "DONE"]]]
    /\ UNCHANGED <<event, decision>>

-----------------------------------------------------------------------------
(* advance_once *)

(* _observe: an item waits until Oracle confirmed or the punch left delivery. *)
Observed(j) ==
    IF ItemsIn(j, Punches, {"READY"}) # {} THEN item[j]
    ELSE [p \in Punches |->
        IF item[j][p].st # "WAITING_ORACLE" THEN item[j][p]
        ELSE IF event[p] \in {"HELD", "CONFLICT"}
        THEN [item[j][p] EXCEPT !.st = "NEEDS_REVIEW"] ELSE item[j][p]]

Has(j, states) == \E p \in Punches : item'[j][p].st \in states

_settle(j) ==
    IF Has(j, {"READY"}) THEN job[j]
    ELSE IF Has(j, {"WAITING_ORACLE"})
    THEN IF job[j] = "STOPPING" THEN job[j] ELSE "WAITING_ORACLE"
    ELSE IF job[j] = "STOPPING" THEN "STOPPED"
    ELSE IF Has(j, {"NEEDS_REVIEW", "SKIPPED"}) \/ \E d \in Devices : task'[j][d].st = "UNAVAILABLE"
    THEN "COMPLETED_WITH_REVIEW" ELSE "COMPLETED"

_finish_check(j) ==
    IF \A d \in Devices : task'[j][d].st \in {"CHECKED", "UNAVAILABLE"} THEN "CHECKED" ELSE "CHECKING"

advance_once(j) ==
    /\ \/ /\ job[j] = "STOPPING"
          /\ item' = [item EXCEPT ![j] = [p \in Punches |->
                IF Observed(j)[p].st = "READY" THEN [@[p] EXCEPT !.st = "STOPPED"] ELSE Observed(j)[p]]]
          /\ StopTask(j)
          /\ job' = [job EXCEPT ![j] = _settle(j)]
       \/ /\ job[j] = "CHECKING"
          /\ \E d \in Devices : TaskStep(j, d)
          /\ job' = [job EXCEPT ![j] = _finish_check(j)]
       \/ /\ job[j] = "RUNNING" /\ Observed(j) = item[j]
          /\ \E d \in Devices : TaskStep(j, d)
          /\ job' = [job EXCEPT ![j] = _settle(j)]
       \/ /\ job[j] \in {"RUNNING", "WAITING_ORACLE", "PAUSED"}
          /\ ItemsIn(j, Punches, {"READY"}) = {}
          /\ item' = [item EXCEPT ![j] = Observed(j)]
          /\ UNCHANGED <<task, event, decision>>
          /\ job' = [job EXCEPT ![j] = IF job[j] = "PAUSED" THEN @ ELSE _settle(j)]
    /\ UNCHANGED <<envVars, expired, faults, controls>>

(* More than five minutes pass between the accepted read and the release.  *)
SyncAges(j, d) ==
    /\ task[j][d].st = "RELEASING" /\ ~task[j][d].aged /\ Fault
    /\ SetTask(j, d, [task[j][d] EXCEPT !.aged = TRUE])
    /\ UNCHANGED <<envVars, job, expired, item, event, decision, controls>>

-----------------------------------------------------------------------------
(* The Oracle lane, seen from here: delivery_payload proves the identity   *)
(* again without the task; only a content match confirms.                  *)

delivery_payload(p) == snapshot[p[1]].hash = decision[p].proof

Deliver(p) ==
    /\ event[p] = "PENDING"
    /\ IF decision[p].job = 0
       THEN /\ event' = [event EXCEPT ![p] = "CONFIRMED"]
            /\ UNCHANGED <<item, faults>>
       ELSE \/ /\ ~delivery_payload(p)
               /\ event' = [event EXCEPT ![p] = "HELD"]
               /\ UNCHANGED <<item, faults>>
            \/ /\ delivery_payload(p)
               /\ event' = [event EXCEPT ![p] = "CONFIRMED"]
               /\ item' = [item EXCEPT ![decision[p].job][p].st = "CONFIRMED"]
               /\ UNCHANGED faults
            \/ /\ delivery_payload(p) /\ Fault
               /\ event' = [event EXCEPT ![p] = "CONFLICT"]
               /\ item' = [item EXCEPT ![decision[p].job][p].st = "NEEDS_REVIEW"]
    /\ UNCHANGED <<envVars, job, expired, task, decision, controls>>

(* Another path of ADD releases a held punch under the present roster.     *)
OtherRelease(p) ==
    /\ event[p] = "HELD" /\ Fault
    /\ event' = [event EXCEPT ![p] = "PENDING"]
    /\ UNCHANGED <<envVars, job, expired, task, item, decision, controls>>

DeviceNext(d) == ReadRoster(d) \/ SnapshotReceived(d) \/ RosterChanges(d)
                 \/ Restart(d) \/ Disconnect(d) \/ Reconnect(d)

Next ==
    \/ \E d \in Devices : DeviceNext(d)
    \/ \E j \in Jobs : create_check(j) \/ PreviewExpires(j) \/ start(j)
                       \/ control(j) \/ advance_once(j)
    \/ \E j \in Jobs, d \in Devices : CommandStep(j, d) \/ SyncAges(j, d)
    \/ \E p \in Punches : Deliver(p) \/ OtherRelease(p)

Spec == Init /\ [][Next]_vars

(* The scheduler visits every active run; the delivery worker every punch. *)
FairSpec ==
    /\ Spec
    /\ \A j \in Jobs : WF_vars(advance_once(j))
    /\ \A p \in Punches : WF_vars(Deliver(p))
    /\ \A j \in Jobs, d \in Devices : WF_vars(CommandStep(j, d))

-----------------------------------------------------------------------------
TypeOK ==
    /\ \A j \in Jobs : /\ job[j] \in ACTIVE \cup TERMINAL \cup {"NONE", "CHECKED"}
                       /\ \A d \in Devices : task[j][d].st \in TaskStates \cup {"NONE"}
                       /\ \A p \in Punches : item[j][p].st \in ItemStates
    /\ \A p \in Punches : event[p] \in {"HELD", "PENDING", "CONFIRMED", "CONFLICT"}

(* start, _accept_sync and _release_batch: a punch is decided only on a    *)
(* roster that ADD received after the approval, never on one that the      *)
(* check had used, and its proof is that roster.  The read in the terminal *)
(* may be older: by the stamp's allowance, or as the copy of a reconnect.  *)
DecidedOnFreshRead ==
    [][\A p \in Punches : decision'[p] # decision[p] =>
          LET j == decision'[p].job IN
          /\ j \in task[j][p[1]].snap.approved
          /\ decision'[p].proof = task[j][p[1]].snap.hash]_vars

(* start: two approved runs never work on punches of the same device.      *)
OneRunPerDevice ==
    \A j, k \in Jobs, d \in Devices :
        j # k /\ {job[j], job[k]} \subseteq {"RUNNING", "WAITING_ORACLE", "PAUSED"}
        => ItemsIn(j, Of(d), {"READY", "WAITING_ORACLE"}) = {}
           \/ ItemsIn(k, Of(d), {"READY", "WAITING_ORACLE"}) = {}

(* _release_batch: a run that leaves RUNNING leaves no device half done.   *)
NoDeviceLeftReleasing ==
    \A j \in Jobs : job[j] \in TERMINAL \cup {"WAITING_ORACLE"} =>
        \A d \in Devices : task[j][d].st \in {"NONE", "CHECKED", "DONE", "UNAVAILABLE"}

(* Runs stay apart: the types hold, two approved runs never share a device *)
(* (start), and a run that stopped being advanced left no device half done *)
(* (_release_batch).                                                       *)
RunsConsistent == TypeOK /\ OneRunPerDevice /\ NoDeviceLeftReleasing

(* advance_once, _observe: a check always ends, whatever its terminals do, *)
(* and so does a run that is not paused.                                   *)
RunsEnd ==
    \A j \in Jobs :
        /\ job[j] = "CHECKING" ~> job[j] # "CHECKING"
        /\ job[j] \in {"RUNNING", "WAITING_ORACLE", "STOPPING"} ~> job[j] \in TERMINAL \cup {"PAUSED"}
=============================================================================
