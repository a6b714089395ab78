------------------------- MODULE ForceRelease_proof -------------------------
(***************************************************************************)
(* Proof that approved runs never share a device, that a run which is no   *)
(* longer advanced left no device half done, and that a punch is decided   *)
(* only on a roster that ADD received after the approval, for any number   *)
(* of runs, devices, punches, rosters and failures.                        *)
(***************************************************************************)
EXTENDS ForceRelease, FiniteSetTheorems, TLAPS

Reads == [hash : Rosters \cup {0}, boot : Nat, after : SUBSET Jobs, approved : SUBSET Jobs]
Commands == {"none", "queued", "started", "succeeded", "failed"}
TaskRecords ==
    [st : TaskStates \cup {"NONE"}, moved : BOOLEAN, base : Rosters \cup {0}, cmd : Commands,
     boot : Nat, snap : Reads, aged : BOOLEAN, cursor : Nat]
ItemRecords == [st : ItemStates, proof : Rosters \cup {0}]
JobStates == ACTIVE \cup TERMINAL \cup {"NONE", "CHECKED"}
EventStates == {"HELD", "PENDING", "CONFIRMED", "CONFLICT"}

(* The variables with their types. *)
Typed ==
    /\ roster \in [Devices -> Rosters] /\ boot \in [Devices -> Nat]
    /\ table \in [Devices -> Rosters \cup {0}]
    /\ transit \in [Devices -> Reads] /\ snapshot \in [Devices -> Reads]
    /\ job \in [Jobs -> JobStates]
    /\ task \in [Jobs -> [Devices -> TaskRecords]]
    /\ item \in [Jobs -> [Punches -> ItemRecords]]
    /\ event \in [Punches -> EventStates]
    /\ decision \in [Punches -> [job : Jobs \cup {0}, proof : Rosters \cup {0}]]

InWork == {"SYNC_PENDING", "SYNCING", "RELEASING"}
Left(j, d) == ItemsIn(j, Of(d), {"READY"})
Open(j, d) == ItemsIn(j, Of(d), {"READY", "WAITING_ORACLE"})

(* What each task of a run does while the run is checked, approved or over: *)
(* an approved run works on a device only while it has READY punches there. *)
Phase(j, d) ==
    /\ job[j] = "CHECKING" => task[j][d].st \notin {"NONE", "RELEASING", "DONE"}
    /\ job[j] = "CHECKED" => task[j][d].st \in {"CHECKED", "UNAVAILABLE"}
    /\ job[j] \in {"RUNNING", "PAUSED"} =>
         \/ task[j][d].st \in {"CHECKED", "DONE", "UNAVAILABLE"}
         \/ task[j][d].st \in InWork /\ Left(j, d) # {}
    /\ job[j] = "WAITING_ORACLE" => task[j][d].st \in {"CHECKED", "DONE", "UNAVAILABLE"}
    /\ job[j] \in TERMINAL => task[j][d].st \in {"NONE", "CHECKED", "DONE", "UNAVAILABLE"}

PhaseInv == \A j \in Jobs, d \in Devices : Phase(j, d)

(* Only an approved run waits for Oracle, and the run that decided a punch  *)
(* has no other use for it.                                                 *)
DecidedInv ==
    /\ \A j \in Jobs, p \in Punches :
         job[j] \in {"NONE", "CHECKING", "CHECKED"} => item[j][p].st # "WAITING_ORACLE"
    /\ \A p \in Punches :
         decision[p].job # 0 =>
           /\ job[decision[p].job] \notin {"NONE", "CHECKING", "CHECKED"}
           /\ item[decision[p].job][p].st \in {"WAITING_ORACLE", "NEEDS_REVIEW", "CONFIRMED"}

(* A snapshot that answers the command of an approved run was received      *)
(* after its approval, and so was the one a release is based on.            *)
Fresh(j, d) ==
    job[j] \in Approved =>
      /\ task[j][d].st = "SYNCING" /\ task[j][d].cmd \in {"started", "succeeded"} =>
           (j \in snapshot[d].after => j \in snapshot[d].approved)
      /\ task[j][d].st = "RELEASING" => j \in task[j][d].snap.approved

FreshInv == \A j \in Jobs, d \in Devices : Fresh(j, d)

(* The inductive invariant. *)
ForceInv == Typed /\ PhaseInv /\ DecidedInv /\ FreshInv /\ OneRunPerDevice

-----------------------------------------------------------------------------
(* Types *)

(* A device has finitely many punches, so a step of a batch has a size. *)
LEMMA BatchSize ==
    ASSUME NEW d \in Devices, NEW S \in SUBSET Of(d), NEW n
    PROVE  Least(n, S) \subseteq S /\ Cardinality(Least(n, S)) \in Nat
<1> DEFINE f == [i \in 1..PerDevice |-> <<d, i>>]
<1>1. f \in Surjection(1..PerDevice, Of(d))
  <2>1. f \in [1..PerDevice -> Of(d)]
    BY DEF Of, Punches
  <2>2. ASSUME NEW p \in Of(d) PROVE \E i \in 1..PerDevice : f[i] = p
    <3>1. p[2] \in 1..PerDevice /\ p = <<d, p[2]>>
      BY DEF Of, Punches
    <3> QED
      BY <3>1
  <2> QED
    BY <2>1, <2>2 DEF Surjection
<1>2. IsFiniteSet(1..PerDevice)
  BY FS_Interval, ForceAssumption
<1>3. IsFiniteSet(Of(d))
  BY <1>1, <1>2, FS_Surjection
<1>4. Least(n, S) \in SUBSET Of(d) /\ Least(n, S) \subseteq S
  BY DEF Least
<1>5. IsFiniteSet(Least(n, S))
  BY <1>3, <1>4, FS_Subset
<1> QED
  BY <1>4, <1>5, FS_CardinalityType

LEMMA InitTyped == Init => Typed
<1> SUFFICES ASSUME Init PROVE Typed
  OBVIOUS
<1>0. roster \in [Devices -> Rosters]
  BY ForceAssumption DEF Init
<1>1. NoRead \in Reads
  BY DEF NoRead, Reads
<1>2. NoTask \in TaskRecords
  BY <1>1 DEF NoTask, TaskRecords, TaskStates, Commands
<1>3. NoItem \in ItemRecords
  BY DEF NoItem, ItemRecords, ItemStates
<1>4. snapshot \in [Devices -> Reads]
  <2>1. \A r \in Reads, h \in Rosters : [r EXCEPT !.hash = h] \in Reads
    BY DEF Reads
  <2>2. \A d \in Devices : roster[d] \in Rosters
    BY <1>0
  <2>3. snapshot = [d \in Devices |-> [NoRead EXCEPT !.hash = roster[d]]]
    BY DEF Init
  <2> QED
    BY <1>1, <2>1, <2>2, <2>3, Zenon
<1>5. job \in [Jobs -> JobStates]
  BY DEF Init, JobStates, TERMINAL
<1>6. event \in [Punches -> EventStates]
  BY DEF Init, EventStates
<1>7. table \in [Devices -> Rosters \cup {0}]
  BY <1>0 DEF Init
<1> QED
  BY <1>0, <1>1, <1>2, <1>3, <1>4, <1>5, <1>6, <1>7 DEF Init, Typed

(* A snapshot marks the tasks that have not taken their baseline yet. *)
LEMMA TypedSnapshot ==
    ASSUME Typed, NEW d \in Devices, SnapshotReceived(d)
    PROVE  Typed'
<1>1. \A t \in TaskRecords, b \in BOOLEAN : [t EXCEPT !.moved = b] \in TaskRecords
  BY DEF TaskRecords
<1>2. ASSUME NEW j \in Jobs PROVE task'[j] \in [Devices -> TaskRecords]
  <2>1. task[j] \in [Devices -> TaskRecords]
    BY DEF Typed
  <2>2. (task[j][d].moved \/ task[j][d].st = "BASELINE") \in BOOLEAN
    OBVIOUS
  <2>3. [task[j][d] EXCEPT !.moved = task[j][d].moved \/ task[j][d].st = "BASELINE"] \in TaskRecords
    BY <1>1, <2>1, <2>2, Zenon
  <2>4. task'[j] = [task[j] EXCEPT ![d] =
           [task[j][d] EXCEPT !.moved = task[j][d].moved \/ task[j][d].st = "BASELINE"]]
    BY DEF SnapshotReceived
  <2> QED
    BY <2>1, <2>3, <2>4
<1>3. task' \in [Jobs -> [Devices -> TaskRecords]]
  BY <1>2 DEF SnapshotReceived
<1>4. NoRead \in Reads
  BY DEF NoRead, Reads
<1>5. [transit[d] EXCEPT !.approved = {j \in Jobs : job[j] \in Approved}] \in Reads
  <2>1. \A x \in Reads, S \in SUBSET Jobs : [x EXCEPT !.approved = S] \in Reads
    BY DEF Reads
  <2>2. transit[d] \in Reads /\ {j \in Jobs : job[j] \in Approved} \in SUBSET Jobs
    BY DEF Typed
  <2> QED
    BY <2>1, <2>2, Zenon
<1>6. /\ snapshot' = [snapshot EXCEPT ![d] = [transit[d] EXCEPT !.approved = {j \in Jobs : job[j] \in Approved}]]
      /\ transit' = [transit EXCEPT ![d] = NoRead]
      /\ UNCHANGED <<roster, boot, table, job, item, event, decision>>
  BY Zenon DEF SnapshotReceived
<1>7. transit' \in [Devices -> Reads] /\ snapshot' \in [Devices -> Reads]
  BY <1>4, <1>5, <1>6, Zenon DEF Typed
<1> QED
  BY <1>3, <1>6, <1>7, Zenon DEF Typed

(* What the connector sends is a roster with the commands started by then. *)
LEMMA TypedSend ==
    ASSUME Typed, NEW d \in Devices, NEW h \in Rosters \cup {0}, Send(d, h)
    PROVE  transit' \in [Devices -> Reads]
<1>1. [NoRead EXCEPT !.hash = h, !.boot = boot[d],
         !.after = {j \in Jobs : task[j][d].cmd = "started"}] \in Reads
  BY DEF Typed, Reads, NoRead
<1> QED
  BY <1>1 DEF Send, Typed

(* The terminals, the commands, time and the Oracle lane. *)
LEMMA TypedDevice ==
    ASSUME Typed, NEW d \in Devices, DeviceNext(d)
    PROVE  Typed'
<1>1. CASE ReadRoster(d)
  BY <1>1, TypedSend DEF ReadRoster, Typed
<1>2. CASE SnapshotReceived(d)
  BY <1>2, TypedSnapshot
<1>3. CASE RosterChanges(d)
  BY <1>3, Zenon DEF RosterChanges, Typed
<1>4. CASE Restart(d)
  BY <1>4 DEF Restart, Typed, NoRead, Reads
<1>5. CASE Disconnect(d)
  BY <1>5 DEF Disconnect, Typed
<1>6. CASE Reconnect(d)
  BY <1>6, TypedSend DEF Reconnect, Typed
<1> QED
  BY <1>1, <1>2, <1>3, <1>4, <1>5, <1>6 DEF DeviceNext

(* A command starts, ends or fails, or time passes: the task keeps its     *)
(* state and its read, and a command that starts disowns the snapshot.      *)
Disowned(j, d) ==
    /\ \E S \in SUBSET Jobs : transit' = [transit EXCEPT ![d] = [transit[d] EXCEPT !.after = S]]
    /\ snapshot' = [snapshot EXCEPT ![d] = [snapshot[d] EXCEPT !.after = @ \ {j}]]

LEMMA CommandShape ==
    ASSUME Typed, NEW j \in Jobs, NEW d \in Devices, CommandStep(j, d) \/ SyncAges(j, d)
    PROVE  \E t \in TaskRecords :
             /\ task' = [task EXCEPT ![j][d] = t]
             /\ t.st = task[j][d].st /\ t.snap = task[j][d].snap
             /\ \/ t.cmd = task[j][d].cmd /\ transit' = transit /\ snapshot' = snapshot
                \/ t.cmd = "started" /\ Disowned(j, d)
                \/ t.cmd = "succeeded" /\ task[j][d].cmd = "started" /\ transit' = transit /\ snapshot' = snapshot
                \/ t.cmd = "failed" /\ transit' = transit /\ snapshot' = snapshot
<1> PICK t : t = task[j][d]
  BY Zenon
<1>1. t \in TaskRecords
  BY DEF Typed
<1>2. \A c \in Commands : LET u == [t EXCEPT !.cmd = c]
                          IN  u \in TaskRecords /\ u.st = t.st /\ u.snap = t.snap /\ u.cmd = c
  BY <1>1 DEF TaskRecords
<1>3. CASE CommandStep(j, d)
  <2>1. PICK c \in Commands :
          /\ task' = [task EXCEPT ![j][d].cmd = c]
          /\ \/ /\ c = "started"
                /\ \/ transit' = [transit EXCEPT ![d].after = @ \ {j}]
                   \/ transit' = [transit EXCEPT ![d].after = @ \cup {j}]
                /\ snapshot' = [snapshot EXCEPT ![d].after = @ \ {j}]
             \/ c = "succeeded" /\ t.cmd = "started" /\ transit' = transit /\ snapshot' = snapshot
             \/ c = "failed" /\ transit' = transit /\ snapshot' = snapshot
    BY <1>3, Zenon DEF CommandStep, SetCmd, Commands
  <2> DEFINE u == [t EXCEPT !.cmd = c]
  <2>2. task' = [task EXCEPT ![j][d] = u]
    BY <2>1
  <2>3. u \in TaskRecords /\ u.st = t.st /\ u.snap = t.snap /\ u.cmd = c
    BY <1>2, Zenon
  <2>4. c = "started" => Disowned(j, d)
    <3>1. transit[d].after \in SUBSET Jobs
      BY DEF Typed, Reads
    <3> QED
      BY <2>1, <3>1 DEF Disowned
  <2> HIDE DEF u
  <2> QED
    BY <2>1, <2>2, <2>3, <2>4, Zenon
<1>4. CASE SyncAges(j, d)
  <2> DEFINE u == [t EXCEPT !.aged = TRUE]
  <2>1. u \in TaskRecords /\ u.st = t.st /\ u.snap = t.snap /\ u.cmd = t.cmd
    BY <1>1, ZenonT(40) DEF TaskRecords
  <2>2. task' = [task EXCEPT ![j][d] = u] /\ transit' = transit /\ snapshot' = snapshot
    BY <1>4 DEF SyncAges, SetTask, envVars
  <2> HIDE DEF u
  <2> QED
    BY <2>1, <2>2, Zenon
<1> QED
  BY <1>3, <1>4

LEMMA DisownedReads ==
    ASSUME Typed, NEW j \in Jobs, NEW d \in Devices, Disowned(j, d)
    PROVE  /\ transit' \in [Devices -> Reads] /\ snapshot' \in [Devices -> Reads]
           /\ j \notin snapshot'[d].after
           /\ \A e \in Devices : /\ snapshot'[e].approved = snapshot[e].approved
                                 /\ snapshot'[e].after \subseteq snapshot[e].after
<1>1. \A x \in Reads : LET y == [x EXCEPT !.after = @ \ {j}]
                       IN  /\ y \in Reads /\ y.approved = x.approved
                           /\ y.after \subseteq x.after /\ j \notin y.after
  BY DEF Reads
<1>2. transit \in [Devices -> Reads] /\ snapshot \in [Devices -> Reads]
  BY DEF Typed
<1>3. transit' \in [Devices -> Reads]
  <2>1. \A x \in Reads, S \in SUBSET Jobs : [x EXCEPT !.after = S] \in Reads
    BY DEF Reads
  <2> QED
    BY <1>2, <2>1 DEF Disowned
<1> QED
  BY <1>1, <1>2, <1>3 DEF Disowned

LEMMA TypedCommand ==
    ASSUME Typed, NEW j \in Jobs, NEW d \in Devices, CommandStep(j, d) \/ SyncAges(j, d)
    PROVE  Typed'
<1>1. PICK t \in TaskRecords :
             /\ task' = [task EXCEPT ![j][d] = t]
             /\ t.st = task[j][d].st /\ t.snap = task[j][d].snap
             /\ \/ t.cmd = task[j][d].cmd /\ transit' = transit /\ snapshot' = snapshot
                \/ t.cmd = "started" /\ Disowned(j, d)
                \/ t.cmd = "succeeded" /\ task[j][d].cmd = "started" /\ transit' = transit /\ snapshot' = snapshot
                \/ t.cmd = "failed" /\ transit' = transit /\ snapshot' = snapshot
  BY CommandShape, Zenon
<1>2. transit' \in [Devices -> Reads] /\ snapshot' \in [Devices -> Reads]
  BY <1>1, DisownedReads DEF Typed
<1>3. UNCHANGED <<roster, boot, table, job, item, event, decision>>
  BY DEF CommandStep, SyncAges, envVars
<1> QED
  BY <1>1, <1>2, <1>3 DEF Typed

-----------------------------------------------------------------------------
(* One step of one task *)

(* What a scan may make of a punch. *)
LEMMA Classified ==
    ASSUME Typed, NEW j \in Jobs, NEW p \in Punches
    PROVE  /\ classify(j, p) \in ItemRecords
           /\ classify(j, p).st \in {"EXCLUDED", "READY", "NEEDS_REVIEW"}
           /\ classify(j, p).st = "READY" =>
                /\ classify(j, p).proof = task[j][p[1]].snap.hash
                /\ event[p] = "HELD"
<1>1. p[1] \in Devices
  BY DEF Punches
<1>2. snapshot[p[1]].hash \in Rosters \cup {0}
  BY <1>1 DEF Typed, Reads
<1>3. identity_proof(j, p[1]) \in Rosters \cup {0}
  BY <1>2 DEF identity_proof
<1>4. identity_proof(j, p[1]) # 0 => identity_proof(j, p[1]) = task[j][p[1]].snap.hash
  BY DEF identity_proof, _snapshot_matches
<1> QED
  BY <1>3, <1>4 DEF classify, ItemRecords, ItemStates

(* A task that gets another state, a baseline, a command or a read. *)
LEMMA TaskFields ==
    ASSUME NEW t \in TaskRecords
    PROVE  /\ \A s \in TaskStates : [t EXCEPT !.st = s] \in TaskRecords
           /\ \A s \in TaskStates, h \in Rosters \cup {0} : [t EXCEPT !.base = h, !.st = s] \in TaskRecords
           /\ \A s \in TaskStates, b \in Nat, c \in Commands :
                [t EXCEPT !.cmd = c, !.boot = b, !.st = s, !.aged = FALSE] \in TaskRecords
           /\ \A s \in TaskStates, r \in Reads : [t EXCEPT !.snap = r, !.st = s] \in TaskRecords
           /\ \A s \in TaskStates, n \in Nat : [t EXCEPT !.cursor = n, !.st = s] \in TaskRecords
BY Zenon DEF TaskRecords

(* The steps before a release: the task gets a legal record, and no state   *)
(* it has no business in.                                                   *)
LEMMA SyncStep ==
    ASSUME Typed, NEW j \in Jobs, NEW d \in Devices,
           _baseline(j, d) \/ _request_sync(j, d) \/ _accept_sync(j, d)
    PROVE  /\ UNCHANGED <<item, event, decision>>
           /\ \E t \in TaskRecords :
                /\ task' = [task EXCEPT ![j][d] = t]
                /\ \/ t.st = "UNAVAILABLE"
                   \/ task[j][d].st = "BASELINE" /\ t.st = "SYNC_PENDING"
                   \/ task[j][d].st = "SYNC_PENDING" /\ t.st = "SYNCING" /\ t.cmd = "queued"
                   \/ /\ task[j][d].st = "SYNCING" /\ task[j][d].cmd = "succeeded"
                      /\ FreshSnapshot(j, d) /\ t.snap = snapshot[d]
                      /\ t.st = IF job[j] = "RUNNING" THEN "RELEASING" ELSE "CHECKING"
<1> PICK t : t = task[j][d]
  BY Zenon
<1>1. t \in TaskRecords /\ snapshot[d] \in Reads /\ snapshot[d].hash \in Rosters \cup {0} /\ boot[d] \in Nat
  BY DEF Typed, Reads
<1>2. UNCHANGED <<item, event, decision>>
  BY DEF _baseline, _request_sync, _accept_sync
<1>4. CASE _unavailable(j, d)
  <2> DEFINE u == [t EXCEPT !.st = "UNAVAILABLE"]
  <2>0. u \in TaskRecords
    BY <1>1, TaskFields, Zenon DEF TaskStates
  <2>1. u.st = "UNAVAILABLE"
    BY <1>1 DEF TaskRecords
  <2>2. task' = [task EXCEPT ![j][d] = u]
    BY <1>4 DEF _unavailable, SetTask
  <2> HIDE DEF u
  <2> QED
    BY <1>2, <2>0, <2>1, <2>2, ZenonT(40)
<1>5. CASE /\ task[j][d].st = "BASELINE"
           /\ SetTask(j, d, [task[j][d] EXCEPT !.base = snapshot[d].hash, !.st = "SYNC_PENDING"])
  <2> DEFINE u == [t EXCEPT !.base = snapshot[d].hash, !.st = "SYNC_PENDING"]
  <2>0. u \in TaskRecords
    BY <1>1, TaskFields, Zenon DEF TaskStates
  <2>1. u.st = "SYNC_PENDING"
    BY <1>1 DEF TaskRecords
  <2>2. task' = [task EXCEPT ![j][d] = u]
    BY <1>5 DEF SetTask
  <2> HIDE DEF u
  <2> QED
    BY <1>2, <1>5, <2>0, <2>1, <2>2, ZenonT(40)
<1>6. CASE /\ task[j][d].st = "SYNC_PENDING"
           /\ SetTask(j, d, [task[j][d] EXCEPT !.cmd = "queued", !.boot = boot[d], !.st = "SYNCING", !.aged = FALSE])
  <2> DEFINE u == [t EXCEPT !.cmd = "queued", !.boot = boot[d], !.st = "SYNCING", !.aged = FALSE]
  <2>0. u \in TaskRecords
    BY <1>1, TaskFields, Zenon DEF TaskStates, Commands
  <2>1. u.st = "SYNCING" /\ u.cmd = "queued"
    BY <1>1 DEF TaskRecords
  <2>2. task' = [task EXCEPT ![j][d] = u]
    BY <1>6 DEF SetTask
  <2> HIDE DEF u
  <2> QED
    BY <1>2, <1>6, <2>0, <2>1, <2>2, ZenonT(40)
<1>7. CASE /\ task[j][d].st = "SYNCING" /\ task[j][d].cmd = "succeeded" /\ FreshSnapshot(j, d)
           /\ SetTask(j, d, [task[j][d] EXCEPT !.snap = snapshot[d],
                  !.st = IF job[j] = "RUNNING" THEN "RELEASING" ELSE "CHECKING"])
  <2> DEFINE s == IF job[j] = "RUNNING" THEN "RELEASING" ELSE "CHECKING"
             u == [t EXCEPT !.snap = snapshot[d], !.st = s]
  <2>1. s \in TaskStates
    BY SMTT(20) DEF TaskStates
  <2>2. u \in TaskRecords
    BY <1>1, <2>1, TaskFields, Zenon
  <2>3. u.st = s /\ u.snap = snapshot[d]
    BY <1>1 DEF TaskRecords
  <2>4. task' = [task EXCEPT ![j][d] = u]
    BY <1>7 DEF SetTask
  <2> HIDE DEF u
  <2> QED
    BY <1>2, <1>7, <2>2, <2>3, <2>4, Zenon
<1> QED
  BY <1>4, <1>5, <1>6, <1>7 DEF _baseline, _request_sync, _accept_sync

(* A task that is given up: a running job skips its READY punches there. *)
LEMMA GiveUpStep ==
    ASSUME Typed, NEW j \in Jobs, NEW d \in Devices, _unavailable(j, d), GiveUp(j, d)
    PROVE  /\ UNCHANGED <<event, decision>>
           /\ \E t \in TaskRecords : task' = [task EXCEPT ![j][d] = t] /\ t.st = "UNAVAILABLE"
           /\ \E f \in [Punches -> ItemRecords] :
                /\ item' = [item EXCEPT ![j] = f]
                /\ \A p \in Punches :
                     \/ f[p] = item[j][p]
                     \/ job[j] = "RUNNING" /\ p \in Of(d) /\ item[j][p].st = "READY" /\ f[p].st = "SKIPPED"
<1>1. \E t \in TaskRecords : task' = [task EXCEPT ![j][d] = t] /\ t.st = "UNAVAILABLE"
  <2> PICK t : t = task[j][d]
    BY Zenon
  <2> DEFINE u == [t EXCEPT !.st = "UNAVAILABLE"]
  <2>1. t \in TaskRecords
    BY DEF Typed
  <2>2. u \in TaskRecords
    BY <2>1, TaskFields, Zenon DEF TaskStates
  <2>3. u.st = "UNAVAILABLE"
    BY <2>1 DEF TaskRecords
  <2>4. task' = [task EXCEPT ![j][d] = u]
    BY DEF _unavailable, SetTask
  <2> HIDE DEF u
  <2> QED
    BY <2>2, <2>3, <2>4, Zenon
<1>2. \E f \in [Punches -> ItemRecords] :
        /\ item' = [item EXCEPT ![j] = f]
        /\ \A p \in Punches :
             \/ f[p] = item[j][p]
             \/ job[j] = "RUNNING" /\ p \in Of(d) /\ item[j][p].st = "READY" /\ f[p].st = "SKIPPED"
  <2>1. \A i \in ItemRecords : [i EXCEPT !.st = "SKIPPED"] \in ItemRecords /\ [i EXCEPT !.st = "SKIPPED"].st = "SKIPPED"
    BY DEF ItemRecords, ItemStates
  <2> PICK g : g = item[j]
    BY Zenon
  <2>2. g \in [Punches -> ItemRecords]
    BY DEF Typed
  <2>3. CASE job[j] = "RUNNING"
    <3> DEFINE f == [p \in Punches |-> IF p \in Of(d) /\ g[p].st = "READY"
                                       THEN [g[p] EXCEPT !.st = "SKIPPED"] ELSE g[p]]
    <3>1. f \in [Punches -> ItemRecords]
      BY <2>1, <2>2
    <3>2. item' = [item EXCEPT ![j] = f]
      BY <2>3 DEF GiveUp
    <3>3. \A p \in Punches : f[p] = g[p] \/ (p \in Of(d) /\ g[p].st = "READY" /\ f[p].st = "SKIPPED")
      BY <2>1, <2>2
    <3> HIDE DEF f
    <3> QED
      BY <2>3, <3>1, <3>2, <3>3, Zenon
  <2>4. CASE job[j] # "RUNNING"
    <3>1. item' = [item EXCEPT ![j] = g]
      BY <2>4 DEF GiveUp, Typed
    <3> QED
      BY <2>2, <3>1, Zenon
  <2> QED
    BY <2>3, <2>4
<1> QED
  BY <1>1, <1>2, Zenon DEF GiveUp

(* A scan decides nothing and puts no punch in Oracle's hands. *)
LEMMA ScanStep ==
    ASSUME Typed, NEW j \in Jobs, NEW d \in Devices, _scan(j, d)
    PROVE  /\ UNCHANGED <<event, decision>> /\ task[j][d].st = "CHECKING"
           /\ \E t \in TaskRecords : task' = [task EXCEPT ![j][d] = t] /\ t.st \in {"CHECKED", "CHECKING"}
           /\ \E f \in [Punches -> ItemRecords] :
                /\ item' = [item EXCEPT ![j] = f]
                /\ \A p \in Punches : f[p] = item[j][p] \/ f[p].st # "WAITING_ORACLE"
<1> PICK t : t = task[j][d]
  BY Zenon
<1> PICK left : left = {p \in Of(d) : p[2] > t.cursor}
  BY Zenon
<1> PICK step : step = Least(STEP_BATCH, left)
  BY Zenon
<1>1. t \in TaskRecords /\ t.cursor \in Nat
  BY DEF Typed, TaskRecords
<1>2. Cardinality(step) \in Nat /\ step \subseteq Punches
  <2>1. left \in SUBSET Of(d)
    OBVIOUS
  <2> QED
    BY <2>1, BatchSize DEF Of
<1>3. \E v \in TaskRecords : task' = [task EXCEPT ![j][d] = v] /\ v.st \in {"CHECKED", "CHECKING"}
  <2> PICK s : s = IF Cardinality(step) < STEP_BATCH THEN "CHECKED" ELSE t.st
    BY Zenon
  <2> PICK n : n = t.cursor + Cardinality(step)
    BY Zenon
  <2> DEFINE u == [t EXCEPT !.cursor = n, !.st = s]
  <2>1. s \in TaskStates /\ s \in {"CHECKED", "CHECKING"} /\ n \in Nat
    BY <1>1, <1>2 DEF _scan, TaskStates
  <2>2. u \in TaskRecords
    BY <1>1, <2>1, TaskFields, ZenonT(40)
  <2>3. u.st = s
    BY <1>1 DEF TaskRecords
  <2>4. task' = [task EXCEPT ![j][d] = u]
    BY DEF _scan, SetTask
  <2> HIDE DEF u
  <2> QED
    BY <2>1, <2>2, <2>3, <2>4, Zenon
<1>4. \E f \in [Punches -> ItemRecords] :
         /\ item' = [item EXCEPT ![j] = f]
         /\ \A p \in Punches : f[p] = item[j][p] \/ f[p].st # "WAITING_ORACLE"
  <2> PICK g : g = item[j]
    BY Zenon
  <2> DEFINE f == [p \in Punches |-> IF p \in step THEN classify(j, p) ELSE g[p]]
  <2>1. g \in [Punches -> ItemRecords]
    BY DEF Typed
  <2>2. f \in [Punches -> ItemRecords]
    BY <2>1, Classified
  <2>3. item' = [item EXCEPT ![j] = f]
    BY DEF _scan
  <2>4. \A p \in Punches : f[p] = g[p] \/ f[p].st # "WAITING_ORACLE"
    BY Classified
  <2> HIDE DEF f
  <2> QED
    BY <2>2, <2>3, <2>4, Zenon
<1> QED
  BY <1>3, <1>4, Zenon DEF _scan

(* A release: READY punches of the device are handed to Oracle or skipped,  *)
(* each decision rests on the task's own read, and the task goes on only    *)
(* while punches are left.                                                  *)
Batch(j, d, t, f) ==
    /\ task' = [task EXCEPT ![j][d] = t] /\ t.snap = task[j][d].snap
    /\ item' = [item EXCEPT ![j] = f]
    /\ \/ t.st = "SYNC_PENDING" /\ f = item[j]
       \/ t.st = "DONE"
       \/ t.st = "RELEASING" /\ \E p \in Of(d) : f[p].st = "READY"
    /\ \A p \in Punches :
         \/ f[p] = item[j][p]
         \/ p \in Of(d) /\ item[j][p].st = "READY" /\ f[p].st \in {"WAITING_ORACLE", "SKIPPED"}
    /\ \A p \in Punches :
         \/ decision'[p] = decision[p]
         \/ /\ p \in Of(d) /\ f[p].st = "WAITING_ORACLE"
            /\ decision'[p] = [job |-> j, proof |-> task[j][d].snap.hash]

LEMMA BatchStep ==
    ASSUME Typed, NEW j \in Jobs, NEW d \in Devices, _release_batch(j, d)
    PROVE  /\ task[j][d].st = "RELEASING"
           /\ \E t \in TaskRecords, f \in [Punches -> ItemRecords] : Batch(j, d, t, f)
           /\ event' \in [Punches -> EventStates]
           /\ decision' \in [Punches -> [job : Jobs \cup {0}, proof : Rosters \cup {0}]]
<1> PICK t : t = task[j][d]
  BY Zenon
<1> PICK g : g = item[j]
  BY Zenon
<1>1. t \in TaskRecords /\ t.st = "RELEASING" /\ g \in [Punches -> ItemRecords]
  BY DEF Typed, _release_batch
<1>2. CASE /\ SetTask(j, d, [task[j][d] EXCEPT !.st = "SYNC_PENDING"])
           /\ UNCHANGED <<item, event, decision>>
  <2> DEFINE u == [t EXCEPT !.st = "SYNC_PENDING"]
  <2>1. u \in TaskRecords
    BY <1>1, TaskFields, Zenon DEF TaskStates
  <2>2. u.st = "SYNC_PENDING" /\ u.snap = t.snap
    BY <1>1 DEF TaskRecords
  <2>3. task' = [task EXCEPT ![j][d] = u] /\ item' = [item EXCEPT ![j] = g]
    BY <1>2 DEF SetTask, Typed
  <2>4. event' \in [Punches -> EventStates]
        /\ decision' \in [Punches -> [job : Jobs \cup {0}, proof : Rosters \cup {0}]]
    BY <1>2 DEF Typed
  <2>5. decision' = decision
    BY <1>2
  <2> HIDE DEF u
  <2>6. Batch(j, d, u, g)
    BY <2>2, <2>3, <2>5, Zenon DEF Batch
  <2> QED
    BY <1>1, <2>1, <2>4, <2>6, ZenonT(40)
<1> PICK left : left = ItemsIn(j, Of(d), {"READY"})
  BY Zenon
<1> PICK step : step = Least(STEP_BATCH, left)
  BY Zenon
<1> PICK go : go = {p \in step : Release(j, p)}
  BY Zenon
<1>3. CASE
       /\ item' = [item EXCEPT ![j] = [p \in Punches |->
               IF p \in go THEN [g[p] EXCEPT !.st = "WAITING_ORACLE"]
               ELSE IF p \in step THEN [g[p] EXCEPT !.st = "SKIPPED"] ELSE g[p]]]
       /\ event' = [p \in Punches |-> IF p \in go THEN "PENDING" ELSE event[p]]
       /\ decision' = [p \in Punches |-> IF p \in go
               THEN [job |-> j, proof |-> item[j][p].proof] ELSE decision[p]]
       /\ SetTask(j, d, [task[j][d] EXCEPT !.st = IF Released(step, left) THEN "DONE" ELSE @])
  <2> DEFINE f == [p \in Punches |-> IF p \in go THEN [g[p] EXCEPT !.st = "WAITING_ORACLE"]
                     ELSE IF p \in step THEN [g[p] EXCEPT !.st = "SKIPPED"] ELSE g[p]]
  <2>1. /\ left \subseteq Of(d) /\ step \subseteq left /\ go \subseteq step /\ Of(d) \subseteq Punches
        /\ \A p \in left : g[p].st = "READY"
    BY BatchSize DEF ItemsIn, Of
  <2>2. \A i \in ItemRecords, x \in {"WAITING_ORACLE", "SKIPPED"} :
          [i EXCEPT !.st = x] \in ItemRecords /\ [i EXCEPT !.st = x].st = x
    BY DEF ItemRecords, ItemStates
  <2>3. f \in [Punches -> ItemRecords]
    BY <1>1, <2>1, <2>2
  <2>4. \A p \in Punches : f[p] = g[p]
          \/ (p \in Of(d) /\ g[p].st = "READY" /\ f[p].st \in {"WAITING_ORACLE", "SKIPPED"})
    BY <1>1, <2>1, <2>2
  <2>5. \A p \in go : g[p].proof = t.snap.hash
    <3> SUFFICES ASSUME NEW p \in go PROVE g[p].proof = t.snap.hash
      OBVIOUS
    <3>1. p \in Punches /\ p[1] = d /\ classify(j, p) = g[p] /\ g[p].st = "READY"
      BY <2>1 DEF Release, Of
    <3> QED
      BY <3>1, Classified
  <2>6. \A p \in Punches : \/ decision'[p] = decision[p]
                            \/ /\ p \in Of(d) /\ f[p].st = "WAITING_ORACLE"
                               /\ decision'[p] = [job |-> j, proof |-> t.snap.hash]
    BY <1>1, <1>3, <2>1, <2>2, <2>5
  <2>7. event' \in [Punches -> EventStates]
    BY <1>3 DEF Typed, EventStates
  <2>8. decision' \in [Punches -> [job : Jobs \cup {0}, proof : Rosters \cup {0}]]
    BY <1>1, <1>3, <2>1 DEF Typed, ItemRecords
  <2> PICK s : s = IF Released(step, left) THEN "DONE" ELSE t.st
    BY ZenonT(40)
  <2> DEFINE u == [t EXCEPT !.st = s]
  <2>9. u \in TaskRecords
    BY <1>1, TaskFields, Zenon DEF TaskStates
  <2>10. u.st = s /\ u.snap = t.snap
    BY <1>1 DEF TaskRecords
  <2>11. task' = [task EXCEPT ![j][d] = u]
    BY <1>3 DEF SetTask
  <2>12. s = "DONE" \/ (s = "RELEASING" /\ \E p \in Of(d) : f[p].st = "READY")
    <3>1. CASE Released(step, left)
      BY <3>1
    <3>2. CASE ~Released(step, left)
      <4>1. PICK p \in left : p \notin step
        BY <2>1, <3>2, Zenon DEF Released
      <4> QED
        BY <1>1, <2>1, <3>2, <4>1
    <3> QED
      BY <3>1, <3>2
  <2>13. item' = [item EXCEPT ![j] = f]
    BY <1>3
  <2> HIDE DEF u, f
  <2>14. Batch(j, d, u, f)
    BY <2>4, <2>6, <2>10, <2>11, <2>12, <2>13, Zenon DEF Batch
  <2> QED
    BY <1>1, <2>3, <2>7, <2>8, <2>9, <2>14, Zenon
<1> QED
  BY <1>2, <1>3 DEF _release_batch

(* What one step of a running job may do to one of its devices. *)
Worked(j, d, t, f) ==
    /\ task' = [task EXCEPT ![j][d] = t]
    /\ item' = [item EXCEPT ![j] = f]
    /\ \/ t.st \in {"DONE", "UNAVAILABLE"}
       \/ t.st \in InWork /\ \E p \in Of(d) : f[p].st = "READY"
    /\ t.st = "SYNCING" => t.cmd = "queued"
    /\ t.st = "RELEASING" => j \in t.snap.approved
    /\ \A p \in Punches :
         \/ f[p] = item[j][p]
         \/ p \in Of(d) /\ item[j][p].st = "READY" /\ f[p].st \in {"WAITING_ORACLE", "SKIPPED"}
    /\ \A p \in Punches :
         \/ decision'[p] = decision[p]
         \/ /\ p \in Of(d) /\ f[p].st = "WAITING_ORACLE" /\ j \in task[j][d].snap.approved
            /\ decision'[p] = [job |-> j, proof |-> task[j][d].snap.hash]

LEMMA RunStep ==
    ASSUME Typed, PhaseInv, FreshInv, NEW j \in Jobs, NEW d \in Devices,
           job[j] = "RUNNING", TaskStep(j, d)
    PROVE  /\ \E t \in TaskRecords, f \in [Punches -> ItemRecords] : Worked(j, d, t, f)
           /\ event' \in [Punches -> EventStates]
           /\ decision' \in [Punches -> [job : Jobs \cup {0}, proof : Rosters \cup {0}]]
<1> PICK g : g = item[j]
  BY Zenon
<1>1. /\ g \in [Punches -> ItemRecords] /\ item = [item EXCEPT ![j] = g]
      /\ event \in [Punches -> EventStates]
      /\ decision \in [Punches -> [job : Jobs \cup {0}, proof : Rosters \cup {0}]]
  BY DEF Typed
<1>2. \/ task[j][d].st \in {"CHECKED", "DONE", "UNAVAILABLE"}
      \/ task[j][d].st \in InWork /\ \E p \in Of(d) : g[p].st = "READY"
  BY DEF PhaseInv, Phase, Left, ItemsIn
<1>3. CASE _unavailable(j, d) /\ GiveUp(j, d)
  <2>1. PICK t \in TaskRecords : task' = [task EXCEPT ![j][d] = t] /\ t.st = "UNAVAILABLE"
    BY <1>3, GiveUpStep
  <2>2. PICK f \in [Punches -> ItemRecords] :
          /\ item' = [item EXCEPT ![j] = f]
          /\ \A p \in Punches :
               \/ f[p] = item[j][p]
               \/ job[j] = "RUNNING" /\ p \in Of(d) /\ item[j][p].st = "READY" /\ f[p].st = "SKIPPED"
    BY <1>3, GiveUpStep, ZenonT(40)
  <2>3. event' = event /\ decision' = decision
    BY <1>3, GiveUpStep
  <2>4. Worked(j, d, t, f)
    BY <2>1, <2>2, <2>3 DEF Worked
  <2> QED
    BY <1>1, <2>3, <2>4
<1>4. CASE _baseline(j, d) \/ _request_sync(j, d) \/ _accept_sync(j, d)
  <2>1. item' = item /\ event' = event /\ decision' = decision
    BY <1>4, SyncStep
  <2>2. PICK t \in TaskRecords :
          /\ task' = [task EXCEPT ![j][d] = t]
          /\ \/ t.st = "UNAVAILABLE"
             \/ task[j][d].st = "BASELINE" /\ t.st = "SYNC_PENDING"
             \/ task[j][d].st = "SYNC_PENDING" /\ t.st = "SYNCING" /\ t.cmd = "queued"
             \/ /\ task[j][d].st = "SYNCING" /\ task[j][d].cmd = "succeeded"
                /\ FreshSnapshot(j, d) /\ t.snap = snapshot[d] /\ t.st = "RELEASING"
    BY <1>4, SyncStep
  <2>3. task[j][d].st = "SYNCING" /\ task[j][d].cmd = "succeeded" /\ FreshSnapshot(j, d)
          => j \in snapshot[d].approved
    BY DEF FreshInv, Fresh, FreshSnapshot, Approved
  <2>4. /\ \/ t.st \in {"DONE", "UNAVAILABLE"}
           \/ t.st \in InWork /\ \E p \in Of(d) : g[p].st = "READY"
        /\ t.st = "SYNCING" => t.cmd = "queued"
        /\ t.st = "RELEASING" => j \in t.snap.approved
    BY <1>2, <2>2, <2>3 DEF InWork
  <2>5. Worked(j, d, t, g)
    BY <1>1, <2>1, <2>2, <2>4, Zenon DEF Worked
  <2> QED
    BY <1>1, <2>1, <2>5
<1>5. CASE _scan(j, d)
  BY <1>2, <1>5 DEF _scan, InWork
<1>6. CASE _release_batch(j, d)
  <2>1. PICK t \in TaskRecords, f \in [Punches -> ItemRecords] : Batch(j, d, t, f)
    BY <1>6, BatchStep
  <2>2. task[j][d].st = "RELEASING" /\ j \in task[j][d].snap.approved
    BY <1>6, BatchStep DEF FreshInv, Fresh, Approved
  <2>3. t.st = "SYNC_PENDING" => \E p \in Of(d) : f[p].st = "READY"
    BY <1>2, <2>1, <2>2 DEF Batch
  <2>4. Worked(j, d, t, f)
    BY <2>1, <2>2, <2>3 DEF Batch, Worked, InWork
  <2> QED
    BY <1>6, <2>4, BatchStep
<1> QED
  BY <1>3, <1>4, <1>5, <1>6 DEF TaskStep

(* What one step of a check may do: it decides nothing. *)
LEMMA CheckStep ==
    ASSUME Typed, PhaseInv, NEW j \in Jobs, NEW d \in Devices, job[j] = "CHECKING", TaskStep(j, d)
    PROVE  /\ \E t \in TaskRecords :
                task' = [task EXCEPT ![j][d] = t] /\ t.st \notin {"NONE", "RELEASING", "DONE"}
           /\ \E f \in [Punches -> ItemRecords] :
                /\ item' = [item EXCEPT ![j] = f]
                /\ \A p \in Punches : f[p] = item[j][p] \/ f[p].st # "WAITING_ORACLE"
           /\ UNCHANGED <<event, decision>>
<1> PICK g : g = item[j]
  BY Zenon
<1>1. g \in [Punches -> ItemRecords] /\ item = [item EXCEPT ![j] = g]
  BY DEF Typed
<1>2. task[j][d].st # "RELEASING"
  BY DEF PhaseInv, Phase
<1>3. CASE _unavailable(j, d) /\ GiveUp(j, d)
  BY <1>3, GiveUpStep
<1>4. CASE _baseline(j, d) \/ _request_sync(j, d) \/ _accept_sync(j, d)
  <2>1. item' = item /\ event' = event /\ decision' = decision
    BY <1>4, SyncStep
  <2>2. \E t \in TaskRecords :
          task' = [task EXCEPT ![j][d] = t] /\ t.st \notin {"NONE", "RELEASING", "DONE"}
    BY <1>4, SyncStep
  <2>3. \A p \in Punches : g[p] = item[j][p] \/ g[p].st # "WAITING_ORACLE"
    OBVIOUS
  <2> QED
    BY <1>1, <2>1, <2>2, <2>3, Zenon
<1>5. CASE _scan(j, d)
  BY <1>5, ScanStep
<1>6. CASE _release_batch(j, d)
  BY <1>2, <1>6 DEF _release_batch
<1> QED
  BY <1>3, <1>4, <1>5, <1>6 DEF TaskStep

-----------------------------------------------------------------------------
(* The invariant is kept *)

(* Steps that leave the runs, their items and the states of their tasks. *)
LEMMA QuietStep ==
    ASSUME PhaseInv, DecidedInv, OneRunPerDevice, UNCHANGED <<job, item, decision>>,
           \A j \in Jobs, d \in Devices : task'[j][d].st = task[j][d].st
    PROVE  PhaseInv' /\ DecidedInv' /\ OneRunPerDevice'
<1>1. PhaseInv'
  BY DEF PhaseInv, Phase, Left, ItemsIn
<1>2. DecidedInv'
  BY DEF DecidedInv
<1>3. OneRunPerDevice'
  BY DEF OneRunPerDevice, ItemsIn
<1> QED
  BY <1>1, <1>2, <1>3

(* The terminals: a snapshot received while an approved run waits for its   *)
(* command is received after the approval.                                  *)
LEMMA DeviceKeeps ==
    ASSUME ForceInv, NEW d \in Devices, DeviceNext(d)
    PROVE  ForceInv'
<1> USE DEF ForceInv
<1>1. Typed'
  BY TypedDevice
<1>2. UNCHANGED <<job, item, decision>>
  BY DEF DeviceNext, ReadRoster, SnapshotReceived, RosterChanges, Restart, Disconnect, Reconnect
<1>3. \A j \in Jobs, e \in Devices :
         /\ task'[j][e].st = task[j][e].st /\ task'[j][e].cmd = task[j][e].cmd
         /\ task'[j][e].snap = task[j][e].snap
  <2>1. CASE SnapshotReceived(d)
    <3> SUFFICES ASSUME NEW j \in Jobs, NEW e \in Devices
                 PROVE  /\ task'[j][e].st = task[j][e].st /\ task'[j][e].cmd = task[j][e].cmd
                        /\ task'[j][e].snap = task[j][e].snap
      OBVIOUS
    <3>1. \A t \in TaskRecords, b \in BOOLEAN :
             /\ [t EXCEPT !.moved = b].st = t.st /\ [t EXCEPT !.moved = b].cmd = t.cmd
             /\ [t EXCEPT !.moved = b].snap = t.snap
      BY DEF TaskRecords
    <3>2. task[j] \in [Devices -> TaskRecords]
      BY DEF Typed
    <3>3. (task[j][d].moved \/ task[j][d].st = "BASELINE") \in BOOLEAN
      OBVIOUS
    <3>4. task'[j] = [task[j] EXCEPT ![d] =
             [task[j][d] EXCEPT !.moved = task[j][d].moved \/ task[j][d].st = "BASELINE"]]
      BY <2>1 DEF SnapshotReceived
    <3>5. CASE e = d
      <4>1. task'[j][e] = [task[j][d] EXCEPT !.moved = task[j][d].moved \/ task[j][d].st = "BASELINE"]
        BY <3>2, <3>4, <3>5
      <4> QED
        BY <3>1, <3>2, <3>3, <3>5, <4>1
    <3>6. CASE e # d
      BY <3>2, <3>4, <3>6
    <3> QED
      BY <3>5, <3>6
  <2>2. CASE ~SnapshotReceived(d)
    BY <2>2, SMTT(20) DEF DeviceNext, ReadRoster, RosterChanges, Restart, Disconnect, Reconnect
  <2> QED
    BY <2>1, <2>2
<1>4. FreshInv'
  <2> SUFFICES ASSUME NEW j \in Jobs, NEW e \in Devices, job[j] \in Approved
               PROVE  /\ task[j][e].st = "SYNCING" /\ task[j][e].cmd \in {"started", "succeeded"} =>
                           (j \in snapshot'[e].after => j \in snapshot'[e].approved)
                      /\ task[j][e].st = "RELEASING" => j \in task[j][e].snap.approved
    BY <1>2, <1>3 DEF FreshInv, Fresh
  <2>1. CASE SnapshotReceived(d)
    <3>1. snapshot'[d].approved = {i \in Jobs : job[i] \in Approved}
      BY <2>1 DEF SnapshotReceived, Typed, Reads
    <3>2. e # d => snapshot'[e] = snapshot[e]
      BY <2>1 DEF SnapshotReceived, Typed
    <3> QED
      BY <3>1, <3>2 DEF FreshInv, Fresh
  <2>2. CASE ~SnapshotReceived(d)
    <3>1. snapshot' = snapshot
      BY <2>2, Zenon DEF DeviceNext, ReadRoster, RosterChanges, Restart, Disconnect, Reconnect
    <3> QED
      BY <3>1 DEF FreshInv, Fresh
  <2> QED
    BY <2>1, <2>2
<1> QED
  BY <1>1, <1>2, <1>3, <1>4, QuietStep

(* Commands and time: no snapshot received before a command starts answers *)
(* it.                                                                     *)
LEMMA CommandKeeps ==
    ASSUME ForceInv, NEW j \in Jobs, NEW d \in Devices, CommandStep(j, d) \/ SyncAges(j, d)
    PROVE  ForceInv'
<1> USE DEF ForceInv
<1>1. Typed'
  BY TypedCommand
<1>2. UNCHANGED <<job, item, decision>>
  BY DEF CommandStep, SyncAges
<1>3. PICK t \in TaskRecords :
             /\ task' = [task EXCEPT ![j][d] = t]
             /\ t.st = task[j][d].st /\ t.snap = task[j][d].snap
             /\ \/ t.cmd = task[j][d].cmd /\ transit' = transit /\ snapshot' = snapshot
                \/ t.cmd = "started" /\ Disowned(j, d)
                \/ t.cmd = "succeeded" /\ task[j][d].cmd = "started" /\ transit' = transit /\ snapshot' = snapshot
                \/ t.cmd = "failed" /\ transit' = transit /\ snapshot' = snapshot
  BY CommandShape, Zenon
<1>4. \A k \in Jobs, e \in Devices :
         /\ task'[k][e].st = task[k][e].st /\ task'[k][e].snap = task[k][e].snap
         /\ <<k, e>> # <<j, d>> => task'[k][e] = task[k][e]
  BY <1>3 DEF Typed
<1>5. FreshInv'
  <2> SUFFICES ASSUME NEW k \in Jobs, NEW e \in Devices, job[k] \in Approved
               PROVE  /\ task[k][e].st = "SYNCING" /\ task'[k][e].cmd \in {"started", "succeeded"} =>
                           (k \in snapshot'[e].after => k \in snapshot'[e].approved)
                      /\ task[k][e].st = "RELEASING" => k \in task[k][e].snap.approved
    BY <1>2, <1>4, ZenonT(40) DEF FreshInv, Fresh
  <2>1. /\ snapshot'[e].approved = snapshot[e].approved
        /\ snapshot'[e].after \subseteq snapshot[e].after
    BY <1>3, DisownedReads
  <2>2. CASE task[k][e].cmd \in {"started", "succeeded"}
    BY <2>1, <2>2 DEF FreshInv, Fresh
  <2>3. CASE task[k][e].cmd \notin {"started", "succeeded"} /\ task'[k][e].cmd \in {"started", "succeeded"}
    <3>1. k = j /\ e = d /\ task'[j][d] = t
      BY <1>3, <1>4, <2>3 DEF Typed
    <3>2. Disowned(j, d)
      BY <1>3, <2>3, <3>1
    <3> QED
      BY <3>1, <3>2, DisownedReads DEF FreshInv, Fresh
  <2>4. CASE task'[k][e].cmd \notin {"started", "succeeded"}
    BY <2>4 DEF FreshInv, Fresh
  <2> QED
    BY <2>2, <2>3, <2>4
<1> QED
  BY <1>1, <1>2, <1>4, <1>5, QuietStep

(* No other approved run has work on the device. *)
Sole(j, d) == \A k \in Jobs \ {j} : job[k] \in Approved => Open(k, d) = {}

(* A step of one run keeps the invariant when it keeps that run's part. *)
LEMMA OwnStep ==
    ASSUME ForceInv, Typed', NEW j \in Jobs, UNCHANGED <<transit, snapshot>>,
           \A k \in Jobs \ {j} : job'[k] = job[k] /\ task'[k] = task[k] /\ item'[k] = item[k],
           \A p \in Punches : decision'[p] = decision[p] \/ decision'[p].job = j,
           \A p \in Punches : decision'[p].job = j =>
               /\ job'[j] \notin {"NONE", "CHECKING", "CHECKED"}
               /\ item'[j][p].st \in {"WAITING_ORACLE", "NEEDS_REVIEW", "CONFIRMED"},
           job'[j] \in {"NONE", "CHECKING", "CHECKED"} =>
               \A p \in Punches : item'[j][p].st # "WAITING_ORACLE",
           \A d \in Devices : Phase(j, d)' /\ Fresh(j, d)',
           job'[j] \in Approved => \A d \in Devices : Open(j, d)' = {} \/ Sole(j, d)
    PROVE  ForceInv'
<1> USE DEF ForceInv
<1>1. PhaseInv'
  BY DEF PhaseInv, Phase, Left, ItemsIn
<1>2. FreshInv'
  BY DEF FreshInv, Fresh
<1>3. DecidedInv'
  <2>1. ASSUME NEW k \in Jobs, NEW p \in Punches, job'[k] \in {"NONE", "CHECKING", "CHECKED"}
        PROVE  item'[k][p].st # "WAITING_ORACLE"
    BY <2>1 DEF DecidedInv
  <2>2. ASSUME NEW p \in Punches, decision'[p].job # 0
        PROVE  /\ job'[decision'[p].job] \notin {"NONE", "CHECKING", "CHECKED"}
               /\ item'[decision'[p].job][p].st \in {"WAITING_ORACLE", "NEEDS_REVIEW", "CONFIRMED"}
    <3>1. decision'[p].job \in Jobs
      BY <2>2 DEF Typed
    <3>2. CASE decision'[p].job = j
      BY <3>2
    <3>3. CASE decision'[p].job # j
      BY <2>2, <3>1, <3>3 DEF DecidedInv
    <3> QED
      BY <3>2, <3>3
  <2> QED
    BY <2>1, <2>2, Zenon DEF DecidedInv
<1>4. OneRunPerDevice'
  <2> SUFFICES ASSUME NEW k \in Jobs, NEW l \in Jobs, NEW d \in Devices, k # l,
                      job'[k] \in Approved, job'[l] \in Approved
               PROVE  Open(k, d)' = {} \/ Open(l, d)' = {}
    BY DEF OneRunPerDevice, Open, Approved
  <2>1. \A i \in Jobs \ {j} : Open(i, d)' = Open(i, d)
    BY DEF Open, ItemsIn
  <2>2. CASE k # j /\ l # j
    BY <2>1, <2>2, SMTT(20) DEF OneRunPerDevice, Open, Approved
  <2>3. CASE k = j \/ l = j
    BY <2>1, <2>3 DEF Sole
  <2> QED
    BY <2>2, <2>3
<1> QED
  BY <1>1, <1>2, <1>3, <1>4, SMTT(20)

(* An approved run has its devices for itself. *)
LEMMA Shared ==
    ASSUME OneRunPerDevice, NEW j \in Jobs, job[j] \in Approved, NEW d \in Devices
    PROVE  Open(j, d) = {} \/ Sole(j, d)
BY DEF OneRunPerDevice, Open, Sole, Approved

-----------------------------------------------------------------------------
(* The administrator *)

LEMMA CheckKeeps ==
    ASSUME ForceInv, NEW j \in Jobs, create_check(j)
    PROVE  ForceInv'
<1> USE DEF ForceInv
<1> PICK t : t = [NoTask EXCEPT !.st = "BASELINE"]
  BY Zenon
<1>1. t \in TaskRecords /\ t.st = "BASELINE"
  BY Zenon DEF NoTask, NoRead, Reads, TaskRecords, TaskStates, Commands
<1>2. task' = [task EXCEPT ![j] = [d \in Devices |-> t]] /\ job' = [job EXCEPT ![j] = "CHECKING"]
  BY DEF create_check
<1>3. UNCHANGED <<roster, boot, table, transit, snapshot, item, event, decision>> /\ job[j] = "NONE"
  BY DEF create_check, envVars
<1>4. job'[j] = "CHECKING" /\ \A d \in Devices : task'[j][d].st = "BASELINE"
  BY <1>1, <1>2 DEF Typed
<1>5. Typed'
  BY <1>1, <1>2, <1>3 DEF Typed, JobStates, ACTIVE
<1>6. \A d \in Devices : Phase(j, d)' /\ Fresh(j, d)'
  BY <1>4 DEF Phase, Fresh, Approved, TERMINAL
<1>7. \A p \in Punches : decision'[p].job # j /\ item'[j][p].st # "WAITING_ORACLE"
  BY <1>3, ForceAssumption DEF DecidedInv
<1>8. \A k \in Jobs \ {j} : job'[k] = job[k] /\ task'[k] = task[k] /\ item'[k] = item[k]
  BY <1>2, <1>3 DEF Typed
<1> QED
  BY <1>3, <1>4, <1>5, <1>6, <1>7, <1>8, OwnStep DEF Approved

LEMMA QuietKeeps ==
    ASSUME ForceInv, UNCHANGED <<roster, boot, table, transit, snapshot, job, task, item, decision>>,
           event' \in [Punches -> EventStates]
    PROVE  ForceInv'
<1> USE DEF ForceInv
<1>1. Typed'
  BY DEF Typed
<1>2. FreshInv'
  BY DEF FreshInv, Fresh
<1> QED
  BY <1>1, <1>2, QuietStep

(* start or resume: the tasks that have READY punches ask for a new read. *)
LEMMA AgainTyped ==
    ASSUME Typed, NEW j \in Jobs, NEW D \in SUBSET Devices,
           task' = [task EXCEPT ![j] = [d \in Devices |->
                      IF d \in D THEN [@[d] EXCEPT !.st = "SYNC_PENDING"] ELSE @[d]]]
    PROVE  /\ task' \in [Jobs -> [Devices -> TaskRecords]]
           /\ \A k \in Jobs \ {j} : task'[k] = task[k]
           /\ \A d \in D : task'[j][d].st = "SYNC_PENDING"
           /\ \A d \in Devices \ D : task'[j][d] = task[j][d]
<1>1. \A t \in TaskRecords : LET u == [t EXCEPT !.st = "SYNC_PENDING"]
                             IN  u \in TaskRecords /\ u.st = "SYNC_PENDING"
  BY DEF TaskRecords, TaskStates
<1> DEFINE f == [d \in Devices |-> IF d \in D THEN [task[j][d] EXCEPT !.st = "SYNC_PENDING"] ELSE task[j][d]]
<1>2. /\ f \in [Devices -> TaskRecords]
      /\ \A d \in D : f[d].st = "SYNC_PENDING"
      /\ \A d \in Devices \ D : f[d] = task[j][d]
  BY <1>1 DEF Typed
<1>3. task' = [task EXCEPT ![j] = f]
  OBVIOUS
<1> HIDE DEF f
<1> QED
  BY <1>2, <1>3, ZenonT(40) DEF Typed

LEMMA StartKeeps ==
    ASSUME ForceInv, NEW j \in Jobs, start(j)
    PROVE  ForceInv'
<1> USE DEF ForceInv
<1>1. /\ task' = [task EXCEPT ![j] = [d \in Devices |->
                    IF d \in Actionable(j) THEN [@[d] EXCEPT !.st = "SYNC_PENDING"] ELSE @[d]]]
      /\ Actionable(j) \in SUBSET Devices
  BY DEF start, AfterStart, Actionable
<1>2. /\ task' \in [Jobs -> [Devices -> TaskRecords]]
      /\ \A k \in Jobs \ {j} : task'[k] = task[k]
      /\ \A d \in Actionable(j) : task'[j][d].st = "SYNC_PENDING"
      /\ \A d \in Devices \ Actionable(j) : task'[j][d] = task[j][d]
  BY <1>1, AgainTyped, ZenonT(40)
<1>3. /\ UNCHANGED <<roster, boot, table, transit, snapshot, item, event, decision>>
      /\ job[j] = "CHECKED" /\ job' = [job EXCEPT ![j] = "RUNNING"]
  BY DEF start, envVars
<1>4. Typed' /\ job'[j] = "RUNNING" /\ \A k \in Jobs \ {j} : job'[k] = job[k] /\ item'[k] = item[k]
  BY <1>2, <1>3 DEF Typed, JobStates, ACTIVE
<1>5. \A p \in Punches : decision'[p].job # j /\ item[j][p].st # "WAITING_ORACLE"
  BY <1>3, ForceAssumption, SMTT(20) DEF DecidedInv
<1>6. ASSUME NEW d \in Devices PROVE Phase(j, d)' /\ Fresh(j, d)'
  <2>1. Left(j, d)' = Left(j, d) /\ (d \in Actionable(j) => Left(j, d) # {})
    BY <1>3 DEF Left, ItemsIn, Actionable
  <2>2. d \notin Actionable(j) => task[j][d].st \in {"CHECKED", "UNAVAILABLE"}
    BY <1>3 DEF PhaseInv, Phase
  <2> QED
    BY <1>2, <1>4, <2>1, <2>2 DEF Phase, Fresh, InWork, TERMINAL
<1>7. ASSUME NEW d \in Devices PROVE Open(j, d)' = {} \/ Sole(j, d)
  <2>1. CASE d \in Actionable(j)
    BY <2>1 DEF start, ReleaseActive, Running, Sole, Open, Approved
  <2>2. CASE d \notin Actionable(j)
    BY <1>3, <1>5, <2>2 DEF Open, Of, ItemsIn, Actionable
  <2> QED
    BY <2>1, <2>2
<1> QED
  BY <1>2, <1>3, <1>4, <1>5, <1>6, <1>7, OwnStep

LEMMA ControlKeeps ==
    ASSUME ForceInv, NEW j \in Jobs, control(j)
    PROVE  ForceInv'
<1> USE DEF ForceInv
<1>1. UNCHANGED <<roster, boot, table, transit, snapshot, item, event, decision>>
  BY DEF control, envVars
<1>2. \A d \in Devices : Left(j, d)' = Left(j, d) /\ Open(j, d)' = Open(j, d)
  BY <1>1, SMTT(20) DEF Left, Open, ItemsIn
<1>3. CASE /\ job[j] \notin TERMINAL \cup {"NONE"}
           /\ job' = [job EXCEPT ![j] = "STOPPING"] /\ UNCHANGED task
  <2>1. Typed' /\ job'[j] = "STOPPING" /\ \A k \in Jobs \ {j} : job'[k] = job[k]
    BY <1>1, <1>3 DEF Typed, JobStates, ACTIVE
  <2>2. \A d \in Devices : Phase(j, d)' /\ Fresh(j, d)'
    BY <2>1 DEF Phase, Fresh, Approved, TERMINAL
  <2>3. \A p \in Punches : decision'[p].job = j =>
               item'[j][p].st \in {"WAITING_ORACLE", "NEEDS_REVIEW", "CONFIRMED"}
    BY <1>1, ForceAssumption, SMTT(20) DEF DecidedInv
  <2> QED
    BY <1>1, <1>3, <2>1, <2>2, <2>3, OwnStep DEF Approved
<1>4. CASE /\ job[j] \in {"RUNNING", "WAITING_ORACLE"}
           /\ job' = [job EXCEPT ![j] = "PAUSED"] /\ UNCHANGED task
  <2>1. Typed' /\ job'[j] = "PAUSED" /\ \A k \in Jobs \ {j} : job'[k] = job[k]
    BY <1>1, <1>4, SMTT(20) DEF Typed, JobStates, ACTIVE
  <2>2. \A d \in Devices : Phase(j, d)' /\ Fresh(j, d)'
    BY <1>1, <1>2, <1>4, <2>1 DEF PhaseInv, FreshInv, Phase, Fresh, Approved, TERMINAL
  <2>3. \A p \in Punches : decision'[p].job = j =>
               item'[j][p].st \in {"WAITING_ORACLE", "NEEDS_REVIEW", "CONFIRMED"}
    BY <1>1, ForceAssumption DEF DecidedInv
  <2>4. \A d \in Devices : Open(j, d)' = {} \/ Sole(j, d)
    BY <1>2, <1>4, Shared, SMTT(20) DEF Approved
  <2> QED
    BY <1>1, <1>4, <2>1, <2>2, <2>3, <2>4, OwnStep
<1>5. CASE /\ job[j] = "PAUSED"
           /\ job' = [job EXCEPT ![j] = "RUNNING"]
           /\ task' = [task EXCEPT ![j] = [d \in Devices |->
                         IF d \in Actionable(j) /\ @[d].st # "UNAVAILABLE"
                         THEN [@[d] EXCEPT !.st = "SYNC_PENDING"] ELSE @[d]]]
  <2> DEFINE D == {d \in Actionable(j) : task[j][d].st # "UNAVAILABLE"}
  <2>1. /\ D \in SUBSET Devices
        /\ task' = [task EXCEPT ![j] = [d \in Devices |->
                      IF d \in D THEN [@[d] EXCEPT !.st = "SYNC_PENDING"] ELSE @[d]]]
    BY <1>5 DEF Actionable
  <2>2. /\ task' \in [Jobs -> [Devices -> TaskRecords]]
        /\ \A k \in Jobs \ {j} : task'[k] = task[k]
        /\ \A d \in D : task'[j][d].st = "SYNC_PENDING"
        /\ \A d \in Devices \ D : task'[j][d] = task[j][d]
    <3> HIDE DEF D
    <3> QED
      BY <2>1, AgainTyped, Zenon
  <2>3. Typed' /\ job'[j] = "RUNNING" /\ \A k \in Jobs \ {j} : job'[k] = job[k]
    BY <1>1, <1>5, <2>2 DEF Typed, JobStates, ACTIVE
  <2>4. ASSUME NEW d \in Devices PROVE Phase(j, d)' /\ Fresh(j, d)'
    <3>1. CASE d \in D
      <4>1. Left(j, d) # {}
        BY <3>1, SMTT(20) DEF Left, Actionable
      <4> QED
        BY <1>2, <2>2, <2>3, <3>1, <4>1, SMTT(20) DEF Phase, Fresh, InWork, TERMINAL
    <3>2. CASE d \notin D
      <4>1. task[j][d].st \in {"CHECKED", "DONE", "UNAVAILABLE"}
        BY <1>5, <3>2 DEF PhaseInv, Phase, Left, Actionable
      <4> QED
        BY <2>2, <2>3, <3>2, <4>1 DEF Phase, Fresh, TERMINAL
    <3> QED
      BY <3>1, <3>2, SMTT(20)
  <2>5. \A p \in Punches : decision'[p].job = j =>
               item'[j][p].st \in {"WAITING_ORACLE", "NEEDS_REVIEW", "CONFIRMED"}
    BY <1>1, ForceAssumption DEF DecidedInv
  <2>6. \A d \in Devices : Open(j, d)' = {} \/ Sole(j, d)
    BY <1>2, <1>5, Shared DEF Approved
  <2> QED
    BY <1>1, <2>2, <2>3, <2>4, <2>5, <2>6, OwnStep, Zenon
<1> QED
  BY <1>3, <1>4, <1>5 DEF control

-----------------------------------------------------------------------------
(* advance_once *)

(* _observe only takes a waiting item back for review. *)
LEMMA ObservedShape ==
    ASSUME Typed, NEW j \in Jobs
    PROVE  /\ Observed(j) \in [Punches -> ItemRecords]
           /\ \A p \in Punches :
                \/ Observed(j)[p] = item[j][p]
                \/ item[j][p].st = "WAITING_ORACLE" /\ Observed(j)[p].st = "NEEDS_REVIEW"
<1>1. item[j] \in [Punches -> ItemRecords]
  BY DEF Typed
<1>2. \A x \in ItemRecords : LET y == [x EXCEPT !.st = "NEEDS_REVIEW"]
                             IN  y \in ItemRecords /\ y.st = "NEEDS_REVIEW"
  BY DEF ItemRecords, ItemStates
<1>3. CASE ItemsIn(j, Punches, {"READY"}) # {}
  BY <1>1, <1>3 DEF Observed
<1>4. CASE ItemsIn(j, Punches, {"READY"}) = {}
  <2> DEFINE f == [p \in Punches |->
        IF item[j][p].st # "WAITING_ORACLE" THEN item[j][p]
        ELSE IF event[p] \in {"HELD", "CONFLICT"}
        THEN [item[j][p] EXCEPT !.st = "NEEDS_REVIEW"] ELSE item[j][p]]
  <2>1. Observed(j) = f
    BY <1>4 DEF Observed
  <2>2. f \in [Punches -> ItemRecords]
    BY <1>1, <1>2
  <2>3. ASSUME NEW p \in Punches
        PROVE  f[p] = item[j][p] \/ (item[j][p].st = "WAITING_ORACLE" /\ f[p].st = "NEEDS_REVIEW")
    <3> PICK x \in ItemRecords : x = item[j][p]
      BY <1>1
    <3> PICK y : y = [x EXCEPT !.st = "NEEDS_REVIEW"]
      BY Zenon
    <3>1. f[p] = x \/ (x.st = "WAITING_ORACLE" /\ f[p] = y)
      OBVIOUS
    <3>2. y.st = "NEEDS_REVIEW"
      BY DEF ItemRecords
    <3> HIDE DEF f
    <3> QED
      BY <3>1, <3>2, Zenon
  <2> HIDE DEF f
  <2> QED
    BY <2>1, <2>2, <2>3
<1> QED
  BY <1>3, <1>4

(* What a run's step does to the items of the other runs: nothing. *)
LEMMA OwnItems ==
    ASSUME Typed, NEW j \in Jobs, NEW f \in [Punches -> ItemRecords], item' = [item EXCEPT ![j] = f]
    PROVE  /\ item' \in [Jobs -> [Punches -> ItemRecords]] /\ item'[j] = f
           /\ \A k \in Jobs \ {j} : item'[k] = item[k]
BY DEF Typed

LEMMA OwnTask ==
    ASSUME Typed, NEW j \in Jobs, NEW d \in Devices, NEW t \in TaskRecords,
           task' = [task EXCEPT ![j][d] = t]
    PROVE  /\ task' \in [Jobs -> [Devices -> TaskRecords]] /\ task'[j][d] = t
           /\ \A e \in Devices \ {d} : task'[j][e] = task[j][e]
           /\ \A k \in Jobs \ {j} : task'[k] = task[k]
BY DEF Typed

LEMMA OwnJob ==
    ASSUME Typed, NEW j \in Jobs, NEW x \in JobStates, job' = [job EXCEPT ![j] = x]
    PROVE  /\ job' \in [Jobs -> JobStates] /\ job'[j] = x
           /\ \A k \in Jobs \ {j} : job'[k] = job[k]
BY DEF Typed

(* A stopped run gives up its READY items and ends all its tasks. *)
LEMMA StopKeeps ==
    ASSUME ForceInv, NEW j \in Jobs, job[j] = "STOPPING",
           item' = [item EXCEPT ![j] = [p \in Punches |->
                IF Observed(j)[p].st = "READY" THEN [@[p] EXCEPT !.st = "STOPPED"] ELSE Observed(j)[p]]],
           StopTask(j), job' = [job EXCEPT ![j] = _settle(j)],
           UNCHANGED <<envVars, expired, faults, controls>>
    PROVE  ForceInv'
<1> USE DEF ForceInv
<1>1. UNCHANGED <<roster, boot, table, transit, snapshot, event, decision>>
  BY DEF StopTask, envVars
<1> DEFINE f == [p \in Punches |->
                IF Observed(j)[p].st = "READY" THEN [item[j][p] EXCEPT !.st = "STOPPED"] ELSE Observed(j)[p]]
<1>2. item' = [item EXCEPT ![j] = f]
  OBVIOUS
<1>3. \A x \in ItemRecords : LET y == [x EXCEPT !.st = "STOPPED"] IN y \in ItemRecords
  BY DEF ItemRecords, ItemStates
<1>4. item[j] \in [Punches -> ItemRecords]
  BY DEF Typed
<1>5. f \in [Punches -> ItemRecords]
  BY <1>3, <1>4, ObservedShape
<1>6. \A p \in Punches : item[j][p].st \in {"WAITING_ORACLE", "NEEDS_REVIEW", "CONFIRMED"}
                         => f[p].st \in {"WAITING_ORACLE", "NEEDS_REVIEW", "CONFIRMED"}
  BY ObservedShape
<1> DEFINE g == [d \in Devices |->
            IF task[j][d].st \in {"DONE", "UNAVAILABLE"} THEN task[j][d] ELSE [task[j][d] EXCEPT !.st = "DONE"]]
<1>7. task' = [task EXCEPT ![j] = g]
  BY DEF StopTask
<1>8. \A t \in TaskRecords : LET u == [t EXCEPT !.st = "DONE"] IN u \in TaskRecords /\ u.st = "DONE"
  BY DEF TaskRecords, TaskStates
<1>9. g \in [Devices -> TaskRecords] /\ \A d \in Devices : g[d].st \in {"DONE", "UNAVAILABLE"}
  <2>1. ASSUME NEW d \in Devices PROVE g[d] \in TaskRecords /\ g[d].st \in {"DONE", "UNAVAILABLE"}
    BY <1>8 DEF Typed
  <2> QED
    BY <2>1
<1>10. _settle(j) \in {"STOPPING", "STOPPED"}
  BY DEF _settle
<1> HIDE DEF f, g
<1>11. /\ item' \in [Jobs -> [Punches -> ItemRecords]] /\ item'[j] = f
       /\ \A k \in Jobs \ {j} : item'[k] = item[k]
  BY <1>2, <1>5, OwnItems
<1>12. /\ task' \in [Jobs -> [Devices -> TaskRecords]] /\ task'[j] = g
       /\ \A k \in Jobs \ {j} : task'[k] = task[k]
  BY <1>7, <1>9, SMTT(20) DEF Typed
<1>13. /\ job' \in [Jobs -> JobStates] /\ job'[j] \in {"STOPPING", "STOPPED"}
       /\ \A k \in Jobs \ {j} : job'[k] = job[k]
  BY <1>10, OwnJob, Zenon DEF JobStates, ACTIVE, TERMINAL
<1>14. Typed'
  BY <1>1, <1>11, <1>12, <1>13 DEF Typed
<1>15. \A d \in Devices : Phase(j, d)' /\ Fresh(j, d)'
  BY <1>9, <1>12, <1>13 DEF Phase, Fresh, Approved, TERMINAL
<1>16. \A p \in Punches : decision'[p].job = j =>
               item'[j][p].st \in {"WAITING_ORACLE", "NEEDS_REVIEW", "CONFIRMED"}
  BY <1>1, <1>6, <1>11, ForceAssumption, ZenonT(40) DEF DecidedInv
<1> QED
  BY <1>1, <1>11, <1>12, <1>13, <1>14, <1>15, <1>16, OwnStep DEF Approved

(* A step of a check. *)
LEMMA CheckingKeeps ==
    ASSUME ForceInv, NEW j \in Jobs, job[j] = "CHECKING", NEW d \in Devices, TaskStep(j, d),
           job' = [job EXCEPT ![j] = _finish_check(j)],
           UNCHANGED <<envVars, expired, faults, controls>>
    PROVE  ForceInv'
<1> USE DEF ForceInv
<1>1. UNCHANGED <<roster, boot, table, transit, snapshot, event, decision>>
  BY CheckStep DEF envVars
<1>2. PICK t \in TaskRecords :
         task' = [task EXCEPT ![j][d] = t] /\ t.st \notin {"NONE", "RELEASING", "DONE"}
  BY CheckStep
<1>3. PICK f \in [Punches -> ItemRecords] :
         /\ item' = [item EXCEPT ![j] = f]
         /\ \A p \in Punches : f[p] = item[j][p] \/ f[p].st # "WAITING_ORACLE"
  BY CheckStep
<1>4. /\ item' \in [Jobs -> [Punches -> ItemRecords]] /\ item'[j] = f
      /\ \A k \in Jobs \ {j} : item'[k] = item[k]
  BY <1>3, OwnItems, Zenon
<1>5. /\ task' \in [Jobs -> [Devices -> TaskRecords]] /\ task'[j][d] = t
      /\ \A e \in Devices \ {d} : task'[j][e] = task[j][e]
      /\ \A k \in Jobs \ {j} : task'[k] = task[k]
  BY <1>2, OwnTask, Zenon
<1>6. _finish_check(j) \in {"CHECKED", "CHECKING"}
  BY DEF _finish_check
<1>7. /\ job' \in [Jobs -> JobStates] /\ job'[j] = _finish_check(j)
      /\ \A k \in Jobs \ {j} : job'[k] = job[k]
  BY <1>6, OwnJob, ZenonT(40) DEF JobStates, ACTIVE
<1>8. Typed'
  BY <1>1, <1>4, <1>5, <1>7, SMTT(20) DEF Typed
<1>9. ASSUME NEW e \in Devices PROVE Phase(j, e)' /\ Fresh(j, e)'
  <2>1. task'[j][e].st \notin {"NONE", "RELEASING", "DONE"}
    BY <1>2, <1>5, SMTT(20) DEF PhaseInv, Phase
  <2>2. job'[j] = "CHECKED" => task'[j][e].st \in {"CHECKED", "UNAVAILABLE"}
    BY <1>7, SMTT(20) DEF _finish_check
  <2> QED
    BY <1>6, <1>7, <2>1, <2>2 DEF Phase, Fresh, Approved, TERMINAL
<1>10. ASSUME NEW p \in Punches
       PROVE  decision'[p].job # j /\ item'[j][p].st # "WAITING_ORACLE"
  <2>1. decision[p].job # j
    BY ForceAssumption DEF DecidedInv
  <2>2. item[j][p].st # "WAITING_ORACLE"
    BY <2>1 DEF DecidedInv
  <2>3. f[p].st # "WAITING_ORACLE"
    BY <1>3, <2>2, SMTT(20)
  <2> QED
    BY <1>1, <1>4, <2>1, <2>3, SMTT(20)
<1> QED
  BY <1>1, <1>4, <1>5, <1>6, <1>7, <1>8, <1>9, <1>10, OwnStep, Zenon DEF Approved

(* A step of a run: it settles only when no device is in work. *)
LEMMA RunningKeeps ==
    ASSUME ForceInv, NEW j \in Jobs, job[j] = "RUNNING", NEW d \in Devices, TaskStep(j, d),
           job' = [job EXCEPT ![j] = _settle(j)],
           UNCHANGED <<envVars, expired, faults, controls>>
    PROVE  ForceInv'
<1> USE DEF ForceInv
<1>1. /\ UNCHANGED <<roster, boot, table, transit, snapshot>>
      /\ event' \in [Punches -> EventStates]
      /\ decision' \in [Punches -> [job : Jobs \cup {0}, proof : Rosters \cup {0}]]
  BY RunStep DEF envVars
<1>2. PICK t \in TaskRecords, f \in [Punches -> ItemRecords] : Worked(j, d, t, f)
  BY RunStep
<1>3. /\ item' \in [Jobs -> [Punches -> ItemRecords]] /\ item'[j] = f
      /\ \A k \in Jobs \ {j} : item'[k] = item[k]
  BY <1>2, OwnItems, Zenon DEF Worked
<1>4. /\ task' \in [Jobs -> [Devices -> TaskRecords]] /\ task'[j][d] = t
      /\ \A e \in Devices \ {d} : task'[j][e] = task[j][e]
      /\ \A k \in Jobs \ {j} : task'[k] = task[k]
  BY <1>2, OwnTask, ZenonT(40) DEF Worked
<1>5. /\ _settle(j) \in {"RUNNING", "WAITING_ORACLE", "COMPLETED_WITH_REVIEW", "COMPLETED"}
      /\ _settle(j) # "RUNNING" => \A p \in Punches : f[p].st # "READY"
  BY <1>3 DEF _settle, Has
<1>6. /\ job' \in [Jobs -> JobStates] /\ job'[j] = _settle(j)
      /\ \A k \in Jobs \ {j} : job'[k] = job[k]
  BY <1>5, OwnJob, ZenonT(40) DEF JobStates, ACTIVE, TERMINAL
<1>7. Typed'
  BY <1>1, <1>3, <1>4, <1>6, SMTT(20) DEF Typed
<1>8. ASSUME NEW e \in Devices
      PROVE  \/ task'[j][e].st \in {"CHECKED", "DONE", "UNAVAILABLE"}
             \/ task'[j][e].st \in InWork /\ \E p \in Of(e) : f[p].st = "READY"
  <2>1. CASE e = d
    BY <1>2, <1>4, <2>1, SMTT(20) DEF Worked
  <2>2. CASE e # d
    <3>1. \A p \in Of(e) : p \in Punches /\ p \notin Of(d)
      BY <2>2 DEF Of
    <3>2. \A p \in Of(e) : f[p] = item[j][p]
      BY <1>2, <3>1, SMTT(20) DEF Worked
    <3> QED
      BY <1>4, <2>2, <3>2 DEF PhaseInv, Phase, Left, ItemsIn
  <2> QED
    BY <2>1, <2>2, SMTT(20)
<1>9. ASSUME NEW e \in Devices PROVE Phase(j, e)'
  <2>1. Left(j, e)' = {p \in Of(e) : f[p].st = "READY"} /\ Of(e) \subseteq Punches
    BY <1>3 DEF Left, ItemsIn, Of
  <2> QED
    BY <1>5, <1>6, <1>8, <2>1, SMTT(20) DEF Phase, TERMINAL
<1>10. ASSUME NEW e \in Devices PROVE Fresh(j, e)'
  <2>1. CASE e = d
    BY <1>2, <1>4, <2>1, SMTT(20) DEF Worked, Fresh
  <2>2. CASE e # d
    BY <1>1, <1>4, <2>2, Zenon DEF FreshInv, Fresh, Approved
  <2> QED
    BY <2>1, <2>2, SMTT(20)
<1>11. \A p \in Punches : decision'[p] = decision[p] \/ decision'[p].job = j
  BY <1>2, SMTT(20) DEF Worked
<1>12. \A p \in Punches : decision'[p].job = j =>
               item'[j][p].st \in {"WAITING_ORACLE", "NEEDS_REVIEW", "CONFIRMED"}
  BY <1>2, <1>3, ForceAssumption DEF Worked, DecidedInv
<1>13. ASSUME NEW e \in Devices PROVE Open(j, e)' = {} \/ Sole(j, e)
  <2>1. Open(j, e)' \subseteq Open(j, e)
    BY <1>2, <1>3, SMTT(20) DEF Open, ItemsIn, Of, Worked
  <2> QED
    BY <2>1, Shared DEF Approved
<1> QED
  BY <1>1, <1>3, <1>4, <1>5, <1>6, <1>7, <1>9, <1>10, <1>11, <1>12, <1>13, OwnStep, ZenonT(40)

(* A run without READY items has settled tasks, and waits or ends. *)
LEMMA ObserveKeeps ==
    ASSUME ForceInv, NEW j \in Jobs, job[j] \in {"RUNNING", "WAITING_ORACLE", "PAUSED"},
           ItemsIn(j, Punches, {"READY"}) = {}, item' = [item EXCEPT ![j] = Observed(j)],
           UNCHANGED <<task, event, decision>>,
           job' = [job EXCEPT ![j] = IF job[j] = "PAUSED" THEN @ ELSE _settle(j)],
           UNCHANGED <<envVars, expired, faults, controls>>
    PROVE  ForceInv'
<1> USE DEF ForceInv
<1> PICK f : f = Observed(j)
  BY Zenon
<1>1. UNCHANGED <<roster, boot, table, transit, snapshot>>
  BY DEF envVars
<1>2. /\ f \in [Punches -> ItemRecords]
      /\ \A p \in Punches :
           \/ f[p] = item[j][p]
           \/ item[j][p].st = "WAITING_ORACLE" /\ f[p].st = "NEEDS_REVIEW"
  <2>1. /\ Observed(j) \in [Punches -> ItemRecords]
        /\ \A p \in Punches :
             \/ Observed(j)[p] = item[j][p]
             \/ item[j][p].st = "WAITING_ORACLE" /\ Observed(j)[p].st = "NEEDS_REVIEW"
    BY ObservedShape, Zenon
  <2> QED
    BY <2>1
<1>3. /\ item' \in [Jobs -> [Punches -> ItemRecords]] /\ item'[j] = f
      /\ \A k \in Jobs \ {j} : item'[k] = item[k]
  BY <1>2, OwnItems, Zenon
<1> DEFINE x == IF job[j] = "PAUSED" THEN job[j] ELSE _settle(j)
<1>4. x \in {"PAUSED", "RUNNING", "WAITING_ORACLE", "COMPLETED_WITH_REVIEW", "COMPLETED"}
  BY DEF _settle
<1>5. job' = [job EXCEPT ![j] = x]
  OBVIOUS
<1> HIDE DEF x
<1>6. /\ job' \in [Jobs -> JobStates] /\ job'[j] = x
      /\ \A k \in Jobs \ {j} : job'[k] = job[k]
  BY <1>4, <1>5, OwnJob, ZenonT(40) DEF JobStates, ACTIVE, TERMINAL
<1>7. Typed'
  BY <1>1, <1>3, <1>6, SMTT(20) DEF Typed
<1>8. ASSUME NEW d \in Devices PROVE Phase(j, d)' /\ Fresh(j, d)'
  <2>1. Left(j, d) = {}
    BY DEF Left, ItemsIn, Of
  <2>2. task'[j][d].st \in {"CHECKED", "DONE", "UNAVAILABLE"}
    BY <2>1 DEF PhaseInv, Phase
  <2> QED
    BY <1>4, <1>6, <2>2 DEF Phase, Fresh, TERMINAL
<1>9. \A p \in Punches : decision'[p].job = j =>
               item'[j][p].st \in {"WAITING_ORACLE", "NEEDS_REVIEW", "CONFIRMED"}
  BY <1>2, <1>3, ForceAssumption DEF DecidedInv
<1>10. ASSUME NEW d \in Devices PROVE Open(j, d)' = {} \/ Sole(j, d)
  <2>1. Open(j, d)' \subseteq Open(j, d)
    BY <1>2, <1>3 DEF Open, ItemsIn, Of
  <2> QED
    BY <2>1, Shared DEF Approved
<1> QED
  BY <1>1, <1>3, <1>4, <1>6, <1>7, <1>8, <1>9, <1>10, OwnStep, Zenon

LEMMA AdvanceKeeps ==
    ASSUME ForceInv, NEW j \in Jobs, advance_once(j)
    PROVE  ForceInv'
BY StopKeeps, CheckingKeeps, RunningKeeps, ObserveKeeps DEF advance_once

-----------------------------------------------------------------------------
(* The Oracle lane *)

(* Oracle's answer settles an item that the deciding run had handed over. *)
LEMMA DeliverKeeps ==
    ASSUME ForceInv, NEW p \in Punches, Deliver(p)
    PROVE  ForceInv'
<1> USE DEF ForceInv
<1>1. /\ UNCHANGED <<roster, boot, table, transit, snapshot, job, task, decision>>
      /\ event' \in [Punches -> EventStates]
  BY Zenon DEF Deliver, envVars, Typed, EventStates
<1>2. CASE item' = item
  BY <1>1, <1>2, QuietKeeps, SMTT(20)
<1>3. CASE item' # item
  <2> PICK j : j = decision[p].job
    BY Zenon
  <2>1. PICK x \in {"CONFIRMED", "NEEDS_REVIEW"} : j # 0 /\ item' = [item EXCEPT ![j][p].st = x]
    BY <1>3 DEF Deliver
  <2>2. j \in Jobs
    BY <2>1 DEF Typed
  <2>3. item[j][p].st \in {"WAITING_ORACLE", "NEEDS_REVIEW", "CONFIRMED"} /\ item[j][p] \in ItemRecords
    BY <2>1, <2>2 DEF DecidedInv, Typed
  <2> DEFINE y == [item[j][p] EXCEPT !.st = x]
  <2>4. y \in ItemRecords /\ y.st = x
    BY <2>3 DEF ItemRecords, ItemStates
  <2>5. item' = [item EXCEPT ![j][p] = y]
    BY <2>1, SMTT(20)
  <2> HIDE DEF y
  <2>6. /\ item' \in [Jobs -> [Punches -> ItemRecords]] /\ item'[j][p] = y
        /\ \A q \in Punches \ {p} : item'[j][q] = item[j][q]
        /\ \A k \in Jobs \ {j} : item'[k] = item[k]
    BY <2>2, <2>4, <2>5, SMTT(20) DEF Typed
  <2>7. Typed'
    BY <1>1, <2>6, SMTT(20) DEF Typed
  <2>8. ASSUME NEW d \in Devices PROVE Phase(j, d)' /\ Fresh(j, d)'
    <3>1. Left(j, d)' = Left(j, d)
      BY <2>3, <2>4, <2>6, ZenonT(40) DEF Left, ItemsIn, Of
    <3> QED
      BY <1>1, <2>2, <3>1, ZenonT(40) DEF PhaseInv, FreshInv, Phase, Fresh
  <2>9. \A q \in Punches : decision'[q].job = j =>
               /\ job'[j] \notin {"NONE", "CHECKING", "CHECKED"}
               /\ item'[j][q].st \in {"WAITING_ORACLE", "NEEDS_REVIEW", "CONFIRMED"}
    BY <1>1, <2>1, <2>2, <2>4, <2>6 DEF DecidedInv
  <2>10. job'[j] \notin {"NONE", "CHECKING", "CHECKED"}
    BY <1>1, <2>1, SMTT(20) DEF DecidedInv
  <2>11. ASSUME NEW d \in Devices, job'[j] \in Approved PROVE Open(j, d)' = {} \/ Sole(j, d)
    <3>1. Open(j, d)' \subseteq Open(j, d)
      BY <2>3, <2>4, <2>6, Zenon DEF Open, ItemsIn, Of
    <3> QED
      BY <1>1, <2>2, <2>11, <3>1, Shared, ZenonT(40)
  <2> QED
    BY <1>1, <2>2, <2>6, <2>7, <2>8, <2>9, <2>10, <2>11, OwnStep
<1> QED
  BY <1>2, <1>3

-----------------------------------------------------------------------------
(* The theorems *)

LEMMA InitForce == Init => ForceInv
<1> SUFFICES ASSUME Init PROVE ForceInv
  OBVIOUS
<1>1. /\ \A j \in Jobs, d \in Devices : task[j][d].st = "NONE" /\ job[j] \in {"NONE", "STOPPED"}
      /\ \A j \in Jobs, p \in Punches : item[j][p].st = "NONE"
      /\ \A p \in Punches : decision[p].job = 0
  BY SMTT(20) DEF Init, NoTask, NoItem
<1>2. PhaseInv
  BY <1>1, SMTT(20) DEF PhaseInv, Phase, TERMINAL
<1>3. DecidedInv
  BY <1>1 DEF DecidedInv
<1>4. FreshInv
  BY <1>1 DEF FreshInv, Fresh
<1>5. OneRunPerDevice
  BY <1>1 DEF OneRunPerDevice, ItemsIn, Of
<1> QED
  BY <1>2, <1>3, <1>4, <1>5, InitTyped DEF ForceInv

LEMMA NextForce ==
    ASSUME ForceInv, [Next]_vars
    PROVE  ForceInv'
<1>1. ASSUME NEW d \in Devices, DeviceNext(d) PROVE ForceInv'
  BY <1>1, DeviceKeeps
<1>2. ASSUME NEW j \in Jobs, create_check(j) PROVE ForceInv'
  BY <1>2, CheckKeeps, SMTT(20)
<1>3. ASSUME NEW j \in Jobs, PreviewExpires(j) PROVE ForceInv'
  BY <1>3, QuietKeeps DEF PreviewExpires, envVars, ForceInv, Typed
<1>4. ASSUME NEW j \in Jobs, start(j) PROVE ForceInv'
  BY <1>4, StartKeeps
<1>5. ASSUME NEW j \in Jobs, control(j) PROVE ForceInv'
  BY <1>5, ControlKeeps
<1>6. ASSUME NEW j \in Jobs, advance_once(j) PROVE ForceInv'
  BY <1>6, AdvanceKeeps
<1>7. ASSUME NEW j \in Jobs, NEW d \in Devices, CommandStep(j, d) \/ SyncAges(j, d) PROVE ForceInv'
  BY <1>7, CommandKeeps
<1>8. ASSUME NEW p \in Punches, Deliver(p) PROVE ForceInv'
  BY <1>8, DeliverKeeps, SMTT(20)
<1>9. ASSUME NEW p \in Punches, OtherRelease(p) PROVE ForceInv'
  BY <1>9, QuietKeeps, SMTT(20) DEF OtherRelease, envVars, ForceInv, Typed, EventStates
<1>10. CASE UNCHANGED vars
  BY <1>10, QuietKeeps DEF vars, envVars, ForceInv, Typed
<1> QED
  BY <1>1, <1>2, <1>3, <1>4, <1>5, <1>6, <1>7, <1>8, <1>9, <1>10, ZenonT(40) DEF Next

LEMMA ForceInvariant == Spec => []ForceInv
<1>1. ForceInv /\ [Next]_vars => ForceInv'
  BY NextForce
<1> QED
  BY <1>1, InitForce, PTL DEF Spec

(* start, _release_batch, _settle: approved runs never work on the same     *)
(* device, and a run that is no longer advanced left no device half done,   *)
(* whatever the terminals, the commands and the administrators do.          *)
THEOREM RunsConsistentInvariant == Spec => []RunsConsistent
<1>1. ForceInv => RunsConsistent
  <2> SUFFICES ASSUME ForceInv PROVE RunsConsistent
    OBVIOUS
  <2>1. TypeOK
    <3>1. \A j \in Jobs, d \in Devices : task[j][d].st \in TaskStates \cup {"NONE"}
      BY DEF ForceInv, Typed, TaskRecords
    <3>2. \A j \in Jobs, p \in Punches : item[j][p].st \in ItemStates
      BY DEF ForceInv, Typed, ItemRecords
    <3> QED
      BY <3>1, <3>2 DEF TypeOK, ForceInv, Typed, JobStates, EventStates
  <2>2. NoDeviceLeftReleasing
    BY SMTT(20) DEF NoDeviceLeftReleasing, ForceInv, PhaseInv, Phase
  <2> QED
    BY <2>1, <2>2 DEF RunsConsistent, ForceInv
<1> QED
  BY <1>1, ForceInvariant, PTL

(* Only a batch of an approved run decides a punch. *)
LEMMA DecisionStep ==
    ASSUME ForceInv, [Next]_vars, NEW p \in Punches, decision'[p] # decision[p]
    PROVE  LET j == decision'[p].job IN
           j \in task[j][p[1]].snap.approved /\ decision'[p].proof = task[j][p[1]].snap.hash
<1> USE DEF ForceInv
<1>1. PICK j \in Jobs : advance_once(j)
  BY Zenon DEF Next, vars, envVars, DeviceNext, ReadRoster, SnapshotReceived, RosterChanges, Restart,
         Disconnect, Reconnect, create_check, PreviewExpires, start, control, CommandStep,
         SyncAges, Deliver, OtherRelease
<1>2. PICK d \in Devices : TaskStep(j, d) /\ job[j] \in {"CHECKING", "RUNNING"}
  BY <1>1 DEF advance_once, StopTask
<1>3. job[j] = "RUNNING"
  BY <1>2, CheckStep, SMTT(20)
<1>4. PICK t \in TaskRecords, f \in [Punches -> ItemRecords] : Worked(j, d, t, f)
  BY <1>2, <1>3, RunStep, SMTT(20)
<1>5. /\ p \in Of(d) /\ j \in task[j][d].snap.approved
      /\ decision'[p] = [job |-> j, proof |-> task[j][d].snap.hash]
  BY <1>4, SMTT(20) DEF Worked
<1>6. p[1] = d /\ decision'[p].job = j /\ decision'[p].proof = task[j][d].snap.hash
  BY <1>5 DEF Of
<1> QED
  BY <1>5, <1>6, SMTT(20)

(* start, _accept_sync, _release_batch: a punch is decided only on a roster *)
(* snapshot that ADD received after the approval of the run, and its proof  *)
(* is that roster, in every run of any size.  The terminal may have been    *)
(* read earlier: the stamp has an allowance of five seconds, and a          *)
(* reconnect sends the copy in the connector's memory.                      *)
THEOREM DecidedOnFreshReadAlways == Spec => DecidedOnFreshRead
<1> DEFINE A == \A p \in Punches : decision'[p] # decision[p] =>
          LET j == decision'[p].job IN
          /\ j \in task[j][p[1]].snap.approved
          /\ decision'[p].proof = task[j][p[1]].snap.hash
<1>1. ForceInv /\ [Next]_vars => [A]_vars
  BY DecisionStep, Zenon
<1> QED
  BY <1>1, ForceInvariant, PTL DEF Spec, DecidedOnFreshRead

=============================================================================
