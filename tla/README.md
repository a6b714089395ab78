# Verification of attendance custody, delivery, updates and reconciliation

This directory holds a TLA+ development for the State Life Attendance Device
Dashboard (ADD) and the Zone Lite connector firmware. It models how a punch
travels from a ZKT terminal into ADD's custody and on to Oracle, how held punches
are released by hand, how a terminal's full history is reconciled, and how
firmware is updated over the air. The models are checked with TLC on small
instances; central invariants are proved with TLAPS for all instances.

## The system

| Part | Code | Module | Hard behaviour |
|---|---|---|---|
| Live capture | `zkt_journal_capture.c` | CustodyDelivery | an append that times out and is executed later |
| Storage mailbox | `zkt_storage_mailbox.c` | StorageMailbox | starvation, slot leaks, abandoned replies |
| Journal | `zkt_journal_store.c`, `_state.c`, `_codec.c` | JournalStore | power loss and failing I/O between durable effects |
| Delivery to ADD | `zkt_journal_delivery.c`, `zkt_custody.py` | CustodyDelivery | lost answers, stale settlements, the same observation again |
| Acknowledged send | `add_connector.c` | AckWait | misdirected wakes, late answers, disconnects |
| Oracle delivery | `worker.py`, `zkt_oracle_delivery.py` | OutboxDelivery | a worker that dies between POST and record, stale claims, lost copies |
| Oracle schedule | `worker.py` | ClaimSchedule | starvation of history, forced rows over the cap, circuit pauses |
| Direct approvals | `attendance_direct_ords.py`, `attendance_force_delivery.py`, `attendance_manual_guard.py` | DirectOrds | two approvals and an automatic release of one punch |
| Force release | `attendance_force_release.py` | ForceRelease | stale roster reads, lost commands, restarts |
| Firmware updates | `ota.py`, `ota_interruption.py`, `firmware_campaigns.py`, `service.py`, `ota_manager.c` | OtaUpdate | resets at any step, late heartbeats, lost replies, re-offers |
| Reconciliation | `reconciliation.py`, `source_newest_slot.py`, `source_tail_authority.py`, `web.py`, `zone_lite.c`, `add_connector.c` | Reconciliation | slots read before they are written, lost ACKs, racing assignments, changed sources |
| Other firmware and backend, tools | see `PROJECT.json` | - | - |

Firmware paths are under `src/firmware/zone_lite/main/`, backend paths under
`src/apps/add_backend/zk_add/`. `PROJECT.json` lists every part with its files
and says why a part is not modelled.

The capture task splits a packet into fragments and submits each to the mailbox.
The storage task executes requests one at a time against the journal. The
delivery task reads the oldest entry, sends it through the connector, waits for
ADD's receipt, settles the entry, which advances the retirement checkpoint, and
asks for reclamation. A packet is reported as preserved when every fragment is
committed. From then on it must be on flash or in ADD's custody.

ADD turns custody into attendance rows, each with an outbox row. The delivery
worker claims outbox rows, asks Oracle whether it has them, posts those it lacks
and settles each claim in a later transaction. Punches whose identity is in
doubt are held until an administrator approves or releases them. In parallel ADD
scans a terminal's own log in chunks, certifies the scan and follows it with a
live tail, so that a punch missed by live capture is found.

## Modules

**AttendanceCustody** is the promise itself: entries are held on the device,
taken by ADD, or both; what was promised is in one of the two; only taken entries
are released. It models no code. JournalStore and CustodyDelivery each implement
it (`ImplementsCustody`), at two levels of detail.

**StorageMailbox** has one action for each `zj_mailbox_*` call that changes state.
Slots, `next_ticket`, `running_ticket`, `resume_ticket`, `yield_to_other`,
`priority_burst` and `occupied` are the fields of `zj_mailbox_t`. `passed_over`
is a history variable. Payload validation and telemetry are left out.

**JournalStore** models the NVS blobs (`root`, `cp`), the flash files (`files`,
`content`) and the RAM structures (`state`, `seq`, `store`, `cursor`). One task
makes all calls, so only failures interleave. Each operation is therefore split
at its durable effects, and `pc` names the next one. A file is a sequence of
cells: header, record, checkpoint evidence or torn bytes. Abstractions:
- an unsynced cell survives a power loss whole or disappears whole;
- a torn write at a power loss is a failed write followed by `Crash`;
- a complete record under a valid header authenticates; anything else does not.

**CustodyDelivery** composes capture, delivery, the storage task and ADD. The
mailbox is reduced to a pool of slots and the journal to a log with a cursor.
Clocks are abstracted: a deadline may expire whenever it is awaited, and backoff
is an arbitrary wait. An answer to an earlier send of the same entry counts as
the receipt, since both mean that ADD has committed it.

**AckWait** models `send_payload_and_wait_for_ack` for several tasks: the mutex,
the binary semaphore, the slot (`waiting`, `matched`, `tail`), the priority of
the background outbox, disconnects and ADD's answers. Each section under `s_lock`
is one step; a lock attempt with a timeout may fail. The receipt, evidence and
epoch checks are a nondeterministic outcome. Answers of an old connection may
still be handled, which is more than the transport allows. `s_send_lock` only
serialises the socket and is left out. The release of the mutex and the clearing
of the background flag are one step.

**OutboxDelivery** models `deliver_ords_batch` and both membership audits. A row
has the outbox status, the event's status and the confirmation time; a journal row
also has the frozen payload, the saved send intent and the receipts of
`zkt_oracle_delivery.py`. A payload is the version of the identity evidence it
was built from. Each database transaction and each HTTP request is one step; a
claim of a batch is a task with a program counter. Stale recovery may take a row
from a claim that is still running. Faults are crashes, lost replies, failed
transactions, changed evidence and copies Oracle loses. Every row has a valid
`event_uid` and none needs an approval: the audits' own gates for those
(`worker.py:1259`, `:1541`) and the guard in `apply_ords_confirmation` do not act here;
that guard is part of DirectOrds.

**ClaimSchedule** models which rows `claim_ords_batch` picks: the two windows, one
background row after at most four priority rows, the rotation over connectors,
the cap on forced rows, and the circuit that pauses batches after a transport
failure. Each pick is one step, since the schedule row is what carries over. A forced
row over the cap is put back, so it counts as judged but not as served; `HistoryServed`
therefore says that the history of a connector empties or keeps being picked.

**DirectOrds** models one held punch: the approvals of `attendance_direct_ords.py`,
the forced lane that posts them, ADD's own release after a roster snapshot and the
guard between them. A payload is its CNIC. Oracle keeps the first CNIC stored under
the punch's uid and answers 409 to later POSTs. `sender`, `certified` and `overtaken`
are history variables: whose POST Oracle stored, under which CNIC the punch was confirmed, and
whether a claim was taken for stale while it still ran. Left out: the order in which a
start splits a run's claims (`split_claims`), the re-check of a stored delivery proof by the
ordinary lane (`delivery_proof_valid`), the refusal of a punch for its time
(`time_refusal`) and the cap on forced rows, which is ClaimSchedule's.

**ForceRelease** models checks and runs of `attendance_force_release.py`: one task
per run and device, one item per run and punch, the `REFRESH_USERS` command, the
roster snapshots, and stop, pause and resume. A proof of identity is the roster it
was made from. `table` is the connector's own copy of its last read. A reconnect sends that
copy again as a new snapshot (`zone_lite.c:9972`), and `_accept_sync` takes a snapshot whose
stamp is up to five seconds older than the start of the command. A roster that answers an
approved run may therefore have been read before the approval. What the code guarantees,
and `DecidedOnFreshRead` states, is that ADD received it after the approval.

**OtaUpdate** models ADD's campaigns, deployments and grants, and the OTA task of
each ESP with its journal, slots and boot confirmation. Time is the phase of a held
download: waiting, due, or past its deadline. One timing assumption is made in
`HeartbeatsSettled`: a whole download takes longer than a heartbeat is delayed, so
no heartbeat built before the grant is still on its way when the download ends.
A plan says of which ESPs the source gets ready for the last report (`covered`, for
`add_connector_ota_reconcile_ready`); the others keep their journal in RECONCILING.

**Reconciliation** models one terminal, its reader and ADD. The terminal's count may
be one ahead of what it has written; the newest slot then reads as zero bytes, as a
copy or as an unrelated punch. ADD has jobs, chunk chains, canonical rows per source
epoch, certificates, coverage, re-read receipts and assignments; the reader has its
loop, its inbox, its certified cursor and the message it waits for. A digest chain
is the sequence of chunks it was computed from. The stream can drop while ADD still
handles a message (`late`). The worker reads a job without a lock and writes the
assignment later (`AssignRead`, `AssignWrite`). One timing assumption is made: a
reboot of the reader outlasts the message ADD is handling, as ADD's lock and
statement timeouts (5 s and 30 s) and its in-order executor provide.

## Runs

| Run | Instance | Distinct states | Properties |
|---|---|---|---|
| `mailbox` | 3 slots, 1 reserved, burst 1, 4 tickets | 38,746 | MailboxConsistent, LiveReserve, BoundedBypass, FileWorkExclusive, AcceptedWorkReleased |
| `journal` | 9 sequences in blocks of 2, 4 segments of 3 cells, 4 appends, 2 tokens, 3 failures | 151,691 | StoreConsistent, NonceNeverReused, CheckpointReplacedSafely, ImplementsCustody, AckedDrains |
| `custody` | 2 packets of 2 fragments, 2 slots, 2 failures | 271,515 | DeliveryConsistent, ImplementsCustody, PreservedReachesAdd |
| `ackwait` | 3 senders, 2 messages, 1 pending wake | 1,105,297 | WaitConsistent, ConfirmedCommitted, WaiterWoken, BackgroundServed |
| `outbox` | 2 rows, one from the journal, 2 evidence versions, 2 failures | 342,096 | RowsConsistent, JournalConfirmationFinal |
| `outbox_liveness` | 2 rows, one audited by membership, 1 failure | 15,531 | RowsSettle, LostCopyResent |
| `schedule` | 2 connectors, batches of 2, forced cap 0 or 1, windows of 2, 1 outage | 419,462 | SharesKept, LiveNeverBehindForced, HistoryServed |
| `direct` | 2 CNICs, 1 roster change; 2 approval runs with 1 failure, or 1 with 2 | 368,044 | ApprovalsConsistent, RunsEnd |
| `force` | 2 runs, 1 device with 2 punches, 2 rosters, one punch per step, up to 2 failures | 255,225 | RunsConsistent, DecidedOnFreshRead, RunsEnd |
| `ota` | 2 connectors, 2 blocks, 2 attempts, grants and retries, 2 campaigns | 166,174 | ZoneConsistent, OutcomeIsReal, StopsAreOwn, HeldEnds, InstallAcknowledged |
| `ota_return` | the same, expects a violation | - | ReturnRecorded |
| `reconciliation` | 3 punches, 3 jobs, 2 source epochs, chunks of 1, tail batches of 2 | 99,510 | LedgerConsistent, OnlyRealPunches, CompletedAccounted, CoverageSurvives, CommittedStable, JobEnds |

`PROJECT.json` says in a sentence what each run shows, and lists the hazards its
properties answer to. Every property is broken by a mutation of the modelled code
named there; the mutated operators stand before the originals in the modules.

Why the bounds reach the interesting cases:
- mailbox: background work meets the reserve while a file transaction is retained,
  and slots are reused after their caller gave up;
- journal: blocks of 2 are reserved several times and the last one is short; three
  failures allow a failed write, a power loss and a damaged checkpoint in one
  behaviour; two tokens allow a stale settlement. Four segments are needed: with
  every segment in use, checkpoint replay has no room for its evidence and recovery
  fails closed, as `docs/zkt-journal-v1.md` says;
- custody: a late append of the first packet meets the second;
- ackwait: an answer to the first message meets the slot armed for the second, and
  a background sender waits behind two others;
- outbox: a stale claim of one version meets the claim of the next;
- schedule: live, forced and history rows compete in one batch, and the rotation goes
  over two connectors while the route fails;
- direct: the second approval replaces the first while its POST may be in transit;
- force: two runs want the same device, a step leaves half of it for the next, and a
  roster in transit meets the approval or is sent again after a reconnect;
- ota: an old campaign's grant, a held download and a second campaign overlap, and one
  plan has a source that never gets ready;
- reconciliation: a job is overtaken by the tail, by a job on a changed source and
  by a re-read, and a third job may start after them; a changed record is lost while
  it is verified.

OTA, direct approvals, force release and reconciliation start from a plan or budget chosen in the
initial state, so that each behaviour spends its failures in one area. Larger
instances were checked as well: OTA with two resets and three owner controls (3.8
million states), with two connectors and a reset (1.1 million), and `OtaInv` itself on a
larger plan (9.7 million), eight other reconciliation plans (up to
451,000), the outbox with three failures (3 million), the journal with six appends
and four failures (10.3 million), acknowledged sends with three messages (23.4
million), direct approvals with three failures and two roster changes (43.9 million,
safety) and with two runs and two failures (1.6 million, with `RunsEnd`), and the
schedule with one connector, batches of 3 and windows of 6 (559,000).

Deadlock is checked in `ackwait`, `schedule` and `custody`. In the other runs the
tickets, jobs, grants or failures are bounded and the instance comes to rest.

## Fairness

- Mailbox: the storage task loops, so `begin` is weakly fair. A file transaction
  has finitely many steps, so a ticket that keeps being started is finished
  (strong fairness per ticket). Callers have deadlines, so replies are taken.
- Journal: the owner retries recovery and completes calls; delivery keeps reading,
  settling and reclaiming; ADD answers. Failures are finitely many.
- Delivery: the storage and delivery tasks are scheduled for ever, the connector
  reconnects, ADD processes what it receives.
- AckWait: each sender's steps are weakly fair. All waits are bounded except the
  one for the mutex, which is promised only to a task that keeps finding it free.
  Nothing is assumed about ADD, the transport or the start of new sends.
- Oracle delivery and schedule: the worker's loops run for ever, every awaited
  request ends by a reply or a timeout, and a batch takes every row that is due, so
  a row that keeps being due is claimed (strong fairness of claims).
- Direct approvals and force release: the worker visits every active run, claims
  what is eligible and finishes what it claimed; commands end or expire.
  Administrators, roster snapshots and automatic releases promise nothing.
- OTA and reconciliation: ADD's sweeps and the device loops run for ever, a device
  that is off comes back, and messages are handled or the stream drops. Resets,
  refusals and changed sources are finitely many.

## Proofs

| Theorem | Statement |
|---|---|
| `StorageMailbox_proof!MailboxConsistentInvariant` | `Spec => []MailboxConsistent` |
| `StorageMailbox_proof!BoundedBypassInvariant` | `Spec => []BoundedBypass` |
| `StorageMailbox_proof!LiveReserveInvariant` | `Spec => []LiveReserve` |
| `StorageMailbox_proof!FileWorkExclusiveAlways` | `Spec => FileWorkExclusive` |
| `JournalStore_proof!NonceNeverReusedInvariant` | `Spec => []NonceNeverReused` |
| `JournalStore_proof!StoreConsistentInvariant` | `Spec => []StoreConsistent` |
| `JournalStore_proof!CheckpointReplacedSafelyAlways` | `Spec => CheckpointReplacedSafely` |
| `JournalStore_proof!JournalImplementsCustody` | `Spec => ImplementsCustody` |
| `JournalStore_proof!PromiseKeptInvariant` | `Spec => []Custody!PromiseKept` |
| `CustodyDelivery_proof!DeliveryConsistentInvariant` | `Spec => []DeliveryConsistent` |
| `CustodyDelivery_proof!CustodyImplemented` | `Spec => ImplementsCustody` |
| `CustodyDelivery_proof!PromiseKeptInvariant` | `Spec => []Custody!PromiseKept` |
| `AckWait_proof!ConfirmedCommittedInvariant` | `Spec => []ConfirmedCommitted` |
| `AckWait_proof!WaiterWokenInvariant` | `Spec => []WaiterWoken` |
| `AckWait_proof!WaitConsistentInvariant` | `Spec => []WaitConsistent` |
| `OutboxDelivery_proof!RowsConsistentInvariant` | `Spec => []RowsConsistent` |
| `OutboxDelivery_proof!JournalConfirmationAlways` | `Spec => JournalConfirmationFinal` |
| `DirectOrds_proof!ApprovalsConsistentInvariant` | `Spec => []ApprovalsConsistent` |
| `ForceRelease_proof!RunsConsistentInvariant` | `Spec => []RunsConsistent` |
| `ForceRelease_proof!DecidedOnFreshReadAlways` | `Spec => DecidedOnFreshRead` |
| `OtaUpdate_proof!ZoneConsistentInvariant` | `Spec => []ZoneConsistent` |
| `OtaUpdate_proof!OutcomeIsRealAlways` | `Spec => OutcomeIsReal` |
| `OtaUpdate_proof!StopsAreOwnAlways` | `Spec => StopsAreOwn` |

They hold for every value of the constants that satisfies the named assumptions
(`MailboxAssumption`, `JournalAssumption`, `DeliveryAssumption`, `AckAssumption`,
`OutboxAssumption`, `DirectAssumption`, `ForceAssumption`, `OtaAssumption`), which only
say that bounds are natural numbers, non-zero where the code has at least one, that slots and senders are finite,
that the reserve leaves a slot, and that 0 or the empty id names nothing. Each theorem
rests on an inductive invariant that TLC checked before it was proved.

- **Mailbox.** `MailboxInv` adds that a slot in use carries a ticket already handed
  out, and that the bypass history is at most the code's own burst counter.
  Without the first, a new ticket could equal an old one and counting would fail.
  `LiveReserve` holds since only `submit` adds background work, and only while
  `occupied` is below the slots less the reserve.
- **Journal.** `NonceNeverReused` speaks only of a ready allocator, and a crash
  forgets RAM. `AllocatorInv` adds that the limit in NVS is above every sequence
  handed out and that an opened state mirrors it. `JournalInv` adds `FlashInv`
  (records lie in headed files in sequence order, and a synced record is
  acknowledged), `CheckpointInv` (a record not yet retired lies above the
  checkpoint, even while the checkpoint is damaged), `OpenInv` (the cursor mirrors the
  checkpoint, the inventory is exact, the writer has the last file, the evidence is on
  flash before the checkpoint is reset) and `KeptInv` (each acknowledged capture is
  received, or synced and not retired). For the refinement, bytes that go leave a
  receipt or another copy behind, and only `append_record` adds an entry.
- **Delivery.** `DeliveryInv` says what a queued append may still become: its entry
  is new, not ahead of the capture task, and its predecessor is logged. Replies are
  true when taken, and settlement is asked for receipted entries only.
- **Custody.** `PromiseKept` is inductive as it stands in AttendanceCustody. Each of the
  two refinements carries it to its module: mapped to the journal, and to capture and
  delivery, what was promised is held or taken at every moment.
- **Acknowledged send.** `SlotInv` ties the slot to the mutex holder: from arming to
  reading, the slot awaits the holder's message or nothing, a match means that
  message is committed, and an emptied slot has a wake given or pending. `WaitInv`
  adds that an id belongs to one sender, so that no later answer replaces the tail's
  own, and that a sender that bypassed the background must enter again.
- **Oracle delivery.** `OutboxInv` says that every claim is backed by a row that is or
  was in flight for it (`ClaimsTrue`), that audits hold what Oracle answered, and that
  rows and posts agree with their frozen payloads. What a claim knows only grows
  (`EvidenceGrows`), so a late claim still tells the truth.
- **Direct approvals.** `DirectInv` says that an approval with a saved intent stays
  the decision (`ItemsInv`), so all posted CNICs are its own; that what a claim read
  of Oracle is still so (`TasksInv`); that what is in transit or stored was posted
  under a saved intent (`OracleInv`); and that one claim runs at a time, an ordinary
  one only under the CNIC that may have been posted (`SoleInv`). The last part speaks of
  punches whose copy in Oracle an approval sent, not of copies of the ordinary lane, and
  it holds until a running claim is taken for stale; see the observations.
- **Force release.** `ForceInv` says what each task may be doing while its run is checked,
  approved or over (`PhaseInv`): an approved run works on a device only while it has
  READY punches there. Without that, a run could end with a device half done.
  `DecidedInv` says that only an approved run waits for Oracle and that the run which
  decided a punch has no other use for it; `FreshInv` that a snapshot which answers the
  command of an approved run was received after the approval: an approval sets the answers
  of its run aside, and only a receipt brings new ones. This survives restarts that lose
  the command, snapshots that arrive late and copies sent again.
- **OTA.** `OtaInv` has two halves. ADD's half (`Sound`) is about its tables: `Zone` (one
  live campaign, one deployment under way, closed campaigns are settled) and `Row` (what a
  deployment's state says of its grants and stops). An ESP's half (`Device`) ties its task
  to its journal (`Task`), ADD's rows to that journal (`Journalled`: a row past its download
  names an ESP at its boot) and the heartbeat on the way to both (`Truthful`: it says
  nothing of an attempt that still runs). ADD's own steps change a row only towards its end
  (`Calm`), or as a heartbeat or report justifies (`Judged`), so they keep every ESP's
  half; a step of one ESP writes only its own rows. The two action properties follow from
  the same case split.

Only model-checked:
- every liveness property, since fairness is outside this prover's reach;
- ClaimSchedule: the order of a batch is a sorted sequence, and what sorting returns
  needs induction over data;
- Reconciliation, whose inductive invariant would have to say what every message on the
  way, every chunk chain and every certificate may still become; it is not worked out.

## Findings and observations

**Finding** (`ota_return`). `ota_manager.c` saves READY_TO_BOOT and then selects the
slot. A reset in between boots the old image, which reports ROLLED_BACK until it is
accepted. ADD holds the deployment as OFFERED or DOWNLOADING, and
`DEPLOYMENT_TRANSITIONS` has no ROLLED_BACK from either, so every report is refused
and the connector does not poll again until the owner cancels. The comment at
`ota_manager.c:927` says that such a reset "conservatively reports rollback".

Observations, none of which is stated as a property:
- DirectOrds: the attempt to prove that a punch is never confirmed as another person's
  failed for a reason. `apply_ords_batch_results` is not fenced, unlike the forced
  lane. When an ordinary claim is taken for stale while it still runs, an approval may
  post the old CNIC, lose its reply and be held, an automatic release may name another
  CNIC, and the old claim then confirms the punch under the new one while Oracle holds
  the old. `automatic_takeover` (`attendance_direct_ords.py:524`) describes this
  outcome and prevents it for new claims only. Three failures are needed; TLC finds no
  such behaviour with two. The property therefore excepts it (`overtaken`).
- DirectOrds: a run can wait for ever on a punch that is acknowledged but was never
  verified for it. It takes two failures, one of which makes a running claim look stale.
  `RunsEnd` states this exception (`Unverified`); every other run ends.
- Reconciliation: a job that verifies a changed record is probed again every 30 seconds
  until a probe is answered; the 15-minute limit is only looked at when an answer comes
  (`reconciliation.py:4881`). When the terminal loses that record meanwhile, the reader
  drops every probe without an answer (`zone_lite.c:5013`) and the job stays RUNNING until
  the stream drops or an operator cancels. `JobEnds` states this exception (`Unprobable`).
- OTA: an image that does not verify is erased and the checkpoint reset to byte 0
  (`ota_manager.c:600`) before the FAILED report is sent, which carries that 0. ADD
  refuses a report with fewer bytes than it has recorded (`ota.py:1533`), so the FAILED
  report that `docs/zone-lite-2.7.7-confirm-first.md:1267` promises is lost whenever
  progress was reported before.
- Reconciliation: `uq_add_terminal_source_ordinal` (`models.py:1527`) lets a job's
  committed rows at or above the active cursor reject the tail's insert until that job
  certifies (`docs/add-owned-reconciliation.md:64`).
- Reconciliation: on a terminal with one punch whose slot is not yet written, the first
  anchor diverges for the rest of that job.
- Reconciliation: a tail that ADD has outrun is refused with
  SOURCE_TAIL_CURSOR_DIVERGED (`reconciliation.py:2965`).
- Reconciliation: `assignment_rows` reads without a lock, so a stale checkpoint can be
  assigned and a chunk read again; when the newest slot changed meanwhile the job is
  held as COMMITTED_RANGE_DIVERGED.

## Not modelled

- Bytes: framing, encryption, CRCs, JSON and digests. Their outcome is modelled.
- Time: delays, backoff and latency. Deadlines may expire at any moment.
- Direct approvals: damaged legacy uids and the quick-release view.
- OTA: the RUNNING_VERSION_MISMATCH branch of acknowledge, storage errors,
  the recovery, factory-trial and 2.7.0 writer paths, hardware-in-the-loop scope tokens,
  failing NVS commits, the 10-second receipt skew and stability warnings. A refused
  assignment lock is a stutter.
- Reconciliation: the lineage of generations, Hikvision sources, corrections, rows owned
  by others, drift of identities beyond held rows, diverging derived keys, job slots
  and preflight, sealed cohorts, HTTP variants, version 1 chunks, alerts, quarantined
  counts, guarded retries, and more than one message of an old stream in flight. One
  job of a terminal is open at a time, so the hold on rows that another open job sealed
  (`open_job_block`) and its refusal of a retry never occur; nor does a probe that settles
  a newest-slot read (`_newest_slot_divergence`), since such a read is settled where a
  chunk is compared with it. A stale slot that is first read after later records, and
  in time order with them, is not shown: nothing in the code could tell it from a record.
- Device commands, file transactions, leases, queue stores and the other parts listed as
  `not_modelled` in `PROJECT.json`. They have stores of their own; the effort went into
  the path of a punch to Oracle, updates and reconciliation.
