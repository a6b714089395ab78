---------------------------- MODULE OtaUpdate ----------------------------
(***************************************************************************)
(* One signed firmware release installed over the air on the ESPs of one   *)
(* zone: ADD's campaigns, deployments and download grants (ota.py,         *)
(* ota_interruption.py, firmware_campaigns.py and the heartbeat half in    *)
(* service.py), and the OTA task of the ESP (ota_manager.c), with resets,  *)
(* lost requests, lost replies and heartbeats that arrive late.            *)
(*                                                                         *)
(* Deployments and campaigns are numbered in creation order, like their    *)
(* rows.  An image is Blocks checkpoints long; an ESP runs "old" or "new". *)
(* Time is the phase of a held download: waiting out its backoff, due, or  *)
(* past its deadline.  A heartbeat remembers whether the ESP built it      *)
(* after the latest download grant, which ADD works out from its uptime.   *)
(***************************************************************************)
EXTENDS Integers, Sequences, FiniteSets, FiniteSetsExt

CONSTANTS
    Connectors,     \* the zone's ESPs, numbered like their rows
    Blocks,         \* checkpoints of the image
    AttemptLimit,   \* DOWNLOAD_ATTEMPT_LIMIT
    GrantLimit,     \* RESUMED_GRANT_LIMIT
    RetryLimit,     \* TARGET_BOOT_RETRY_LIMIT and IMAGE_VERIFY_RETRY_LIMIT
    MaxCampaigns,   \* bound: campaigns created
    MaxDeployments, \* bound: deployments created
    Wrap,           \* boot identifiers are told apart modulo Wrap
    Plans           \* what a behaviour starts with: ESPs in scope, ESPs whose
                    \* source coverage gets certified, faults, owner actions
                    \* and whether downloads resume

ASSUME OtaAssumption ==
    /\ Connectors \subseteq Nat \ {0}
    /\ {Blocks, AttemptLimit, GrantLimit, RetryLimit} \subseteq Nat \ {0}
    /\ {MaxCampaigns, MaxDeployments} \subseteq Nat
    /\ Wrap \in Nat \ {0, 1}
    /\ Plans \subseteq [esps : SUBSET Connectors, covered : SUBSET Connectors, faults : Nat,
                        controls : Nat, resumes : BOOLEAN]

VARIABLES
    add,        \* ADD's tables: release, campaigns, deployments, telemetry
    esp,        \* each ESP: images, journal, task and RAM error
    hb,         \* the heartbeat each ESP has on the way to ADD
    plan,       \* what this behaviour started with
    faults,     \* faults still to happen
    controls,   \* owner actions still to come
    onHold,     \* (history) campaigns the owner paused and has not resumed
    unverified  \* (history) deployments whose written image did not verify

vars == <<add, esp, hb, plan, faults, controls, onHold, unverified>>

Downloading == {"OFFERED", "DOWNLOADING"}
Active == Downloading \cup {"VERIFYING", "READY_TO_BOOT", "BOOTED_PENDING", "RECONCILING"}
Terminal == {"SUCCEEDED", "FAILED", "ROLLED_BACK", "CANCELLED"}
Live == {"ACTIVE", "PAUSED"}
Closed == {"CANCELLED", "COMPLETED"}
NoHeartbeat == [boot |-> 0, ver |-> "old", st |-> "NONE", target |-> FALSE, err |-> "",
                since |-> {}, after |-> FALSE]

-----------------------------------------------------------------------------
(* ADD's rows *)

NoReason == [by |-> "nobody", con |-> 0, st |-> "", code |-> ""]
OwnerReason == [NoReason EXCEPT !.by = "owner"]
RevokedReason == [NoReason EXCEPT !.by = "revoked"]
deployment_pause_reason(c, st, code) == [by |-> "outcome", con |-> c, st |-> st, code |-> code]

(* granted: a download grant was issued since the latest counted stop;
   regrants: grants issued since the first one; booted, healthy: the target
   has reported its boot, and that its runtime is healthy *)
FirmwareDeployment(k, c) ==
    [camp |-> k, con |-> c, st |-> "PENDING", code |-> "", bytes |-> 0, offered |-> FALSE,
     granted |-> FALSE, stops |-> 0, regrants |-> 0, clock |-> "none", closed |-> FALSE,
     booted |-> FALSE, healthy |-> FALSE]

FirmwareCampaign == [status |-> "ACTIVE", reason |-> NoReason, archived |-> FALSE]

Init ==
    /\ plan \in Plans
    /\ add = [release |-> "AVAILABLE", admits |-> TRUE, camps |-> <<>>, deps |-> <<>>,
              telem |-> [c \in Connectors |-> NoHeartbeat]]
    /\ esp = [c \in Connectors |->
                [run |-> "old", valid |-> TRUE, sel |-> "old", pc |-> "start", busy |-> FALSE,
                 jst |-> "IDLE", jdep |-> 0, bytes |-> 0, bad |-> FALSE, err |-> "", errDep |-> 0,
                 ack |-> FALSE, boot |-> 0, since |-> {}]]
    /\ hb = [c \in Connectors |-> NoHeartbeat]
    /\ faults = plan.faults
    /\ controls = plan.controls
    /\ onHold = {}
    /\ unverified = {}

Fault == faults > 0 /\ faults' = faults - 1
Owner == controls > 0 /\ controls' = controls - 1

Of(s, c) == {d \in DOMAIN s.deps : s.deps[d].con = c}
In(s, k) == {d \in DOMAIN s.deps : s.deps[d].camp = k}
Status(s, d) == s.camps[s.deps[d].camp].status

-----------------------------------------------------------------------------
(* ota.py: the checked transitions of a deployment *)

DEPLOYMENT_TRANSITIONS ==
    [PENDING |-> {"OFFERED", "CANCELLED"},
     OFFERED |-> {"OFFERED", "DOWNLOADING", "READY_TO_BOOT", "BOOTED_PENDING", "FAILED", "CANCELLED"},
     DOWNLOADING |-> {"DOWNLOADING", "VERIFYING", "READY_TO_BOOT", "BOOTED_PENDING", "FAILED", "CANCELLED"},
     VERIFYING |-> {"VERIFYING", "READY_TO_BOOT", "BOOTED_PENDING", "FAILED", "CANCELLED"},
     READY_TO_BOOT |-> {"READY_TO_BOOT", "BOOTED_PENDING", "FAILED", "ROLLED_BACK"},
     BOOTED_PENDING |-> {"BOOTED_PENDING", "RECONCILING", "FAILED", "ROLLED_BACK"},
     RECONCILING |-> {"RECONCILING", "SUCCEEDED", "FAILED", "ROLLED_BACK"}]

(* mutant: a recorded RECONCILING is refused when it is reported again *)
AcceptsOnce(s, d, st, bytes, ver) ==
    \/ s.deps[d].st \in Terminal
    \/ /\ s.deps[d].st \in DOMAIN DEPLOYMENT_TRANSITIONS
       /\ st \in DEPLOYMENT_TRANSITIONS[s.deps[d].st]
       /\ ~(st = "RECONCILING" /\ s.deps[d].st = "RECONCILING")
       /\ bytes >= s.deps[d].bytes
       /\ st \in {"READY_TO_BOOT", "BOOTED_PENDING"} => bytes = Blocks
       /\ st \in {"BOOTED_PENDING", "RECONCILING", "SUCCEEDED"} => ver = "new"

(* whether record_progress takes the report; a settled deployment answers
   every report with success and stays as it is *)
Accepts(s, d, st, bytes, ver) ==
    \/ s.deps[d].st \in Terminal
    \/ /\ s.deps[d].st \in DOMAIN DEPLOYMENT_TRANSITIONS
       /\ st \in DEPLOYMENT_TRANSITIONS[s.deps[d].st]
       /\ bytes >= s.deps[d].bytes
       /\ st \in {"READY_TO_BOOT", "BOOTED_PENDING"} => bytes = Blocks
       /\ st \in {"BOOTED_PENDING", "RECONCILING", "SUCCEEDED"} => ver = "new"

(* the reason a failure or a return leaves on its campaign: a cancelled one
   stays cancelled, and a paused one keeps a reason that is not this ESP's own *)
pause_for_deployment_outcome(campaign, c, st, code) ==
    IF \/ campaign.status = "CANCELLED"
       \/ /\ campaign.status = "PAUSED"
          /\ campaign.reason.by # "nobody"
          /\ ~(campaign.reason.by = "outcome" /\ campaign.reason.con = c)
    THEN campaign
    ELSE [campaign EXCEPT !.status = "PAUSED", !.reason = deployment_pause_reason(c, st, code)]

(* each of the campaigns K; campaigns share no row, so the order of a loop
   over several makes no difference, here and in the operators below *)
complete_if_succeeded(s, K) ==
    [s EXCEPT !.camps = [k \in DOMAIN s.camps |->
        IF /\ k \in K
           /\ s.camps[k].status \in Live
           /\ In(s, k) # {}
           /\ \A d \in In(s, k) : s.deps[d].st = "SUCCEEDED"
        THEN [s.camps[k] EXCEPT !.status = "COMPLETED", !.reason = NoReason] ELSE s.camps[k]]]

(* the row a report that is taken leaves *)
ReportedProgress(x, st, code, bytes) ==
    [x EXCEPT !.st = st, !.code = code, !.bytes = Max({@, bytes}),
              !.booted = @ \/ st \in {"BOOTED_PENDING", "RECONCILING"},
              !.healthy = @ \/ code = "RUNTIME_HEALTHY"]

record_progress(s, d, st, code, bytes, ver) ==
    LET k == s.deps[d].camp
        c == s.deps[d].con
        stored == [s EXCEPT !.deps[d] = ReportedProgress(@, st, code, bytes)]
    IN  IF s.deps[d].st \in Terminal \/ ~Accepts(s, d, st, bytes, ver) THEN s
        ELSE IF st \in {"FAILED", "ROLLED_BACK"}
             THEN [stored EXCEPT !.camps[k] = pause_for_deployment_outcome(@, c, st, code)]
             ELSE IF st = "SUCCEEDED" THEN complete_if_succeeded(stored, {k}) ELSE stored

fail_ota_deployment(s, d, code) == record_progress(s, d, "FAILED", code, s.deps[d].bytes, "")

-----------------------------------------------------------------------------
(* ota_interruption.py: a resumable download that stopped *)

awaiting_retry_offer(x) == x.stops > 0 /\ ~x.granted
Held(x) == x.st \in Downloading /\ awaiting_retry_offer(x)
_hold_expired(x) == x.clock = "late" \/ x.closed

_re_offers_spent(x) == x.regrants >= GrantLimit

fail_held_download(s, d, code) == IF Held(s.deps[d]) THEN fail_ota_deployment(s, d, code) ELSE s

(* every held download of the campaigns K, for a control that then writes the
   campaigns' status and reason itself *)
fail_held_downloads(s, K) ==
    [s EXCEPT !.deps = [d \in DOMAIN s.deps |->
        IF s.deps[d].camp \in K /\ Held(s.deps[d])
        THEN [s.deps[d] EXCEPT !.st = "FAILED", !.code = "WITHDRAWN"] ELSE s.deps[d]]]

(* mutant: the heartbeat before this one need not follow the latest grant *)
AnyPredecessor(s, c, h) == s.telem[c].boot = h.boot

(* the heartbeat before this one is of the same boot and was built after the
   latest grant, so the attempt of that grant has ended *)
AttemptEnded(s, c, h) == s.telem[c].boot = h.boot /\ s.telem[c].after

Resumable(s, d, h) ==
    /\ plan.resumes
    /\ h.st = "DOWNLOADING" /\ h.err = "DOWNLOAD_INCOMPLETE" /\ h.ver = "old"
    /\ s.deps[d].st \in Downloading
    /\ Status(s, d) = "ACTIVE"
    /\ s.release = "AVAILABLE"
    /\ s.deps[d].granted \/ s.deps[d].stops > 0

(* the row a counted stop leaves *)
Counted(x) ==
    [x EXCEPT !.stops = @ + 1, !.granted = FALSE, !.clock = "backoff", !.code = "DOWNLOAD_INTERRUPTED"]

(* a sticky download error: wait, count a stop and schedule the re-offer, or
   fail with the reason *)
download_interruption(s, c, d, h) ==
    LET x == s.deps[d]
        counted == [s EXCEPT !.deps[d] = Counted(@)]
    IN  CASE ~x.granted /\ _hold_expired(x) -> fail_ota_deployment(s, d, "DOWNLOAD_RETRY_NOT_TAKEN")
          [] ~x.granted /\ ~_hold_expired(x) -> s
          [] x.granted /\ ~AttemptEnded(s, c, h) -> s
          [] x.granted /\ AttemptEnded(s, c, h) ->
               IF x.stops + 1 >= AttemptLimit \/ (x.stops > 0 /\ x.closed)
               THEN fail_ota_deployment(counted, d, "DOWNLOAD_RETRIES_EXHAUSTED")
               ELSE counted

(* PARTITION_HASH_FAILED can only come from this deployment's own download *)
unverified_image_current(x, h) == x.st # "OFFERED" /\ x.granted /\ h.after

-----------------------------------------------------------------------------
(* zkt_ota_admission.py, ota.py: the assignment an ESP polls for *)

(* the row the first offer leaves, and the one each grant leaves *)
Offered(x) == [x EXCEPT !.st = "OFFERED", !.code = "", !.offered = TRUE]
Granted(x) == [x EXCEPT !.granted = TRUE, !.regrants = @ + (IF x.stops > 0 THEN 1 ELSE 0)]

(* every grant is later than any heartbeat ADD holds or has on the way *)
Grant(s, d, c) == [s EXCEPT !.deps[d] = Granted(@), !.telem[c].after = FALSE]

download_retry_hold(s, d, c) ==
    LET x == s.deps[d]
    IN  CASE _hold_expired(x) -> [s |-> fail_held_download(s, d, "DOWNLOAD_RETRY_NOT_TAKEN"), d |-> 0]
          [] ~_hold_expired(x) /\ x.clock = "backoff" -> [s |-> s, d |-> 0]
          [] ~_hold_expired(x) /\ x.clock # "backoff" ->
               IF _re_offers_spent(x)
               THEN [s |-> fail_held_download(s, d, "DOWNLOAD_RETRIES_EXHAUSTED"), d |-> 0]
               ELSE [s |-> Grant(s, d, c), d |-> d]

resumed_attempt_refusal(x) ==
    plan.resumes /\ x.st \in Downloading /\ x.stops > 0 /\ (_re_offers_spent(x) \/ x.closed)

(* mutant: the poll never looks at what another ESP of the zone is doing *)
NextOwn(s, c) ==
    LET D == {d \in Of(s, c) : Status(s, d) = "ACTIVE" /\ s.deps[d].st \in Active \cup {"PENDING"}}
    IN  IF D = {} THEN 0 ELSE Min(D)

(* the deployment a poll of c is about: the active one of the zone's active
   campaign, else its first pending one, and 0 unless that one is c's own *)
NextDeployment(s, c) ==
    LET of(S) == {d \in DOMAIN s.deps : Status(s, d) = "ACTIVE" /\ s.deps[d].st \in S}
        d == IF of(Active) # {} THEN Min(of(Active))
             ELSE IF of({"PENDING"}) # {} THEN Min(of({"PENDING"})) ELSE 0
    IN  IF d # 0 /\ s.deps[d].con = c THEN d ELSE 0

(* the answer to a poll: what ADD stores and the deployment granted, 0 for 204 *)
assignment_for_connector(s, c) ==
    LET d == NextDeployment(s, c)
        x == s.deps[d]
    IN  IF d = 0 THEN [s |-> s, d |-> 0]
        ELSE IF s.release # "AVAILABLE" \/ ~s.admits
        THEN [s |-> IF x.st = "PENDING" THEN s ELSE fail_held_download(s, d, "WITHDRAWN"), d |-> 0]
        ELSE IF x.st = "PENDING"
        THEN [s |-> Grant([s EXCEPT !.deps[d] = Offered(@)], d, c), d |-> d]
        ELSE IF Held(x) THEN download_retry_hold(s, d, c)
        ELSE IF resumed_attempt_refusal(x)
        THEN [s |-> fail_ota_deployment(s, d, "DOWNLOAD_RETRIES_EXHAUSTED"), d |-> 0]
        ELSE [s |-> Grant(s, d, c), d |-> d]

-----------------------------------------------------------------------------
(* service.py: what a heartbeat and the ESP's own report of a return show *)

(* a return may be labelled an interrupted target boot only while the target
   has confirmed nothing; whether it lived short enough is left open *)
classify_return(x, otherwise) ==
    {otherwise} \cup
    (IF plan.resumes /\ x.st = "BOOTED_PENDING" /\ ~x.healthy THEN {"TARGET_BOOT_INTERRUPTED"} ELSE {})

(* two heartbeats of one boot on the previous firmware, a boot that began
   after the target's digest-checked boot report *)
previous_firmware_return_evidence(s, c, d, h) ==
    /\ s.deps[d].st \in {"BOOTED_PENDING", "RECONCILING"}
    /\ h.ver = "old" /\ h.st # "UPDATING"
    /\ d \in h.since
    /\ s.telem[c].boot = h.boot /\ s.telem[c].ver = "old" /\ s.telem[c].st \notin {"NONE", "UPDATING"}

(* the results a heartbeat of c may have on ADD's rows *)
apply_ota_heartbeat_diagnostics(s, c, h) ==
    LET D == {d \in Of(s, c) : s.deps[d].st \in Active /\ Status(s, d) \in Live}
        d == Max(D)
        x == s.deps[d]
    IN  IF D = {} THEN {s}
        ELSE IF previous_firmware_return_evidence(s, c, d, h)
        THEN {record_progress(s, d, "ROLLED_BACK", code, x.bytes, h.ver) :
                code \in classify_return(x, "PREVIOUS_FIRMWARE_OBSERVED")}
        ELSE IF \/ ~h.target \/ h.st = "UPDATING" \/ h.err = ""
                \/ /\ h.err = "PARTITION_HASH_FAILED" /\ x.st \in Downloading
                   /\ ~unverified_image_current(x, h)
        THEN {s}
        ELSE IF Resumable(s, d, h) THEN {download_interruption(s, c, d, h)}
        ELSE {fail_ota_deployment(s, d, h.err)}

(* the latest heartbeat ADD stored is of the boot that returned *)
device_return_evidence(s, c, d) ==
    s.telem[c].st # "NONE" /\ s.telem[c].ver = "old" /\ d \in s.telem[c].since

device_reported_return_candidate(x, st, code, ver) ==
    /\ st = "ROLLED_BACK" /\ code = "BOOTLOADER_ROLLBACK" /\ ver = "old"
    /\ x.st = "BOOTED_PENDING" /\ plan.resumes

(* web.py: the outcomes a progress report may have, each ADD's rows and
   whether the ESP is answered with success *)
firmware_progress(s, c, d, st, code, bytes, ver) ==
    LET plain == [s |-> record_progress(s, d, st, code, bytes, ver), ok |-> Accepts(s, d, st, bytes, ver)]
    IN  IF ~device_reported_return_candidate(s.deps[d], st, code, ver) THEN {plain}
        ELSE IF device_return_evidence(s, c, d)
        THEN {[s |-> record_progress(s, d, st, label, bytes, ver), ok |-> Accepts(s, d, st, bytes, ver)] :
                label \in classify_return(s.deps[d], code)}
        ELSE {plain, [s |-> s, ok |-> FALSE]}

-----------------------------------------------------------------------------
(* ota_manager.c: the ESP's OTA task *)

(* a report of ESP e: answered, refused, or lost on either way *)
report_state(c, e, st, code, ok) ==
    LET R == firmware_progress(add, c, e.jdep, st, code, e.bytes, e.run)
    IN  \/ \E r \in R : add' = r.s /\ ok = r.ok /\ UNCHANGED faults
        \/ Fault /\ ~ok /\ \E r \in R \cup {[s |-> add, ok |-> FALSE]} : add' = r.s

clear_journal(e) == [e EXCEPT !.jst = "IDLE", !.jdep = 0, !.bytes = 0]
Stopped(e, err) == [e EXCEPT !.pc = "poll", !.busy = FALSE, !.err = err, !.errDep = e.jdep]

(* the bootloader: an image that was not confirmed loses to the old one, and
   otherwise the selected image starts; RAM is lost *)
Rebooted(c, e) ==
    LET image == IF e.run = "new" /\ ~e.valid THEN "old" ELSE e.sel
    IN  [e EXCEPT !.run = image, !.sel = image, !.valid = image = "old" \/ (e.run = "new" /\ e.valid),
                  !.pc = "start", !.busy = FALSE, !.err = "", !.errDep = 0, !.ack = FALSE,
                  !.boot = (@ + 1) % Wrap,
                  !.since = {d \in Of(add, c) : add.deps[d].booted}]

Become(c, e) == esp' = [esp EXCEPT ![c] = e]
DeviceOnly == UNCHANGED <<hb, plan, controls, onHold, unverified>>

(* the first turn after a boot with nothing to confirm, or a target still to
   be confirmed *)
ota_task(c) ==
    LET e == esp[c]
    IN  /\ e.pc = "start"
        /\ e.jst # "READY_TO_BOOT" \/ (e.run = "new" /\ ~e.valid)
        /\ Become(c, [e EXCEPT !.pc = IF e.jst = "READY_TO_BOOT" THEN "confirm" ELSE "poll"])
        /\ UNCHANGED <<add, faults>> /\ DeviceOnly

(* READY_TO_BOOT on the old image: the return is reported until it is taken *)
report_rollback(c) ==
    LET e == esp[c]
    IN  /\ e.pc = "start" /\ e.jst = "READY_TO_BOOT" /\ e.run = "old"
        /\ \E ok \in BOOLEAN :
             /\ report_state(c, e, "ROLLED_BACK", "BOOTLOADER_ROLLBACK", ok)
             /\ Become(c, IF ok THEN [clear_journal(e) EXCEPT !.pc = "poll"] ELSE e)
        /\ DeviceOnly

(* an image already marked valid goes straight to RECONCILING *)
resume_reconciling(c) ==
    LET e == [esp[c] EXCEPT !.jst = "RECONCILING", !.pc = "poll"]
    IN  /\ \/ esp[c].pc = "marked"
           \/ esp[c].pc = "start" /\ esp[c].jst = "READY_TO_BOOT" /\ esp[c].run = "new" /\ esp[c].valid
        /\ \E ok \in BOOLEAN : report_state(c, e, "RECONCILING", "", ok)
        /\ Become(c, e)
        /\ DeviceOnly

(* the new image waits for its own health and for ADD's answer *)
report_booted(c) ==
    LET e == esp[c]
    IN  /\ e.pc = "confirm" /\ ~e.ack
        /\ \E ok \in BOOLEAN : /\ report_state(c, e, "BOOTED_PENDING", "WAITING_FOR_RUNTIME_HEALTH", ok)
                               /\ Become(c, [e EXCEPT !.ack = ok])
        /\ DeviceOnly

(* mutant: the image is never marked valid *)
confirm_unmarked(c) ==
    LET e == esp[c]
    IN  /\ e.pc = "confirm" /\ e.ack
        /\ \E ok \in BOOLEAN :
             /\ report_state(c, e, "BOOTED_PENDING", "RUNTIME_HEALTHY", ok)
             /\ Become(c, IF ok THEN [e EXCEPT !.pc = "marked"] ELSE e)
        /\ DeviceOnly

confirm_boot(c) ==
    LET e == esp[c]
    IN  /\ e.pc = "confirm" /\ e.ack
        /\ \E ok \in BOOLEAN :
             /\ report_state(c, e, "BOOTED_PENDING", "RUNTIME_HEALTHY", ok)
             /\ Become(c, IF ok THEN [e EXCEPT !.valid = TRUE, !.pc = "marked"] ELSE e)
        /\ DeviceOnly

(* the confirmation budget ends, or the image cannot be marked valid *)
confirm_expired(c) ==
    LET e == esp[c]
    IN  /\ e.pc = "confirm" /\ Fault
        /\ add' \in {add, record_progress(add, e.jdep, "FAILED", "BOOT_HEALTH_TIMEOUT", e.bytes, e.run)}
        /\ Become(c, Rebooted(c, e))
        /\ DeviceOnly

(* the terminal is healthy and ADD's certified cursor has reached its count;
   an ESP that is not covered stays short of it for good *)
add_connector_ota_reconcile_ready(c) == c \in plan.covered

(* RECONCILING is repeated once the source is ready, then SUCCEEDED; only an
   answer clears the journal *)
acknowledge_pending_success(c) ==
    LET e == esp[c]
    IN  /\ e.jst = "RECONCILING"
        /\ \/ /\ e.pc = "poll" /\ add_connector_ota_reconcile_ready(c)
              /\ \E ok \in BOOLEAN : /\ report_state(c, e, "RECONCILING", "", ok)
                                     /\ Become(c, IF ok THEN [e EXCEPT !.pc = "ack"] ELSE e)
           \/ /\ e.pc = "ack"
              /\ \E ok \in BOOLEAN : /\ report_state(c, e, "SUCCEEDED", "", ok)
                                     /\ Become(c, [(IF ok THEN clear_journal(e) ELSE e) EXCEPT !.pc = "poll"])
        /\ DeviceOnly

(* the same deployment resumes at its checkpoint, or one short of the end *)
Assigned(e, d) ==
    LET resume == IF e.jst = "DOWNLOADING" /\ e.jdep = d THEN Min({e.bytes, Blocks - 1}) ELSE 0
    IN  IF e.run = "new" THEN [e EXCEPT !.err = "OTA_ASSIGNMENT_ALREADY_RUNNING", !.errDep = d]
        ELSE [e EXCEPT !.jst = "DOWNLOADING", !.jdep = d, !.bytes = resume,
                       !.bad = @ /\ resume > 0, !.pc = "download", !.busy = TRUE]

(* one poll; a grant that reaches the ESP starts the download, and a poll that
   finds the assignment lock or a row lock taken changes nothing.  The request
   ends before the next heartbeat is due, so it is one step with its answer *)
fetch_assignment(c) ==
    LET r == assignment_for_connector(add, c)
    IN  /\ esp[c].pc = "poll" /\ esp[c].jst # "RECONCILING" /\ c \in plan.esps
        /\ add' = r.s
        /\ hb' = IF r.d = 0 THEN hb ELSE [hb EXCEPT ![c].after = FALSE]
        /\ \/ r.d # 0 /\ Become(c, Assigned(esp[c], r.d)) /\ UNCHANGED faults
           \/ r.d # 0 /\ Fault /\ UNCHANGED esp
           \/ r.d = 0 /\ add' # add /\ UNCHANGED <<esp, faults>>
        /\ UNCHANGED <<plan, controls, onHold, unverified>>

(* resolve_download: the grant serves only a deployment still under way *)
Serves(d) == add.deps[d].st \notin Terminal /\ add.release = "AVAILABLE"

(* one checkpoint: written, saved and reported; the flash may take it badly *)
download_block(c) ==
    \E spoilt \in BOOLEAN :
      LET e == [esp[c] EXCEPT !.bytes = @ + 1, !.bad = @ \/ spoilt]
      IN  /\ esp[c].pc = "download" /\ esp[c].bytes < Blocks /\ Serves(esp[c].jdep)
          /\ IF spoilt
             THEN Fault /\ add' = record_progress(add, e.jdep, "DOWNLOADING", "", e.bytes, e.run)
             ELSE \E ok \in BOOLEAN : report_state(c, e, "DOWNLOADING", "", ok)
          /\ Become(c, e)
          /\ DeviceOnly

(* the transfer breaks off, or ADD no longer serves the grant *)
download_stops(c) ==
    /\ esp[c].pc = "download" /\ esp[c].bytes < Blocks
    /\ IF Serves(esp[c].jdep) THEN Fault ELSE UNCHANGED faults
    /\ Become(c, Stopped(esp[c], "DOWNLOAD_INCOMPLETE"))
    /\ UNCHANGED add /\ DeviceOnly

(* the image is refused before or after the transfer, and ADD is told *)
download_refused(c) ==
    /\ esp[c].pc = "download" /\ Fault
    /\ add' \in {add, record_progress(add, esp[c].jdep, "FAILED", "IMAGE_REFUSED", esp[c].bytes, esp[c].run)}
    /\ Become(c, Stopped(esp[c], "IMAGE_REFUSED"))
    /\ DeviceOnly

WrittenImageVerifies(e) == ~e.bad

(* timing: a whole download takes longer than a heartbeat is delayed, so none
   built before the grant is still on its way when the download ends *)
HeartbeatsSettled(c) == hb[c].st = "NONE" \/ hb[c].after

(* the written slot is checked against the signed digest; the boot-recovery
   journal is durable before the slot can be selected *)
perform_update(c) ==
    LET e == esp[c]
        erased == [Stopped(e, "PARTITION_HASH_FAILED") EXCEPT !.bytes = 0, !.bad = FALSE]
    IN  /\ e.pc = "download" /\ e.bytes = Blocks /\ HeartbeatsSettled(c)
        /\ IF WrittenImageVerifies(e)
           THEN Become(c, [e EXCEPT !.jst = "READY_TO_BOOT", !.pc = "ready"]) /\ UNCHANGED <<add, faults>>
           ELSE /\ \E ok \in BOOLEAN : report_state(c, erased, "FAILED", "PARTITION_HASH_FAILED", ok)
                /\ Become(c, erased)
        /\ unverified' = unverified \cup (IF WrittenImageVerifies(e) THEN {} ELSE {e.jdep})
        /\ UNCHANGED <<hb, plan, controls, onHold>>

esp_https_ota_finish(c) ==
    LET e == esp[c]
    IN  /\ e.pc = "ready"
        /\ \/ Become(c, [e EXCEPT !.sel = "new", !.pc = "selected"]) /\ UNCHANGED faults
           \/ Fault /\ Become(c, Stopped(e, "DOWNLOAD_OR_SIGNATURE_FAILED"))
        /\ UNCHANGED add /\ DeviceOnly

report_ready_and_restart(c) ==
    LET e == esp[c]
    IN  /\ e.pc = "selected"
        /\ \E ok \in BOOLEAN : report_state(c, e, "READY_TO_BOOT", "", ok)
        /\ Become(c, Rebooted(c, e))
        /\ DeviceOnly

(* power loss, panic or watchdog at any step: the ESP starts again, or it is
   gone for good *)
Reset(c) ==
    /\ c \in plan.esps /\ esp[c].pc # "off" /\ Fault
    /\ Become(c, Rebooted(c, esp[c])) \/ Become(c, [esp[c] EXCEPT !.pc = "off", !.busy = FALSE])
    /\ UNCHANGED add /\ DeviceOnly

(* ota_manager_append_telemetry: busy hides the journal's state *)
append_telemetry(c) ==
    LET e == esp[c]
    IN  /\ c \in plan.esps /\ e.pc # "off" /\ hb[c].st = "NONE"
        /\ hb' = [hb EXCEPT ![c] = [boot |-> e.boot, ver |-> e.run,
                    st |-> IF e.busy THEN "UPDATING" ELSE e.jst, target |-> e.jdep # 0,
                    err |-> e.err, since |-> e.since, after |-> TRUE]]
        /\ UNCHANGED <<add, esp, plan, faults, controls, onHold, unverified>>

(* the heartbeat is judged against the telemetry before it, then stored *)
process_heartbeat(c) ==
    /\ hb[c].st # "NONE"
    /\ \E s \in apply_ota_heartbeat_diagnostics(add, c, hb[c]) :
         add' = [s EXCEPT !.telem[c] = hb[c]]
    /\ hb' = [hb EXCEPT ![c] = NoHeartbeat]
    /\ UNCHANGED <<esp, plan, faults, controls, onHold, unverified>>

LoseHeartbeat(c) ==
    /\ hb[c].st # "NONE" /\ Fault
    /\ hb' = [hb EXCEPT ![c] = NoHeartbeat]
    /\ UNCHANGED <<add, esp, plan, controls, onHold, unverified>>

-----------------------------------------------------------------------------
(* time and maintenance *)

(* a held download's backoff ends, then its deadline passes *)
HoldAges(d) ==
    /\ Held(add.deps[d]) /\ add.deps[d].clock # "late"
    /\ add' = [add EXCEPT !.deps[d].clock = IF @ = "backoff" THEN "due" ELSE "late"]
    /\ UNCHANGED <<esp, hb, plan, faults, controls, onHold, unverified>>

(* DOWNLOAD_RESUME_WINDOW_SECONDS after the first stop *)
WindowCloses(d) ==
    /\ add.deps[d].st \in Downloading /\ add.deps[d].stops > 0 /\ ~add.deps[d].closed
    /\ add' = [add EXCEPT !.deps[d].closed = TRUE]
    /\ UNCHANGED <<esp, hb, plan, faults, controls, onHold, unverified>>

(* mutant: the sweep leaves a hold to the ESP's next poll *)
SweepNothing(x) == FALSE

SweepDue(x) == _hold_expired(x)

expire_held_downloads(d) ==
    /\ Held(add.deps[d])
    /\ Status(add, d) # "ACTIVE" \/ SweepDue(add.deps[d])
    /\ add' = fail_held_download(add, d, IF Status(add, d) # "ACTIVE" THEN "WITHDRAWN" ELSE "DOWNLOAD_RETRY_NOT_TAKEN")
    /\ UNCHANGED <<esp, hb, plan, faults, controls, onHold, unverified>>

-----------------------------------------------------------------------------
(* the owner *)

CAMPAIGN_CONTROL_SOURCES == [pause |-> {"ACTIVE"}, resume |-> {"PAUSED"}, cancel |-> {"ACTIVE", "PAUSED"}]
CAMPAIGN_CONTROL_STATES == [pause |-> "PAUSED", resume |-> "ACTIVE", cancel |-> "CANCELLED"]

control_campaign(s, K, action) ==
    LET failed == IF action = "resume" THEN s ELSE fail_held_downloads(s, K)
        set == [failed EXCEPT !.camps = [k \in DOMAIN s.camps |->
                  IF k \in K THEN [s.camps[k] EXCEPT !.status = CAMPAIGN_CONTROL_STATES[action],
                                     !.reason = IF action = "resume" THEN NoReason ELSE OwnerReason]
                  ELSE s.camps[k]]]
    IN  IF action # "cancel" THEN set
        ELSE [set EXCEPT !.deps = [d \in DOMAIN set.deps |->
                IF set.deps[d].camp \in K /\ set.deps[d].st \in Downloading \cup {"PENDING"}
                THEN [set.deps[d] EXCEPT !.st = "CANCELLED"] ELSE set.deps[d]]]

Control(k, action) ==
    /\ Owner
    /\ add.camps[k].status \in CAMPAIGN_CONTROL_SOURCES[action]
    /\ action = "resume" =>
         /\ add.release = "AVAILABLE"
         /\ \A j \in DOMAIN add.camps : j # k => add.camps[j].status \notin Live
    /\ add' = control_campaign(add, {k}, action)
    /\ onHold' = IF action = "pause" THEN onHold \cup {k} ELSE onHold \ {k}
    /\ UNCHANGED <<esp, hb, plan, faults, unverified>>

(* the live campaigns K are completed where every deployment succeeded, and
   cancelled otherwise *)
_free_zone(s, K) ==
    LET done == complete_if_succeeded(s, K)
    IN  control_campaign(done, {k \in K : done.camps[k].status \in Live}, "cancel")

LiveCampaigns(s) == {k \in DOMAIN s.camps : s.camps[k].status \in Live}

(* the eligible ESPs, in scope and running the old image as far as ADD has
   been told, listed in the order of their names *)
_campaign_scope(s) ==
    LET eligible == {c \in plan.esps : s.telem[c].ver = "old"}
    IN  {row \in UNION {[1..n -> eligible] : n \in 1..MaxDeployments} :
           /\ \A i, j \in DOMAIN row : i < j => row[i] < row[j]
           /\ \A c \in eligible : \E i \in DOMAIN row : row[i] = c}

(* one deployment for each of them *)
create_campaign(s, eligible) ==
    LET k == Len(s.camps) + 1
    IN  [s EXCEPT !.camps = Append(@, FirmwareCampaign),
                  !.deps = @ \o [n \in DOMAIN eligible |-> FirmwareDeployment(k, eligible[n])]]

(* the zone's finished live campaign is closed first; a running one refuses *)
CreateCampaign ==
    /\ Owner
    /\ Len(add.camps) < MaxCampaigns
    /\ add.release = "AVAILABLE"
    /\ \A k \in LiveCampaigns(add) : \A d \in In(add, k) : add.deps[d].st \in Terminal
    /\ Len(add.deps) + Cardinality(plan.esps) <= MaxDeployments
    /\ \E eligible \in _campaign_scope(add) :
         add' = create_campaign(_free_zone(add, LiveCampaigns(add)), eligible)
    /\ onHold' = onHold \ LiveCampaigns(add)
    /\ UNCHANGED <<esp, hb, plan, faults, unverified>>

retry_kind(x) ==
    \/ x.st = "ROLLED_BACK" /\ x.code = "TARGET_BOOT_INTERRUPTED"
    \/ x.st = "FAILED" /\ x.code = "PARTITION_HASH_FAILED"

_retry_count(s, x) ==
    Cardinality({d \in Of(s, x.con) : s.deps[d].st = x.st /\ s.deps[d].code = x.code})

(* whether the owner's one-click retry of deployment d is taken *)
retry_allowed(s, d) ==
    LET x == s.deps[d]
        k == x.camp
    IN  /\ retry_kind(x)
        /\ s.camps[k].status = "PAUSED"
        /\ s.release = "AVAILABLE"
        /\ \A e \in In(s, k) : ~(e > d /\ s.deps[e].con = x.con)
        /\ \A e \in In(s, k) : s.deps[e].st \notin Active
        /\ _retry_count(s, x) < RetryLimit
        /\ s.camps[k].reason = deployment_pause_reason(x.con, x.st, x.code)
        /\ s.telem[x.con].ver = "old"

retry_interrupted_target(d) ==
    LET k == add.deps[d].camp
    IN  /\ Owner
        /\ retry_allowed(add, d)
        /\ Len(add.deps) < MaxDeployments
        /\ add' = [add EXCEPT !.deps = Append(@, FirmwareDeployment(k, add.deps[d].con)),
                              !.camps[k].status = "ACTIVE", !.camps[k].reason = NoReason]
        /\ UNCHANGED <<esp, hb, plan, faults, onHold, unverified>>

revoke_firmware_release ==
    LET s == fail_held_downloads(add, LiveCampaigns(add))
    IN  /\ Owner
        /\ add.release # "REVOKED"
        /\ add' = [s EXCEPT !.release = "REVOKED", !.camps = [k \in DOMAIN s.camps |->
                     IF s.camps[k].status \in Live
                     THEN [s.camps[k] EXCEPT !.status = "PAUSED", !.reason = RevokedReason] ELSE s.camps[k]]]
        /\ UNCHANGED <<esp, hb, plan, faults, onHold, unverified>>

(* an admission check ADD cannot decide here changes its answer *)
AdmissionChanges ==
    /\ Owner
    /\ add' = [add EXCEPT !.admits = ~@]
    /\ UNCHANGED <<esp, hb, plan, faults, onHold, unverified>>

(* a campaign nothing was ever offered from, all of whose ESPs have no other
   history: deleting it changes no later check *)
_deletable(s, C) ==
    LET never == {k \in C : \A d \in In(s, k) : ~s.deps[d].offered /\ s.deps[d].st \in {"PENDING", "CANCELLED"}}
        history(c) == {s.deps[d].camp : d \in {e \in Of(s, c) : s.deps[e].st # "DELETED"}}
        whole(K) == \A k \in K : \A d \in In(s, k) : history(s.deps[d].con) \subseteq K
    IN  UNION {K \in SUBSET never : whole(K)}

(* kept: live campaigns with an install reported in the last hours *)
clear_history ==
    \E kept \in SUBSET {k \in LiveCampaigns(add) : \E d \in In(add, k) : add.deps[d].st \in Active \ Downloading} :
      LET s == _free_zone(add, LiveCampaigns(add) \ kept)
          closed == {k \in DOMAIN s.camps : s.camps[k].status \in Closed /\ ~s.camps[k].archived}
          gone == _deletable(s, closed)
      IN  /\ Owner
          /\ add' = [s EXCEPT
                !.camps = [k \in DOMAIN s.camps |->
                   IF k \in gone THEN [s.camps[k] EXCEPT !.status = "DELETED", !.reason = NoReason]
                   ELSE [s.camps[k] EXCEPT !.archived = @ \/ k \in closed]],
                !.deps = [d \in DOMAIN s.deps |->
                   IF s.deps[d].camp \in gone THEN [s.deps[d] EXCEPT !.st = "DELETED"] ELSE s.deps[d]]]
          /\ onHold' = onHold \ {k \in DOMAIN s.camps : s.camps[k].status \notin Live}
          /\ UNCHANGED <<esp, hb, plan, faults, unverified>>

archive_campaign(k) ==
    /\ Owner
    /\ add.camps[k].status \in Closed /\ ~add.camps[k].archived
    /\ add' = [add EXCEPT !.camps[k].archived = TRUE]
    /\ UNCHANGED <<esp, hb, plan, faults, onHold, unverified>>

-----------------------------------------------------------------------------
DeviceStep(c) ==
    \/ ota_task(c) \/ report_rollback(c) \/ resume_reconciling(c)
    \/ report_booted(c) \/ confirm_boot(c) \/ confirm_expired(c)
    \/ acknowledge_pending_success(c) \/ fetch_assignment(c)
    \/ download_block(c) \/ download_stops(c) \/ download_refused(c)
    \/ perform_update(c) \/ esp_https_ota_finish(c) \/ report_ready_and_restart(c)

Maintenance == \E d \in DOMAIN add.deps : HoldAges(d) \/ expire_held_downloads(d)

OwnerStep ==
    \/ \E k \in DOMAIN add.camps :
         archive_campaign(k) \/ \E action \in DOMAIN CAMPAIGN_CONTROL_STATES : Control(k, action)
    \/ \E d \in DOMAIN add.deps : retry_interrupted_target(d)
    \/ CreateCampaign \/ revoke_firmware_release \/ AdmissionChanges \/ clear_history

Next ==
    \/ \E c \in Connectors :
         DeviceStep(c) \/ Reset(c) \/ append_telemetry(c) \/ process_heartbeat(c) \/ LoseHeartbeat(c)
    \/ Maintenance
    \/ \E d \in DOMAIN add.deps : WindowCloses(d)
    \/ OwnerStep

Spec == Init /\ [][Next]_vars

(* the OTA task loops for ever, heartbeats are periodic, and the worker's
   sweep and time go on; nothing is owed by the owner or by faults *)
FairSpec ==
    /\ Spec
    /\ \A c \in Connectors : /\ WF_vars(DeviceStep(c))
                              /\ WF_vars(append_telemetry(c))
                              /\ WF_vars(process_heartbeat(c))
    /\ WF_vars(Maintenance)

-----------------------------------------------------------------------------
(* ADD records SUCCEEDED only for an ESP that runs the new image, confirmed,
   and ROLLED_BACK only for one that is back on the old image: no late
   heartbeat, repeated report or reset makes the record wrong. *)
OutcomeIsReal ==
    [][\A d \in DOMAIN add.deps :
         LET e == esp[add.deps[d].con]
         IN  add'.deps[d].st # add.deps[d].st =>
               /\ add'.deps[d].st = "SUCCEEDED" => e.run = "new" /\ e.valid
               /\ add'.deps[d].st = "ROLLED_BACK" => e.run = "old"]_vars

(* An interrupted download is counted only when the ESP is not working on
   that deployment: a heartbeat of an earlier attempt never uses up one of
   the attempts of the running one. *)
StopsAreOwn ==
    [][\A d \in DOMAIN add.deps :
         add'.deps[d].stops > add.deps[d].stops =>
           ~(esp[add.deps[d].con].busy /\ esp[add.deps[d].con].jdep = d)]_vars

(* The zone stays in order: one live campaign and one deployment under way
   in it; a campaign the owner paused runs again only by the owner; a
   resumed download is granted at most GrantLimit times; a journal never
   names a deleted deployment; a deployment failed for an unverified image
   is one whose image did not verify; and a slot is selected only with
   the boot-recovery journal saved and an image that verified. *)
ZoneConsistent ==
    /\ \A j, k \in LiveCampaigns(add) : j = k
    /\ \A k \in DOMAIN add.camps :
         /\ add.camps[k].status = "ACTIVE" =>
              /\ k \notin onHold
              /\ \A d, n \in In(add, k) : add.deps[d].st \in Active /\ add.deps[n].st \in Active => d = n
         /\ add.camps[k].status = "COMPLETED" => \A d \in In(add, k) : add.deps[d].st = "SUCCEEDED"
    /\ \A d \in DOMAIN add.deps :
         /\ add.deps[d].regrants <= GrantLimit /\ add.deps[d].stops <= AttemptLimit
         /\ add.deps[d].code = "PARTITION_HASH_FAILED" => d \in unverified
    /\ \A c \in Connectors :
         LET e == esp[c]
         IN  /\ e.jdep # 0 => add.deps[e.jdep].st # "DELETED"
             /\ e.run = "old" /\ e.sel = "new" => e.jst = "READY_TO_BOOT" /\ ~e.bad

(* A download held for a re-offer does not stay held: it is granted again,
   or the sweep fails it, even when the ESP is gone. *)
HeldEnds ==
    \A d \in 1..MaxDeployments :
      (d \in DOMAIN add.deps /\ Held(add.deps[d])) ~> (d \in DOMAIN add.deps /\ ~Held(add.deps[d]))

(* An ESP whose new image is confirmed and whose source gets ready
   (add_connector_ota_reconcile_ready) is eventually told that ADD has
   recorded it, and clears its journal, unless it is gone.  Without ready
   source it stays in RECONCILING. *)
InstallAcknowledged == \A c \in Connectors :
      (esp[c].jst = "RECONCILING" /\ add_connector_ota_reconcile_ready(c))
        ~> (esp[c].jst = "IDLE" \/ esp[c].pc = "off")

(* "A reset before finish conservatively reports rollback from the old
   image": the ESP that returned with a READY_TO_BOOT journal gets its
   return recorded and clears the journal. *)
ReturnRecorded ==
    \A c \in Connectors :
      (esp[c].run = "old" /\ esp[c].jst = "READY_TO_BOOT" /\ esp[c].pc = "start") ~>
      (esp[c].jst # "READY_TO_BOOT" \/ esp[c].pc = "off")

=============================================================================
