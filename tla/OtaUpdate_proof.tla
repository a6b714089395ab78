-------------------------- MODULE OtaUpdate_proof --------------------------
(***************************************************************************)
(* What OtaUpdate guarantees for every zone, image, limit and plan: the    *)
(* zone stays in order, ADD's record of an outcome is real, and a stop is  *)
(* counted only against an attempt that has ended.  The inductive          *)
(* invariant OtaInv ties ADD's rows to each ESP's journal and to the       *)
(* heartbeat on the way between them.                                      *)
(*                                                                         *)
(* The argument is in two halves.  ADD's half (Sound) is preserved by      *)
(* every operator on ADD's tables.  An ESP's half (Device) looks at ADD's  *)
(* rows only through their states, so it survives whatever ADD does to     *)
(* quiet them down, and the steps of another ESP.                          *)
(***************************************************************************)
EXTENDS OtaUpdate, TLAPS

(* Most leaves are first-order and go to Zenon; the ones with arithmetic,   *)
(* sequences or many updates name SMT.                                      *)
USE Zenon

Late == Active \ Downloading

(* an ESP's sticky error, and what a deployment's code may be *)
Errors == {"", "DOWNLOAD_INCOMPLETE", "IMAGE_REFUSED", "PARTITION_HASH_FAILED",
           "DOWNLOAD_OR_SIGNATURE_FAILED", "OTA_ASSIGNMENT_ALREADY_RUNNING"}
Codes == Errors \cup
    {"WAITING_FOR_RUNTIME_HEALTH", "RUNTIME_HEALTHY", "BOOTLOADER_ROLLBACK", "BOOT_HEALTH_TIMEOUT",
     "DOWNLOAD_INTERRUPTED", "DOWNLOAD_RETRY_NOT_TAKEN", "DOWNLOAD_RETRIES_EXHAUSTED", "WITHDRAWN",
     "PREVIOUS_FIRMWARE_OBSERVED", "TARGET_BOOT_INTERRUPTED"}

DepStates == Active \cup Terminal \cup {"PENDING", "DELETED"}
JournalStates == {"IDLE", "DOWNLOADING", "READY_TO_BOOT", "RECONCILING"}
Images == {"old", "new"}

Reasons == [by : {"nobody", "owner", "revoked", "outcome"}, con : Nat, st : DepStates \cup {""}, code : Codes]
CampRecords == [status : Live \cup Closed \cup {"DELETED"}, reason : Reasons, archived : BOOLEAN]
DepRecords ==
    [camp : Nat, con : Connectors, st : DepStates, code : Codes, bytes : Nat, offered : BOOLEAN,
     granted : BOOLEAN, stops : Nat, regrants : Nat, clock : {"none", "backoff", "due", "late"},
     closed : BOOLEAN, booted : BOOLEAN, healthy : BOOLEAN]
HbRecords ==
    [boot : Nat, ver : Images, st : JournalStates \cup {"NONE", "UPDATING"}, target : BOOLEAN,
     err : Errors, since : SUBSET Nat, after : BOOLEAN]
AddRecords ==
    [release : {"AVAILABLE", "REVOKED"}, admits : BOOLEAN, camps : Seq(CampRecords),
     deps : Seq(DepRecords), telem : [Connectors -> HbRecords]]
EspRecords ==
    [run : Images, valid : BOOLEAN, sel : Images,
     pc : {"start", "confirm", "marked", "poll", "ack", "download", "ready", "selected", "off"},
     busy : BOOLEAN, jst : JournalStates, jdep : Nat, bytes : Nat, bad : BOOLEAN, err : Errors,
     errDep : Nat, ack : BOOLEAN, boot : Nat, since : SUBSET Nat]

(* The zone: one live campaign, in which at most one deployment is under    *)
(* way; a closed campaign has no deployment still to download, a completed  *)
(* one only successes, a deleted one only deleted rows; and what the owner  *)
(* paused is not active and keeps a reason no retry may clear.              *)
Zone(s, hold) ==
    /\ \A j, k \in DOMAIN s.camps : s.camps[j].status \in Live /\ s.camps[k].status \in Live => j = k
    /\ \A d \in DOMAIN s.deps :
         /\ s.deps[d].camp \in DOMAIN s.camps
         /\ s.deps[d].st \in Downloading \cup {"PENDING"} => Status(s, d) \in Live
         /\ Status(s, d) = "COMPLETED" => s.deps[d].st = "SUCCEEDED"
         /\ Status(s, d) = "DELETED" => s.deps[d].st = "DELETED"
    /\ \A d, e \in DOMAIN s.deps :
         s.deps[d].camp = s.deps[e].camp /\ s.deps[d].st \in Active /\ s.deps[e].st \in Active => d = e
    /\ \A k \in hold :
         /\ k \in DOMAIN s.camps
         /\ s.camps[k].status # "ACTIVE"
         /\ s.camps[k].status = "PAUSED" => s.camps[k].reason.by \in {"owner", "revoked"}

(* One row: the limits, where a code comes from, and what its history says  *)
(* of its state.                                                            *)
Kept(x, d, resumes, u) ==
    /\ x.regrants <= GrantLimit /\ x.stops <= AttemptLimit
    /\ x.st = "PENDING" => x.stops = 0
    /\ x.stops > 0 => resumes
    /\ x.code = "PARTITION_HASH_FAILED" => d \in u
    /\ x.st \in Active \cup {"SUCCEEDED", "FAILED", "ROLLED_BACK"} => x.offered
    /\ x.offered => x.st # "DELETED"
    /\ x.booted => x.st \in {"BOOTED_PENDING", "RECONCILING", "SUCCEEDED", "FAILED", "ROLLED_BACK"}

Row(x, d, resumes, u) ==
    /\ Kept(x, d, resumes, u)
    /\ x.st \in Downloading => x.stops < AttemptLimit

(* ADD's half of the invariant. *)
Sound(s, resumes, hold, u) ==
    /\ s \in AddRecords
    /\ Zone(s, hold)
    /\ \A d \in DOMAIN s.deps : Row(s.deps[d], d, resumes, u)

(* The ESP's task and its journal agree at every program counter. *)
Task(e) ==
    /\ e.busy <=> e.pc \in {"download", "ready", "selected"}
    /\ e.pc = "start" => e.err = ""
    /\ e.pc = "confirm" => e.jst = "READY_TO_BOOT" /\ e.run = "new" /\ ~e.valid
    /\ e.pc = "marked" => e.jst = "READY_TO_BOOT" /\ e.run = "new" /\ e.valid
    /\ e.pc = "ack" => e.jst = "RECONCILING"
    /\ e.pc = "download" => e.jst = "DOWNLOADING"
    /\ e.pc \in {"download", "ready", "selected"} => e.run = "old"
    /\ e.pc \in {"ready", "selected"} => e.jst = "READY_TO_BOOT" /\ ~e.bad
    /\ e.pc \notin {"selected", "off"} => e.sel = e.run
    /\ e.run = "new" => e.sel = "new"
    /\ e.run = "old" /\ e.sel = "new" => e.jst = "READY_TO_BOOT" /\ ~e.bad
    /\ e.jst = "RECONCILING" => e.run = "new" /\ e.valid
    /\ e.jst = "IDLE" <=> e.jdep = 0
    /\ e.jst \in {"READY_TO_BOOT", "RECONCILING"} =>
         e.busy \/ e.pc = "off" \/ e.err # "PARTITION_HASH_FAILED"

(* the journal names an image that was handed to the bootloader *)
AtBoot(e) ==
    \/ e.jst = "READY_TO_BOOT" /\ e.pc \in {"start", "confirm", "marked", "off"}
    \/ e.jst = "RECONCILING"

(* A deployment past its download is the one in the journal, and the        *)
(* journal is at the matching place.                                        *)
Journalled(s, c, e) ==
    \A d \in Of(s, c) :
      /\ s.deps[d].st \in Late => e.jdep = d /\ AtBoot(e)
      /\ s.deps[d].st = "DOWNLOADING" => e.jdep = d

(* What the heartbeat h on the way may say: nothing about an attempt that   *)
(* is still running, an unverified image only of the download that had one, *)
(* and a return only of an ESP that is still on the old image.              *)
Truthful(s, c, e, h, u) ==
    /\ e.busy /\ h.st # "UPDATING" => h.st = "NONE" \/ (~h.after /\ ~s.telem[c].after)
    /\ h.st \notin {"NONE", "UPDATING"} /\ h.err = "PARTITION_HASH_FAILED" =>
         /\ e.jst \notin {"READY_TO_BOOT", "RECONCILING"}
         /\ h.after => \A d \in Of(s, c) : s.deps[d].st = "DOWNLOADING" => d \in u
    /\ h.st # "NONE" /\ h.ver = "old" =>
         \A d \in h.since : s.deps[d].st \in {"BOOTED_PENDING", "RECONCILING"} => e.run = "old"

(* ESP c's half of the invariant. *)
Device(s, c, e, h, u) ==
    /\ e \in EspRecords /\ h \in HbRecords
    /\ Task(e)
    /\ e.jdep # 0 => e.jdep \in Of(s, c) /\ s.deps[e.jdep].offered
    /\ \A d \in e.since \cup h.since : d \in Of(s, c) /\ s.deps[d].booted
    /\ ~e.busy /\ e.pc # "off" /\ e.err = "PARTITION_HASH_FAILED" => e.jdep \in u
    /\ Journalled(s, c, e)
    /\ Truthful(s, c, e, h, u)

OtaInv ==
    /\ plan \in Plans
    /\ Sound(add, plan.resumes, onHold, unverified)
    /\ esp \in [Connectors -> EspRecords] /\ hb \in [Connectors -> HbRecords]
    /\ \A c \in Connectors : Device(add, c, esp[c], hb[c], unverified)

-----------------------------------------------------------------------------

(* ADD's tables after one row and its campaign are written *)
Moved(s, t, d, y, z) ==
    /\ t \in AddRecords
    /\ t.release = s.release /\ t.telem = s.telem
    /\ DOMAIN t.camps = DOMAIN s.camps /\ DOMAIN t.deps = DOMAIN s.deps
    /\ t.deps[d] = y
    /\ \A e \in DOMAIN s.deps \ {d} : t.deps[e] = s.deps[e]
    /\ t.camps[s.deps[d].camp] = z
    /\ \A k \in DOMAIN s.camps \ {s.deps[d].camp} : t.camps[k] = s.camps[k]

(* the ways a campaign changes when one of its deployments does *)
CampMoved(old, new) ==
    \/ new = old
    \/ new.status = "COMPLETED" /\ old.status \in Live
    \/ /\ new.status = "PAUSED" /\ old.status \in Live
       /\ old.status = "PAUSED" => old.reason.by \notin {"owner", "revoked"}

LEMMA SeqRows ==
    ASSUME NEW S, NEW q \in Seq(S), NEW f \in [DOMAIN q -> S]
    PROVE  f \in Seq(S) /\ DOMAIN f = DOMAIN q
  BY SMT

LEMMA SeqRow ==
    ASSUME NEW S, NEW q \in Seq(S), NEW i \in DOMAIN q, NEW v \in S
    PROVE  /\ [q EXCEPT ![i] = v] \in Seq(S)
           /\ DOMAIN [q EXCEPT ![i] = v] = DOMAIN q
           /\ [q EXCEPT ![i] = v][i] = v
           /\ \A j \in DOMAIN q \ {i} : [q EXCEPT ![i] = v][j] = q[j]
  BY SMT

LEMMA Joined ==
    ASSUME NEW T, NEW p \in Seq(T), NEW q \in Seq(T), NEW r, r = p \o q
    PROVE  /\ r \in Seq(T) /\ Len(r) = Len(p) + Len(q)
           /\ \A i \in 1..Len(r) : r[i] = IF i <= Len(p) THEN p[i] ELSE q[i - Len(p)]
  BY SMT

LEMMA Tables ==
    ASSUME NEW s \in AddRecords
    PROVE  /\ s.camps \in Seq(CampRecords) /\ s.deps \in Seq(DepRecords)
           /\ \A k \in DOMAIN s.camps : s.camps[k] \in CampRecords
           /\ \A d \in DOMAIN s.deps : s.deps[d] \in DepRecords
           /\ s.telem \in [Connectors -> HbRecords]
           /\ s.release \in {"AVAILABLE", "REVOKED"}
  BY SMT DEF AddRecords

LEMMA WithDeps ==
    ASSUME NEW s \in AddRecords, NEW D \in Seq(DepRecords)
    PROVE  LET t == [s EXCEPT !.deps = D]
           IN  /\ t \in AddRecords /\ t.deps = D /\ t.camps = s.camps
               /\ t.release = s.release /\ t.telem = s.telem
  BY DEF AddRecords

LEMMA WithCamps ==
    ASSUME NEW s \in AddRecords, NEW C \in Seq(CampRecords)
    PROVE  LET t == [s EXCEPT !.camps = C]
           IN  /\ t \in AddRecords /\ t.camps = C /\ t.deps = s.deps
               /\ t.release = s.release /\ t.telem = s.telem
  BY DEF AddRecords

(* Writing one row and its campaign keeps the zone in order. *)
LEMMA ZoneMoved ==
    ASSUME NEW s \in AddRecords, NEW hold, Zone(s, hold), NEW d \in DOMAIN s.deps,
           NEW y \in DepRecords, NEW z \in CampRecords, NEW t, Moved(s, t, d, y, z),
           y.camp = s.deps[d].camp,
           s.deps[d].st \notin {"SUCCEEDED", "DELETED"}, y.st # "DELETED",
           CampMoved(s.camps[s.deps[d].camp], z),
           z.status = "COMPLETED" =>
             \A e \in DOMAIN s.deps : s.deps[e].camp = y.camp => t.deps[e].st = "SUCCEEDED",
           y.st \in Downloading \cup {"PENDING"} => z.status \in Live,
           y.st \in Active =>
             \A e \in DOMAIN s.deps \ {d} : s.deps[e].camp = y.camp => s.deps[e].st \notin Active
    PROVE  Zone(t, hold)
<1> DEFINE k == s.deps[d].camp
<1> USE DEF Moved, Status
<1>1. k \in DOMAIN s.camps /\ s.camps[k].status \notin {"COMPLETED", "DELETED"}
  BY DEF Zone
<1>2. z.status # "DELETED" /\ (s.camps[k].status \in Live <=> z.status \in Live \cup {"COMPLETED"})
  BY <1>1 DEF CampMoved, Live
<1>3. \A i, j \in DOMAIN t.camps : t.camps[i].status \in Live /\ t.camps[j].status \in Live => i = j
  BY <1>1, <1>2 DEF Zone
<1>4. ASSUME NEW e \in DOMAIN t.deps
      PROVE  /\ t.deps[e].camp \in DOMAIN t.camps
             /\ t.deps[e].st \in Downloading \cup {"PENDING"} => Status(t, e) \in Live
             /\ Status(t, e) = "COMPLETED" => t.deps[e].st = "SUCCEEDED"
             /\ Status(t, e) = "DELETED" => t.deps[e].st = "DELETED"
  <2>1. t.deps[e].camp = s.deps[e].camp
    OBVIOUS
  <2>2. CASE s.deps[e].camp # k
    BY <2>1, <2>2, SMT DEF Zone
  <2>3. CASE s.deps[e].camp = k
    <3>1. Status(t, e) = z.status
      BY <2>1, <2>3
    <3>2. t.deps[e].st \in Downloading \cup {"PENDING"} => z.status \in Live
      BY <1>2, <2>3, SMT DEF Zone, Live, Downloading
    <3> QED
      BY <1>1, <1>2, <2>1, <2>3, <3>1, <3>2
  <2> QED
    BY <2>2, <2>3
<1>5. ASSUME NEW e \in DOMAIN t.deps, NEW f \in DOMAIN t.deps, t.deps[e].camp = t.deps[f].camp,
             t.deps[e].st \in Active, t.deps[f].st \in Active
      PROVE  e = f
  <2>1. t.deps[e].camp = s.deps[e].camp /\ t.deps[f].camp = s.deps[f].camp
    OBVIOUS
  <2>2. CASE e # d /\ f # d
    BY <1>5, <2>1, <2>2 DEF Zone
  <2>3. CASE e = d /\ f # d
    BY <1>5, <2>1, <2>3
  <2>4. CASE e # d /\ f = d
    BY <1>5, <2>1, <2>4
  <2> QED
    BY <2>2, <2>3, <2>4
<1>6. ASSUME NEW i \in hold
      PROVE  /\ i \in DOMAIN t.camps
             /\ t.camps[i].status # "ACTIVE"
             /\ t.camps[i].status = "PAUSED" => t.camps[i].reason.by \in {"owner", "revoked"}
  <2>1. /\ i \in DOMAIN s.camps /\ s.camps[i].status # "ACTIVE"
        /\ s.camps[i].status = "PAUSED" => s.camps[i].reason.by \in {"owner", "revoked"}
    BY DEF Zone
  <2>2. CASE i # k
    BY <2>1, <2>2
  <2>3. CASE i = k
    <3>1. t.camps[i] = z
      BY <2>3
    <3> QED
      BY <2>1, <2>3, <3>1 DEF CampMoved, Live
  <2> QED
    BY <2>2, <2>3
<1> QED
  BY <1>3, <1>4, <1>5, <1>6 DEF Zone

(* what the ESP, or a heartbeat of it, reports *)
Reports == {"DOWNLOADING", "READY_TO_BOOT", "BOOTED_PENDING", "RECONCILING",
            "SUCCEEDED", "FAILED", "ROLLED_BACK"}
Booting == {"BOOTED_PENDING", "RECONCILING"}

ReportedRow(x, y, st, code) ==
    /\ y.camp = x.camp /\ y.con = x.con /\ y.st = st /\ y.code = code
    /\ y.offered = x.offered /\ y.granted = x.granted
    /\ y.stops = x.stops /\ y.regrants = x.regrants
    /\ y.booted <=> (x.booted \/ st \in Booting)

LEMMA PairMax ==
    ASSUME NEW a \in Nat, NEW b \in Nat
    PROVE  Max({a, b}) \in Nat
<1>1. \E x \in {a, b} : \A y \in {a, b} : x >= y
  BY SMT
<1>2. Max({a, b}) \in {a, b}
  BY <1>1, Zenon DEF Max
<1> QED
  BY <1>2

(* The checked transitions, as far as reports use them. *)
LEMMA Transitions ==
    ASSUME NEW old \in DOMAIN DEPLOYMENT_TRANSITIONS, NEW st \in Reports,
           st \in DEPLOYMENT_TRANSITIONS[old]
    PROVE  /\ old \in Active
           /\ st = "DOWNLOADING" => old \in Downloading
           /\ old \in Booting => st \in Booting \cup {"SUCCEEDED", "FAILED", "ROLLED_BACK"}
           /\ st = "SUCCEEDED" => old = "RECONCILING"
           /\ st = "RECONCILING" => old \in Booting
<1>1. old \in Active \cup {"PENDING"}
  BY DEF DEPLOYMENT_TRANSITIONS, Active, Downloading
<1>2. CASE old = "PENDING"
  BY <1>2 DEF DEPLOYMENT_TRANSITIONS, Reports
<1>3. CASE old \in Downloading
  BY <1>3, SMT DEF DEPLOYMENT_TRANSITIONS, Reports, Active, Downloading, Booting
<1>4. CASE old \in {"VERIFYING", "READY_TO_BOOT"}
  BY <1>4, SMT DEF DEPLOYMENT_TRANSITIONS, Reports, Active, Downloading, Booting
<1>5. CASE old \in Booting
  BY <1>5, SMT DEF DEPLOYMENT_TRANSITIONS, Reports, Active, Downloading, Booting
<1> QED
  BY <1>1, <1>2, <1>3, <1>4, <1>5 DEF Active, Booting

LEMMA StoredRow ==
    ASSUME NEW x \in DepRecords, NEW st \in DepStates, NEW code \in Codes, NEW bytes \in Nat
    PROVE  /\ ReportedProgress(x, st, code, bytes) \in DepRecords
           /\ ReportedRow(x, ReportedProgress(x, st, code, bytes), st, code)
<1>1. PICK n : n = Max({x.bytes, bytes})
  BY Zenon
<1>2. n \in Nat
  BY <1>1, PairMax DEF DepRecords
<1>3. PICK b : b = (x.booted \/ st \in {"BOOTED_PENDING", "RECONCILING"})
  BY Zenon
<1>4. PICK g : g = (x.healthy \/ code = "RUNTIME_HEALTHY")
  BY Zenon
<1>5. b \in BOOLEAN /\ g \in BOOLEAN /\ (b <=> (x.booted \/ st \in Booting))
  BY <1>3, <1>4, Zenon DEF Booting
<1> DEFINE y == [x EXCEPT !.st = st, !.code = code, !.bytes = n, !.booted = b, !.healthy = g]
<1>6. /\ y \in DepRecords /\ y.camp = x.camp /\ y.con = x.con /\ y.st = st /\ y.code = code
      /\ y.offered = x.offered /\ y.granted = x.granted
      /\ y.stops = x.stops /\ y.regrants = x.regrants /\ y.booted = b
  BY <1>2, <1>5 DEF DepRecords
<1>7. y = ReportedProgress(x, st, code, bytes)
  BY <1>1, <1>3, <1>4, Zenon DEF ReportedProgress
<1> HIDE DEF y
<1>8. y \in DepRecords /\ ReportedRow(x, y, st, code)
  BY <1>5, <1>6, Zenon DEF ReportedRow
<1> QED
  BY <1>7, <1>8, Zenon

LEMMA Written ==
    ASSUME NEW s \in AddRecords, NEW d \in DOMAIN s.deps, NEW y \in DepRecords,
           s.deps[d].camp \in DOMAIN s.camps
    PROVE  /\ Moved(s, [s EXCEPT !.deps[d] = y], d, y, s.camps[s.deps[d].camp])
           /\ [s EXCEPT !.deps[d] = y].camps = s.camps
<1>1. PICK q : q = [s.deps EXCEPT ![d] = y]
  BY Zenon
<1>2. /\ q \in Seq(DepRecords) /\ DOMAIN q = DOMAIN s.deps /\ q[d] = y
      /\ \A e \in DOMAIN s.deps \ {d} : q[e] = s.deps[e]
  BY <1>1, SeqRow, Tables
<1>3. PICK t : t = [s EXCEPT !.deps = q]
  BY Zenon
<1>4. /\ t \in AddRecords /\ t.deps = q /\ t.camps = s.camps
      /\ t.release = s.release /\ t.telem = s.telem
  BY <1>2, <1>3, WithDeps
<1>5. Moved(s, t, d, y, s.camps[s.deps[d].camp])
  BY <1>2, <1>4 DEF Moved
<1> QED
  BY <1>1, <1>3, <1>4, <1>5, Zenon

LEMMA WrittenTwice ==
    ASSUME NEW s \in AddRecords, NEW d \in DOMAIN s.deps, NEW y \in DepRecords, NEW z \in CampRecords,
           NEW k \in DOMAIN s.camps, k = s.deps[d].camp, NEW z0, NEW t, Moved(s, t, d, y, z0)
    PROVE  Moved(s, [t EXCEPT !.camps[k] = z], d, y, z)
<1>1. PICK q : q = [t.camps EXCEPT ![k] = z]
  BY Zenon
<1>2. /\ q \in Seq(CampRecords) /\ DOMAIN q = DOMAIN s.camps /\ q[k] = z
      /\ \A j \in DOMAIN s.camps \ {k} : q[j] = t.camps[j]
  BY <1>1, SeqRow, Tables, SMT DEF Moved
<1>3. PICK w : w = [t EXCEPT !.camps = q]
  BY Zenon
<1>4. /\ w \in AddRecords /\ w.camps = q /\ w.deps = t.deps
      /\ w.release = t.release /\ w.telem = t.telem
  BY <1>2, <1>3, WithCamps, SMT DEF Moved
<1>5. Moved(s, w, d, y, z)
  BY <1>2, <1>4 DEF Moved
<1> QED
  BY <1>1, <1>3, <1>5, Zenon

(* The reason a failure leaves: never over the owner's. *)
LEMMA PauseMoves ==
    ASSUME NEW z \in CampRecords, z.status \in Live \cup {"CANCELLED"}, NEW c \in Connectors,
           NEW st \in DepStates, NEW code \in Codes
    PROVE  /\ pause_for_deployment_outcome(z, c, st, code) \in CampRecords
           /\ CampMoved(z, pause_for_deployment_outcome(z, c, st, code))
           /\ pause_for_deployment_outcome(z, c, st, code).status # "COMPLETED"
<1>1. PICK why : why = deployment_pause_reason(c, st, code)
  BY Zenon
<1>2. why \in Reasons
  BY <1>1, OtaAssumption DEF deployment_pause_reason, Reasons
<1>3. PICK w : w = [z EXCEPT !.status = "PAUSED", !.reason = why]
  BY Zenon
<1>4. w \in CampRecords /\ w.status = "PAUSED"
  BY <1>2, <1>3 DEF CampRecords, Live
<1>5. PICK v : v = pause_for_deployment_outcome(z, c, st, code)
  BY Zenon
<1>6. \/ v = z /\ z.status # "COMPLETED"
      \/ /\ v = w /\ z.status # "CANCELLED"
         /\ z.status = "PAUSED" => z.reason.by \notin {"owner", "revoked"}
  <2>1. CASE \/ z.status = "CANCELLED"
             \/ /\ z.status = "PAUSED"
                /\ z.reason.by # "nobody"
                /\ ~(z.reason.by = "outcome" /\ z.reason.con = c)
    BY <1>5, <2>1, Zenon DEF pause_for_deployment_outcome, Live
  <2>2. CASE ~ \/ z.status = "CANCELLED"
               \/ /\ z.status = "PAUSED"
                  /\ z.reason.by # "nobody"
                  /\ ~(z.reason.by = "outcome" /\ z.reason.con = c)
    <3>1. v = w
      BY <1>1, <1>3, <1>5, <2>2, Zenon DEF pause_for_deployment_outcome
    <3> QED
      BY <2>2, <3>1
  <2> QED
    BY <2>1, <2>2
<1>7. CampMoved(z, v)
  BY <1>4, <1>6 DEF CampMoved, Live
<1>8. v \in CampRecords /\ v.status # "COMPLETED"
  BY <1>4, <1>6
<1> QED
  BY <1>5, <1>7, <1>8, Zenon

Done(s, k) ==
    /\ s.camps[k].status \in Live
    /\ In(s, k) # {}
    /\ \A d \in In(s, k) : s.deps[d].st = "SUCCEEDED"

LEMMA CompletedCamps ==
    ASSUME NEW s \in AddRecords, NEW K, NEW t, t = complete_if_succeeded(s, K)
    PROVE  /\ t \in AddRecords /\ t.deps = s.deps /\ DOMAIN t.camps = DOMAIN s.camps
           /\ t.release = s.release /\ t.telem = s.telem
           /\ \A k \in DOMAIN s.camps :
                IF k \in K /\ Done(s, k) THEN t.camps[k].status = "COMPLETED" ELSE t.camps[k] = s.camps[k]
<1> DEFINE C == [k \in DOMAIN s.camps |->
                   IF k \in K /\ Done(s, k)
                   THEN [s.camps[k] EXCEPT !.status = "COMPLETED", !.reason = NoReason] ELSE s.camps[k]]
<1>1. t = [s EXCEPT !.camps = C]
  BY Zenon DEF complete_if_succeeded, Done
<1>2. PICK why : why = NoReason
  BY Zenon
<1>3. why \in Reasons
  BY <1>2 DEF NoReason, Reasons, Codes, Errors
<1>4. \A z \in CampRecords :
        LET w == [z EXCEPT !.status = "COMPLETED", !.reason = why]
        IN  w \in CampRecords /\ w.status = "COMPLETED"
  BY <1>3 DEF CampRecords, Closed
<1>5. \A k \in DOMAIN s.camps : s.camps[k] \in CampRecords
  BY Tables
<1>6. ASSUME NEW k \in DOMAIN s.camps
      PROVE  /\ C[k] \in CampRecords
             /\ IF k \in K /\ Done(s, k) THEN C[k].status = "COMPLETED" ELSE C[k] = s.camps[k]
  <2>1. PICK w : w = [s.camps[k] EXCEPT !.status = "COMPLETED", !.reason = NoReason]
    BY Zenon
  <2>2. w \in CampRecords /\ w.status = "COMPLETED"
    BY <1>2, <1>4, <1>5, <2>1, Zenon
  <2>3. C[k] = IF k \in K /\ Done(s, k) THEN w ELSE s.camps[k]
    BY <2>1, Zenon
  <2> HIDE DEF C
  <2> QED
    BY <1>5, <2>2, <2>3
<1>7. C \in [DOMAIN s.camps -> CampRecords] /\ DOMAIN C = DOMAIN s.camps
  BY <1>6, Zenon
<1> HIDE DEF C
<1>8. C \in Seq(CampRecords)
  BY <1>7, SeqRows, Tables
<1> QED
  BY <1>1, <1>6, <1>7, <1>8, WithCamps, SMT

ReportMoves(s, t, d, st, code, y, z) ==
    /\ Moved(s, t, d, y, z)
    /\ ReportedRow(s.deps[d], y, st, code)
    /\ CampMoved(s.camps[s.deps[d].camp], z)
    /\ z.status = "COMPLETED" =>
         \A e \in DOMAIN s.deps : s.deps[e].camp = y.camp => t.deps[e].st = "SUCCEEDED"
    /\ z = s.camps[s.deps[d].camp] \/ st \notin Active

(* What a report that is taken does: one row moves, and its campaign with it. *)
LEMMA ProgressMoves ==
    ASSUME NEW s \in AddRecords, NEW hold, Zone(s, hold), NEW d \in DOMAIN s.deps,
           NEW st \in Reports, NEW code \in Codes, NEW bytes \in Nat, NEW ver,
           s.deps[d].st \notin Terminal, Accepts(s, d, st, bytes, ver),
           NEW t, t = record_progress(s, d, st, code, bytes, ver)
    PROVE  \E y \in DepRecords, z \in CampRecords : ReportMoves(s, t, d, st, code, y, z)
<1>1. PICK x : x = s.deps[d]
  BY Zenon
<1>2. PICK k : k = x.camp
  BY Zenon
<1>3. /\ s \in AddRecords /\ x \in DepRecords /\ k \in DOMAIN s.camps /\ s.camps[k] \in CampRecords
      /\ x.con \in Connectors
  BY <1>1, <1>2, Tables DEF Zone, DepRecords
<1>4. x.st \in DOMAIN DEPLOYMENT_TRANSITIONS /\ st \in DEPLOYMENT_TRANSITIONS[x.st]
  BY <1>1, Zenon DEF Accepts
<1>5. x.st \in Active
  BY <1>4, Transitions
<1>6. s.camps[k].status \in Live \cup {"CANCELLED"}
  <2>1. s.camps[k].status \notin {"COMPLETED", "DELETED"}
    BY <1>1, <1>2, <1>5 DEF Zone, Status, Active, Downloading
  <2> QED
    BY <1>3, <2>1 DEF CampRecords, Closed
<1>7. st \in DepStates
  BY DEF DepStates, Reports, Active, Downloading, Terminal
<1>8. PICK y : y = ReportedProgress(x, st, code, bytes)
  BY Zenon
<1>9. y \in DepRecords /\ ReportedRow(x, y, st, code)
  BY <1>3, <1>7, <1>8, StoredRow, Zenon
<1>10. PICK stored : stored = [s EXCEPT !.deps[d] = y]
  BY Zenon
<1>11. Moved(s, stored, d, y, s.camps[k]) /\ stored.camps = s.camps
  BY <1>1, <1>2, <1>3, <1>9, <1>10, Written, Zenon
<1>12. t = IF st \in {"FAILED", "ROLLED_BACK"}
           THEN [stored EXCEPT !.camps[k] = pause_for_deployment_outcome(@, x.con, st, code)]
           ELSE IF st = "SUCCEEDED" THEN complete_if_succeeded(stored, {k}) ELSE stored
  <2>1. t = IF s.deps[d].st \in Terminal \/ ~Accepts(s, d, st, bytes, ver) THEN s
            ELSE IF st \in {"FAILED", "ROLLED_BACK"}
            THEN [stored EXCEPT !.camps[k] = pause_for_deployment_outcome(@, x.con, st, code)]
            ELSE IF st = "SUCCEEDED" THEN complete_if_succeeded(stored, {k}) ELSE stored
    BY <1>1, <1>2, <1>8, <1>10 DEF record_progress
  <2> QED
    BY <2>1
<1>13. CASE st \in {"FAILED", "ROLLED_BACK"}
  <2>1. PICK z : z = pause_for_deployment_outcome(s.camps[k], x.con, st, code)
    BY Zenon
  <2>2. z \in CampRecords /\ CampMoved(s.camps[k], z) /\ z.status # "COMPLETED"
    BY <1>3, <1>6, <1>7, <2>1, PauseMoves, Zenon
  <2>3. t = [stored EXCEPT !.camps[k] = z]
    <3>1. t = [stored EXCEPT !.camps[k] = pause_for_deployment_outcome(@, x.con, st, code)]
      BY <1>12, <1>13, Zenon
    <3>2. pause_for_deployment_outcome(stored.camps[k], x.con, st, code) = z
      BY <1>11, <2>1, Zenon
    <3> QED
      BY <3>1, <3>2, Zenon
  <2>4. Moved(s, t, d, y, z)
    BY <1>1, <1>2, <1>3, <1>9, <1>11, <2>2, <2>3, WrittenTwice, SMT
  <2>5. st \notin Active
    BY <1>13 DEF Active, Downloading
  <2> QED
    BY <1>1, <1>2, <1>9, <2>2, <2>4, <2>5, Zenon DEF ReportMoves
<1>14. CASE st = "SUCCEEDED"
  <2>1. t = complete_if_succeeded(stored, {k})
    BY <1>12, <1>14
  <2>2. stored \in AddRecords /\ DOMAIN stored.deps = DOMAIN s.deps
    BY <1>11 DEF Moved
  <2>3. /\ t \in AddRecords /\ t.deps = stored.deps /\ DOMAIN t.camps = DOMAIN s.camps
        /\ t.release = stored.release /\ t.telem = stored.telem
        /\ \A j \in DOMAIN s.camps :
             IF j \in {k} /\ Done(stored, j) THEN t.camps[j].status = "COMPLETED" ELSE t.camps[j] = s.camps[j]
    BY <1>11, <2>1, <2>2, CompletedCamps, SMT
  <2>4. PICK z : z = t.camps[k]
    BY Zenon
  <2>5. z \in CampRecords
    BY <1>3, <2>3, <2>4, Tables
  <2>6. Moved(s, t, d, y, z)
    BY <1>1, <1>2, <1>11, <2>3, <2>4 DEF Moved
  <2>7. CampMoved(s.camps[k], z)
    BY <1>3, <1>11, <2>3, <2>4 DEF CampMoved, Done
  <2>8. z.status = "COMPLETED" =>
          \A e \in DOMAIN s.deps : s.deps[e].camp = k => t.deps[e].st = "SUCCEEDED"
    <3>1. z.status = "COMPLETED" => Done(stored, k)
      BY <1>3, <1>6, <2>3, <2>4 DEF Live
    <3>2. \A e \in DOMAIN s.deps : stored.deps[e].camp = s.deps[e].camp
      BY <1>1, <1>9, <1>11 DEF Moved, ReportedRow
    <3> QED
      BY <2>2, <2>3, <3>1, <3>2 DEF Done, In
  <2>9. st \notin Active /\ y.camp = k
    BY <1>2, <1>9, <1>14 DEF Active, Downloading, ReportedRow
  <2> QED
    BY <1>1, <1>2, <1>9, <2>5, <2>6, <2>7, <2>8, <2>9, Zenon DEF ReportMoves
<1>15. CASE st \notin {"FAILED", "ROLLED_BACK", "SUCCEEDED"}
  <2>1. t = stored
    BY <1>12, <1>15
  <2>2. s.camps[k].status # "COMPLETED" /\ CampMoved(s.camps[k], s.camps[k])
    BY <1>6 DEF Live, CampMoved
  <2> QED
    BY <1>1, <1>2, <1>3, <1>9, <1>11, <2>1, <2>2, Zenon DEF ReportMoves
<1> QED
  BY <1>13, <1>14, <1>15

(* what a report changes, as far as an ESP's half of the invariant looks *)
Progressed(s, t, d, st) ==
    /\ t.telem = s.telem /\ t.release = s.release
    /\ DOMAIN t.deps = DOMAIN s.deps
    /\ \A e \in DOMAIN s.deps \ {d} : t.deps[e] = s.deps[e]
    /\ s.deps[d].st \in DOMAIN DEPLOYMENT_TRANSITIONS /\ st \in DEPLOYMENT_TRANSITIONS[s.deps[d].st]
    /\ t.deps[d].st = st
    /\ t.deps[d].con = s.deps[d].con /\ t.deps[d].offered = s.deps[d].offered
    /\ t.deps[d].stops = s.deps[d].stops
    /\ t.deps[d].booted <=> (s.deps[d].booted \/ st \in Booting)

(* A report that is taken keeps ADD's half: the row it is about need not be
   within the limits of a download when it leaves the download. *)
LEMMA SoundReport ==
    ASSUME NEW s \in AddRecords, NEW r, NEW hold, NEW u, Zone(s, hold), NEW d \in DOMAIN s.deps,
           \A e \in DOMAIN s.deps \ {d} : Row(s.deps[e], e, r, u),
           Kept(s.deps[d], d, r, u),
           NEW st \in Reports, st \in Downloading => Row(s.deps[d], d, r, u),
           NEW code \in Codes, code = "PARTITION_HASH_FAILED" => d \in u,
           NEW bytes \in Nat, NEW ver, s.deps[d].st \notin Terminal, Accepts(s, d, st, bytes, ver),
           NEW t, t = record_progress(s, d, st, code, bytes, ver)
    PROVE  Sound(t, r, hold, u) /\ Progressed(s, t, d, st)
<1>0. PICK y \in DepRecords, z \in CampRecords : ReportMoves(s, t, d, st, code, y, z)
  BY ProgressMoves, Zenon
<1>1. /\ Moved(s, t, d, y, z)
      /\ ReportedRow(s.deps[d], y, st, code)
      /\ CampMoved(s.camps[s.deps[d].camp], z)
      /\ z.status = "COMPLETED" =>
           \A e \in DOMAIN s.deps : s.deps[e].camp = y.camp => t.deps[e].st = "SUCCEEDED"
      /\ z = s.camps[s.deps[d].camp] \/ st \notin Active
  BY <1>0 DEF ReportMoves
<1>2. PICK x \in DepRecords : x = s.deps[d]
  BY Tables
<1>3. x.st \in DOMAIN DEPLOYMENT_TRANSITIONS /\ st \in DEPLOYMENT_TRANSITIONS[x.st]
  BY <1>2, Zenon DEF Accepts
<1>4. /\ x.st \in Active
      /\ st = "DOWNLOADING" => x.st \in Downloading
      /\ x.st \in Booting => st \in Booting \cup {"SUCCEEDED", "FAILED", "ROLLED_BACK"}
  BY <1>3, Transitions
<1>5. Kept(x, d, r, u) /\ (st \in Downloading => Row(x, d, r, u))
  BY <1>2
<1>6. Row(y, d, r, u)
  <2>1. x.offered /\ (x.booted => x.st \in Booting)
    BY <1>4, <1>5 DEF Kept, Active, Downloading, Booting
  <2>2. y.booted => st \in Booting \cup {"SUCCEEDED", "FAILED", "ROLLED_BACK"}
    BY <1>1, <1>2, <1>4, <2>1 DEF ReportedRow
  <2>3. st \in Downloading => x.st \in Downloading
    BY <1>4 DEF Downloading, Reports
  <2> QED
    BY <1>1, <1>2, <1>5, <2>1, <2>2, <2>3 DEF Row, Kept, ReportedRow, Reports, Booting, Downloading
<1>7. Zone(t, hold)
  <2>1. x.st \notin {"SUCCEEDED", "DELETED"} /\ y.st # "DELETED" /\ y.camp = s.deps[d].camp
    BY <1>1, <1>2, <1>4 DEF ReportedRow, Active, Downloading, Reports
  <2>2. y.st \in Downloading \cup {"PENDING"} => z.status \in Live
    <3>1. y.st \in Downloading \cup {"PENDING"} => st = "DOWNLOADING" /\ st \in Active
      BY <1>1 DEF ReportedRow, Reports, Downloading, Active
    <3> QED
      BY <1>1, <1>2, <1>4, <1>5, <3>1 DEF Zone, Status
  <2>3. \A e \in DOMAIN s.deps \ {d} : s.deps[e].camp = y.camp => s.deps[e].st \notin Active
    BY <1>2, <1>4, <1>5, <2>1 DEF Zone
  <2> QED
    BY <1>1, <1>2, <1>5, <2>1, <2>2, <2>3, ZoneMoved, SMT
<1>8. Sound(t, r, hold, u)
  BY <1>1, <1>6, <1>7 DEF Sound, Moved
<1>9. Progressed(s, t, d, st)
  BY <1>1, <1>2, <1>3 DEF Progressed, Moved, ReportedRow
<1> QED
  BY <1>8, <1>9 DEF Progressed

LEMMA SoundProgress ==
    ASSUME NEW s, NEW r, NEW hold, NEW u, Sound(s, r, hold, u), NEW d \in DOMAIN s.deps,
           NEW st \in Reports, NEW code \in Codes, code = "PARTITION_HASH_FAILED" => d \in u,
           NEW bytes \in Nat, NEW ver, NEW t, t = record_progress(s, d, st, code, bytes, ver)
    PROVE  /\ Sound(t, r, hold, u)
           /\ t = s \/ Progressed(s, t, d, st)
           /\ Accepts(s, d, st, bytes, ver) => t.deps[d].st \in Terminal \cup {st}
<1>1. CASE s.deps[d].st \in Terminal \/ ~Accepts(s, d, st, bytes, ver)
  <2>1. t = s
    BY <1>1, Zenon DEF record_progress
  <2> QED
    BY <1>1, <2>1
<1>2. CASE s.deps[d].st \notin Terminal /\ Accepts(s, d, st, bytes, ver)
  <2>1. /\ s \in AddRecords /\ Zone(s, hold) /\ Kept(s.deps[d], d, r, u)
        /\ \A e \in DOMAIN s.deps : Row(s.deps[e], e, r, u)
    BY DEF Sound, Row
  <2>2. Sound(t, r, hold, u) /\ Progressed(s, t, d, st)
    BY <1>2, <2>1, SoundReport
  <2> QED
    BY <2>2 DEF Progressed
<1> QED
  BY <1>1, <1>2

(* A recorded unverified image only adds to what ADD may say. *)
LEMMA SoundGrows ==
    ASSUME NEW s, NEW r, NEW hold, NEW u, NEW v, Sound(s, r, hold, u), u \subseteq v
    PROVE  Sound(s, r, hold, v)
  BY DEF Sound, Row, Kept

LEMMA SoundSame ==
    ASSUME NEW s, NEW r, NEW hold, NEW u, Sound(s, r, hold, u),
           NEW t \in AddRecords, t.camps = s.camps, t.deps = s.deps
    PROVE  Sound(t, r, hold, u)
  BY DEF Sound, Zone, Status

(* A row still to be downloaded is written, without its campaign. *)
LEMMA ZoneWrite ==
    ASSUME NEW s \in AddRecords, NEW hold, Zone(s, hold), NEW d \in DOMAIN s.deps,
           NEW y \in DepRecords, y.camp = s.deps[d].camp,
           s.deps[d].st \in Downloading \cup {"PENDING"}, y.st \in Downloading,
           \A e \in DOMAIN s.deps \ {d} : s.deps[e].camp = y.camp => s.deps[e].st \notin Active,
           NEW t, t = [s EXCEPT !.deps[d] = y]
    PROVE  Zone(t, hold) /\ Moved(s, t, d, y, s.camps[s.deps[d].camp])
<1>1. s.deps[d].camp \in DOMAIN s.camps /\ s.camps[s.deps[d].camp].status \in Live
  BY DEF Zone, Status
<1>2. Moved(s, t, d, y, s.camps[s.deps[d].camp])
  BY <1>1, Written, Zenon
<1>3. PICK z : z = s.camps[s.deps[d].camp]
  BY Zenon
<1>4. z \in CampRecords /\ CampMoved(s.camps[s.deps[d].camp], z) /\ z.status \in Live /\ z.status # "COMPLETED"
  BY <1>1, <1>3, Tables DEF CampMoved, Live
<1>5. s.deps[d].st \notin {"SUCCEEDED", "DELETED"} /\ y.st # "DELETED"
  BY DEF Downloading
<1> QED
  BY <1>2, <1>3, <1>4, <1>5, ZoneMoved

LEMMA SoundWrite ==
    ASSUME NEW s, NEW r, NEW hold, NEW u, Sound(s, r, hold, u), NEW d \in DOMAIN s.deps,
           NEW y \in DepRecords, y.camp = s.deps[d].camp, Row(y, d, r, u),
           s.deps[d].st \in Downloading \cup {"PENDING"}, y.st \in Downloading,
           \A e \in DOMAIN s.deps \ {d} : s.deps[e].camp = y.camp => s.deps[e].st \notin Active,
           NEW t, t = [s EXCEPT !.deps[d] = y]
    PROVE  Sound(t, r, hold, u) /\ Moved(s, t, d, y, s.camps[s.deps[d].camp])
<1>1. s \in AddRecords /\ Zone(s, hold)
  BY DEF Sound
<1>2. Zone(t, hold) /\ Moved(s, t, d, y, s.camps[s.deps[d].camp])
  BY <1>1, ZoneWrite
<1>3. t \in AddRecords /\ \A e \in DOMAIN t.deps : Row(t.deps[e], e, r, u)
  BY <1>2 DEF Moved, Sound
<1> QED
  BY <1>2, <1>3 DEF Sound

-----------------------------------------------------------------------------
(* An ESP's half of the invariant, under what others do to ADD's rows. *)

(* Another ESP's rows: this ESP's own are as they were. *)
LEMMA SameDevice ==
    ASSUME NEW s, NEW t, NEW c, NEW e, NEW h, NEW u, NEW v, u \subseteq v, Device(s, c, e, h, u),
           Of(t, c) = Of(s, c), \A d \in Of(s, c) : t.deps[d] = s.deps[d], t.telem[c] = s.telem[c]
    PROVE  Device(t, c, e, h, v)
<1>1. Journalled(t, c, e)
  BY DEF Device, Journalled
<1>2. Truthful(t, c, e, h, v)
  BY DEF Device, Truthful
<1> QED
  BY <1>1, <1>2 DEF Device

(* ADD failing, withdrawing, holding or adding rows: none enters a state    *)
(* that the ESP's journal would have to match.                              *)
Quiet(s, t) ==
    /\ \A d \in DOMAIN s.deps :
         /\ d \in DOMAIN t.deps
         /\ t.deps[d].con = s.deps[d].con
         /\ s.deps[d].offered => t.deps[d].offered
         /\ s.deps[d].booted => t.deps[d].booted
         /\ t.deps[d].st \in Late \cup {"DOWNLOADING"} => t.deps[d].st = s.deps[d].st
    /\ \A d \in DOMAIN t.deps \ DOMAIN s.deps : t.deps[d].st \notin Late \cup {"DOWNLOADING"}

LEMMA QuietDevice ==
    ASSUME NEW s, NEW t, NEW c, NEW e, NEW h, NEW u, Device(s, c, e, h, u),
           Quiet(s, t), t.telem[c] = s.telem[c]
    PROVE  Device(t, c, e, h, u)
<1>1. \A d \in Of(s, c) : d \in Of(t, c)
  BY DEF Quiet, Of
<1>2. \A d \in Of(t, c) : t.deps[d].st \in Late \cup {"DOWNLOADING"} => d \in Of(s, c) /\ t.deps[d].st = s.deps[d].st
  BY DEF Quiet, Of
<1>3. Journalled(t, c, e)
  BY <1>2 DEF Device, Journalled
<1>4. \A d \in h.since : d \in Of(t, c)
  BY <1>1 DEF Device
<1>5. Truthful(t, c, e, h, u)
  BY <1>2, <1>4 DEF Device, Truthful, Late, Active, Downloading
<1>6. \A d \in Of(s, c) : (s.deps[d].offered => t.deps[d].offered) /\ (s.deps[d].booted => t.deps[d].booted)
  BY DEF Quiet, Of
<1> QED
  BY <1>1, <1>3, <1>5, <1>6 DEF Device

(* The ESP's own report of the deployment in its journal. *)
LEMMA ReportDevice ==
    ASSUME NEW s, NEW r, NEW hold, NEW w, Sound(s, r, hold, w),
           NEW t, NEW c, NEW e, NEW h, NEW u, Device(s, c, e, h, u), e.jdep # 0,
           NEW st \in Reports, Progressed(s, t, e.jdep, st),
           st \in Late => AtBoot(e),
           st = "DOWNLOADING" => e.busy
    PROVE  Device(t, c, e, h, u)
<1>1. PICK d : d = e.jdep
  BY Zenon
<1>2. /\ d \in DOMAIN s.deps /\ s.deps[d].con = c /\ s.deps[d].offered
      /\ t.telem = s.telem /\ DOMAIN t.deps = DOMAIN s.deps
      /\ \A f \in DOMAIN s.deps \ {d} : t.deps[f] = s.deps[f]
      /\ t.deps[d].st = st /\ t.deps[d].con = c /\ t.deps[d].offered
      /\ s.deps[d].booted => t.deps[d].booted
  BY <1>1 DEF Device, Progressed, Of
<1>3. Of(t, c) = Of(s, c) /\ d \in Of(s, c)
  BY <1>2 DEF Of
<1>4. s.deps[d].booted => s.deps[d].st \in Booting
  <2>1. s.deps[d].st \in Active
    BY <1>1, Transitions DEF Progressed
  <2> QED
    BY <1>2, <2>1 DEF Sound, Row, Kept, Booting, Active, Downloading
<1>5. \A f \in Of(s, c) : f # d => t.deps[f] = s.deps[f]
  BY <1>2 DEF Of
<1>6. Journalled(t, c, e)
  BY <1>1, <1>2, <1>3, <1>5 DEF Device, Journalled
<1>7. \A f \in h.since : f \in Of(s, c) /\ s.deps[f].booted
  BY DEF Device
<1>8. Truthful(t, c, e, h, u)
  <2>1. e.busy /\ h.st # "UPDATING" => h.st = "NONE" \/ (~h.after /\ ~t.telem[c].after)
    BY <1>2 DEF Device, Truthful
  <2>2. ASSUME h.st \notin {"NONE", "UPDATING"}, h.err = "PARTITION_HASH_FAILED"
        PROVE  /\ e.jst \notin {"READY_TO_BOOT", "RECONCILING"}
               /\ h.after => \A f \in Of(t, c) : t.deps[f].st = "DOWNLOADING" => f \in u
    BY <1>2, <1>3, <1>5, <2>1, <2>2 DEF Device, Truthful
  <2>3. ASSUME h.st # "NONE", h.ver = "old", NEW f \in h.since,
               t.deps[f].st \in {"BOOTED_PENDING", "RECONCILING"}
        PROVE  e.run = "old"
    <3>1. s.deps[f].st \in {"BOOTED_PENDING", "RECONCILING"}
      BY <1>4, <1>5, <1>7, <2>3 DEF Booting
    <3> QED
      BY <2>3, <3>1 DEF Device, Truthful
  <2> QED
    BY <2>1, <2>2, <2>3 DEF Truthful
<1>9. \A f \in Of(s, c) : (s.deps[f].offered => t.deps[f].offered) /\ (s.deps[f].booted => t.deps[f].booted)
  BY <1>2, <1>5
<1> QED
  BY <1>1, <1>3, <1>6, <1>8, <1>9 DEF Device

-----------------------------------------------------------------------------
(* What a request of an ESP does to ADD's tables. *)

(* a step of ESP c touches no other ESP's rows *)
OwnRows(s, t, c) ==
    /\ DOMAIN t.deps = DOMAIN s.deps
    /\ \A d \in DOMAIN s.deps : t.deps[d].con = s.deps[d].con
    /\ \A d \in DOMAIN s.deps : s.deps[d].con # c => t.deps[d] = s.deps[d]

(* the answer to a report: nothing stored, or the progress of the journal's  *)
(* deployment; and a success only for what is stored or already settled      *)
Answered(s, t, d, st, ok) ==
    /\ t = s \/ Progressed(s, t, d, st)
    /\ ok => t.deps[d].st \in Terminal \cup {st}

LEMMA ProgressShape ==
    ASSUME NEW s, NEW c, NEW d, NEW st, NEW code, NEW bytes, NEW ver,
           NEW a \in firmware_progress(s, c, d, st, code, bytes, ver)
    PROVE  \/ a.s = s /\ ~a.ok
           \/ \E label \in {code, "TARGET_BOOT_INTERRUPTED"} :
                /\ a.s = record_progress(s, d, st, label, bytes, ver)
                /\ a.ok => Accepts(s, d, st, bytes, ver)
<1> DEFINE answer(label) == [s |-> record_progress(s, d, st, label, bytes, ver),
                             ok |-> Accepts(s, d, st, bytes, ver)]
<1>1. \A label : /\ answer(label).s = record_progress(s, d, st, label, bytes, ver)
                 /\ answer(label).ok => Accepts(s, d, st, bytes, ver)
  BY Zenon
<1>2. classify_return(s.deps[d], code) \subseteq {code, "TARGET_BOOT_INTERRUPTED"}
  BY DEF classify_return
<1>3. PICK refused : refused = [s |-> s, ok |-> FALSE]
  BY Zenon
<1>4. refused.s = s /\ ~refused.ok
  BY <1>3
<1>5. \/ a = answer(code)
      \/ \E label \in classify_return(s.deps[d], code) : a = answer(label)
      \/ a = refused
  BY <1>3, Zenon DEF firmware_progress
<1> HIDE DEF answer
<1> QED
  BY <1>1, <1>2, <1>4, <1>5, Zenon

LEMMA ReportState ==
    ASSUME NEW u, Sound(add, plan.resumes, onHold, u), NEW c, NEW e \in EspRecords,
           e.jdep \in DOMAIN add.deps, NEW st \in Reports, NEW code \in Codes,
           code = "PARTITION_HASH_FAILED" => e.jdep \in u,
           NEW ok \in BOOLEAN, report_state(c, e, st, code, ok)
    PROVE  /\ Sound(add', plan.resumes, onHold, u)
           /\ Answered(add, add', e.jdep, st, ok)
<1>1. PICK t : t = add'
  BY Zenon
<1>2. PICK bytes \in Nat : bytes = e.bytes
  BY DEF EspRecords
<1>3. ASSUME NEW a \in firmware_progress(add, c, e.jdep, st, code, bytes, e.run), t = a.s, ok => a.ok
      PROVE  Sound(t, plan.resumes, onHold, u) /\ Answered(add, t, e.jdep, st, ok)
  <2>1. CASE a.s = add /\ ~a.ok
    BY <1>3, <2>1 DEF Answered
  <2>2. CASE \E label \in {code, "TARGET_BOOT_INTERRUPTED"} :
                /\ a.s = record_progress(add, e.jdep, st, label, bytes, e.run)
                /\ a.ok => Accepts(add, e.jdep, st, bytes, e.run)
    <3>1. PICK label \in {code, "TARGET_BOOT_INTERRUPTED"} :
                /\ a.s = record_progress(add, e.jdep, st, label, bytes, e.run)
                /\ a.ok => Accepts(add, e.jdep, st, bytes, e.run)
      BY <2>2, Zenon
    <3>2. label \in Codes /\ (label = "PARTITION_HASH_FAILED" => e.jdep \in u)
      BY DEF Codes
    <3>0. t = record_progress(add, e.jdep, st, label, bytes, e.run)
      BY <1>3, <3>1, Zenon
    <3>3. /\ Sound(t, plan.resumes, onHold, u)
          /\ t = add \/ Progressed(add, t, e.jdep, st)
          /\ Accepts(add, e.jdep, st, bytes, e.run) => t.deps[e.jdep].st \in Terminal \cup {st}
      BY <3>0, <3>2, SoundProgress, SMT
    <3> QED
      BY <1>3, <3>1, <3>3, Zenon DEF Answered
  <2>3. \/ a.s = add /\ ~a.ok
        \/ \E label \in {code, "TARGET_BOOT_INTERRUPTED"} :
             /\ a.s = record_progress(add, e.jdep, st, label, bytes, e.run)
             /\ a.ok => Accepts(add, e.jdep, st, bytes, e.run)
    BY <1>3, ProgressShape, Zenon
  <2> QED
    BY <2>1, <2>2, <2>3, Zenon
<1>4. CASE \E a \in firmware_progress(add, c, e.jdep, st, code, bytes, e.run) : t = a.s /\ ok = a.ok
  BY <1>1, <1>3, <1>4, Zenon
<1>5. CASE ~ok /\ \E a \in firmware_progress(add, c, e.jdep, st, code, bytes, e.run) : t = a.s
  BY <1>1, <1>3, <1>5, Zenon
<1>6. CASE t = add /\ ~ok
  BY <1>1, <1>6, Zenon DEF Answered
<1>7. PICK refused : refused = [s |-> add, ok |-> FALSE]
  BY Zenon
<1>8. refused.s = add
  BY <1>7
<1>9. \/ \E a \in firmware_progress(add, c, e.jdep, st, code, bytes, e.run) : t = a.s /\ ok = a.ok
      \/ ~ok /\ \E a \in firmware_progress(add, c, e.jdep, st, code, bytes, e.run) : t = a.s
      \/ t = add /\ ~ok
  BY <1>1, <1>2, <1>7, <1>8, Zenon DEF report_state
<1> QED
  BY <1>4, <1>5, <1>6, <1>9

(* A step of ESP c keeps the invariant if it keeps ADD's half and its own. *)
LEMMA OwnStep ==
    ASSUME OtaInv, NEW c \in Connectors, NEW e, NEW h,
           esp' = [esp EXCEPT ![c] = e], hb' = [hb EXCEPT ![c] = h], plan' = plan,
           unverified \subseteq unverified',
           Sound(add', plan.resumes, onHold', unverified'),
           Device(add', c, e, h, unverified'),
           OwnRows(add, add', c), \A b \in Connectors \ {c} : add'.telem[b] = add.telem[b]
    PROVE  OtaInv'
<1>1. /\ plan' \in Plans /\ Sound(add', plan'.resumes, onHold', unverified')
      /\ e \in EspRecords /\ h \in HbRecords
  BY DEF OtaInv, Device
<1>2. /\ esp' \in [Connectors -> EspRecords] /\ hb' \in [Connectors -> HbRecords]
      /\ esp'[c] = e /\ hb'[c] = h
      /\ \A b \in Connectors \ {c} : esp'[b] = esp[b] /\ hb'[b] = hb[b]
  BY <1>1 DEF OtaInv
<1>3. ASSUME NEW b \in Connectors \ {c} PROVE Device(add', b, esp'[b], hb'[b], unverified')
  <2>1. Of(add', b) = Of(add, b) /\ \A d \in Of(add, b) : add'.deps[d] = add.deps[d]
    BY DEF Of, OwnRows
  <2> QED
    BY <1>2, <2>1, SameDevice, SMT DEF OtaInv
<1> QED
  BY <1>1, <1>2, <1>3 DEF OtaInv

LEMMA AnsweredStep ==
    ASSUME NEW u, Sound(add, plan.resumes, onHold, u), NEW c, NEW e, NEW h, Device(add, c, e, h, u),
           e.jdep # 0, NEW st \in Reports, NEW ok, Answered(add, add', e.jdep, st, ok),
           st \in Late => AtBoot(e),
           st = "DOWNLOADING" => e.busy
    PROVE  /\ Device(add', c, e, h, u)
           /\ OwnRows(add, add', c) /\ add'.telem = add.telem
<1>1. CASE add' = add
  BY <1>1 DEF OwnRows
<1>2. CASE Progressed(add, add', e.jdep, st)
  <2>1. Device(add', c, e, h, u)
    BY <1>2, ReportDevice
  <2>2. e.jdep \in DOMAIN add.deps /\ add.deps[e.jdep].con = c
    BY DEF Device, Of
  <2> QED
    BY <1>2, <2>1, <2>2 DEF Progressed, OwnRows
<1> QED
  BY <1>1, <1>2 DEF Answered

LEMMA ReportStep ==
    ASSUME NEW u, Sound(add, plan.resumes, onHold, u), NEW c, NEW e, NEW h, Device(add, c, e, h, u),
           e.jdep # 0, NEW st \in Reports, NEW code \in Codes, code = "PARTITION_HASH_FAILED" => e.jdep \in u,
           NEW ok \in BOOLEAN, report_state(c, e, st, code, ok),
           st \in Late => AtBoot(e),
           st = "DOWNLOADING" => e.busy
    PROVE  /\ Sound(add', plan.resumes, onHold, u)
           /\ Device(add', c, e, h, u)
           /\ OwnRows(add, add', c) /\ add'.telem = add.telem
           /\ ok => add'.deps[e.jdep].st \in Terminal \cup {st}
<1>1. e \in EspRecords /\ e.jdep \in DOMAIN add.deps
  BY DEF Device, Of
<1>2. Sound(add', plan.resumes, onHold, u) /\ Answered(add, add', e.jdep, st, ok)
  BY <1>1, ReportState
<1>3. ok => add'.deps[e.jdep].st \in Terminal \cup {st}
  BY <1>2 DEF Answered
<1>4. Device(add', c, e, h, u) /\ OwnRows(add, add', c) /\ add'.telem = add.telem
  BY <1>2, AnsweredStep
<1> QED
  BY <1>2, <1>3, <1>4

(* A report the ESP makes without looking at the answer. *)
LEMMA UnansweredStep ==
    ASSUME NEW u, Sound(add, plan.resumes, onHold, u), NEW c, NEW e, NEW h, Device(add, c, e, h, u),
           e.jdep # 0, NEW st \in {"FAILED", "DOWNLOADING"}, st = "DOWNLOADING" => e.busy,
           NEW code \in Codes, code # "PARTITION_HASH_FAILED", NEW bytes \in Nat, NEW ver,
           add' \in {add, record_progress(add, e.jdep, st, code, bytes, ver)}
    PROVE  /\ Sound(add', plan.resumes, onHold, u)
           /\ Device(add', c, e, h, u)
           /\ OwnRows(add, add', c) /\ add'.telem = add.telem
<1>1. e.jdep \in DOMAIN add.deps
  BY DEF Device, Of
<1>2. st \in Reports /\ st \notin Late
  BY DEF Reports, Late, Active, Downloading
<1>3. PICK t : t = add'
  BY Zenon
<1>4. Sound(t, plan.resumes, onHold, u) /\ (t = add \/ Progressed(add, t, e.jdep, st))
  <2>1. CASE t = add
    BY <2>1
  <2>2. CASE t = record_progress(add, e.jdep, st, code, bytes, ver)
    BY <1>1, <1>2, <2>2, SoundProgress, SMT
  <2> QED
    BY <1>3, <2>1, <2>2
<1>5. Answered(add, add', e.jdep, st, FALSE)
  BY <1>3, <1>4 DEF Answered
<1> QED
  BY <1>2, <1>3, <1>4, <1>5, AnsweredStep

(* The bootloader's choice. *)
RestartOf(e, f) ==
    /\ f \in EspRecords /\ f.pc = "start" /\ ~f.busy /\ f.err = ""
    /\ f.jst = e.jst /\ f.jdep = e.jdep /\ f.bad = e.bad /\ f.sel = f.run
    /\ e.run = "new" /\ ~e.valid => f.run = "old"
    /\ ~(e.run = "new" /\ ~e.valid) => f.run = e.sel /\ (e.run = "new" => f.valid)

LEMMA RebootFields ==
    ASSUME add \in AddRecords, NEW c, NEW e \in EspRecords, NEW f, f = Rebooted(c, e)
    PROVE  RestartOf(e, f) /\ f.since = {d \in Of(add, c) : add.deps[d].booted}
<1>1. PICK image : image = IF e.run = "new" /\ ~e.valid THEN "old" ELSE e.sel
  BY Zenon
<1>2. PICK valid : valid = (image = "old" \/ (e.run = "new" /\ e.valid))
  BY Zenon
<1>3. PICK boot : boot = (e.boot + 1) % Wrap
  BY Zenon
<1>4. PICK since : since = {d \in Of(add, c) : add.deps[d].booted}
  BY Zenon
<1>5. image \in Images /\ since \subseteq Nat
  <2>1. DOMAIN add.deps \subseteq Nat
    BY Tables, SMT
  <2> QED
    BY <1>1, <1>4, <2>1 DEF EspRecords, Images, Of
<1>6. boot \in Nat
  BY <1>3, OtaAssumption, SMT DEF EspRecords
<1>7. valid \in BOOLEAN
  BY <1>2, Zenon
<1>8. f = [e EXCEPT !.run = image, !.sel = image, !.valid = valid,
                    !.pc = "start", !.busy = FALSE, !.err = "", !.errDep = 0, !.ack = FALSE,
                    !.boot = boot, !.since = since]
  BY <1>1, <1>2, <1>3, <1>4, Zenon DEF Rebooted
<1>9. /\ f \in EspRecords /\ f.pc = "start" /\ ~f.busy /\ f.err = "" /\ f.sel = image /\ f.run = image
      /\ f.jst = e.jst /\ f.jdep = e.jdep /\ f.bad = e.bad /\ f.since = since /\ f.valid = valid
  <2>1. "" \in Errors /\ FALSE \in BOOLEAN /\ 0 \in Nat
    BY DEF Errors
  <2>2. f \in EspRecords
    <3>1. PICK g : g = [e EXCEPT !.run = image, !.sel = image, !.valid = valid, !.pc = "start"]
      BY Zenon
    <3>2. g \in EspRecords
      BY <1>5, <1>7, <3>1 DEF EspRecords
    <3>3. PICK k : k = [g EXCEPT !.busy = FALSE, !.err = "", !.errDep = 0, !.ack = FALSE]
      BY Zenon
    <3>4. k \in EspRecords
      BY <2>1, <3>2, <3>3 DEF EspRecords
    <3>5. f = [k EXCEPT !.boot = boot, !.since = since]
      BY <1>8, <3>1, <3>3, Zenon
    <3> QED
      BY <1>5, <1>6, <3>4, <3>5 DEF EspRecords
  <2>3. f.pc = "start" /\ ~f.busy /\ f.err = "" /\ f.sel = image /\ f.run = image
    BY <1>8 DEF EspRecords
  <2>4. f.jst = e.jst /\ f.jdep = e.jdep /\ f.bad = e.bad /\ f.since = since /\ f.valid = valid
    BY <1>8, SMT DEF EspRecords
  <2> QED
    BY <2>2, <2>3, <2>4
<1>10. IF e.run = "new" /\ ~e.valid THEN image = "old" ELSE image = e.sel /\ (e.run = "new" => valid)
  BY <1>1, <1>2, Zenon
<1> QED
  BY <1>4, <1>9, <1>10, Zenon DEF RestartOf

LEMMA RebootDevice ==
    ASSUME add \in AddRecords, NEW c, NEW e, NEW h, NEW u, Device(add, c, e, h, u), e.pc # "off",
           NEW f, f = Rebooted(c, e)
    PROVE  Device(add, c, f, h, u)
<1>1. e \in EspRecords /\ h \in HbRecords /\ Task(e)
  BY DEF Device
<1>2. RestartOf(e, f) /\ f.since = {d \in Of(add, c) : add.deps[d].booted}
  BY <1>1, RebootFields
<1>3. Task(f)
  BY <1>1, <1>2 DEF RestartOf, Task
<1>4. Journalled(add, c, f)
  BY <1>2 DEF RestartOf, Device, Journalled, AtBoot
<1>5. Truthful(add, c, f, h, u)
  <2>1. ASSUME NEW d \in h.since, h.st # "NONE", h.ver = "old",
               add.deps[d].st \in {"BOOTED_PENDING", "RECONCILING"}
        PROVE  f.run = "old"
    <3>1. d \in Of(add, c) /\ e.run = "old"
      BY <2>1 DEF Device, Truthful
    <3>2. add.deps[d].st \in Late
      BY <2>1 DEF Late, Active, Downloading
    <3>3. e.pc # "selected"
      BY <1>1, <3>1, <3>2 DEF Device, Journalled, AtBoot, Task
    <3> QED
      BY <1>1, <1>2, <3>1, <3>3 DEF RestartOf, Task
  <2> QED
    BY <1>2, <2>1 DEF RestartOf, Device, Truthful
<1> QED
  BY <1>1, <1>2, <1>3, <1>4, <1>5 DEF RestartOf, Device

(* A step of ESP c that leaves the heartbeat on the way alone. *)
LEMMA EspStep ==
    ASSUME OtaInv, NEW c \in Connectors, NEW e, Become(c, e), DeviceOnly,
           Sound(add', plan.resumes, onHold, unverified),
           Device(add', c, e, hb[c], unverified),
           OwnRows(add, add', c), add'.telem = add.telem
    PROVE  OtaInv'
<1>1. esp' = [esp EXCEPT ![c] = e] /\ hb' = [hb EXCEPT ![c] = hb[c]]
  BY DEF Become, DeviceOnly, OtaInv
<1> QED
  BY <1>1, OwnStep DEF DeviceOnly

LEMMA SameRows ==
    ASSUME NEW c
    PROVE  OwnRows(add, add, c)
  BY DEF OwnRows

-----------------------------------------------------------------------------
(* The steps of the ESP's task. *)

LEMMA StartStep ==
    ASSUME OtaInv, NEW c \in Connectors, ota_task(c)
    PROVE  OtaInv'
<1>1. PICK e : e = esp[c]
  BY Zenon
<1>2. Device(add, c, e, hb[c], unverified) /\ e \in EspRecords /\ Task(e)
  BY <1>1 DEF OtaInv, Device
<1>3. PICK f : f = [e EXCEPT !.pc = IF e.jst = "READY_TO_BOOT" THEN "confirm" ELSE "poll"]
  BY Zenon
<1>4. e.pc = "start" /\ (e.jst # "READY_TO_BOOT" \/ (e.run = "new" /\ ~e.valid)) /\ Become(c, f)
  BY <1>1, <1>3, Zenon DEF ota_task
<1>5. /\ f \in EspRecords /\ f.pc = IF e.jst = "READY_TO_BOOT" THEN "confirm" ELSE "poll"
      /\ f.run = e.run /\ f.valid = e.valid /\ f.sel = e.sel /\ f.busy = e.busy /\ f.jst = e.jst
      /\ f.jdep = e.jdep /\ f.bad = e.bad /\ f.err = e.err /\ f.since = e.since
  BY <1>2, <1>3 DEF EspRecords
<1>6. Task(f)
  BY <1>2, <1>4, <1>5 DEF Task
<1>7. Journalled(add, c, f) /\ Truthful(add, c, f, hb[c], unverified)
  BY <1>2, <1>4, <1>5 DEF Device, Journalled, AtBoot, Truthful
<1>8. ~(e.err = "PARTITION_HASH_FAILED")
  BY <1>2, <1>4 DEF Task
<1>9. Device(add, c, f, hb[c], unverified)
  BY <1>2, <1>5, <1>6, <1>7, <1>8 DEF Device
<1>10. add' = add /\ DeviceOnly
  BY DEF ota_task
<1> QED
  BY <1>4, <1>9, <1>10, EspStep, SameRows DEF OtaInv

(* The journal is cleared once its deployment is settled. *)
LEMMA ClearedDevice ==
    ASSUME NEW s, NEW c, NEW e, NEW h, NEW u, Device(s, c, e, h, u),
           s.deps[e.jdep].st \in Terminal, ~e.busy, e.err # "PARTITION_HASH_FAILED",
           e.sel = e.run,
           NEW f, f = [clear_journal(e) EXCEPT !.pc = "poll"]
    PROVE  Device(s, c, f, h, u)
<1>1. e \in EspRecords /\ Task(e)
  BY DEF Device
<1>2. /\ f \in EspRecords /\ f.pc = "poll" /\ f.jst = "IDLE" /\ f.jdep = 0
      /\ f.run = e.run /\ f.valid = e.valid /\ f.sel = e.sel /\ f.busy = e.busy
      /\ f.bad = e.bad /\ f.err = e.err /\ f.since = e.since
  BY <1>1 DEF EspRecords, clear_journal, JournalStates
<1>3. Task(f)
  BY <1>1, <1>2 DEF Task
<1>4. \A d \in Of(s, c) : s.deps[d].st \notin Late \cup {"DOWNLOADING"}
  BY DEF Device, Journalled, Terminal, Late, Active, Downloading
<1>5. Journalled(s, c, f)
  BY <1>4 DEF Journalled
<1>6. Truthful(s, c, f, h, u)
  BY <1>2, <1>4 DEF Device, Truthful
<1> QED
  BY <1>2, <1>3, <1>5, <1>6 DEF Device

(* The ESP moves on with the same journal entry and image. *)
LEMMA EspDevice ==
    ASSUME NEW s, NEW c, NEW e, NEW h, NEW u, Device(s, c, e, h, u), NEW f \in EspRecords, Task(f),
           f.jdep = e.jdep, f.since = e.since, f.run = e.run, f.busy => e.busy,
           f.jst \in {"READY_TO_BOOT", "RECONCILING"} => e.jst \in {"READY_TO_BOOT", "RECONCILING"},
           AtBoot(e) => AtBoot(f),
           ~f.busy /\ f.pc # "off" /\ f.err = "PARTITION_HASH_FAILED" => f.jdep \in u
    PROVE  Device(s, c, f, h, u)
<1>1. Journalled(s, c, f)
  BY DEF Device, Journalled
<1>2. Truthful(s, c, f, h, u)
  BY DEF Device, Truthful
<1> QED
  BY <1>1, <1>2 DEF Device

LEMMA RollbackStep ==
    ASSUME OtaInv, NEW c \in Connectors, report_rollback(c)
    PROVE  OtaInv'
<1>1. PICK e : e = esp[c]
  BY Zenon
<1>2. Device(add, c, e, hb[c], unverified) /\ e \in EspRecords /\ Task(e)
  BY <1>1 DEF OtaInv, Device
<1>3. PICK ok \in BOOLEAN :
        /\ report_state(c, e, "ROLLED_BACK", "BOOTLOADER_ROLLBACK", ok)
        /\ Become(c, IF ok THEN [clear_journal(e) EXCEPT !.pc = "poll"] ELSE e)
  BY <1>1, Zenon DEF report_rollback
<1>4. e.pc = "start" /\ e.jst = "READY_TO_BOOT" /\ DeviceOnly
  BY <1>1, Zenon DEF report_rollback
<1>5. e.jdep # 0 /\ ~e.busy /\ e.err # "PARTITION_HASH_FAILED" /\ e.sel = e.run
  BY <1>2, <1>4 DEF Task
<1>6. "ROLLED_BACK" \in Reports /\ "ROLLED_BACK" \notin Late /\ "BOOTLOADER_ROLLBACK" \in Codes
  BY DEF Reports, Late, Active, Downloading, Codes
<1>7. /\ Sound(add', plan.resumes, onHold, unverified)
      /\ Device(add', c, e, hb[c], unverified)
      /\ OwnRows(add, add', c) /\ add'.telem = add.telem
      /\ ok => add'.deps[e.jdep].st \in Terminal \cup {"ROLLED_BACK"}
  BY <1>2, <1>3, <1>5, <1>6, ReportStep, SMT DEF OtaInv
<1>8. CASE ok
  <2>1. PICK f : f = [clear_journal(e) EXCEPT !.pc = "poll"]
    BY Zenon
  <2>2. Device(add', c, f, hb[c], unverified)
    BY <1>5, <1>7, <1>8, <2>1, ClearedDevice DEF Terminal
  <2>3. Become(c, f)
    BY <1>3, <1>8, <2>1, Zenon
  <2> QED
    BY <1>4, <1>7, <2>2, <2>3, EspStep
<1>9. CASE ~ok
  <2>1. Become(c, e)
    BY <1>3, <1>9, Zenon
  <2> QED
    BY <1>4, <1>7, <2>1, EspStep
<1> QED
  BY <1>8, <1>9

LEMMA ReconcilingStep ==
    ASSUME OtaInv, NEW c \in Connectors, resume_reconciling(c)
    PROVE  OtaInv'
<1>1. PICK e : e = esp[c]
  BY Zenon
<1>2. Device(add, c, e, hb[c], unverified) /\ e \in EspRecords /\ Task(e)
  BY <1>1 DEF OtaInv, Device
<1>3. PICK f : f = [e EXCEPT !.jst = "RECONCILING", !.pc = "poll"]
  BY Zenon
<1>4. PICK ok \in BOOLEAN : report_state(c, f, "RECONCILING", "", ok)
  BY <1>1, <1>3, Zenon DEF resume_reconciling
<1>5. /\ Become(c, f) /\ DeviceOnly
      /\ e.pc = "marked" \/ (e.pc = "start" /\ e.jst = "READY_TO_BOOT" /\ e.run = "new" /\ e.valid)
  BY <1>1, <1>3, Zenon DEF resume_reconciling
<1>6. e.jst = "READY_TO_BOOT" /\ e.run = "new" /\ e.valid /\ e.pc \notin {"selected", "off"} /\ e.jdep # 0 /\ ~e.busy
  BY <1>2, <1>5 DEF Task
<1>7. /\ f \in EspRecords /\ f.pc = "poll" /\ f.jst = "RECONCILING"
      /\ f.run = e.run /\ f.valid = e.valid /\ f.sel = e.sel /\ f.busy = e.busy
      /\ f.jdep = e.jdep /\ f.bad = e.bad /\ f.err = e.err /\ f.since = e.since
  BY <1>2, <1>3 DEF EspRecords, JournalStates
<1>8. Task(f) /\ f.err # "PARTITION_HASH_FAILED"
  BY <1>2, <1>6, <1>7 DEF Task
<1>9. Device(add, c, f, hb[c], unverified)
  BY <1>2, <1>6, <1>7, <1>8, EspDevice DEF AtBoot
<1>10. "RECONCILING" \in Reports /\ "" \in Codes /\ AtBoot(f) /\ f.jdep # 0
  BY <1>6, <1>7 DEF Reports, Codes, Errors, AtBoot
<1>11. /\ Sound(add', plan.resumes, onHold, unverified)
       /\ Device(add', c, f, hb[c], unverified)
       /\ OwnRows(add, add', c) /\ add'.telem = add.telem
  BY <1>4, <1>9, <1>10, ReportStep DEF OtaInv
<1> QED
  BY <1>5, <1>11, EspStep

(* The boot report, first and confirmed, before the image is marked valid. *)
LEMMA BootedStep ==
    ASSUME OtaInv, NEW c \in Connectors, report_booted(c) \/ confirm_boot(c)
    PROVE  OtaInv'
<1>1. PICK e : e = esp[c]
  BY Zenon
<1>2. Device(add, c, e, hb[c], unverified) /\ e \in EspRecords /\ Task(e)
  BY <1>1 DEF OtaInv, Device
<1>3. PICK ok \in BOOLEAN, code \in {"WAITING_FOR_RUNTIME_HEALTH", "RUNTIME_HEALTHY"} :
        /\ report_state(c, e, "BOOTED_PENDING", code, ok)
        /\ \E g \in {e, [e EXCEPT !.ack = ok], [e EXCEPT !.valid = TRUE, !.pc = "marked"]} : Become(c, g)
  BY <1>1, Zenon DEF report_booted, confirm_boot
<1>4. PICK f \in {e, [e EXCEPT !.ack = ok], [e EXCEPT !.valid = TRUE, !.pc = "marked"]} : Become(c, f)
  BY <1>3, Zenon
<1>5. e.pc = "confirm" /\ DeviceOnly
  BY <1>1, Zenon DEF report_booted, confirm_boot
<1>6. e.jst = "READY_TO_BOOT" /\ e.run = "new" /\ e.jdep # 0 /\ ~e.busy
  BY <1>2, <1>5 DEF Task
<1>7. "BOOTED_PENDING" \in Reports /\ code \in Codes /\ code # "PARTITION_HASH_FAILED" /\ AtBoot(e)
  BY <1>5, <1>6 DEF Reports, Codes, AtBoot
<1>8. /\ Sound(add', plan.resumes, onHold, unverified)
      /\ Device(add', c, e, hb[c], unverified)
      /\ OwnRows(add, add', c) /\ add'.telem = add.telem
  BY <1>2, <1>3, <1>6, <1>7, ReportStep, SMT DEF OtaInv
<1>9. /\ f \in EspRecords
      /\ (f.pc = e.pc /\ f.valid = e.valid) \/ (f.pc = "marked" /\ f.valid)
      /\ f.run = e.run /\ f.sel = e.sel /\ f.busy = e.busy /\ f.jst = e.jst
      /\ f.jdep = e.jdep /\ f.bad = e.bad /\ f.err = e.err /\ f.since = e.since
  <2>1. CASE f = e
    BY <1>2, <2>1
  <2>2. CASE f = [e EXCEPT !.ack = ok]
    BY <1>2, <2>2 DEF EspRecords
  <2>3. CASE f = [e EXCEPT !.valid = TRUE, !.pc = "marked"]
    BY <1>2, <2>3 DEF EspRecords
  <2> QED
    BY <1>4, <2>1, <2>2, <2>3
<1>10. Task(f) /\ f.err # "PARTITION_HASH_FAILED"
  BY <1>2, <1>5, <1>6, <1>9 DEF Task
<1>11. Device(add', c, f, hb[c], unverified)
  BY <1>5, <1>6, <1>8, <1>9, <1>10, EspDevice, SMT DEF AtBoot
<1> QED
  BY <1>5, <1>8, <1>11, <1>4, EspStep

LEMMA ExpiredStep ==
    ASSUME OtaInv, NEW c \in Connectors, confirm_expired(c)
    PROVE  OtaInv'
<1>1. PICK e : e = esp[c]
  BY Zenon
<1>2. Device(add, c, e, hb[c], unverified) /\ e \in EspRecords /\ Task(e) /\ add \in AddRecords
  BY <1>1 DEF OtaInv, Device, Sound
<1>3. PICK f : f = Rebooted(c, e)
  BY Zenon
<1>4. /\ e.pc = "confirm" /\ Become(c, f) /\ DeviceOnly
      /\ add' \in {add, record_progress(add, e.jdep, "FAILED", "BOOT_HEALTH_TIMEOUT", e.bytes, e.run)}
  BY <1>1, <1>3, Zenon DEF confirm_expired
<1>5. Device(add, c, f, hb[c], unverified)
  BY <1>2, <1>3, <1>4, RebootDevice
<1>6. RestartOf(e, f)
  BY <1>2, <1>3, RebootFields
<1>7. f.jdep = e.jdep /\ f.jdep # 0
  BY <1>2, <1>4, <1>6 DEF RestartOf, Task
<1>8. PICK st \in {"FAILED", "DOWNLOADING"}, code \in Codes : st = "FAILED" /\ code = "BOOT_HEALTH_TIMEOUT"
  BY DEF Codes
<1>9. /\ add' \in {add, record_progress(add, f.jdep, st, code, e.bytes, e.run)} /\ e.bytes \in Nat
      /\ st # "DOWNLOADING" /\ code # "PARTITION_HASH_FAILED"
      /\ Sound(add, plan.resumes, onHold, unverified)
  BY <1>2, <1>4, <1>7, <1>8 DEF EspRecords, OtaInv
<1>10. /\ Sound(add', plan.resumes, onHold, unverified)
      /\ Device(add', c, f, hb[c], unverified)
      /\ OwnRows(add, add', c) /\ add'.telem = add.telem
  BY <1>5, <1>7, <1>9, UnansweredStep, SMT
<1> QED
  BY <1>4, <1>10, EspStep

LEMMA AcknowledgeStep ==
    ASSUME OtaInv, NEW c \in Connectors, acknowledge_pending_success(c)
    PROVE  OtaInv'
<1>1. PICK e : e = esp[c]
  BY Zenon
<1>2. Device(add, c, e, hb[c], unverified) /\ e \in EspRecords /\ Task(e)
  BY <1>1 DEF OtaInv, Device
<1>3. /\ e.jst = "RECONCILING" /\ DeviceOnly
      /\ \/ /\ e.pc = "poll"
            /\ \E ok \in BOOLEAN : /\ report_state(c, e, "RECONCILING", "", ok)
                                   /\ Become(c, IF ok THEN [e EXCEPT !.pc = "ack"] ELSE e)
         \/ /\ e.pc = "ack"
            /\ \E ok \in BOOLEAN : /\ report_state(c, e, "SUCCEEDED", "", ok)
                                   /\ Become(c, [(IF ok THEN clear_journal(e) ELSE e) EXCEPT !.pc = "poll"])
  BY <1>1, Zenon DEF acknowledge_pending_success
<1>4. /\ e.jdep # 0 /\ AtBoot(e) /\ e.run = "new" /\ e.sel = "new"
      /\ e.pc \in {"poll", "ack"} => ~e.busy /\ e.err # "PARTITION_HASH_FAILED"
  BY <1>2, <1>3 DEF Task, AtBoot
<1>5. /\ "RECONCILING" \in Reports /\ "SUCCEEDED" \in Reports /\ "SUCCEEDED" \notin Late
      /\ "" \in Codes /\ "SUCCEEDED" \in Terminal
  BY DEF Reports, Late, Active, Downloading, Codes, Errors, Terminal
<1>6. ASSUME NEW pc \in {"poll", "ack"}, NEW f, f = [e EXCEPT !.pc = pc], e.pc \in {"poll", "ack"},
             Device(add', c, e, hb[c], unverified)
      PROVE  Device(add', c, f, hb[c], unverified)
  <2>1. /\ f \in EspRecords /\ f.pc = pc /\ f.jst = "RECONCILING"
        /\ f.run = e.run /\ f.valid = e.valid /\ f.sel = e.sel /\ f.busy = e.busy
        /\ f.jdep = e.jdep /\ f.bad = e.bad /\ f.err = e.err /\ f.since = e.since
    BY <1>2, <1>3, <1>6 DEF EspRecords
  <2>2. Task(f)
    BY <1>2, <1>3, <1>4, <1>6, <2>1 DEF Task
  <2> QED
    BY <1>3, <1>4, <1>6, <2>1, <2>2, EspDevice DEF AtBoot
<1>7. CASE e.pc = "poll"
  <2>1. PICK ok \in BOOLEAN : /\ report_state(c, e, "RECONCILING", "", ok)
                              /\ Become(c, IF ok THEN [e EXCEPT !.pc = "ack"] ELSE e)
    BY <1>3, <1>7
  <2>2. /\ Sound(add', plan.resumes, onHold, unverified)
        /\ Device(add', c, e, hb[c], unverified)
        /\ OwnRows(add, add', c) /\ add'.telem = add.telem
    <3>1. PICK st \in Reports, code \in Codes : st = "RECONCILING" /\ code = ""
      BY <1>5
    <3>2. report_state(c, e, st, code, ok)
      BY <2>1, <3>1
    <3>3. /\ st \in Late => AtBoot(e)
          /\ st = "DOWNLOADING" => e.busy
          /\ code = "PARTITION_HASH_FAILED" => e.jdep \in unverified
      BY <1>4, <3>1
    <3>4. Sound(add, plan.resumes, onHold, unverified)
      BY DEF OtaInv
    <3> QED
      BY <1>2, <1>4, <3>2, <3>3, <3>4, ReportStep, SMT
  <2>3. PICK f : f = IF ok THEN [e EXCEPT !.pc = "ack"] ELSE e
    BY Zenon
  <2>4. f = e \/ f = [e EXCEPT !.pc = "ack"]
    BY <2>3
  <2>5. Device(add', c, f, hb[c], unverified)
    BY <1>6, <1>7, <2>2, <2>4
  <2>6. Become(c, f)
    BY <2>1, <2>3, Zenon
  <2> QED
    BY <1>3, <2>2, <2>5, <2>6, EspStep
<1>8. CASE e.pc = "ack"
  <2>1. PICK ok \in BOOLEAN : /\ report_state(c, e, "SUCCEEDED", "", ok)
                              /\ Become(c, [(IF ok THEN clear_journal(e) ELSE e) EXCEPT !.pc = "poll"])
    BY <1>3, <1>8
  <2>2. /\ Sound(add', plan.resumes, onHold, unverified)
        /\ Device(add', c, e, hb[c], unverified)
        /\ OwnRows(add, add', c) /\ add'.telem = add.telem
        /\ ok => add'.deps[e.jdep].st \in Terminal \cup {"SUCCEEDED"}
    BY <1>2, <1>4, <1>5, <2>1, ReportStep DEF OtaInv
  <2>3. CASE ok
    <3>1. PICK f : f = [clear_journal(e) EXCEPT !.pc = "poll"]
      BY Zenon
    <3>2. Device(add', c, f, hb[c], unverified)
      BY <1>4, <1>5, <1>8, <2>2, <2>3, <3>1, ClearedDevice
    <3>3. Become(c, f)
      BY <2>1, <2>3, <3>1, Zenon
    <3> QED
      BY <1>3, <2>2, <3>2, <3>3, EspStep
  <2>4. CASE ~ok
    <3>1. PICK f : f = [e EXCEPT !.pc = "poll"]
      BY Zenon
    <3>2. Device(add', c, f, hb[c], unverified)
      BY <1>6, <1>8, <2>2, <3>1
    <3>3. Become(c, f)
      BY <2>1, <2>4, <3>1, Zenon
    <3> QED
      BY <1>3, <2>2, <3>2, <3>3, EspStep
  <2> QED
    BY <2>3, <2>4
<1> QED
  BY <1>3, <1>7, <1>8

(* A download that ends without an image. *)
LEMMA StoppedDevice ==
    ASSUME NEW s, NEW c, NEW e, NEW h, NEW u, Device(s, c, e, h, u), e.pc \in {"download", "ready"},
           NEW err \in Errors, err # "PARTITION_HASH_FAILED", NEW f, f = Stopped(e, err)
    PROVE  Device(s, c, f, h, u)
<1>1. e \in EspRecords /\ Task(e)
  BY DEF Device
<1>2. /\ f \in EspRecords /\ f.pc = "poll" /\ ~f.busy /\ f.err = err /\ f.jst = e.jst
      /\ f.run = e.run /\ f.valid = e.valid /\ f.sel = e.sel
      /\ f.jdep = e.jdep /\ f.bad = e.bad /\ f.since = e.since
  BY <1>1 DEF EspRecords, Stopped
<1>3. Task(f)
  BY <1>1, <1>2 DEF Task
<1>4. ~AtBoot(e)
  BY <1>1 DEF AtBoot, Task
<1> QED
  BY <1>2, <1>3, <1>4, EspDevice

LEMMA BlockStep ==
    ASSUME OtaInv, NEW c \in Connectors, download_block(c)
    PROVE  OtaInv'
<1>1. PICK e : e = esp[c]
  BY Zenon
<1>2. Device(add, c, e, hb[c], unverified) /\ e \in EspRecords /\ Task(e)
  BY <1>1 DEF OtaInv, Device
<1>3. PICK spoilt \in BOOLEAN :
        LET f == [e EXCEPT !.bytes = @ + 1, !.bad = @ \/ spoilt]
        IN  /\ e.pc = "download"
            /\ \/ add' = record_progress(add, f.jdep, "DOWNLOADING", "", f.bytes, f.run)
               \/ \E ok \in BOOLEAN : report_state(c, f, "DOWNLOADING", "", ok)
            /\ Become(c, f)
            /\ DeviceOnly
  BY <1>1, Zenon DEF download_block
<1>4. PICK n : n = e.bytes + 1
  BY Zenon
<1>5. PICK b : b = (e.bad \/ spoilt)
  BY Zenon
<1>6. n \in Nat /\ b \in BOOLEAN
  <2>1. n \in Nat
    BY <1>2, <1>4, SMT DEF EspRecords
  <2>2. b \in BOOLEAN
    BY <1>5, Zenon
  <2> QED
    BY <2>1, <2>2
<1>7. PICK f : f = [e EXCEPT !.bytes = n, !.bad = b]
  BY Zenon
<1>8. /\ e.pc = "download" /\ Become(c, f) /\ DeviceOnly
      /\ \/ add' = record_progress(add, f.jdep, "DOWNLOADING", "", f.bytes, f.run)
         \/ \E ok \in BOOLEAN : report_state(c, f, "DOWNLOADING", "", ok)
  BY <1>3, <1>4, <1>5, <1>7, Zenon
<1>9. /\ f \in EspRecords /\ f.pc = e.pc /\ f.busy = e.busy /\ f.err = e.err /\ f.jst = e.jst
      /\ f.run = e.run /\ f.valid = e.valid /\ f.sel = e.sel /\ f.bytes \in Nat
      /\ f.jdep = e.jdep /\ f.since = e.since
  BY <1>2, <1>6, <1>7 DEF EspRecords
<1>10. Task(f) /\ f.busy /\ f.jdep # 0 /\ ~AtBoot(e)
  BY <1>2, <1>8, <1>9 DEF Task, AtBoot
<1>11. Device(add, c, f, hb[c], unverified)
  BY <1>2, <1>9, <1>10, EspDevice
<1>12. "DOWNLOADING" \in Reports /\ "DOWNLOADING" \notin Late /\ "" \in Codes
  BY DEF Reports, Late, Active, Downloading, Codes, Errors
<1>13. Sound(add, plan.resumes, onHold, unverified)
  BY DEF OtaInv
<1>14. /\ Sound(add', plan.resumes, onHold, unverified)
       /\ Device(add', c, f, hb[c], unverified)
       /\ OwnRows(add, add', c) /\ add'.telem = add.telem
  <2>1. CASE add' = record_progress(add, f.jdep, "DOWNLOADING", "", f.bytes, f.run)
    <3>1. PICK st : st = "DOWNLOADING"
      BY Zenon
    <3>2. PICK code : code = ""
      BY Zenon
    <3>3. /\ st \in {"FAILED", "DOWNLOADING"} /\ (st = "DOWNLOADING" => f.busy)
          /\ code \in Codes /\ code # "PARTITION_HASH_FAILED"
      BY <1>10, <1>12, <3>1, <3>2
    <3>4. add' \in {add, record_progress(add, f.jdep, st, code, f.bytes, f.run)}
      BY <2>1, <3>1, <3>2
    <3> QED
      BY <1>9, <1>10, <1>11, <1>13, <3>3, <3>4, UnansweredStep, SMT
  <2>2. CASE \E ok \in BOOLEAN : report_state(c, f, "DOWNLOADING", "", ok)
    <3>1. PICK ok \in BOOLEAN : report_state(c, f, "DOWNLOADING", "", ok)
      BY <2>2
    <3>2. PICK st \in Reports, code \in Codes : st = "DOWNLOADING" /\ code = ""
      BY <1>12
    <3>3. report_state(c, f, st, code, ok)
      BY <3>1, <3>2
    <3>4. /\ st \in Late => AtBoot(f)
          /\ st = "DOWNLOADING" => f.busy
          /\ code = "PARTITION_HASH_FAILED" => f.jdep \in unverified
      BY <1>10, <1>12, <3>2
    <3> QED
      BY <1>10, <1>11, <1>13, <3>3, <3>4, ReportStep, SMT
  <2> QED
    BY <1>8, <2>1, <2>2
<1> QED
  BY <1>8, <1>14, EspStep

LEMMA StopsStep ==
    ASSUME OtaInv, NEW c \in Connectors, download_stops(c) \/ download_refused(c)
    PROVE  OtaInv'
<1>1. PICK e : e = esp[c]
  BY Zenon
<1>2. Device(add, c, e, hb[c], unverified) /\ e \in EspRecords /\ Task(e)
  BY <1>1 DEF OtaInv, Device
<1>3. PICK err \in {"DOWNLOAD_INCOMPLETE", "IMAGE_REFUSED"} :
        /\ e.pc = "download" /\ Become(c, Stopped(e, err)) /\ DeviceOnly
        /\ add' \in {add, record_progress(add, e.jdep, "FAILED", "IMAGE_REFUSED", e.bytes, e.run)}
  BY <1>1 DEF download_stops, download_refused
<1>4. e.jdep # 0 /\ e.bytes \in Nat /\ "IMAGE_REFUSED" \in Codes /\ err \in Errors
  BY <1>2, <1>3 DEF Task, EspRecords, Codes, Errors
<1>5. /\ Sound(add', plan.resumes, onHold, unverified)
      /\ Device(add', c, e, hb[c], unverified)
      /\ OwnRows(add, add', c) /\ add'.telem = add.telem
  <2>1. Sound(add, plan.resumes, onHold, unverified)
    BY DEF OtaInv
  <2> QED
    BY <1>2, <1>3, <1>4, <2>1, UnansweredStep, SMT
<1>6. PICK f : f = Stopped(e, err)
  BY Zenon
<1>7. Device(add', c, f, hb[c], unverified)
  BY <1>3, <1>4, <1>5, <1>6, StoppedDevice
<1> QED
  BY <1>3, <1>5, <1>6, <1>7, EspStep

(* An image that verifies: no heartbeat of an earlier attempt is on its way. *)
LEMMA VerifiedStep ==
    ASSUME OtaInv, NEW c \in Connectors, perform_update(c), WrittenImageVerifies(esp[c])
    PROVE  OtaInv'
<1>1. PICK e : e = esp[c]
  BY Zenon
<1>2. /\ Device(add, c, e, hb[c], unverified) /\ e \in EspRecords /\ hb[c] \in HbRecords /\ Task(e)
      /\ Sound(add, plan.resumes, onHold, unverified)
  BY <1>1 DEF OtaInv, Device
<1>3. PICK f : f = [e EXCEPT !.jst = "READY_TO_BOOT", !.pc = "ready"]
  BY Zenon
<1>4. /\ e.pc = "download" /\ HeartbeatsSettled(c) /\ ~e.bad
      /\ Become(c, f) /\ add' = add /\ unverified' = unverified
      /\ UNCHANGED <<hb, plan, controls, onHold>>
  BY <1>1, <1>3 DEF perform_update, WrittenImageVerifies
<1>5. /\ f \in EspRecords /\ f.pc = "ready" /\ f.jst = "READY_TO_BOOT" /\ f.busy = e.busy /\ f.err = e.err
      /\ f.run = e.run /\ f.valid = e.valid /\ f.sel = e.sel /\ f.bad = e.bad
      /\ f.jdep = e.jdep /\ f.since = e.since
  BY <1>2, <1>3 DEF EspRecords, JournalStates
<1>6. Task(f) /\ ~AtBoot(e) /\ e.busy
  BY <1>2, <1>4, <1>5 DEF Task, AtBoot
<1>7. hb[c].st \in {"NONE", "UPDATING"}
  BY <1>2, <1>4, <1>6 DEF Device, Truthful, HeartbeatsSettled
<1>8. Journalled(add, c, f) /\ Truthful(add, c, f, hb[c], unverified)
  BY <1>2, <1>5, <1>6, <1>7 DEF Device, Journalled, Truthful
<1>9. Device(add, c, f, hb[c], unverified)
  BY <1>2, <1>5, <1>6, <1>8 DEF Device
<1>10. DeviceOnly
  BY <1>4 DEF DeviceOnly
<1> QED
  BY <1>2, <1>4, <1>9, <1>10, EspStep, SameRows

(* One that does not: its deployment is on record before ADD is told. *)
LEMMA UnverifiedStep ==
    ASSUME OtaInv, NEW c \in Connectors, perform_update(c), ~WrittenImageVerifies(esp[c])
    PROVE  OtaInv'
<1>1. PICK e : e = esp[c]
  BY Zenon
<1>2. /\ Device(add, c, e, hb[c], unverified) /\ e \in EspRecords /\ Task(e)
      /\ Sound(add, plan.resumes, onHold, unverified)
  BY <1>1 DEF OtaInv, Device
<1>3. PICK f : f = [Stopped(e, "PARTITION_HASH_FAILED") EXCEPT !.bytes = 0, !.bad = FALSE]
  BY Zenon
<1>4. /\ e.pc = "download" /\ Become(c, f) /\ unverified' = unverified \cup {e.jdep}
      /\ UNCHANGED <<hb, plan, controls, onHold>>
      /\ \E ok \in BOOLEAN : report_state(c, f, "FAILED", "PARTITION_HASH_FAILED", ok)
  BY <1>1, <1>3, Zenon DEF perform_update
<1>5. /\ f \in EspRecords /\ f.pc = "poll" /\ ~f.busy /\ f.err = "PARTITION_HASH_FAILED" /\ f.jst = e.jst
      /\ f.run = e.run /\ f.valid = e.valid /\ f.sel = e.sel
      /\ f.jdep = e.jdep /\ f.since = e.since
  BY <1>2, <1>3 DEF EspRecords, Stopped, Errors
<1>6. Task(f) /\ ~AtBoot(e) /\ f.jdep # 0
  BY <1>2, <1>4, <1>5 DEF Task, AtBoot
<1>7. PICK u : u = unverified'
  BY Zenon
<1>8. unverified \subseteq u /\ f.jdep \in u
  BY <1>4, <1>5, <1>7
<1>9. Sound(add, plan.resumes, onHold, u) /\ Device(add, c, e, hb[c], u)
  BY <1>2, <1>8, SoundGrows, SameDevice
<1>10. Device(add, c, f, hb[c], u)
  BY <1>5, <1>6, <1>8, <1>9, EspDevice
<1>11. "FAILED" \in Reports /\ "FAILED" \notin Late /\ "PARTITION_HASH_FAILED" \in Codes
  BY DEF Reports, Late, Active, Downloading, Codes, Errors
<1>12. PICK ok \in BOOLEAN : report_state(c, f, "FAILED", "PARTITION_HASH_FAILED", ok)
  BY <1>4
<1>13. /\ Sound(add', plan.resumes, onHold, u)
       /\ Device(add', c, f, hb[c], u)
       /\ OwnRows(add, add', c) /\ add'.telem = add.telem
  BY <1>6, <1>8, <1>9, <1>10, <1>11, <1>12, ReportStep, SMT
<1>14. hb' = [hb EXCEPT ![c] = hb[c]] /\ esp' = [esp EXCEPT ![c] = f] /\ plan' = plan /\ onHold' = onHold
  BY <1>4 DEF OtaInv, Become
<1> QED
  BY <1>7, <1>8, <1>13, <1>14, OwnStep

LEMMA FinishStep ==
    ASSUME OtaInv, NEW c \in Connectors, esp_https_ota_finish(c)
    PROVE  OtaInv'
<1>1. PICK e : e = esp[c]
  BY Zenon
<1>2. /\ Device(add, c, e, hb[c], unverified) /\ e \in EspRecords /\ Task(e)
      /\ Sound(add, plan.resumes, onHold, unverified)
  BY <1>1 DEF OtaInv, Device
<1>3. PICK f \in {[e EXCEPT !.sel = "new", !.pc = "selected"], Stopped(e, "DOWNLOAD_OR_SIGNATURE_FAILED")} :
        Become(c, f)
  BY <1>1, Zenon DEF esp_https_ota_finish
<1>4. e.pc = "ready" /\ add' = add /\ DeviceOnly
  BY <1>1, Zenon DEF esp_https_ota_finish
<1>5. Device(add, c, f, hb[c], unverified)
  <2>1. CASE f = [e EXCEPT !.sel = "new", !.pc = "selected"]
    <3>1. /\ f \in EspRecords /\ f.pc = "selected" /\ f.jst = e.jst /\ f.busy = e.busy /\ f.err = e.err
          /\ f.run = e.run /\ f.valid = e.valid /\ f.sel = "new" /\ f.bad = e.bad
          /\ f.jdep = e.jdep /\ f.since = e.since
      BY <1>2, <2>1 DEF EspRecords, Images
    <3>2. Task(f) /\ ~AtBoot(e) /\ f.busy
      BY <1>2, <1>4, <3>1 DEF Task, AtBoot
    <3> QED
      BY <1>2, <3>1, <3>2, EspDevice
  <2>2. CASE f = Stopped(e, "DOWNLOAD_OR_SIGNATURE_FAILED")
    <3>1. PICK err \in Errors : err = "DOWNLOAD_OR_SIGNATURE_FAILED"
      BY DEF Errors
    <3> QED
      BY <1>2, <1>4, <2>2, <3>1, StoppedDevice
  <2> QED
    BY <1>3, <2>1, <2>2
<1> QED
  BY <1>2, <1>3, <1>4, <1>5, EspStep, SameRows

LEMMA RestartStep ==
    ASSUME OtaInv, NEW c \in Connectors, report_ready_and_restart(c)
    PROVE  OtaInv'
<1>1. PICK e : e = esp[c]
  BY Zenon
<1>2. /\ Device(add, c, e, hb[c], unverified) /\ e \in EspRecords /\ Task(e)
      /\ Sound(add, plan.resumes, onHold, unverified) /\ add \in AddRecords
  BY <1>1 DEF OtaInv, Device, Sound
<1>3. PICK f : f = Rebooted(c, e)
  BY Zenon
<1>4. /\ e.pc = "selected" /\ Become(c, f) /\ DeviceOnly
      /\ \E ok \in BOOLEAN : report_state(c, e, "READY_TO_BOOT", "", ok)
  BY <1>1, <1>3, Zenon DEF report_ready_and_restart
<1>5. Device(add, c, f, hb[c], unverified)
  BY <1>2, <1>3, <1>4, RebootDevice
<1>6. RestartOf(e, f)
  BY <1>2, <1>3, RebootFields
<1>7. f.jdep = e.jdep /\ f.jdep # 0 /\ AtBoot(f)
  BY <1>2, <1>4, <1>6 DEF RestartOf, Task, AtBoot
<1>8. PICK st \in Reports : st = "READY_TO_BOOT"
  BY DEF Reports
<1>9. PICK code \in Codes : code = ""
  BY DEF Codes, Errors
<1>10. PICK ok \in BOOLEAN : report_state(c, e, st, code, ok)
  BY <1>4, <1>8, <1>9
<1>11. e.jdep \in DOMAIN add.deps
  BY <1>2, <1>7 DEF Device, Of
<1>12. Sound(add', plan.resumes, onHold, unverified) /\ Answered(add, add', f.jdep, st, ok)
  BY <1>2, <1>7, <1>9, <1>10, <1>11, ReportState
<1>13. Device(add', c, f, hb[c], unverified) /\ OwnRows(add, add', c) /\ add'.telem = add.telem
  BY <1>2, <1>5, <1>7, <1>8, <1>12, AnsweredStep
<1> QED
  BY <1>4, <1>12, <1>13, EspStep

LEMMA ResetStep ==
    ASSUME OtaInv, NEW c \in Connectors, Reset(c)
    PROVE  OtaInv'
<1>1. PICK e : e = esp[c]
  BY Zenon
<1>2. /\ Device(add, c, e, hb[c], unverified) /\ e \in EspRecords /\ Task(e)
      /\ Sound(add, plan.resumes, onHold, unverified) /\ add \in AddRecords
  BY <1>1 DEF OtaInv, Device, Sound
<1>3. PICK f \in {Rebooted(c, e), [e EXCEPT !.pc = "off", !.busy = FALSE]} : Become(c, f)
  BY <1>1, Zenon DEF Reset
<1>4. e.pc # "off" /\ add' = add /\ DeviceOnly
  BY <1>1 DEF Reset
<1>5. Device(add, c, f, hb[c], unverified)
  <2>1. CASE f = Rebooted(c, e)
    BY <1>2, <1>4, <2>1, RebootDevice
  <2>2. CASE f = [e EXCEPT !.pc = "off", !.busy = FALSE]
    <3>1. /\ f \in EspRecords /\ f.pc = "off" /\ ~f.busy /\ f.jst = e.jst /\ f.err = e.err
          /\ f.run = e.run /\ f.valid = e.valid /\ f.sel = e.sel /\ f.bad = e.bad
          /\ f.jdep = e.jdep /\ f.since = e.since
      BY <1>2, <2>2 DEF EspRecords
    <3>2. Task(f) /\ (AtBoot(e) => AtBoot(f))
      BY <1>2, <3>1 DEF Task, AtBoot
    <3> QED
      BY <1>2, <3>1, <3>2, EspDevice
  <2> QED
    BY <1>3, <2>1, <2>2
<1> QED
  BY <1>2, <1>3, <1>4, <1>5, EspStep, SameRows

-----------------------------------------------------------------------------
(* Heartbeats. *)

(* One that is built says what the ESP knows at that moment. *)
LEMMA TelemetryStep ==
    ASSUME OtaInv, NEW c \in Connectors, append_telemetry(c)
    PROVE  OtaInv'
<1>1. PICK e : e = esp[c]
  BY Zenon
<1>2. /\ Device(add, c, e, hb[c], unverified) /\ e \in EspRecords /\ Task(e)
      /\ Sound(add, plan.resumes, onHold, unverified)
  BY <1>1 DEF OtaInv, Device
<1>3. PICK st : st = IF e.busy THEN "UPDATING" ELSE e.jst
  BY Zenon
<1>4. PICK target : target = (e.jdep # 0)
  BY Zenon
<1>5. target \in BOOLEAN
  BY <1>4, Zenon
<1>6. PICK h : h = [boot |-> e.boot, ver |-> e.run, st |-> st, target |-> target,
                    err |-> e.err, since |-> e.since, after |-> TRUE]
  BY Zenon
<1>7. /\ h \in HbRecords /\ h.ver = e.run /\ h.st = st /\ h.err = e.err /\ h.since = e.since
  BY <1>2, <1>3, <1>5, <1>6 DEF HbRecords, EspRecords, Images
<1>8. /\ hb' = [hb EXCEPT ![c] = h] /\ e.pc # "off"
      /\ UNCHANGED <<add, esp, plan, faults, controls, onHold, unverified>>
  BY <1>1, <1>3, <1>4, <1>6, Zenon DEF append_telemetry
<1>9. Truthful(add, c, e, h, unverified)
  <2>1. e.busy => h.st = "UPDATING"
    BY <1>3, <1>7
  <2>2. ASSUME h.st \notin {"NONE", "UPDATING"}, h.err = "PARTITION_HASH_FAILED"
        PROVE  /\ e.jst \notin {"READY_TO_BOOT", "RECONCILING"}
               /\ \A d \in Of(add, c) : add.deps[d].st = "DOWNLOADING" => d \in unverified
    <3>1. ~e.busy /\ e.err = "PARTITION_HASH_FAILED" /\ e.jdep \in unverified
      BY <1>2, <1>3, <1>7, <1>8, <2>2 DEF Device
    <3> QED
      BY <1>2, <1>8, <3>1 DEF Device, Task, Journalled
  <2>3. h.ver = "old" => e.run = "old"
    BY <1>7
  <2> QED
    BY <2>1, <2>2, <2>3 DEF Truthful
<1>10. Device(add, c, e, h, unverified)
  BY <1>2, <1>7, <1>9 DEF Device
<1>11. esp' = [esp EXCEPT ![c] = e]
  BY <1>1, <1>8 DEF OtaInv
<1> QED
  BY <1>2, <1>8, <1>10, <1>11, OwnStep, SameRows

LEMMA SilentDevice ==
    ASSUME NEW s, NEW t, NEW c, NEW e, NEW h, NEW u, Device(s, c, e, h, u), t.deps = s.deps,
           NEW g, g = NoHeartbeat
    PROVE  Device(t, c, e, g, u)
<1>1. g \in HbRecords /\ g.st = "NONE" /\ g.since = {}
  BY DEF NoHeartbeat, HbRecords, Images, Errors
<1>2. Of(t, c) = Of(s, c)
  BY DEF Of
<1>3. Journalled(t, c, e)
  BY <1>2 DEF Device, Journalled
<1>4. Truthful(t, c, e, g, u)
  BY <1>1 DEF Truthful
<1> QED
  BY <1>1, <1>2, <1>3, <1>4 DEF Device

LEMMA LostStep ==
    ASSUME OtaInv, NEW c \in Connectors, LoseHeartbeat(c)
    PROVE  OtaInv'
<1>1. PICK g : g = NoHeartbeat
  BY Zenon
<1>2. /\ hb' = [hb EXCEPT ![c] = g] /\ UNCHANGED <<add, esp, plan, controls, onHold, unverified>>
  BY <1>1, Zenon DEF LoseHeartbeat
<1>3. Device(add, c, esp[c], g, unverified) /\ Sound(add, plan.resumes, onHold, unverified)
  BY <1>1, SilentDevice DEF OtaInv
<1>4. esp' = [esp EXCEPT ![c] = esp[c]]
  BY <1>2 DEF OtaInv
<1> QED
  BY <1>2, <1>3, <1>4, OwnStep, SameRows

(* what judging a heartbeat of ESP e leaves: no row in a state the journal   *)
(* would have to match, a return only of an ESP on the old image, and a stop *)
(* only of an attempt that has ended                                         *)
Judged(s, t, c, e) ==
    /\ Quiet(s, t) /\ OwnRows(s, t, c) /\ t.telem = s.telem
    /\ \A d \in DOMAIN s.deps :
         /\ t.deps[d].st # s.deps[d].st =>
              t.deps[d].st # "SUCCEEDED" /\ (t.deps[d].st = "ROLLED_BACK" => e.run = "old")
         /\ t.deps[d].stops > s.deps[d].stops => ~(e.busy /\ e.jdep = d)

LEMMA JudgedSame ==
    ASSUME NEW s \in AddRecords, NEW c, NEW e
    PROVE  Judged(s, s, c, e)
<1>1. \A d \in DOMAIN s.deps : ~(s.deps[d].stops > s.deps[d].stops)
  BY Tables, SMT DEF DepRecords
<1> QED
  BY <1>1 DEF Judged, Quiet, OwnRows

(* A row fails or is rolled back. *)
LEMMA JudgedProgress ==
    ASSUME NEW s \in AddRecords, NEW c, NEW e, NEW d \in DOMAIN s.deps, s.deps[d].con = c,
           NEW st \in {"FAILED", "ROLLED_BACK"}, st = "ROLLED_BACK" => e.run = "old",
           NEW t, Progressed(s, t, d, st)
    PROVE  Judged(s, t, c, e)
<1>1. \A f \in DOMAIN s.deps : s.deps[f].stops \in Nat
  BY Tables DEF DepRecords
<1>2. st \notin Late \cup {"DOWNLOADING"}
  BY DEF Late, Active, Downloading
<1>3. \A f \in DOMAIN s.deps : t.deps[f].stops = s.deps[f].stops
  BY DEF Progressed
<1>4. Quiet(s, t)
  BY <1>2 DEF Progressed, Quiet
<1>5. OwnRows(s, t, c) /\ t.telem = s.telem
  BY DEF Progressed, OwnRows
<1>6. \A f \in DOMAIN s.deps : t.deps[f].st # s.deps[f].st =>
        t.deps[f].st # "SUCCEEDED" /\ (t.deps[f].st = "ROLLED_BACK" => e.run = "old")
  BY DEF Progressed
<1> QED
  BY <1>1, <1>3, <1>4, <1>5, <1>6, SMT DEF Judged

LEMMA JudgedReport ==
    ASSUME NEW s, NEW r, NEW hold, NEW u, Sound(s, r, hold, u), NEW c, NEW e,
           NEW d \in DOMAIN s.deps, s.deps[d].con = c,
           NEW st \in {"FAILED", "ROLLED_BACK"}, st = "ROLLED_BACK" => e.run = "old",
           NEW code \in Codes, code = "PARTITION_HASH_FAILED" => d \in u, NEW ver,
           NEW t, t = record_progress(s, d, st, code, s.deps[d].bytes, ver)
    PROVE  Sound(t, r, hold, u) /\ Judged(s, t, c, e)
<1>1. s \in AddRecords /\ st \in Reports
  BY DEF Sound, Reports
<1>2. PICK bytes \in Nat : bytes = s.deps[d].bytes
  BY <1>1, Tables DEF DepRecords
<1>3. Sound(t, r, hold, u) /\ (t = s \/ Progressed(s, t, d, st))
  BY <1>1, <1>2, SoundProgress, SMT
<1> QED
  BY <1>1, <1>3, JudgedSame, JudgedProgress

LEMMA JudgedFailure ==
    ASSUME NEW s, NEW r, NEW hold, NEW u, Sound(s, r, hold, u), NEW c, NEW e,
           NEW d \in DOMAIN s.deps, s.deps[d].con = c,
           NEW code \in Codes, code = "PARTITION_HASH_FAILED" => d \in u,
           NEW t, t = fail_ota_deployment(s, d, code)
    PROVE  Sound(t, r, hold, u) /\ Judged(s, t, c, e)
<1>1. PICK st \in {"FAILED", "ROLLED_BACK"} : st = "FAILED"
  OBVIOUS
<1>2. PICK ver : ver = ""
  BY Zenon
<1>3. t = record_progress(s, d, st, code, s.deps[d].bytes, ver)
  BY <1>1, <1>2, Zenon DEF fail_ota_deployment
<1> QED
  BY <1>1, <1>3, JudgedReport

CountedOf(x, y) ==
    /\ y \in DepRecords /\ y.camp = x.camp /\ y.con = x.con /\ y.st = x.st /\ y.bytes = x.bytes
    /\ y.offered = x.offered /\ y.booted = x.booted

LEMMA CountedRow ==
    ASSUME NEW x \in DepRecords, NEW d, NEW u, Row(x, d, plan.resumes, u), x.st \in Downloading, plan.resumes,
           NEW y, y = Counted(x)
    PROVE  /\ CountedOf(x, y) /\ Kept(y, d, plan.resumes, u)
           /\ ~(x.stops + 1 >= AttemptLimit) => Row(y, d, plan.resumes, u)
<1>1. /\ y \in DepRecords /\ y.camp = x.camp /\ y.con = x.con /\ y.st = x.st /\ y.bytes = x.bytes
      /\ y.offered = x.offered /\ y.booted = x.booted /\ y.stops = x.stops + 1
      /\ y.code = "DOWNLOAD_INTERRUPTED" /\ y.regrants = x.regrants
  <2>1. PICK n : n = x.stops + 1
    BY Zenon
  <2>2. n \in Nat
    BY <2>1, SMT DEF DepRecords
  <2>3. PICK code \in Codes : code = "DOWNLOAD_INTERRUPTED"
    BY DEF Codes
  <2>4. y = [x EXCEPT !.stops = n, !.granted = FALSE, !.clock = "backoff", !.code = code]
    BY <2>1, <2>3, Zenon DEF Counted
  <2> QED
    BY <2>1, <2>2, <2>3, <2>4 DEF DepRecords
<1>2. x.stops \in Nat /\ AttemptLimit \in Nat /\ x.regrants <= GrantLimit
  BY OtaAssumption DEF DepRecords, Row, Kept
<1>3. y.stops <= AttemptLimit
  BY <1>1, <1>2, SMT DEF Row
<1>4. Kept(y, d, plan.resumes, u)
  BY <1>1, <1>2, <1>3 DEF Row, Kept, Downloading
<1>5. CountedOf(x, y)
  BY <1>1 DEF CountedOf
<1>6. ~(x.stops + 1 >= AttemptLimit) => y.stops < AttemptLimit
  BY <1>1, <1>2, SMT
<1> QED
  BY <1>4, <1>5, <1>6 DEF Row

LEMMA JudgedCounted ==
    ASSUME NEW s, NEW t, NEW c, NEW e, ~e.busy, NEW d \in DOMAIN s.deps, s.deps[d].con = c,
           t.telem = s.telem, DOMAIN t.deps = DOMAIN s.deps,
           \A f \in DOMAIN s.deps \ {d} : t.deps[f] = s.deps[f],
           t.deps[d].con = s.deps[d].con, t.deps[d].offered = s.deps[d].offered,
           t.deps[d].booted <=> s.deps[d].booted, t.deps[d].st \in {s.deps[d].st, "FAILED"}
    PROVE  Judged(s, t, c, e)
<1>1. "FAILED" \notin Late \cup {"DOWNLOADING"}
  BY DEF Late, Active, Downloading
<1> QED
  BY <1>1 DEF Judged, Quiet, OwnRows

(* A sticky download error, of an attempt that may resume. *)
LEMMA JudgedInterruption ==
    ASSUME NEW s, NEW hold, NEW u, Sound(s, plan.resumes, hold, u), NEW c, NEW e, NEW h,
           Device(s, c, e, h, u), NEW d \in DOMAIN s.deps, s.deps[d].con = c, Resumable(s, d, h),
           NEW t, t = download_interruption(s, c, d, h)
    PROVE  Sound(t, plan.resumes, hold, u) /\ Judged(s, t, c, e)
<1>1. PICK x : x = s.deps[d]
  BY Zenon
<1>2. /\ s \in AddRecords /\ Zone(s, hold) /\ x \in DepRecords /\ Row(x, d, plan.resumes, u)
      /\ plan.resumes /\ x.st \in Downloading /\ x.st \in Active /\ h.st = "DOWNLOADING"
  BY <1>1, Tables DEF Sound, Resumable, Active
<1>3. PICK y : y = Counted(x)
  BY Zenon
<1>4. PICK counted : counted = [s EXCEPT !.deps[d] = y]
  BY Zenon
<1>5. \/ t = fail_ota_deployment(s, d, "DOWNLOAD_RETRY_NOT_TAKEN")
      \/ t = s
      \/ /\ AttemptEnded(s, c, h)
         /\ \/ t = fail_ota_deployment(counted, d, "DOWNLOAD_RETRIES_EXHAUSTED")
            \/ t = counted /\ ~(x.stops + 1 >= AttemptLimit)
  <2>1. counted = [s EXCEPT !.deps[d] = Counted(@)]
    BY <1>1, <1>3, <1>4, Zenon
  <2>2. CASE ~x.granted /\ _hold_expired(x)
    BY <1>1, <2>1, <2>2 DEF download_interruption
  <2>3. CASE ~x.granted /\ ~_hold_expired(x)
    BY <1>1, <2>1, <2>3 DEF download_interruption
  <2>4. CASE x.granted /\ ~AttemptEnded(s, c, h)
    BY <1>1, <2>1, <2>4 DEF download_interruption
  <2>5. CASE x.granted /\ AttemptEnded(s, c, h)
    BY <1>1, <2>1, <2>5 DEF download_interruption
  <2> QED
    BY <2>2, <2>3, <2>4, <2>5
<1>6. CASE t = fail_ota_deployment(s, d, "DOWNLOAD_RETRY_NOT_TAKEN")
  <2>1. PICK code \in Codes : code = "DOWNLOAD_RETRY_NOT_TAKEN"
    BY DEF Codes
  <2> QED
    BY <1>6, <2>1, JudgedFailure
<1>7. CASE t = s
  BY <1>2, <1>7, JudgedSame
<1>8. CASE /\ AttemptEnded(s, c, h)
           /\ \/ t = fail_ota_deployment(counted, d, "DOWNLOAD_RETRIES_EXHAUSTED")
              \/ t = counted /\ ~(x.stops + 1 >= AttemptLimit)
  <2>1. ~e.busy
    BY <1>2, <1>8 DEF AttemptEnded, Device, Truthful
  <2>0. /\ CountedOf(x, y) /\ Kept(y, d, plan.resumes, u)
        /\ ~(x.stops + 1 >= AttemptLimit) => Row(y, d, plan.resumes, u)
    <3>1. x \in DepRecords /\ Row(x, d, plan.resumes, u) /\ x.st \in Downloading /\ plan.resumes
      BY <1>2
    <3> QED
      BY <1>3, <3>1, CountedRow, Zenon
  <2>2. /\ y \in DepRecords /\ y.camp = x.camp /\ y.con = x.con /\ y.st = x.st /\ y.bytes = x.bytes
        /\ y.offered = x.offered /\ y.booted = x.booted
        /\ Kept(y, d, plan.resumes, u)
    BY <2>0 DEF CountedOf
  <2>3. \A f \in DOMAIN s.deps \ {d} : s.deps[f].camp = y.camp => s.deps[f].st \notin Active
    BY <1>1, <1>2, <2>2 DEF Zone
  <2>4. Zone(counted, hold) /\ Moved(s, counted, d, y, s.camps[s.deps[d].camp])
    BY <1>1, <1>2, <1>4, <2>2, <2>3, ZoneWrite
  <2>5. /\ counted \in AddRecords /\ counted.telem = s.telem /\ DOMAIN counted.deps = DOMAIN s.deps
        /\ counted.deps[d] = y /\ \A f \in DOMAIN s.deps \ {d} : counted.deps[f] = s.deps[f]
    BY <2>4 DEF Moved
  <2>6. CASE t = counted /\ ~(x.stops + 1 >= AttemptLimit)
    <3>2. Sound(t, plan.resumes, hold, u)
      <4>1. y.camp = s.deps[d].camp /\ s.deps[d].st \in Downloading \cup {"PENDING"} /\ y.st \in Downloading
        BY <1>1, <1>2, <2>2
      <4>2. Row(y, d, plan.resumes, u) /\ t = [s EXCEPT !.deps[d] = y]
        BY <1>4, <2>0, <2>6
      <4> QED
        BY <2>2, <2>3, <4>1, <4>2, SoundWrite
    <3> QED
      BY <1>1, <2>1, <2>2, <2>5, <2>6, <3>2, JudgedCounted, SMT
  <2>7. CASE t = fail_ota_deployment(counted, d, "DOWNLOAD_RETRIES_EXHAUSTED")
    <3>1. PICK st \in Reports : st = "FAILED"
      BY DEF Reports
    <3>2. PICK code \in Codes : code = "DOWNLOAD_RETRIES_EXHAUSTED"
      BY DEF Codes
    <3>3. PICK ver : ver = ""
      BY Zenon
    <3>4. PICK bytes \in Nat : bytes = y.bytes
      BY <2>2 DEF DepRecords
    <3>5. t = record_progress(counted, d, st, code, bytes, ver)
      BY <2>5, <2>7, <3>1, <3>2, <3>3, <3>4, Zenon DEF fail_ota_deployment
    <3>6. counted.deps[d].st \notin Terminal /\ Accepts(counted, d, st, bytes, ver)
      <4>1. y.st \in DOMAIN DEPLOYMENT_TRANSITIONS /\ st \in DEPLOYMENT_TRANSITIONS[y.st]
        BY <1>2, <2>2, <3>1, SMT DEF Downloading, DEPLOYMENT_TRANSITIONS
      <4>2. st \notin {"READY_TO_BOOT", "BOOTED_PENDING", "RECONCILING", "SUCCEEDED"} /\ bytes >= y.bytes
        BY <3>1, <3>4, SMT
      <4>3. y.st \notin Terminal
        BY <1>2, <2>2 DEF Downloading, Terminal
      <4> QED
        BY <2>5, <4>1, <4>2, <4>3, Zenon DEF Accepts
    <3>7. \A f \in DOMAIN counted.deps \ {d} : Row(counted.deps[f], f, plan.resumes, u)
      BY <2>5 DEF Sound
    <3>8. d \in DOMAIN counted.deps /\ Kept(counted.deps[d], d, plan.resumes, u) /\ st \notin Downloading
      BY <2>2, <2>5, <3>1 DEF Downloading
    <3>9. Sound(t, plan.resumes, hold, u) /\ Progressed(counted, t, d, st)
      BY <2>4, <2>5, <3>2, <3>5, <3>6, <3>7, <3>8, SoundReport
    <3>10. /\ t.telem = s.telem /\ DOMAIN t.deps = DOMAIN s.deps
           /\ \A f \in DOMAIN s.deps \ {d} : t.deps[f] = s.deps[f]
           /\ t.deps[d].con = x.con /\ t.deps[d].offered = x.offered
           /\ t.deps[d].booted <=> x.booted
           /\ t.deps[d].st = "FAILED"
      BY <2>2, <2>5, <3>1, <3>9 DEF Progressed, Booting
    <3> QED
      BY <1>1, <2>1, <3>9, <3>10, JudgedCounted, SMT
  <2> QED
    BY <1>8, <2>6, <2>7
<1> QED
  BY <1>5, <1>6, <1>7, <1>8

(* the deployment a heartbeat is judged against *)
UnderWay(s, c) == {d \in Of(s, c) : s.deps[d].st \in Active /\ Status(s, d) \in Live}

LEMMA OneUnderWay ==
    ASSUME NEW s \in AddRecords, NEW hold, Zone(s, hold), NEW c, UnderWay(s, c) # {}
    PROVE  Max(UnderWay(s, c)) \in UnderWay(s, c)
<1>1. PICK d : d \in UnderWay(s, c)
  BY Zenon
<1>2. d \in Nat
  BY <1>1, Tables, SMT DEF UnderWay, Of
<1>3. \A e \in UnderWay(s, c) : e = d
  <2>1. \A e \in UnderWay(s, c) :
          e \in DOMAIN s.deps /\ s.deps[e].st \in Active /\ s.camps[s.deps[e].camp].status \in Live
    BY DEF UnderWay, Of, Status
  <2>2. \A e \in UnderWay(s, c) : s.deps[e].camp \in DOMAIN s.camps
    BY <2>1 DEF Zone
  <2> QED
    BY <1>1, <2>1, <2>2 DEF Zone
<1>4. \E x \in UnderWay(s, c) : \A y \in UnderWay(s, c) : x >= y
  BY <1>1, <1>2, <1>3, SMT
<1> QED
  BY <1>4, Zenon DEF Max

(* an error that fails its deployment: an unverified image only of one       *)
LEMMA ErrorOnRecord ==
    ASSUME NEW s, NEW c, NEW e, NEW h, NEW u, Device(s, c, e, h, u), NEW d \in Of(s, c),
           s.deps[d].st \in Active, h.st \notin {"NONE", "UPDATING"}, h.err = "PARTITION_HASH_FAILED",
           s.deps[d].st \in Downloading => unverified_image_current(s.deps[d], h)
    PROVE  d \in u
<1>1. s.deps[d].st \notin Late
  BY DEF Device, Journalled, Truthful, AtBoot
<1>2. s.deps[d].st = "DOWNLOADING" /\ h.after
  BY <1>1 DEF Late, Downloading, unverified_image_current
<1> QED
  BY <1>2 DEF Device, Truthful

LEMMA HeartbeatRows ==
    ASSUME NEW s, NEW hold, NEW u, Sound(s, plan.resumes, hold, u), NEW c, NEW e, NEW h,
           Device(s, c, e, h, u), h.st # "NONE", NEW t \in apply_ota_heartbeat_diagnostics(s, c, h)
    PROVE  Sound(t, plan.resumes, hold, u) /\ Judged(s, t, c, e)
<1>1. PICK d : d = Max(UnderWay(s, c))
  BY Zenon
<1>2. PICK x : x = s.deps[d]
  BY Zenon
<1>3. \/ t = s
      \/ /\ UnderWay(s, c) # {} /\ previous_firmware_return_evidence(s, c, d, h)
         /\ \E code \in classify_return(x, "PREVIOUS_FIRMWARE_OBSERVED") :
              t = record_progress(s, d, "ROLLED_BACK", code, x.bytes, h.ver)
      \/ UnderWay(s, c) # {} /\ Resumable(s, d, h) /\ t = download_interruption(s, c, d, h)
      \/ /\ UnderWay(s, c) # {} /\ h.st # "UPDATING"
         /\ h.err = "PARTITION_HASH_FAILED" /\ x.st \in Downloading => unverified_image_current(x, h)
         /\ t = fail_ota_deployment(s, d, h.err)
  <2>1. t \in IF UnderWay(s, c) = {} THEN {s}
              ELSE IF previous_firmware_return_evidence(s, c, d, h)
              THEN {record_progress(s, d, "ROLLED_BACK", code, x.bytes, h.ver) :
                      code \in classify_return(x, "PREVIOUS_FIRMWARE_OBSERVED")}
              ELSE IF \/ ~h.target \/ h.st = "UPDATING" \/ h.err = ""
                      \/ /\ h.err = "PARTITION_HASH_FAILED" /\ x.st \in Downloading
                         /\ ~unverified_image_current(x, h)
              THEN {s}
              ELSE IF Resumable(s, d, h) THEN {download_interruption(s, c, d, h)}
              ELSE {fail_ota_deployment(s, d, h.err)}
    BY <1>1, <1>2, Zenon DEF apply_ota_heartbeat_diagnostics, UnderWay
  <2> QED
    BY <2>1
<1>4. CASE t = s
  BY <1>4, JudgedSame DEF Sound
<1>5. CASE UnderWay(s, c) # {} /\ t # s
  <2>1. s \in AddRecords /\ Zone(s, hold) /\ h \in HbRecords
    BY DEF Sound, Device
  <2>2. d \in UnderWay(s, c)
    BY <1>1, <1>5, <2>1, OneUnderWay
  <2>3. d \in DOMAIN s.deps /\ s.deps[d].con = c /\ d \in Of(s, c) /\ x.st \in Active
    BY <1>2, <2>2 DEF UnderWay, Of
  <2>4. CASE /\ previous_firmware_return_evidence(s, c, d, h)
             /\ \E code \in classify_return(x, "PREVIOUS_FIRMWARE_OBSERVED") :
                  t = record_progress(s, d, "ROLLED_BACK", code, x.bytes, h.ver)
    <3>1. PICK code \in classify_return(x, "PREVIOUS_FIRMWARE_OBSERVED") :
            t = record_progress(s, d, "ROLLED_BACK", code, x.bytes, h.ver)
      BY <2>4
    <3>2. code \in Codes /\ code # "PARTITION_HASH_FAILED"
      BY DEF classify_return, Codes
    <3>3. e.run = "old"
      BY <2>4 DEF previous_firmware_return_evidence, Device, Truthful
    <3>4. PICK st \in {"FAILED", "ROLLED_BACK"} : st = "ROLLED_BACK"
      OBVIOUS
    <3>5. t = record_progress(s, d, st, code, s.deps[d].bytes, h.ver)
      BY <1>2, <3>1, <3>4, Zenon
    <3> QED
      BY <2>3, <3>2, <3>3, <3>5, JudgedReport, SMTT(20)
  <2>5. CASE Resumable(s, d, h) /\ t = download_interruption(s, c, d, h)
    BY <2>3, <2>5, JudgedInterruption
  <2>6. CASE /\ h.st # "UPDATING"
             /\ h.err = "PARTITION_HASH_FAILED" /\ x.st \in Downloading => unverified_image_current(x, h)
             /\ t = fail_ota_deployment(s, d, h.err)
    <3>1. PICK code \in Codes : code = h.err
      BY <2>1 DEF HbRecords, Codes
    <3>2. code = "PARTITION_HASH_FAILED" => d \in u
      <4>1. /\ s.deps[d].st \in Active /\ h.st \notin {"NONE", "UPDATING"}
            /\ h.err = "PARTITION_HASH_FAILED" /\ s.deps[d].st \in Downloading =>
                 unverified_image_current(s.deps[d], h)
        BY <1>2, <2>3, <2>6
      <4> QED
        BY <2>3, <3>1, <4>1, ErrorOnRecord
    <3>3. t = fail_ota_deployment(s, d, code)
      BY <2>6, <3>1
    <3> QED
      BY <2>3, <3>2, <3>3, JudgedFailure
  <2> QED
    BY <1>3, <1>5, <2>4, <2>5, <2>6
<1> QED
  BY <1>3, <1>4, <1>5

LEMMA HeartbeatStep ==
    ASSUME OtaInv, NEW c \in Connectors, process_heartbeat(c)
    PROVE  OtaInv'
<1>1. PICK e : e = esp[c]
  BY Zenon
<1>2. PICK h : h = hb[c]
  BY Zenon
<1>3. PICK g : g = NoHeartbeat
  BY Zenon
<1>4. /\ Device(add, c, e, h, unverified) /\ Sound(add, plan.resumes, onHold, unverified)
      /\ h \in HbRecords
  BY <1>1, <1>2 DEF OtaInv
<1>5. /\ h.st # "NONE" /\ hb' = [hb EXCEPT ![c] = g]
      /\ UNCHANGED <<esp, plan, faults, controls, onHold, unverified>>
      /\ \E s \in apply_ota_heartbeat_diagnostics(add, c, h) : add' = [s EXCEPT !.telem[c] = h]
  BY <1>2, <1>3, Zenon DEF process_heartbeat
<1>6. PICK s \in apply_ota_heartbeat_diagnostics(add, c, h) : add' = [s EXCEPT !.telem[c] = h]
  BY <1>5
<1>7. Sound(s, plan.resumes, onHold, unverified) /\ Judged(add, s, c, e)
  BY <1>4, <1>5, <1>6, HeartbeatRows
<1>8. Quiet(add, s) /\ OwnRows(add, s, c) /\ s.telem = add.telem /\ s \in AddRecords
  BY <1>7 DEF Judged, Sound
<1>9. Device(s, c, e, h, unverified)
  BY <1>4, <1>8, QuietDevice
<1>10. /\ add' \in AddRecords /\ add'.camps = s.camps /\ add'.deps = s.deps
       /\ \A b \in Connectors \ {c} : add'.telem[b] = s.telem[b]
  BY <1>4, <1>6, <1>8 DEF AddRecords
<1>11. Sound(add', plan.resumes, onHold, unverified)
  BY <1>7, <1>10, SoundSame
<1>12. Device(add', c, e, g, unverified)
  BY <1>3, <1>9, <1>10, SilentDevice
<1>13. OwnRows(add, add', c)
  BY <1>8, <1>10 DEF OwnRows
<1>14. esp' = [esp EXCEPT ![c] = e]
  BY <1>1, <1>5 DEF OtaInv
<1> QED
  BY <1>5, <1>8, <1>10, <1>11, <1>12, <1>13, <1>14, OwnStep

-----------------------------------------------------------------------------
(* A poll is answered with the first row that fits: a set of numbers has a   *)
(* least member.  HasLeast is shown at the end, with the library's facts.    *)

HasLeast == \A S \in SUBSET Nat : S # {} => Min(S) \in S

LEMMA Least ==
    ASSUME HasLeast, NEW S, S \subseteq Nat, S # {}
    PROVE  Min(S) \in S
  BY DEF HasLeast

-----------------------------------------------------------------------------
(* The assignment an ESP polls for. *)

(* the row a poll may be answered with: no other of its campaign is under way *)
Offerable(s, c, d) ==
    /\ d \in DOMAIN s.deps /\ s.deps[d].con = c /\ Status(s, d) = "ACTIVE"
    /\ s.deps[d].st \in Active \cup {"PENDING"}
    /\ \A e \in DOMAIN s.deps \ {d} : s.deps[e].camp = s.deps[d].camp => s.deps[e].st \notin Active

LEMMA NextRow ==
    ASSUME HasLeast, NEW s \in AddRecords, NEW hold, Zone(s, hold), NEW c, NEW d, d = NextDeployment(s, c), d # 0
    PROVE  Offerable(s, c, d)
<1> DEFINE of(S) == {i \in DOMAIN s.deps : Status(s, i) = "ACTIVE" /\ s.deps[i].st \in S}
<1>1. \A S : of(S) \subseteq Nat
  BY Tables, SMT
<1>2. /\ s.deps[d].con = c
      /\ \/ of(Active) # {} /\ d = Min(of(Active))
         \/ of(Active) = {} /\ of({"PENDING"}) # {} /\ d = Min(of({"PENDING"}))
  <2>1. PICK n : n = IF of(Active) # {} THEN Min(of(Active))
                     ELSE IF of({"PENDING"}) # {} THEN Min(of({"PENDING"})) ELSE 0
    BY Zenon
  <2>2. d = IF n # 0 /\ s.deps[n].con = c THEN n ELSE 0
    BY <2>1, Zenon DEF NextDeployment
  <2>3. d = n /\ s.deps[n].con = c /\ n # 0
    BY <2>2
  <2> HIDE DEF of
  <2> QED
    BY <2>1, <2>3
<1>3. \/ d \in of(Active)
      \/ of(Active) = {} /\ d \in of({"PENDING"})
  <2> HIDE DEF of
  <2>1. of(Active) # {} => Min(of(Active)) \in of(Active)
    BY <1>1, Least
  <2>2. of({"PENDING"}) # {} => Min(of({"PENDING"})) \in of({"PENDING"})
    BY <1>1, Least
  <2> QED
    BY <1>2, <2>1, <2>2
<1>4. d \in DOMAIN s.deps /\ Status(s, d) = "ACTIVE" /\ s.deps[d].st \in Active \cup {"PENDING"}
  BY <1>3
<1>5. ASSUME NEW e \in DOMAIN s.deps \ {d}, s.deps[e].camp = s.deps[d].camp
      PROVE  s.deps[e].st \notin Active
  <2>1. CASE d \in of(Active)
    BY <1>5, <2>1 DEF Zone
  <2>2. CASE of(Active) = {}
    <3>1. Status(s, e) = "ACTIVE"
      BY <1>4, <1>5 DEF Status
    <3> QED
      BY <2>2, <3>1
  <2> QED
    BY <1>3, <2>1, <2>2
<1> QED
  BY <1>2, <1>4, <1>5 DEF Offerable

(* what a grant changes *)
GrantMoves(s, t, c, d) ==
    /\ DOMAIN t.deps = DOMAIN s.deps
    /\ \A e \in DOMAIN s.deps \ {d} : t.deps[e] = s.deps[e]
    /\ t.deps[d].con = s.deps[d].con /\ t.deps[d].stops = s.deps[d].stops
    /\ s.deps[d].offered => t.deps[d].offered
    /\ s.deps[d].booted => t.deps[d].booted
    /\ t.deps[d].st \in Downloading
    /\ t.deps[d].st = "DOWNLOADING" => s.deps[d].st = "DOWNLOADING"
    /\ \A b \in Connectors \ {c} : t.telem[b] = s.telem[b]
    /\ ~t.telem[c].after

LEMMA GrantedRow ==
    ASSUME NEW x \in DepRecords, NEW d, NEW r, NEW u, Row(x, d, r, u), x.st \in Downloading,
           x.stops > 0 => x.regrants < GrantLimit, NEW y, y = Granted(x)
    PROVE  /\ y \in DepRecords /\ Row(y, d, r, u) /\ y.camp = x.camp /\ y.con = x.con /\ y.st = x.st
           /\ y.offered = x.offered /\ y.booted = x.booted /\ y.stops = x.stops
<1>1. PICK n : n = x.regrants + (IF x.stops > 0 THEN 1 ELSE 0)
  BY Zenon
<1>2. n \in Nat /\ n <= GrantLimit
  BY <1>1, OtaAssumption, SMT DEF Row, Kept, DepRecords
<1>3. y = [x EXCEPT !.granted = TRUE, !.regrants = n]
  BY <1>1, Zenon DEF Granted
<1>4. /\ y \in DepRecords /\ y.camp = x.camp /\ y.con = x.con /\ y.st = x.st /\ y.code = x.code
      /\ y.offered = x.offered /\ y.booted = x.booted /\ y.stops = x.stops /\ y.regrants = n
  BY <1>2, <1>3 DEF DepRecords
<1>5. Row(y, d, r, u)
  BY <1>2, <1>4 DEF Row, Kept
<1> QED
  BY <1>4, <1>5

LEMMA OfferedRow ==
    ASSUME NEW x \in DepRecords, NEW d, NEW r, NEW u, Row(x, d, r, u), x.st = "PENDING",
           NEW y, y = Offered(x)
    PROVE  /\ y \in DepRecords /\ Row(y, d, r, u) /\ y.camp = x.camp /\ y.con = x.con /\ y.st = "OFFERED"
           /\ y.offered /\ y.booted = x.booted /\ y.stops = x.stops /\ y.stops = 0
<1>1. /\ y \in DepRecords /\ y.camp = x.camp /\ y.con = x.con /\ y.st = "OFFERED" /\ y.code = ""
      /\ y.offered /\ y.booted = x.booted /\ y.stops = x.stops /\ y.regrants = x.regrants
  BY DEF DepRecords, Offered, DepStates, Active, Downloading, Codes, Errors
<1>2. x.stops = 0 /\ ~x.booted
  BY DEF Row, Kept
<1>3. 0 < AttemptLimit
  BY OtaAssumption, SMT
<1> QED
  BY <1>1, <1>2, <1>3 DEF Row, Kept, Downloading

LEMMA GrantSound ==
    ASSUME NEW s, NEW r, NEW hold, NEW u, Sound(s, r, hold, u), NEW c \in Connectors, NEW d,
           Offerable(s, c, d), s.deps[d].st \in Downloading,
           s.deps[d].stops > 0 => s.deps[d].regrants < GrantLimit,
           NEW t, t = Grant(s, d, c)
    PROVE  Sound(t, r, hold, u) /\ GrantMoves(s, t, c, d)
<1>1. PICK x : x = s.deps[d]
  BY Zenon
<1>2. PICK y : y = Granted(x)
  BY Zenon
<1>3. PICK w : w = [s EXCEPT !.deps[d] = y]
  BY Zenon
<1>4. s \in AddRecords /\ d \in DOMAIN s.deps /\ x \in DepRecords /\ Row(x, d, r, u)
  BY <1>1, Tables DEF Sound, Offerable
<1>5. /\ y \in DepRecords /\ Row(y, d, r, u) /\ y.camp = x.camp /\ y.con = x.con /\ y.st = x.st
      /\ y.offered = x.offered /\ y.booted = x.booted /\ y.stops = x.stops
  BY <1>1, <1>2, <1>4, GrantedRow, SMT
<1>6. Sound(w, r, hold, u) /\ Moved(s, w, d, y, s.camps[s.deps[d].camp])
  <2>1. \A e \in DOMAIN s.deps \ {d} : s.deps[e].camp = y.camp => s.deps[e].st \notin Active
    BY <1>1, <1>5 DEF Offerable
  <2> QED
    BY <1>1, <1>3, <1>4, <1>5, <2>1, SoundWrite
<1>7. /\ w \in AddRecords /\ w.telem = s.telem /\ w.telem[c] \in HbRecords /\ w.telem \in [Connectors -> HbRecords]
      /\ DOMAIN w.deps = DOMAIN s.deps /\ w.deps[d] = y /\ \A e \in DOMAIN s.deps \ {d} : w.deps[e] = s.deps[e]
  BY <1>6, Tables DEF Moved
<1>8. PICK g : g = [w.telem[c] EXCEPT !.after = FALSE]
  BY Zenon
<1>9. g \in HbRecords /\ ~g.after
  BY <1>7, <1>8 DEF HbRecords
<1>10. PICK T : T = [w.telem EXCEPT ![c] = g]
  BY Zenon
<1>11. /\ T \in [Connectors -> HbRecords] /\ T[c] = g
       /\ \A b \in Connectors \ {c} : T[b] = s.telem[b]
  BY <1>7, <1>9, <1>10
<1>12. t = [w EXCEPT !.telem = T]
  BY <1>1, <1>2, <1>3, <1>8, <1>10, Zenon DEF Grant
<1>13. t \in AddRecords /\ t.camps = w.camps /\ t.deps = w.deps /\ t.telem = T
  BY <1>7, <1>11, <1>12 DEF AddRecords
<1>14. Sound(t, r, hold, u)
  BY <1>6, <1>13, SoundSame
<1>15. GrantMoves(s, t, c, d)
  BY <1>1, <1>5, <1>7, <1>9, <1>11, <1>13 DEF GrantMoves
<1> QED
  BY <1>14, <1>15

LEMMA OfferSound ==
    ASSUME NEW s, NEW r, NEW hold, NEW u, Sound(s, r, hold, u), NEW c \in Connectors, NEW d,
           Offerable(s, c, d), s.deps[d].st = "PENDING",
           NEW w, w = [s EXCEPT !.deps[d] = Offered(@)], NEW t, t = Grant(w, d, c)
    PROVE  Sound(t, r, hold, u) /\ GrantMoves(s, t, c, d)
<1>1. PICK x : x = s.deps[d]
  BY Zenon
<1>2. PICK y : y = Offered(x)
  BY Zenon
<1>3. s \in AddRecords /\ d \in DOMAIN s.deps /\ x \in DepRecords /\ Row(x, d, r, u) /\ x.st = "PENDING"
  BY <1>1, Tables DEF Sound, Offerable
<1>4. /\ y \in DepRecords /\ Row(y, d, r, u) /\ y.camp = x.camp /\ y.con = x.con /\ y.st = "OFFERED"
      /\ y.offered /\ y.booted = x.booted /\ y.stops = x.stops /\ y.stops = 0
  BY <1>2, <1>3, OfferedRow, SMT
<1>5. w = [s EXCEPT !.deps[d] = y]
  BY <1>1, <1>2, Zenon
<1>6. Sound(w, r, hold, u) /\ Moved(s, w, d, y, s.camps[s.deps[d].camp])
  <2>1. \A e \in DOMAIN s.deps \ {d} : s.deps[e].camp = y.camp => s.deps[e].st \notin Active
    BY <1>1, <1>4 DEF Offerable
  <2>2. y.st \in Downloading /\ y.camp = s.deps[d].camp /\ s.deps[d].st \in Downloading \cup {"PENDING"}
    BY <1>1, <1>4 DEF Downloading
  <2> QED
    BY <1>3, <1>4, <1>5, <2>1, <2>2, SoundWrite
<1>7. /\ w.telem = s.telem /\ DOMAIN w.deps = DOMAIN s.deps /\ w.deps[d] = y
      /\ \A e \in DOMAIN s.deps \ {d} : w.deps[e] = s.deps[e]
  BY <1>6 DEF Moved
<1>8. Offerable(w, c, d) /\ w.deps[d].st \in Downloading /\ ~(w.deps[d].stops > 0)
  <2>1. Status(w, d) = "ACTIVE"
    BY <1>1, <1>4, <1>6, <1>7, SMT DEF Moved, Status, Offerable
  <2> QED
    BY <1>1, <1>4, <1>7, <2>1, SMT DEF Offerable, Downloading, Active
<1>9. Sound(t, r, hold, u) /\ GrantMoves(w, t, c, d)
  BY <1>6, <1>8, GrantSound
<1>10. t.deps[d].st # "DOWNLOADING"
  BY <1>4, <1>7, <1>9 DEF GrantMoves
<1>11. GrantMoves(s, t, c, d)
  BY <1>1, <1>4, <1>7, <1>9, <1>10, SMT DEF GrantMoves
<1> QED
  BY <1>9, <1>11

(* The answer to a poll of an ESP with no image at the bootloader: a grant,  *)
(* or none and at most a failed row.                                         *)
LEMMA Assignment ==
    ASSUME HasLeast, NEW s, NEW hold, NEW u, Sound(s, plan.resumes, hold, u), NEW c \in Connectors, NEW e,
           \A d \in Of(s, c) : s.deps[d].st \notin Late,
           NEW a, a = assignment_for_connector(s, c)
    PROVE  /\ Sound(a.s, plan.resumes, hold, u)
           /\ a.d = 0 => Judged(s, a.s, c, e)
           /\ a.d # 0 => Offerable(s, c, a.d) /\ GrantMoves(s, a.s, c, a.d)
<1>1. PICK d : d = NextDeployment(s, c)
  BY Zenon
<1>2. PICK x : x = s.deps[d]
  BY Zenon
<1>3. PICK w : w = [s EXCEPT !.deps[d] = Offered(@)]
  BY Zenon
<1>4. s \in AddRecords /\ Zone(s, hold)
  BY DEF Sound
<1>5. PICK none : none = [s |-> s, d |-> 0]
  BY Zenon
<1>6. \A t : [s |-> t, d |-> 0].s = t /\ [s |-> t, d |-> 0].d = 0
  OBVIOUS
<1>7. \A t : [s |-> t, d |-> d].s = t /\ [s |-> t, d |-> d].d = d
  OBVIOUS
<1>8. CASE d = 0
  <2>1. a = none
    BY <1>1, <1>5, <1>8, Zenon DEF assignment_for_connector
  <2> QED
    BY <1>4, <1>5, <1>6, <2>1, JudgedSame
<1>9. CASE d # 0
  <2>1. Offerable(s, c, d)
    BY <1>1, <1>4, <1>9, NextRow
  <2>2. d \in DOMAIN s.deps /\ s.deps[d].con = c /\ d \in Of(s, c) /\ Row(x, d, plan.resumes, u) /\ x \in DepRecords
    BY <1>2, <1>4, <2>1, Tables DEF Offerable, Of, Sound
  <2>3. x.st \in Downloading \cup {"PENDING"}
    BY <1>2, <2>1, <2>2 DEF Offerable, Late
  <2>4. ASSUME NEW code \in Codes, code # "PARTITION_HASH_FAILED",
               a.d = 0, a.s \in {s, fail_ota_deployment(s, d, code)}
        PROVE  Sound(a.s, plan.resumes, hold, u) /\ Judged(s, a.s, c, e)
    <3>1. CASE a.s = s
      BY <1>4, <3>1, JudgedSame
    <3>2. CASE a.s = fail_ota_deployment(s, d, code)
      BY <2>2, <2>4, <3>2, JudgedFailure, SMT
    <3> QED
      BY <2>4, <3>1, <3>2
  <2>5. \/ \E code \in {"WITHDRAWN", "DOWNLOAD_RETRY_NOT_TAKEN", "DOWNLOAD_RETRIES_EXHAUSTED"} :
             a.d = 0 /\ a.s \in {s, fail_ota_deployment(s, d, code)}
        \/ a.d = d /\ a.s = Grant(w, d, c) /\ x.st = "PENDING"
        \/ /\ a.d = d /\ a.s = Grant(s, d, c) /\ x.st # "PENDING"
           /\ Held(x) => ~_re_offers_spent(x)
           /\ ~Held(x) => ~resumed_attempt_refusal(x)
    <3>1. \A code : fail_held_download(s, d, code) \in {s, fail_ota_deployment(s, d, code)}
      BY DEF fail_held_download
    <3>2. a = IF s.release # "AVAILABLE" \/ ~s.admits
              THEN [s |-> IF x.st = "PENDING" THEN s ELSE fail_held_download(s, d, "WITHDRAWN"), d |-> 0]
              ELSE IF x.st = "PENDING" THEN [s |-> Grant(w, d, c), d |-> d]
              ELSE IF Held(x) THEN download_retry_hold(s, d, c)
              ELSE IF resumed_attempt_refusal(x)
              THEN [s |-> fail_ota_deployment(s, d, "DOWNLOAD_RETRIES_EXHAUSTED"), d |-> 0]
              ELSE [s |-> Grant(s, d, c), d |-> d]
      BY <1>1, <1>2, <1>3, <1>9, Zenon DEF assignment_for_connector
    <3>3. CASE s.release # "AVAILABLE" \/ ~s.admits
      <4>1. a.d = 0 /\ a.s \in {s, fail_held_download(s, d, "WITHDRAWN")}
        BY <1>6, <3>2, <3>3
      <4> QED
        BY <3>1, <4>1
    <3>4. CASE s.release = "AVAILABLE" /\ s.admits
      <4>1. CASE x.st = "PENDING"
        <5>1. a = [s |-> Grant(w, d, c), d |-> d]
          BY <3>2, <3>4, <4>1
        <5> QED
          BY <1>7, <4>1, <5>1
      <4>2. CASE x.st # "PENDING" /\ Held(x)
        <5>1. a = download_retry_hold(s, d, c)
          BY <3>2, <3>4, <4>2
        <5>2. CASE _hold_expired(x)
          <6>1. a = [s |-> fail_held_download(s, d, "DOWNLOAD_RETRY_NOT_TAKEN"), d |-> 0]
            BY <1>2, <5>1, <5>2 DEF download_retry_hold
          <6> QED
            BY <1>6, <3>1, <6>1
        <5>3. CASE ~_hold_expired(x) /\ x.clock = "backoff"
          <6>1. a = [s |-> s, d |-> 0]
            BY <1>2, <5>1, <5>3 DEF download_retry_hold
          <6> QED
            BY <1>6, <6>1
        <5>4. CASE ~_hold_expired(x) /\ x.clock # "backoff"
          <6>1. a = IF _re_offers_spent(x)
                    THEN [s |-> fail_held_download(s, d, "DOWNLOAD_RETRIES_EXHAUSTED"), d |-> 0]
                    ELSE [s |-> Grant(s, d, c), d |-> d]
            BY <1>2, <5>1, <5>4 DEF download_retry_hold
          <6>2. CASE _re_offers_spent(x)
            BY <1>6, <3>1, <6>1, <6>2
          <6>3. CASE ~_re_offers_spent(x)
            BY <1>7, <4>2, <6>1, <6>3
          <6> QED
            BY <6>2, <6>3
        <5> QED
          BY <5>2, <5>3, <5>4
      <4>3. CASE x.st # "PENDING" /\ ~Held(x)
        <5>1. a = IF resumed_attempt_refusal(x)
                  THEN [s |-> fail_ota_deployment(s, d, "DOWNLOAD_RETRIES_EXHAUSTED"), d |-> 0]
                  ELSE [s |-> Grant(s, d, c), d |-> d]
          BY <3>2, <3>4, <4>3
        <5>2. CASE resumed_attempt_refusal(x)
          BY <1>6, <5>1, <5>2
        <5>3. CASE ~resumed_attempt_refusal(x)
          BY <1>7, <4>3, <5>1, <5>3
        <5> QED
          BY <5>2, <5>3
      <4> QED
        BY <4>1, <4>2, <4>3
    <3> QED
      BY <3>3, <3>4
  <2>6. CASE \E code \in {"WITHDRAWN", "DOWNLOAD_RETRY_NOT_TAKEN", "DOWNLOAD_RETRIES_EXHAUSTED"} :
             a.d = 0 /\ a.s \in {s, fail_ota_deployment(s, d, code)}
    <3>1. {"WITHDRAWN", "DOWNLOAD_RETRY_NOT_TAKEN", "DOWNLOAD_RETRIES_EXHAUSTED"} \subseteq Codes \ {"PARTITION_HASH_FAILED"}
      BY DEF Codes
    <3> QED
      BY <2>4, <2>6, <3>1
  <2>7. CASE a.d = d /\ a.s = Grant(w, d, c) /\ x.st = "PENDING"
    <3>1. Sound(a.s, plan.resumes, hold, u) /\ GrantMoves(s, a.s, c, d)
      BY <1>2, <1>3, <2>1, <2>7, OfferSound, SMT
    <3> QED
      BY <1>9, <2>1, <2>7, <3>1
  <2>8. CASE /\ a.d = d /\ a.s = Grant(s, d, c) /\ x.st # "PENDING"
             /\ Held(x) => ~_re_offers_spent(x)
             /\ ~Held(x) => ~resumed_attempt_refusal(x)
    <3>1. x.st \in Downloading /\ (x.stops > 0 => plan.resumes)
      BY <2>2, <2>3, <2>8 DEF Row, Kept
    <3>2. x.stops > 0 => ~_re_offers_spent(x)
      BY <2>8, <3>1 DEF resumed_attempt_refusal
    <3>3. x.stops > 0 => x.regrants < GrantLimit
      BY <2>2, <3>2, OtaAssumption, SMT DEF _re_offers_spent, DepRecords
    <3>4. Sound(a.s, plan.resumes, hold, u) /\ GrantMoves(s, a.s, c, d)
      BY <1>2, <2>1, <2>8, <3>1, <3>3, GrantSound
    <3> QED
      BY <1>9, <2>1, <2>8, <3>4
  <2> QED
    BY <2>5, <2>6, <2>7, <2>8
<1> QED
  BY <1>8, <1>9

(* The ESP's half after a grant: it takes the deployment up, or stays where  *)
(* it was; no heartbeat on the way is of this grant.                         *)
LEMMA GrantedDevice ==
    ASSUME NEW s, NEW hold, Zone(s, hold), NEW t, NEW c, NEW d, Offerable(s, c, d), GrantMoves(s, t, c, d),
           t.deps[d].offered,
           NEW e, NEW h, NEW u, Device(s, c, e, h, u), \A i \in Of(s, c) : s.deps[i].st \notin Late,
           NEW g, g = [h EXCEPT !.after = FALSE], NEW f \in EspRecords, Task(f), f.since = e.since,
           \/ f.jdep = d /\ f.jst = "DOWNLOADING" /\ f.busy
           \/ /\ f.jdep = e.jdep /\ f.jst = e.jst /\ ~f.busy /\ f.pc = e.pc /\ ~e.busy
              /\ f.err = "PARTITION_HASH_FAILED" => e.err = "PARTITION_HASH_FAILED"
    PROVE  Device(t, c, f, g, u)
<1>1. /\ g \in HbRecords /\ g.st = h.st /\ g.err = h.err /\ g.ver = h.ver /\ g.since = h.since /\ ~g.after
  <2>1. h \in HbRecords
    BY DEF Device
  <2> QED
    BY <2>1 DEF HbRecords
<1>2. Of(t, c) = Of(s, c) /\ d \in Of(s, c)
  BY SMT DEF Of, GrantMoves, Offerable
<1>3. \A i \in Of(s, c) : i # d => t.deps[i] = s.deps[i]
  BY DEF Of, GrantMoves
<1>4. \A i \in Of(t, c) : t.deps[i].st \notin Late
  BY <1>2, <1>3 DEF GrantMoves, Late
<1>5. ASSUME NEW i \in Of(t, c), t.deps[i].st = "DOWNLOADING"
      PROVE  i = d /\ s.deps[d].st = "DOWNLOADING"
  <2>1. CASE i = d
    BY <1>5, <2>1 DEF GrantMoves
  <2>2. CASE i # d
    <3>1. i \in DOMAIN s.deps /\ s.deps[i].st = "DOWNLOADING"
      BY <1>2, <1>3, <1>5, <2>2 DEF Of
    <3>2. Status(s, i) \in Live /\ s.deps[i].camp \in DOMAIN s.camps /\ s.deps[d].camp \in DOMAIN s.camps
      BY <3>1 DEF Zone, Downloading, Offerable
    <3>3. s.deps[i].camp = s.deps[d].camp
      BY <3>1, <3>2 DEF Zone, Offerable, Status, Live
    <3> QED
      BY <2>2, <3>1, <3>3 DEF Offerable, Active, Downloading
  <2> QED
    BY <2>1, <2>2
<1>6. Journalled(t, c, f)
  BY <1>2, <1>4, <1>5 DEF Journalled, Device
<1>7. Truthful(t, c, f, g, u)
  <2>1. \A i \in g.since : t.deps[i].st \notin {"BOOTED_PENDING", "RECONCILING"}
    BY <1>1, <1>2, <1>4 DEF Device, Late, Active, Downloading
  <2>2. g.st \notin {"NONE", "UPDATING"} /\ g.err = "PARTITION_HASH_FAILED" =>
          f.jst \notin {"READY_TO_BOOT", "RECONCILING"}
    BY <1>1 DEF Device, Truthful
  <2> QED
    BY <1>1, <2>1, <2>2 DEF Truthful, GrantMoves
<1>8. \A i \in Of(s, c) : (s.deps[i].offered => t.deps[i].offered) /\ (s.deps[i].booted => t.deps[i].booted)
  BY <1>3 DEF GrantMoves
<1>9. f.jdep # 0 => f.jdep \in Of(t, c) /\ t.deps[f.jdep].offered
  BY <1>2, <1>8 DEF Device
<1>10. \A i \in f.since \cup g.since : i \in Of(t, c) /\ t.deps[i].booted
  BY <1>1, <1>2, <1>8 DEF Device
<1>11. ~f.busy /\ f.pc # "off" /\ f.err = "PARTITION_HASH_FAILED" => f.jdep \in u
  BY DEF Device
<1> QED
  BY <1>1, <1>6, <1>7, <1>9, <1>10, <1>11 DEF Device

(* What the ESP makes of a grant. *)
LEMMA AssignedEsp ==
    ASSUME HasLeast, NEW e \in EspRecords, Task(e), e.pc = "poll", NEW d \in Nat \ {0}, NEW f, f = Assigned(e, d)
    PROVE  /\ f \in EspRecords /\ Task(f) /\ f.since = e.since
           /\ \/ f.jdep = d /\ f.jst = "DOWNLOADING" /\ f.busy
              \/ /\ f.jdep = e.jdep /\ f.jst = e.jst /\ ~f.busy /\ f.pc = e.pc /\ ~e.busy
                 /\ f.err = "PARTITION_HASH_FAILED" => e.err = "PARTITION_HASH_FAILED"
<1>1. CASE e.run = "new"
  <2>1. PICK err \in Errors : err = "OTA_ASSIGNMENT_ALREADY_RUNNING"
    BY DEF Errors
  <2>2. f = [e EXCEPT !.err = err, !.errDep = d]
    BY <1>1, <2>1, Zenon DEF Assigned
  <2>3. /\ f \in EspRecords /\ f.pc = "poll" /\ f.busy = e.busy /\ f.err = err /\ f.jst = e.jst
        /\ f.run = e.run /\ f.valid = e.valid /\ f.sel = e.sel /\ f.bad = e.bad
        /\ f.jdep = e.jdep /\ f.since = e.since
    BY <2>2 DEF EspRecords
  <2>4. Task(f) /\ ~f.busy /\ ~e.busy
    BY <2>1, <2>3 DEF Task
  <2> QED
    BY <2>1, <2>3, <2>4
<1>2. CASE e.run # "new"
  <2>1. PICK resume : resume = IF e.jst = "DOWNLOADING" /\ e.jdep = d THEN Min({e.bytes, Blocks - 1}) ELSE 0
    BY Zenon
  <2>2. resume \in Nat
    <3>1. {e.bytes, Blocks - 1} \subseteq Nat
      BY OtaAssumption, SMT DEF EspRecords
    <3>2. Min({e.bytes, Blocks - 1}) \in {e.bytes, Blocks - 1}
      BY <3>1, Least
    <3> QED
      BY <2>1, <3>1, <3>2
  <2>3. PICK bad : bad = (e.bad /\ resume > 0)
    BY Zenon
  <2>4. bad \in BOOLEAN
    BY <2>3, Zenon
  <2>5. f = [e EXCEPT !.jst = "DOWNLOADING", !.jdep = d, !.bytes = resume,
                      !.bad = bad, !.pc = "download", !.busy = TRUE]
    BY <1>2, <2>1, <2>3, Zenon DEF Assigned
  <2>6. f \in EspRecords
    <3>1. PICK k : k = [e EXCEPT !.jst = "DOWNLOADING", !.jdep = d, !.bytes = resume]
      BY Zenon
    <3>2. k \in EspRecords
      BY <2>2, <3>1 DEF EspRecords, JournalStates
    <3>3. f = [k EXCEPT !.bad = bad, !.pc = "download", !.busy = TRUE]
      BY <2>5, <3>1, Zenon
    <3> QED
      BY <2>4, <3>2, <3>3 DEF EspRecords
  <2>7. /\ f.pc = "download" /\ f.busy /\ f.jst = "DOWNLOADING" /\ f.jdep = d
        /\ f.run = e.run /\ f.valid = e.valid /\ f.sel = e.sel /\ f.since = e.since
    BY <2>5 DEF EspRecords
  <2>8. e.run = "old" /\ e.sel = "old"
    BY <1>2 DEF EspRecords, Images, Task
  <2>9. Task(f)
    BY <2>7, <2>8 DEF Task
  <2> QED
    BY <2>6, <2>7, <2>9
<1> QED
  BY <1>1, <1>2

LEMMA FetchStep ==
    ASSUME HasLeast, OtaInv, NEW c \in Connectors, fetch_assignment(c)
    PROVE  OtaInv'
<1>1. PICK e : e = esp[c]
  BY Zenon
<1>2. PICK h : h = hb[c]
  BY Zenon
<1>3. PICK a : a = assignment_for_connector(add, c)
  BY Zenon
<1>4. PICK g : g = [h EXCEPT !.after = FALSE]
  BY Zenon
<1>5. /\ Device(add, c, e, h, unverified) /\ e \in EspRecords /\ Task(e)
      /\ Sound(add, plan.resumes, onHold, unverified) /\ Zone(add, onHold)
      /\ add \in AddRecords /\ h \in HbRecords
  BY <1>1, <1>2 DEF OtaInv, Device, Sound
<1>6. /\ e.pc = "poll" /\ e.jst # "RECONCILING" /\ add' = a.s
      /\ hb' = IF a.d = 0 THEN hb ELSE [hb EXCEPT ![c] = g]
      /\ \/ a.d # 0 /\ esp' = [esp EXCEPT ![c] = Assigned(e, a.d)]
         \/ a.d # 0 /\ esp' = esp
         \/ a.d = 0 /\ esp' = esp
      /\ UNCHANGED <<plan, controls, onHold, unverified>>
  BY <1>1, <1>2, <1>3, <1>4, Zenon DEF fetch_assignment, Become
<1>7. \A d \in Of(add, c) : add.deps[d].st \notin Late
  BY <1>5, <1>6 DEF Device, Journalled, AtBoot
<1>8. /\ Sound(add', plan.resumes, onHold, unverified)
      /\ a.d = 0 => Judged(add, add', c, e)
      /\ a.d # 0 => Offerable(add, c, a.d) /\ GrantMoves(add, add', c, a.d)
  BY <1>3, <1>5, <1>6, <1>7, Assignment
<1>9. CASE a.d = 0
  <2>1. Quiet(add, add') /\ OwnRows(add, add', c) /\ add'.telem = add.telem
    BY <1>8, <1>9 DEF Judged
  <2>2. Device(add', c, e, h, unverified)
    BY <1>5, <2>1, QuietDevice
  <2>3. hb' = [hb EXCEPT ![c] = h] /\ esp' = [esp EXCEPT ![c] = e]
    BY <1>1, <1>2, <1>6, <1>9 DEF OtaInv
  <2> QED
    BY <1>6, <1>8, <2>1, <2>2, <2>3, OwnStep
<1>10. CASE a.d # 0
  <2>1. PICK d : d = a.d
    BY Zenon
  <2>2. Offerable(add, c, d) /\ GrantMoves(add, add', c, d)
    BY <1>8, <1>10, <2>1
  <2>3. d \in DOMAIN add.deps /\ d \in Nat \ {0} /\ add.deps[d].con = c
    BY <1>5, <2>2, Tables, SMT DEF Offerable
  <2>4. add'.deps[d].offered
    <3>1. Row(add'.deps[d], d, plan.resumes, unverified) /\ add'.deps[d].st \in Downloading
      BY <1>8, <2>2, <2>3 DEF Sound, GrantMoves
    <3> QED
      BY <3>1 DEF Row, Kept, Active
  <2>5. OwnRows(add, add', c) /\ \A b \in Connectors \ {c} : add'.telem[b] = add.telem[b]
    BY <2>2, <2>3 DEF OwnRows, GrantMoves
  <2>6. PICK f \in {e, Assigned(e, d)} : esp' = [esp EXCEPT ![c] = f]
    BY <1>1, <1>6, <1>10, <2>1 DEF OtaInv
  <2>7. /\ f \in EspRecords /\ Task(f) /\ f.since = e.since
        /\ \/ f.jdep = d /\ f.jst = "DOWNLOADING" /\ f.busy
           \/ /\ f.jdep = e.jdep /\ f.jst = e.jst /\ ~f.busy /\ f.pc = e.pc /\ ~e.busy
              /\ f.err = "PARTITION_HASH_FAILED" => e.err = "PARTITION_HASH_FAILED"
    <3>1. CASE f = e
      BY <1>5, <1>6, <3>1 DEF Task
    <3>2. CASE f = Assigned(e, d)
      BY <1>5, <1>6, <2>3, <3>2, AssignedEsp, SMT
    <3> QED
      BY <2>6, <3>1, <3>2
  <2>8. Device(add', c, f, g, unverified)
    BY <1>4, <1>5, <1>7, <2>2, <2>4, <2>7, GrantedDevice
  <2>9. hb' = [hb EXCEPT ![c] = g]
    BY <1>6, <1>10
  <2> QED
    BY <1>6, <1>8, <2>5, <2>6, <2>8, <2>9, OwnStep
<1> QED
  BY <1>9, <1>10

-----------------------------------------------------------------------------
(* Time, maintenance and the owner: steps of ADD alone. *)

LEMMA AddStep ==
    ASSUME OtaInv, UNCHANGED <<esp, hb, plan, unverified>>,
           Sound(add', plan.resumes, onHold', unverified), Quiet(add, add'), add'.telem = add.telem
    PROVE  OtaInv'
<1>1. \A c \in Connectors : Device(add', c, esp[c], hb[c], unverified)
  BY QuietDevice DEF OtaInv
<1> QED
  BY <1>1 DEF OtaInv

(* ADD alone: nothing an ESP would have to know, no outcome and no stop. *)
Calm(s, t) ==
    /\ Quiet(s, t) /\ t.telem = s.telem
    /\ \A d \in DOMAIN s.deps :
         /\ t.deps[d].st # s.deps[d].st => t.deps[d].st \notin {"SUCCEEDED", "ROLLED_BACK"}
         /\ t.deps[d].stops = s.deps[d].stops

LEMMA CalmStep ==
    ASSUME OtaInv, UNCHANGED <<esp, hb, plan, unverified>>,
           Sound(add', plan.resumes, onHold', unverified), Calm(add, add')
    PROVE  OtaInv'
  BY AddStep DEF Calm

(* Writing a row that is and stays a download keeps the ESPs' half. *)
LEMMA HoldStep ==
    ASSUME OtaInv, NEW d \in DOMAIN add.deps, HoldAges(d) \/ WindowCloses(d)
    PROVE  OtaInv' /\ Calm(add, add')
<1>1. PICK x : x = add.deps[d]
  BY Zenon
<1>2. /\ add \in AddRecords /\ Zone(add, onHold) /\ x \in DepRecords
      /\ Row(x, d, plan.resumes, unverified) /\ Sound(add, plan.resumes, onHold, unverified)
  BY <1>1, Tables DEF OtaInv, Sound
<1>3. PICK clock : clock = IF x.clock = "backoff" THEN "due" ELSE "late"
  BY Zenon
<1>4. PICK y \in {[x EXCEPT !.clock = clock], [x EXCEPT !.closed = TRUE]} :
        add' = [add EXCEPT !.deps[d] = y] /\ x.st \in Downloading
  BY <1>1, <1>3, Zenon DEF HoldAges, WindowCloses, Held
<1>5. UNCHANGED <<esp, hb, plan, onHold, unverified>>
  BY DEF HoldAges, WindowCloses
<1>6. /\ y \in DepRecords /\ y.camp = x.camp /\ y.con = x.con /\ y.st = x.st /\ y.code = x.code
      /\ y.offered = x.offered /\ y.booted = x.booted /\ y.stops = x.stops /\ y.regrants = x.regrants
  BY <1>2, <1>3, <1>4 DEF DepRecords
<1>7. Row(y, d, plan.resumes, unverified)
  BY <1>2, <1>6 DEF Row, Kept
<1>8. \A e \in DOMAIN add.deps \ {d} : add.deps[e].camp = y.camp => add.deps[e].st \notin Active
  BY <1>1, <1>2, <1>4, <1>6 DEF Zone, Active
<1>9. PICK t : t = add'
  BY Zenon
<1>10. Sound(t, plan.resumes, onHold, unverified) /\ Moved(add, t, d, y, add.camps[add.deps[d].camp])
  BY <1>1, <1>2, <1>4, <1>6, <1>7, <1>8, <1>9, SoundWrite
<1>11. Calm(add, t)
  BY <1>1, <1>6, <1>10 DEF Moved, Quiet, Calm
<1> QED
  BY <1>5, <1>9, <1>10, <1>11, CalmStep

LEMMA SweepStep ==
    ASSUME OtaInv, NEW d \in DOMAIN add.deps, expire_held_downloads(d)
    PROVE  OtaInv' /\ Calm(add, add')
<1>1. PICK code : code = IF Status(add, d) # "ACTIVE" THEN "WITHDRAWN" ELSE "DOWNLOAD_RETRY_NOT_TAKEN"
  BY Zenon
<1>2. code \in Codes /\ code # "PARTITION_HASH_FAILED"
  BY <1>1 DEF Codes
<1>3. add' = fail_ota_deployment(add, d, code) /\ UNCHANGED <<esp, hb, plan, onHold, unverified>>
  BY <1>1, Zenon DEF expire_held_downloads, fail_held_download
<1>4. PICK st \in Reports : st = "FAILED"
  BY DEF Reports
<1>5. PICK ver : ver = ""
  BY Zenon
<1>6. add' = record_progress(add, d, st, code, add.deps[d].bytes, ver)
  BY <1>3, <1>4, <1>5, Zenon DEF fail_ota_deployment
<1>7. add.deps[d].bytes \in Nat /\ Sound(add, plan.resumes, onHold, unverified)
  BY Tables DEF OtaInv, Sound, DepRecords
<1>8. Sound(add', plan.resumes, onHold, unverified) /\ (add' = add \/ Progressed(add, add', d, st))
  BY <1>2, <1>6, <1>7, SoundProgress, SMT
<1>9. Calm(add, add')
  BY <1>4, <1>8 DEF Progressed, Calm, Quiet, Late, Active, Downloading
<1> QED
  BY <1>3, <1>8, <1>9, CalmStep

(* What ADD does to many rows at once: it fails or withdraws downloads, and  *)
(* deletes rows that were never offered.                                     *)
BulkRow(x, y) ==
    \/ y = x
    \/ /\ y.camp = x.camp /\ y.con = x.con /\ y.offered = x.offered /\ y.booted = x.booted
       /\ y.stops = x.stops /\ y.regrants = x.regrants /\ y.code \in {x.code, "WITHDRAWN"}
       /\ \/ /\ x.st \in Downloading \cup {"PENDING"} /\ y.st \in {"FAILED", "CANCELLED"}
             /\ y.st = "FAILED" => x.st \in Downloading
          \/ x.st \in {"PENDING", "CANCELLED"} /\ ~x.offered /\ y.st = "DELETED"

Bulk(s, t) ==
    /\ t \in AddRecords /\ t.telem = s.telem
    /\ DOMAIN t.camps = DOMAIN s.camps /\ DOMAIN t.deps = DOMAIN s.deps
    /\ \A d \in DOMAIN s.deps : BulkRow(s.deps[d], t.deps[d])

LEMMA CalmTwice ==
    ASSUME NEW s, NEW t, NEW w, Calm(s, t), Calm(t, w), DOMAIN t.deps = DOMAIN s.deps
    PROVE  Calm(s, w)
  BY SMT DEF Calm, Quiet

LEMMA FailedRow ==
    ASSUME NEW x \in DepRecords, x.st \in Downloading,
           NEW y, y = [x EXCEPT !.st = "FAILED", !.code = "WITHDRAWN"]
    PROVE  y \in DepRecords /\ BulkRow(x, y) /\ y.st = "FAILED"
<1>1. /\ y \in DepRecords /\ y.camp = x.camp /\ y.con = x.con /\ y.offered = x.offered /\ y.booted = x.booted
      /\ y.stops = x.stops /\ y.regrants = x.regrants /\ y.code = "WITHDRAWN" /\ y.st = "FAILED"
  BY DEF DepRecords, DepStates, Terminal, Codes
<1> QED
  BY <1>1 DEF BulkRow

LEMMA CancelledRow ==
    ASSUME NEW x \in DepRecords, x.st \in Downloading \cup {"PENDING"},
           NEW y, y = [x EXCEPT !.st = "CANCELLED"]
    PROVE  y \in DepRecords /\ BulkRow(x, y) /\ y.st = "CANCELLED"
<1>1. /\ y \in DepRecords /\ y.camp = x.camp /\ y.con = x.con /\ y.offered = x.offered /\ y.booted = x.booted
      /\ y.stops = x.stops /\ y.regrants = x.regrants /\ y.code = x.code /\ y.st = "CANCELLED"
  BY DEF DepRecords, DepStates, Terminal
<1> QED
  BY <1>1 DEF BulkRow

LEMMA DeletedRow ==
    ASSUME NEW x \in DepRecords, x.st \in {"PENDING", "CANCELLED"}, ~x.offered,
           NEW y, y = [x EXCEPT !.st = "DELETED"]
    PROVE  y \in DepRecords /\ BulkRow(x, y) /\ y.st = "DELETED"
<1>1. /\ y \in DepRecords /\ y.camp = x.camp /\ y.con = x.con /\ y.offered = x.offered /\ y.booted = x.booted
      /\ y.stops = x.stops /\ y.regrants = x.regrants /\ y.code = x.code /\ y.st = "DELETED"
  BY DEF DepRecords, DepStates
<1> QED
  BY <1>1 DEF BulkRow

(* Rows and campaigns written at once keep ADD's half. *)
LEMMA BulkSound ==
    ASSUME NEW s, NEW r, NEW hold, NEW u, Sound(s, r, hold, u), NEW t, Bulk(s, t), NEW hold2,
           \A k \in DOMAIN s.camps : t.camps[k].status \in Live => s.camps[k].status \in Live,
           \A d \in DOMAIN s.deps :
             /\ t.deps[d].st \in Downloading \cup {"PENDING"} => Status(t, d) \in Live
             /\ Status(t, d) = "COMPLETED" => t.deps[d].st = "SUCCEEDED"
             /\ Status(t, d) = "DELETED" => t.deps[d].st = "DELETED",
           \A k \in hold2 :
             /\ k \in DOMAIN s.camps
             /\ t.camps[k].status # "ACTIVE"
             /\ t.camps[k].status = "PAUSED" => t.camps[k].reason.by \in {"owner", "revoked"}
    PROVE  Sound(t, r, hold2, u) /\ Calm(s, t)
<1>1. \A d \in DOMAIN s.deps : BulkRow(s.deps[d], t.deps[d]) /\ Row(s.deps[d], d, r, u)
  BY DEF Bulk, Sound
<1>2. \A d \in DOMAIN s.deps : t.deps[d].camp = s.deps[d].camp
  BY <1>1 DEF BulkRow
<1>3. \A d \in DOMAIN s.deps : t.deps[d].st \in Active => s.deps[d].st = t.deps[d].st
  BY <1>1 DEF BulkRow, Active, Downloading
<1>4. Zone(t, hold2)
  <2>1. \A j, k \in DOMAIN t.camps : t.camps[j].status \in Live /\ t.camps[k].status \in Live => j = k
    BY DEF Sound, Zone, Bulk
  <2>2. \A d \in DOMAIN t.deps : t.deps[d].camp \in DOMAIN t.camps
    BY <1>2 DEF Sound, Zone, Bulk
  <2>3. \A d, e \in DOMAIN t.deps :
          t.deps[d].camp = t.deps[e].camp /\ t.deps[d].st \in Active /\ t.deps[e].st \in Active => d = e
    BY <1>2, <1>3 DEF Sound, Zone, Bulk
  <2> QED
    BY <2>1, <2>2, <2>3 DEF Zone, Bulk
<1>5. ASSUME NEW d \in DOMAIN s.deps PROVE Row(t.deps[d], d, r, u)
  <2>1. CASE t.deps[d] = s.deps[d]
    BY <1>1, <2>1
  <2>2. CASE t.deps[d] # s.deps[d]
    <3>1. PICK x : x = s.deps[d]
      BY Zenon
    <3>2. PICK y : y = t.deps[d]
      BY Zenon
    <3>3. /\ y.offered = x.offered /\ y.booted = x.booted
          /\ y.stops = x.stops /\ y.regrants = x.regrants /\ y.code \in {x.code, "WITHDRAWN"}
          /\ \/ /\ x.st \in Downloading \cup {"PENDING"} /\ y.st \in {"FAILED", "CANCELLED"}
                /\ y.st = "FAILED" => x.st \in Downloading
             \/ x.st \in {"PENDING", "CANCELLED"} /\ ~x.offered /\ y.st = "DELETED"
      BY <1>1, <2>2, <3>1, <3>2 DEF BulkRow
    <3>4. Kept(x, d, r, u)
      BY <1>1, <3>1 DEF Row
    <3>5. ~x.booted /\ (x.st \in Downloading => x.offered)
      BY <3>3, <3>4 DEF Kept, Downloading, Active
    <3> QED
      BY <3>2, <3>3, <3>4, <3>5 DEF Row, Kept, Downloading, Active
  <2> QED
    BY <2>1, <2>2
<1>6. Quiet(s, t)
  BY <1>1 DEF Quiet, BulkRow, Late, Active, Downloading, Bulk
<1>7. \A d \in DOMAIN s.deps :
         /\ t.deps[d].st # s.deps[d].st => t.deps[d].st \notin {"SUCCEEDED", "ROLLED_BACK"}
         /\ t.deps[d].stops = s.deps[d].stops
  BY <1>1 DEF BulkRow
<1> QED
  BY <1>4, <1>5, <1>6, <1>7 DEF Sound, Calm, Bulk

LEMMA HeldFailed ==
    ASSUME NEW s \in AddRecords, NEW K, NEW t, t = fail_held_downloads(s, K)
    PROVE  /\ Bulk(s, t) /\ t.camps = s.camps /\ t.release = s.release
           /\ \A d \in DOMAIN s.deps :
                /\ s.deps[d].camp \notin K => t.deps[d] = s.deps[d]
                /\ t.deps[d] = s.deps[d] \/ t.deps[d].st = "FAILED"
<1> DEFINE D == [d \in DOMAIN s.deps |->
                   IF s.deps[d].camp \in K /\ Held(s.deps[d])
                   THEN [s.deps[d] EXCEPT !.st = "FAILED", !.code = "WITHDRAWN"] ELSE s.deps[d]]
<1>1. t = [s EXCEPT !.deps = D]
  BY Zenon DEF fail_held_downloads
<1>2. ASSUME NEW d \in DOMAIN s.deps
      PROVE  /\ D[d] \in DepRecords /\ BulkRow(s.deps[d], D[d])
             /\ s.deps[d].camp \notin K => D[d] = s.deps[d]
             /\ D[d] = s.deps[d] \/ D[d].st = "FAILED"
  <2>1. PICK x \in DepRecords : x = s.deps[d]
    BY Tables
  <2>2. PICK y : y = [x EXCEPT !.st = "FAILED", !.code = "WITHDRAWN"]
    BY Zenon
  <2>3. D[d] = IF x.camp \in K /\ Held(x) THEN y ELSE x
    BY <2>1, <2>2, Zenon
  <2>4. x.st \in Downloading => y \in DepRecords /\ BulkRow(x, y) /\ y.st = "FAILED"
    BY <2>2, FailedRow
  <2>5. BulkRow(x, x)
    BY DEF BulkRow
  <2> HIDE DEF D
  <2> QED
    BY <2>1, <2>3, <2>4, <2>5 DEF Held
<1>3. D \in [DOMAIN s.deps -> DepRecords] /\ DOMAIN D = DOMAIN s.deps
  BY <1>2, Zenon
<1> HIDE DEF D
<1>4. D \in Seq(DepRecords)
  BY <1>3, SeqRows, Tables
<1>5. t \in AddRecords /\ t.deps = D /\ t.camps = s.camps /\ t.release = s.release /\ t.telem = s.telem
  BY <1>1, <1>4, WithDeps, SMT
<1> QED
  BY <1>2, <1>3, <1>5 DEF Bulk

(* a control of the campaigns K *)
ControlMoves(s, t, K, action) ==
    /\ Bulk(s, t) /\ t.release = s.release
    /\ \A k \in DOMAIN s.camps \cap K :
         /\ t.camps[k].status = CAMPAIGN_CONTROL_STATES[action]
         /\ t.camps[k].reason = IF action = "resume" THEN NoReason ELSE OwnerReason
    /\ \A k \in DOMAIN s.camps \ K : t.camps[k] = s.camps[k]
    /\ \A d \in DOMAIN s.deps :
         /\ s.deps[d].camp \notin K => t.deps[d] = s.deps[d]
         /\ s.deps[d].camp \in K /\ action = "cancel" => t.deps[d].st \notin Downloading \cup {"PENDING"}

LEMMA ControlShape ==
    ASSUME NEW s \in AddRecords, NEW K, NEW action \in {"pause", "resume", "cancel"},
           NEW t, t = control_campaign(s, K, action)
    PROVE  ControlMoves(s, t, K, action)
<1>1. PICK f : f = IF action = "resume" THEN s ELSE fail_held_downloads(s, K)
  BY Zenon
<1>2. /\ Bulk(s, f) /\ f.camps = s.camps /\ f.release = s.release
      /\ \A d \in DOMAIN s.deps :
           /\ s.deps[d].camp \notin K => f.deps[d] = s.deps[d]
           /\ f.deps[d] = s.deps[d] \/ f.deps[d].st = "FAILED"
  <2>1. CASE action = "resume"
    BY <1>1, <2>1 DEF Bulk, BulkRow
  <2>2. CASE action # "resume"
    BY <1>1, <2>2, HeldFailed, SMT
  <2> QED
    BY <2>1, <2>2
<1>3. PICK status : status = CAMPAIGN_CONTROL_STATES[action]
  BY Zenon
<1>4. status \in Live \cup Closed
  BY <1>3, SMT DEF CAMPAIGN_CONTROL_STATES, Live, Closed
<1>5. PICK reason : reason = IF action = "resume" THEN NoReason ELSE OwnerReason
  BY Zenon
<1>6. reason \in Reasons
  BY <1>5 DEF NoReason, OwnerReason, Reasons, Codes, Errors
<1> DEFINE C == [k \in DOMAIN s.camps |->
                   IF k \in K THEN [s.camps[k] EXCEPT !.status = status, !.reason = reason] ELSE s.camps[k]]
<1>7. ASSUME NEW k \in DOMAIN s.camps
      PROVE  /\ C[k] \in CampRecords
             /\ k \in K => C[k].status = status /\ C[k].reason = reason
             /\ k \notin K => C[k] = s.camps[k]
  <2>1. PICK z \in CampRecords : z = s.camps[k]
    BY Tables
  <2>2. PICK w : w = [z EXCEPT !.status = status, !.reason = reason]
    BY Zenon
  <2>3. w \in CampRecords /\ w.status = status /\ w.reason = reason
    BY <1>4, <1>6, <2>2 DEF CampRecords
  <2>4. C[k] = IF k \in K THEN w ELSE z
    BY <2>1, <2>2, Zenon
  <2> HIDE DEF C
  <2> QED
    BY <2>1, <2>3, <2>4
<1>8. C \in [DOMAIN s.camps -> CampRecords] /\ DOMAIN C = DOMAIN s.camps
  BY <1>7, Zenon
<1>9. PICK set : set = [f EXCEPT !.camps = C]
  BY Zenon
<1>10. t = IF action # "cancel" THEN set
           ELSE [set EXCEPT !.deps = [d \in DOMAIN set.deps |->
                   IF set.deps[d].camp \in K /\ set.deps[d].st \in Downloading \cup {"PENDING"}
                   THEN [set.deps[d] EXCEPT !.st = "CANCELLED"] ELSE set.deps[d]]]
  BY <1>1, <1>3, <1>5, <1>9, Zenon DEF control_campaign
<1> HIDE DEF C
<1>11. C \in Seq(CampRecords)
  BY <1>8, SeqRows, Tables
<1>12. set \in AddRecords /\ set.camps = C /\ set.deps = f.deps /\ set.release = f.release /\ set.telem = f.telem
  BY <1>2, <1>9, <1>11, WithCamps DEF Bulk
<1>13. CASE action # "cancel"
  <2>1. t = set
    BY <1>10, <1>13
  <2>2. Bulk(s, t)
    BY <1>2, <1>8, <1>12, <2>1 DEF Bulk
  <2> QED
    BY <1>2, <1>3, <1>5, <1>7, <1>12, <1>13, <2>1, <2>2 DEF ControlMoves
<1>14. CASE action = "cancel"
  <2> DEFINE D == [d \in DOMAIN set.deps |->
                     IF set.deps[d].camp \in K /\ set.deps[d].st \in Downloading \cup {"PENDING"}
                     THEN [set.deps[d] EXCEPT !.st = "CANCELLED"] ELSE set.deps[d]]
  <2>1. t = [set EXCEPT !.deps = D]
    BY <1>10, <1>14, Zenon
  <2>2. DOMAIN set.deps = DOMAIN s.deps
    BY <1>2, <1>12 DEF Bulk
  <2>3. ASSUME NEW d \in DOMAIN s.deps
        PROVE  /\ D[d] \in DepRecords /\ BulkRow(s.deps[d], D[d])
               /\ s.deps[d].camp \notin K => D[d] = s.deps[d]
               /\ s.deps[d].camp \in K => D[d].st \notin Downloading \cup {"PENDING"}
    <3>1. PICK x \in DepRecords : x = set.deps[d]
      BY <1>12, <2>2, Tables
    <3>2. PICK y : y = [x EXCEPT !.st = "CANCELLED"]
      BY Zenon
    <3>3. D[d] = IF x.camp \in K /\ x.st \in Downloading \cup {"PENDING"} THEN y ELSE x
      BY <2>2, <3>1, <3>2, Zenon
    <3>4. x.st \in Downloading \cup {"PENDING"} => y \in DepRecords /\ BulkRow(x, y) /\ y.st = "CANCELLED"
      BY <3>2, CancelledRow
    <3>5. BulkRow(s.deps[d], x) /\ (x = s.deps[d] \/ x.st = "FAILED") /\ (s.deps[d].camp \notin K => x = s.deps[d])
      BY <1>2, <1>12, <3>1 DEF Bulk
    <3>6. x.camp = s.deps[d].camp
      BY <3>5 DEF BulkRow
    <3> HIDE DEF D
    <3> QED
      BY <3>3, <3>4, <3>5, <3>6 DEF Downloading
  <2>4. D \in [DOMAIN s.deps -> DepRecords] /\ DOMAIN D = DOMAIN s.deps
    BY <2>2, <2>3, Zenon
  <2> HIDE DEF D
  <2>5. D \in Seq(DepRecords)
    BY <2>4, SeqRows, Tables
  <2>6. t \in AddRecords /\ t.deps = D /\ t.camps = C /\ t.release = s.release /\ t.telem = s.telem
    BY <1>2, <1>12, <2>1, <2>5, WithDeps, SMT DEF Bulk
  <2>7. Bulk(s, t)
    BY <1>8, <2>3, <2>4, <2>6 DEF Bulk
  <2> QED
    BY <1>3, <1>5, <1>7, <2>3, <2>6, <2>7 DEF ControlMoves
<1> QED
  BY <1>13, <1>14

(* only a pause puts a campaign on the owner's hold *)
HeldAfter(hold, hold2, K, action) ==
    \A k \in hold2 : (k \in K /\ action = "pause") \/ (k \notin K /\ k \in hold)

LEMMA ControlSound ==
    ASSUME NEW s, NEW r, NEW hold, NEW u, Sound(s, r, hold, u), NEW K, K \subseteq LiveCampaigns(s),
           NEW action \in {"pause", "resume", "cancel"}, NEW t, ControlMoves(s, t, K, action),
           NEW hold2, HeldAfter(hold, hold2, K, action)
    PROVE  Sound(t, r, hold2, u) /\ Calm(s, t)
<1>1. /\ Bulk(s, t) /\ Zone(s, hold)
      /\ \A k \in DOMAIN s.camps \cap K :
           /\ t.camps[k].status = CAMPAIGN_CONTROL_STATES[action]
           /\ t.camps[k].reason = IF action = "resume" THEN NoReason ELSE OwnerReason
      /\ \A k \in DOMAIN s.camps \ K : t.camps[k] = s.camps[k]
  BY DEF ControlMoves, Sound
<1>2. K \subseteq DOMAIN s.camps /\ \A k \in K : s.camps[k].status \in Live
  BY DEF LiveCampaigns
<1>3. /\ CAMPAIGN_CONTROL_STATES[action] \notin {"COMPLETED", "DELETED"}
      /\ action # "cancel" => CAMPAIGN_CONTROL_STATES[action] \in Live
      /\ action = "pause" => CAMPAIGN_CONTROL_STATES[action] = "PAUSED"
  BY SMT DEF CAMPAIGN_CONTROL_STATES, Live
<1>4. \A k \in DOMAIN s.camps : t.camps[k].status \in Live => s.camps[k].status \in Live
  BY <1>1, <1>2
<1>5. ASSUME NEW d \in DOMAIN s.deps
      PROVE  /\ t.deps[d].st \in Downloading \cup {"PENDING"} => Status(t, d) \in Live
             /\ Status(t, d) = "COMPLETED" => t.deps[d].st = "SUCCEEDED"
             /\ Status(t, d) = "DELETED" => t.deps[d].st = "DELETED"
  <2>1. BulkRow(s.deps[d], t.deps[d])
    BY <1>1 DEF Bulk
  <2>2. t.deps[d].camp = s.deps[d].camp /\ s.deps[d].camp \in DOMAIN s.camps
    BY <1>1, <2>1 DEF BulkRow, Zone
  <2>3. CASE s.deps[d].camp \in K
    BY <1>1, <1>3, <2>2, <2>3 DEF ControlMoves, Status
  <2>4. CASE s.deps[d].camp \notin K
    <3>1. t.deps[d] = s.deps[d] /\ Status(t, d) = Status(s, d)
      BY <1>1, <2>2, <2>4 DEF ControlMoves, Status
    <3> QED
      BY <1>1, <3>1 DEF Zone
  <2> QED
    BY <2>3, <2>4
<1>6. ASSUME NEW k \in hold2
      PROVE  /\ k \in DOMAIN s.camps
             /\ t.camps[k].status # "ACTIVE"
             /\ t.camps[k].status = "PAUSED" => t.camps[k].reason.by \in {"owner", "revoked"}
  <2>1. CASE k \in K /\ action = "pause"
    <3>1. t.camps[k].status = "PAUSED" /\ t.camps[k].reason = OwnerReason
      BY <1>1, <1>2, <1>3, <2>1
    <3>2. OwnerReason.by = "owner"
      BY DEF OwnerReason, NoReason
    <3> QED
      BY <1>2, <2>1, <3>1, <3>2
  <2>2. CASE k \notin K /\ k \in hold
    BY <1>1, <2>2 DEF Zone
  <2> QED
    BY <2>1, <2>2 DEF HeldAfter
<1> QED
  BY <1>1, <1>4, <1>5, <1>6, BulkSound

LEMMA ControlStep ==
    ASSUME OtaInv, NEW k \in DOMAIN add.camps, NEW action \in DOMAIN CAMPAIGN_CONTROL_STATES, Control(k, action)
    PROVE  OtaInv' /\ Calm(add, add')
<1>1. action \in {"pause", "resume", "cancel"}
  BY DEF CAMPAIGN_CONTROL_STATES
<1>2. PICK K : K = {k}
  BY Zenon
<1>3. /\ add.camps[k].status \in CAMPAIGN_CONTROL_SOURCES[action]
      /\ add' = control_campaign(add, K, action)
      /\ onHold' = IF action = "pause" THEN onHold \cup {k} ELSE onHold \ {k}
      /\ UNCHANGED <<esp, hb, plan, faults, unverified>>
  BY <1>2, Zenon DEF Control
<1>4. K \subseteq LiveCampaigns(add)
  BY <1>1, <1>2, <1>3, SMT DEF CAMPAIGN_CONTROL_SOURCES, LiveCampaigns, Live
<1>5. ControlMoves(add, add', K, action)
  BY <1>1, <1>3, ControlShape DEF OtaInv, Sound
<1>6. HeldAfter(onHold, onHold', K, action)
  BY <1>2, <1>3 DEF HeldAfter
<1>7. Sound(add, plan.resumes, onHold, unverified)
  BY DEF OtaInv
<1>8. Sound(add', plan.resumes, onHold', unverified) /\ Calm(add, add')
  BY <1>1, <1>4, <1>5, <1>6, <1>7, ControlSound
<1> QED
  BY <1>3, <1>8, CalmStep

(* The zone is freed for another campaign. *)
Freed(s, r, hold, u, K, t) ==
    /\ Sound(t, r, hold \ K, u) /\ Calm(s, t)
    /\ DOMAIN t.camps = DOMAIN s.camps /\ DOMAIN t.deps = DOMAIN s.deps
    /\ \A k \in K : t.camps[k].status \in Closed
    /\ \A k \in DOMAIN s.camps \ K : t.camps[k] = s.camps[k]

LEMMA FreeZone ==
    ASSUME NEW s, NEW r, NEW hold, NEW u, Sound(s, r, hold, u), NEW K, K \subseteq LiveCampaigns(s),
           NEW t, t = _free_zone(s, K)
    PROVE  Freed(s, r, hold, u, K, t)
<1>1. PICK done : done = complete_if_succeeded(s, K)
  BY Zenon
<1>2. PICK L : L = {k \in K : done.camps[k].status \in Live}
  BY Zenon
<1>3. t = control_campaign(done, L, "cancel")
  BY <1>1, <1>2, Zenon DEF _free_zone
<1>4. s \in AddRecords /\ Zone(s, hold) /\ K \subseteq DOMAIN s.camps /\ \A k \in K : s.camps[k].status \in Live
  BY DEF Sound, LiveCampaigns
<1>5. /\ done \in AddRecords /\ done.deps = s.deps /\ DOMAIN done.camps = DOMAIN s.camps
      /\ done.release = s.release /\ done.telem = s.telem
      /\ \A k \in DOMAIN s.camps :
           IF k \in K /\ Done(s, k) THEN done.camps[k].status = "COMPLETED" ELSE done.camps[k] = s.camps[k]
  BY <1>1, <1>4, CompletedCamps, SMT
<1>6. Sound(done, r, hold \ K, u) /\ Calm(s, done)
  <2>1. Bulk(s, done)
    BY <1>5 DEF Bulk, BulkRow
  <2>2. \A k \in DOMAIN s.camps : done.camps[k].status \in Live => s.camps[k].status \in Live
    BY <1>4, <1>5
  <2>3. ASSUME NEW d \in DOMAIN s.deps
        PROVE  /\ done.deps[d].st \in Downloading \cup {"PENDING"} => Status(done, d) \in Live
               /\ Status(done, d) = "COMPLETED" => done.deps[d].st = "SUCCEEDED"
               /\ Status(done, d) = "DELETED" => done.deps[d].st = "DELETED"
    <3>1. PICK k \in DOMAIN s.camps : k = s.deps[d].camp
      BY <1>4 DEF Zone
    <3>2. Status(done, d) = done.camps[k].status /\ Status(s, d) = s.camps[k].status
      BY <1>5, <3>1 DEF Status
    <3>3. CASE k \in K /\ Done(s, k)
      <4>1. s.deps[d].st = "SUCCEEDED"
        BY <3>1, <3>3 DEF Done, In
      <4> QED
        BY <1>5, <3>2, <3>3, <4>1 DEF Downloading
    <3>4. CASE ~(k \in K /\ Done(s, k))
      BY <1>4, <1>5, <3>2, <3>4, SMT DEF Zone
    <3> QED
      BY <3>3, <3>4
  <2>4. ASSUME NEW k \in hold \ K
        PROVE  /\ k \in DOMAIN s.camps
               /\ done.camps[k].status # "ACTIVE"
               /\ done.camps[k].status = "PAUSED" => done.camps[k].reason.by \in {"owner", "revoked"}
    BY <1>4, <1>5 DEF Zone
  <2> QED
    BY <2>1, <2>2, <2>3, <2>4, BulkSound
<1>7. PICK action \in {"pause", "resume", "cancel"} : action = "cancel"
  OBVIOUS
<1>8. L \subseteq LiveCampaigns(done)
  BY <1>2, <1>4, <1>5 DEF LiveCampaigns
<1>9. ControlMoves(done, t, L, action)
  <2>1. done \in AddRecords /\ t = control_campaign(done, L, action)
    BY <1>3, <1>5, <1>7
  <2> QED
    BY <2>1, ControlShape
<1>10. HeldAfter(hold \ K, hold \ K, L, action)
  BY <1>2 DEF HeldAfter
<1>11. Sound(t, r, hold \ K, u) /\ Calm(done, t)
  BY <1>6, <1>8, <1>9, <1>10, ControlSound, SMT
<1>12. Calm(s, t)
  BY <1>5, <1>6, <1>11, CalmTwice
<1>13. DOMAIN t.camps = DOMAIN s.camps /\ DOMAIN t.deps = DOMAIN s.deps
  BY <1>5, <1>9 DEF ControlMoves, Bulk
<1>14. ASSUME NEW k \in K PROVE t.camps[k].status \in Closed
  <2>1. CASE k \in L
    BY <1>4, <1>5, <1>7, <1>9, <2>1 DEF ControlMoves, CAMPAIGN_CONTROL_STATES, Closed
  <2>2. CASE k \notin L
    BY <1>2, <1>4, <1>5, <1>9, <2>2, SMT DEF ControlMoves, Closed, Live
  <2> QED
    BY <2>1, <2>2
<1>15. \A k \in DOMAIN s.camps \ K : t.camps[k] = s.camps[k]
  BY <1>2, <1>5, <1>9 DEF ControlMoves
<1> QED
  BY <1>11, <1>12, <1>13, <1>14, <1>15 DEF Freed

LEMMA RevokeStep ==
    ASSUME OtaInv, revoke_firmware_release
    PROVE  OtaInv' /\ Calm(add, add')
<1>1. PICK K : K = LiveCampaigns(add)
  BY Zenon
<1>2. PICK s : s = fail_held_downloads(add, K)
  BY Zenon
<1>3. PICK C : C = [k \in DOMAIN s.camps |->
                      IF s.camps[k].status \in Live
                      THEN [s.camps[k] EXCEPT !.status = "PAUSED", !.reason = RevokedReason] ELSE s.camps[k]]
  BY Zenon
<1>4. add' = [s EXCEPT !.release = "REVOKED", !.camps = C] /\ UNCHANGED <<esp, hb, plan, onHold, unverified>>
  BY <1>1, <1>2, <1>3, Zenon DEF revoke_firmware_release
<1>5. Sound(add, plan.resumes, onHold, unverified) /\ add \in AddRecords /\ Zone(add, onHold)
  BY DEF OtaInv, Sound
<1>6. Bulk(add, s) /\ s.camps = add.camps /\ s \in AddRecords
  BY <1>2, <1>5, HeldFailed DEF Bulk
<1>7. ASSUME NEW k \in DOMAIN s.camps
      PROVE  /\ C[k] \in CampRecords
             /\ s.camps[k].status \in Live => C[k].status = "PAUSED" /\ C[k].reason.by = "revoked"
             /\ s.camps[k].status \notin Live => C[k] = s.camps[k]
  <2>1. s.camps[k] \in CampRecords
    BY <1>6, Tables
  <2>2. RevokedReason \in Reasons /\ RevokedReason.by = "revoked"
    BY DEF RevokedReason, NoReason, Reasons, Codes, Errors
  <2>3. C[k] = IF s.camps[k].status \in Live
               THEN [s.camps[k] EXCEPT !.status = "PAUSED", !.reason = RevokedReason] ELSE s.camps[k]
    BY <1>3
  <2> QED
    BY <2>1, <2>2, <2>3 DEF CampRecords, Live
<1>8. C \in Seq(CampRecords) /\ DOMAIN C = DOMAIN s.camps
  <2>1. C \in [DOMAIN s.camps -> CampRecords]
    BY <1>3, <1>7
  <2> QED
    BY <1>6, <2>1, SeqRows, Tables
<1>9. PICK t : t = add'
  BY Zenon
<1>10. t \in AddRecords /\ t.camps = C /\ t.deps = s.deps /\ t.telem = s.telem
  BY <1>4, <1>6, <1>8, <1>9 DEF AddRecords
<1>11. Bulk(add, t)
  BY <1>6, <1>8, <1>10 DEF Bulk
<1>12. \A k \in DOMAIN add.camps : t.camps[k].status \in Live => add.camps[k].status \in Live
  BY <1>6, <1>7, <1>10
<1>13. ASSUME NEW d \in DOMAIN add.deps
       PROVE  /\ t.deps[d].st \in Downloading \cup {"PENDING"} => Status(t, d) \in Live
              /\ Status(t, d) = "COMPLETED" => t.deps[d].st = "SUCCEEDED"
              /\ Status(t, d) = "DELETED" => t.deps[d].st = "DELETED"
  <2>1. PICK k \in DOMAIN add.camps : k = add.deps[d].camp
    BY <1>5 DEF Zone
  <2>2. BulkRow(add.deps[d], t.deps[d])
    BY <1>11 DEF Bulk
  <2>3. t.deps[d].camp = k
    BY <2>1, <2>2 DEF BulkRow
  <2>4. Status(t, d) = C[k].status /\ Status(add, d) = s.camps[k].status
    BY <1>6, <1>10, <2>1, <2>3 DEF Status
  <2>5. t.deps[d] = add.deps[d] \/ add.deps[d].st \in Downloading \cup {"PENDING", "CANCELLED"}
    BY <2>2 DEF BulkRow
  <2>6. CASE s.camps[k].status \in Live
    BY <1>6, <1>7, <2>4, <2>6 DEF Live
  <2>7. CASE s.camps[k].status \notin Live
    <3>1. C[k] = s.camps[k] /\ k \notin K
      BY <1>1, <1>6, <1>7, <2>7 DEF LiveCampaigns
    <3>2. t.deps[d] = add.deps[d]
      BY <1>2, <1>5, <1>10, <2>1, <3>1, HeldFailed, SMT
    <3> QED
      BY <1>5, <2>4, <3>1, <3>2 DEF Zone
  <2> QED
    BY <2>6, <2>7
<1>14. ASSUME NEW k \in onHold
       PROVE  /\ k \in DOMAIN add.camps
              /\ t.camps[k].status # "ACTIVE"
              /\ t.camps[k].status = "PAUSED" => t.camps[k].reason.by \in {"owner", "revoked"}
  BY <1>5, <1>6, <1>7, <1>10 DEF Zone
<1>15. Sound(t, plan.resumes, onHold, unverified) /\ Calm(add, t)
  BY <1>5, <1>11, <1>12, <1>13, <1>14, BulkSound
<1> QED
  BY <1>4, <1>9, <1>15, CalmStep

LEMMA AdmissionStep ==
    ASSUME OtaInv, AdmissionChanges
    PROVE  OtaInv' /\ Calm(add, add')
<1>1. add' = [add EXCEPT !.admits = ~add.admits] /\ UNCHANGED <<esp, hb, plan, onHold, unverified>>
  BY Zenon DEF AdmissionChanges
<1>2. Sound(add, plan.resumes, onHold, unverified) /\ add \in AddRecords
  BY DEF OtaInv, Sound
<1>3. PICK t : t = add'
  BY Zenon
<1>4. t \in AddRecords /\ t.camps = add.camps /\ t.deps = add.deps /\ t.telem = add.telem
  BY <1>1, <1>2, <1>3 DEF AddRecords
<1>5. Sound(t, plan.resumes, onHold, unverified)
  BY <1>2, <1>4, SoundSame
<1>6. Calm(add, t)
  BY <1>4 DEF Calm, Quiet
<1> QED
  BY <1>1, <1>3, <1>5, <1>6, CalmStep

(* Campaigns change in nothing but whether they are archived. *)
LEMMA ArchivedSound ==
    ASSUME NEW s, NEW r, NEW hold, NEW u, Sound(s, r, hold, u),
           NEW t \in AddRecords, t.deps = s.deps, t.telem = s.telem, DOMAIN t.camps = DOMAIN s.camps,
           \A k \in DOMAIN s.camps : t.camps[k].status = s.camps[k].status /\ t.camps[k].reason = s.camps[k].reason
    PROVE  Sound(t, r, hold, u) /\ Calm(s, t)
<1>1. \A d \in DOMAIN s.deps : Status(t, d) = Status(s, d)
  BY DEF Sound, Zone, Status
<1>2. Zone(t, hold)
  BY <1>1 DEF Sound, Zone
<1> QED
  BY <1>2 DEF Sound, Calm, Quiet

LEMMA ArchiveStep ==
    ASSUME OtaInv, NEW k \in DOMAIN add.camps, archive_campaign(k)
    PROVE  OtaInv' /\ Calm(add, add')
<1>1. PICK z : z = [add.camps[k] EXCEPT !.archived = TRUE]
  BY Zenon
<1>2. add' = [add EXCEPT !.camps[k] = z] /\ UNCHANGED <<esp, hb, plan, onHold, unverified>>
  BY <1>1, Zenon DEF archive_campaign
<1>3. Sound(add, plan.resumes, onHold, unverified) /\ add \in AddRecords
  BY DEF OtaInv, Sound
<1>4. add.camps \in Seq(CampRecords) /\ add.camps[k] \in CampRecords
  BY <1>3, Tables
<1>5. z \in CampRecords /\ z.status = add.camps[k].status /\ z.reason = add.camps[k].reason
  BY <1>1, <1>4 DEF CampRecords
<1>6. PICK C : C = [add.camps EXCEPT ![k] = z]
  BY Zenon
<1>7. /\ C \in Seq(CampRecords) /\ DOMAIN C = DOMAIN add.camps
      /\ C[k] = z /\ \A j \in DOMAIN add.camps \ {k} : C[j] = add.camps[j]
  BY <1>4, <1>5, <1>6, SeqRow
<1>8. PICK t : t = add'
  BY Zenon
<1>9. t \in AddRecords /\ t.camps = C /\ t.deps = add.deps /\ t.telem = add.telem
  BY <1>2, <1>3, <1>6, <1>7, <1>8 DEF AddRecords
<1>10. Sound(t, plan.resumes, onHold, unverified) /\ Calm(add, t)
  BY <1>3, <1>5, <1>7, <1>9, ArchivedSound
<1> QED
  BY <1>2, <1>8, <1>10, CalmStep

(* a row that nothing has been offered from *)
Fresh(x, k) ==
    /\ x.camp = k /\ x.st = "PENDING" /\ x.code = "" /\ x.stops = 0 /\ x.regrants = 0
    /\ ~x.offered /\ ~x.booted

LEMMA FreshRow ==
    ASSUME NEW k \in Nat, NEW c \in Connectors
    PROVE  FirmwareDeployment(k, c) \in DepRecords /\ Fresh(FirmwareDeployment(k, c), k)
  BY DEF FirmwareDeployment, DepRecords, Fresh, Codes, Errors, DepStates

LEMMA FreshSound ==
    ASSUME NEW x \in DepRecords, NEW k, Fresh(x, k), NEW d, NEW r, NEW u
    PROVE  Row(x, d, r, u)
<1>1. 0 <= GrantLimit /\ 0 <= AttemptLimit /\ ~(0 > 0)
  BY OtaAssumption, SMT
<1>2. x.regrants <= GrantLimit /\ x.stops <= AttemptLimit /\ x.stops = 0 /\ ~(x.stops > 0)
  BY <1>1 DEF Fresh
<1>3. x.st \notin Active \cup {"SUCCEEDED", "FAILED", "ROLLED_BACK"} /\ x.st \notin Downloading
  BY DEF Fresh, Active, Downloading
<1>4. ~x.offered /\ ~x.booted /\ x.code # "PARTITION_HASH_FAILED"
  BY DEF Fresh
<1> QED
  BY <1>2, <1>3, <1>4 DEF Row, Kept

(* Rows that nothing has been offered from join an active campaign, the only *)
(* live one.                                                                 *)
LEMMA NewRows ==
    ASSUME NEW s, NEW r, NEW hold, NEW u, Sound(s, r, hold, u),
           NEW t \in AddRecords, t.telem = s.telem,
           DOMAIN s.camps \subseteq DOMAIN t.camps, DOMAIN s.deps \subseteq DOMAIN t.deps,
           \A d \in DOMAIN s.deps : t.deps[d] = s.deps[d],
           NEW k \in DOMAIN t.camps, k \notin hold, t.camps[k].status = "ACTIVE",
           k \in DOMAIN s.camps => s.camps[k].status \in Live,
           \A j \in DOMAIN t.camps \ {k} :
             j \in DOMAIN s.camps /\ t.camps[j] = s.camps[j] /\ s.camps[j].status \notin Live,
           \A d \in DOMAIN t.deps \ DOMAIN s.deps : Fresh(t.deps[d], k)
    PROVE  Sound(t, r, hold, u) /\ Calm(s, t)
<1>1. Zone(s, hold) /\ \A d \in DOMAIN s.deps : Row(s.deps[d], d, r, u)
  BY DEF Sound
<1>2. ASSUME NEW d \in DOMAIN t.deps
      PROVE  /\ t.deps[d].camp \in DOMAIN t.camps
             /\ t.deps[d].st \in Downloading \cup {"PENDING"} => Status(t, d) \in Live
             /\ Status(t, d) = "COMPLETED" => t.deps[d].st = "SUCCEEDED"
             /\ Status(t, d) = "DELETED" => t.deps[d].st = "DELETED"
             /\ Row(t.deps[d], d, r, u)
  <2>1. CASE d \in DOMAIN s.deps
    <3>1. t.deps[d] = s.deps[d] /\ s.deps[d].camp \in DOMAIN s.camps
      BY <1>1, <2>1 DEF Zone
    <3>2. CASE s.deps[d].camp = k
      BY <1>1, <2>1, <3>1, <3>2 DEF Status, Live
    <3>3. CASE s.deps[d].camp # k
      <4>1. Status(t, d) = Status(s, d)
        BY <3>1, <3>3 DEF Status
      <4> QED
        BY <1>1, <2>1, <3>1, <4>1 DEF Zone
    <3> QED
      BY <3>2, <3>3
  <2>2. CASE d \notin DOMAIN s.deps
    <3>1. Fresh(t.deps[d], k)
      BY <2>2
    <3>2. Row(t.deps[d], d, r, u)
      BY <3>1, FreshSound, Tables
    <3> QED
      BY <3>1, <3>2 DEF Fresh, Status, Live
  <2> QED
    BY <2>1, <2>2
<1>3. \A d \in DOMAIN t.deps : t.deps[d].st \in Active => d \in DOMAIN s.deps
  BY DEF Fresh, Active, Downloading
<1>4. Zone(t, hold)
  <2>1. \A i, j \in DOMAIN t.camps : t.camps[i].status \in Live /\ t.camps[j].status \in Live => i = j
    OBVIOUS
  <2>2. \A d, e \in DOMAIN t.deps :
          t.deps[d].camp = t.deps[e].camp /\ t.deps[d].st \in Active /\ t.deps[e].st \in Active => d = e
    BY <1>1, <1>3 DEF Zone
  <2>3. \A j \in hold :
          /\ j \in DOMAIN t.camps
          /\ t.camps[j].status # "ACTIVE"
          /\ t.camps[j].status = "PAUSED" => t.camps[j].reason.by \in {"owner", "revoked"}
    BY <1>1 DEF Zone
  <2> QED
    BY <1>2, <2>1, <2>2, <2>3 DEF Zone
<1>5. Calm(s, t)
  BY DEF Calm, Quiet, Fresh, Late, Active, Downloading
<1> QED
  BY <1>2, <1>4, <1>5 DEF Sound

LEMMA RetryStep ==
    ASSUME OtaInv, NEW d \in DOMAIN add.deps, retry_interrupted_target(d)
    PROVE  OtaInv' /\ Calm(add, add')
<1>1. PICK k : k = add.deps[d].camp
  BY Zenon
<1>2. PICK row : row = FirmwareDeployment(k, add.deps[d].con)
  BY Zenon
<1>3. PICK z : z = [add.camps[k] EXCEPT !.status = "ACTIVE", !.reason = NoReason]
  BY Zenon
<1>4. /\ add' = [add EXCEPT !.deps = Append(add.deps, row), !.camps[k] = z]
      /\ UNCHANGED <<esp, hb, plan, onHold, unverified>>
  BY <1>1, <1>2, <1>3 DEF retry_interrupted_target
<1>5. /\ add.camps[k].status = "PAUSED"
      /\ add.camps[k].reason = deployment_pause_reason(add.deps[d].con, add.deps[d].st, add.deps[d].code)
  BY <1>1, Zenon DEF retry_interrupted_target, retry_allowed
<1>6. Sound(add, plan.resumes, onHold, unverified) /\ add \in AddRecords /\ Zone(add, onHold)
  BY DEF OtaInv, Sound
<1>7. k \in DOMAIN add.camps /\ add.deps[d].con \in Connectors
  BY <1>1, <1>6, Tables DEF Zone, DepRecords
<1>8. k \notin onHold
  BY <1>5, <1>6, <1>7, SMT DEF Zone, deployment_pause_reason
<1>9. /\ add.camps \in Seq(CampRecords) /\ add.camps[k] \in CampRecords /\ add.deps \in Seq(DepRecords)
      /\ k \in Nat
  BY <1>6, <1>7, Tables, SMT
<1>10. row \in DepRecords /\ Fresh(row, k)
  BY <1>2, <1>7, <1>9, FreshRow
<1>11. z \in CampRecords /\ z.status = "ACTIVE"
  BY <1>3, <1>9 DEF CampRecords, NoReason, Reasons, Codes, Errors, Live
<1>12. PICK C : C = [add.camps EXCEPT ![k] = z]
  BY Zenon
<1>13. /\ C \in Seq(CampRecords) /\ DOMAIN C = DOMAIN add.camps
       /\ C[k] = z /\ \A j \in DOMAIN add.camps \ {k} : C[j] = add.camps[j]
  BY <1>7, <1>9, <1>11, <1>12, SeqRow
<1>14. PICK D : D = Append(add.deps, row)
  BY Zenon
<1>15. /\ D \in Seq(DepRecords) /\ DOMAIN add.deps \subseteq DOMAIN D
       /\ \A e \in DOMAIN add.deps : D[e] = add.deps[e]
       /\ \A e \in DOMAIN D \ DOMAIN add.deps : D[e] = row
  BY <1>9, <1>10, <1>14, SMT
<1>16. PICK t : t = add'
  BY Zenon
<1>17. t \in AddRecords /\ t.camps = C /\ t.deps = D /\ t.telem = add.telem
  BY <1>4, <1>6, <1>12, <1>13, <1>14, <1>15, <1>16 DEF AddRecords
<1>18. \A j \in DOMAIN t.camps \ {k} :
         j \in DOMAIN add.camps /\ t.camps[j] = add.camps[j] /\ add.camps[j].status \notin Live
  BY <1>5, <1>6, <1>7, <1>13, <1>17 DEF Zone, Live
<1>19. Sound(t, plan.resumes, onHold, unverified) /\ Calm(add, t)
  <2>1. k \in DOMAIN t.camps /\ t.camps[k].status = "ACTIVE" /\ add.camps[k].status \in Live
    BY <1>5, <1>7, <1>11, <1>13, <1>17 DEF Live
  <2>2. \A e \in DOMAIN t.deps \ DOMAIN add.deps : Fresh(t.deps[e], k)
    BY <1>10, <1>15, <1>17
  <2> QED
    BY <1>6, <1>8, <1>13, <1>15, <1>17, <1>18, <2>1, <2>2, NewRows
<1> QED
  BY <1>4, <1>16, <1>19, CalmStep

LEMMA CreateStep ==
    ASSUME OtaInv, CreateCampaign
    PROVE  OtaInv' /\ Calm(add, add')
<1>1. PICK K : K = LiveCampaigns(add)
  BY Zenon
<1>2. PICK s : s = _free_zone(add, K)
  BY Zenon
<1>3. PICK k : k = Len(s.camps) + 1
  BY Zenon
<1>4. PICK q : q \in _campaign_scope(add) /\ add' = create_campaign(s, q)
  BY <1>1, <1>2 DEF CreateCampaign
<1>5. PICK R : R = [n \in DOMAIN q |-> FirmwareDeployment(k, q[n])]
  BY Zenon
<1>6. /\ add' = [s EXCEPT !.camps = Append(s.camps, FirmwareCampaign), !.deps = s.deps \o R]
      /\ onHold' = onHold \ K /\ UNCHANGED <<esp, hb, plan, unverified>>
  BY <1>1, <1>3, <1>4, <1>5, SMT DEF CreateCampaign, create_campaign
<1>7. /\ Sound(add, plan.resumes, onHold, unverified) /\ K \subseteq LiveCampaigns(add) /\ plan \in Plans
      /\ Zone(add, onHold)
  BY <1>1 DEF OtaInv, Sound
<1>8. /\ Sound(s, plan.resumes, onHold \ K, unverified) /\ Calm(add, s)
      /\ DOMAIN s.camps = DOMAIN add.camps /\ DOMAIN s.deps = DOMAIN add.deps
      /\ \A j \in K : s.camps[j].status \in Closed
      /\ \A j \in DOMAIN add.camps \ K : s.camps[j] = add.camps[j]
  <2>1. Freed(add, plan.resumes, onHold, unverified, K, s)
    BY <1>2, <1>7, FreeZone
  <2> QED
    BY <2>1 DEF Freed
<1>9. \A j \in DOMAIN s.camps : s.camps[j].status \notin Live
  BY <1>1, <1>8 DEF LiveCampaigns, Closed, Live
<1>10. s \in AddRecords /\ s.camps \in Seq(CampRecords) /\ s.deps \in Seq(DepRecords)
  BY <1>8, Tables DEF Sound
<1>11. k \in Nat /\ k \notin DOMAIN s.camps
  BY <1>3, <1>10, SMT
<1>12. PICK m \in Nat : q \in [1..m -> Connectors]
  <2>1. PICK S : S = {c \in plan.esps : add.telem[c].ver = "old"}
    BY Zenon
  <2>2. S \subseteq Connectors
    BY <1>7, <2>1, OtaAssumption
  <2>3. PICK m \in 1..MaxDeployments : q \in [1..m -> S]
    BY <1>4, <2>1 DEF _campaign_scope
  <2>4. m \in Nat
    BY <2>3, OtaAssumption, SMT
  <2>5. q \in [1..m -> Connectors]
    BY <2>2, <2>3
  <2> QED
    BY <2>4, <2>5
<1>13. ASSUME NEW n \in 1..m PROVE R[n] \in DepRecords /\ Fresh(R[n], k)
  <2>1. q[n] \in Connectors /\ R[n] = FirmwareDeployment(k, q[n])
    BY <1>5, <1>12
  <2> QED
    BY <1>11, <2>1, FreshRow
<1>14. R \in Seq(DepRecords) /\ Len(R) = m
  <2>1. R \in [1..m -> DepRecords]
    BY <1>5, <1>12, <1>13
  <2> QED
    BY <1>12, <2>1, SMT
<1>15. PICK C : C = Append(s.camps, FirmwareCampaign)
  BY Zenon
<1>16. /\ C \in Seq(CampRecords) /\ DOMAIN C = DOMAIN s.camps \cup {k} /\ C[k].status = "ACTIVE"
       /\ \A j \in DOMAIN s.camps : C[j] = s.camps[j]
  <2>1. FirmwareCampaign \in CampRecords /\ FirmwareCampaign.status = "ACTIVE"
    BY DEF FirmwareCampaign, CampRecords, NoReason, Reasons, Codes, Errors, Live
  <2> QED
    BY <1>3, <1>10, <1>15, <2>1, SMT
<1>17. PICK D : D = s.deps \o R
  BY Zenon
<1>18. /\ D \in Seq(DepRecords) /\ DOMAIN s.deps \subseteq DOMAIN D
       /\ \A d \in DOMAIN s.deps : D[d] = s.deps[d]
       /\ \A d \in DOMAIN D \ DOMAIN s.deps : Fresh(D[d], k)
  <2>1. /\ D \in Seq(DepRecords) /\ Len(D) = Len(s.deps) + Len(R)
        /\ \A d \in 1..Len(D) : D[d] = IF d <= Len(s.deps) THEN s.deps[d] ELSE R[d - Len(s.deps)]
    <3>1. s.deps \in Seq(DepRecords) /\ R \in Seq(DepRecords)
      BY <1>10, <1>14
    <3> QED
      BY <1>17, <3>1, Joined, SMT
  <2>2. DOMAIN s.deps = 1..Len(s.deps) /\ DOMAIN D = 1..Len(D) /\ Len(s.deps) \in Nat /\ Len(R) \in Nat
    BY <1>10, <1>14, <2>1, SMT
  <2>3. ASSUME NEW d \in DOMAIN D \ DOMAIN s.deps PROVE Fresh(D[d], k)
    <3>1. d \in 1..Len(D) /\ ~(d <= Len(s.deps)) /\ d - Len(s.deps) \in 1..m
      BY <1>14, <2>1, <2>2, SMT
    <3>2. D[d] = R[d - Len(s.deps)]
      BY <2>1, <3>1
    <3> QED
      BY <1>13, <3>1, <3>2
  <2>4. \A d \in 1..Len(s.deps) : d \in 1..Len(D) /\ D[d] = s.deps[d]
    BY <2>1, <2>2, SMT
  <2> QED
    BY <2>1, <2>2, <2>3, <2>4
<1>19. PICK t : t = add'
  BY Zenon
<1>20. t \in AddRecords /\ t.camps = C /\ t.deps = D /\ t.telem = s.telem
  BY <1>6, <1>10, <1>15, <1>16, <1>17, <1>18, <1>19 DEF AddRecords
<1>21. k \notin onHold \ K
  BY <1>7, <1>8, <1>11 DEF Zone
<1>22. Sound(t, plan.resumes, onHold \ K, unverified) /\ Calm(s, t)
  BY <1>8, <1>9, <1>11, <1>16, <1>18, <1>20, <1>21, NewRows
<1>23. Calm(add, t)
  BY <1>8, <1>22, CalmTwice
<1> QED
  BY <1>6, <1>19, <1>22, <1>23, CalmStep

LEMMA ClearStep ==
    ASSUME OtaInv, clear_history
    PROVE  OtaInv' /\ Calm(add, add')
<1>1. PICK kept \in SUBSET {k \in LiveCampaigns(add) : \E d \in In(add, k) : add.deps[d].st \in Active \ Downloading} :
        LET s == _free_zone(add, LiveCampaigns(add) \ kept)
            closed == {k \in DOMAIN s.camps : s.camps[k].status \in Closed /\ ~s.camps[k].archived}
            gone == _deletable(s, closed)
        IN  /\ add' = [s EXCEPT
                  !.camps = [k \in DOMAIN s.camps |->
                     IF k \in gone THEN [s.camps[k] EXCEPT !.status = "DELETED", !.reason = NoReason]
                     ELSE [s.camps[k] EXCEPT !.archived = @ \/ k \in closed]],
                  !.deps = [d \in DOMAIN s.deps |->
                     IF s.deps[d].camp \in gone THEN [s.deps[d] EXCEPT !.st = "DELETED"] ELSE s.deps[d]]]
            /\ onHold' = onHold \ {k \in DOMAIN s.camps : s.camps[k].status \notin Live}
            /\ UNCHANGED <<esp, hb, plan, faults, unverified>>
  BY Zenon DEF clear_history
<1>2. PICK K : K = LiveCampaigns(add) \ kept
  BY Zenon
<1>3. PICK s : s = _free_zone(add, K)
  BY Zenon
<1>4. PICK closed : closed = {k \in DOMAIN s.camps : s.camps[k].status \in Closed /\ ~s.camps[k].archived}
  BY Zenon
<1>5. PICK gone : gone = _deletable(s, closed)
  BY Zenon
<1>6. PICK C : C = [k \in DOMAIN s.camps |->
                      IF k \in gone THEN [s.camps[k] EXCEPT !.status = "DELETED", !.reason = NoReason]
                      ELSE [s.camps[k] EXCEPT !.archived = @ \/ k \in closed]]
  BY Zenon
<1>7. PICK D : D = [d \in DOMAIN s.deps |->
                      IF s.deps[d].camp \in gone THEN [s.deps[d] EXCEPT !.st = "DELETED"] ELSE s.deps[d]]
  BY Zenon
<1>8. PICK hold : hold = onHold \ {k \in DOMAIN s.camps : s.camps[k].status \notin Live}
  BY Zenon
<1>9. /\ add' = [s EXCEPT !.camps = C, !.deps = D] /\ onHold' = hold
      /\ UNCHANGED <<esp, hb, plan, unverified>>
  BY <1>1, <1>2, <1>3, <1>4, <1>5, <1>6, <1>7, <1>8, Zenon
<1>10. Sound(add, plan.resumes, onHold, unverified) /\ K \subseteq LiveCampaigns(add) /\ Zone(add, onHold)
  BY <1>2 DEF OtaInv, Sound
<1>11. /\ Sound(s, plan.resumes, onHold \ K, unverified) /\ Calm(add, s)
       /\ DOMAIN s.camps = DOMAIN add.camps /\ DOMAIN s.deps = DOMAIN add.deps
       /\ \A k \in K : s.camps[k].status \in Closed
  <2>1. Freed(add, plan.resumes, onHold, unverified, K, s)
    BY <1>3, <1>10, FreeZone
  <2> QED
    BY <2>1 DEF Freed
<1>12. s \in AddRecords /\ s.camps \in Seq(CampRecords) /\ s.deps \in Seq(DepRecords) /\ Zone(s, onHold \ K)
  BY <1>11, Tables DEF Sound
<1>13. /\ gone \subseteq closed
       /\ \A k \in gone : \A d \in In(s, k) : ~s.deps[d].offered /\ s.deps[d].st \in {"PENDING", "CANCELLED"}
  BY <1>5 DEF _deletable
<1>14. \A k \in gone : k \in DOMAIN s.camps /\ s.camps[k].status \in Closed
  BY <1>4, <1>13
<1>15. ASSUME NEW k \in DOMAIN s.camps
       PROVE  /\ C[k] \in CampRecords
              /\ k \in gone => C[k].status = "DELETED"
              /\ k \notin gone => C[k].status = s.camps[k].status /\ C[k].reason = s.camps[k].reason
  <2>1. s.camps[k] \in CampRecords
    BY <1>12, SMT
  <2>2. CASE k \in gone
    <3>1. C[k] = [s.camps[k] EXCEPT !.status = "DELETED", !.reason = NoReason]
      BY <1>6, <2>2
    <3>2. NoReason \in Reasons
      BY DEF NoReason, Reasons, Codes, Errors
    <3> QED
      BY <2>1, <2>2, <3>1, <3>2 DEF CampRecords
  <2>3. CASE k \notin gone
    <3>1. PICK b \in BOOLEAN : b = (s.camps[k].archived \/ k \in closed)
      OBVIOUS
    <3>2. C[k] = [s.camps[k] EXCEPT !.archived = s.camps[k].archived \/ k \in closed]
      BY <1>6, <2>3, Zenon
    <3>3. C[k] = [s.camps[k] EXCEPT !.archived = b]
      BY <3>1, <3>2, Zenon
    <3> QED
      BY <2>1, <2>3, <3>3 DEF CampRecords
  <2> QED
    BY <2>2, <2>3
<1>16. ASSUME NEW d \in DOMAIN s.deps
       PROVE  /\ D[d] \in DepRecords /\ BulkRow(s.deps[d], D[d])
              /\ s.deps[d].camp \in gone => D[d].st = "DELETED"
              /\ s.deps[d].camp \notin gone => D[d] = s.deps[d]
  <2>1. s.deps[d] \in DepRecords
    BY <1>12, SMT
  <2>2. CASE s.deps[d].camp \in gone
    <3>1. ~s.deps[d].offered /\ s.deps[d].st \in {"PENDING", "CANCELLED"}
      BY <1>13, <2>2 DEF In
    <3>2. D[d] = [s.deps[d] EXCEPT !.st = "DELETED"]
      BY <1>7, <2>2
    <3> QED
      BY <2>1, <2>2, <3>1, <3>2, DeletedRow
  <2>3. CASE s.deps[d].camp \notin gone
    BY <1>7, <2>1, <2>3 DEF BulkRow
  <2> QED
    BY <2>2, <2>3
<1>17. C \in Seq(CampRecords) /\ DOMAIN C = DOMAIN s.camps
  <2>1. C \in [DOMAIN s.camps -> CampRecords]
    BY <1>6, <1>15
  <2> QED
    BY <1>12, <2>1, SeqRows
<1>18. D \in Seq(DepRecords) /\ DOMAIN D = DOMAIN s.deps
  <2>1. D \in [DOMAIN s.deps -> DepRecords]
    BY <1>7, <1>16
  <2> QED
    BY <1>12, <2>1, SeqRows
<1>19. PICK t : t = add'
  BY Zenon
<1>20. t \in AddRecords /\ t.camps = C /\ t.deps = D /\ t.telem = s.telem
  BY <1>9, <1>12, <1>17, <1>18, <1>19 DEF AddRecords
<1>21. Bulk(s, t)
  BY <1>16, <1>17, <1>18, <1>20 DEF Bulk
<1>22. \A k \in DOMAIN s.camps : t.camps[k].status \in Live => s.camps[k].status \in Live
  BY <1>15, <1>20 DEF Live
<1>23. ASSUME NEW d \in DOMAIN s.deps
       PROVE  /\ t.deps[d].st \in Downloading \cup {"PENDING"} => Status(t, d) \in Live
              /\ Status(t, d) = "COMPLETED" => t.deps[d].st = "SUCCEEDED"
              /\ Status(t, d) = "DELETED" => t.deps[d].st = "DELETED"
  <2>1. s.deps[d].camp \in DOMAIN s.camps
    BY <1>12 DEF Zone
  <2>2. t.deps[d].camp = s.deps[d].camp
    BY <1>16, <1>20 DEF BulkRow
  <2>3. CASE s.deps[d].camp \in gone
    BY <1>15, <1>16, <1>20, <2>1, <2>2, <2>3 DEF Status, Downloading
  <2>4. CASE s.deps[d].camp \notin gone
    <3>1. t.deps[d] = s.deps[d] /\ Status(t, d) = Status(s, d)
      BY <1>15, <1>16, <1>20, <2>1, <2>4 DEF Status
    <3> QED
      BY <1>12, <3>1 DEF Zone
  <2> QED
    BY <2>3, <2>4
<1>24. ASSUME NEW k \in hold
       PROVE  /\ k \in DOMAIN s.camps
              /\ t.camps[k].status # "ACTIVE"
              /\ t.camps[k].status = "PAUSED" => t.camps[k].reason.by \in {"owner", "revoked"}
  <2>1. k \in DOMAIN s.camps /\ s.camps[k].status \in Live
    BY <1>8, <1>10, <1>11 DEF Zone
  <2>2. k \in onHold \ K /\ k \notin gone
    BY <1>8, <1>11, <1>14, <2>1 DEF Live, Closed
  <2> QED
    BY <1>12, <1>15, <1>20, <2>1, <2>2 DEF Zone
<1>25. Sound(t, plan.resumes, hold, unverified) /\ Calm(s, t)
  BY <1>11, <1>21, <1>22, <1>23, <1>24, BulkSound
<1>26. Calm(add, t)
  BY <1>11, <1>25, CalmTwice
<1> QED
  BY <1>9, <1>19, <1>25, <1>26, CalmStep

-----------------------------------------------------------------------------

LEMMA InitOta ==
    ASSUME Init
    PROVE  OtaInv
<1>1. NoHeartbeat \in HbRecords
  BY DEF NoHeartbeat, HbRecords, Images, Errors
<1>2. add \in AddRecords /\ DOMAIN add.camps = {} /\ DOMAIN add.deps = {}
  <2>1. PICK T : T = [c \in Connectors |-> NoHeartbeat]
    BY Zenon
  <2>2. T \in [Connectors -> HbRecords]
    BY <1>1, <2>1
  <2>3. add = [release |-> "AVAILABLE", admits |-> TRUE, camps |-> <<>>, deps |-> <<>>, telem |-> T]
    BY <2>1, Zenon DEF Init
  <2>4. /\ <<>> \in Seq(CampRecords) /\ <<>> \in Seq(DepRecords)
        /\ add.camps = <<>> /\ add.deps = <<>> /\ DOMAIN <<>> = {}
    BY <2>3, SMT
  <2> QED
    BY <2>2, <2>3, <2>4 DEF AddRecords
<1>3. Sound(add, plan.resumes, onHold, unverified)
  BY <1>2 DEF Init, Sound, Zone
<1>4. ASSUME NEW c \in Connectors
      PROVE  Device(add, c, esp[c], hb[c], unverified) /\ esp[c] \in EspRecords /\ hb[c] = NoHeartbeat
  <2>1. PICK e : e = esp[c]
    BY Zenon
  <2>2. e = [run |-> "old", valid |-> TRUE, sel |-> "old", pc |-> "start", busy |-> FALSE,
             jst |-> "IDLE", jdep |-> 0, bytes |-> 0, bad |-> FALSE, err |-> "", errDep |-> 0,
             ack |-> FALSE, boot |-> 0, since |-> {}]
    BY <2>1 DEF Init
  <2>3. e \in EspRecords
    BY <2>2 DEF EspRecords, Images, JournalStates, Errors
  <2>4. Task(e)
    BY <2>2 DEF Task
  <2>5. hb[c] = NoHeartbeat /\ hb[c].st = "NONE" /\ hb[c].since = {}
    BY DEF Init, NoHeartbeat
  <2>6. Of(add, c) = {}
    BY <1>2 DEF Of
  <2>7. Journalled(add, c, e) /\ Truthful(add, c, e, hb[c], unverified)
    BY <2>2, <2>5, <2>6 DEF Journalled, Truthful
  <2>8. Device(add, c, e, hb[c], unverified)
    BY <1>1, <2>2, <2>3, <2>4, <2>5, <2>7 DEF Device
  <2> QED
    BY <2>1, <2>3, <2>5, <2>8
<1>5. esp \in [Connectors -> EspRecords] /\ hb \in [Connectors -> HbRecords]
  BY <1>1, <1>4 DEF Init
<1> QED
  BY <1>3, <1>4, <1>5 DEF Init, OtaInv

(* The invariant and the theorems. *)

LEMMA DeviceKeeps ==
    ASSUME HasLeast, OtaInv, NEW c \in Connectors,
           DeviceStep(c) \/ Reset(c) \/ append_telemetry(c) \/ process_heartbeat(c) \/ LoseHeartbeat(c)
    PROVE  OtaInv'
<1>1. CASE ota_task(c) \/ report_rollback(c) \/ resume_reconciling(c)
  BY <1>1, StartStep, RollbackStep, ReconcilingStep
<1>2. CASE report_booted(c) \/ confirm_boot(c) \/ confirm_expired(c) \/ acknowledge_pending_success(c)
  BY <1>2, BootedStep, ExpiredStep, AcknowledgeStep
<1>3. CASE fetch_assignment(c) \/ download_block(c) \/ download_stops(c) \/ download_refused(c)
  BY <1>3, FetchStep, BlockStep, StopsStep
<1>4. CASE perform_update(c) \/ esp_https_ota_finish(c) \/ report_ready_and_restart(c)
  BY <1>4, VerifiedStep, UnverifiedStep, FinishStep, RestartStep
<1>5. CASE Reset(c) \/ append_telemetry(c) \/ process_heartbeat(c) \/ LoseHeartbeat(c)
  BY <1>5, ResetStep, TelemetryStep, HeartbeatStep, LostStep
<1> QED
  BY <1>1, <1>2, <1>3, <1>4, <1>5 DEF DeviceStep

LEMMA AddKeeps ==
    ASSUME OtaInv, Maintenance \/ (\E d \in DOMAIN add.deps : WindowCloses(d)) \/ OwnerStep
    PROVE  OtaInv' /\ Calm(add, add')
<1>1. CASE Maintenance \/ \E d \in DOMAIN add.deps : WindowCloses(d)
  BY <1>1, HoldStep, SweepStep DEF Maintenance
<1>2. CASE OwnerStep
  <2>1. CASE \E k \in DOMAIN add.camps :
               archive_campaign(k) \/ \E action \in DOMAIN CAMPAIGN_CONTROL_STATES : Control(k, action)
    BY <2>1, ArchiveStep, ControlStep
  <2>2. CASE \E d \in DOMAIN add.deps : retry_interrupted_target(d)
    BY <2>2, RetryStep
  <2>3. CASE CreateCampaign \/ revoke_firmware_release \/ AdmissionChanges \/ clear_history
    BY <2>3, CreateStep, RevokeStep, AdmissionStep, ClearStep
  <2> QED
    BY <1>2, <2>1, <2>2, <2>3 DEF OwnerStep
<1> QED
  BY <1>1, <1>2

LEMMA OtaStep ==
    ASSUME HasLeast, OtaInv, [Next]_vars
    PROVE  OtaInv'
<1>1. CASE UNCHANGED vars
  BY <1>1 DEF OtaInv, vars
<1>2. CASE Next
  BY <1>2, DeviceKeeps, AddKeeps DEF Next
<1> QED
  BY <1>1, <1>2

LEMMA ZoneFromInv ==
    ASSUME OtaInv
    PROVE  ZoneConsistent
<1>1. Zone(add, onHold) /\ \A d \in DOMAIN add.deps : Row(add.deps[d], d, plan.resumes, unverified)
  BY DEF OtaInv, Sound
<1>2. \A j, k \in LiveCampaigns(add) : j = k
  BY <1>1 DEF Zone, LiveCampaigns
<1>3. ASSUME NEW k \in DOMAIN add.camps
      PROVE  /\ add.camps[k].status = "ACTIVE" =>
                  /\ k \notin onHold
                  /\ \A d, n \in In(add, k) :
                       add.deps[d].st \in Active /\ add.deps[n].st \in Active => d = n
             /\ add.camps[k].status = "COMPLETED" => \A d \in In(add, k) : add.deps[d].st = "SUCCEEDED"
  <2>1. \A d, n \in In(add, k) : add.deps[d].st \in Active /\ add.deps[n].st \in Active => d = n
    BY <1>1 DEF Zone, In
  <2>2. add.camps[k].status = "ACTIVE" => k \notin onHold
    BY <1>1 DEF Zone
  <2>3. add.camps[k].status = "COMPLETED" => \A d \in In(add, k) : add.deps[d].st = "SUCCEEDED"
    BY <1>1 DEF Zone, In, Status
  <2> QED
    BY <2>1, <2>2, <2>3
<1>4. ASSUME NEW d \in DOMAIN add.deps
      PROVE  /\ add.deps[d].regrants <= GrantLimit /\ add.deps[d].stops <= AttemptLimit
             /\ add.deps[d].code = "PARTITION_HASH_FAILED" => d \in unverified
  BY <1>1 DEF Row, Kept
<1>5. ASSUME NEW c \in Connectors
      PROVE  /\ esp[c].jdep # 0 => add.deps[esp[c].jdep].st # "DELETED"
             /\ esp[c].run = "old" /\ esp[c].sel = "new" => esp[c].jst = "READY_TO_BOOT" /\ ~esp[c].bad
  <2>1. Task(esp[c]) /\ (esp[c].jdep # 0 => esp[c].jdep \in DOMAIN add.deps /\ add.deps[esp[c].jdep].offered)
    BY DEF OtaInv, Device, Of
  <2> QED
    BY <1>1, <2>1 DEF Task, Row, Kept
<1> QED
  BY <1>2, <1>3, <1>4, <1>5 DEF ZoneConsistent

-----------------------------------------------------------------------------

(* what a step may do to the outcomes and to the stops on record *)
RealOutcomes ==
    \A d \in DOMAIN add.deps :
      LET e == esp[add.deps[d].con]
      IN  add'.deps[d].st # add.deps[d].st =>
            /\ add'.deps[d].st = "SUCCEEDED" => e.run = "new" /\ e.valid
            /\ add'.deps[d].st = "ROLLED_BACK" => e.run = "old"

OwnStops ==
    \A d \in DOMAIN add.deps :
      add'.deps[d].stops > add.deps[d].stops =>
        ~(esp[add.deps[d].con].busy /\ esp[add.deps[d].con].jdep = d)

(* a report of ESP e about the deployment in its journal *)
Reported(e) ==
    \/ add' = add
    \/ \E st \in Reports :
         /\ Progressed(add, add', e.jdep, st)
         /\ st = "SUCCEEDED" => e.run = "new" /\ e.valid
         /\ st = "ROLLED_BACK" => e.run = "old"

LEMMA SameStops ==
    ASSUME NEW s \in AddRecords, NEW d \in DOMAIN s.deps, NEW n, n = s.deps[d].stops
    PROVE  ~(n > s.deps[d].stops)
  BY Tables, SMT DEF DepRecords

LEMMA CalmHonest ==
    ASSUME add \in AddRecords, Calm(add, add')
    PROVE  RealOutcomes /\ OwnStops
  BY SameStops DEF Calm, RealOutcomes, OwnStops

LEMMA JudgedHonest ==
    ASSUME add \in AddRecords, NEW c, NEW t, Judged(add, t, c, esp[c]), add'.deps = t.deps
    PROVE  RealOutcomes /\ OwnStops
<1>1. ASSUME NEW d \in DOMAIN add.deps
      PROVE  LET e == esp[add.deps[d].con]
             IN  /\ add'.deps[d].st # add.deps[d].st =>
                      /\ add'.deps[d].st = "SUCCEEDED" => e.run = "new" /\ e.valid
                      /\ add'.deps[d].st = "ROLLED_BACK" => e.run = "old"
                 /\ add'.deps[d].stops > add.deps[d].stops => ~(e.busy /\ e.jdep = d)
  <2>1. CASE add.deps[d].con = c
    BY <2>1 DEF Judged
  <2>2. CASE add.deps[d].con # c
    BY <2>2, SameStops DEF Judged, OwnRows
  <2> QED
    BY <2>1, <2>2
<1> QED
  BY <1>1 DEF RealOutcomes, OwnStops

LEMMA GrantHonest ==
    ASSUME add \in AddRecords, NEW c, NEW d, GrantMoves(add, add', c, d)
    PROVE  RealOutcomes /\ OwnStops
<1>1. ASSUME NEW e \in DOMAIN add.deps
      PROVE  /\ add'.deps[e].st # add.deps[e].st => add'.deps[e].st \in Downloading
             /\ add'.deps[e].stops = add.deps[e].stops
  BY DEF GrantMoves
<1> QED
  BY <1>1, SameStops DEF RealOutcomes, OwnStops, Downloading

LEMMA ReportedHonest ==
    ASSUME OtaInv, NEW c \in Connectors, Reported(esp[c]), esp[c].jdep # 0
    PROVE  RealOutcomes /\ OwnStops
<1>1. add \in AddRecords /\ esp[c].jdep \in DOMAIN add.deps /\ add.deps[esp[c].jdep].con = c
  BY DEF OtaInv, Sound, Device, Of
<1>2. CASE add' = add
  BY <1>1, <1>2, SameStops DEF RealOutcomes, OwnStops
<1>3. ASSUME NEW st \in Reports, Progressed(add, add', esp[c].jdep, st),
             st = "SUCCEEDED" => esp[c].run = "new" /\ esp[c].valid,
             st = "ROLLED_BACK" => esp[c].run = "old"
      PROVE  RealOutcomes /\ OwnStops
  <2>1. ASSUME NEW d \in DOMAIN add.deps
        PROVE  /\ add'.deps[d].stops = add.deps[d].stops
               /\ add'.deps[d] = add.deps[d] \/ (add.deps[d].con = c /\ add'.deps[d].st = st)
    BY <1>1, <1>3 DEF Progressed
  <2> QED
    BY <1>1, <1>3, <2>1, SameStops DEF RealOutcomes, OwnStops
<1> QED
  BY <1>2, <1>3 DEF Reported

LEMMA OneReport ==
    ASSUME OtaInv, NEW c \in Connectors, NEW e \in EspRecords, e.jdep = esp[c].jdep, e.jdep # 0,
           NEW st \in Reports, NEW code \in Codes, NEW ok \in BOOLEAN, report_state(c, e, st, code, ok),
           st = "SUCCEEDED" => esp[c].run = "new" /\ esp[c].valid,
           st = "ROLLED_BACK" => esp[c].run = "old"
    PROVE  Reported(esp[c])
<1>1. PICK u : u = unverified \cup {e.jdep}
  BY Zenon
<1>2. Sound(add, plan.resumes, onHold, u) /\ e.jdep \in DOMAIN add.deps /\ e.jdep \in u
  BY <1>1, SoundGrows DEF OtaInv, Device, Of
<1>3. Answered(add, add', e.jdep, st, ok)
  BY <1>2, ReportState
<1> QED
  BY <1>3 DEF Answered, Reported

LEMMA OneNotice ==
    ASSUME OtaInv, NEW c \in Connectors, NEW st \in {"FAILED", "DOWNLOADING"}, NEW code \in Codes,
           NEW bytes \in Nat, NEW ver, esp[c].jdep # 0,
           add' \in {add, record_progress(add, esp[c].jdep, st, code, bytes, ver)}
    PROVE  Reported(esp[c])
<1>1. PICK u : u = unverified \cup {esp[c].jdep}
  BY Zenon
<1>2. Sound(add, plan.resumes, onHold, u) /\ esp[c].jdep \in DOMAIN add.deps /\ esp[c].jdep \in u
  BY <1>1, SoundGrows, SMT DEF OtaInv, Device, Of
<1>3. st \in Reports
  BY DEF Reports
<1>4. CASE add' = add
  BY <1>4 DEF Reported
<1>5. CASE add' = record_progress(add, esp[c].jdep, st, code, bytes, ver)
  <2>1. PICK t : t = add'
    BY Zenon
  <2>2. t = add \/ Progressed(add, t, esp[c].jdep, st)
    BY <1>2, <1>3, <1>5, <2>1, SoundProgress, SMT
  <2> QED
    BY <1>3, <2>1, <2>2 DEF Reported
<1> QED
  BY <1>4, <1>5

(* Every report an ESP makes is about the deployment in its journal; a       *)
(* success only of a confirmed target, a return only from the old image.     *)
LEMMA ReportsReal ==
    ASSUME OtaInv, NEW c \in Connectors,
           \/ report_rollback(c) \/ resume_reconciling(c) \/ report_booted(c) \/ confirm_boot(c)
           \/ acknowledge_pending_success(c) \/ report_ready_and_restart(c)
    PROVE  Reported(esp[c]) /\ esp[c].jdep # 0
<1>1. PICK e : e = esp[c]
  BY Zenon
<1>2. e \in EspRecords /\ Task(e)
  BY <1>1 DEF OtaInv, Device
<1>3. PICK f : f = [e EXCEPT !.jst = "RECONCILING", !.pc = "poll"]
  BY Zenon
<1>4. \E ok \in BOOLEAN :
        \/ e.jst = "READY_TO_BOOT" /\ e.run = "old" /\ report_state(c, e, "ROLLED_BACK", "BOOTLOADER_ROLLBACK", ok)
        \/ (e.pc = "marked" \/ e.jst = "READY_TO_BOOT") /\ report_state(c, f, "RECONCILING", "", ok)
        \/ e.pc = "confirm" /\ report_state(c, e, "BOOTED_PENDING", "WAITING_FOR_RUNTIME_HEALTH", ok)
        \/ e.pc = "confirm" /\ report_state(c, e, "BOOTED_PENDING", "RUNTIME_HEALTHY", ok)
        \/ e.jst = "RECONCILING" /\ report_state(c, e, "RECONCILING", "", ok)
        \/ e.jst = "RECONCILING" /\ report_state(c, e, "SUCCEEDED", "", ok)
        \/ e.pc = "selected" /\ report_state(c, e, "READY_TO_BOOT", "", ok)
  BY <1>1, <1>3, Zenon DEF report_rollback, resume_reconciling, report_booted, confirm_boot,
     acknowledge_pending_success, report_ready_and_restart
<1>5. \E ok \in BOOLEAN, st \in Reports, code \in Codes, g \in {e, f} :
        /\ report_state(c, g, st, code, ok)
        /\ e.jst \in {"READY_TO_BOOT", "RECONCILING"}
        /\ st = "SUCCEEDED" => e.jst = "RECONCILING"
        /\ st = "ROLLED_BACK" => e.run = "old"
  <2>1. /\ {"ROLLED_BACK", "RECONCILING", "BOOTED_PENDING", "SUCCEEDED", "READY_TO_BOOT"} \subseteq Reports
        /\ {"", "BOOTLOADER_ROLLBACK", "WAITING_FOR_RUNTIME_HEALTH", "RUNTIME_HEALTHY"} \subseteq Codes
    BY DEF Reports, Codes, Errors
  <2>2. e.pc \in {"marked", "confirm", "selected"} => e.jst = "READY_TO_BOOT"
    BY <1>2 DEF Task
  <2> QED
    BY <1>4, <2>1, <2>2, Zenon
<1>6. PICK ok \in BOOLEAN, st \in Reports, code \in Codes, g \in {e, f} :
        /\ report_state(c, g, st, code, ok)
        /\ e.jst \in {"READY_TO_BOOT", "RECONCILING"}
        /\ st = "SUCCEEDED" => e.jst = "RECONCILING"
        /\ st = "ROLLED_BACK" => e.run = "old"
  BY <1>5, Zenon
<1>7. g \in EspRecords /\ g.jdep = e.jdep
  BY <1>2, <1>3 DEF EspRecords, JournalStates
<1>8. e.jdep # 0 /\ (st = "SUCCEEDED" => e.run = "new" /\ e.valid)
  BY <1>2, <1>6 DEF Task
<1> QED
  BY <1>1, <1>6, <1>7, <1>8, OneReport

LEMMA NoticesReal ==
    ASSUME OtaInv, NEW c \in Connectors, confirm_expired(c) \/ download_refused(c) \/ download_block(c)
    PROVE  Reported(esp[c]) /\ esp[c].jdep # 0
<1>1. PICK e : e = esp[c]
  BY Zenon
<1>2. e \in EspRecords /\ Task(e)
  BY <1>1 DEF OtaInv, Device
<1>3. e.pc \in {"confirm", "download"}
  BY <1>1, Zenon DEF confirm_expired, download_refused, download_block
<1>4. e.jdep # 0 /\ e.bytes \in Nat
  BY <1>2, <1>3 DEF Task, EspRecords
<1>5. CASE confirm_expired(c) \/ download_refused(c)
  <2>1. PICK st \in {"FAILED", "DOWNLOADING"} : st = "FAILED"
    OBVIOUS
  <2>2. PICK code \in {"BOOT_HEALTH_TIMEOUT", "IMAGE_REFUSED"} :
          add' \in {add, record_progress(add, e.jdep, st, code, e.bytes, e.run)}
    BY <1>1, <1>5, <2>1, Zenon DEF confirm_expired, download_refused
  <2>3. code \in Codes
    BY DEF Codes, Errors
  <2> QED
    BY <1>1, <1>4, <2>2, <2>3, OneNotice
<1>6. CASE download_block(c)
  <2>1. PICK spoilt \in BOOLEAN :
          LET f == [e EXCEPT !.bytes = @ + 1, !.bad = @ \/ spoilt]
          IN  \/ add' = record_progress(add, f.jdep, "DOWNLOADING", "", f.bytes, f.run)
              \/ \E ok \in BOOLEAN : report_state(c, f, "DOWNLOADING", "", ok)
    BY <1>1, <1>6, Zenon DEF download_block
  <2>2. PICK n \in Nat : n = e.bytes + 1
    BY <1>4, SMT
  <2>3. PICK b \in BOOLEAN : b = (e.bad \/ spoilt)
    BY Zenon
  <2>4. PICK f : f = [e EXCEPT !.bytes = n, !.bad = b]
    BY Zenon
  <2>5. f \in EspRecords /\ f.jdep = e.jdep /\ f.bytes \in Nat
    BY <1>2, <2>4 DEF EspRecords
  <2>6. PICK st \in {"FAILED", "DOWNLOADING"}, code \in Codes : st = "DOWNLOADING" /\ code = ""
    BY DEF Codes, Errors
  <2>7. \/ add' = record_progress(add, f.jdep, st, code, f.bytes, f.run)
        \/ \E ok \in BOOLEAN : report_state(c, f, st, code, ok)
    BY <2>1, <2>2, <2>3, <2>4, <2>6, Zenon
  <2>8. CASE add' = record_progress(add, f.jdep, st, code, f.bytes, f.run)
    <3>1. add' \in {add, record_progress(add, e.jdep, st, code, f.bytes, f.run)}
      BY <2>5, <2>8
    <3> QED
      BY <1>1, <1>4, <2>5, <3>1, OneNotice
  <2>9. CASE \E ok \in BOOLEAN : report_state(c, f, st, code, ok)
    <3>1. st \in Reports /\ st # "SUCCEEDED" /\ st # "ROLLED_BACK"
      BY DEF Reports
    <3> QED
      BY <1>1, <1>4, <2>5, <2>9, <3>1, OneReport
  <2> QED
    BY <2>7, <2>8, <2>9
<1> QED
  BY <1>5, <1>6

LEMMA UnverifiedReal ==
    ASSUME OtaInv, NEW c \in Connectors, perform_update(c)
    PROVE  Reported(esp[c]) /\ esp[c].jdep # 0
<1>1. PICK e : e = esp[c]
  BY Zenon
<1>2. e \in EspRecords /\ Task(e) /\ e.pc = "download"
  BY <1>1 DEF OtaInv, Device, perform_update
<1>3. PICK f : f = [Stopped(e, "PARTITION_HASH_FAILED") EXCEPT !.bytes = 0, !.bad = FALSE]
  BY Zenon
<1>4. add' = add \/ \E ok \in BOOLEAN : report_state(c, f, "FAILED", "PARTITION_HASH_FAILED", ok)
  BY <1>1, <1>3, Zenon DEF perform_update
<1>5. f \in EspRecords /\ f.jdep = e.jdep
  BY <1>2, <1>3 DEF EspRecords, Stopped, Errors
<1>6. e.jdep # 0
  BY <1>2 DEF Task
<1>7. PICK st \in Reports, code \in Codes : st = "FAILED" /\ code = "PARTITION_HASH_FAILED"
  BY DEF Reports, Codes, Errors
<1>8. CASE \E ok \in BOOLEAN : report_state(c, f, "FAILED", "PARTITION_HASH_FAILED", ok)
  <2>1. PICK ok \in BOOLEAN : report_state(c, f, st, code, ok)
    BY <1>7, <1>8, Zenon
  <2>2. st # "SUCCEEDED" /\ st # "ROLLED_BACK"
    BY <1>7
  <2> QED
    BY <1>1, <1>5, <1>6, <2>1, <2>2, OneReport
<1> QED
  BY <1>1, <1>4, <1>6, <1>8, SMT DEF Reported

LEMMA HeartbeatHonest ==
    ASSUME OtaInv, NEW c \in Connectors, process_heartbeat(c)
    PROVE  RealOutcomes /\ OwnStops
<1>1. PICK t \in apply_ota_heartbeat_diagnostics(add, c, hb[c]) : add' = [t EXCEPT !.telem[c] = hb[c]]
  BY Zenon DEF process_heartbeat
<1>2. hb[c].st # "NONE"
  BY DEF process_heartbeat
<1>3. /\ Sound(add, plan.resumes, onHold, unverified) /\ add \in AddRecords
      /\ Device(add, c, esp[c], hb[c], unverified)
  BY DEF OtaInv, Sound
<1>4. Sound(t, plan.resumes, onHold, unverified) /\ Judged(add, t, c, esp[c])
  BY <1>1, <1>2, <1>3, HeartbeatRows
<1>5. add'.deps = t.deps
  BY <1>1, <1>4 DEF Sound, AddRecords
<1> QED
  BY <1>3, <1>4, <1>5, JudgedHonest

LEMMA FetchHonest ==
    ASSUME HasLeast, OtaInv, NEW c \in Connectors, fetch_assignment(c)
    PROVE  RealOutcomes /\ OwnStops
<1>1. PICK a : a = assignment_for_connector(add, c)
  BY Zenon
<1>2. add' = a.s /\ esp[c].pc = "poll" /\ esp[c].jst # "RECONCILING"
  BY <1>1, Zenon DEF fetch_assignment
<1>3. /\ Sound(add, plan.resumes, onHold, unverified) /\ add \in AddRecords
      /\ Task(esp[c]) /\ Journalled(add, c, esp[c])
  BY DEF OtaInv, Sound, Device
<1>4. \A d \in Of(add, c) : add.deps[d].st \notin Late
  BY <1>2, <1>3 DEF Journalled, AtBoot
<1>5. /\ a.d = 0 => Judged(add, a.s, c, esp[c])
      /\ a.d # 0 => GrantMoves(add, a.s, c, a.d)
  BY <1>1, <1>3, <1>4, Assignment
<1>6. CASE a.d = 0
  BY <1>2, <1>3, <1>5, <1>6, JudgedHonest
<1>7. CASE a.d # 0
  BY <1>2, <1>3, <1>5, <1>7, GrantHonest
<1> QED
  BY <1>6, <1>7

LEMMA HonestStep ==
    ASSUME HasLeast, OtaInv, Next
    PROVE  RealOutcomes /\ OwnStops
<1>1. add \in AddRecords
  BY DEF OtaInv, Sound
<1>2. ASSUME NEW c \in Connectors, DeviceStep(c) PROVE RealOutcomes /\ OwnStops
  <2>1. CASE \/ report_rollback(c) \/ resume_reconciling(c) \/ report_booted(c) \/ confirm_boot(c)
             \/ acknowledge_pending_success(c) \/ report_ready_and_restart(c)
    BY <2>1, ReportsReal, ReportedHonest
  <2>2. CASE confirm_expired(c) \/ download_refused(c) \/ download_block(c)
    BY <2>2, NoticesReal, ReportedHonest
  <2>3. CASE perform_update(c)
    BY <2>3, UnverifiedReal, ReportedHonest
  <2>4. CASE fetch_assignment(c)
    BY <2>4, FetchHonest
  <2>5. CASE ota_task(c) \/ download_stops(c) \/ esp_https_ota_finish(c)
    <3>1. add' = add
      BY <2>5 DEF ota_task, download_stops, esp_https_ota_finish
    <3> QED
      BY <1>1, <3>1, SameStops DEF RealOutcomes, OwnStops
  <2> QED
    BY <1>2, <2>1, <2>2, <2>3, <2>4, <2>5 DEF DeviceStep
<1>3. ASSUME NEW c \in Connectors, Reset(c) \/ append_telemetry(c) \/ LoseHeartbeat(c) PROVE RealOutcomes /\ OwnStops
  <2>1. add' = add
    BY <1>3 DEF Reset, append_telemetry, LoseHeartbeat
  <2> QED
    BY <1>1, <2>1, SameStops DEF RealOutcomes, OwnStops
<1>4. ASSUME Maintenance \/ (\E d \in DOMAIN add.deps : WindowCloses(d)) \/ OwnerStep
      PROVE  RealOutcomes /\ OwnStops
  BY <1>1, <1>4, AddKeeps, CalmHonest
<1> QED
  BY <1>2, <1>3, <1>4, HeartbeatHonest DEF Next

-----------------------------------------------------------------------------
(* HasLeast, and the theorems. *)

LOCAL INSTANCE WellFoundedInduction

LEMMA MinIn ==
    ASSUME NEW S, S \subseteq Nat, S # {}
    PROVE  Min(S) \in S
<1>1. IsWellFoundedOn(OpToRel(<, Nat), Nat)
  BY NatLessThanWellFounded, Zenon
<1>2. PICK x \in S : \A y \in S : ~(<<y, x>> \in OpToRel(<, Nat))
  BY <1>1, WFMin, Zenon
<1>3. \A y \in S : ~(y < x)
  BY <1>2 DEF OpToRel
<1>4. \E m \in S : \A y \in S : m <= y
  BY <1>3, SMT
<1> QED
  BY <1>4, Zenon DEF Min

LEMMA LeastHolds == HasLeast
  BY MinIn DEF HasLeast

LEMMA OtaInvariant == Spec => []OtaInv
<1>1. Init => OtaInv
  BY InitOta
<1>2. OtaInv /\ [Next]_vars => OtaInv'
  BY OtaStep, LeastHolds
<1> QED
  BY <1>1, <1>2, PTL DEF Spec

(* firmware_campaigns.py, ota.py, ota_interruption.py and ota_manager.c: the *)
(* zone stays in order for every zone, image, limit and plan.                *)
THEOREM ZoneConsistentInvariant == Spec => []ZoneConsistent
<1>1. OtaInv => ZoneConsistent
  BY ZoneFromInv
<1> QED
  BY <1>1, OtaInvariant, PTL

(* record_progress, apply_ota_heartbeat_diagnostics and ota_manager.c: what  *)
(* ADD records as an outcome is what the ESP runs, however late a heartbeat  *)
(* or a repeated report arrives.                                             *)
THEOREM OutcomeIsRealAlways == Spec => OutcomeIsReal
<1> DEFINE A == \A d \in DOMAIN add.deps :
         LET e == esp[add.deps[d].con]
         IN  add'.deps[d].st # add.deps[d].st =>
               /\ add'.deps[d].st = "SUCCEEDED" => e.run = "new" /\ e.valid
               /\ add'.deps[d].st = "ROLLED_BACK" => e.run = "old"
<1>1. OtaInv /\ [Next]_vars => [A]_vars
  BY HonestStep, LeastHolds DEF RealOutcomes
<1> QED
  BY <1>1, OtaInvariant, PTL DEF Spec, OutcomeIsReal

(* download_interruption: a stop is counted against a deployment only while  *)
(* its ESP is not working on it.                                             *)
THEOREM StopsAreOwnAlways == Spec => StopsAreOwn
<1> DEFINE A == \A d \in DOMAIN add.deps :
         add'.deps[d].stops > add.deps[d].stops =>
           ~(esp[add.deps[d].con].busy /\ esp[add.deps[d].con].jdep = d)
<1>1. OtaInv /\ [Next]_vars => [A]_vars
  BY HonestStep, LeastHolds DEF OwnStops
<1> QED
  BY <1>1, OtaInvariant, PTL DEF Spec, StopsAreOwn

=============================================================================
