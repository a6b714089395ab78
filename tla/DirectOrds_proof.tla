-------------------------- MODULE DirectOrds_proof --------------------------
(***************************************************************************)
(* Proof that approvals are what was sent (ApprovalsConsistent of          *)
(* DirectOrds) for every set of CNICs and runs and any number of failures. *)
(***************************************************************************)
EXTENDS DirectOrds, FiniteSetTheorems, TLAPS

Person == Cnics \cup {0}
Lanes == {"forced", "ordinary"}
Sources == {"none", "SAVED_PUNCH", "SYNCED_USER", "PUNCH_TIME_HISTORY"}
RunStates == ACTIVE \cup {"NONE", "COMPLETED", "COMPLETED_WITH_REVIEW"}
Classes == {"none", "MISSING", "PRESENT", "MATCH", "MISMATCH", "UNKNOWN",
            "CHANGED", "REJECTED"}
Places == {"check", "authorize", "reserve", "post", "wait", "recheck", "apply"}
Replies == {"none", "created", "exists", "rejected", "lost"}

Items == [state : ItemStates, cnic : Person, source : Sources, saved : Person,
          user : Person, posted : BOOLEAN, verified : BOOLEAN]
Claims == [lane : Lanes, attempt : 0..(Wrap - 1), cnic : Cnics, job : Jobs \cup {0},
           class : Classes, pc : Places, reply : Replies]
Requests == [lane : Lanes, attempt : 0..(Wrap - 1), cnic : Cnics]

Typed ==
    /\ current \in Cnics /\ retained \in Person /\ saved \in Person
    /\ auto \in BOOLEAN /\ required \in BOOLEAN
    /\ status \in Statuses /\ eventStatus \in Statuses
    /\ confirmed \in BOOLEAN /\ uncertain \in BOOLEAN /\ attempt \in 0..(Wrap - 1)
    /\ decision \in [job : Jobs \cup {0}, after : BOOLEAN]
    /\ items \in [Jobs -> Items] /\ job \in [Jobs -> RunStates]
    /\ oracle \in Person /\ sender \in Lanes \cup {"none"}
    /\ approvedPosts \subseteq Cnics /\ certified \in Person /\ overtaken \in BOOLEAN
    /\ tasks \subseteq Claims /\ wire \subseteq Requests

(* A run that was not created has no item, an approved item names a CNIC,  *)
(* and an approval that may have posted stays the decision.                *)
ItemsInv ==
    \A j \in Jobs :
        /\ job[j] = "NONE" => items[j] = NoItem
        /\ items[j].source # "none" => items[j].cnic \in Cnics
        /\ items[j].posted => decision.job = j
        /\ decision.job = j => job[j] # "NONE"

PostedCnic(c) == \E j \in Jobs : items[j].posted /\ items[j].cnic = c

(* A forced claim carries its approval's CNIC and posts only after the     *)
(* intent is saved; what a claim has read of Oracle is still so.           *)
TaskInv(t) ==
    /\ t.lane = "forced" => /\ t.job \in Jobs /\ job[t.job] # "NONE"
                            /\ t.cnic = items[t.job].cnic
                            /\ t.pc \in {"post", "wait", "recheck"} => items[t.job].posted
    /\ t.lane = "ordinary" => t.pc \in {"check", "post", "wait", "apply"}
    /\ t.class = "MATCH" => oracle = t.cnic
    /\ t.class = "PRESENT" \/ t.reply \in {"created", "exists"} => oracle # 0

TasksInv == \A t \in tasks : TaskInv(t)

(* What the forced lane sent was posted under an approval with a saved     *)
(* intent, and what ADD confirmed is in Oracle.                            *)
OracleInv ==
    /\ \A w \in wire : w.lane = "forced" => PostedCnic(w.cnic)
    /\ \A c \in approvedPosts : PostedCnic(c)
    /\ oracle = 0 => sender = "none"
    /\ sender = "forced" => PostedCnic(oracle)
    /\ confirmed => oracle # 0
    /\ \A j \in Jobs : items[j].verified \/ items[j].state = "CONFIRMED"
                       => oracle # 0 /\ oracle = items[j].cnic

(* As long as no running claim was taken for stale, one claim runs at a    *)
(* time and keeps the punch in flight, and an ordinary claim runs only for *)
(* the CNIC its approval may have posted.                                  *)
SoleInv ==
    ~overtaken =>
        /\ \A t, u \in tasks : t = u
        /\ tasks # {} => status = "IN_FLIGHT"
        /\ \A t \in tasks : t.lane = "ordinary" /\ Decided /\ Approval.posted
                            => Approval.cnic = saved
        /\ confirmed /\ sender = "forced" => certified = oracle

DirectInv == Typed /\ ItemsInv /\ TasksInv /\ OracleInv /\ SoleInv

-----------------------------------------------------------------------------
(* Initially *)

(* Before the first approval and the first claim nothing was sent.         *)
LEMMA DirectInit == Init => DirectInv
<1> SUFFICES ASSUME Init PROVE DirectInv
  OBVIOUS
<1>1. NoItem \in Items
  BY DEF NoItem, Items, ItemStates, Person, Sources
<1>2. Typed
  <2>1. /\ items \in [Jobs -> Items] /\ job \in [Jobs -> RunStates]
        /\ decision \in [job : Jobs \cup {0}, after : BOOLEAN]
    BY <1>1 DEF Init, NoDecision, RunStates
  <2>2. status \in Statuses /\ eventStatus \in Statuses
    BY DEF Init, Statuses, HELD
  <2>3. /\ current \in Cnics /\ retained \in Person /\ saved \in Person
        /\ auto \in BOOLEAN /\ required \in BOOLEAN
        /\ confirmed \in BOOLEAN /\ uncertain \in BOOLEAN /\ overtaken \in BOOLEAN
    BY Zenon DEF Init, Person
  <2>4. attempt \in 0..(Wrap - 1)
    BY DirectAssumption DEF Init
  <2>. QED
    BY <2>1, <2>2, <2>3, <2>4 DEF Init, Typed, Person, Lanes
<1>3. ItemsInv
  BY DirectAssumption DEF Init, ItemsInv, NoItem, NoDecision
<1>4. TasksInv /\ SoleInv
  BY DEF Init, TasksInv, SoleInv
<1>5. OracleInv
  BY DEF Init, OracleInv, NoItem
<1>. QED
  BY <1>2, <1>3, <1>4, <1>5 DEF DirectInv

-----------------------------------------------------------------------------
(* The operators *)

(* _revalidate: an approval that stands names a CNIC.                      *)
LEMMA StandsNamed ==
  ASSUME Typed, ItemsInv, NEW j \in Jobs, Stands(items[j])
  PROVE  items[j].cnic \in Cnics
  BY DEF Typed, ItemsInv, Stands, Items, Sources

(* verify: the answer is MATCH only when Oracle holds the claim's CNIC.    *)
LEMMA VerdictSays ==
  ASSUME Typed, NEW t \in tasks
  PROVE  /\ Verdict(t) \in Classes
         /\ Verdict(t) = "MATCH" => oracle = t.cnic
         /\ Verdict(t) = "PRESENT" => oracle # 0
  BY DEF Typed, Verdict, Classes, Claims

(* A decision names a run that was created.                                *)
LEMMA DecidedJob ==
  ASSUME Typed, ItemsInv, Decided
  PROVE  decision.job \in Jobs /\ job[decision.job] # "NONE"
  BY DEF Typed, ItemsInv, Decided

-----------------------------------------------------------------------------
(* What every step keeps *)

ItemsKept ==
    \A j \in Jobs :
        /\ job[j] # "NONE" => /\ job'[j] # "NONE" /\ items'[j].cnic = items[j].cnic
                              /\ items'[j].source = items[j].source
                              /\ items[j].posted => items'[j].posted
        /\ job[j] = "NONE" => /\ job'[j] = "NONE" => items'[j] = items[j]
                              /\ ~items'[j].verified /\ items'[j].state # "CONFIRMED"
                              /\ items'[j].source # "none" => items'[j].cnic \in Cnics
        /\ items'[j].posted /\ ~items[j].posted =>
               decision' = decision /\ decision.job = j /\ \E t \in tasks : t.pc = "reserve"

OracleKept == oracle # 0 => oracle' = oracle /\ sender' = sender

(* create, advance_once, the forced lane: once an approval exists, its     *)
(* CNIC is never rewritten and its send intent never forgotten; only       *)
(* reserve_direct_post saves an intent, for the present decision.          *)
LEMMA ItemsSteps ==
  ASSUME Typed, ItemsInv, [Next]_vars
  PROVE  ItemsKept
<1>. /\ items \in [Jobs -> Items] /\ job \in [Jobs -> RunStates]
     /\ \A j \in Jobs : job[j] = "NONE" => items[j] = NoItem
     /\ ~NoItem.posted /\ ~NoItem.verified /\ NoItem.state = "NONE" /\ NoItem.source = "none"
  BY DEF Typed, ItemsInv, NoItem
<1>1. ASSUME NEW j \in Jobs, create(j) PROVE ItemsKept
  <2>1. \A k \in Jobs \ {j} : items'[k] = items[k] /\ job'[k] = job[k]
    BY <1>1, Zenon DEF create
  <2>2. \A r \in Resolutions : r[1] \in Cnics
    BY SMTT(60) DEF Resolutions, Typed, Person
  <2>3. /\ job[j] = "NONE" /\ job'[j] # "NONE" /\ ~items'[j].posted /\ ~items'[j].verified
        /\ items'[j].state # "CONFIRMED"
        /\ items'[j].source # "none" => items'[j].cnic \in Cnics
    <3>1. job[j] = "NONE" /\ job'[j] # "NONE" /\ items[j] = NoItem
      BY <1>1, Zenon DEF create
    <3>2. ASSUME NEW r \in Resolutions,
                 items' = [items EXCEPT ![j] = [NoItem EXCEPT !.state = "READY",
                     !.cnic = r[1], !.source = r[2], !.saved = saved, !.user = current]]
          PROVE  /\ ~items'[j].posted /\ ~items'[j].verified
                 /\ items'[j].state = "READY" /\ items'[j].cnic = r[1]
      BY <3>2 DEF NoItem
    <3>3. CASE items' = [items EXCEPT ![j].state = "SKIPPED"]
      <4>1. items'[j] = [NoItem EXCEPT !.state = "SKIPPED"]
        BY <3>1, <3>3
      <4>2. /\ ~items'[j].posted /\ ~items'[j].verified
            /\ items'[j].state = "SKIPPED" /\ items'[j].source = "none"
        BY <4>1, SMTT(60) DEF NoItem
      <4>. QED
        BY <3>1, <4>2
    <3>4. \/ \E r \in Resolutions : items' = [items EXCEPT ![j] = [NoItem EXCEPT !.state = "READY",
                     !.cnic = r[1], !.source = r[2], !.saved = saved, !.user = current]]
          \/ items' = [items EXCEPT ![j].state = "SKIPPED"]
      BY <1>1, Zenon DEF create
    <3>. QED
      BY <2>2, <3>1, <3>2, <3>3, <3>4, ZenonT(60)
  <2>. QED
    BY <2>1, <2>3 DEF ItemsKept
<1>2. ASSUME NEW k \in Jobs \cup {0}, k \in Jobs => job[k] # "NONE",
             NEW s \in ItemStates, NEW v \in BOOLEAN,
             \/ items' = items \/ items' = [items EXCEPT ![k].state = s]
             \/ items' = [items EXCEPT ![k].state = s, ![k].verified = v],
             job' = job \/ \E r \in RunStates \ {"NONE"} : k \in Jobs /\ job' = [job EXCEPT ![k] = r]
      PROVE  ItemsKept
  BY <1>2 DEF ItemsKept, Items
<1>3. ASSUME NEW j \in Jobs, advance_once(j) PROVE ItemsKept
  <2>1. \A s : JobStatus(s) \in RunStates \ {"NONE"}
    BY DEF JobStatus, RunStates, ACTIVE
  <2>2. job[j] # "NONE" /\ \E r \in RunStates \ {"NONE"} : job' = [job EXCEPT ![j] = r]
    BY <1>3, <2>1, Zenon DEF advance_once, ACTIVE
  <2>3. \E s \in ItemStates : items' = items \/ items' = [items EXCEPT ![j].state = s]
    BY <1>3 DEF advance_once, _queue, _observe, SetItem, ItemStates
  <2>. QED
    BY <1>2, <2>2, <2>3, ZenonT(60)
<1>4. CASE claim_ords_batch
  <2>1. items' = items \/ items' = [items EXCEPT ![decision.job].state = "NEEDS_REVIEW"]
    BY <1>4, Zenon DEF claim_ords_batch, ClaimApproved, ClaimOrdinary, Start
  <2>2. decision.job \in Jobs \cup {0} /\ (decision.job \in Jobs => job[decision.job] # "NONE")
    BY DEF Typed, ItemsInv
  <2>3. job' = job /\ "NEEDS_REVIEW" \in ItemStates
    BY <1>4 DEF claim_ords_batch, ItemStates
  <2>. QED
    BY <1>2, <2>1, <2>2, <2>3, Zenon
<1>5. ASSUME NEW t \in tasks, reserve_direct_post(t) PROVE ItemsKept
  <2>1. CASE items' = items
    BY <1>5, <2>1 DEF reserve_direct_post, ItemsKept
  <2>2. CASE items' # items
    <3>1. /\ items' = [items EXCEPT ![t.job].posted = TRUE] /\ job' = job
          /\ decision' = decision /\ decision.job = t.job /\ t.pc = "reserve"
      BY <1>5, <2>2 DEF reserve_direct_post, SaveIntent, OwnsDecision
    <3>2. \A j \in Jobs : job[j] = "NONE" => j # t.job
      BY <3>1 DEF ItemsInv
    <3>. QED
      BY <3>1, <3>2 DEF ItemsKept, Items
  <2>. QED
    BY <2>1, <2>2
<1>6. ASSUME NEW t \in tasks, PersistForced(t) PROVE ItemsKept
  <2>1. job' = job
    BY <1>6 DEF PersistForced
  <2>2. CASE items' = items
    BY <2>1, <2>2 DEF ItemsKept
  <2>3. CASE items' # items
    <3>1. \/ items' = [items EXCEPT ![t.job].state = "CONFIRMED", ![t.job].verified = TRUE]
          \/ items' = [items EXCEPT ![t.job].state = "NEEDS_REVIEW"]
      BY <1>6, <2>3 DEF PersistForced, Review
    <3>2. decision.job = t.job
      BY <1>6, <2>3 DEF PersistForced, OwnsDecision
    <3>3. t.job \in Jobs \cup {0} /\ (t.job \in Jobs => job[t.job] # "NONE")
      BY <3>2 DEF Typed, ItemsInv
    <3>4. "CONFIRMED" \in ItemStates /\ "NEEDS_REVIEW" \in ItemStates
      BY DEF ItemStates
    <3>5. CASE items' = [items EXCEPT ![t.job].state = "CONFIRMED", ![t.job].verified = TRUE]
      BY <2>1, <3>2, <3>3, <3>5 DEF ItemsKept, Items
    <3>6. CASE items' = [items EXCEPT ![t.job].state = "NEEDS_REVIEW"]
      BY <1>2, <2>1, <3>3, <3>4, <3>6, Zenon
    <3>. QED
      BY <3>1, <3>5, <3>6
  <2>. QED
    BY <2>2, <2>3
<1>7. CASE items' = items /\ job' = job
  BY <1>7 DEF ItemsKept
<1>8. CASE AutoRelease \/ RosterChanges \/ RecoverStale \/ OtherLaneFails \/ Crash
  BY <1>7, <1>8 DEF AutoRelease, RosterChanges, RecoverStale, OtherLaneFails, Crash, runVars
<1>9. ASSUME NEW t \in tasks, Check(t) \/ Authorize(t) \/ Post(t) \/ ReplyLost(t)
                              \/ Recheck(t) \/ ApplyOrdinary(t)
      PROVE  ItemsKept
  BY <1>7, <1>9, Zenon DEF Check, Authorize, Post, ReplyLost, Recheck, ApplyOrdinary, runVars
<1>10. ASSUME NEW w \in wire, OracleAnswers(w) PROVE ItemsKept
  BY <1>7, <1>10 DEF OracleAnswers, runVars
<1>11. CASE UNCHANGED vars
  BY <1>7, <1>11 DEF vars, runVars
<1>. QED
  BY <1>1, <1>3, <1>4, <1>5, <1>6, <1>8, <1>9, <1>10, <1>11 DEF Next, Worker, TaskStep

(* Oracle keeps the first CNIC stored under the punch's uid.               *)
LEMMA OracleSteps ==
  ASSUME Typed, [Next]_vars
  PROVE  OracleKept
<1> USE DEF OracleKept, oracleVars
<1>1. ASSUME NEW w \in wire, OracleAnswers(w) PROVE OracleKept
  BY <1>1, SMTT(60) DEF OracleAnswers
<1>2. ASSUME NEW j \in Jobs, create(j) \/ advance_once(j) PROVE OracleKept
  BY <1>2, Zenon DEF create, advance_once
<1>3. CASE \/ AutoRelease \/ RosterChanges \/ claim_ords_batch \/ RecoverStale
           \/ OtherLaneFails \/ Crash
  BY <1>3, SMTT(60) DEF AutoRelease, RosterChanges, claim_ords_batch, RecoverStale,
              OtherLaneFails, Crash
<1>4. ASSUME NEW t \in tasks, TaskStep(t) PROVE OracleKept
  BY <1>4, Zenon DEF TaskStep, Check, Authorize, reserve_direct_post, Post, ReplyLost,
              Recheck, PersistForced, ApplyOrdinary
<1>5. CASE UNCHANGED vars
  BY <1>5 DEF vars
<1>. QED
  BY <1>1, <1>2, <1>3, <1>4, <1>5 DEF Next, Worker

-----------------------------------------------------------------------------
(* Types *)

EvidenceTyped ==
    /\ current \in Cnics /\ retained \in Person /\ saved \in Person
    /\ auto \in BOOLEAN /\ required \in BOOLEAN
RowTyped ==
    /\ status \in Statuses /\ eventStatus \in Statuses
    /\ confirmed \in BOOLEAN /\ uncertain \in BOOLEAN /\ attempt \in 0..(Wrap - 1)
RunTyped ==
    /\ decision \in [job : Jobs \cup {0}, after : BOOLEAN]
    /\ items \in [Jobs -> Items] /\ job \in [Jobs -> RunStates]
OracleTyped ==
    /\ oracle \in Person /\ sender \in Lanes \cup {"none"}
    /\ approvedPosts \subseteq Cnics /\ certified \in Person /\ overtaken \in BOOLEAN

(* The four groups of variables and the claims make up the state.          *)
LEMMA TypedGroups ==
  /\ Typed <=> /\ EvidenceTyped /\ RowTyped /\ RunTyped /\ OracleTyped
               /\ tasks \subseteq Claims /\ wire \subseteq Requests
  /\ Typed' <=> /\ EvidenceTyped' /\ RowTyped' /\ RunTyped' /\ OracleTyped'
                /\ tasks' \subseteq Claims /\ wire' \subseteq Requests
BY DEF Typed, EvidenceTyped, RowTyped, RunTyped, OracleTyped

(* Groups a step does not touch keep their types.                          *)
LEMMA GroupsKept ==
  /\ EvidenceTyped /\ UNCHANGED evidenceVars => EvidenceTyped'
  /\ RowTyped /\ UNCHANGED rowVars => RowTyped'
  /\ RunTyped /\ UNCHANGED runVars => RunTyped'
  /\ OracleTyped /\ UNCHANGED oracleVars => OracleTyped'
BY Zenon DEF EvidenceTyped, RowTyped, RunTyped, OracleTyped, evidenceVars, rowVars,
       runVars, oracleVars

(* create and advance_once write items and runs of their types.            *)
LEMMA RunsTyped ==
  ASSUME Typed, NEW j \in Jobs, create(j) \/ advance_once(j)
  PROVE  RunTyped'
<1>. /\ decision \in [job : Jobs \cup {0}, after : BOOLEAN]
     /\ items \in [Jobs -> Items] /\ job \in [Jobs -> RunStates]
  BY DEF Typed
<1>1. CASE create(j)
  <2>1. \A r \in Resolutions : r[1] \in Person /\ r[2] \in Sources
    BY DEF Typed, Resolutions, Person, Sources
  <2>2. \A r \in Resolutions :
           [NoItem EXCEPT !.state = "READY", !.cnic = r[1], !.source = r[2],
                          !.saved = saved, !.user = current] \in Items
    BY <2>1, Zenon DEF Typed, Items, NoItem, ItemStates, Person
  <2>3. items' \in [Jobs -> Items]
    <3>1. \/ \E i \in Items : items' = [items EXCEPT ![j] = i]
          \/ items' = [items EXCEPT ![j].state = "SKIPPED"]
      BY <1>1, <2>2, Zenon DEF create
    <3>2. [items EXCEPT ![j].state = "SKIPPED"] \in [Jobs -> Items]
      BY SMTT(60) DEF Items, ItemStates
    <3>. QED
      BY <3>1, <3>2
  <2>4. job' \in [Jobs -> RunStates] /\ decision' = decision
    BY <1>1, Zenon DEF create, RunStates, ACTIVE
  <2>. QED
    BY <2>3, <2>4 DEF RunTyped
<1>2. CASE advance_once(j)
  <2>1. \A s : JobStatus(s) \in RunStates
    BY DEF JobStatus, RunStates, ACTIVE
  <2>2. items' = items \/ \E s \in ItemStates : items' = [items EXCEPT ![j].state = s]
    BY <1>2 DEF advance_once, _queue, _observe, SetItem, ItemStates
  <2>3. items' \in [Jobs -> Items]
    BY <2>2 DEF Items
  <2>4. job' \in [Jobs -> RunStates]
    BY <1>2, <2>1 DEF advance_once
  <2>5. decision' = decision \/ decision' = [job |-> j, after |-> FALSE]
    BY <1>2 DEF advance_once, _queue, _observe
  <2>6. decision' \in [job : Jobs \cup {0}, after : BOOLEAN]
    <3>1. \A b \in BOOLEAN : [job |-> j, after |-> b] \in [job : Jobs \cup {0}, after : BOOLEAN]
      OBVIOUS
    <3>. QED
      BY <2>5, <3>1, Zenon
  <2>. QED
    BY <2>3, <2>4, <2>6 DEF RunTyped
<1>. QED
  BY <1>1, <1>2

(* A claim taken by claim_ords_batch carries a CNIC and a decision.        *)
LEMMA ClaimTyped ==
  ASSUME Typed, ItemsInv, claim_ords_batch
  PROVE  Typed'
<1>. USE DEF Typed
<1>1. Next1(attempt) \in 0..(Wrap - 1)
  BY DirectAssumption DEF Next1
<1>2. ASSUME NEW lane \in Lanes, NEW c \in Cnics, Start(lane, c)
      PROVE  /\ tasks' \subseteq Claims /\ attempt' \in 0..(Wrap - 1)
             /\ status' = "IN_FLIGHT" /\ UNCHANGED <<eventStatus, confirmed, items>>
             /\ uncertain' = FALSE
  <2>1. [lane |-> lane, attempt |-> attempt', cnic |-> c, job |-> decision.job,
         class |-> "none", pc |-> "check", reply |-> "none"] \in Claims
    BY <1>1, <1>2 DEF Start, Claims, Classes, Places, Replies
  <2>. QED
    BY <1>1, <1>2, <2>1 DEF Start
<1>3. CASE ByApproval /\ approved_payload /\ Start("forced", Approval.cnic)
  <2>1. Approval.cnic \in Cnics
    BY <1>3, DecidedJob, StandsNamed DEF approved_payload, Approval
  <2>2. /\ tasks' \subseteq Claims /\ attempt' \in 0..(Wrap - 1)
        /\ status' = "IN_FLIGHT" /\ UNCHANGED <<eventStatus, confirmed, items>>
        /\ uncertain' = FALSE
    BY <1>2, <1>3, <2>1, Zenon DEF Lanes
  <2>. QED
    BY <2>2, Zenon DEF claim_ords_batch, Statuses, oracleVars
<1>4. CASE saved # 0 /\ Start("ordinary", saved)
  <2>1. saved \in Cnics
    BY <1>4 DEF Person
  <2>2. /\ tasks' \subseteq Claims /\ attempt' \in 0..(Wrap - 1)
        /\ status' = "IN_FLIGHT" /\ UNCHANGED <<eventStatus, confirmed, items>>
        /\ uncertain' = FALSE
    BY <1>2, <1>4, <2>1, Zenon DEF Lanes
  <2>. QED
    BY <2>2, Zenon DEF claim_ords_batch, Statuses, oracleVars
<1>5. ASSUME NEW s \in {"BLOCKED_IDENTITY", "QUARANTINED_IDENTITY_CONFLICT"},
             NEW m \in BOOLEAN, HoldAs(s, m),
             items' = items \/ items' = [items EXCEPT ![decision.job].state = "NEEDS_REVIEW"]
      PROVE  Typed'
  <2>1. s \in Statuses
    BY DEF Statuses, HELD
  <2>2. items' \in [Jobs -> Items]
    BY <1>5 DEF Items, ItemStates
  <2>. QED
    BY <1>5, <2>1, <2>2 DEF claim_ords_batch, HoldAs, SetBoth, oracleVars
<1>6. \/ ByApproval /\ approved_payload /\ Start("forced", Approval.cnic)
      \/ saved # 0 /\ Start("ordinary", saved)
      \/ \E s \in {"BLOCKED_IDENTITY", "QUARANTINED_IDENTITY_CONFLICT"}, m \in BOOLEAN :
            /\ HoldAs(s, m)
            /\ items' = items \/ items' = [items EXCEPT ![decision.job].state = "NEEDS_REVIEW"]
  BY Zenon DEF claim_ords_batch, ClaimApproved, ClaimOrdinary
<1>. QED
  BY <1>3, <1>4, <1>5, <1>6

(* Moving a claim on keeps the claims of their type.                       *)
LEMMA TasksTyped ==
  ASSUME Typed, NEW t \in tasks,
         Check(t) \/ Authorize(t) \/ reserve_direct_post(t) \/ Post(t) \/ ReplyLost(t) \/ Recheck(t)
  PROVE  tasks' \subseteq Claims
<1>1. t \in Claims /\ tasks \subseteq Claims
  BY DEF Typed
<1>2. \A p \in Places : [t EXCEPT !.pc = p] \in Claims
  BY <1>1 DEF Claims
<1>3. \A c \in Classes, p \in Places :
         [t EXCEPT !.class = c, !.pc = p] \in Claims /\ [t EXCEPT !.pc = p, !.class = c] \in Claims
  BY <1>1, Zenon DEF Claims
<1>4. \A m \in Replies, p \in Places : [t EXCEPT !.reply = m, !.pc = p] \in Claims
  BY <1>1, ZenonT(60) DEF Claims
<1>5. ASSUME NEW u \in Claims, Replace(t, u) PROVE tasks' \subseteq Claims
  BY <1>1, <1>5 DEF Replace
<1>6. \E u \in Claims : Replace(t, u)
  <2>1. CASE Check(t)
    BY <1>3, <2>1, VerdictSays, Zenon DEF Check, Places, Classes
  <2>2. CASE Authorize(t)
    BY <1>2, <1>3, <2>2 DEF Authorize, Places, Classes
  <2>3. CASE reserve_direct_post(t) \/ Post(t)
    BY <1>2, <2>3 DEF reserve_direct_post, Post, Places
  <2>4. CASE ReplyLost(t)
    BY <1>4, <2>4, Zenon DEF ReplyLost, AfterReply, Places, Replies
  <2>5. CASE Recheck(t)
    BY <1>3, <2>5, VerdictSays, Zenon DEF Recheck, Places, Classes
  <2>. QED
    BY <2>1, <2>2, <2>3, <2>4, <2>5
<1>. QED
  BY <1>5, <1>6

(* Oracle's answers keep the claims of their type.                         *)
LEMMA AnswersTyped ==
  ASSUME Typed, NEW w \in wire, OracleAnswers(w)
  PROVE  Typed'
<1>1. \E m \in Replies : Answer(w, m)
  BY DEF OracleAnswers, Replies
<1>2. PICK m \in Replies : Answer(w, m)
  BY <1>1
<1>3. \A t \in tasks : t \in Claims /\ [t EXCEPT !.reply = m, !.pc = AfterReply(t)] \in Claims
  BY Zenon DEF Typed, Claims, AfterReply, Places
<1>4. tasks' \subseteq Claims
  BY <1>2, <1>3, Zenon DEF Answer
<1>5. oracle' \in Person /\ sender' \in Lanes \cup {"none"} /\ wire' \subseteq Requests
  BY DEF OracleAnswers, Typed, Requests, Person
<1>6. /\ UNCHANGED <<evidenceVars, rowVars, runVars>>
      /\ UNCHANGED <<approvedPosts, certified, overtaken>>
  BY DEF OracleAnswers
<1>7. OracleTyped'
  BY <1>5, <1>6, TypedGroups DEF OracleTyped
<1>. QED
  BY <1>4, <1>5, <1>6, <1>7, TypedGroups, GroupsKept

(* A settled claim leaves a row of its type.                               *)
LEMMA ResultsTyped ==
  ASSUME Typed, NEW t \in tasks, PersistForced(t) \/ ApplyOrdinary(t)
  PROVE  Typed'
<1>1. tasks' \subseteq Claims
  BY DEF PersistForced, ApplyOrdinary, Finish, Typed
<1>2. CASE PersistForced(t)
  <2>1. RowTyped'
    <3>1. attempt' = attempt
      BY <1>2 DEF PersistForced, rowVars
    <3>2. status' \in Statuses /\ eventStatus' \in Statuses
      BY <1>2 DEF PersistForced, SetBoth, rowVars, Typed, Statuses, Acknowledged, Eligible
    <3>3. confirmed' \in BOOLEAN /\ uncertain' \in BOOLEAN
      BY <1>2, Zenon DEF PersistForced, rowVars, Typed
    <3>. QED
      BY <3>1, <3>2, <3>3 DEF RowTyped, Typed
  <2>2. certified' \in Person
    BY <1>2 DEF PersistForced, Typed, Claims, Person
  <2>3. items' \in [Jobs -> Items]
    <3>1. \/ items' = items
          \/ items' = [items EXCEPT ![t.job].state = "CONFIRMED", ![t.job].verified = TRUE]
          \/ items' = [items EXCEPT ![t.job].state = "NEEDS_REVIEW"]
      BY <1>2 DEF PersistForced, Review
    <3>2. items \in [Jobs -> Items]
      BY DEF Typed
    <3>. QED
      BY <3>1, <3>2 DEF Items, ItemStates
  <2>4. /\ UNCHANGED evidenceVars
        /\ UNCHANGED <<decision, job, oracle, sender, approvedPosts, overtaken, wire>>
    BY <1>2 DEF PersistForced
  <2>5. RunTyped' /\ OracleTyped'
    BY <2>2, <2>3, <2>4, TypedGroups DEF RunTyped, OracleTyped
  <2>. QED
    BY <1>1, <2>1, <2>4, <2>5, TypedGroups, GroupsKept
<1>3. CASE ApplyOrdinary(t)
  <2>1. RowTyped'
    <3>1. attempt' = attempt
      BY <1>3 DEF ApplyOrdinary, rowVars
    <3>2. status' \in Statuses /\ eventStatus' \in Statuses
      BY <1>3 DEF ApplyOrdinary, SetBoth, rowVars, Typed, Statuses, Acknowledged, Eligible
    <3>3. confirmed' \in BOOLEAN /\ uncertain' \in BOOLEAN
      BY <1>3, Zenon DEF ApplyOrdinary, rowVars, Typed
    <3>. QED
      BY <3>1, <3>2, <3>3 DEF RowTyped, Typed
  <2>2. certified' \in Person
    BY <1>3 DEF ApplyOrdinary, Typed
  <2>3. required' \in BOOLEAN
    BY <1>3, Zenon DEF ApplyOrdinary, Typed
  <2>4. /\ UNCHANGED runVars
        /\ UNCHANGED <<current, retained, saved, auto, oracle, sender, approvedPosts,
                       overtaken, wire>>
    BY <1>3 DEF ApplyOrdinary
  <2>5. EvidenceTyped' /\ OracleTyped'
    BY <2>2, <2>3, <2>4, TypedGroups DEF EvidenceTyped, OracleTyped
  <2>. QED
    BY <1>1, <2>1, <2>4, <2>5, TypedGroups, GroupsKept
<1>. QED
  BY <1>2, <1>3

(* Every step keeps the types.                                             *)
LEMMA TypesKept ==
  ASSUME Typed, ItemsInv, [Next]_vars
  PROVE  Typed'
<1>1. ASSUME NEW j \in Jobs, create(j) PROVE Typed'
  BY <1>1, RunsTyped, TypedGroups, GroupsKept, Zenon DEF create
<1>2. ASSUME NEW j \in Jobs, advance_once(j) PROVE Typed'
  <2>1. RunTyped' /\ UNCHANGED <<oracleVars, tasks, wire>>
    BY <1>2, RunsTyped, Zenon DEF advance_once
  <2>2. /\ UNCHANGED <<current, retained, saved, auto>>
        /\ required' = required \/ required' = ~auto
    BY <1>2 DEF advance_once, _queue, _observe, evidenceVars
  <2>3. EvidenceTyped'
    BY <2>2, TypedGroups, Zenon DEF EvidenceTyped
  <2>4. /\ status' = status \/ status' = "PENDING"
        /\ eventStatus' = eventStatus \/ eventStatus' = "PENDING"
        /\ uncertain' = uncertain \/ uncertain' = FALSE
        /\ UNCHANGED <<confirmed, attempt>>
    BY <1>2 DEF advance_once, _queue, _observe, SetBoth, rowVars
  <2>5. RowTyped'
    <3>1. status' \in Statuses /\ eventStatus' \in Statuses /\ attempt' \in 0..(Wrap - 1)
      BY <2>4 DEF Typed, Statuses, Eligible
    <3>2. confirmed' \in BOOLEAN /\ uncertain' \in BOOLEAN
      BY <2>4, Zenon DEF Typed
    <3>. QED
      BY <3>1, <3>2 DEF RowTyped
  <2>. QED
    BY <2>1, <2>3, <2>5, TypedGroups, GroupsKept
<1>3. CASE AutoRelease
  <2>1. EvidenceTyped'
    BY <1>3, Zenon DEF AutoRelease, EvidenceTyped, Typed, Person
  <2>2. RowTyped'
    BY <1>3, Zenon DEF AutoRelease, SetBoth, RowTyped, Typed, Statuses, Eligible
  <2>3. decision' \in [job : Jobs \cup {0}, after : BOOLEAN]
    <3>1. \A b \in BOOLEAN : [decision EXCEPT !.after = b] \in [job : Jobs \cup {0}, after : BOOLEAN]
      BY DEF Typed
    <3>2. Decided \in BOOLEAN
      BY DEF Decided
    <3>. QED
      BY <1>3, <3>1, <3>2, Zenon DEF AutoRelease
  <2>. QED
    BY <1>3, <2>1, <2>2, <2>3, TypedGroups, GroupsKept DEF AutoRelease, RunTyped
<1>4. CASE RosterChanges
  <2>1. EvidenceTyped'
    BY <1>4 DEF RosterChanges, EvidenceTyped, Typed, Person
  <2>. QED
    BY <1>4, <2>1, TypedGroups, GroupsKept DEF RosterChanges
<1>5. CASE RecoverStale
  <2>1. RowTyped'
    BY <1>5 DEF RecoverStale, SetBoth, RowTyped, Typed, Statuses, Eligible
  <2>2. OracleTyped'
    <3>1. overtaken' \in BOOLEAN
      BY <1>5, Zenon DEF RecoverStale
    <3>. QED
      BY <1>5, <3>1, TypedGroups DEF RecoverStale, OracleTyped
  <2>. QED
    BY <1>5, <2>1, <2>2, TypedGroups, GroupsKept DEF RecoverStale
<1>6. CASE OtherLaneFails \/ Crash
  BY <1>6, TypedGroups, GroupsKept, SMTT(60) DEF OtherLaneFails, Crash
<1>7. ASSUME NEW t \in tasks, Check(t) \/ Authorize(t) \/ ReplyLost(t) \/ Recheck(t)
      PROVE  Typed'
  BY <1>7, TasksTyped, TypedGroups, GroupsKept, Zenon DEF Check, Authorize, ReplyLost, Recheck
<1>8. ASSUME NEW t \in tasks, reserve_direct_post(t) PROVE Typed'
  <2>1. items' \in [Jobs -> Items]
    <3>1. \A b \in BOOLEAN : [items EXCEPT ![t.job].posted = b] \in [Jobs -> Items]
      BY ZenonT(60) DEF Typed, Items
    <3>2. items' = items \/ items' = [items EXCEPT ![t.job].posted = TRUE]
      BY <1>8 DEF reserve_direct_post, SaveIntent
    <3>. QED
      BY <3>1, <3>2, Zenon DEF Typed
  <2>2. RunTyped'
    BY <1>8, <2>1, TypedGroups DEF reserve_direct_post, RunTyped
  <2>. QED
    BY <1>8, <2>2, TasksTyped, TypedGroups, GroupsKept DEF reserve_direct_post
<1>9. ASSUME NEW t \in tasks, Post(t) PROVE Typed'
  <2>1. wire' \subseteq Requests /\ approvedPosts' \subseteq Cnics
    BY <1>9 DEF Post, Typed, Claims, Requests
  <2>2. OracleTyped'
    BY <1>9, <2>1, TypedGroups DEF Post, OracleTyped
  <2>. QED
    BY <1>9, <2>1, <2>2, TasksTyped, TypedGroups, GroupsKept DEF Post
<1>10. CASE UNCHANGED vars
  BY <1>10, TypedGroups, GroupsKept DEF vars
<1>. QED
  BY SMTT(60), <1>1, <1>2, <1>3, <1>4, <1>5, <1>6, <1>7, <1>8, <1>9, <1>10, ClaimTyped,
     AnswersTyped, ResultsTyped DEF Next, Worker, TaskStep

-----------------------------------------------------------------------------
(* Approvals *)

(* _queue refuses to replace an approval that may have posted.             *)
LEMMA QueueReplaces ==
  ASSUME Typed, ItemsInv, NEW j \in Jobs, _queue(j), decision' # decision
  PROVE  /\ decision'.job = j /\ \A k \in Jobs : ~items[k].posted
         /\ status # "IN_FLIGHT"
<1>1. decision' = [job |-> j, after |-> FALSE] /\ ~(Decided /\ _replacement_block)
      /\ status # "IN_FLIGHT"
  BY DEF _queue
<1>2. ~(Decided /\ Approval.posted)
  BY <1>1 DEF _replacement_block
<1>3. ASSUME NEW k \in Jobs, items[k].posted PROVE FALSE
  BY <1>2, <1>3, DirectAssumption DEF ItemsInv, Decided, Approval
<1>. QED
  BY <1>1, <1>3

(* The decision changes only in _queue; AutoRelease marks it.              *)
LEMMA DecisionSteps ==
  ASSUME Typed, ItemsInv, [Next]_vars, decision'.job # decision.job
  PROVE  \E j \in Jobs : /\ decision'.job = j /\ job[j] # "NONE" /\ status # "IN_FLIGHT"
                         /\ \A k \in Jobs : ~items[k].posted
                         /\ items[j].state = "READY" /\ items'[j].state = "WAITING_ORACLE"
                         /\ UNCHANGED <<tasks, saved>>
<1>1. ASSUME NEW j \in Jobs, advance_once(j)
      PROVE  /\ decision'.job = j /\ job[j] # "NONE" /\ status # "IN_FLIGHT"
             /\ \A k \in Jobs : ~items[k].posted
             /\ items[j].state = "READY" /\ items'[j].state = "WAITING_ORACLE"
             /\ UNCHANGED <<tasks, saved>>
  <2>1. _queue(j)
    BY <1>1 DEF advance_once, _observe
  <2>2. decision' # decision
    OBVIOUS
  <2>3. /\ items[j].state = "READY" /\ items' = [items EXCEPT ![j].state = "WAITING_ORACLE"]
        /\ saved' = saved
    BY <2>1, <2>2 DEF _queue, SetItem
  <2>4. tasks' = tasks /\ job[j] # "NONE"
    BY <1>1 DEF advance_once, ACTIVE
  <2>5. items'[j].state = "WAITING_ORACLE"
    BY <2>3 DEF Typed, Items
  <2>. QED
    BY <2>1, <2>2, <2>3, <2>4, <2>5, QueueReplaces
<1>2. CASE AutoRelease
  BY <1>2, SMTT(60) DEF AutoRelease, Typed
<1>3. ASSUME NEW j \in Jobs, create(j) PROVE FALSE
  BY <1>3, Zenon DEF create
<1>4. CASE \/ RosterChanges \/ claim_ords_batch \/ RecoverStale \/ OtherLaneFails \/ Crash
  BY <1>4, SMTT(60) DEF RosterChanges, claim_ords_batch, RecoverStale, OtherLaneFails, Crash, runVars
<1>5. ASSUME NEW t \in tasks, TaskStep(t) PROVE FALSE
  BY <1>5, Zenon DEF TaskStep, Check, Authorize, reserve_direct_post, Post, ReplyLost,
              Recheck, PersistForced, ApplyOrdinary, runVars
<1>6. ASSUME NEW w \in wire, OracleAnswers(w) PROVE FALSE
  BY <1>6 DEF OracleAnswers, runVars
<1>7. CASE UNCHANGED vars
  BY <1>7 DEF vars, runVars
<1>. QED
  BY <1>1, <1>2, <1>3, <1>4, <1>5, <1>6, <1>7 DEF Next, Worker

(* Approvals keep their CNIC, and one that may have posted stays decided.  *)
LEMMA ItemsInvKept ==
  ASSUME Typed, ItemsInv, [Next]_vars
  PROVE  ItemsInv'
<1>1. ItemsKept
  BY ItemsSteps
<1>2. ASSUME NEW j \in Jobs PROVE job'[j] = "NONE" => items'[j] = NoItem
  BY <1>1 DEF ItemsKept, ItemsInv
<1>3. ASSUME NEW j \in Jobs PROVE items'[j].source # "none" => items'[j].cnic \in Cnics
  BY <1>1 DEF ItemsKept, ItemsInv
<1>4. ASSUME NEW j \in Jobs, decision'.job = j PROVE job'[j] # "NONE"
  <2>1. CASE decision'.job = decision.job
    BY <1>1, <1>4, <2>1 DEF ItemsKept, ItemsInv
  <2>2. CASE decision'.job # decision.job
    BY <1>1, <1>4, <2>2, DecisionSteps DEF ItemsKept
  <2>. QED
    BY <2>1, <2>2
<1>5. ASSUME NEW j \in Jobs, items'[j].posted PROVE decision'.job = j
  <2>1. CASE items[j].posted
    BY <2>1, DecisionSteps DEF ItemsInv
  <2>2. CASE ~items[j].posted
    BY <1>1, <1>5, <2>2 DEF ItemsKept
  <2>. QED
    BY <2>1, <2>2
<1>. QED
  BY <1>2, <1>3, <1>4, <1>5 DEF ItemsInv

(* What was posted under an approval stays known to be.                    *)
LEMMA PostedStays ==
  ASSUME ItemsInv, ItemsKept, NEW c, PostedCnic(c)
  PROVE  PostedCnic(c)'
  BY DEF ItemsInv, ItemsKept, PostedCnic, NoItem

-----------------------------------------------------------------------------
(* Claims *)

(* Steps of others leave what a claim knows true.                          *)
LEMMA TaskStays ==
  ASSUME Typed, NEW t \in tasks, TaskInv(t), ItemsKept, OracleKept
  PROVE  TaskInv(t)'
<1>1. t.cnic # 0
  BY DirectAssumption DEF Typed, Claims
<1>. QED
  BY <1>1 DEF TaskInv, ItemsKept, OracleKept

(* A claim that moved on.                                                  *)
LEMMA TaskReplaced ==
  ASSUME Typed, TasksInv, ItemsKept, OracleKept, NEW t, NEW u, Replace(t, u), TaskInv(u)'
  PROVE  TasksInv'
<1>. SUFFICES ASSUME NEW v \in tasks' PROVE TaskInv(v)'
  BY DEF TasksInv
<1>1. v = u \/ v \in tasks
  BY DEF Replace
<1>. QED
  BY <1>1, TaskStays DEF TasksInv

(* deliver_forced and the ordinary lane: what a claim learns of Oracle is  *)
(* true, and the intent is saved before the POST.                          *)
LEMMA TasksInvKept ==
  ASSUME Typed, ItemsInv, TasksInv, [Next]_vars
  PROVE  TasksInv'
<1>1. ItemsKept /\ OracleKept
  BY ItemsSteps, OracleSteps
<1>2. CASE tasks' \subseteq tasks
  BY <1>1, <1>2, TaskStays DEF TasksInv
<1>3. ASSUME NEW t \in tasks, NEW p, NEW c, NEW m,
             Replace(t, [t EXCEPT !.class = c, !.pc = p, !.reply = m]),
             t.lane = "ordinary" => p \in {"check", "post", "wait", "apply"},
             t.lane = "forced" /\ p \in {"post", "wait", "recheck"} => items'[t.job].posted,
             c = "MATCH" => oracle' = t.cnic,
             c = "PRESENT" \/ m \in {"created", "exists"} => oracle' # 0
      PROVE  TasksInv'
  <2>. DEFINE u == [t EXCEPT !.class = c, !.pc = p, !.reply = m]
  <2>1. t \in Claims /\ TaskInv(t)'
    BY <1>1, TaskStays DEF Typed, TasksInv
  <2>2. /\ u.lane = t.lane /\ u.job = t.job /\ u.cnic = t.cnic
        /\ u.class = c /\ u.pc = p /\ u.reply = m
    BY <2>1 DEF Claims
  <2>3. TaskInv(u)'
    BY <1>3, <2>1, <2>2, SMTT(60) DEF TaskInv
  <2>. QED
    BY <1>1, <1>3, <2>3, TaskReplaced
<1>4. ASSUME NEW t \in tasks
      PROVE  /\ t \in Claims /\ TaskInv(t)
             /\ \A p : [t EXCEPT !.pc = p] = [t EXCEPT !.class = t.class, !.pc = p, !.reply = t.reply]
             /\ \A p, c : /\ [t EXCEPT !.class = c, !.pc = p]
                              = [t EXCEPT !.class = c, !.pc = p, !.reply = t.reply]
                          /\ [t EXCEPT !.pc = p, !.class = c]
                              = [t EXCEPT !.class = c, !.pc = p, !.reply = t.reply]
             /\ \A p, m : [t EXCEPT !.reply = m, !.pc = p]
                              = [t EXCEPT !.class = t.class, !.pc = p, !.reply = m]
  BY ZenonT(60) DEF Typed, TasksInv, Claims
<1>5. ASSUME NEW t \in tasks, Check(t) PROVE TasksInv'
  <2>1. oracle' = oracle
    BY <1>5, Zenon DEF Check, oracleVars
  <2>2. /\ Verdict(t) = "MATCH" => oracle = t.cnic
        /\ Verdict(t) = "PRESENT" => oracle # 0
        /\ t.lane \in Lanes
    BY VerdictSays, SMTT(60) DEF Typed, Claims
  <2>3. \E c, p : /\ Replace(t, [t EXCEPT !.class = c, !.pc = p])
                  /\ c = Verdict(t) \/ c = "UNKNOWN"
                  /\ p \in {"apply"} \cup (IF t.lane = "forced" THEN {"authorize"} ELSE {"post"})
    BY <1>5, <2>2, ZenonT(60) DEF Check, Lanes
  <2>4. PICK c, p : /\ Replace(t, [t EXCEPT !.class = c, !.pc = p])
                    /\ c = Verdict(t) \/ c = "UNKNOWN"
                    /\ p \in {"apply"} \cup (IF t.lane = "forced" THEN {"authorize"} ELSE {"post"})
    BY <2>3, ZenonT(60)
  <2>5. Replace(t, [t EXCEPT !.class = c, !.pc = p, !.reply = t.reply])
    BY <1>4, <2>4, ZenonT(60)
  <2>6. t.reply \in {"created", "exists"} => oracle # 0
    BY <1>4, ZenonT(60) DEF TaskInv
  <2>. QED
    BY <1>3, <2>1, <2>2, <2>4, <2>5, <2>6, ZenonT(60) DEF Lanes
<1>6. ASSUME NEW t \in tasks, Authorize(t) \/ reserve_direct_post(t) PROVE TasksInv'
  <2>1. oracle' = oracle
    BY <1>6 DEF Authorize, reserve_direct_post, oracleVars
  <2>2. t.lane = "forced" /\ t.job \in Jobs
    BY <1>4, <1>6, ZenonT(60) DEF TaskInv, Authorize, reserve_direct_post, Claims, Lanes
  <2>3. \E c, p : /\ Replace(t, [t EXCEPT !.class = c, !.pc = p, !.reply = t.reply])
                  /\ c = t.class \/ c = "CHANGED"
                  /\ \/ p \in {"reserve", "apply"}
                     \/ p = "post" /\ items' = [items EXCEPT ![t.job].posted = TRUE]
    <3>1. CASE Authorize(t)
      BY <1>4, <3>1, ZenonT(60) DEF Authorize
    <3>2. CASE reserve_direct_post(t)
      BY <1>4, <3>2, ZenonT(60) DEF reserve_direct_post, SaveIntent
    <3>. QED
      BY <1>6, <3>1, <3>2, ZenonT(60)
  <2>4. PICK c, p : /\ Replace(t, [t EXCEPT !.class = c, !.pc = p, !.reply = t.reply])
                    /\ c = t.class \/ c = "CHANGED"
                    /\ \/ p \in {"reserve", "apply"}
                       \/ p = "post" /\ items' = [items EXCEPT ![t.job].posted = TRUE]
    BY <2>3, Zenon
  <2>5. p = "post" => items'[t.job].posted
    BY <2>2, <2>4, SMTT(60) DEF Typed, Items
  <2>6. /\ t.reply \in {"created", "exists"} \/ t.class = "PRESENT" => oracle # 0
        /\ t.class = "MATCH" => oracle = t.cnic
    BY <1>4, ZenonT(60) DEF TaskInv
  <2>. QED
    BY <1>3, <2>1, <2>2, <2>4, <2>5, <2>6, ZenonT(60)
<1>7. ASSUME NEW t \in tasks, Post(t) \/ ReplyLost(t) PROVE TasksInv'
  <2>1. oracle' = oracle /\ items' = items
    BY <1>7, SMTT(60) DEF Post, ReplyLost, oracleVars, runVars
  <2>2. \E p, m : /\ Replace(t, [t EXCEPT !.class = t.class, !.pc = p, !.reply = m])
                  /\ m = t.reply \/ m = "lost"
                  /\ p \in {"wait"} \cup (IF t.lane = "forced" THEN {"recheck"} ELSE {"apply"})
    <3>1. CASE Post(t)
      <4>1. Replace(t, [t EXCEPT !.class = t.class, !.pc = "wait", !.reply = t.reply])
        BY <1>4, <3>1, ZenonT(60) DEF Post
      <4>. QED
        BY <4>1, ZenonT(60)
    <3>2. CASE ReplyLost(t)
      <4>1. Replace(t, [t EXCEPT !.class = t.class, !.pc = AfterReply(t), !.reply = "lost"])
        BY <1>4, <3>2, ZenonT(60) DEF ReplyLost
      <4>. QED
        BY <4>1, ZenonT(60) DEF AfterReply
    <3>. QED
      BY <1>7, <3>1, <3>2, ZenonT(60)
  <2>3. PICK p, m : /\ Replace(t, [t EXCEPT !.class = t.class, !.pc = p, !.reply = m])
                    /\ m = t.reply \/ m = "lost"
                    /\ p \in {"wait"} \cup (IF t.lane = "forced" THEN {"recheck"} ELSE {"apply"})
    BY <2>2, ZenonT(60)
  <2>4. /\ t.reply \in {"created", "exists"} \/ t.class = "PRESENT" => oracle # 0
        /\ t.class = "MATCH" => oracle = t.cnic
        /\ t.lane = "forced" => items[t.job].posted
    BY <1>4, <1>7, Zenon DEF TaskInv, Post, ReplyLost
  <2>5. t.lane = "ordinary" => p \in {"check", "post", "wait", "apply"}
    BY <2>3
  <2>6. t.class = "PRESENT" \/ m \in {"created", "exists"} => oracle' # 0
    BY <2>1, <2>3, <2>4, SMTT(60)
  <2>. QED
    BY <1>3, <2>1, <2>3, <2>4, <2>5, <2>6, Zenon
<1>8. ASSUME NEW t \in tasks, Recheck(t) PROVE TasksInv'
  <2>1. oracle' = oracle
    BY <1>8, ZenonT(60) DEF Recheck, oracleVars
  <2>2. \E c : /\ Replace(t, [t EXCEPT !.class = c, !.pc = "apply", !.reply = t.reply])
               /\ c \in {Verdict(t), "UNKNOWN", "REJECTED"}
    BY <1>4, <1>8, ZenonT(60) DEF Recheck
  <2>3. PICK c : /\ Replace(t, [t EXCEPT !.class = c, !.pc = "apply", !.reply = t.reply])
                 /\ c \in {Verdict(t), "UNKNOWN", "REJECTED"}
    BY <2>2, ZenonT(60)
  <2>4. t.reply \in {"created", "exists"} => oracle # 0
    BY <1>4, Zenon DEF TaskInv
  <2>. QED
    BY <1>3, <2>1, <2>3, <2>4, VerdictSays, ZenonT(60)
<1>9. ASSUME NEW w \in wire, OracleAnswers(w) PROVE TasksInv'
  <2>1. \E m : Answer(w, m) /\ (m \in {"created", "exists"} => oracle' # 0)
    <3>1. w.cnic # 0
      BY DirectAssumption DEF Typed, Requests
    <3>. QED
      BY <1>9, <3>1 DEF OracleAnswers
  <2>2. PICK m : Answer(w, m) /\ (m \in {"created", "exists"} => oracle' # 0)
    BY <2>1
  <2>. SUFFICES ASSUME NEW v \in tasks' PROVE TaskInv(v)'
    BY DEF TasksInv
  <2>3. CASE v \in tasks
    BY <1>1, <2>3, TaskStays DEF TasksInv
  <2>4. CASE v \notin tasks
    <3>1. PICK t \in tasks : t.pc = "wait" /\ v = [t EXCEPT !.reply = m, !.pc = AfterReply(t)]
      BY <2>2, <2>4, Zenon DEF Answer
    <3>2. t \in Claims /\ TaskInv(t) /\ TaskInv(t)'
      BY <1>1, TaskStays DEF Typed, TasksInv
    <3>3. /\ v.lane = t.lane /\ v.job = t.job /\ v.cnic = t.cnic /\ v.class = t.class
          /\ v.reply = m /\ v.pc = AfterReply(t)
      BY <3>1, <3>2 DEF Claims
    <3>4. items' = items
      BY <1>9 DEF OracleAnswers, runVars
    <3>. QED
      BY <2>2, <3>1, <3>2, <3>3, <3>4, SMTT(60) DEF TaskInv, AfterReply
  <2>. QED
    BY <2>3, <2>4
<1>10. CASE claim_ords_batch
  <2>1. CASE tasks' = tasks
    BY <1>2, <2>1
  <2>2. CASE tasks' # tasks
    <3>1. \E lane, c : /\ Start(lane, c)
                       /\ \/ lane = "ordinary" /\ items' = items
                          \/ /\ lane = "forced" /\ Decided /\ c = Approval.cnic
                             /\ items' = items
      BY <1>10, <2>2, Zenon DEF claim_ords_batch, ClaimApproved, ClaimOrdinary, HoldAs, ByApproval, Start
    <3>2. PICK lane, c : /\ Start(lane, c)
                         /\ \/ lane = "ordinary" /\ items' = items
                            \/ /\ lane = "forced" /\ Decided /\ c = Approval.cnic
                               /\ items' = items
      BY <3>1
    <3>3. PICK u : u = [lane |-> lane, attempt |-> attempt', cnic |-> c, job |-> decision.job,
                        class |-> "none", pc |-> "check", reply |-> "none"]
      BY Zenon
    <3>4. job' = job /\ tasks' = tasks \cup {u}
      BY <1>10, <3>2, <3>3 DEF claim_ords_batch, Start
    <3>5. TaskInv(u)'
      BY <3>2, <3>3, <3>4, DecidedJob DEF TaskInv, Approval
    <3>. SUFFICES ASSUME NEW v \in tasks' PROVE TaskInv(v)'
      BY DEF TasksInv
    <3>6. v = u \/ v \in tasks
      BY <3>4, SMTT(60)
    <3>. QED
      BY <1>1, <3>5, <3>6, TaskStays DEF TasksInv
  <2>. QED
    BY <2>1, <2>2
<1>11. ASSUME NEW j \in Jobs, create(j) \/ advance_once(j) PROVE tasks' \subseteq tasks
  BY <1>11, Zenon DEF create, advance_once
<1>12. CASE AutoRelease \/ RosterChanges \/ RecoverStale \/ OtherLaneFails \/ Crash
  BY <1>2, <1>12 DEF AutoRelease, RosterChanges, RecoverStale, OtherLaneFails, Crash
<1>13. ASSUME NEW t \in tasks, PersistForced(t) \/ ApplyOrdinary(t) PROVE tasks' \subseteq tasks
  BY <1>13 DEF PersistForced, ApplyOrdinary, Finish
<1>14. CASE UNCHANGED vars
  BY <1>2, <1>14, SMTT(60) DEF vars
<1>. QED
  BY <1>2, <1>5, <1>6, <1>7, <1>8, <1>9, <1>10, <1>11, <1>12, <1>13, <1>14
  DEF Next, Worker, TaskStep

-----------------------------------------------------------------------------
(* Oracle *)

(* persist_result and _observe: an item counts as confirmed only after a   *)
(* content match, and the punch only when Oracle has it.                   *)
LEMMA OutcomesTrue ==
  ASSUME Typed, ItemsInv, TasksInv, OracleInv, [Next]_vars
  PROVE  /\ confirmed' => oracle # 0
         /\ \A j \in Jobs : items'[j].verified \/ items'[j].state = "CONFIRMED"
                            => oracle # 0 /\ oracle = items'[j].cnic
<1>. DEFINE True(j) == oracle # 0 /\ oracle = items[j].cnic
            Good(j) == items'[j].verified \/ items'[j].state = "CONFIRMED"
                       => items[j].verified \/ items[j].state = "CONFIRMED" \/ True(j)
<1>1. ItemsKept
  BY ItemsSteps, SMTT(60)
<1>. SUFFICES (confirmed' => confirmed \/ oracle # 0) /\ \A j \in Jobs : job[j] # "NONE" => Good(j)
  BY <1>1 DEF OracleInv, ItemsKept
<1>2. CASE confirmed' = confirmed /\ items' = items
  BY <1>2, SMTT(60)
<1>3. ASSUME NEW j \in Jobs, create(j)
      PROVE  confirmed' = confirmed /\ \A k \in Jobs : job[k] # "NONE" => Good(k)
  BY <1>3, Zenon DEF create, rowVars, Typed
<1>4. ASSUME NEW j \in Jobs, advance_once(j)
      PROVE  confirmed' = confirmed /\ \A k \in Jobs : job[k] # "NONE" => Good(k)
  <2>1. confirmed' = confirmed
    BY <1>4 DEF advance_once, _queue, _observe, rowVars
  <2>2. \/ items' = items
        \/ \E s \in ItemStates \ {"CONFIRMED"} : items' = [items EXCEPT ![j].state = s]
        \/ items[j].verified /\ items' = [items EXCEPT ![j].state = "CONFIRMED"]
    BY <1>4 DEF advance_once, _queue, _observe, SetItem, ItemStates
  <2>. QED
    BY <2>1, <2>2 DEF Typed, Items
<1>5. CASE claim_ords_batch
  <2>1. confirmed' = confirmed
    BY <1>5 DEF claim_ords_batch, ClaimApproved, ClaimOrdinary, Start, HoldAs
  <2>2. items' = items \/ items' = [items EXCEPT ![decision.job].state = "NEEDS_REVIEW"]
    BY <1>5, Zenon DEF claim_ords_batch, ClaimApproved, ClaimOrdinary, Start
  <2>. QED
    BY <2>1, <2>2 DEF Typed, Items
<1>6. ASSUME NEW t \in tasks, reserve_direct_post(t)
      PROVE  confirmed' = confirmed /\ \A k \in Jobs : job[k] # "NONE" => Good(k)
  <2>1. confirmed' = confirmed
    BY <1>6 DEF reserve_direct_post, rowVars
  <2>2. items' = items \/ items' = [items EXCEPT ![t.job].posted = TRUE]
    BY <1>6 DEF reserve_direct_post, SaveIntent
  <2>. QED
    BY <2>1, <2>2 DEF Typed, Items
<1>7. ASSUME NEW t \in tasks, PersistForced(t)
      PROVE  (confirmed' => confirmed \/ oracle # 0) /\ \A k \in Jobs : job[k] # "NONE" => Good(k)
  <2>1. t.cnic # 0 /\ TaskInv(t) /\ t.lane = "forced"
    BY <1>7, DirectAssumption DEF Typed, Claims, TasksInv, PersistForced
  <2>2. CASE t.class = "MATCH"
    <3>1. True(t.job)
      BY <2>1, <2>2 DEF TaskInv
    <3>2. \/ items' = items
          \/ items' = [items EXCEPT ![t.job].state = "CONFIRMED", ![t.job].verified = TRUE]
      BY <1>7, <2>2 DEF PersistForced
    <3>. QED
      BY <3>1, <3>2 DEF Typed, Items
  <2>3. CASE t.class # "MATCH"
    <3>1. confirmed' = confirmed
      BY <1>7, <2>3 DEF PersistForced, rowVars
    <3>2. items' = items \/ items' = [items EXCEPT ![t.job].state = "NEEDS_REVIEW"]
      BY <1>7, <2>3 DEF PersistForced, Review
    <3>. QED
      BY <3>1, <3>2 DEF Typed, Items
  <2>. QED
    BY <2>2, <2>3
<1>8. ASSUME NEW t \in tasks, ApplyOrdinary(t)
      PROVE  (confirmed' => confirmed \/ oracle # 0) /\ items' = items
  BY <1>8 DEF ApplyOrdinary, TasksInv, TaskInv, rowVars, runVars
<1>9. CASE AutoRelease \/ RosterChanges \/ RecoverStale \/ OtherLaneFails \/ Crash
  BY <1>2, <1>9, SMTT(60) DEF AutoRelease, RosterChanges, RecoverStale, OtherLaneFails, Crash,
                    rowVars, runVars
<1>10. ASSUME NEW t \in tasks, Check(t) \/ Authorize(t) \/ Post(t) \/ ReplyLost(t) \/ Recheck(t)
       PROVE  confirmed' = confirmed /\ items' = items
  BY <1>10, Zenon DEF Check, Authorize, Post, ReplyLost, Recheck, rowVars, runVars
<1>11. ASSUME NEW w \in wire, OracleAnswers(w) PROVE confirmed' = confirmed /\ items' = items
  BY <1>11 DEF OracleAnswers, rowVars, runVars
<1>12. CASE UNCHANGED vars
  BY <1>2, <1>12 DEF vars, rowVars, runVars
<1>. QED
  BY <1>2, <1>3, <1>4, <1>5, <1>6, <1>7, <1>8, <1>9, <1>10, <1>11, <1>12
  DEF Next, Worker, TaskStep

SentTrue ==
    /\ \A w \in wire' : w.lane = "forced" => PostedCnic(w.cnic)
    /\ \A c \in approvedPosts' : PostedCnic(c)
    /\ oracle' = 0 => sender' = "none"
    /\ sender' = "forced" => \E c : c = oracle' /\ PostedCnic(c)

(* Post and Oracle's answer: a forced request in transit, or stored, was   *)
(* posted under an approval with a saved intent.                           *)
LEMMA SentPosted ==
  ASSUME Typed, ItemsInv, TasksInv, OracleInv, [Next]_vars
  PROVE  SentTrue
<1>1. CASE /\ wire' \subseteq wire /\ approvedPosts' = approvedPosts
           /\ oracle' = oracle /\ sender' = sender
  BY <1>1 DEF OracleInv, SentTrue
<1>2. ASSUME NEW t \in tasks, Post(t) PROVE SentTrue
  <2>1. t.lane = "forced" => PostedCnic(t.cnic)
    BY <1>2 DEF Post, TasksInv, TaskInv, PostedCnic
  <2>2. /\ wire' = wire \cup {[lane |-> t.lane, attempt |-> t.attempt, cnic |-> t.cnic]}
        /\ approvedPosts' = approvedPosts \cup (IF t.lane = "forced" THEN {t.cnic} ELSE {})
        /\ oracle' = oracle /\ sender' = sender
    BY <1>2 DEF Post
  <2>. QED
    BY <2>1, <2>2 DEF OracleInv, SentTrue
<1>3. ASSUME NEW w \in wire, OracleAnswers(w) PROVE SentTrue
  <2>1. /\ wire' \subseteq wire /\ approvedPosts' = approvedPosts
        /\ (oracle' = oracle /\ sender' = sender) \/ (oracle' = w.cnic /\ sender' = w.lane)
    BY <1>3 DEF OracleAnswers
  <2>2. w.cnic # 0
    BY DirectAssumption, SMTT(60) DEF Typed, Requests
  <2>. QED
    BY <1>1, <2>1, <2>2 DEF OracleInv, SentTrue
<1>4. ASSUME NEW j \in Jobs, create(j) \/ advance_once(j) PROVE SentTrue
  BY <1>1, <1>4, Zenon DEF create, advance_once, oracleVars
<1>5. CASE \/ AutoRelease \/ RosterChanges \/ claim_ords_batch \/ RecoverStale
           \/ OtherLaneFails \/ Crash
  BY <1>1, <1>5, SMTT(60) DEF AutoRelease, RosterChanges, claim_ords_batch, RecoverStale,
                    OtherLaneFails, Crash, oracleVars
<1>6. ASSUME NEW t \in tasks,
             \/ Check(t) \/ Authorize(t) \/ reserve_direct_post(t) \/ ReplyLost(t)
             \/ Recheck(t) \/ PersistForced(t) \/ ApplyOrdinary(t)
      PROVE  SentTrue
  BY <1>1, <1>6, Zenon DEF Check, Authorize, reserve_direct_post, ReplyLost, Recheck,
                    PersistForced, ApplyOrdinary, oracleVars
<1>7. CASE UNCHANGED vars
  BY <1>1, <1>7 DEF vars, oracleVars
<1>. QED
  BY <1>2, <1>3, <1>4, <1>5, <1>6, <1>7 DEF Next, Worker, TaskStep

(* What was sent and what was confirmed stays so.                          *)
LEMMA OracleInvKept ==
  ASSUME Typed, ItemsInv, TasksInv, OracleInv, [Next]_vars
  PROVE  OracleInv'
<1>1. ItemsKept /\ OracleKept /\ SentTrue
  BY ItemsSteps, OracleSteps, SentPosted
<1>2. \A c : PostedCnic(c) => PostedCnic(c)'
  BY <1>1, PostedStays
<1>3. ASSUME NEW c, c = oracle', PostedCnic(c) PROVE PostedCnic(oracle)'
  BY <1>2, <1>3 DEF PostedCnic
<1>4. sender' = "forced" => PostedCnic(oracle)'
  BY <1>1, <1>3 DEF SentTrue
<1>5. /\ \A w \in wire' : w.lane = "forced" => PostedCnic(w.cnic)'
      /\ \A c \in approvedPosts' : PostedCnic(c)'
  BY <1>1, <1>2 DEF SentTrue
<1>6. /\ confirmed' => oracle' # 0
      /\ \A j \in Jobs : items'[j].verified \/ items'[j].state = "CONFIRMED"
                         => oracle' # 0 /\ oracle' = items'[j].cnic
  BY <1>1, OutcomesTrue DEF OracleKept
<1>. QED
  BY <1>1, <1>4, <1>5, <1>6 DEF OracleInv, SentTrue

-----------------------------------------------------------------------------
(* One claim at a time *)

Continues ==
    \E t, u : /\ tasks = {t} /\ tasks' = {u} /\ u.lane = t.lane
              /\ status' = status /\ saved' = saved /\ decision'.job = decision.job

Starts ==
    /\ tasks = {} /\ claim_ords_batch /\ status' = "IN_FLIGHT"
    /\ \E u : tasks' = {u}

(* While no running claim was taken for stale: claims start one at a time, *)
(* and the punch, its CNIC and its decision stay put while one runs.       *)
LEMMA SoleTasks ==
  ASSUME Typed, SoleInv, [Next]_vars, ~overtaken'
  PROVE  ~overtaken /\ (tasks' = {} \/ Starts \/ Continues)
<1>1. ~overtaken
  <2>1. CASE RecoverStale
    BY <2>1, Zenon DEF RecoverStale
  <2>2. ASSUME NEW j \in Jobs, create(j) \/ advance_once(j) PROVE overtaken' = overtaken
    BY <2>2, Zenon DEF create, advance_once, oracleVars
  <2>3. CASE AutoRelease \/ RosterChanges \/ claim_ords_batch \/ OtherLaneFails \/ Crash
    BY <2>3, SMTT(60) DEF AutoRelease, RosterChanges, claim_ords_batch, OtherLaneFails, Crash, oracleVars
  <2>4. ASSUME NEW t \in tasks, TaskStep(t) PROVE overtaken' = overtaken
    BY <2>4, Zenon DEF TaskStep, Check, Authorize, reserve_direct_post, Post, ReplyLost,
                Recheck, PersistForced, ApplyOrdinary, oracleVars
  <2>5. ASSUME NEW w \in wire, OracleAnswers(w) PROVE overtaken' = overtaken
    BY <2>5 DEF OracleAnswers
  <2>6. CASE UNCHANGED vars
    BY <2>6 DEF vars, oracleVars
  <2>. QED
    BY <2>1, <2>2, <2>3, <2>4, <2>5, <2>6 DEF Next, Worker
<1>. SUFFICES tasks' = {} \/ Starts \/ Continues
  BY <1>1
<1>2. /\ \A t, u \in tasks : t = u
      /\ tasks # {} => status = "IN_FLIGHT"
  BY <1>1 DEF SoleInv
<1>3. \A t \in tasks : tasks = {t}
  BY <1>2
<1>4. ASSUME tasks' = tasks, tasks # {} => status' = status /\ saved' = saved
                                          /\ decision'.job = decision.job
      PROVE  tasks' = {} \/ Continues
  BY <1>3, <1>4, SMTT(60) DEF Continues
<1>5. ASSUME NEW j \in Jobs, create(j) PROVE tasks' = {} \/ Continues
  BY <1>4, <1>5, Zenon DEF create, rowVars, evidenceVars
<1>6. ASSUME NEW j \in Jobs, advance_once(j) PROVE tasks' = {} \/ Continues
  <2>1. status = "IN_FLIGHT" => status' = status /\ saved' = saved /\ decision' = decision
    BY <1>6 DEF advance_once, _queue, _observe, rowVars, evidenceVars
  <2>2. tasks' = tasks
    BY <1>6 DEF advance_once
  <2>. QED
    BY <1>2, <1>4, <2>1, <2>2, SMTT(60)
<1>7. CASE AutoRelease \/ RecoverStale \/ Crash
  <2>1. CASE AutoRelease
    BY <1>2, <2>1 DEF AutoRelease
  <2>2. CASE RecoverStale
    BY <2>2, Zenon DEF RecoverStale
  <2>3. CASE Crash
    BY <2>3 DEF Crash
  <2>. QED
    BY <1>7, <2>1, <2>2, <2>3
<1>8. CASE RosterChanges \/ OtherLaneFails
  <2>1. /\ tasks' = tasks /\ status' = status /\ saved' = saved /\ decision' = decision
    BY <1>8 DEF RosterChanges, OtherLaneFails, rowVars, evidenceVars, runVars
  <2>. QED
    BY <1>4, <2>1
<1>9. CASE claim_ords_batch
  <2>1. tasks = {}
    <3>1. status \in {"PENDING", "FAILED_RETRYABLE"}
      BY <1>9 DEF claim_ords_batch, Eligible
    <3>. QED
      BY <1>2, <3>1
  <2>2. CASE tasks' = tasks
    BY <2>1, <2>2
  <2>3. CASE tasks' # tasks
    <3>1. Start("forced", Approval.cnic) \/ Start("ordinary", saved)
      BY <1>9, <2>3 DEF claim_ords_batch, ClaimApproved, ClaimOrdinary, HoldAs
    <3>2. status' = "IN_FLIGHT" /\ \E u : tasks' = tasks \cup {u}
      BY <3>1, Zenon DEF Start
    <3>. QED
      BY <1>9, <2>1, <3>2 DEF Starts
  <2>. QED
    BY <2>2, <2>3
<1>10. ASSUME NEW t \in tasks,
              \/ Check(t) \/ Authorize(t) \/ reserve_direct_post(t) \/ Post(t)
              \/ ReplyLost(t) \/ Recheck(t)
       PROVE  Continues
  <2>1. status' = status /\ saved' = saved /\ decision' = decision
    BY <1>10, Zenon DEF Check, Authorize, reserve_direct_post, Post, ReplyLost, Recheck,
                 rowVars, evidenceVars, runVars
  <2>2. t \in Claims
    BY SMTT(60) DEF Typed
  <2>3. \E u : Replace(t, u) /\ u.lane = t.lane
    <3>1. CASE Check(t)
      <4>1. \E c, p, u : u = [t EXCEPT !.class = c, !.pc = p] /\ Replace(t, u)
        BY <3>1, Zenon DEF Check
      <4>. QED
        BY <2>2, <4>1, Zenon DEF Claims
    <3>2. CASE Authorize(t)
      <4>1. \E u : /\ Replace(t, u)
                   /\ \/ u = [t EXCEPT !.pc = "reserve"]
                      \/ u = [t EXCEPT !.class = "CHANGED", !.pc = "apply"]
        BY <3>2 DEF Authorize
      <4>. QED
        BY <2>2, <4>1, Zenon DEF Claims
    <3>3. CASE reserve_direct_post(t)
      <4>1. \E p, u : u = [t EXCEPT !.pc = p] /\ Replace(t, u)
        BY <3>3 DEF reserve_direct_post
      <4>. QED
        BY <2>2, <4>1 DEF Claims
    <3>4. CASE Post(t) \/ ReplyLost(t)
      <4>1. \E p, u : /\ Replace(t, u)
                      /\ u = [t EXCEPT !.pc = p] \/ u = [t EXCEPT !.reply = "lost", !.pc = p]
        BY <3>4, Zenon DEF Post, ReplyLost
      <4>. QED
        BY <2>2, <4>1, Zenon DEF Claims
    <3>5. CASE Recheck(t)
      <4>1. \E c, p, u : /\ Replace(t, u)
                         /\ u = [t EXCEPT !.pc = p, !.class = c] \/ u = [t EXCEPT !.class = c, !.pc = p]
        BY <3>5, Zenon DEF Recheck
      <4>. QED
        BY <2>2, <4>1, Zenon DEF Claims
    <3>. QED
      BY <1>10, <3>1, <3>2, <3>3, <3>4, <3>5
  <2>4. PICK u : Replace(t, u) /\ u.lane = t.lane
    BY <2>3
  <2>5. tasks = {t} /\ tasks' = {u}
    BY <1>3, <2>4 DEF Replace
  <2>. QED
    BY <2>1, <2>4, <2>5 DEF Continues
<1>11. ASSUME NEW t \in tasks, PersistForced(t) \/ ApplyOrdinary(t) PROVE tasks' = {}
  BY <1>3, <1>11 DEF PersistForced, ApplyOrdinary, Finish
<1>12. ASSUME NEW w \in wire, OracleAnswers(w) PROVE tasks' = {} \/ Continues
  <2>1. status' = status /\ saved' = saved /\ decision' = decision
    BY <1>12 DEF OracleAnswers, rowVars, evidenceVars, runVars
  <2>2. PICK m : Answer(w, m)
    BY <1>12 DEF OracleAnswers
  <2>3. CASE tasks = {}
    BY <2>2, <2>3 DEF Answer
  <2>4. ASSUME NEW t \in tasks PROVE Continues
    <3>1. PICK u : u = IF t.pc = "wait" /\ t.attempt = w.attempt
                       THEN [t EXCEPT !.reply = m, !.pc = AfterReply(t)] ELSE t
      BY ZenonT(60)
    <3>2. tasks = {t} /\ tasks' = {u}
      BY <1>3, <2>2, <3>1, Zenon DEF Answer
    <3>3. t \in Claims
      BY DEF Typed
    <3>4. u.lane = t.lane
      BY <3>1, <3>3 DEF Claims
    <3>. QED
      BY <2>1, <3>2, <3>4 DEF Continues
  <2>. QED
    BY <2>3, <2>4
<1>13. CASE UNCHANGED vars
  <2>1. /\ tasks' = tasks /\ status' = status /\ saved' = saved /\ decision' = decision
    BY <1>13 DEF vars, rowVars, evidenceVars, runVars
  <2>. QED
    BY <1>4, <2>1
<1>. QED
  BY <1>1, <1>5, <1>6, <1>7, <1>8, <1>9, <1>10, <1>11, <1>12, <1>13 DEF Next, Worker, TaskStep

(* While a claim runs no other approval becomes one that may have posted:  *)
(* only a claim in reserve_direct_post saves an intent, and it is forced.  *)
LEMMA OrdinaryKept ==
  ASSUME Typed, ItemsInv, TasksInv, SoleInv, ~overtaken, ItemsKept, Continues,
         NEW v \in tasks', v.lane = "ordinary", Decided', Approval'.posted
  PROVE  Approval'.cnic = saved'
<1>1. PICK t, u : /\ tasks = {t} /\ tasks' = {u} /\ u.lane = t.lane
                  /\ status' = status /\ saved' = saved /\ decision'.job = decision.job
  BY DEF Continues
<1>2. t \in tasks /\ t.lane = "ordinary" /\ t.pc # "reserve"
  BY <1>1 DEF TasksInv, TaskInv
<1>3. Decided /\ decision.job \in Jobs /\ job[decision.job] # "NONE"
  BY <1>1, DecidedJob DEF Decided
<1>4. items'[decision.job].posted /\ Approval'.cnic = items[decision.job].cnic
  BY <1>1, <1>3 DEF Approval, ItemsKept
<1>5. items[decision.job].posted
  BY <1>1, <1>2, <1>3, <1>4 DEF ItemsKept
<1>. QED
  BY <1>1, <1>2, <1>3, <1>4, <1>5 DEF SoleInv, Approval

(* claim_ords_batch: ordinary delivery takes over a punch whose approval   *)
(* may have posted only under the posted CNIC.                             *)
LEMMA OrdinaryStarts ==
  ASSUME Typed, ItemsInv, ItemsKept, Starts,
         NEW v \in tasks', v.lane = "ordinary", Decided', Approval'.posted
  PROVE  Approval'.cnic = saved'
<1>1. /\ decision' = decision /\ saved' = saved /\ tasks = {}
  BY DEF Starts, claim_ords_batch
<1>2. Decided /\ decision.job \in Jobs
  BY <1>1, DecidedJob DEF Decided
<1>3. ~ByApproval
  <2>. SUFFICES ASSUME ByApproval PROVE FALSE
    OBVIOUS
  <2>1. tasks' = tasks \/ Start("forced", Approval.cnic)
    BY DEF Starts, claim_ords_batch, ClaimApproved, HoldAs
  <2>. QED
    BY <1>1, <2>1 DEF Start
<1>4. automatic_takeover = "TAKEOVER"
  BY <1>2, <1>3 DEF ByApproval
<1>5. ~(Approval.posted /\ Approval.cnic # saved)
  BY <1>4, SMTT(60) DEF automatic_takeover
<1>6. items' = items
  BY <1>3, Zenon DEF Starts, claim_ords_batch, ClaimOrdinary, Start
<1>. QED
  BY <1>1, <1>5, <1>6 DEF Approval

(* Unless a running claim was taken for stale, the punch is confirmed only *)
(* under the CNIC of the approval that reached Oracle.                     *)
LEMMA CertifiedKept ==
  ASSUME Typed, ItemsInv, TasksInv, OracleInv, SoleInv, ~overtaken, [Next]_vars,
         confirmed', sender' = "forced"
  PROVE  certified' = oracle'
<1>1. confirmed /\ sender = "forced" => certified = oracle
  BY DEF SoleInv
<1>2. CASE UNCHANGED <<confirmed, oracle, sender, certified>>
  BY <1>1, <1>2
<1>3. ASSUME NEW t \in tasks, PersistForced(t) PROVE certified' = oracle'
  <2>1. oracle' = oracle /\ sender' = sender
    BY <1>3 DEF PersistForced
  <2>2. CASE certified' = certified /\ confirmed' = confirmed
    BY <1>1, <2>1, <2>2
  <2>3. CASE ~(certified' = certified /\ confirmed' = confirmed)
    <3>1. t.class = "MATCH" /\ certified' = t.cnic
      BY <1>3, <2>3, Zenon DEF PersistForced, rowVars
    <3>. QED
      BY <2>1, <3>1 DEF TasksInv, TaskInv
  <2>. QED
    BY <2>2, <2>3, Zenon
<1>4. ASSUME NEW t \in tasks, ApplyOrdinary(t) PROVE certified' = oracle'
  <2>1. oracle' = oracle /\ sender' = sender
    BY <1>4 DEF ApplyOrdinary
  <2>2. CASE certified' = certified /\ confirmed' = confirmed
    BY <1>1, <2>1, <2>2
  <2>3. CASE ~(certified' = certified /\ confirmed' = confirmed)
    <3>1. certified' = saved /\ t.lane = "ordinary"
      BY <1>4, <2>3, Zenon DEF ApplyOrdinary, rowVars
    <3>2. PICK j \in Jobs : items[j].posted /\ items[j].cnic = oracle
      BY <2>1 DEF OracleInv, PostedCnic
    <3>3. Decided /\ Approval.posted /\ Approval.cnic = oracle
      BY <3>2, DirectAssumption DEF ItemsInv, Decided, Approval
    <3>. QED
      BY <2>1, <3>1, <3>3 DEF SoleInv
  <2>. QED
    BY <2>2, <2>3, Zenon
<1>5. ASSUME NEW w \in wire, OracleAnswers(w) PROVE certified' = oracle'
  <2>1. confirmed' = confirmed /\ certified' = certified
    BY <1>5, Zenon DEF OracleAnswers, rowVars
  <2>2. oracle # 0
    BY <2>1 DEF OracleInv
  <2>3. oracle' = oracle /\ sender' = sender
    BY <1>5, <2>2 DEF OracleAnswers
  <2>. QED
    BY <1>1, <2>1, <2>3
<1>6. ASSUME NEW j \in Jobs, create(j) \/ advance_once(j)
      PROVE  UNCHANGED <<confirmed, oracle, sender, certified>>
  BY <1>6, Zenon DEF create, advance_once, _queue, _observe, oracleVars, rowVars
<1>7. CASE claim_ords_batch
  BY <1>2, <1>7, Zenon DEF claim_ords_batch, ClaimApproved, ClaimOrdinary, Start, HoldAs, oracleVars
<1>8. CASE AutoRelease \/ RosterChanges \/ RecoverStale \/ OtherLaneFails \/ Crash
  BY <1>2, <1>8, Zenon DEF AutoRelease, RosterChanges, RecoverStale, OtherLaneFails, Crash,
                    oracleVars, rowVars
<1>9. ASSUME NEW t \in tasks,
             \/ Check(t) \/ Authorize(t) \/ reserve_direct_post(t) \/ Post(t)
             \/ ReplyLost(t) \/ Recheck(t)
      PROVE  UNCHANGED <<confirmed, oracle, sender, certified>>
  BY <1>9, Zenon DEF Check, Authorize, reserve_direct_post, Post, ReplyLost, Recheck,
              oracleVars, rowVars
<1>10. CASE UNCHANGED vars
  BY <1>2, <1>10, Zenon DEF vars, oracleVars, rowVars
<1>. QED
  BY <1>2, <1>3, <1>4, <1>5, <1>6, <1>7, <1>8, <1>9, <1>10, Zenon DEF Next, Worker, TaskStep

(* One claim runs at a time until a running one is taken for stale.        *)
LEMMA SoleInvKept ==
  ASSUME Typed, ItemsInv, TasksInv, OracleInv, SoleInv, [Next]_vars
  PROVE  SoleInv'
<1>. SUFFICES ASSUME ~overtaken'
              PROVE  /\ \A t, u \in tasks' : t = u
                     /\ tasks' # {} => status' = "IN_FLIGHT"
                     /\ \A t \in tasks' : t.lane = "ordinary" /\ Decided' /\ Approval'.posted
                                          => Approval'.cnic = saved'
                     /\ confirmed' /\ sender' = "forced" => certified' = oracle'
  BY DEF SoleInv
<1>1. ~overtaken /\ (tasks' = {} \/ Starts \/ Continues)
  BY SoleTasks
<1>2. ItemsKept
  BY ItemsSteps
<1>3. /\ \A t, u \in tasks' : t = u
      /\ tasks' # {} => status' = "IN_FLIGHT"
  BY <1>1 DEF Starts, Continues, SoleInv
<1>4. \A t \in tasks' : t.lane = "ordinary" /\ Decided' /\ Approval'.posted
                        => Approval'.cnic = saved'
  BY <1>1, <1>2, OrdinaryKept, OrdinaryStarts
<1>5. confirmed' /\ sender' = "forced" => certified' = oracle'
  BY <1>1, CertifiedKept
<1>. QED
  BY <1>3, <1>4, <1>5

-----------------------------------------------------------------------------
(* DirectInv is inductive and implies ApprovalsConsistent.                 *)
LEMMA DirectNext == DirectInv /\ [Next]_vars => DirectInv'
  BY TypesKept, ItemsInvKept, TasksInvKept, OracleInvKept, SoleInvKept DEF DirectInv

(* At most one approved CNIC: all of them belong to the decided approval.  *)
LEMMA DirectConsistent == DirectInv => ApprovalsConsistent
<1>. SUFFICES ASSUME DirectInv PROVE ApprovalsConsistent
  OBVIOUS
<1>. USE DEF DirectInv
<1>1. TypeOK
  BY DEF Typed, TypeOK, Person, RunStates, Items
<1>2. ConfirmedAsApproved /\ NoForeignConfirmation
  BY DEF OracleInv, SoleInv, ConfirmedAsApproved, NoForeignConfirmation
<1>3. IntentBeforePost
  BY DEF OracleInv, PostedCnic, IntentBeforePost
<1>4. OneApprovedCnicPosted
  <2>1. \A c, d \in approvedPosts : c = d
    BY DEF OracleInv, PostedCnic, ItemsInv
  <2>2. CASE approvedPosts = {}
    BY <2>2, FS_EmptySet DEF OneApprovedCnicPosted
  <2>3. ASSUME NEW c \in approvedPosts PROVE OneApprovedCnicPosted
    <3>1. approvedPosts = {c}
      BY <2>1
    <3>. QED
      BY <3>1, FS_Singleton DEF OneApprovedCnicPosted
  <2>. QED
    BY <2>2, <2>3
<1>. QED
  BY <1>1, <1>2, <1>3, <1>4 DEF ApprovalsConsistent

(* attendance_direct_ords.py, attendance_force_delivery.py: approvals are  *)
(* what was sent.  For any number of runs, CNICs and failures an item is   *)
(* CONFIRMED only for the approved CNIC, at most one approved CNIC is ever *)
(* posted, no POST precedes its saved intent, and, unless a running claim  *)
(* was taken for stale, a punch whose copy in Oracle came from an approval *)
(* is never confirmed as another person's.  A copy that the ordinary lane  *)
(* sent is not the subject of the last part.                               *)
THEOREM ApprovalsConsistentInvariant == Spec => []ApprovalsConsistent
<1>1. Spec => []DirectInv
  BY DirectInit, DirectNext, PTL DEF Spec
<1>. QED
  BY <1>1, DirectConsistent, PTL

=============================================================================
