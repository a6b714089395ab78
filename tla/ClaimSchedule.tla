--------------------------- MODULE ClaimSchedule ---------------------------
(***************************************************************************)
(* Which outbox rows claim_ords_batch (worker.py) takes, and when it may   *)
(* run.  Live rows wait in id order in the priority queue, FULL_HISTORY    *)
(* rows and forced releases in one queue per connector.  A batch reads a   *)
(* window of each, serves one background row after at most four priority   *)
(* rows, rotates over the connectors, and claims a limited number of       *)
(* forced rows.  The schedule row (priority_served, last_connector_id)     *)
(* survives from batch to batch.  After a transport failure the circuit    *)
(* pauses all batches for a growing, bounded time.                         *)
(*                                                                         *)
(* A row is its kind: plain, forced, or invalid, which a gate removes      *)
(* without a claim.                                                        *)
(***************************************************************************)
EXTENDS Integers, Sequences, SequencesExt

CONSTANTS Connectors,   \* connector ids, a set of positive integers
          Limit,        \* rows of a batch
          ForcedCaps,   \* values ORDS_FORCED_BATCH_SIZE may have; 0 stops forced rows
          Window,       \* priority rows a batch reads: max(100, 4 * Limit)
          HistoryWindow,\* background rows a batch reads: max(100, Limit)
          MaxQueue,     \* bound on the rows of one queue
          MaxOutages    \* bound on the transport failures of a behaviour

ASSUME ScheduleAssumption ==
    /\ Connectors \subseteq Nat \ {0}
    /\ Limit \in Nat \ {0} /\ ForcedCaps \subseteq Nat /\ ForcedCaps # {}
    /\ Window >= Limit /\ HistoryWindow >= Limit
    /\ MaxQueue \in Nat /\ MaxOutages \in Nat

VARIABLES priority,    \* eligible priority rows, in id order
          history,     \* eligible FULL_HISTORY rows of each connector
          served,      \* schedule.priority_served
          last,        \* schedule.last_connector_id
          batch,       \* the open claim transaction
          failures,    \* _ords_circuit_failures
          pause,       \* units of 15 s until _ords_circuit_open_until
          outages,     \* transport failures left
          streak       \* priority rows served in a row while a background
                       \* row was waiting (history)

vars == <<priority, history, served, last, batch, failures, pause, outages,
          streak>>

Kinds == {"plain", "forced", "invalid"}
NoBatch == [open |-> FALSE, front |-> <<>>, back |-> <<>>, over |-> <<>>,
            claims |-> 0, forced |-> 0, cap |-> 0]

Init ==
    /\ priority = <<>> /\ history = [c \in Connectors |-> <<>>]
    /\ served = 0 /\ last = 0 /\ batch = NoBatch
    /\ failures = 0 /\ pause = 0 /\ outages = MaxOutages /\ streak = 0

-----------------------------------------------------------------------------
(* Rows become eligible between batches *)

Arrive(kind) ==
    /\ ~batch.open /\ Len(priority) < MaxQueue /\ kind # "forced"
    /\ priority' = Append(priority, kind)
    /\ UNCHANGED <<history, served, last, batch, failures, pause, outages, streak>>

(* An approved old punch keeps its small id and stands before the others.  *)
ArriveHistory(c, kind) ==
    /\ ~batch.open /\ Len(history[c]) < MaxQueue
    /\ history' = [history EXCEPT ![c] = IF kind = "forced" THEN <<kind>> \o @
                                         ELSE Append(@, kind)]
    /\ UNCHANGED <<priority, served, last, batch, failures, pause, outages, streak>>

-----------------------------------------------------------------------------
(* claim_ords_batch *)

(* mutant: connectors are always ranked by their id *)
RanksById(a, b) ==
    \/ a.position < b.position
    \/ a.position = b.position /\ a.connector < b.connector

(* The ranking of background rows: the oldest row of every connector       *)
(* first, connectors after the last served one before the others.          *)
RanksBefore(a, b) ==
    LET turn(x) == IF x.connector > last THEN 0 ELSE 1 IN
    \/ a.position < b.position
    \/ a.position = b.position /\ turn(a) < turn(b)
    \/ a.position = b.position /\ turn(a) = turn(b) /\ a.connector < b.connector

Ranked ==
    LET rows == UNION {{[connector |-> c, position |-> i, kind |-> history[c][i]] :
                          i \in 1..Len(history[c])} : c \in Connectors}
    IN  SetToSortSeq(rows, RanksBefore)

FirstOf(s, n) == SubSeq(s, 1, IF Len(s) < n THEN Len(s) ELSE n)

(* The circuit is closed and the transaction reads both windows.           *)
OpenBatch ==
    /\ ~batch.open /\ pause = 0
    /\ priority # <<>> \/ \E c \in Connectors : history[c] # <<>>
    /\ \E cap \in ForcedCaps :
         batch' = [NoBatch EXCEPT !.open = TRUE, !.cap = cap,
                   !.front = FirstOf(priority, Window),
                   !.back = FirstOf(Ranked, HistoryWindow)]
    /\ UNCHANGED <<priority, history, served, last, failures, pause, outages,
                   streak>>

Full == batch.claims >= Limit

LoopEnds == Full \/ (batch.front = <<>> /\ batch.back = <<>>)

(* mutant: the schedule prefers priority rows as long as there are any *)
AlwaysPriority == batch.back # <<>> /\ batch.front = <<>>

UseBackground == batch.back # <<>> /\ (served >= 4 \/ batch.front = <<>>)

Capped(kind) == kind = "forced" /\ batch.forced >= batch.cap

(* What the gates and the cap do with the next row: an invalid row leaves, *)
(* a forced row over the cap waits for a later batch, others are claimed.  *)
Taken(kind) ==
    [batch EXCEPT !.claims = IF kind = "invalid" THEN @ ELSE @ + 1,
                  !.forced = IF kind = "forced" THEN @ + 1 ELSE @]

(* mutant: the count of priority rows is not reset *)
PickWithoutReset ==
    LET row == Head(batch.back) IN
    /\ batch.open /\ ~LoopEnds /\ UseBackground
    /\ last' = row.connector /\ streak' = 0
    /\ batch' = IF Capped(row.kind)
                THEN [batch EXCEPT !.back = Tail(@), !.over = Append(@, row)]
                ELSE [Taken(row.kind) EXCEPT !.back = Tail(@)]
    /\ UNCHANGED <<priority, history, served, failures, pause, outages>>

PickBackground ==
    LET row == Head(batch.back) IN
    /\ batch.open /\ ~LoopEnds /\ UseBackground
    /\ served' = 0 /\ last' = row.connector /\ streak' = 0
    /\ batch' = IF Capped(row.kind)
                THEN [batch EXCEPT !.back = Tail(@),
                                   !.over = Append(@, row)]
                ELSE [Taken(row.kind) EXCEPT !.back = Tail(@)]
    /\ UNCHANGED <<priority, history, failures, pause, outages>>

CountPriority == IF served < 4 THEN served + 1 ELSE 4

PickPriority ==
    LET kind == Head(batch.front) IN
    /\ batch.open /\ ~LoopEnds /\ ~UseBackground
    /\ served' = CountPriority
    /\ streak' = IF batch.back = <<>> \/ streak > 4 THEN streak ELSE streak + 1
    /\ batch' = [Taken(kind) EXCEPT !.front = Tail(@)]
    /\ UNCHANGED <<priority, history, last, failures, pause, outages>>

(* Rows of c that stay eligible: those over the cap, those the loop did    *)
(* not reach, and those beyond the window.                                 *)
StaysInHistory(c) ==
    LET mine(row) == row.connector = c
        over == SelectSeq(batch.over, mine)
        unread == SelectSeq(batch.back, mine)
        beyond == SelectSeq(SubSeq(Ranked, 1 + Len(FirstOf(Ranked, HistoryWindow)),
                                   Len(Ranked)), mine)
        rows == over \o unread \o beyond
    IN  [i \in 1..Len(rows) |-> rows[i].kind]

(* 15 s, doubled at each failure, at most 300 s, in units of 15 s          *)
Delay(n) == IF n > 5 THEN 20 ELSE 2 ^ (n - 1)

(* The transaction commits, the claims are delivered and the route result  *)
(* is recorded: a reply closes the circuit, a transport failure opens it   *)
(* and the claimed rows become eligible again later, as arrivals.          *)
Commit ==
    /\ priority' = batch.front \o SubSeq(priority, 1 + Len(FirstOf(priority, Window)), Len(priority))
    /\ history' = [c \in Connectors |-> StaysInHistory(c)]
    /\ batch' = NoBatch
    /\ UNCHANGED <<served, streak>>

CloseBatch ==
    /\ batch.open /\ LoopEnds
    /\ Commit
    /\ UNCHANGED last
    /\ \/ /\ failures' = 0 /\ pause' = 0 /\ UNCHANGED outages
       \/ /\ outages > 0 /\ outages' = outages - 1 /\ batch.claims > 0
          /\ failures' = failures + 1
          /\ pause' = Delay(failures')

Tick == /\ pause > 0 /\ pause' = pause - 1
        /\ UNCHANGED <<priority, history, served, last, batch, failures, outages,
                       streak>>

Next ==
    \/ \E k \in Kinds : Arrive(k)
    \/ \E c \in Connectors : \E k \in Kinds : ArriveHistory(c, k)
    \/ OpenBatch \/ PickBackground \/ PickPriority \/ CloseBatch \/ Tick

Spec == Init /\ [][Next]_vars

(* The delivery loop runs every second; nothing is assumed of arrivals.    *)
FairSpec == Spec /\ WF_vars(OpenBatch \/ PickBackground \/ PickPriority
                            \/ CloseBatch \/ Tick)
                 /\ SF_vars(OpenBatch)

-----------------------------------------------------------------------------
TypeOK ==
    /\ priority \in Seq(Kinds) /\ history \in [Connectors -> Seq(Kinds)]
    /\ served \in 0..4 /\ last \in Connectors \cup {0}
    /\ batch.claims \in 0..Limit /\ batch.forced \in 0..Limit
    /\ failures \in 0..MaxOutages /\ pause \in 0..20 /\ outages \in 0..MaxOutages

(* priority_served: while a background row waits, at most four priority    *)
(* rows are served before it, counted across batches.                      *)
BackgroundShare == streak <= 4

(* forced_limit: a batch never claims more forced rows than its cap, over  *)
(* both queues together.                                                   *)
ForcedWithinCap == batch.forced <= batch.cap

(* last_connector_id: whatever else arrives, each connector's history has  *)
(* its turn again and again as long as it has rows.  A row has its turn    *)
(* when the loop takes it: a forced row over the cap is put back.          *)
HistoryServed ==
    \A c \in Connectors :
        []<>(history[c] = <<>>) \/ []<><<PickBackground /\ last' = c>>_vars

LiveJudged == Len(FirstOf(priority, Window)) - Len(batch.front)
BackgroundJudged == Len(FirstOf(Ranked, HistoryWindow)) - Len(batch.back)

(* priority_served, forced_limit: live punches are never queued behind a   *)
(* long run of forced or history rows.  While a batch still has live rows, *)
(* it has taken at most one background row, claimed or put back, and one   *)
(* more for every four live rows; and it leaves live rows only when it is  *)
(* full.                                                                   *)
LiveNeverBehindForced ==
    [][batch.open /\ batch.front # <<>> =>
         /\ 4 * (BackgroundJudged - 1) <= LiveJudged
         /\ ~batch'.open => Full]_vars

(* A batch keeps its shares: types, at most four priority rows before a    *)
(* waiting background row, and no more forced rows than the cap.           *)
SharesKept == TypeOK /\ BackgroundShare /\ ForcedWithinCap
=============================================================================
