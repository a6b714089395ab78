------------------------------- MODULE AckWait -------------------------------
(***************************************************************************)
(* The acknowledged send of the ADD connector (add_connector.c).  Tasks    *)
(* share one acknowledgement slot: a mutex admits one waiting sender, the  *)
(* WebSocket task matches an answer with the awaited message id, stores    *)
(* the result and gives a binary semaphore, and a lost transport fails the *)
(* waiter.  A disconnect gives the semaphore after it has released the     *)
(* lock of the slot, so its wake may reach a later sender than the one it  *)
(* was meant for; and the source-tail sender fetches its parsed answer     *)
(* after it has released the mutex.                                        *)
(*                                                                         *)
(* The slot's lock s_lock is held for a few instructions at a time and     *)
(* each such section is one step; a 100 ms attempt to take it may time     *)
(* out, which is an alternative of its own.  s_send_lock only serialises   *)
(* the socket.  What an answer must contain (custody receipt, evidence     *)
(* identity, source epoch) is the nondeterministic outcome of a check.     *)
(***************************************************************************)
EXTENDS Integers, FiniteSets

CONSTANTS
    Senders,      \* tasks that send and wait for the answer
    Background,   \* the outbox task
    Tail,         \* the task that sends source_tail_chunk
    None,         \* no task
    MaxMessages,  \* bound: messages sent in a behaviour
    MaxWakes      \* bound: disconnect handlers about to give the semaphore

ASSUME AckAssumption ==
    /\ Background \in Senders /\ Tail \in Senders /\ Background # Tail
    /\ None \notin Senders
    /\ IsFiniteSet(Senders)
    /\ MaxMessages \in Nat /\ MaxWakes \in Nat

VARIABLES
    pc,         \* step each sender is at
    msg,        \* message_id: the message each sender sent last, 0 for ""
    mutex,      \* holder of s_ack_wait_lock
    bg,         \* s_background_ack_waiting: "no", "fresh" or, after 90 s, "aged"
    sem,        \* s_ack_sem
    waiting,    \* s_waiting_ack, 0 for ""
    matched,    \* s_ack_matched
    tail,       \* s_source_tail_ack: the message it answers, 0 if not valid
    connected,  \* s_connected
    waking,     \* calls of mark_transport_disconnected between unlock and give
    sequence,   \* s_sequence
    wire,       \* messages sent and not yet processed by ADD
    answers,    \* answers of ADD on the way
    committed,  \* history: messages ADD has committed
    confirmed,  \* history: messages whose send returned true
    fetched,    \* history: <<message, answer>> the tail sender returned
    bypass      \* history: mutex acquisitions by others while Background's request is fresh

task == <<pc, msg, mutex, bg, bypass>>
slot == <<sem, waiting, matched, tail>>
link == <<connected, waking>>
add == <<wire, answers, committed>>
history == <<confirmed, fetched>>
vars == <<task, slot, link, sequence, add, history>>

Steps == {"idle", "lock", "draw", "arm", "transmit", "failed", "wait", "awake", "clear", "release", "fetch"}
Ids == 1 .. MaxMessages
Messages == [id : Ids, sender : Senders]
Answers == [id : Ids, sender : Senders, type : {"ack", "error"}]

(* One value of each variable's type. *)
TypeOK ==
    /\ pc \in [Senders -> Steps] /\ msg \in [Senders -> 0 .. MaxMessages]
    /\ mutex \in Senders \cup {None} /\ bg \in {"no", "fresh", "aged"} /\ bypass \in Nat
    /\ sem \in BOOLEAN /\ waiting \in 0 .. MaxMessages
    /\ matched \in BOOLEAN /\ tail \in 0 .. MaxMessages
    /\ connected \in BOOLEAN /\ waking \in Nat
    /\ sequence \in 0 .. MaxMessages
    /\ wire \subseteq Messages /\ answers \subseteq Answers /\ committed \subseteq Ids
    /\ confirmed \subseteq Ids /\ fetched \subseteq Ids \X Ids

Init ==
    /\ pc = [s \in Senders |-> "idle"] /\ msg = [s \in Senders |-> 0]
    /\ mutex = None /\ bg = "no" /\ bypass = 0
    /\ sem = FALSE /\ waiting = 0 /\ matched = FALSE /\ tail = 0
    /\ connected = FALSE /\ waking = 0
    /\ sequence = 0
    /\ wire = {} /\ answers = {} /\ committed = {}
    /\ confirmed = {} /\ fetched = {}

Goto(s, step) == pc' = [pc EXCEPT ![s] = step]

-----------------------------------------------------------------------------
(* send_payload_and_wait_for_ack, in the order of its steps.               *)

(* A bug: a direct sender does not give way. *)
MustYieldNever(s) == FALSE

(* A direct sender gives way while the background sender asks for service. *)
MustYield(s) == s # Background /\ bg = "fresh"

(* The tail sender first invalidates the previous parsed answer; its       *)
(* attempt to lock the slot for that may time out.                         *)
enter(s) ==
    /\ pc[s] = "idle"
    /\ ~MustYield(s)
    /\ Goto(s, "lock")
    /\ bg' = IF s = Background THEN "fresh" ELSE bg
    /\ bypass' = IF s = Background THEN 0 ELSE bypass
    /\ tail' \in IF s = Tail THEN {0, tail} ELSE {tail}
    /\ UNCHANGED <<msg, mutex, sem, waiting, matched, link, sequence, add, history>>

(* The history counter stops at a value BypassBounded excludes. *)
Saturated(n) == IF n < Cardinality(Senders) THEN n ELSE Cardinality(Senders)

acquire(s) ==
    /\ pc[s] = "lock" /\ mutex = None
    /\ mutex' = s
    /\ msg' = [msg EXCEPT ![s] = 0]
    /\ Goto(s, "draw")
    /\ bypass' = IF s # Background /\ bg = "fresh" THEN Saturated(bypass + 1) ELSE 0
    /\ UNCHANGED <<bg, slot, link, sequence, add, history>>

(* All but the tail sender bound the time they wait for the mutex. *)
lock_timeout(s) ==
    /\ pc[s] = "lock" /\ mutex # None /\ s # Tail
    /\ Goto(s, "idle")
    /\ bg' = IF s = Background THEN "no" ELSE bg
    /\ bypass' = IF s = Background THEN 0 ELSE bypass
    /\ UNCHANGED <<msg, mutex, slot, link, sequence, add, history>>

(* send_payload: number the message and drain the semaphore. *)
draw(s) ==
    /\ pc[s] = "draw"
    /\ connected /\ sequence < MaxMessages
    /\ sequence' = sequence + 1
    /\ msg' = [msg EXCEPT ![s] = sequence + 1]
    /\ sem' = FALSE
    /\ Goto(s, "arm")
    /\ UNCHANGED <<mutex, bg, bypass, waiting, matched, tail, link, add, history>>

(* Not connected, a lock timed out, or no memory for the envelope. *)
draw_failed(s) ==
    /\ pc[s] = "draw"
    /\ Goto(s, "clear")
    /\ UNCHANGED <<msg, mutex, bg, bypass, slot, link, sequence, add, history>>

(* A bug: arming forgets to reset the result. *)
armKeepsResult(s) ==
    /\ pc[s] = "arm"
    /\ waiting' = msg[s]
    /\ Goto(s, "transmit")
    /\ UNCHANGED <<msg, mutex, bg, bypass, sem, matched, tail, link, sequence, add, history>>

(* Then name the awaited message and forget the previous result. *)
arm(s) ==
    /\ pc[s] = "arm"
    /\ waiting' = msg[s]
    /\ matched' = FALSE
    /\ Goto(s, "transmit")
    /\ UNCHANGED <<msg, mutex, bg, bypass, sem, tail, link, sequence, add, history>>

arm_failed(s) ==
    /\ pc[s] = "arm"
    /\ Goto(s, "clear")
    /\ UNCHANGED <<msg, mutex, bg, bypass, slot, link, sequence, add, history>>

(* send_root_locked. *)
transmit(s) ==
    /\ pc[s] = "transmit" /\ connected
    /\ wire' = wire \cup {[id |-> msg[s], sender |-> s]}
    /\ Goto(s, "wait")
    /\ UNCHANGED <<msg, mutex, bg, bypass, slot, link, sequence, answers, committed, history>>

(* The slot's part of mark_transport_disconnected, for any caller. *)
Disconnect ==
    /\ connected' = FALSE
    /\ waiting' = 0
    /\ matched' = FALSE

(* A failed write marks the transport disconnected and wakes this sender's *)
(* own semaphore, which it will not take.                                  *)
transmit_failed(s) ==
    /\ pc[s] = "transmit"
    /\ \/ Disconnect /\ Goto(s, "failed")
       \/ Goto(s, "clear") /\ UNCHANGED <<connected, waiting, matched>>
    /\ UNCHANGED <<msg, mutex, bg, bypass, sem, tail, waking, sequence, add, history>>

give_failed(s) ==
    /\ pc[s] = "failed"
    /\ sem' = TRUE
    /\ Goto(s, "clear")
    /\ UNCHANGED <<msg, mutex, bg, bypass, waiting, matched, tail, link, sequence, add, history>>

take(s) ==
    /\ pc[s] = "wait" /\ sem
    /\ sem' = FALSE
    /\ Goto(s, "awake")
    /\ UNCHANGED <<msg, mutex, bg, bypass, waiting, matched, tail, link, sequence, add, history>>

take_timeout(s) ==
    /\ pc[s] = "wait" /\ ~sem
    /\ Goto(s, "clear")
    /\ UNCHANGED <<msg, mutex, bg, bypass, slot, link, sequence, add, history>>

(* Read the result and reset it.  A match may still be refused for its     *)
(* content, and the lock may time out and leave the result unread.          *)
read_result(s) ==
    /\ pc[s] = "awake"
    /\ \/ /\ matched
          /\ confirmed' = confirmed \cup {msg[s]}
          /\ matched' = FALSE
          /\ Goto(s, "release")
       \/ /\ matched' \in {FALSE, matched}
          /\ Goto(s, "clear")
          /\ UNCHANGED confirmed
    /\ UNCHANGED <<msg, mutex, bg, bypass, sem, waiting, tail, link, sequence, add, fetched>>

(* Without an acknowledgement, stop waiting for the message; this lock may *)
(* time out too and leave the slot armed.                                  *)
clear(s) ==
    /\ pc[s] = "clear"
    /\ waiting' \in {waiting, IF waiting = msg[s] THEN 0 ELSE waiting}
    /\ Goto(s, "release")
    /\ UNCHANGED <<msg, mutex, bg, bypass, sem, matched, tail, link, sequence, add, history>>

release(s) ==
    /\ pc[s] = "release"
    /\ mutex' = None
    /\ bg' = IF s = Background THEN "no" ELSE bg
    /\ Goto(s, IF s = Tail /\ msg[s] \in confirmed THEN "fetch" ELSE "idle")
    /\ UNCHANGED <<msg, bypass, slot, link, sequence, add, history>>

(* add_connector_send_source_tail_acknowledged copies the parsed answer    *)
(* after the mutex is released; it returns true only if that is valid.     *)
fetch(s) ==
    /\ pc[s] = "fetch"
    /\ \/ tail # 0 /\ fetched' = fetched \cup {<<msg[s], tail>>}
       \/ UNCHANGED fetched
    /\ Goto(s, "idle")
    /\ UNCHANGED <<msg, mutex, bg, bypass, slot, link, sequence, add, confirmed>>

(* Ninety seconds pass with the background request outstanding. *)
age ==
    /\ bg = "fresh"
    /\ bg' = "aged"
    /\ bypass' = 0
    /\ UNCHANGED <<pc, msg, mutex, slot, link, sequence, add, history>>

-----------------------------------------------------------------------------
(* The WebSocket task, and ADD.                                            *)

websocket_connected ==
    /\ ~connected
    /\ connected' = TRUE
    /\ UNCHANGED <<task, slot, waking, sequence, add, history>>

(* A bug: a disconnect fails the waiter without waking it. *)
WakesNever == FALSE

(* Whether mark_transport_disconnected has anyone to wake. *)
Wakes == connected \/ waiting # 0

mark_transport_disconnected ==
    /\ Disconnect
    /\ connected \/ waiting # 0 \/ matched
    /\ IF Wakes THEN waking < MaxWakes /\ waking' = waking + 1 ELSE UNCHANGED waking
    /\ UNCHANGED <<task, sem, tail, sequence, add, history>>

give_disconnected ==
    /\ waking > 0
    /\ waking' = waking - 1
    /\ sem' = TRUE
    /\ UNCHANGED <<task, waiting, matched, tail, connected, sequence, add, history>>

Awaited(a) == waiting = a.id

(* A bug: an answer that does not parse leaves the previous one in place. *)
ParsedTailKeeps(a) == IF a.sender = Tail THEN {a.id, tail} ELSE {0}

(* The slot's parsed tail answer after an answer that is awaited: it is    *)
(* cleared, then filled if this is a tail answer that parses.              *)
ParsedTail(a) == IF a.sender = Tail THEN {a.id, 0} ELSE {0}

(* An acknowledgement: if it is awaited, take it, check it, wake the       *)
(* sender.  The lock may time out, and the answer is then lost.            *)
handle_ack(a) ==
    /\ a \in answers /\ a.type = "ack"
    /\ answers' = answers \ {a}
    /\ \/ /\ Awaited(a)
          /\ tail' \in ParsedTail(a)
          /\ waiting' = 0
          /\ matched' \in BOOLEAN
          /\ sem' = TRUE
       \/ UNCHANGED slot
    /\ UNCHANGED <<task, link, sequence, wire, committed, history>>

handle_error(a) ==
    /\ a \in answers /\ a.type = "error"
    /\ answers' = answers \ {a}
    /\ \/ /\ Awaited(a)
          /\ waiting' = 0
          /\ matched' = FALSE
          /\ sem' = TRUE
       \/ UNCHANGED slot
    /\ UNCHANGED <<task, tail, link, sequence, wire, committed, history>>

(* ADD processes a message: commits and acknowledges it, or rejects it.  An *)
(* answer to a closed socket is an answer that is handled while nobody      *)
(* awaits it.                                                               *)
add_answers(m) ==
    /\ m \in wire
    /\ wire' = wire \ {m}
    /\ \E type \in {"ack", "error"} :
          /\ answers' = answers \cup {[id |-> m.id, sender |-> m.sender, type |-> type]}
          /\ committed' = IF type = "ack" THEN committed \cup {m.id} ELSE committed
    /\ UNCHANGED <<task, slot, link, sequence, history>>

-----------------------------------------------------------------------------
Progress(s) ==
    \/ acquire(s) \/ draw(s) \/ draw_failed(s) \/ arm(s) \/ arm_failed(s)
    \/ transmit(s) \/ transmit_failed(s) \/ give_failed(s)
    \/ take(s) \/ take_timeout(s) \/ read_result(s)
    \/ clear(s) \/ release(s) \/ fetch(s)

Next ==
    \/ \E s \in Senders : enter(s) \/ lock_timeout(s) \/ Progress(s)
    \/ age
    \/ websocket_connected \/ mark_transport_disconnected \/ give_disconnected
    \/ \E a \in answers : handle_ack(a) \/ handle_error(a)
    \/ \E m \in wire : add_answers(m)

Spec == Init /\ [][Next]_vars

(* Every task is scheduled and all its waits but the one for the mutex are *)
(* bounded; the mutex is only promised to a task that keeps finding it free. *)
FairSpec == Spec /\ \A s \in Senders : WF_vars(Progress(s))

-----------------------------------------------------------------------------
(* A send returns true only for a message ADD has committed, whatever      *)
(* wakes, timeouts, reconnects and late answers of other messages          *)
(* interleave (send_payload_and_wait_for_ack).                             *)
ConfirmedCommitted == confirmed \subseteq committed

(* The tail sender reads the parsed answer after it has released the       *)
(* mutex; another sender's answer may have cleared it meanwhile, but it    *)
(* never gets the answer of a different message.                           *)
FetchedOwn == \A f \in fetched : f[1] = f[2]

(* A waiter whose message is no longer awaited (answered, rejected, or     *)
(* failed by a disconnect) has a wake given or about to be given: it does  *)
(* not sleep until its timeout.                                            *)
WaiterWoken == \A s \in Senders : pc[s] = "wait" /\ waiting # msg[s] => sem \/ waking > 0

(* While the background sender's request is fresh, the mutex is taken      *)
(* before it at most once by each sender that had already passed the check. *)
BypassBounded == bg = "fresh" => bypass < Cardinality(Senders)

(* A fresh background request is served, gives up, or ages: direct senders *)
(* that keep retrying cannot keep it from the mutex.                       *)
BackgroundServed == bg = "fresh" ~> mutex = Background \/ bg # "fresh"

(* The senders' shared state agrees: types, a tailer keeps only answers to *)
(* its own request, and the fresh background request is bypassed a bounded *)
(* number of times.                                                        *)
WaitConsistent == TypeOK /\ FetchedOwn /\ BypassBounded
==============================================================================
