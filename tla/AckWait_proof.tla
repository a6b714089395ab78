---------------------------- MODULE AckWait_proof ----------------------------
(***************************************************************************)
(* For any set of senders and any number of messages: a send confirms only *)
(* what ADD committed, a waiter that is no longer awaited is woken, the    *)
(* tail sender fetches the answer to its own message, and a fresh          *)
(* background request is bypassed at most once by each other sender.       *)
(* The invariant ties the shared slot to the holder of the mutex: while a  *)
(* sender is between arming the slot and reading its result, the slot      *)
(* awaits that sender's message or nothing.                                *)
(***************************************************************************)
EXTENDS AckWait, FiniteSetTheorems, TLAPS

Holding == {"draw", "arm", "transmit", "failed", "wait", "awake", "clear", "release"}
Armed == {"transmit", "wait", "awake"}

SlotTypes ==
    /\ pc \in [Senders -> Steps]
    /\ msg \in [Senders -> Nat]
    /\ sequence \in Nat /\ waking \in Nat

SlotInv ==
    /\ SlotTypes
    /\ \A s \in Senders : pc[s] \in Holding => mutex = s
    /\ \A m \in wire \cup answers : m.id # 0
    /\ \A a \in answers : a.type = "ack" => a.id \in committed
    /\ \A s \in Senders : pc[s] \in Armed =>
          /\ waiting \in {0, msg[s]}
          /\ matched => msg[s] \in committed
    /\ \A s \in Senders : pc[s] \in {"arm"} \cup Armed => msg[s] # 0
    /\ \A s \in Senders : pc[s] \in {"transmit", "wait"} /\ waiting # msg[s] => sem \/ waking > 0
    /\ confirmed \subseteq committed

LEMMA InitSlot == Init => SlotInv
BY DEF Init, SlotInv, SlotTypes, Steps, Holding, Armed

(* A step of a sender leaves the other senders' steps and messages alone,  *)
(* and no other sender holds the mutex while it does.                      *)
LEMMA SenderSlot ==
    ASSUME SlotInv, NEW s \in Senders, enter(s) \/ lock_timeout(s) \/ Progress(s)
    PROVE  SlotInv'
<1> USE AckAssumption DEF SlotInv, SlotTypes, Steps, Holding, Armed, Goto, slot, link, add, history
<1>1. CASE enter(s)
  BY <1>1 DEF enter
<1>2. CASE lock_timeout(s)
  BY <1>2 DEF lock_timeout
<1>3. CASE acquire(s)
  BY <1>3 DEF acquire
<1>4. CASE draw(s)
  BY <1>4 DEF draw
<1>5. CASE draw_failed(s)
  BY <1>5 DEF draw_failed
<1>6. CASE arm(s)
  BY <1>6 DEF arm
<1>7. CASE arm_failed(s)
  BY <1>7 DEF arm_failed
<1>8. CASE transmit(s)
  BY <1>8 DEF transmit
<1>9. CASE transmit_failed(s)
  BY <1>9 DEF transmit_failed, Disconnect
<1>10. CASE give_failed(s)
  BY <1>10 DEF give_failed
<1>11. CASE take(s)
  BY <1>11 DEF take
<1>12. CASE take_timeout(s)
  BY <1>12 DEF take_timeout
<1>13. CASE read_result(s)
  BY <1>13, Zenon DEF read_result
<1>14. CASE clear(s)
  BY <1>14 DEF clear
<1>15. CASE release(s)
  BY <1>15 DEF release
<1>16. CASE fetch(s)
  BY <1>16 DEF fetch
<1> QED
  BY <1>1, <1>2, <1>3, <1>4, <1>5, <1>6, <1>7, <1>8, <1>9, <1>10, <1>11, <1>12,
     <1>13, <1>14, <1>15, <1>16 DEF Progress

LEMMA EnvironmentSlot ==
    ASSUME SlotInv,
           \/ age \/ websocket_connected \/ mark_transport_disconnected \/ give_disconnected
           \/ \E a \in answers : handle_ack(a) \/ handle_error(a)
           \/ \E m \in wire : add_answers(m)
    PROVE  SlotInv'
<1> USE DEF SlotInv, SlotTypes, Steps, Holding, Armed, task, slot, link, add, history
<1>1. CASE age
  BY <1>1 DEF age
<1>2. CASE websocket_connected
  BY <1>2 DEF websocket_connected
<1>3. CASE mark_transport_disconnected
  BY <1>3 DEF mark_transport_disconnected, Disconnect, Wakes
<1>4. CASE give_disconnected
  BY <1>4 DEF give_disconnected
<1>5. ASSUME NEW a \in answers, handle_ack(a) PROVE SlotInv'
  <2>1. a.id \in committed /\ UNCHANGED <<pc, msg, mutex, waking, sequence, wire, committed, confirmed>>
    BY <1>5 DEF handle_ack
  <2>2. answers' \subseteq answers
    BY <1>5 DEF handle_ack
  <2>3. CASE Awaited(a) /\ waiting' = 0 /\ sem' = TRUE
    <3>1. \A s \in Senders : pc[s] \in Armed => waiting = msg[s] /\ msg[s] = a.id
      BY <2>3 DEF Awaited
    <3> QED
      BY <2>1, <2>2, <2>3, <3>1
  <2>4. CASE UNCHANGED slot
    BY <2>1, <2>2, <2>4
  <2> QED
    BY <1>5, <2>3, <2>4, Zenon DEF handle_ack
<1>6. ASSUME NEW a \in answers, handle_error(a) PROVE SlotInv'
  BY <1>6 DEF handle_error, Awaited
<1>7. ASSUME NEW m \in wire, add_answers(m) PROVE SlotInv'
  BY <1>7 DEF add_answers
<1> QED
  BY <1>1, <1>2, <1>3, <1>4, <1>5, <1>6, <1>7

LEMMA NextSlot == SlotInv /\ [Next]_vars => SlotInv'
<1> SUFFICES ASSUME SlotInv, [Next]_vars PROVE SlotInv'
  OBVIOUS
<1>1. CASE UNCHANGED vars
  BY <1>1 DEF SlotInv, SlotTypes, vars, task, slot, link, add, history
<1>2. CASE Next
  BY <1>2, SenderSlot, EnvironmentSlot DEF Next
<1> QED
  BY <1>1, <1>2

(* A send returns true only for a message ADD has committed, for any       *)
(* senders and any interleaving (send_payload_and_wait_for_ack).           *)
THEOREM ConfirmedCommittedInvariant == Spec => []ConfirmedCommitted
<1>1. SlotInv => ConfirmedCommitted
  BY DEF SlotInv, ConfirmedCommitted
<1> QED
  BY <1>1, InitSlot, NextSlot, PTL DEF Spec

(* No answer, rejection or disconnect takes a waiter's message off the slot *)
(* without a wake given or on its way.                                     *)
THEOREM WaiterWokenInvariant == Spec => []WaiterWoken
<1>1. SlotInv => WaiterWoken
  BY DEF SlotInv, WaiterWoken
<1> QED
  BY <1>1, InitSlot, NextSlot, PTL DEF Spec

-----------------------------------------------------------------------------
(* WaitConsistent.  A message id belongs to one sender, so an answer that  *)
(* arrives after the tail sender's own acknowledgement cannot replace its  *)
(* parsed answer by that of an older tail message.                         *)

Sent == wire \cup answers

IdsOwned ==
    /\ \A m \in Sent : m.id <= sequence
    /\ \A s \in Senders : msg[s] <= sequence
    /\ \A s \in Senders : msg[s] # 0 =>
          /\ \A t \in Senders : msg[t] = msg[s] => t = s
          /\ \A m \in Sent : m.id = msg[s] => m.sender = s
    /\ \A c \in confirmed : c # 0 /\ c <= sequence
    /\ \A s \in Senders : pc[s] = "fetch" => s = Tail /\ msg[s] # 0

Sending == {"draw", "arm", "transmit", "failed", "wait", "awake", "clear"}

(* The tail sender has its acknowledgement, or will find that it has.      *)
TailServed ==
    \/ pc[Tail] = "fetch"
    \/ pc[Tail] = "release" /\ msg[Tail] \in confirmed
    \/ pc[Tail] \in Armed /\ matched

TailOwn ==
    /\ matched => waiting = 0
    /\ pc[Tail] \in Sending => msg[Tail] \notin confirmed
    /\ TailServed => /\ tail \in {0, msg[Tail]}
                     /\ \A m \in Sent : m.id = waiting => m.sender # Tail

Queued == {s \in Senders \ {Background} : pc[s] = "lock"}

(* A sender that bypassed the background request must pass enter again     *)
(* before it can do so a second time.                                      *)
BypassCounted == bg = "fresh" => bypass + Cardinality(Queued) < Cardinality(Senders)

WaitInv == TypeOK /\ SlotInv /\ IdsOwned /\ TailOwn /\ FetchedOwn /\ BypassCounted

LEMMA InitWait == Init => WaitInv
<1> SUFFICES ASSUME Init PROVE WaitInv
  OBVIOUS
<1>1. TypeOK
  <2>1. pc \in [Senders -> Steps] /\ msg \in [Senders -> 0 .. MaxMessages]
    BY AckAssumption DEF Init, Steps
  <2>2. sem \in BOOLEAN /\ matched \in BOOLEAN /\ connected \in BOOLEAN
    BY ZenonT(60) DEF Init
  <2> QED
    BY <2>1, <2>2, AckAssumption DEF Init, TypeOK
<1>2. SlotInv
  BY InitSlot
<1>3. IdsOwned /\ TailOwn /\ FetchedOwn /\ BypassCounted
  BY AckAssumption DEF Init, IdsOwned, Sent, TailOwn, TailServed, Sending, Armed, FetchedOwn, BypassCounted
<1> QED
  BY <1>1, <1>2, <1>3 DEF WaitInv

LEMMA SenderTypes ==
    ASSUME WaitInv, NEW s \in Senders, enter(s) \/ lock_timeout(s) \/ Progress(s)
    PROVE  TypeOK'
<1> USE AckAssumption DEF WaitInv, TypeOK, Steps, Ids, Messages, Answers, Goto, task, slot,
         link, add, history
<1>1. CASE enter(s)
  BY <1>1 DEF enter
<1>2. CASE lock_timeout(s)
  BY <1>2 DEF lock_timeout
<1>3. CASE acquire(s)
  BY <1>3, FS_CardinalityType DEF acquire, Saturated
<1>4. CASE draw(s)
  <2>1. sequence + 1 \in 0 .. MaxMessages
    BY <1>4 DEF draw
  <2>2. sem' \in BOOLEAN /\ matched' \in BOOLEAN /\ connected' \in BOOLEAN
    BY <1>4, Zenon DEF draw
  <2> QED
    BY <1>4, <2>1, <2>2 DEF draw
<1>5. CASE draw_failed(s)
  BY <1>5 DEF draw_failed
<1>6. CASE arm(s)
  BY <1>6, Zenon DEF arm
<1>7. CASE arm_failed(s)
  BY <1>7 DEF arm_failed
<1>8. CASE transmit(s)
  BY <1>8 DEF transmit, SlotInv, Armed
<1>9. CASE transmit_failed(s)
  <2>1. sem' \in BOOLEAN /\ matched' \in BOOLEAN /\ connected' \in BOOLEAN
    BY <1>9, Zenon DEF transmit_failed, Disconnect
  <2> QED
    BY <1>9, <2>1 DEF transmit_failed, Disconnect
<1>10. CASE give_failed(s)
  BY <1>10 DEF give_failed
<1>11. CASE take(s)
  BY <1>11, Zenon DEF take
<1>12. CASE take_timeout(s)
  BY <1>12 DEF take_timeout
<1>13. CASE read_result(s)
  BY <1>13, Zenon DEF read_result, SlotInv, Armed
<1>14. CASE clear(s)
  BY <1>14 DEF clear
<1>15. CASE release(s)
  BY <1>15 DEF release
<1>16. CASE fetch(s)
  BY <1>16 DEF fetch, IdsOwned
<1> QED
  BY <1>1, <1>2, <1>3, <1>4, <1>5, <1>6, <1>7, <1>8, <1>9, <1>10, <1>11, <1>12,
     <1>13, <1>14, <1>15, <1>16 DEF Progress

LEMMA EnvironmentTypes ==
    ASSUME WaitInv,
           \/ age \/ websocket_connected \/ mark_transport_disconnected \/ give_disconnected
           \/ \E a \in answers : handle_ack(a) \/ handle_error(a)
           \/ \E m \in wire : add_answers(m)
    PROVE  TypeOK'
<1> USE AckAssumption DEF WaitInv, TypeOK, Steps, Ids, Messages, Answers, Goto, task, slot,
         link, add, history
<1>1. CASE age
  BY <1>1 DEF age
<1>2. CASE websocket_connected
  BY <1>2 DEF websocket_connected
<1>3. CASE mark_transport_disconnected
  <2>1. sem' \in BOOLEAN /\ matched' \in BOOLEAN /\ connected' \in BOOLEAN
    BY <1>3, Zenon DEF mark_transport_disconnected, Disconnect, Wakes
  <2> QED
    BY <1>3, <2>1 DEF mark_transport_disconnected, Disconnect, Wakes
<1>4. CASE give_disconnected
  BY <1>4 DEF give_disconnected
<1>5. ASSUME NEW a \in answers, handle_ack(a) PROVE TypeOK'
  <2>1. sem' \in BOOLEAN /\ matched' \in BOOLEAN /\ connected' \in BOOLEAN
    BY <1>5, Zenon DEF handle_ack, Awaited, ParsedTail
  <2> QED
    BY <1>5, <2>1 DEF handle_ack, Awaited, ParsedTail
<1>6. ASSUME NEW a \in answers, handle_error(a) PROVE TypeOK'
  <2>1. sem' \in BOOLEAN /\ matched' \in BOOLEAN /\ connected' \in BOOLEAN
    BY <1>6, Zenon DEF handle_error, Awaited
  <2> QED
    BY <1>6, <2>1 DEF handle_error, Awaited
<1>7. ASSUME NEW m \in wire, add_answers(m) PROVE TypeOK'
  <2>1. PICK type \in {"ack", "error"} :
          /\ answers' = answers \cup {[id |-> m.id, sender |-> m.sender, type |-> type]}
          /\ committed' = IF type = "ack" THEN committed \cup {m.id} ELSE committed
    BY <1>7 DEF add_answers
  <2>2. m.id \in Ids /\ m.sender \in Senders
    OBVIOUS
  <2>3. answers' \subseteq Answers /\ committed' \subseteq Ids /\ wire' \subseteq Messages
    <3>1. [id |-> m.id, sender |-> m.sender, type |-> type] \in Answers
      BY <2>2
    <3> QED
      BY <1>7, <2>1, <2>2, <3>1, ZenonT(60) DEF add_answers
  <2> QED
    BY <1>7, <2>3 DEF add_answers
<1> QED
  BY <1>1, <1>2, <1>3, <1>4, <1>5, <1>6, <1>7

LEMMA SenderIds ==
    ASSUME WaitInv, NEW s \in Senders, enter(s) \/ lock_timeout(s) \/ Progress(s)
    PROVE  IdsOwned'
<1> USE AckAssumption DEF WaitInv, TypeOK, SlotInv, Armed, IdsOwned, Sent, Ids, Messages,
         Answers, Goto, task, slot, link, add, history
<1>1. CASE enter(s)
  BY <1>1, SMTT(60) DEF enter
<1>2. CASE lock_timeout(s)
  BY <1>2, Zenon DEF lock_timeout
<1>3. CASE acquire(s)
  BY <1>3, SMTT(60) DEF acquire
<1>4. CASE draw(s)
  BY <1>4, SMTT(60) DEF draw
<1>5. CASE draw_failed(s)
  BY <1>5, ZenonT(60) DEF draw_failed
<1>6. CASE arm(s)
  BY <1>6 DEF arm
<1>7. CASE arm_failed(s)
  BY <1>7 DEF arm_failed
<1>8. CASE transmit(s)
  BY <1>8 DEF transmit
<1>9. CASE transmit_failed(s)
  BY <1>9 DEF transmit_failed, Disconnect
<1>10. CASE give_failed(s)
  BY <1>10 DEF give_failed
<1>11. CASE take(s)
  BY <1>11 DEF take
<1>12. CASE take_timeout(s)
  BY <1>12 DEF take_timeout
<1>13. CASE read_result(s)
  BY <1>13, ZenonT(60) DEF read_result
<1>14. CASE clear(s)
  BY <1>14 DEF clear
<1>15. CASE release(s)
  BY <1>15 DEF release
<1>16. CASE fetch(s)
  BY <1>16 DEF fetch
<1> QED
  BY Zenon, <1>1, <1>2, <1>3, <1>4, <1>5, <1>6, <1>7, <1>8, <1>9, <1>10, <1>11, <1>12,
     <1>13, <1>14, <1>15, <1>16 DEF Progress

LEMMA EnvironmentIds ==
    ASSUME WaitInv,
           \/ age \/ websocket_connected \/ mark_transport_disconnected \/ give_disconnected
           \/ \E a \in answers : handle_ack(a) \/ handle_error(a)
           \/ \E m \in wire : add_answers(m)
    PROVE  IdsOwned'
<1> USE AckAssumption DEF WaitInv, TypeOK, SlotInv, Armed, IdsOwned, Sent, Ids, Messages,
         Answers, Goto, task, slot, link, add, history
<1>1. CASE age
  BY <1>1 DEF age
<1>2. CASE websocket_connected
  BY <1>2, SMTT(60) DEF websocket_connected
<1>3. CASE mark_transport_disconnected
  BY <1>3, SMTT(60) DEF mark_transport_disconnected, Disconnect, Wakes
<1>4. CASE give_disconnected
  BY <1>4, SMTT(60) DEF give_disconnected
<1>5. ASSUME NEW a \in answers, handle_ack(a) PROVE IdsOwned'
  BY <1>5, SMTT(60) DEF handle_ack, Awaited, ParsedTail
<1>6. ASSUME NEW a \in answers, handle_error(a) PROVE IdsOwned'
  BY <1>6, SMTT(60) DEF handle_error, Awaited
<1>7. ASSUME NEW m \in wire, add_answers(m) PROVE IdsOwned'
  BY <1>7, SMTT(60) DEF add_answers
<1> QED
  BY <1>1, <1>2, <1>3, <1>4, <1>5, <1>6, <1>7, ZenonT(60)

LEMMA SenderTail ==
    ASSUME WaitInv, NEW s \in Senders, enter(s) \/ lock_timeout(s) \/ Progress(s)
    PROVE  TailOwn'
<1> USE AckAssumption DEF WaitInv, TypeOK, SlotInv, Armed, Holding, Sending, IdsOwned, TailOwn,
         TailServed, Sent, Goto, task, slot, link, add, history
<1>1. CASE enter(s)
  BY <1>1, ZenonT(60) DEF enter
<1>2. CASE lock_timeout(s)
  BY <1>2 DEF lock_timeout
<1>3. CASE acquire(s)
  BY <1>3, SMTT(60) DEF acquire
<1>4. CASE draw(s)
  BY <1>4, SMTT(60) DEF draw
<1>5. CASE draw_failed(s)
  BY <1>5, SMTT(60) DEF draw_failed
<1>6. CASE arm(s)
  BY <1>6, SMTT(60) DEF arm
<1>7. CASE arm_failed(s)
  BY <1>7, SMTT(60) DEF arm_failed
<1>8. CASE transmit(s)
  BY <1>8, SMTT(60) DEF transmit
<1>9. CASE transmit_failed(s)
  BY <1>9, SMTT(60) DEF transmit_failed, Disconnect
<1>10. CASE give_failed(s)
  BY <1>10, SMTT(60) DEF give_failed
<1>11. CASE take(s)
  BY <1>11, SMTT(60) DEF take
<1>12. CASE take_timeout(s)
  BY <1>12, SMTT(60) DEF take_timeout
<1>13. CASE read_result(s)
  <2>1. matched' => matched
    BY <1>13, ZenonT(60) DEF read_result
  <2>2. CASE matched /\ confirmed' = confirmed \cup {msg[s]} /\ Goto(s, "release")
    BY <1>13, <2>1, <2>2 DEF read_result
  <2>3. CASE Goto(s, "clear") /\ UNCHANGED confirmed
    BY <1>13, <2>1, <2>3, SMTT(60) DEF read_result
  <2> QED
    BY <1>13, <2>2, <2>3, Zenon DEF read_result
<1>14. CASE clear(s)
  BY <1>14, SMTT(60) DEF clear
<1>15. CASE release(s)
  BY <1>15, SMTT(60) DEF release
<1>16. CASE fetch(s)
  BY <1>16, SMTT(60) DEF fetch
<1> QED
  BY ZenonT(60), <1>1, <1>2, <1>3, <1>4, <1>5, <1>6, <1>7, <1>8, <1>9, <1>10, <1>11, <1>12,
     <1>13, <1>14, <1>15, <1>16 DEF Progress

LEMMA EnvironmentTail ==
    ASSUME WaitInv,
           \/ age \/ websocket_connected \/ mark_transport_disconnected \/ give_disconnected
           \/ \E a \in answers : handle_ack(a) \/ handle_error(a)
           \/ \E m \in wire : add_answers(m)
    PROVE  TailOwn'
<1> USE AckAssumption DEF WaitInv, TypeOK, SlotInv, Armed, Holding, Sending, IdsOwned, TailOwn,
         TailServed, Sent, Goto, task, slot, link, add, history
<1>1. CASE age
  BY <1>1, ZenonT(60) DEF age
<1>2. CASE websocket_connected
  BY <1>2, SMTT(60) DEF websocket_connected
<1>3. CASE mark_transport_disconnected
  BY <1>3, SMTT(60) DEF mark_transport_disconnected, Disconnect, Wakes
<1>4. CASE give_disconnected
  BY <1>4, SMTT(60) DEF give_disconnected
<1>5. ASSUME NEW a \in answers, handle_ack(a) PROVE TailOwn'
  BY <1>5, SMTT(60) DEF handle_ack, Awaited, ParsedTail
<1>6. ASSUME NEW a \in answers, handle_error(a) PROVE TailOwn'
  BY <1>6, SMTT(60) DEF handle_error, Awaited
<1>7. ASSUME NEW m \in wire, add_answers(m) PROVE TailOwn'
  BY <1>7 DEF add_answers
<1> QED
  BY <1>1, <1>2, <1>3, <1>4, <1>5, <1>6, <1>7, ZenonT(60)

(* A request that is not fresh any more, or not yet, has nothing to count; *)
(* a fresh one has every other sender behind it that is not queued.        *)
LEMMA QueuedCount ==
    ASSUME NEW P, P = {s \in Senders \ {Background} : pc[s] = "lock"}
    PROVE  /\ IsFiniteSet(P)
           /\ Cardinality(P) \in Nat /\ Cardinality(Senders) \in Nat
           /\ Cardinality(P) < Cardinality(Senders)
<1> DEFINE Others == Senders \ {Background}
<1>1. IsFiniteSet(Senders) /\ Background \in Senders
  BY AckAssumption
<1>2. IsFiniteSet(Others) /\ Cardinality(Others) = Cardinality(Senders) - 1
  BY <1>1, FS_RemoveElement
<1>3. P \in SUBSET Others
  OBVIOUS
<1>4. IsFiniteSet(P) /\ Cardinality(P) <= Cardinality(Others)
  BY <1>2, <1>3, FS_Subset
<1>5. Cardinality(P) \in Nat /\ Cardinality(Senders) \in Nat
  BY <1>1, <1>4, FS_CardinalityType
<1> QED
  BY <1>2, <1>4, <1>5

LEMMA NextBypass ==
    ASSUME WaitInv, [Next]_vars
    PROVE  BypassCounted'
<1> DEFINE P == {s \in Senders \ {Background} : pc[s] = "lock"}
           Q == {s \in Senders \ {Background} : pc'[s] = "lock"}
<1> USE AckAssumption
<1>1. /\ IsFiniteSet(P) /\ Cardinality(P) \in Nat /\ Cardinality(Senders) \in Nat
      /\ Cardinality(P) < Cardinality(Senders)
  BY QueuedCount
<1>2. bypass \in Nat /\ pc \in [Senders -> Steps]
  BY DEF WaitInv, TypeOK
<1>3. bg = "fresh" => bypass + Cardinality(P) < Cardinality(Senders)
  BY DEF WaitInv, BypassCounted, Queued
<1>4. SUFFICES ASSUME bg' = "fresh" PROVE bypass' + Cardinality(Q) < Cardinality(Senders)
  BY DEF BypassCounted, Queued
<1>5. ASSUME Q \subseteq P, bg = "fresh", bypass' = bypass
      PROVE  bypass' + Cardinality(Q) < Cardinality(Senders)
  <2>1. IsFiniteSet(Q) /\ Cardinality(Q) <= Cardinality(P)
    BY <1>1, <1>5, FS_Subset
  <2>2. Cardinality(Q) \in Nat
    BY <2>1, FS_CardinalityType
  <2> QED
    BY <1>1, <1>2, <1>3, <1>5, <2>1, <2>2
<1>6. ASSUME NEW s \in Senders, enter(s)
      PROVE  bypass' + Cardinality(Q) < Cardinality(Senders)
  <2>1. CASE s = Background
    <3>1. Q = P /\ bypass' = 0
      BY <1>2, <1>6, <2>1 DEF enter, Goto
    <3> QED
      BY <1>1, <3>1
  <2>2. CASE s # Background
    BY <1>4, <1>6, <2>2 DEF enter, MustYield
  <2> QED
    BY <2>1, <2>2
<1>7. ASSUME NEW s \in Senders, acquire(s)
      PROVE  bypass' + Cardinality(Q) < Cardinality(Senders)
  <2>1. Q = P \ {s} /\ bg = "fresh"
    BY <1>2, <1>4, <1>7 DEF acquire, Goto
  <2>2. CASE s = Background
    <3>1. Q = P /\ bypass' = 0
      BY <1>7, <2>1, <2>2 DEF acquire
    <3> QED
      BY <1>1, <3>1
  <2>3. CASE s # Background
    <3>1. s \in P /\ bypass' = Saturated(bypass + 1)
      BY <1>7, <2>1, <2>3 DEF acquire
    <3>2. Cardinality(Q) = Cardinality(P) - 1
      <4> HIDE DEF P, Q
      <4> QED
        BY <1>1, <2>1, <3>1, FS_RemoveElement, ZenonT(60)
    <3>3. bypass + 1 + Cardinality(Q) < Cardinality(Senders)
      BY <1>1, <1>2, <1>3, <2>1, <3>2
    <3>4. IsFiniteSet(Q) /\ Cardinality(Q) \in Nat
      BY <1>1, <2>1, FS_RemoveElement, FS_CardinalityType
    <3>5. bypass' = bypass + 1
      BY <1>1, <1>2, <3>1, <3>3, <3>4 DEF Saturated
    <3> QED
      BY <3>3, <3>5
  <2> QED
    BY <2>2, <2>3
<1>8. ASSUME NEW s \in Senders, lock_timeout(s)
      PROVE  bypass' + Cardinality(Q) < Cardinality(Senders)
  <2>1. Q \subseteq P /\ bg = "fresh" /\ bypass' = bypass
    BY <1>2, <1>4, <1>8 DEF lock_timeout, Goto
  <2> QED
    BY <1>5, <2>1
<1>9. ASSUME NEW s \in Senders, Progress(s), ~acquire(s)
      PROVE  bypass' + Cardinality(Q) < Cardinality(Senders)
  <2>1. bypass' = bypass /\ bg = "fresh"
    BY <1>4, <1>9, Zenon DEF Progress, draw, draw_failed, arm, arm_failed, transmit, transmit_failed,
       give_failed, take, take_timeout, read_result, clear, release, fetch
  <2>2. PICK step \in Steps \ {"lock"} : pc' = [pc EXCEPT ![s] = step]
    BY <1>9, Zenon DEF Progress, draw, draw_failed, arm, arm_failed, transmit, transmit_failed,
       give_failed, take, take_timeout, read_result, clear, release, fetch, Goto, Steps
  <2>3. Q \subseteq P
    BY <1>2, <2>2
  <2> QED
    BY <1>5, <2>1, <2>3, SMTT(60)
<1>10. ASSUME UNCHANGED <<pc, bg, bypass>>
       PROVE  bypass' + Cardinality(Q) < Cardinality(Senders)
  BY <1>4, <1>5, <1>10
<1>11. CASE age
  BY <1>4, <1>11 DEF age
<1>12. ASSUME websocket_connected \/ mark_transport_disconnected \/ give_disconnected
       PROVE  UNCHANGED <<pc, bg, bypass>>
  BY <1>12 DEF websocket_connected, mark_transport_disconnected, give_disconnected, task
<1>13. ASSUME NEW a \in answers, handle_ack(a) \/ handle_error(a)
       PROVE  UNCHANGED <<pc, bg, bypass>>
  BY <1>13 DEF handle_ack, handle_error, task
<1>14. ASSUME NEW m \in wire, add_answers(m)
       PROVE  UNCHANGED <<pc, bg, bypass>>
  BY <1>14 DEF add_answers, task
<1>15. CASE UNCHANGED vars
  BY <1>10, <1>15 DEF vars, task
<1> QED
  BY <1>6, <1>7, <1>8, <1>9, <1>10, <1>11, <1>12, <1>13, <1>14, <1>15 DEF Next

(* What the tail sender fetches is the answer to the message it sent.      *)
LEMMA NextFetched ==
    ASSUME WaitInv, [Next]_vars
    PROVE  FetchedOwn'
<1> USE DEF WaitInv, FetchedOwn
<1>1. ASSUME NEW s \in Senders, fetch(s) PROVE FetchedOwn'
  <2>1. s = Tail /\ tail \in {0, msg[s]}
    BY <1>1, SMTT(60) DEF fetch, IdsOwned, TailOwn, TailServed
  <2> QED
    BY <1>1, <2>1 DEF fetch
<1>2. ASSUME NEW s \in Senders, enter(s) \/ lock_timeout(s) \/ (Progress(s) /\ ~fetch(s))
      PROVE  fetched' = fetched
  BY <1>2, ZenonT(60) DEF enter, lock_timeout, Progress, acquire, draw, draw_failed, arm, arm_failed, transmit,
     transmit_failed, give_failed, take, take_timeout, read_result, clear, release, history
<1>3. ASSUME \/ age \/ websocket_connected \/ mark_transport_disconnected \/ give_disconnected
             \/ \E a \in answers : handle_ack(a) \/ handle_error(a)
             \/ \E m \in wire : add_answers(m)
             \/ UNCHANGED vars
      PROVE  fetched' = fetched
  BY <1>3 DEF age, websocket_connected, mark_transport_disconnected, give_disconnected, handle_ack,
     handle_error, add_answers, history, vars
<1> QED
  BY <1>1, <1>2, <1>3 DEF Next

LEMMA NextWait == WaitInv /\ [Next]_vars => WaitInv'
<1> SUFFICES ASSUME WaitInv, [Next]_vars PROVE WaitInv'
  OBVIOUS
<1>1. SlotInv' /\ FetchedOwn' /\ BypassCounted'
  BY NextSlot, NextFetched, NextBypass DEF WaitInv
<1>2. CASE UNCHANGED vars
  <2>1. TypeOK'
    BY <1>2, SMTT(60) DEF WaitInv, TypeOK, vars, task, slot, link, add, history
  <2>2. IdsOwned' /\ TailOwn'
    BY <1>2 DEF WaitInv, IdsOwned, TailOwn, TailServed, Sent, vars, task, slot, link, add, history
  <2> QED
    BY <1>1, <2>1, <2>2 DEF WaitInv
<1>3. CASE Next
  <2>1. TypeOK' /\ IdsOwned' /\ TailOwn'
    BY <1>3, SenderTypes, SenderIds, SenderTail, EnvironmentTypes, EnvironmentIds, EnvironmentTail DEF Next
  <2> QED
    BY <1>1, <2>1 DEF WaitInv
<1> QED
  BY <1>2, <1>3

(* The parsed answer the tail sender copies after it has released the      *)
(* mutex is the one to its own message, and a fresh background request is  *)
(* bypassed less often than there are senders.                             *)
THEOREM WaitConsistentInvariant == Spec => []WaitConsistent
<1>1. WaitInv => WaitConsistent
  <2> SUFFICES ASSUME WaitInv PROVE BypassBounded
    BY DEF WaitInv, WaitConsistent
  <2>1. Cardinality(Queued) \in Nat /\ Cardinality(Senders) \in Nat
    BY QueuedCount DEF Queued
  <2> QED
    BY <2>1 DEF WaitInv, BypassCounted, BypassBounded, TypeOK
<1> QED
  BY <1>1, InitWait, NextWait, PTL DEF Spec

=============================================================================
