---------------------------- MODULE CustodyDelivery ----------------------------
(***************************************************************************)
(* The tasks around the journal: live capture (zkt_journal_capture.c)      *)
(* appends the fragments of a packet, delivery (zkt_journal_delivery.c)    *)
(* reads the head, sends it to ADD, settles and reclaims, and both reach   *)
(* the storage task only through tickets that may be polled or abandoned.  *)
(* ADD (zkt_custody.py) commits a receipt per observation, and its answer  *)
(* may be late or lost.                                                    *)
(*                                                                         *)
(* The mailbox is a pool of slots here (its order and accounting are the   *)
(* subject of StorageMailbox) and the journal a log with a retirement      *)
(* cursor (its files and crash recovery are the subject of JournalStore).  *)
(* Clocks are abstracted: a deadline may expire whenever it is awaited.    *)
(***************************************************************************)
EXTENDS Integers, Sequences, FiniteSets

CONSTANTS
    Attempts,     \* calls of zj_capture_packet, numbered from 1
    Fragments,    \* fragments of a packet
    SlotsMax,     \* mailbox slots
    MaxFaults     \* model bound: failures, timeouts, lost answers, restarts

ASSUME DeliveryAssumption ==
    /\ Attempts \in Nat
    /\ Fragments \in Nat \ {0}
    /\ SlotsMax \in Nat \ {0}
    /\ MaxFaults \in Nat

VARIABLES
    log,        \* entries ever appended to the journal, in order
    cursor,     \* entries settled by the retirement checkpoint
    freed,      \* entries whose segments were reclaimed
    slots,      \* the storage task's request slots
    cap,        \* zj_capture_t: attempt, fragment, phase, pending ticket
    preserved,  \* attempts for which zj_capture_packet returned true
    del,        \* zj_delivery_t: phase, pending operation and ticket, item
    online,     \* add_connector_is_connected
    inflight,   \* entries sent that ADD has not processed
    receipts,   \* entries with a committed ZktObservationReceipt
    faults

journal == <<log, cursor, freed>>
vars == <<journal, slots, cap, preserved, del, online, inflight, receipts, faults>>

Slots == 1..SlotsMax
Entries == (1..Attempts) \X (1..Fragments)

NoItem == [pos |-> 0, entry |-> <<0, 0>>]
Item(pos) == [pos |-> pos, entry |-> log[pos]]

FreeSlot == [state |-> "FREE", op |-> "NONE", entry |-> <<0, 0>>, item |-> NoItem,
             abandoned |-> FALSE, result |-> "NONE"]
IdleCapture == [attempt |-> 0, frag |-> 1, phase |-> "idle", ticket |-> 0]
IdleDelivery == [phase |-> "IDLE", op |-> "NONE", ticket |-> 0, item |-> NoItem]

Init ==
    /\ log = <<>> /\ cursor = 0 /\ freed = 0
    /\ slots = [s \in Slots |-> FreeSlot]
    /\ cap = IdleCapture
    /\ preserved = {}
    /\ del = IdleDelivery
    /\ online = FALSE
    /\ inflight = {} /\ receipts = {}
    /\ faults = 0

Fault == faults < MaxFaults /\ faults' = faults + 1

-----------------------------------------------------------------------------
(* zj_owner_submit, zj_owner_poll and zj_owner_abandon as the callers see    *)
(* them.  A slot is returned by the poll that takes its reply, or once an    *)
(* abandoned request has finished.                                           *)

CanSubmit(s) == slots[s].state = "FREE"

Request(op, entry, item) ==
    [FreeSlot EXCEPT !.state = "QUEUED", !.op = op, !.entry = entry, !.item = item]

Abandoned(s) ==
    [slots EXCEPT ![s] = IF @.state = "DONE" THEN FreeSlot ELSE [@ EXCEPT !.abandoned = TRUE]]

Finished(s, result, item) ==
    [slots EXCEPT ![s] = IF @.abandoned THEN FreeSlot
                         ELSE [@ EXCEPT !.state = "DONE", !.result = result, !.item = item]]

-----------------------------------------------------------------------------
(* execute, one operation at a time.  ZJ_UNCERTAIN may or may not have had   *)
(* its durable effect.                                                       *)

execute_append(s) ==
    /\ slots[s].state = "QUEUED" /\ slots[s].op = "APPEND"
    /\ \/ /\ log' = Append(log, slots[s].entry)
          /\ slots' = Finished(s, "OK", NoItem)
          /\ UNCHANGED faults
       \/ /\ Fault
          /\ log' \in {log, Append(log, slots[s].entry)}
          /\ slots' = Finished(s, "UNCERTAIN", NoItem)
    /\ UNCHANGED <<cursor, freed, cap, preserved, del, online, inflight, receipts>>

execute_peek(s) ==
    /\ slots[s].state = "QUEUED" /\ slots[s].op = "PEEK"
    /\ \/ /\ slots' = IF cursor < Len(log) THEN Finished(s, "OK", Item(cursor + 1))
                      ELSE Finished(s, "EMPTY", NoItem)
          /\ UNCHANGED faults
       \/ /\ Fault
          /\ slots' = Finished(s, "IO", NoItem)
    /\ UNCHANGED <<journal, cap, preserved, del, online, inflight, receipts>>

(* Deviation: the token is not compared with the head read again. *)
SettlesHeadUnchecked(s) == cursor < Len(log)

(* The head is read and encoded again; any other item is stale. *)
SettlesHead(s) == cursor < Len(log) /\ slots[s].item = Item(cursor + 1)

execute_settle(s) ==
    /\ slots[s].state = "QUEUED" /\ slots[s].op = "SETTLE"
    /\ \/ /\ SettlesHead(s)
          /\ cursor' = cursor + 1
          /\ slots' = Finished(s, "OK", NoItem)
          /\ UNCHANGED faults
       \/ /\ ~SettlesHead(s)
          /\ cursor' = cursor
          /\ slots' = Finished(s, "STALE", NoItem)
          /\ UNCHANGED faults
       \/ /\ SettlesHead(s)
          /\ Fault
          /\ cursor' \in {cursor, cursor + 1}
          /\ slots' = Finished(s, "UNCERTAIN", NoItem)
    /\ UNCHANGED <<log, freed, cap, preserved, del, online, inflight, receipts>>

(* At most one segment: some settled prefix, or nothing when the oldest      *)
(* segment is not yet settled to its end.                                    *)
execute_reclaim(s) ==
    /\ slots[s].state = "QUEUED" /\ slots[s].op = "RECLAIM"
    /\ \/ /\ \E upto \in freed..cursor :
            /\ cursor = Len(log) => upto > freed \/ freed = cursor
            /\ freed' = upto
            /\ slots' = Finished(s, IF upto > freed THEN "OK" ELSE "EMPTY", NoItem)
          /\ UNCHANGED faults
       \/ /\ Fault
          /\ slots' = Finished(s, "IO", NoItem)
          /\ UNCHANGED freed
    /\ UNCHANGED <<log, cursor, cap, preserved, del, online, inflight, receipts>>

-----------------------------------------------------------------------------
(* zj_capture_packet.  A reply left behind by an earlier timeout must be     *)
(* released before the next packet starts.                                   *)

capture_start ==
    /\ cap.phase = "idle" /\ cap.attempt < Attempts
    /\ slots' = IF cap.ticket = 0 THEN slots ELSE Abandoned(cap.ticket)
    /\ cap' = [attempt |-> cap.attempt + 1, frag |-> 1, phase |-> "submit", ticket |-> 0]
    /\ UNCHANGED <<journal, preserved, del, online, inflight, receipts, faults>>

capture_submit ==
    /\ cap.phase = "submit"
    /\ \E s \in Slots :
        /\ CanSubmit(s)
        /\ slots' = [slots EXCEPT ![s] = Request("APPEND", <<cap.attempt, cap.frag>>, NoItem)]
        /\ cap' = [cap EXCEPT !.phase = "wait", !.ticket = s]
    /\ UNCHANGED <<journal, preserved, del, online, inflight, receipts, faults>>

(* The mailbox refused the request, or the packet's deadline has passed. *)
capture_refused ==
    /\ cap.phase = "submit"
    /\ \/ (\A s \in Slots : ~CanSubmit(s)) /\ UNCHANGED faults
       \/ Fault
    /\ cap' = [cap EXCEPT !.phase = "idle"]
    /\ UNCHANGED <<journal, slots, preserved, del, online, inflight, receipts>>

(* Deviation: any completed reply is success. *)
capture_committedAnyResult ==
    /\ cap.phase = "wait" /\ slots[cap.ticket].state = "DONE"
    /\ slots' = [slots EXCEPT ![cap.ticket] = FreeSlot]
    /\ IF cap.frag < Fragments
       THEN /\ cap' = [cap EXCEPT !.frag = @ + 1, !.phase = "submit", !.ticket = 0]
            /\ UNCHANGED preserved
       ELSE /\ cap' = [cap EXCEPT !.phase = "idle", !.ticket = 0]
            /\ preserved' = preserved \cup {cap.attempt}
    /\ UNCHANGED <<journal, del, online, inflight, receipts, faults>>

capture_committed ==
    /\ cap.phase = "wait"
    /\ slots[cap.ticket].state = "DONE" /\ slots[cap.ticket].result = "OK"
    /\ slots' = [slots EXCEPT ![cap.ticket] = FreeSlot]
    /\ IF cap.frag < Fragments
       THEN /\ cap' = [cap EXCEPT !.frag = @ + 1, !.phase = "submit", !.ticket = 0]
            /\ UNCHANGED preserved
       ELSE /\ cap' = [cap EXCEPT !.phase = "idle", !.ticket = 0]
            /\ preserved' = preserved \cup {cap.attempt}
    /\ UNCHANGED <<journal, del, online, inflight, receipts, faults>>

capture_append_failed ==
    /\ cap.phase = "wait"
    /\ slots[cap.ticket].state = "DONE" /\ slots[cap.ticket].result # "OK"
    /\ slots' = [slots EXCEPT ![cap.ticket] = FreeSlot]
    /\ cap' = [cap EXCEPT !.phase = "idle", !.ticket = 0]
    /\ UNCHANGED <<journal, preserved, del, online, inflight, receipts, faults>>

(* The append may still be executed; its ticket is abandoned now, or kept    *)
(* for the next packet when the mailbox lock is busy.                        *)
capture_timeout ==
    /\ cap.phase = "wait"
    /\ Fault
    /\ \/ /\ slots' = Abandoned(cap.ticket)
          /\ cap' = [cap EXCEPT !.phase = "idle", !.ticket = 0]
       \/ /\ cap' = [cap EXCEPT !.phase = "idle"]
          /\ UNCHANGED slots
    /\ UNCHANGED <<journal, preserved, del, online, inflight, receipts>>

-----------------------------------------------------------------------------
(* zj_delivery_step, one action per phase.                                   *)

delivery_idle ==
    /\ del.phase = "IDLE"
    /\ del' = [del EXCEPT !.phase = IF online THEN "SUBMIT_READ" ELSE "SUBMIT_RECLAIM"]
    /\ UNCHANGED <<journal, slots, cap, preserved, online, inflight, receipts, faults>>

Submission == [SUBMIT_READ |-> "PEEK", SUBMIT_SETTLE |-> "SETTLE", SUBMIT_RECLAIM |-> "RECLAIM"]

delivery_submit ==
    /\ del.phase \in DOMAIN Submission
    /\ \E s \in Slots :
        /\ CanSubmit(s)
        /\ slots' = [slots EXCEPT ![s] = Request(Submission[del.phase], <<0, 0>>, del.item)]
        /\ del' = [del EXCEPT !.phase = "WAIT", !.op = Submission[del.phase], !.ticket = s]
    /\ UNCHANGED <<journal, cap, preserved, online, inflight, receipts, faults>>

delivery_refused ==
    /\ del.phase \in DOMAIN Submission
    /\ \/ (\A s \in Slots : ~CanSubmit(s)) /\ UNCHANGED faults
       \/ Fault
    /\ del' = IdleDelivery
    /\ UNCHANGED <<journal, slots, cap, preserved, online, inflight, receipts>>

AfterReply(reply) ==
    CASE reply.result = "EMPTY" /\ del.op = "PEEK" -> [IdleDelivery EXCEPT !.phase = "SUBMIT_RECLAIM"]
      [] reply.result = "OK" /\ del.op = "PEEK"    -> [IdleDelivery EXCEPT !.phase = "ENCODE", !.item = reply.item]
      [] reply.result = "OK" /\ del.op = "SETTLE"  -> [IdleDelivery EXCEPT !.phase = "SUBMIT_RECLAIM"]
      [] OTHER                                     -> IdleDelivery

delivery_poll ==
    /\ del.phase = "WAIT" /\ slots[del.ticket].state = "DONE"
    /\ slots' = [slots EXCEPT ![del.ticket] = FreeSlot]
    /\ del' = AfterReply(slots[del.ticket])
    /\ UNCHANGED <<journal, cap, preserved, online, inflight, receipts, faults>>

delivery_deadline ==
    /\ del.phase = "WAIT"
    /\ Fault
    /\ del' = [del EXCEPT !.phase = "ABANDON"]
    /\ UNCHANGED <<journal, slots, cap, preserved, online, inflight, receipts>>

(* Deviation: the ticket is dropped without telling the mailbox. *)
delivery_abandonSilently ==
    /\ del.phase = "ABANDON"
    /\ del' = IdleDelivery
    /\ UNCHANGED <<journal, slots, cap, preserved, online, inflight, receipts, faults>>

(* The ticket is not dropped before the mailbox accepts the abandonment.     *)
delivery_abandon ==
    /\ del.phase = "ABANDON"
    /\ slots' = Abandoned(del.ticket)
    /\ del' = IdleDelivery
    /\ UNCHANGED <<journal, cap, preserved, online, inflight, receipts, faults>>

delivery_encode ==
    /\ del.phase = "ENCODE"
    /\ \/ del' = [del EXCEPT !.phase = "SEND"] /\ UNCHANGED faults
       \/ Fault /\ del' = IdleDelivery
    /\ UNCHANGED <<journal, slots, cap, preserved, online, inflight, receipts>>

(* The send blocks until its own acknowledgement, phase ACK here. *)
delivery_send ==
    /\ del.phase = "SEND"
    /\ IF online
       THEN /\ inflight' = inflight \cup {del.item.entry}
            /\ del' = [del EXCEPT !.phase = "ACK"]
       ELSE /\ del' = IdleDelivery
            /\ UNCHANGED inflight
    /\ UNCHANGED <<journal, slots, cap, preserved, online, receipts, faults>>

delivery_receipt ==
    /\ del.phase = "ACK"
    /\ del.item.entry \in receipts \ inflight
    /\ del' = [del EXCEPT !.phase = "SUBMIT_SETTLE"]
    /\ UNCHANGED <<journal, slots, cap, preserved, online, inflight, receipts, faults>>

(* The deadline passes without one: nothing will answer, or it is late. *)
delivery_no_answer ==
    /\ del.phase = "ACK"
    /\ del.item.entry \notin receipts \cup inflight
    /\ del' = IdleDelivery
    /\ UNCHANGED <<journal, slots, cap, preserved, online, inflight, receipts, faults>>

delivery_ack_late ==
    /\ del.phase = "ACK"
    /\ Fault
    /\ del' = IdleDelivery
    /\ UNCHANGED <<journal, slots, cap, preserved, online, inflight, receipts>>

-----------------------------------------------------------------------------
(* settle_observations: one committed receipt per observation; a replayed    *)
(* observation finds the receipt it already has.  A request that the sender  *)
(* gave up on may still be processed.                                        *)
settle_observations ==
    /\ \E e \in inflight :
        /\ receipts' = receipts \cup {e}
        /\ inflight' = inflight \ {e}
    /\ UNCHANGED <<journal, slots, cap, preserved, del, online, faults>>

(* The batch is refused or lost before ADD commits. *)
request_lost ==
    /\ Fault
    /\ \E e \in inflight : inflight' = inflight \ {e}
    /\ UNCHANGED <<journal, slots, cap, preserved, del, online, receipts>>

connect ==
    /\ ~online
    /\ online' = TRUE
    /\ UNCHANGED <<journal, slots, cap, preserved, del, inflight, receipts, faults>>

(* mark_transport_disconnected also fails the send that waits. *)
disconnect ==
    /\ online
    /\ Fault
    /\ online' = FALSE
    /\ del' = IF del.phase = "ACK" THEN IdleDelivery ELSE del
    /\ UNCHANGED <<journal, slots, cap, preserved, inflight, receipts>>

(* Power loss.  The journal recovers its checkpoint, or replays from its     *)
(* earliest retained byte when the checkpoint is damaged.                    *)
restart ==
    /\ Fault
    /\ cursor' \in {cursor, freed}
    /\ slots' = [s \in Slots |-> FreeSlot]
    /\ cap' = [IdleCapture EXCEPT !.attempt = cap.attempt]
    /\ del' = IdleDelivery
    /\ online' = FALSE
    /\ UNCHANGED <<log, freed, preserved, inflight, receipts>>

-----------------------------------------------------------------------------
Owner == \E s \in Slots :
    execute_append(s) \/ execute_peek(s) \/ execute_settle(s) \/ execute_reclaim(s)

Capture ==
    \/ capture_start \/ capture_submit \/ capture_refused \/ capture_committed
    \/ capture_append_failed \/ capture_timeout

DeliveryStep ==
    \/ delivery_idle \/ delivery_submit \/ delivery_refused \/ delivery_poll
    \/ delivery_abandon \/ delivery_encode \/ delivery_send \/ delivery_receipt
    \/ delivery_no_answer

Environment ==
    \/ delivery_deadline \/ delivery_ack_late \/ settle_observations \/ request_lost
    \/ connect \/ disconnect \/ restart

Next == Owner \/ Capture \/ DeliveryStep \/ Environment

Spec == Init /\ [][Next]_vars

(* The storage task serves its queue, the delivery task is pumped for ever,  *)
(* the connector reconnects and a send either is answered or times out.      *)
Fairness ==
    /\ WF_vars(Owner)
    /\ WF_vars(DeliveryStep)
    /\ WF_vars(settle_observations)
    /\ WF_vars(connect)

FairSpec == Spec /\ Fairness

-----------------------------------------------------------------------------
Phases == {"IDLE", "SUBMIT_READ", "WAIT", "ENCODE", "SEND", "ACK", "SUBMIT_SETTLE",
           "SUBMIT_RECLAIM", "ABANDON"}
Items == [pos : Nat, entry : Nat \X Nat]
SlotRecord ==
    [state : {"FREE", "QUEUED", "DONE"}, op : {"NONE", "APPEND", "PEEK", "SETTLE", "RECLAIM"},
     entry : Nat \X Nat, item : Items, abandoned : BOOLEAN,
     result : {"NONE", "OK", "EMPTY", "STALE", "IO", "UNCERTAIN"}]

(* Types of the journal, the slots and the two tasks. *)
TypeOK ==
    /\ log \in Seq(Entries) /\ cursor \in 0..Len(log) /\ freed \in 0..cursor
    /\ slots \in [Slots -> SlotRecord]
    /\ cap \in [attempt : 0..Attempts, frag : 1..Fragments, phase : {"idle", "submit", "wait"},
                ticket : 0..SlotsMax]
    /\ preserved \subseteq 1..Attempts
    /\ del \in [phase : Phases, op : {"NONE", "PEEK", "SETTLE", "RECLAIM"},
                ticket : 0..SlotsMax, item : Items]
    /\ online \in BOOLEAN
    /\ inflight \subseteq Entries /\ receipts \subseteq Entries
    /\ faults \in 0..MaxFaults

(* The retirement cursor never passes an entry without a committed receipt,  *)
(* also when a settlement the delivery task gave up on is executed after the *)
(* same entry was read, sent and settled again.                              *)
RetiredOnlyReceipted == \A k \in 1..cursor : log[k] \in receipts

(* Every slot in use is either abandoned or the pending ticket of exactly    *)
(* one task, and no task polls or abandons another task's slot.              *)
TicketsOwned ==
    /\ \A s \in Slots : (slots[s].state # "FREE" /\ ~slots[s].abandoned)
                            <=> (s = cap.ticket \/ s = del.ticket)
    /\ cap.ticket # 0 => cap.ticket # del.ticket

(* The fragments of one packet are journalled once each and in order, with   *)
(* no fragment missing before a later one, whichever appends time out and    *)
(* are executed late.                                                        *)
FragmentsInOrder ==
    \A k \in 1..Len(log) :
        /\ \A j \in 1..(k - 1) : log[j] # log[k]
        /\ log[k][2] > 1 => \E j \in 1..(k - 1) : log[j] = <<log[k][1], log[k][2] - 1>>

Custody == INSTANCE AttendanceCustody
    WITH held <- {log[k] : k \in (freed + 1)..Len(log)}, taken <- receipts,
         promised <- {e \in Entries : e[1] \in preserved}

(* Capture and delivery implement the custody promise: a packet reported as  *)
(* preserved has every fragment in the journal or in ADD's custody, and only *)
(* receipted fragments are reclaimed.                                        *)
ImplementsCustody == Custody!Spec

(* Every fragment of a preserved packet is eventually receipted by ADD and   *)
(* reclaimed from the device.                                                *)
PreservedReachesAdd ==
    \A a \in 1..Attempts :
        (a \in preserved) ~> \A f \in 1..Fragments :
            <<a, f>> \in receipts /\ \A k \in (freed + 1)..Len(log) : log[k] # <<a, f>>

(* The two tasks and the mailbox agree: types, every slot in use has one     *)
(* owner, a packet's fragments are appended in order, and only receipted     *)
(* entries are retired.                                                      *)
DeliveryConsistent == TypeOK /\ TicketsOwned /\ FragmentsInOrder /\ RetiredOnlyReceipted
=============================================================================
