---------------------------- MODULE StorageMailbox ----------------------------
(***************************************************************************)
(* The bounded RAM mailbox in front of the journal's storage owner         *)
(* (firmware/zone_lite/main/zkt_storage_mailbox.c).                        *)
(*                                                                         *)
(* Any task submits a copied request and gets a ticket; the one storage    *)
(* task takes requests out with zj_mailbox_begin, works outside the lock   *)
(* and answers with zj_mailbox_finish, or gives a resumable file           *)
(* transaction back with zj_mailbox_yield.  A caller polls its reply out,  *)
(* or abandons it after its own deadline.  Every method runs under the     *)
(* mailbox lock, so each is one action.                                    *)
(*                                                                         *)
(* The position of a slot in the C array is never observable (tickets are  *)
(* unique), so slots are a set of interchangeable identities.  Payloads    *)
(* and their static validation (zj_mailbox_submit's first screenful) are   *)
(* abstracted: every submitted request is well formed.  The telemetry      *)
(* counters completed, refused and high_watermark are left out.            *)
(***************************************************************************)
EXTENDS Naturals, FiniteSets

CONSTANTS
    Slots,               \* ZJ_REQUEST_SLOTS slot identities
    LiveReservedSlots,   \* slots only APPEND and SETTLE may take
    PriorityBurst,       \* ZJ_PRIORITY_BURST
    Operations,          \* the operations callers submit
    TicketMax            \* UINT64_MAX: the ticket counter wraps to the refusing 0

PriorityOps == {"APPEND", "SETTLE"}

FileOps == {"CATALOG", "COMMANDS", "COMMAND_IDS"}

ASSUME MailboxAssumption ==
    /\ IsFiniteSet(Slots)
    /\ LiveReservedSlots \in Nat
    /\ LiveReservedSlots < Cardinality(Slots)
    /\ PriorityBurst \in Nat \ {0}
    /\ TicketMax \in Nat \ {0}
    /\ Operations # {}

VARIABLES
    slots,            \* the request slots
    next_ticket,      \* next ticket to hand out
    running_ticket,   \* ticket the storage task works on, 0 if none
    resume_ticket,    \* ticket of the retained file transaction, 0 if none
    yield_to_other,   \* the retained transaction gives way once
    occupied,         \* number of slots in use
    priority_burst,   \* live requests started since the last background one
    passed_over       \* history: live starts in a row while background waited

vars == <<slots, next_ticket, running_ticket, resume_ticket, yield_to_other,
          occupied, priority_burst, passed_over>>

priority(op) == op \in PriorityOps

file_work(op) == op \in FileOps

FreeSlot == [state |-> "FREE", ticket |-> 0, op |-> "NONE", abandoned |-> FALSE]

SlotRecord ==
    [state : {"FREE", "QUEUED", "RUNNING", "DONE"}, ticket : Nat,
     op : Operations \cup {"NONE"}, abandoned : BOOLEAN]

InState(st) == {i \in Slots : slots[i].state = st}

Used == {i \in Slots : slots[i].state # "FREE"}

Init ==
    /\ slots = [i \in Slots |-> FreeSlot]
    /\ next_ticket = 1
    /\ running_ticket = 0
    /\ resume_ticket = 0
    /\ yield_to_other = FALSE
    /\ occupied = 0
    /\ priority_burst = 0
    /\ passed_over = 0

-----------------------------------------------------------------------------
(* Releasing a slot is the same for poll, abandon and finish. *)
releaseUncounted(i) ==
    /\ slots' = [slots EXCEPT ![i] = FreeSlot]
    /\ UNCHANGED occupied

release(i) ==
    /\ slots' = [slots EXCEPT ![i] = FreeSlot]
    /\ occupied' = occupied - 1

(* Admission: the last LiveReservedSlots slots are for live work only. *)
admittedWithoutReserve(op) ==
    /\ next_ticket <= TicketMax
    /\ occupied # Cardinality(Slots)

admitted(op) ==
    /\ next_ticket <= TicketMax
    /\ occupied # Cardinality(Slots)
    /\ priority(op) \/ occupied < Cardinality(Slots) - LiveReservedSlots

submit(op) ==
    /\ admitted(op)
    /\ \E i \in InState("FREE") :
        slots' = [slots EXCEPT ![i] = [state |-> "QUEUED", ticket |-> next_ticket,
                                       op |-> op, abandoned |-> FALSE]]
    /\ next_ticket' = next_ticket + 1
    /\ occupied' = occupied + 1
    /\ UNCHANGED <<running_ticket, resume_ticket, yield_to_other, priority_burst, passed_over>>

-----------------------------------------------------------------------------
Oldest(S) == {i \in S : \A j \in S : slots[i].ticket <= slots[j].ticket}

Resume == {i \in InState("QUEUED") : slots[i].ticket = resume_ticket}

(* Other file work waits while a file transaction is retained. *)
CandidatesUnheld == InState("QUEUED") \ Resume

Candidates ==
    {i \in InState("QUEUED") \ Resume : resume_ticket = 0 \/ ~file_work(slots[i].op)}

High == Oldest({i \in Candidates : priority(slots[i].op)})

OtherLow == Oldest({i \in Candidates : ~priority(slots[i].op)})

Low == IF Resume # {} /\ (OtherLow = {} \/ ~yield_to_other) THEN Resume ELSE OtherLow

TakeHighAlways == High # {}

TakeHigh == High # {} /\ (Low = {} \/ priority_burst < PriorityBurst)

Chosen == IF TakeHigh THEN High ELSE Low

begin ==
    /\ running_ticket = 0
    /\ \E i \in Chosen :
        /\ slots' = [slots EXCEPT ![i].state = "RUNNING"]
        /\ running_ticket' = slots[i].ticket
    /\ priority_burst' =
        IF ~TakeHigh THEN 0
        ELSE IF priority_burst < PriorityBurst THEN priority_burst + 1
        ELSE priority_burst
    /\ yield_to_other' =
        (yield_to_other /\ ~(~TakeHigh /\ Resume # {} /\ OtherLow # {} /\ Chosen # Resume))
    /\ passed_over' = IF TakeHigh /\ Low # {} THEN passed_over + 1 ELSE 0
    /\ UNCHANGED <<next_ticket, resume_ticket, occupied>>

Running == {i \in InState("RUNNING") : slots[i].ticket = running_ticket}

(* The reply of an abandoned request goes nowhere and frees the slot. *)
finishKeepsResume ==
    \E i \in Running :
        /\ running_ticket' = 0
        /\ IF slots[i].abandoned
           THEN release(i)
           ELSE /\ slots' = [slots EXCEPT ![i].state = "DONE"]
                /\ UNCHANGED occupied
        /\ UNCHANGED <<next_ticket, resume_ticket, yield_to_other, priority_burst, passed_over>>

finish ==
    \E i \in Running :
        /\ running_ticket' = 0
        /\ resume_ticket' = IF resume_ticket = slots[i].ticket THEN 0 ELSE resume_ticket
        /\ IF slots[i].abandoned
           THEN release(i)
           ELSE /\ slots' = [slots EXCEPT ![i].state = "DONE"]
                /\ UNCHANGED occupied
        /\ UNCHANGED <<next_ticket, yield_to_other, priority_burst, passed_over>>

(* Only resumable file work may be handed back. *)
yield ==
    \E i \in Running :
        /\ file_work(slots[i].op)
        /\ slots' = [slots EXCEPT ![i].state = "QUEUED"]
        /\ running_ticket' = 0
        /\ resume_ticket' = slots[i].ticket
        /\ yield_to_other' = TRUE
        /\ UNCHANGED <<next_ticket, occupied, priority_burst, passed_over>>

(* A caller takes its reply; polling anything else changes nothing. *)
poll(i) ==
    /\ slots[i].state = "DONE"
    /\ ~slots[i].abandoned
    /\ release(i)
    /\ UNCHANGED <<next_ticket, running_ticket, resume_ticket, yield_to_other,
                   priority_burst, passed_over>>

abandon(i) ==
    /\ slots[i].state # "FREE"
    /\ IF slots[i].state = "DONE"
       THEN release(i)
       ELSE /\ slots' = [slots EXCEPT ![i].abandoned = TRUE]
            /\ UNCHANGED occupied
    /\ UNCHANGED <<next_ticket, running_ticket, resume_ticket, yield_to_other,
                   priority_burst, passed_over>>

Next ==
    \/ \E op \in Operations : submit(op)
    \/ begin
    \/ finish
    \/ yield
    \/ \E i \in Slots : poll(i)
    \/ \E i \in Slots : abandon(i)

Spec == Init /\ [][Next]_vars

(* The storage task loops forever, so begin and finish are fair.  A file     *)
(* transaction is a finite sequence of steps, so a request that keeps being  *)
(* started is finished in the end: strong fairness of finish per ticket.     *)
(* Every caller has a deadline, after which it polls or abandons a reply.    *)
Fairness ==
    /\ WF_vars(begin)
    /\ \A t \in 1..TicketMax : SF_vars(finish /\ running_ticket = t)
    /\ \A t \in 1..TicketMax :
        WF_vars(\E i \in Slots : slots[i].ticket = t /\ slots[i].state = "DONE" /\ poll(i))

FairSpec == Spec /\ Fairness

-----------------------------------------------------------------------------
(* Types of the mailbox fields. *)
TypeOK ==
    /\ slots \in [Slots -> SlotRecord]
    /\ next_ticket \in 1..(TicketMax + 1)
    /\ running_ticket \in 0..TicketMax
    /\ resume_ticket \in 0..TicketMax
    /\ yield_to_other \in BOOLEAN
    /\ occupied \in 0..Cardinality(Slots)
    /\ priority_burst \in 0..PriorityBurst
    /\ passed_over \in Nat

(* The occupancy counter, which poll, abandon and finish each decrement on   *)
(* their own path, always counts the slots in use: no slot is leaked and     *)
(* none is released twice.                                                   *)
OccupiedExact == occupied = Cardinality(Used)

(* The storage task works on one request: the only RUNNING slot is the one   *)
(* running_ticket names, and no two slots in use share a ticket.             *)
OneRunning ==
    /\ \A i \in Slots : slots[i].state = "RUNNING" <=>
            (slots[i].state # "FREE" /\ slots[i].ticket = running_ticket)
    /\ \A i, j \in Used : slots[i].ticket = slots[j].ticket => i = j
    /\ running_ticket # 0 => \E i \in Slots : slots[i].state = "RUNNING"

(* Background requests never occupy the slots reserved for live capture and  *)
(* settlement, in whatever order requests come and go.                       *)
LiveReserve ==
    Cardinality({i \in Used : ~priority(slots[i].op)})
        <= Cardinality(Slots) - LiveReservedSlots

(* A retained file transaction is a file request still owned by the mailbox, *)
(* even when its caller has abandoned it: the hold it puts on other file     *)
(* work always has an owner that will lift it.                               *)
ResumeOwned ==
    resume_ticket # 0 =>
        \E i \in Slots : /\ slots[i].state \in {"QUEUED", "RUNNING"}
                         /\ slots[i].ticket = resume_ticket
                         /\ file_work(slots[i].op)

(* While background work that could start is waiting, at most PriorityBurst  *)
(* live requests start in a row.                                             *)
BoundedBypass == passed_over <= PriorityBurst

(* While one file transaction is retained no other file request starts, so   *)
(* two transactions never interleave on the shared recovery intent.          *)
FileWorkExclusive ==
    [][ \A i \in Slots :
            (/\ slots[i].state = "QUEUED"
             /\ slots'[i].state = "RUNNING"
             /\ file_work(slots[i].op)
             /\ resume_ticket # 0) => slots[i].ticket = resume_ticket ]_vars

(* Accepted work is executed and its slot returned, whether or not the       *)
(* caller abandoned it and however often file work yields.                   *)
AcceptedWorkReleased ==
    \A t \in 1..TicketMax :
        (\E i \in Used : slots[i].ticket = t) ~> (\A i \in Used : slots[i].ticket # t)

(* The bookkeeping agrees with the slots: types, the occupancy counter, the  *)
(* one running ticket and the owner of the retained file transaction, which  *)
(* submit, begin, poll, abandon and finish each update on their own.         *)
MailboxConsistent == TypeOK /\ OccupiedExact /\ OneRunning /\ ResumeOwned
=============================================================================
