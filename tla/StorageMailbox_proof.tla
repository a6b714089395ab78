------------------------- MODULE StorageMailbox_proof -------------------------
(* Proofs of the mailbox's safety for every number of slots and tickets. *)
EXTENDS StorageMailbox, FiniteSetTheorems, TLAPS

(* A slot in use carries a ticket that was handed out; a free slot is blank. *)
TicketsHandedOut ==
    \A i \in Slots :
        IF slots[i].state = "FREE" THEN slots[i] = FreeSlot
        ELSE slots[i].ticket \in 1..(next_ticket - 1) /\ slots[i].op \in Operations

(* The bypass history never exceeds the counter the code keeps. *)
BypassCounted == passed_over <= priority_burst

(* The storage task can never be asked for a ticket that is not its own: the *)
(* inductive core shared by the counting and scheduling invariants.          *)
MailboxInv ==
    /\ TypeOK
    /\ TicketsHandedOut
    /\ OccupiedExact
    /\ OneRunning
    /\ ResumeOwned
    /\ BypassCounted

(* Initially every slot is free. *)
LEMMA InitMailboxInv == Init => MailboxInv
<1> SUFFICES ASSUME Init PROVE MailboxInv
  OBVIOUS
<1>1. Used = {}
  BY DEF Init, Used, FreeSlot
<1>2. Cardinality(Slots) \in Nat
  BY MailboxAssumption, FS_CardinalityType
<1>3. TypeOK
  <2>1. slots \in [Slots -> SlotRecord]
    BY DEF Init, SlotRecord, FreeSlot
  <2>2. yield_to_other \in BOOLEAN
    BY DEF Init
  <2> QED
    BY <2>1, <2>2, <1>2, MailboxAssumption DEF Init, TypeOK
<1>4. OccupiedExact
  BY <1>1, FS_EmptySet DEF OccupiedExact, Init
<1>5. TicketsHandedOut /\ OneRunning /\ ResumeOwned /\ BypassCounted
  BY <1>1 DEF Init, TicketsHandedOut, OneRunning, ResumeOwned, BypassCounted, FreeSlot
<1> QED
  BY <1>3, <1>4, <1>5 DEF MailboxInv

(* Releasing a slot in use takes exactly one element out of Used. *)
LEMMA ReleaseCounts ==
  ASSUME MailboxInv, NEW i \in Slots, slots[i].state # "FREE", release(i)
  PROVE  /\ OccupiedExact'
         /\ occupied' \in 0..Cardinality(Slots)
         /\ slots' \in [Slots -> SlotRecord]
<1>1. slots' \in [Slots -> SlotRecord]
  BY DEF MailboxInv, TypeOK, release, SlotRecord, FreeSlot
<1>2. Used' = Used \ {i} /\ i \in Used
  BY DEF MailboxInv, TypeOK, release, FreeSlot, Used, SlotRecord
<1>3. IsFiniteSet(Used)
  BY MailboxAssumption, FS_Subset DEF Used
<1>4. Cardinality(Used') = Cardinality(Used) - 1 /\ Cardinality(Used) \in Nat \ {0}
  BY <1>2, <1>3, FS_RemoveElement, FS_CardinalityType, FS_EmptySet
<1> QED
  BY <1>1, <1>4, MailboxAssumption, FS_CardinalityType
  DEF release, MailboxInv, OccupiedExact, TypeOK

(* Changing the state of a slot in use to another state in use keeps Used. *)
LEMMA RestateCounts ==
  ASSUME MailboxInv, NEW i \in Slots, slots[i].state # "FREE",
         slots' \in [Slots -> SlotRecord], slots'[i].state # "FREE",
         \A j \in Slots \ {i} : slots'[j] = slots[j], occupied' = occupied
  PROVE  OccupiedExact'
<1>1. Used' = Used
  BY DEF Used
<1> QED
  BY <1>1 DEF MailboxInv, OccupiedExact

(* Each method of the mailbox preserves the inductive invariant. *)
LEMMA NextMailboxInv == MailboxInv /\ [Next]_vars => MailboxInv'
<1> SUFFICES ASSUME MailboxInv, [Next]_vars PROVE MailboxInv'
  OBVIOUS
<1>n. Cardinality(Slots) \in Nat
  BY MailboxAssumption, FS_CardinalityType
<1>1. ASSUME NEW op \in Operations, submit(op) PROVE MailboxInv'
  <2>1. PICK i \in Slots : /\ slots[i].state = "FREE"
                           /\ slots' = [slots EXCEPT ![i] = [state |-> "QUEUED",
                                 ticket |-> next_ticket, op |-> op, abandoned |-> FALSE]]
    BY <1>1 DEF submit, InState
  <2>2. slots' \in [Slots -> SlotRecord] /\ next_ticket <= TicketMax
    BY <1>1, <2>1 DEF submit, admitted, MailboxInv, TypeOK, SlotRecord
  <2>3. Used' = Used \cup {i} /\ i \notin Used
    BY <2>1, <2>2 DEF Used, MailboxInv, TypeOK
  <2>4. IsFiniteSet(Used) /\ IsFiniteSet(Used') /\ Used' \subseteq Slots
    BY MailboxAssumption, FS_Subset DEF Used
  <2>5. Cardinality(Used') = Cardinality(Used) + 1 /\ Cardinality(Used) \in Nat
    BY <2>3, <2>4, FS_AddElement, FS_CardinalityType
  <2>6. Cardinality(Used') <= Cardinality(Slots)
    BY <2>4, MailboxAssumption, FS_Subset
  <2>7. OccupiedExact' /\ TypeOK'
    BY <1>1, <2>2, <2>5, <2>6, <1>n, MailboxAssumption
    DEF submit, MailboxInv, TypeOK, OccupiedExact
  <2>8. /\ slots'[i].state = "QUEUED" /\ slots'[i].ticket = next_ticket /\ slots'[i].op = op
        /\ \A j \in Slots \ {i} : slots'[j] = slots[j]
    BY <2>1 DEF MailboxInv, TypeOK
  <2>9. /\ next_ticket' = next_ticket + 1 /\ next_ticket \in Nat \ {0}
        /\ UNCHANGED <<running_ticket, resume_ticket, priority_burst, passed_over>>
    BY <1>1, MailboxAssumption DEF submit, MailboxInv, TypeOK
  <2>10. TicketsHandedOut'
    BY <1>1, <2>8, <2>9 DEF MailboxInv, TicketsHandedOut
  <2>11. ResumeOwned' /\ BypassCounted'
    BY <2>1, <2>8, <2>9 DEF MailboxInv, ResumeOwned, BypassCounted
  <2>12. running_ticket < next_ticket
    BY <2>9 DEF MailboxInv, TypeOK, OneRunning, TicketsHandedOut
  <2>13. OneRunning'
    BY <2>1, <2>8, <2>9, <2>12 DEF MailboxInv, TicketsHandedOut, OneRunning, Used, TypeOK
  <2> QED
    BY <2>7, <2>10, <2>11, <2>13 DEF MailboxInv
<1>2. CASE begin
  <2>1. PICK i \in Slots : /\ i \in Chosen
                           /\ slots[i].state = "QUEUED"
                           /\ slots' = [slots EXCEPT ![i].state = "RUNNING"]
                           /\ running_ticket' = slots[i].ticket
    BY <1>2 DEF begin, Chosen, High, Low, OtherLow, Resume, Candidates, Oldest, InState
  <2>2. slots' \in [Slots -> SlotRecord]
    BY <2>1 DEF MailboxInv, TypeOK, SlotRecord
  <2>3. /\ slots'[i].state = "RUNNING"
        /\ slots'[i].ticket = slots[i].ticket /\ slots'[i].op = slots[i].op
        /\ \A j \in Slots \ {i} : slots'[j] = slots[j]
    BY <2>1 DEF MailboxInv, TypeOK, SlotRecord
  <2>4. OccupiedExact'
    BY <2>1, <2>2, <2>3, <1>2, RestateCounts DEF begin
  <2>5. yield_to_other' \in BOOLEAN
    BY <1>2 DEF begin
  <2>6. slots[i].ticket \in 1..TicketMax /\ running_ticket = 0
    <3>1. slots[i].ticket \in 1..(next_ticket - 1)
      BY <2>1 DEF MailboxInv, TicketsHandedOut
    <3>2. next_ticket \in 1..(TicketMax + 1)
      BY DEF MailboxInv, TypeOK
    <3> QED
      BY <3>1, <3>2, <1>2, MailboxAssumption DEF begin
  <2>7. priority_burst' \in 0..PriorityBurst /\ passed_over' \in Nat /\ BypassCounted'
    BY <1>2, MailboxAssumption DEF begin, TakeHigh, MailboxInv, TypeOK, BypassCounted
  <2>8. TypeOK'
    BY <2>1, <2>2, <2>5, <2>6, <2>7, <1>2, MailboxAssumption DEF begin, MailboxInv, TypeOK
  <2>9. TicketsHandedOut' /\ ResumeOwned'
    BY <2>1, <2>3, <1>2 DEF begin, MailboxInv, TicketsHandedOut, ResumeOwned
  <2>10. OneRunning'
    <3>1. Used' = Used
      BY <2>1, <2>3 DEF Used
    <3>2. \A j \in Slots : slots'[j].ticket = slots[j].ticket
      BY <2>3
    <3>3. \A j \in Slots : slots[j].state # "RUNNING"
      BY <2>6 DEF MailboxInv, OneRunning, TicketsHandedOut, TypeOK
    <3>4. \A j \in Slots \ {i} : slots[j].state # "FREE" => slots[j].ticket # slots[i].ticket
      BY <2>1 DEF MailboxInv, OneRunning, Used
    <3>5. \A j, k \in Used : slots[j].ticket = slots[k].ticket => j = k
      BY DEF MailboxInv, OneRunning
    <3>6. \A j, k \in Used' : slots'[j].ticket = slots'[k].ticket => j = k
      BY <3>1, <3>2, <3>5 DEF Used
    <3> QED
      BY <2>1, <2>3, <3>3, <3>4, <3>6 DEF OneRunning
  <2> QED
    BY <2>4, <2>7, <2>8, <2>9, <2>10 DEF MailboxInv
<1>3. CASE finish
  <2>1. PICK i \in Slots :
            /\ slots[i].state = "RUNNING" /\ slots[i].ticket = running_ticket
            /\ running_ticket' = 0
            /\ resume_ticket' = IF resume_ticket = slots[i].ticket THEN 0 ELSE resume_ticket
            /\ IF slots[i].abandoned
               THEN release(i)
               ELSE /\ slots' = [slots EXCEPT ![i].state = "DONE"]
                    /\ UNCHANGED occupied
            /\ UNCHANGED <<next_ticket, yield_to_other, priority_burst, passed_over>>
    BY <1>3 DEF finish, Running, InState
  <2>2. slots' \in [Slots -> SlotRecord] /\ OccupiedExact' /\ occupied' \in 0..Cardinality(Slots)
    <3>1. CASE slots[i].abandoned
      BY <2>1, <3>1, ReleaseCounts
    <3>2. CASE ~slots[i].abandoned
      <4>1. slots' \in [Slots -> SlotRecord]
        BY <2>1, <3>2 DEF MailboxInv, TypeOK, SlotRecord
      <4>2. slots'[i].state # "FREE" /\ \A j \in Slots \ {i} : slots'[j] = slots[j]
        BY <2>1, <3>2 DEF MailboxInv, TypeOK, SlotRecord
      <4>3. OccupiedExact'
        BY <2>1, <3>2, <4>1, <4>2, RestateCounts
      <4> QED
        BY <2>1, <3>2, <4>1, <4>3 DEF MailboxInv, TypeOK
    <3> QED
      BY <3>1, <3>2
  <2>3. /\ \/ slots'[i] = FreeSlot
           \/ /\ slots'[i].state = "DONE" /\ slots'[i].ticket = slots[i].ticket
              /\ slots'[i].op = slots[i].op
        /\ \A j \in Slots \ {i} : slots'[j] = slots[j]
    BY <2>1 DEF release, MailboxInv, TypeOK, SlotRecord
  <2>4. TypeOK'
    <3>1. yield_to_other' \in BOOLEAN
      BY <2>1 DEF MailboxInv, TypeOK
    <3> QED
      BY <2>1, <2>2, <3>1, MailboxAssumption DEF MailboxInv, TypeOK
  <2>5. TicketsHandedOut' /\ BypassCounted'
    BY <2>1, <2>3 DEF MailboxInv, TicketsHandedOut, BypassCounted, FreeSlot
  <2>6. OneRunning'
    BY <2>1, <2>3 DEF MailboxInv, OneRunning, Used, FreeSlot, TicketsHandedOut, TypeOK
  <2>7. ResumeOwned'
    BY <2>1, <2>3 DEF MailboxInv, ResumeOwned, FreeSlot
  <2> QED
    BY <2>2, <2>4, <2>5, <2>6, <2>7 DEF MailboxInv
<1>4. CASE yield
  <2>1. PICK i \in Slots :
            /\ slots[i].state = "RUNNING" /\ slots[i].ticket = running_ticket
            /\ file_work(slots[i].op)
            /\ slots' = [slots EXCEPT ![i].state = "QUEUED"]
            /\ running_ticket' = 0
            /\ resume_ticket' = slots[i].ticket
            /\ yield_to_other' = TRUE
            /\ UNCHANGED <<next_ticket, occupied, priority_burst, passed_over>>
    BY <1>4 DEF yield, Running, InState
  <2>2. slots' \in [Slots -> SlotRecord]
    BY <2>1 DEF MailboxInv, TypeOK, SlotRecord
  <2>3. /\ slots'[i].state = "QUEUED"
        /\ slots'[i].ticket = slots[i].ticket /\ slots'[i].op = slots[i].op
        /\ \A j \in Slots \ {i} : slots'[j] = slots[j]
    BY <2>1 DEF MailboxInv, TypeOK, SlotRecord
  <2>4. OccupiedExact'
    BY <2>1, <2>2, <2>3, RestateCounts
  <2>5. TypeOK'
    <3>1. yield_to_other' \in BOOLEAN
      BY <2>1
    <3>2. running_ticket' \in 0..TicketMax /\ resume_ticket' \in 0..TicketMax
      BY <2>1, MailboxAssumption DEF MailboxInv, TypeOK
    <3> QED
      BY <2>1, <2>2, <3>1, <3>2 DEF MailboxInv, TypeOK
  <2>6. TicketsHandedOut' /\ BypassCounted' /\ ResumeOwned'
    BY <2>1, <2>3 DEF MailboxInv, TicketsHandedOut, BypassCounted, ResumeOwned
  <2>7. OneRunning'
    BY <2>1, <2>3 DEF MailboxInv, OneRunning, Used, TicketsHandedOut, TypeOK
  <2> QED
    BY <2>4, <2>5, <2>6, <2>7 DEF MailboxInv
<1>5. ASSUME NEW i \in Slots, poll(i) \/ abandon(i) PROVE MailboxInv'
  <2>1. CASE slots[i].state = "DONE"
    <3>1. slots[i].state = "DONE" /\ release(i)
          /\ UNCHANGED <<next_ticket, running_ticket, resume_ticket, yield_to_other,
                         priority_burst, passed_over>>
      BY <1>5, <2>1 DEF poll, abandon
    <3>2. slots' \in [Slots -> SlotRecord] /\ OccupiedExact' /\ occupied' \in 0..Cardinality(Slots)
      BY <3>1, ReleaseCounts
    <3>3. slots'[i] = FreeSlot /\ \A j \in Slots \ {i} : slots'[j] = slots[j]
      BY <3>1 DEF release, MailboxInv, TypeOK
    <3>4. TypeOK'
      BY <3>1, <3>2 DEF MailboxInv, TypeOK
    <3>5. TicketsHandedOut' /\ BypassCounted' /\ ResumeOwned'
      BY <3>1, <3>3 DEF MailboxInv, TicketsHandedOut, BypassCounted, ResumeOwned, FreeSlot
    <3>6. OneRunning'
      BY <3>1, <3>3 DEF MailboxInv, OneRunning, Used, FreeSlot
    <3> QED
      BY <3>2, <3>4, <3>5, <3>6 DEF MailboxInv
  <2>2. CASE slots[i].state # "DONE"
    <3>1. /\ slots[i].state # "FREE" /\ slots' = [slots EXCEPT ![i].abandoned = TRUE]
          /\ UNCHANGED <<occupied, next_ticket, running_ticket, resume_ticket, yield_to_other,
                         priority_burst, passed_over>>
      BY <1>5, <2>2 DEF poll, abandon
    <3>2. slots' \in [Slots -> SlotRecord]
      BY <3>1 DEF MailboxInv, TypeOK, SlotRecord
    <3>3. /\ slots'[i].state = slots[i].state
          /\ slots'[i].ticket = slots[i].ticket /\ slots'[i].op = slots[i].op
          /\ \A j \in Slots \ {i} : slots'[j] = slots[j]
      BY <3>1 DEF MailboxInv, TypeOK, SlotRecord
    <3>4. OccupiedExact'
      BY <3>1, <3>2, <3>3, RestateCounts
    <3>5. TypeOK'
      BY <3>1, <3>2 DEF MailboxInv, TypeOK
    <3>6. TicketsHandedOut' /\ BypassCounted' /\ ResumeOwned'
      BY <3>1, <3>3 DEF MailboxInv, TicketsHandedOut, BypassCounted, ResumeOwned
    <3>7. OneRunning'
      BY <3>1, <3>3 DEF MailboxInv, OneRunning, Used
    <3> QED
      BY <3>4, <3>5, <3>6, <3>7 DEF MailboxInv
  <2> QED
    BY <2>1, <2>2
<1>6. CASE UNCHANGED vars
  BY <1>6 DEF vars, MailboxInv, TypeOK, TicketsHandedOut, OccupiedExact, Used, OneRunning,
     ResumeOwned, BypassCounted
<1> QED
  BY <1>1, <1>2, <1>3, <1>4, <1>5, <1>6 DEF Next

(* The inductive invariant holds in every reachable state. *)
LEMMA MailboxInvariant == Spec => []MailboxInv
  BY InitMailboxInv, NextMailboxInv, PTL DEF Spec

(* For any number of slots and any order of calls: zj_mailbox_submit, poll,  *)
(* abandon and finish keep the occupancy counter equal to the slots in use,  *)
(* zj_mailbox_begin hands out one request at a time under a ticket no other  *)
(* slot carries, and the hold of a yielded transaction has a live owner.     *)
THEOREM MailboxConsistentInvariant == Spec => []MailboxConsistent
<1>1. MailboxInv => MailboxConsistent
  BY DEF MailboxInv, MailboxConsistent
<1> QED
  BY <1>1, MailboxInvariant, PTL

(* Background work waits for at most ZJ_PRIORITY_BURST live starts in a row. *)
THEOREM BoundedBypassInvariant == Spec => []BoundedBypass
<1>1. MailboxInv => BoundedBypass
  BY MailboxAssumption DEF MailboxInv, BypassCounted, BoundedBypass, TypeOK
<1> QED
  BY <1>1, MailboxInvariant, PTL

(* A slot that zj_mailbox_begin starts is live work, the retained file       *)
(* transaction itself, or work that is admissible beside it.                 *)
LEMMA ChosenAdmissible ==
    ASSUME NEW i \in Chosen, file_work(slots[i].op), resume_ticket # 0
    PROVE  slots[i].ticket = resume_ticket
<1>1. i \in High \cup OtherLow \cup Resume
  BY DEF Chosen, Low
<1>2. i \in Candidates \cup Resume
  BY <1>1 DEF High, OtherLow, Oldest
<1> QED
  BY <1>2 DEF Candidates, Resume

(* While a file transaction is retained, zj_mailbox_begin starts no other    *)
(* file request, for any number of slots and any order of calls.             *)
THEOREM FileWorkExclusiveAlways == Spec => FileWorkExclusive
<1>1. ASSUME MailboxInv, [Next]_vars, NEW i \in Slots,
             slots[i].state = "QUEUED", slots'[i].state = "RUNNING",
             file_work(slots[i].op), resume_ticket # 0
      PROVE  slots[i].ticket = resume_ticket
  <2>0. slots \in [Slots -> SlotRecord]
    BY <1>1 DEF MailboxInv, TypeOK
  <2>1. CASE begin
    <3>1. PICK k \in Chosen : slots' = [slots EXCEPT ![k].state = "RUNNING"]
      BY <2>1 DEF begin
    <3>2. k = i
      BY <1>1, <2>0, <3>1
    <3> QED
      BY <1>1, <3>1, <3>2, ChosenAdmissible
  <2>2. CASE \E op \in Operations : submit(op)
    BY <1>1, <2>0, <2>2 DEF submit, InState
  <2>3. CASE finish
    BY <1>1, <2>0, <2>3 DEF finish, Running, InState, release, FreeSlot
  <2>4. CASE yield
    BY <1>1, <2>0, <2>4 DEF yield, Running, InState
  <2>5. CASE \E k \in Slots : poll(k) \/ abandon(k)
    BY <1>1, <2>0, <2>5 DEF poll, abandon, release, FreeSlot, SlotRecord
  <2>6. CASE UNCHANGED vars
    BY <1>1, <2>6 DEF vars
  <2> QED
    BY <1>1, <2>1, <2>2, <2>3, <2>4, <2>5, <2>6 DEF Next
<1>2. MailboxInv /\ [Next]_vars =>
        [\A i \in Slots :
            (/\ slots[i].state = "QUEUED"
             /\ slots'[i].state = "RUNNING"
             /\ file_work(slots[i].op)
             /\ resume_ticket # 0) => slots[i].ticket = resume_ticket]_vars
  BY <1>1
<1> QED
  BY <1>2, MailboxInvariant, PTL DEF Spec, FileWorkExclusive

Background == {i \in Used : ~priority(slots[i].op)}

(* Only zj_mailbox_submit brings background work into the mailbox, one       *)
(* request at a time; the other methods only let go of it.                   *)
LEMMA BackgroundSubmitted ==
    ASSUME MailboxInv, [Next]_vars
    PROVE \/ Background' \subseteq Background
          \/ \E i \in Slots : /\ Background' \subseteq Background \cup {i}
                             /\ occupied < Cardinality(Slots) - LiveReservedSlots
<1>0. slots \in [Slots -> SlotRecord]
  BY DEF MailboxInv, TypeOK
<1>1. ASSUME NEW op \in Operations, submit(op)
      PROVE \/ Background' \subseteq Background
            \/ \E i \in Slots : /\ Background' \subseteq Background \cup {i}
                               /\ occupied < Cardinality(Slots) - LiveReservedSlots
  <2>1. PICK i \in Slots : slots' = [slots EXCEPT ![i] = [state |-> "QUEUED",
                               ticket |-> next_ticket, op |-> op, abandoned |-> FALSE]]
    BY <1>1 DEF submit, InState
  <2>2. slots'[i].op = op /\ \A j \in Slots \ {i} : slots'[j] = slots[j]
    BY <1>0, <2>1
  <2>3. CASE priority(op)
    BY <2>2, <2>3 DEF Background, Used
  <2>4. CASE ~priority(op)
    BY <1>1, <2>2, <2>4 DEF submit, admitted, Background, Used
  <2> QED
    BY <2>3, <2>4
<1>2. CASE begin
  <2>1. PICK i \in Slots : /\ slots[i].state = "QUEUED"
                           /\ slots' = [slots EXCEPT ![i].state = "RUNNING"]
    BY <1>2 DEF begin, Chosen, High, Low, OtherLow, Resume, Candidates, Oldest, InState
  <2>2. slots'[i].op = slots[i].op /\ \A j \in Slots \ {i} : slots'[j] = slots[j]
    BY <1>0, <2>1 DEF SlotRecord
  <2> QED
    BY <2>1, <2>2 DEF Background, Used
<1>3. CASE finish \/ yield
  <2>1. PICK i \in Slots :
           /\ slots[i].state = "RUNNING"
           /\ slots' \in {[slots EXCEPT ![i] = FreeSlot], [slots EXCEPT ![i].state = "DONE"],
                         [slots EXCEPT ![i].state = "QUEUED"]}
    BY <1>3 DEF finish, yield, Running, InState, release
  <2>2. /\ slots'[i].op = slots[i].op \/ slots'[i].state = "FREE"
        /\ \A j \in Slots \ {i} : slots'[j] = slots[j]
    BY <1>0, <2>1 DEF SlotRecord, FreeSlot
  <2> QED
    BY <2>1, <2>2 DEF Background, Used
<1>4. ASSUME NEW i \in Slots, poll(i) \/ abandon(i) PROVE Background' \subseteq Background
  <2>1. /\ slots[i].state # "FREE"
        /\ slots' \in {[slots EXCEPT ![i] = FreeSlot], [slots EXCEPT ![i].abandoned = TRUE]}
    BY <1>4 DEF poll, abandon, release
  <2>2. /\ slots'[i].op = slots[i].op \/ slots'[i].state = "FREE"
        /\ \A j \in Slots \ {i} : slots'[j] = slots[j]
    BY <1>0, <2>1 DEF SlotRecord, FreeSlot
  <2> QED
    BY <2>1, <2>2 DEF Background, Used
<1>5. CASE UNCHANGED vars
  BY <1>5 DEF vars, Background, Used
<1> QED
  BY <1>1, <1>2, <1>3, <1>4, <1>5 DEF Next

LEMMA NextLiveReserve == MailboxInv /\ LiveReserve /\ [Next]_vars => LiveReserve'
<1> SUFFICES ASSUME MailboxInv, LiveReserve, [Next]_vars PROVE LiveReserve'
  OBVIOUS
<1>1. IsFiniteSet(Used) /\ IsFiniteSet(Background) /\ Background \subseteq Used
  BY MailboxAssumption, FS_Subset DEF Background, Used
<1>2. /\ Cardinality(Background) <= Cardinality(Slots) - LiveReservedSlots
      /\ LiveReserve' <=> Cardinality(Background') <= Cardinality(Slots) - LiveReservedSlots
  BY DEF LiveReserve, Background, Used
<1>3. /\ Cardinality(Background) \in Nat /\ Cardinality(Slots) \in Nat /\ LiveReservedSlots \in Nat
      /\ Cardinality(Background) <= Cardinality(Used) /\ Cardinality(Used) \in Nat
      /\ occupied = Cardinality(Used)
  BY <1>1, MailboxAssumption, FS_Subset, FS_CardinalityType DEF MailboxInv, OccupiedExact
<1>4. CASE Background' \subseteq Background
  <2>1. Cardinality(Background') <= Cardinality(Background) /\ Cardinality(Background') \in Nat
    BY <1>1, <1>4, FS_Subset, FS_CardinalityType
  <2> QED
    BY <1>2, <1>3, <2>1
<1>5. CASE \E i \in Slots : /\ Background' \subseteq Background \cup {i}
                          /\ occupied < Cardinality(Slots) - LiveReservedSlots
  <2>1. PICK i \in Slots : /\ Background' \subseteq Background \cup {i}
                           /\ occupied < Cardinality(Slots) - LiveReservedSlots
    BY <1>5
  <2>2. IsFiniteSet(Background \cup {i})
        /\ Cardinality(Background \cup {i}) <= Cardinality(Background) + 1
    <3>1. IsFiniteSet(Background \cup {i})
      BY <1>1, FS_AddElement
    <3>2. Cardinality(Background \cup {i}) = Cardinality(Background)
          \/ Cardinality(Background \cup {i}) = Cardinality(Background) + 1
      BY <1>1, FS_AddElement
    <3> QED
      BY <1>3, <3>1, <3>2
  <2>3. Cardinality(Background') <= Cardinality(Background \cup {i})
        /\ Cardinality(Background') \in Nat /\ Cardinality(Background \cup {i}) \in Nat
    BY <2>1, <2>2, FS_Subset, FS_CardinalityType
  <2> QED
    BY <1>2, <1>3, <2>1, <2>2, <2>3
<1> QED
  BY <1>4, <1>5, BackgroundSubmitted

(* Background requests never take the slots zj_mailbox_submit reserves for   *)
(* APPEND and SETTLE, for any number of slots and any order of calls.        *)
THEOREM LiveReserveInvariant == Spec => []LiveReserve
<1>1. Init => LiveReserve
  <2> SUFFICES ASSUME Init PROVE LiveReserve
    OBVIOUS
  <2>1. {i \in Used : ~priority(slots[i].op)} = {}
    BY DEF Init, Used, FreeSlot
  <2>2. Cardinality(Slots) \in Nat
    BY MailboxAssumption, FS_CardinalityType
  <2>3. Cardinality({i \in Used : ~priority(slots[i].op)}) = 0
    BY <2>1, FS_EmptySet
  <2> QED
    BY <2>2, <2>3, MailboxAssumption DEF LiveReserve
<1> QED
  BY <1>1, NextLiveReserve, MailboxInvariant, PTL DEF Spec
=============================================================================
