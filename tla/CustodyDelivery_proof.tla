----------------------- MODULE CustodyDelivery_proof -----------------------
(***************************************************************************)
(* For any number of packets, fragments, slots and faults: capture,        *)
(* delivery and the mailbox agree (DeliveryConsistent), and together they  *)
(* implement the custody promise (ImplementsCustody).  The invariant says  *)
(* what an append that is still queued may become: its entry is new, it is *)
(* not ahead of the capture task, and the fragment before it is in the     *)
(* log.                                                                    *)
(***************************************************************************)
EXTENDS CustodyDelivery, TLAPS

Logged(l, e) == \E k \in 1..Len(l) : l[k] = e
Predecessor(e) == <<e[1], e[2] - 1>>

(* The capture task has reached e: it submitted e, or gave up its packet.  *)
Reached(e, c) ==
    \/ e[1] < c.attempt
    \/ e[1] = c.attempt /\ c.phase = "idle"
    \/ e[1] = c.attempt /\ e[2] < c.frag
    \/ e[1] = c.attempt /\ e[2] = c.frag /\ c.phase = "wait"

Appending(q) == q.state = "QUEUED" /\ q.op = "APPEND"

(* An append that is not executed yet may be executed at any later time.   *)
AppendsNew ==
    \A s \in Slots : Appending(slots[s]) =>
        /\ slots[s].entry \in Entries
        /\ Reached(slots[s].entry, cap)
        /\ ~Logged(log, slots[s].entry)
        /\ slots[s].entry[2] > 1 => Logged(log, Predecessor(slots[s].entry))
        /\ \A t \in Slots : Appending(slots[t]) /\ slots[t].entry = slots[s].entry => t = s

(* What a reply says is true, and a settlement is asked for what ADD took. *)
RepliesTrue ==
    \A s \in Slots :
        /\ slots[s].state = "DONE" /\ slots[s].op = "APPEND" /\ slots[s].result = "OK"
              => Logged(log, slots[s].entry)
        /\ slots[s].state = "DONE" /\ slots[s].op = "PEEK" /\ slots[s].result = "OK"
              => slots[s].item.entry \in Entries
        /\ slots[s].state = "QUEUED" /\ slots[s].op = "SETTLE" => slots[s].item.entry \in receipts

CaptureTrue ==
    /\ cap.phase = "submit" => cap.ticket = 0
    /\ cap.phase = "wait" => cap.ticket # 0 /\ slots[cap.ticket].entry = <<cap.attempt, cap.frag>>
    /\ cap.ticket # 0 => slots[cap.ticket].op = "APPEND"
    /\ cap.phase # "idle" =>
          /\ cap.attempt > 0
          /\ \A f \in 1..(cap.frag - 1) : Logged(log, <<cap.attempt, f>>)

DeliveryTrue ==
    /\ del.ticket # 0 <=> del.phase \in {"WAIT", "ABANDON"}
    /\ del.ticket # 0 => del.op # "NONE" /\ slots[del.ticket].op = del.op
    /\ del.phase \in {"ENCODE", "SEND", "ACK"} => del.item.entry \in Entries
    /\ del.phase = "SUBMIT_SETTLE" => del.item.entry \in receipts

LogReached == \A k \in 1..Len(log) : Reached(log[k], cap)

DeliveryInv ==
    /\ TypeOK /\ TicketsOwned /\ FragmentsInOrder /\ RetiredOnlyReceipted
    /\ AppendsNew /\ RepliesTrue /\ CaptureTrue /\ DeliveryTrue /\ LogReached

-----------------------------------------------------------------------------
LEMMA FreeTyped == FreeSlot \in SlotRecord /\ NoItem \in Items
  BY DEF FreeSlot, SlotRecord, NoItem, Items

LEMMA InitDelivery == Init => DeliveryInv
  <1> SUFFICES ASSUME Init PROVE DeliveryInv
    OBVIOUS
  <1> USE DeliveryAssumption DEF Init
  <1>1. Len(log) = 0 /\ log \in Seq(Entries)
    OBVIOUS
  <1>2. TypeOK
    <2>1. slots \in [Slots -> SlotRecord]
      BY FreeTyped
    <2>2. /\ cap \in [attempt : 0..Attempts, frag : 1..Fragments, phase : {"idle", "submit", "wait"},
                      ticket : 0..SlotsMax]
          /\ del \in [phase : Phases, op : {"NONE", "PEEK", "SETTLE", "RECLAIM"},
                      ticket : 0..SlotsMax, item : Items]
      BY FreeTyped DEF IdleCapture, IdleDelivery, Phases
    <2>3. online \in BOOLEAN
      OBVIOUS
    <2> QED
      BY <1>1, <2>1, <2>2, <2>3 DEF TypeOK
  <1>3. TicketsOwned /\ FragmentsInOrder /\ RetiredOnlyReceipted
    BY <1>1 DEF TicketsOwned, FragmentsInOrder, RetiredOnlyReceipted, FreeSlot, IdleCapture,
       IdleDelivery, Slots
  <1>4. AppendsNew /\ RepliesTrue /\ CaptureTrue /\ DeliveryTrue /\ LogReached
    BY <1>1 DEF AppendsNew, Appending, RepliesTrue, CaptureTrue, DeliveryTrue, LogReached, FreeSlot,
       IdleCapture, IdleDelivery
  <1> QED
    BY <1>2, <1>3, <1>4 DEF DeliveryInv

-----------------------------------------------------------------------------
(* The four changes of a slot: submission, execution, and the two ways it  *)
(* is given back.                                                          *)

Results == {"NONE", "OK", "EMPTY", "STALE", "IO", "UNCERTAIN"}
Operations == {"APPEND", "PEEK", "SETTLE", "RECLAIM"}

LEMMA SlotRequested ==
    ASSUME TypeOK, NEW s \in Slots, NEW op \in Operations, NEW e \in Nat \X Nat, NEW i \in Items,
           slots' = [slots EXCEPT ![s] = Request(op, e, i)]
    PROVE /\ slots' \in [Slots -> SlotRecord]
          /\ \A t \in Slots : t # s => slots'[t] = slots[t]
          /\ slots'[s].state = "QUEUED" /\ slots'[s].op = op /\ slots'[s].entry = e
          /\ slots'[s].item = i /\ slots'[s].abandoned = FALSE
  <1>1. /\ Request(op, e, i) \in SlotRecord
        /\ Request(op, e, i).state = "QUEUED" /\ Request(op, e, i).op = op
        /\ Request(op, e, i).entry = e /\ Request(op, e, i).item = i
        /\ Request(op, e, i).abandoned = FALSE
    BY Zenon DEF Request, FreeSlot, SlotRecord, Operations, NoItem
  <1> QED
    BY <1>1 DEF TypeOK

LEMMA SlotFinished ==
    ASSUME TypeOK, NEW s \in Slots, NEW r \in Results, NEW i \in Items, slots' = Finished(s, r, i)
    PROVE /\ slots' \in [Slots -> SlotRecord]
          /\ \A t \in Slots : t # s => slots'[t] = slots[t]
          /\ slots[s].abandoned => slots'[s] = FreeSlot
          /\ ~slots[s].abandoned =>
                /\ slots'[s].state = "DONE" /\ slots'[s].op = slots[s].op
                /\ slots'[s].entry = slots[s].entry /\ slots'[s].item = i
                /\ slots'[s].result = r /\ slots'[s].abandoned = FALSE
  <1>1. slots[s] \in SlotRecord
    BY DEF TypeOK
  <1>2. [slots[s] EXCEPT !.state = "DONE", !.result = r, !.item = i] \in SlotRecord
    BY <1>1, Zenon DEF SlotRecord, Results
  <1> QED
    BY <1>1, <1>2, FreeTyped DEF TypeOK, Finished, SlotRecord

LEMMA SlotAbandoned ==
    ASSUME TypeOK, NEW s \in Slots, slots' = Abandoned(s)
    PROVE /\ slots' \in [Slots -> SlotRecord]
          /\ \A t \in Slots : t # s => slots'[t] = slots[t]
          /\ slots[s].state = "DONE" => slots'[s] = FreeSlot
          /\ slots[s].state # "DONE" =>
                /\ slots'[s].abandoned = TRUE /\ slots'[s].state = slots[s].state
                /\ slots'[s].op = slots[s].op /\ slots'[s].entry = slots[s].entry
                /\ slots'[s].item = slots[s].item /\ slots'[s].result = slots[s].result
  <1>1. slots[s] \in SlotRecord
    BY DEF TypeOK
  <1>2. [slots[s] EXCEPT !.abandoned = TRUE] \in SlotRecord
    BY <1>1, Zenon DEF SlotRecord
  <1> QED
    BY <1>1, <1>2, FreeTyped DEF TypeOK, Abandoned, SlotRecord

LEMMA SlotFreed ==
    ASSUME TypeOK, NEW s \in Slots, slots' = [slots EXCEPT ![s] = FreeSlot]
    PROVE /\ slots' \in [Slots -> SlotRecord] /\ slots'[s] = FreeSlot
          /\ \A t \in Slots : t # s => slots'[t] = slots[t]
  BY FreeTyped DEF TypeOK

-----------------------------------------------------------------------------
(* The log *)

LEMMA LogAppended ==
    ASSUME NEW l \in Seq(Entries), NEW e \in Entries, NEW l2, l2 = Append(l, e)
    PROVE /\ l2 \in Seq(Entries) /\ Len(l2) = Len(l) + 1 /\ l2[Len(l) + 1] = e
          /\ \A k \in 1..Len(l) : l2[k] = l[k]
          /\ \A x : Logged(l2, x) <=> (Logged(l, x) \/ x = e)
  <1>1. /\ l2 \in Seq(Entries) /\ Len(l2) = Len(l) + 1 /\ l2[Len(l) + 1] = e
        /\ \A k \in 1..Len(l) : l2[k] = l[k]
    OBVIOUS
  <1>2. Len(l) \in Nat
    OBVIOUS
  <1> QED
    BY <1>1, <1>2 DEF Logged

(* What was logged stays logged. *)
LogGrows == \A x : Logged(log, x) => Logged(log', x)

-----------------------------------------------------------------------------
(* The storage task *)

LEMMA ExecutedKeeps ==
    ASSUME DeliveryInv, NEW s \in Slots, slots[s].state = "QUEUED", NEW r \in Results,
           NEW i \in Items, slots' = Finished(s, r, i), UNCHANGED <<cap, del, receipts>>, LogGrows
    PROVE TicketsOwned' /\ CaptureTrue' /\ DeliveryTrue' /\ slots' \in [Slots -> SlotRecord]
  <1>1. TypeOK
    BY DEF DeliveryInv
  <1>2. /\ slots' \in [Slots -> SlotRecord]
        /\ \A t \in Slots : t # s => slots'[t] = slots[t]
        /\ slots[s].abandoned => slots'[s] = FreeSlot
        /\ ~slots[s].abandoned =>
              /\ slots'[s].state = "DONE" /\ slots'[s].op = slots[s].op
              /\ slots'[s].entry = slots[s].entry /\ slots'[s].abandoned = FALSE
    BY <1>1, SlotFinished, Zenon
  <1>3. TicketsOwned'
    BY <1>2 DEF DeliveryInv, TicketsOwned, FreeSlot
  <1>4. s \in {cap.ticket, del.ticket} => ~slots[s].abandoned
    BY DEF DeliveryInv, TicketsOwned
  <1>5. cap.ticket \in Slots \cup {0} /\ del.ticket \in Slots \cup {0}
    BY <1>1, DeliveryAssumption DEF TypeOK, Slots
  <1>6. CaptureTrue'
    BY <1>2, <1>4, <1>5 DEF DeliveryInv, CaptureTrue, LogGrows
  <1>7. DeliveryTrue'
    BY <1>2, <1>4, <1>5 DEF DeliveryInv, DeliveryTrue
  <1> QED
    BY <1>2, <1>3, <1>6, <1>7

LEMMA FaultTyped ==
    ASSUME TypeOK, Fault \/ UNCHANGED faults PROVE faults' \in 0..MaxFaults
  BY DeliveryAssumption DEF TypeOK, Fault

LEMMA AppendKeeps == ASSUME DeliveryInv, NEW s \in Slots, execute_append(s) PROVE DeliveryInv'
  <1> DEFINE e == slots[s].entry
  <1>1. TypeOK /\ Appending(slots[s]) /\ UNCHANGED <<cursor, freed, cap, preserved, del, online, inflight, receipts>>
    BY DEF DeliveryInv, execute_append, Appending
  <1>2. /\ e \in Entries /\ Reached(e, cap) /\ ~Logged(log, e)
        /\ e[2] > 1 => Logged(log, Predecessor(e))
        /\ \A t \in Slots : Appending(slots[t]) /\ slots[t].entry = e => t = s
    BY <1>1 DEF DeliveryInv, AppendsNew
  <1>3. PICK r \in Results : /\ slots' = Finished(s, r, NoItem)
                             /\ log' = Append(log, e) \/ (log' = log /\ r # "OK")
    <2>1. \/ slots' = Finished(s, "OK", NoItem) /\ log' = Append(log, e)
          \/ slots' = Finished(s, "UNCERTAIN", NoItem) /\ (log' = Append(log, e) \/ log' = log)
      BY DEF execute_append
    <2> QED
      BY <2>1 DEF Results
  <1>4. \/ log' = log
        \/ /\ log' \in Seq(Entries) /\ Len(log') = Len(log) + 1 /\ log'[Len(log) + 1] = e
           /\ \A k \in 1..Len(log) : log'[k] = log[k]
           /\ \A x : Logged(log', x) <=> (Logged(log, x) \/ x = e)
    BY <1>1, <1>2, <1>3, LogAppended DEF TypeOK
  <1>5. LogGrows /\ (r = "OK" => Logged(log', e))
    BY <1>3, <1>4, <1>1, <1>2, LogAppended DEF LogGrows, TypeOK
  <1>6. TicketsOwned' /\ CaptureTrue' /\ DeliveryTrue' /\ slots' \in [Slots -> SlotRecord]
    BY <1>1, <1>3, <1>5, FreeTyped, ExecutedKeeps DEF Appending
  <1>7. Len(log) \in Nat /\ cursor \in 0..Len(log) /\ freed \in 0..cursor
    BY <1>1 DEF TypeOK
  <1>8. TypeOK'
    <2>1. faults' \in 0..MaxFaults
      BY <1>1, FaultTyped DEF execute_append
    <2>2. log' \in Seq(Entries) /\ cursor' \in 0..Len(log') /\ freed' \in 0..cursor'
      BY <1>1, <1>4, <1>7 DEF TypeOK
    <2> QED
      BY <1>1, <1>6, <2>1, <2>2 DEF TypeOK
  <1>9. FragmentsInOrder'
    <2>1. CASE log' = log
      BY <2>1, Zenon DEF DeliveryInv, FragmentsInOrder
    <2>2. CASE log' # log
      <3>1. /\ Len(log') = Len(log) + 1 /\ log'[Len(log) + 1] = e
            /\ \A k \in 1..Len(log) : log'[k] = log[k]
        BY <1>4, <2>2
      <3>2. ASSUME NEW k \in 1..Len(log')
            PROVE  /\ \A j \in 1..(k - 1) : log'[j] # log'[k]
                   /\ log'[k][2] > 1 => \E j \in 1..(k - 1) : log'[j] = <<log'[k][1], log'[k][2] - 1>>
        <4>1. CASE k = Len(log) + 1
          <5>1. \A j \in 1..Len(log) : log[j] # e
            BY <1>2 DEF Logged
          <5>2. e[2] > 1 => \E j \in 1..Len(log) : log[j] = <<e[1], e[2] - 1>>
            BY <1>2 DEF Logged, Predecessor
          <5> QED
            BY <1>7, <3>1, <4>1, <5>1, <5>2
        <4>2. CASE k \in 1..Len(log)
          <5>1. \A j \in 1..(k - 1) : j \in 1..Len(log) /\ log'[j] = log[j]
            BY <1>7, <3>1, <4>2
          <5> QED
            BY <3>1, <4>2, <5>1, Zenon DEF DeliveryInv, FragmentsInOrder
        <4> QED
          BY <1>7, <3>1, <3>2, <4>1, <4>2
      <3> QED
        BY <3>2, Zenon DEF FragmentsInOrder
    <2> QED
      BY <2>1, <2>2
  <1>10. RetiredOnlyReceipted' /\ LogReached'
    BY <1>1, <1>2, <1>4, <1>7 DEF DeliveryInv, RetiredOnlyReceipted, LogReached
  <1>11. /\ \A t \in Slots : t # s => slots'[t] = slots[t]
         /\ slots'[s].state # "QUEUED"
         /\ slots'[s].state = "DONE" => /\ slots'[s].op = "APPEND" /\ slots'[s].entry = e
                                        /\ slots'[s].result = r
    <2>1. /\ \A t \in Slots : t # s => slots'[t] = slots[t]
          /\ slots[s].abandoned => slots'[s] = FreeSlot
          /\ ~slots[s].abandoned => /\ slots'[s].state = "DONE" /\ slots'[s].op = slots[s].op
                                    /\ slots'[s].entry = slots[s].entry /\ slots'[s].result = r
      BY <1>1, <1>3, SlotFinished, FreeTyped, Zenon
    <2> QED
      BY <1>1, <2>1 DEF FreeSlot, Appending
  <1>12. AppendsNew'
    BY <1>1, <1>2, <1>4, <1>11 DEF DeliveryInv, AppendsNew, Appending
  <1>13. RepliesTrue'
    BY <1>1, <1>4, <1>5, <1>11 DEF DeliveryInv, RepliesTrue, LogGrows
  <1> QED
    BY <1>6, <1>8, <1>9, <1>10, <1>12, <1>13 DEF DeliveryInv

(* An operation that leaves the log alone. *)
LEMMA ReadKeeps ==
    ASSUME DeliveryInv, NEW s \in Slots, slots[s].state = "QUEUED", slots[s].op # "APPEND",
           NEW r \in Results, NEW i \in Items, slots' = Finished(s, r, i),
           slots[s].op = "PEEK" /\ r = "OK" => i.entry \in Entries,
           UNCHANGED <<log, cap, preserved, del, online, inflight, receipts>>,
           Fault \/ UNCHANGED faults,
           cursor' \in 0..Len(log), freed' \in 0..cursor', RetiredOnlyReceipted'
    PROVE DeliveryInv'
  <1>1. TypeOK
    BY DEF DeliveryInv
  <1>2. TicketsOwned' /\ CaptureTrue' /\ DeliveryTrue' /\ slots' \in [Slots -> SlotRecord]
    BY ExecutedKeeps DEF LogGrows
  <1>3. TypeOK'
    BY <1>1, <1>2, FaultTyped DEF TypeOK
  <1>4. FragmentsInOrder' /\ LogReached'
    BY Zenon DEF DeliveryInv, FragmentsInOrder, LogReached
  <1>5. /\ \A t \in Slots : t # s => slots'[t] = slots[t]
        /\ slots'[s].state # "QUEUED"
        /\ slots'[s].state = "DONE" => /\ slots'[s].op = slots[s].op /\ slots'[s].item = i
                                       /\ slots'[s].result = r
    <2>1. /\ \A t \in Slots : t # s => slots'[t] = slots[t]
          /\ slots[s].abandoned => slots'[s] = FreeSlot
          /\ ~slots[s].abandoned => /\ slots'[s].state = "DONE" /\ slots'[s].op = slots[s].op
                                    /\ slots'[s].item = i /\ slots'[s].result = r
      BY <1>1, SlotFinished, ZenonT(60)
    <2> QED
      BY <2>1 DEF FreeSlot
  <1>6. AppendsNew'
    BY <1>5 DEF DeliveryInv, AppendsNew, Appending
  <1>7. RepliesTrue'
    BY <1>5 DEF DeliveryInv, RepliesTrue
  <1> QED
    BY <1>2, <1>3, <1>4, <1>6, <1>7 DEF DeliveryInv

LEMMA PeekKeeps == ASSUME DeliveryInv, NEW s \in Slots, execute_peek(s) PROVE DeliveryInv'
  <1>1. /\ slots[s].state = "QUEUED" /\ slots[s].op = "PEEK"
        /\ UNCHANGED <<journal, cap, preserved, del, online, inflight, receipts>>
        /\ Fault \/ UNCHANGED faults
    BY DEF execute_peek
  <1>2. log \in Seq(Entries) /\ cursor \in 0..Len(log) /\ freed \in 0..cursor /\ RetiredOnlyReceipted'
    BY <1>1 DEF DeliveryInv, TypeOK, RetiredOnlyReceipted, journal
  <1>3. CASE slots' = Finished(s, "EMPTY", NoItem) \/ slots' = Finished(s, "IO", NoItem)
    BY <1>1, <1>2, <1>3, ReadKeeps, FreeTyped DEF Results, journal
  <1>4. CASE cursor < Len(log) /\ slots' = Finished(s, "OK", Item(cursor + 1))
    <2>1. log[cursor + 1] \in Entries
      BY <1>2, <1>4
    <2>2. Item(cursor + 1) \in Items /\ Item(cursor + 1).entry \in Entries
      BY <1>2, <2>1, DeliveryAssumption DEF Item, Items, Entries
    <2> QED
      BY <1>1, <1>2, <1>4, <2>2, ReadKeeps DEF Results, journal
  <1> QED
    BY <1>3, <1>4 DEF execute_peek

(* Only an entry with a receipt is settled, also by a stale request. *)
LEMMA SettleKeeps == ASSUME DeliveryInv, NEW s \in Slots, execute_settle(s) PROVE DeliveryInv'
  <1>1. /\ slots[s].state = "QUEUED" /\ slots[s].op = "SETTLE"
        /\ UNCHANGED <<log, freed, cap, preserved, del, online, inflight, receipts>>
        /\ Fault \/ UNCHANGED faults
        /\ cursor' = cursor \/ (cursor' = cursor + 1 /\ SettlesHead(s))
    BY DEF execute_settle
  <1>2. Len(log) \in Nat /\ cursor \in 0..Len(log) /\ freed \in 0..cursor
    BY DEF DeliveryInv, TypeOK
  <1>3. SettlesHead(s) => cursor < Len(log) /\ log[cursor + 1] \in receipts
    BY <1>1 DEF DeliveryInv, RepliesTrue, SettlesHead, Item
  <1>4. cursor' \in 0..Len(log) /\ freed' \in 0..cursor' /\ RetiredOnlyReceipted'
    BY <1>1, <1>2, <1>3 DEF DeliveryInv, RetiredOnlyReceipted
  <1>5. \/ slots' = Finished(s, "OK", NoItem) \/ slots' = Finished(s, "STALE", NoItem)
        \/ slots' = Finished(s, "UNCERTAIN", NoItem)
    BY DEF execute_settle
  <1> QED
    BY <1>1, <1>4, <1>5, ReadKeeps, FreeTyped DEF Results

LEMMA ReclaimKeeps == ASSUME DeliveryInv, NEW s \in Slots, execute_reclaim(s) PROVE DeliveryInv'
  <1>1. /\ slots[s].state = "QUEUED" /\ slots[s].op = "RECLAIM"
        /\ UNCHANGED <<log, cursor, cap, preserved, del, online, inflight, receipts>>
        /\ Fault \/ UNCHANGED faults
        /\ freed' = freed \/ freed' \in freed..cursor
    BY DEF execute_reclaim
  <1>2. /\ Len(log) \in Nat /\ cursor' \in 0..Len(log) /\ freed' \in 0..cursor'
        /\ RetiredOnlyReceipted'
    BY <1>1 DEF DeliveryInv, TypeOK, RetiredOnlyReceipted
  <1>3. \/ slots' = Finished(s, "OK", NoItem) \/ slots' = Finished(s, "EMPTY", NoItem)
        \/ slots' = Finished(s, "IO", NoItem)
    BY DEF execute_reclaim
  <1> QED
    BY <1>1, <1>2, <1>3, ReadKeeps, FreeTyped DEF Results

-----------------------------------------------------------------------------
(* Slots given back, by a poll or an abandonment *)

(* The capture task never falls behind what it has submitted. *)
CaptureAdvances == \A e \in Entries : Reached(e, cap) => Reached(e, cap')

LEMMA ReleaseKeeps ==
    ASSUME DeliveryInv, NEW s \in Slots,
           slots' = Abandoned(s) \/ slots' = [slots EXCEPT ![s] = FreeSlot],
           UNCHANGED <<log, receipts>>, CaptureAdvances
    PROVE /\ slots' \in [Slots -> SlotRecord]
          /\ AppendsNew' /\ RepliesTrue'
          /\ \A t \in Slots : t # s => slots'[t] = slots[t]
          /\ slots[s].state # "FREE" => slots'[s].state = "FREE" \/ slots'[s].abandoned
          /\ slots'[s] = FreeSlot \/ slots'[s].op = slots[s].op
  <1>1. TypeOK
    BY DEF DeliveryInv
  <1>2. /\ slots' \in [Slots -> SlotRecord]
        /\ \A t \in Slots : t # s => slots'[t] = slots[t]
        /\ \/ slots'[s] = FreeSlot
           \/ /\ slots'[s].abandoned = TRUE /\ slots'[s].state = slots[s].state
              /\ slots'[s].op = slots[s].op /\ slots'[s].entry = slots[s].entry
              /\ slots'[s].item = slots[s].item /\ slots'[s].result = slots[s].result
    BY <1>1, SlotAbandoned, SlotFreed, Zenon
  <1>3. AppendsNew'
    BY <1>2 DEF DeliveryInv, AppendsNew, Appending, CaptureAdvances, FreeSlot
  <1>4. RepliesTrue'
    BY <1>2 DEF DeliveryInv, RepliesTrue, FreeSlot
  <1>5. slots[s].state # "FREE" => slots'[s].state = "FREE" \/ slots'[s].abandoned
    BY <1>2 DEF FreeSlot
  <1> QED
    BY <1>2, <1>3, <1>4, <1>5

-----------------------------------------------------------------------------
(* The capture task *)

CaptureRecord == [attempt : 0..Attempts, frag : 1..Fragments, phase : {"idle", "submit", "wait"},
                  ticket : 0..SlotsMax]

LEMMA CaptureKeeps ==
    ASSUME DeliveryInv, UNCHANGED <<journal, del, online, inflight, receipts>>,
           Fault \/ UNCHANGED faults, preserved' \subseteq 1..Attempts,
           cap' \in CaptureRecord, slots' \in [Slots -> SlotRecord], CaptureAdvances,
           del.ticket # 0 => slots'[del.ticket].op = slots[del.ticket].op,
           TicketsOwned', CaptureTrue', AppendsNew', RepliesTrue'
    PROVE DeliveryInv'
  <1>1. TypeOK'
    BY FaultTyped DEF DeliveryInv, TypeOK, CaptureRecord, journal
  <1>2. FragmentsInOrder' /\ RetiredOnlyReceipted'
    BY Zenon DEF DeliveryInv, FragmentsInOrder, RetiredOnlyReceipted, journal
  <1>3. \A k \in 1..Len(log) : log[k] \in Entries
    BY DEF DeliveryInv, TypeOK
  <1>4. LogReached'
    BY <1>3 DEF DeliveryInv, LogReached, CaptureAdvances, journal
  <1>5. DeliveryTrue'
    BY DEF DeliveryInv, DeliveryTrue
  <1> QED
    BY <1>1, <1>2, <1>4, <1>5 DEF DeliveryInv

(* The fields the code changes, and where the capture task was before. *)
LEMMA CaptureTyped ==
    ASSUME DeliveryInv
    PROVE /\ cap \in CaptureRecord /\ cap.attempt \in 0..Attempts /\ cap.frag \in 1..Fragments
          /\ cap.ticket \in Slots \cup {0} /\ del.ticket \in Slots \cup {0}
          /\ del.ticket \in Slots => cap.ticket # del.ticket
          /\ 0 \notin Slots /\ Slots \subseteq 0..SlotsMax
          /\ \A e \in Entries : /\ e = <<e[1], e[2]>>
                                /\ e[1] \in 1..Attempts /\ e[2] \in 1..Fragments
  BY DeliveryAssumption DEF DeliveryInv, TypeOK, TicketsOwned, CaptureRecord, Slots, Entries

(* The capture task gives its ticket back. *)
LEMMA GiveBackKeeps ==
    ASSUME DeliveryInv, cap.ticket # 0,
           slots' = Abandoned(cap.ticket) \/ slots' = [slots EXCEPT ![cap.ticket] = FreeSlot],
           UNCHANGED <<journal, del, online, inflight, receipts>>,
           Fault \/ UNCHANGED faults, preserved' \subseteq 1..Attempts,
           cap' \in CaptureRecord, cap'.ticket = 0, CaptureAdvances, CaptureTrue'
    PROVE DeliveryInv'
  <1>1. cap.ticket \in Slots
    BY CaptureTyped
  <1>2. /\ slots' \in [Slots -> SlotRecord]
        /\ AppendsNew' /\ RepliesTrue'
        /\ \A t \in Slots : t # cap.ticket => slots'[t] = slots[t]
        /\ slots[cap.ticket].state # "FREE" =>
              slots'[cap.ticket].state = "FREE" \/ slots'[cap.ticket].abandoned
    BY <1>1, ReleaseKeeps DEF journal
  <1>3. TicketsOwned'
    BY <1>1, <1>2, CaptureTyped DEF DeliveryInv, TicketsOwned
  <1>4. del.ticket # 0 => slots'[del.ticket].op = slots[del.ticket].op
    BY <1>1, <1>2, CaptureTyped
  <1> QED
    BY <1>2, <1>3, <1>4, CaptureKeeps

LEMMA CaptureIdles ==
    ASSUME NEW c \in CaptureRecord, NEW f \in 1..Fragments, NEW p \in {"idle", "submit"}
    PROVE /\ [c EXCEPT !.phase = p, !.ticket = 0] \in CaptureRecord
          /\ [c EXCEPT !.frag = f, !.phase = p, !.ticket = 0] \in CaptureRecord
  <1>1. 0 \in 0..SlotsMax
    BY DeliveryAssumption
  <1> QED
    BY <1>1, Zenon DEF CaptureRecord

LEMMA StartKeeps == ASSUME DeliveryInv, capture_start PROVE DeliveryInv'
  <1>1. /\ cap.phase = "idle" /\ cap.attempt < Attempts
        /\ slots' = IF cap.ticket = 0 THEN slots ELSE Abandoned(cap.ticket)
        /\ cap' = [attempt |-> cap.attempt + 1, frag |-> 1, phase |-> "submit", ticket |-> 0]
        /\ UNCHANGED <<journal, preserved, del, online, inflight, receipts, faults>>
    BY DEF capture_start
  <1>2. cap' \in CaptureRecord
    BY <1>1, CaptureTyped, DeliveryAssumption DEF CaptureRecord
  <1>3. CaptureAdvances
    BY <1>1, CaptureTyped, DeliveryAssumption DEF CaptureAdvances, Reached
  <1>4. CaptureTrue'
    BY <1>1, CaptureTyped, DeliveryAssumption DEF CaptureTrue
  <1>5. CASE cap.ticket = 0
    <2>1. slots' = slots /\ slots \in [Slots -> SlotRecord] /\ TicketsOwned' /\ RepliesTrue' /\ AppendsNew'
      BY <1>1, <1>3, <1>5 DEF DeliveryInv, TicketsOwned, RepliesTrue, AppendsNew, CaptureAdvances,
         TypeOK, journal, Slots
    <2> QED
      BY <1>1, <1>2, <1>3, <1>4, <2>1, CaptureKeeps, SMTT(60) DEF DeliveryInv, TypeOK
  <1>6. CASE cap.ticket # 0
    <2>1. cap'.ticket = 0
      BY <1>1
    <2> QED
      BY <1>1, <1>2, <1>3, <1>4, <1>6, <2>1, GiveBackKeeps DEF DeliveryInv, TypeOK
  <1> QED
    BY <1>5, <1>6

LEMMA SubmitKeeps == ASSUME DeliveryInv, capture_submit PROVE DeliveryInv'
  <1>1. PICK s \in Slots :
          /\ slots[s].state = "FREE" /\ cap.phase = "submit"
          /\ slots' = [slots EXCEPT ![s] = Request("APPEND", <<cap.attempt, cap.frag>>, NoItem)]
          /\ cap' = [cap EXCEPT !.phase = "wait", !.ticket = s]
          /\ UNCHANGED <<journal, preserved, del, online, inflight, receipts, faults>>
    BY Zenon DEF capture_submit, CanSubmit
  <1> DEFINE e == <<cap.attempt, cap.frag>>
  <1>2. /\ cap' \in CaptureRecord /\ cap'.attempt = cap.attempt /\ cap'.frag = cap.frag
        /\ cap'.phase = "wait" /\ cap'.ticket = s /\ cap.ticket = 0
    BY <1>1, CaptureTyped, Zenon DEF CaptureRecord, DeliveryInv, CaptureTrue
  <1>3. cap.attempt \in 1..Attempts /\ e \in Entries /\ e \in Nat \X Nat
    BY <1>1, CaptureTyped, DeliveryAssumption DEF DeliveryInv, CaptureTrue, Entries
  <1>4. CaptureAdvances /\ Reached(e, cap')
    BY <1>1, <1>2, CaptureTyped DEF CaptureAdvances, Reached
  <1>5. \A x \in Entries : Reached(x, cap) => x # e
    BY <1>1, <1>3, CaptureTyped DEF Reached
  <1>6. ~Logged(log, e) /\ (e[2] > 1 => Logged(log, Predecessor(e)))
    <2>0. \A k \in 1..Len(log) : log[k] \in Entries
      BY DEF DeliveryInv, TypeOK
    <2>1. \A k \in 1..Len(log) : log[k] # e
      BY <1>5, <2>0 DEF DeliveryInv, LogReached
    <2>2. e[2] > 1 => Logged(log, <<cap.attempt, cap.frag - 1>>)
      <3>1. \A f \in 1..(cap.frag - 1) : Logged(log, <<cap.attempt, f>>)
        BY <1>1 DEF DeliveryInv, CaptureTrue
      <3>2. e[2] > 1 => cap.frag - 1 \in 1..(cap.frag - 1)
        BY CaptureTyped
      <3> QED
        BY <3>1, <3>2
    <2>3. Predecessor(e) = <<cap.attempt, cap.frag - 1>>
      BY DEF Predecessor
    <2> QED
      BY <2>1, <2>2, <2>3 DEF Logged
  <1>7. /\ slots' \in [Slots -> SlotRecord]
        /\ \A t \in Slots : t # s => slots'[t] = slots[t]
        /\ slots'[s].state = "QUEUED" /\ slots'[s].op = "APPEND" /\ slots'[s].entry = e
        /\ slots'[s].abandoned = FALSE
    BY <1>1, <1>3, SlotRequested, FreeTyped, Zenon DEF DeliveryInv, Operations
  <1>8. AppendsNew'
    BY <1>1, <1>3, <1>4, <1>5, <1>6, <1>7 DEF DeliveryInv, AppendsNew, Appending, CaptureAdvances, journal
  <1>9. RepliesTrue'
    BY <1>1, <1>7 DEF DeliveryInv, RepliesTrue, journal
  <1>10. s # del.ticket
    BY <1>1 DEF DeliveryInv, TicketsOwned
  <1>11. TicketsOwned'
    BY <1>1, <1>2, <1>7, <1>10, CaptureTyped DEF DeliveryInv, TicketsOwned
  <1>12. CaptureTrue'
    BY <1>1, <1>2, <1>7, CaptureTyped DEF DeliveryInv, CaptureTrue, journal
  <1>13. del.ticket # 0 => slots'[del.ticket].op = slots[del.ticket].op
    BY <1>7, <1>10, CaptureTyped
  <1> QED
    BY <1>1, <1>2, <1>4, <1>7, <1>8, <1>9, <1>11, <1>12, <1>13, CaptureKeeps, SMTT(60) DEF DeliveryInv, TypeOK

LEMMA RefusedKeeps == ASSUME DeliveryInv, capture_refused PROVE DeliveryInv'
  <1>1. /\ cap.phase = "submit" /\ cap' = [cap EXCEPT !.phase = "idle"]
        /\ UNCHANGED <<journal, slots, preserved, del, online, inflight, receipts>>
        /\ Fault \/ UNCHANGED faults
    BY DEF capture_refused
  <1>2. /\ cap' \in CaptureRecord /\ cap'.attempt = cap.attempt /\ cap'.phase = "idle"
        /\ cap'.ticket = cap.ticket
    BY <1>1, CaptureTyped DEF CaptureRecord
  <1>3. CaptureAdvances
    BY <1>2 DEF CaptureAdvances, Reached
  <1>4. TicketsOwned' /\ CaptureTrue' /\ AppendsNew' /\ RepliesTrue'
    BY <1>1, <1>2, <1>3 DEF DeliveryInv, TicketsOwned, CaptureTrue, AppendsNew, RepliesTrue,
       CaptureAdvances, journal
  <1> QED
    BY <1>1, <1>2, <1>3, <1>4, CaptureKeeps, SMTT(60) DEF DeliveryInv, TypeOK

LEMMA CommittedLogged ==
    ASSUME DeliveryInv, capture_committed
    PROVE /\ cap.ticket # 0 /\ cap.ticket \in Slots /\ cap.attempt \in 1..Attempts
          /\ \A f \in 1..cap.frag : Logged(log, <<cap.attempt, f>>)
  <1>1. cap.phase = "wait" /\ slots[cap.ticket].state = "DONE" /\ slots[cap.ticket].result = "OK"
    BY DEF capture_committed
  <1>2. cap.ticket # 0 /\ cap.ticket \in Slots /\ cap.attempt \in 1..Attempts
    BY <1>1, CaptureTyped DEF DeliveryInv, CaptureTrue
  <1>3. Logged(log, <<cap.attempt, cap.frag>>)
    BY <1>1, <1>2 DEF DeliveryInv, CaptureTrue, RepliesTrue
  <1>4. \A f \in 1..(cap.frag - 1) : Logged(log, <<cap.attempt, f>>)
    BY <1>1 DEF DeliveryInv, CaptureTrue
  <1>5. \A f \in 1..cap.frag : f = cap.frag \/ f \in 1..(cap.frag - 1)
    BY CaptureTyped
  <1> QED
    BY <1>2, <1>3, <1>4, <1>5

(* A committed fragment is in the log, so the next one follows it. *)
LEMMA CommittedKeeps == ASSUME DeliveryInv, capture_committed PROVE DeliveryInv'
  <1>1. /\ cap.phase = "wait" /\ slots[cap.ticket].state = "DONE" /\ slots[cap.ticket].result = "OK"
        /\ slots' = [slots EXCEPT ![cap.ticket] = FreeSlot]
        /\ UNCHANGED <<journal, del, online, inflight, receipts, faults>>
    BY DEF capture_committed
  <1>2. cap.ticket # 0 /\ cap.attempt \in 1..Attempts
    BY CommittedLogged
  <1>3. \A f \in 1..cap.frag : Logged(log, <<cap.attempt, f>>)
    BY CommittedLogged
  <1>4. CASE cap.frag < Fragments
    <2>1. cap' = [cap EXCEPT !.frag = cap.frag + 1, !.phase = "submit", !.ticket = 0] /\ UNCHANGED preserved
      BY <1>4, SMTT(60) DEF capture_committed
    <2>2. /\ cap' \in CaptureRecord /\ cap'.attempt = cap.attempt /\ cap'.frag = cap.frag + 1
          /\ cap'.phase = "submit" /\ cap'.ticket = 0
      <3>1. cap \in CaptureRecord /\ cap.frag + 1 \in 1..Fragments
        BY <1>4, CaptureTyped, DeliveryAssumption
      <3> QED
        BY <2>1, <3>1, CaptureIdles, Zenon DEF CaptureRecord
    <2>3. CaptureAdvances
      BY <1>1, <2>2, CaptureTyped DEF CaptureAdvances, Reached
    <2>4. CaptureTrue'
      BY <1>1, <1>2, <1>3, <2>2, CaptureTyped DEF CaptureTrue, journal
    <2>5. preserved' \subseteq 1..Attempts
      BY <2>1 DEF DeliveryInv, TypeOK
    <2> QED
      BY <1>1, <1>2, <2>2, <2>3, <2>4, <2>5, GiveBackKeeps
  <1>5. CASE ~(cap.frag < Fragments)
    <2>1. /\ cap' = [cap EXCEPT !.phase = "idle", !.ticket = 0]
          /\ preserved' = preserved \cup {cap.attempt}
      BY <1>5, SMTT(60) DEF capture_committed
    <2>2. /\ cap' \in CaptureRecord /\ cap'.attempt = cap.attempt
          /\ cap'.phase = "idle" /\ cap'.ticket = 0
      <3>1. cap \in CaptureRecord /\ cap.frag \in 1..Fragments
        BY CaptureTyped
      <3> QED
        BY <2>1, <3>1, CaptureIdles, Zenon DEF CaptureRecord
    <2>3. CaptureAdvances
      BY <1>1, <2>2, CaptureTyped DEF CaptureAdvances, Reached
    <2>4. CaptureTrue'
      BY <2>2 DEF CaptureTrue
    <2>5. preserved' \subseteq 1..Attempts
      BY <1>2, <2>1 DEF DeliveryInv, TypeOK
    <2> QED
      BY <1>1, <1>2, <2>2, <2>3, <2>4, <2>5, GiveBackKeeps
  <1> QED
    BY <1>4, <1>5

(* The packet ends without being preserved; its appends may still happen. *)
LEMMA GaveUpKeeps == ASSUME DeliveryInv, capture_append_failed \/ capture_timeout PROVE DeliveryInv'
  <1>1. /\ cap.phase = "wait"
        /\ UNCHANGED <<journal, preserved, del, online, inflight, receipts>>
        /\ Fault \/ UNCHANGED faults
    BY DEF capture_append_failed, capture_timeout
  <1>2. cap.ticket # 0 /\ cap.ticket \in Slots /\ preserved' \subseteq 1..Attempts
    BY <1>1, CaptureTyped, SMTT(60) DEF DeliveryInv, CaptureTrue, TypeOK
  <1>3. CASE /\ slots' = Abandoned(cap.ticket) \/ slots' = [slots EXCEPT ![cap.ticket] = FreeSlot]
             /\ cap' = [cap EXCEPT !.phase = "idle", !.ticket = 0]
    <2>1. /\ cap' \in CaptureRecord /\ cap'.attempt = cap.attempt
          /\ cap'.phase = "idle" /\ cap'.ticket = 0
      <3>1. cap \in CaptureRecord /\ cap.frag \in 1..Fragments
        BY CaptureTyped
      <3> QED
        BY <1>3, <3>1, CaptureIdles, Zenon DEF CaptureRecord
    <2>2. CaptureAdvances /\ CaptureTrue'
      BY <1>1, <2>1, CaptureTyped DEF CaptureAdvances, Reached, CaptureTrue
    <2> QED
      BY <1>1, <1>2, <1>3, <2>1, <2>2, GiveBackKeeps
  <1>4. CASE cap' = [cap EXCEPT !.phase = "idle"] /\ UNCHANGED slots
    <2>1. /\ cap' \in CaptureRecord /\ cap'.attempt = cap.attempt /\ cap'.phase = "idle"
          /\ cap'.ticket = cap.ticket
      BY <1>4, CaptureTyped DEF CaptureRecord
    <2>2. CaptureAdvances
      BY <2>1 DEF CaptureAdvances, Reached
    <2>3. TicketsOwned' /\ CaptureTrue' /\ AppendsNew' /\ RepliesTrue'
      BY <1>1, <1>4, <2>1, <2>2 DEF DeliveryInv, TicketsOwned, CaptureTrue, AppendsNew, RepliesTrue,
         CaptureAdvances, journal
    <2> QED
      BY <1>1, <1>2, <1>4, <2>1, <2>2, <2>3, CaptureKeeps, SMTT(60) DEF DeliveryInv, TypeOK
  <1> QED
    BY <1>3, <1>4 DEF capture_append_failed, capture_timeout

-----------------------------------------------------------------------------
(* The delivery task, ADD and the environment *)

DeliveryRecord == [phase : Phases, op : {"NONE", "PEEK", "SETTLE", "RECLAIM"},
                   ticket : 0..SlotsMax, item : Items]

LEMMA DeliveryTyped ==
    ASSUME DeliveryInv
    PROVE /\ del \in DeliveryRecord /\ del.phase \in Phases /\ del.item \in Items
          /\ IdleDelivery \in DeliveryRecord
  BY DeliveryAssumption, FreeTyped DEF DeliveryInv, TypeOK, DeliveryRecord, IdleDelivery, Phases

LEMMA DeliveryReclaims ==
    ASSUME NEW d, d = [IdleDelivery EXCEPT !.phase = "SUBMIT_RECLAIM"]
    PROVE d \in DeliveryRecord /\ d.phase = "SUBMIT_RECLAIM" /\ d.ticket = 0
  <1>1. 0 \in 0..SlotsMax
    BY DeliveryAssumption
  <1> QED
    BY <1>1, FreeTyped DEF DeliveryRecord, IdleDelivery, Phases

LEMMA DeliveryEncodes ==
    ASSUME NEW i \in Items, NEW d, d = [IdleDelivery EXCEPT !.phase = "ENCODE", !.item = i]
    PROVE d \in DeliveryRecord /\ d.phase = "ENCODE" /\ d.ticket = 0 /\ d.item = i
  <1>1. 0 \in 0..SlotsMax
    BY DeliveryAssumption
  <1> QED
    BY <1>1, Zenon DEF DeliveryRecord, IdleDelivery, Phases

(* A step that touches neither the slots nor the journal nor the capture.  *)
LEMMA QuietKeeps ==
    ASSUME DeliveryInv, UNCHANGED <<journal, slots, cap, preserved>>, Fault \/ UNCHANGED faults,
           online' \in BOOLEAN, inflight' \subseteq Entries, receipts' \subseteq Entries,
           receipts \subseteq receipts', del' \in DeliveryRecord, del'.ticket = del.ticket,
           DeliveryTrue'
    PROVE DeliveryInv'
  <1>1. TypeOK'
    BY FaultTyped DEF DeliveryInv, TypeOK, DeliveryRecord, journal
  <1>2. TicketsOwned' /\ FragmentsInOrder' /\ RetiredOnlyReceipted'
    BY Zenon DEF DeliveryInv, TicketsOwned, FragmentsInOrder, RetiredOnlyReceipted, journal
  <1>3. AppendsNew' /\ CaptureTrue' /\ LogReached'
    BY DEF DeliveryInv, AppendsNew, CaptureTrue, LogReached, journal
  <1>4. RepliesTrue'
    BY DEF DeliveryInv, RepliesTrue, journal
  <1> QED
    BY <1>1, <1>2, <1>3, <1>4 DEF DeliveryInv

(* The delivery task submits, or gives its ticket back. *)
LEMMA TicketKeeps ==
    ASSUME DeliveryInv, UNCHANGED <<journal, cap, preserved, online, inflight, receipts>>,
           Fault \/ UNCHANGED faults, del' \in DeliveryRecord, NEW s \in Slots, s # cap.ticket,
           slots' \in [Slots -> SlotRecord], \A t \in Slots : t # s => slots'[t] = slots[t],
           TicketsOwned', AppendsNew', RepliesTrue', DeliveryTrue'
    PROVE DeliveryInv'
  <1>1. TypeOK'
    BY FaultTyped DEF DeliveryInv, TypeOK, DeliveryRecord, journal
  <1>2. FragmentsInOrder' /\ RetiredOnlyReceipted' /\ LogReached'
    BY Zenon DEF DeliveryInv, FragmentsInOrder, RetiredOnlyReceipted, LogReached, journal
  <1>3. CaptureTrue'
    BY CaptureTyped DEF DeliveryInv, CaptureTrue, journal
  <1> QED
    BY <1>1, <1>2, <1>3 DEF DeliveryInv

LEMMA DeliverySubmits == ASSUME DeliveryInv, delivery_submit PROVE DeliveryInv'
  <1>1. PICK s \in Slots :
          /\ slots[s].state = "FREE"
          /\ slots' = [slots EXCEPT ![s] = Request(Submission[del.phase], <<0, 0>>, del.item)]
          /\ del' = [del EXCEPT !.phase = "WAIT", !.op = Submission[del.phase], !.ticket = s]
          /\ UNCHANGED <<journal, cap, preserved, online, inflight, receipts, faults>>
    BY Zenon DEF delivery_submit, CanSubmit
  <1> DEFINE op == Submission[del.phase]
  <1>2. /\ op \in {"PEEK", "SETTLE", "RECLAIM"}
        /\ op = "SETTLE" => del.phase = "SUBMIT_SETTLE"
        /\ del.phase \notin {"WAIT", "ABANDON"}
    BY DEF delivery_submit, Submission
  <1>3. /\ del' \in DeliveryRecord /\ del'.phase = "WAIT" /\ del'.op = op /\ del'.ticket = s
        /\ del.ticket = 0
    BY <1>1, <1>2, DeliveryTyped, CaptureTyped, Zenon DEF DeliveryRecord, Phases, DeliveryInv, DeliveryTrue
  <1>4. /\ slots' \in [Slots -> SlotRecord]
        /\ \A t \in Slots : t # s => slots'[t] = slots[t]
        /\ slots'[s].state = "QUEUED" /\ slots'[s].op = op /\ slots'[s].item = del.item
        /\ slots'[s].abandoned = FALSE
    <2> DEFINE none == <<0, 0>>
               item == del.item
    <2>1. op \in Operations /\ none \in Nat \X Nat /\ item \in Items /\ TypeOK
      BY <1>2, DeliveryTyped DEF Operations, DeliveryInv
    <2>2. slots' = [slots EXCEPT ![s] = Request(op, none, item)]
      BY <1>1
    <2>3. /\ slots' \in [Slots -> SlotRecord]
          /\ \A t \in Slots : t # s => slots'[t] = slots[t]
          /\ slots'[s].state = "QUEUED" /\ slots'[s].op = op /\ slots'[s].item = item
          /\ slots'[s].abandoned = FALSE
      <3> HIDE DEF op, none, item
      <3> QED
        BY <2>1, <2>2, SlotRequested, ZenonT(60)
    <2> QED
      BY <2>3
  <1>5. s # cap.ticket
    BY <1>1 DEF DeliveryInv, TicketsOwned
  <1>6. TicketsOwned'
    BY <1>1, <1>3, <1>4, <1>5, CaptureTyped DEF DeliveryInv, TicketsOwned
  <1>7. AppendsNew'
    BY <1>1, <1>2, <1>4 DEF DeliveryInv, AppendsNew, Appending, journal
  <1>8. RepliesTrue'
    BY <1>1, <1>2, <1>4 DEF DeliveryInv, RepliesTrue, DeliveryTrue, journal
  <1>9. DeliveryTrue'
    BY <1>1, <1>2, <1>3, <1>4, CaptureTyped DEF DeliveryTrue
  <1> QED
    BY <1>1, <1>3, <1>4, <1>5, <1>6, <1>7, <1>8, <1>9, TicketKeeps

LEMMA DeliveryGivesBack == ASSUME DeliveryInv, delivery_poll \/ delivery_abandon PROVE DeliveryInv'
  <1> DEFINE s == del.ticket
  <1>1. /\ slots' = Abandoned(s) \/ slots' = [slots EXCEPT ![s] = FreeSlot]
        /\ UNCHANGED <<journal, cap, preserved, online, inflight, receipts, faults>>
        /\ del.phase \in {"WAIT", "ABANDON"}
    BY DEF delivery_poll, delivery_abandon
  <1>2. s \in Slots /\ s # 0 /\ s # cap.ticket
    BY <1>1, CaptureTyped DEF DeliveryInv, DeliveryTrue
  <1>3. /\ del' \in DeliveryRecord /\ del'.ticket = 0
        /\ del'.phase \in {"IDLE", "SUBMIT_RECLAIM", "ENCODE"}
        /\ del'.phase = "ENCODE" => del'.item.entry \in Entries
    <2>1. CASE delivery_abandon
      BY <2>1, DeliveryTyped DEF delivery_abandon, IdleDelivery
    <2>2. CASE delivery_poll
      <3>1. /\ slots[s] \in SlotRecord /\ slots[s].item \in Items
            /\ slots[s].op = del.op /\ slots[s].state = "DONE"
        BY <1>2, <2>2 DEF DeliveryInv, DeliveryTrue, TypeOK, SlotRecord, delivery_poll
      <3>2. slots[s].result = "OK" /\ del.op = "PEEK" => slots[s].item.entry \in Entries
        BY <1>2, <3>1 DEF DeliveryInv, RepliesTrue
      <3>3. \/ del' = IdleDelivery
            \/ del' = [IdleDelivery EXCEPT !.phase = "SUBMIT_RECLAIM"]
            \/ /\ del' = [IdleDelivery EXCEPT !.phase = "ENCODE", !.item = slots[s].item]
               /\ slots[s].item.entry \in Entries
        BY <2>2, <3>2 DEF delivery_poll, AfterReply
      <3>4. CASE del' = IdleDelivery
        BY <3>4, DeliveryTyped DEF IdleDelivery
      <3>5. CASE del' = [IdleDelivery EXCEPT !.phase = "SUBMIT_RECLAIM"]
        BY <3>5, DeliveryReclaims, Zenon
      <3>6. CASE /\ del' = [IdleDelivery EXCEPT !.phase = "ENCODE", !.item = slots[s].item]
                 /\ slots[s].item.entry \in Entries
        BY <3>1, <3>6, DeliveryEncodes, Zenon
      <3> QED
        BY <3>3, <3>4, <3>5, <3>6
    <2> QED
      BY <2>1, <2>2
  <1>4. CaptureAdvances
    BY <1>1 DEF CaptureAdvances
  <1>5. /\ slots' \in [Slots -> SlotRecord]
        /\ AppendsNew' /\ RepliesTrue'
        /\ \A t \in Slots : t # s => slots'[t] = slots[t]
        /\ slots[s].state # "FREE" => slots'[s].state = "FREE" \/ slots'[s].abandoned
    BY <1>1, <1>2, <1>4, ReleaseKeeps DEF journal
  <1>6. TicketsOwned'
    BY <1>1, <1>2, <1>3, <1>5, CaptureTyped DEF DeliveryInv, TicketsOwned
  <1>7. DeliveryTrue'
    BY <1>3 DEF DeliveryTrue
  <1> QED
    BY <1>1, <1>2, <1>3, <1>5, <1>6, <1>7, TicketKeeps

(* The delivery task moves on without touching a slot. *)
LEMMA DeliveryMoves ==
    ASSUME DeliveryInv,
           \/ delivery_idle \/ delivery_refused \/ delivery_deadline \/ delivery_encode
           \/ delivery_send \/ delivery_receipt \/ delivery_no_answer \/ delivery_ack_late
    PROVE DeliveryInv'
  <1>1. /\ UNCHANGED <<journal, slots, cap, preserved, online, receipts>>
        /\ Fault \/ UNCHANGED faults
        /\ inflight' = inflight \/ (del.phase = "SEND" /\ inflight' = inflight \cup {del.item.entry})
    BY DEF delivery_idle, delivery_refused, delivery_deadline, delivery_encode, delivery_send,
       delivery_receipt, delivery_no_answer, delivery_ack_late
  <1>2. /\ online' \in BOOLEAN /\ receipts' \subseteq Entries /\ receipts \subseteq receipts'
        /\ inflight' \subseteq Entries
    BY <1>1 DEF DeliveryInv, TypeOK, DeliveryTrue
  <1>3. /\ del \in DeliveryRecord
        /\ \A q \in Phases : /\ [del EXCEPT !.phase = q] \in DeliveryRecord
                              /\ [del EXCEPT !.phase = q].phase = q
                              /\ [del EXCEPT !.phase = q].ticket = del.ticket
                              /\ [del EXCEPT !.phase = q].op = del.op
                              /\ [del EXCEPT !.phase = q].item = del.item
    BY DeliveryTyped DEF DeliveryRecord
  <1>4. CASE del' = IdleDelivery /\ del.phase \notin {"WAIT", "ABANDON"}
    <2>1. del.ticket = 0 /\ del'.ticket = 0 /\ del'.phase = "IDLE" /\ del' \in DeliveryRecord
      BY <1>4, DeliveryTyped DEF DeliveryInv, DeliveryTrue, IdleDelivery
    <2> QED
      BY <1>1, <1>2, <2>1, QuietKeeps DEF DeliveryTrue
  <1>5. ASSUME NEW q \in Phases, del' = [del EXCEPT !.phase = q],
               \/ del.phase = "WAIT" /\ q = "ABANDON"
               \/ del.phase = "IDLE" /\ q \in {"SUBMIT_READ", "SUBMIT_RECLAIM"}
               \/ del.phase \in {"ENCODE", "SEND"} /\ q \in {"SEND", "ACK"}
               \/ del.phase = "ACK" /\ q = "SUBMIT_SETTLE" /\ del.item.entry \in receipts
        PROVE DeliveryInv'
    <2>1. /\ del' \in DeliveryRecord /\ del'.phase = q /\ del'.ticket = del.ticket
          /\ del'.op = del.op /\ del'.item = del.item
      BY <1>3, <1>5
    <2>2. DeliveryTrue'
      BY <1>1, <1>5, <2>1 DEF DeliveryInv, DeliveryTrue
    <2> QED
      BY <1>1, <1>2, <2>1, <2>2, QuietKeeps
  <1>6. CASE delivery_idle \/ delivery_deadline
    BY <1>5, <1>6 DEF delivery_idle, delivery_deadline, Phases
  <1>7. CASE delivery_refused \/ delivery_no_answer \/ delivery_ack_late
    BY <1>4, <1>7 DEF delivery_refused, delivery_no_answer, delivery_ack_late, Submission
  <1>8. CASE delivery_encode \/ delivery_send
    BY <1>4, <1>5, <1>8 DEF delivery_encode, delivery_send, Phases
  <1>9. CASE delivery_receipt
    BY <1>5, <1>9 DEF delivery_receipt, Phases
  <1> QED
    BY <1>6, <1>7, <1>8, <1>9

LEMMA AddKeeps ==
    ASSUME DeliveryInv, settle_observations \/ request_lost \/ connect \/ disconnect
    PROVE DeliveryInv'
  <1>1. /\ UNCHANGED <<journal, slots, cap, preserved>>
        /\ Fault \/ UNCHANGED faults
        /\ online' = online \/ online' = TRUE \/ online' = FALSE
        /\ inflight' \subseteq inflight /\ receipts \subseteq receipts'
        /\ receipts' \subseteq receipts \cup inflight
        /\ del' = del \/ (del' = IdleDelivery /\ del.phase = "ACK")
    BY DEF settle_observations, request_lost, connect, disconnect
  <1>2. /\ online' \in BOOLEAN /\ inflight' \subseteq Entries /\ receipts' \subseteq Entries
    BY <1>1, Zenon DEF DeliveryInv, TypeOK
  <1>3. del' \in DeliveryRecord /\ del'.ticket = del.ticket
    BY <1>1, DeliveryTyped DEF DeliveryInv, DeliveryTrue, IdleDelivery
  <1>4. DeliveryTrue'
    <2>1. CASE del' = del
      BY <1>1, <2>1 DEF DeliveryInv, DeliveryTrue
    <2>2. CASE del' = IdleDelivery
      BY <2>2 DEF DeliveryTrue, IdleDelivery
    <2> QED
      BY <1>1, <2>1, <2>2
  <1> QED
    BY <1>1, <1>2, <1>3, <1>4, QuietKeeps

(* A power loss empties the mailbox and may replay the whole journal. *)
LEMMA RestartKeeps == ASSUME DeliveryInv, restart PROVE DeliveryInv'
  <1>1. /\ Fault /\ (cursor' = cursor \/ cursor' = freed)
        /\ slots' = [s \in Slots |-> FreeSlot] /\ cap' = [IdleCapture EXCEPT !.attempt = cap.attempt]
        /\ del' = IdleDelivery /\ online' = FALSE
        /\ UNCHANGED <<log, freed, preserved, inflight, receipts>>
    BY DEF restart
  <1>2. /\ cap' \in CaptureRecord /\ cap'.attempt = cap.attempt /\ cap'.phase = "idle"
        /\ cap'.ticket = 0
    <2>1. cap.attempt \in 0..Attempts /\ 0 \in 0..SlotsMax /\ 1 \in 1..Fragments
      BY CaptureTyped, DeliveryAssumption
    <2> QED
      BY <1>1, <2>1 DEF CaptureRecord, IdleCapture
  <1>3. del' \in DeliveryRecord /\ del'.ticket = 0 /\ del'.phase = "IDLE"
    BY <1>1, DeliveryTyped DEF IdleDelivery
  <1>4. slots' \in [Slots -> SlotRecord] /\ \A s \in Slots : slots'[s].state = "FREE"
    BY <1>1, FreeTyped DEF FreeSlot
  <1>5. Len(log) \in Nat /\ cursor \in 0..Len(log) /\ freed \in 0..cursor
    BY DEF DeliveryInv, TypeOK
  <1>6. TypeOK'
    <2>1. online' \in BOOLEAN
      BY <1>1, Zenon
    <2>2. cursor' \in 0..Len(log) /\ freed \in 0..cursor' /\ faults' \in 0..MaxFaults
      BY <1>1, <1>5, FaultTyped DEF DeliveryInv
    <2> QED
      BY <1>1, <1>2, <1>3, <1>4, <2>1, <2>2 DEF DeliveryInv, TypeOK, CaptureRecord, DeliveryRecord
  <1>7. TicketsOwned' /\ AppendsNew' /\ RepliesTrue' /\ CaptureTrue' /\ DeliveryTrue'
    BY <1>2, <1>3, <1>4, CaptureTyped DEF TicketsOwned, AppendsNew, Appending, RepliesTrue,
       CaptureTrue, DeliveryTrue
  <1>8. RetiredOnlyReceipted' /\ FragmentsInOrder'
    <2>1. FragmentsInOrder'
      BY <1>1, Zenon DEF DeliveryInv, FragmentsInOrder
    <2>2. \A k \in 1..cursor' : k \in 1..cursor
      BY <1>1, <1>5
    <2> QED
      BY <1>1, <2>1, <2>2 DEF DeliveryInv, RetiredOnlyReceipted
  <1>9. LogReached'
    BY <1>1, <1>2 DEF DeliveryInv, LogReached, Reached
  <1> QED
    BY <1>6, <1>7, <1>8, <1>9 DEF DeliveryInv

-----------------------------------------------------------------------------
LEMMA NextDelivery == DeliveryInv /\ [Next]_vars => DeliveryInv'
  <1> SUFFICES ASSUME DeliveryInv, [Next]_vars PROVE DeliveryInv'
    OBVIOUS
  <1>1. CASE UNCHANGED vars
    BY <1>1, ZenonT(60) DEF vars, journal, DeliveryInv, TypeOK, TicketsOwned, FragmentsInOrder, RetiredOnlyReceipted,
       AppendsNew, RepliesTrue, CaptureTrue, DeliveryTrue, LogReached
  <1>2. CASE Owner
    BY <1>2, AppendKeeps, PeekKeeps, SettleKeeps, ReclaimKeeps DEF Owner
  <1>3. CASE Capture
    BY <1>3, StartKeeps, SubmitKeeps, RefusedKeeps, CommittedKeeps, GaveUpKeeps DEF Capture
  <1>4. CASE DeliveryStep
    BY <1>4, DeliverySubmits, DeliveryGivesBack, DeliveryMoves DEF DeliveryStep
  <1>5. CASE Environment
    BY <1>5, DeliveryMoves, AddKeeps, RestartKeeps DEF Environment
  <1> QED
    BY <1>1, <1>2, <1>3, <1>4, <1>5 DEF Next

LEMMA DeliveryInvariant == Spec => []DeliveryInv
  BY InitDelivery, NextDelivery, PTL DEF Spec

(* For any packets, fragments, slots and faults: every ticket has one      *)
(* owner (zj_owner_submit, poll, abandon), the fragments of a packet are   *)
(* journalled once and in order although appends that timed out are        *)
(* executed late (zj_capture_packet), and the cursor passes only entries   *)
(* ADD has a receipt for (zj_delivery_step, SETTLE).                       *)
THEOREM DeliveryConsistentInvariant == Spec => []DeliveryConsistent
  <1>1. DeliveryInv => DeliveryConsistent
    BY DEF DeliveryInv, DeliveryConsistent
  <1> QED
    BY <1>1, DeliveryInvariant, PTL

-----------------------------------------------------------------------------
(* The refinement of the custody promise *)

Held(l, f) == {l[k] : k \in (f + 1)..Len(l)}
Promised(p) == {e \in Entries : e[1] \in p}

LEMMA AppendHolds ==
    ASSUME NEW l \in Seq(Entries), NEW f \in 0..Len(l), NEW e \in Entries
    PROVE Held(Append(l, e), f) = Held(l, f) \cup {e}
  <1> DEFINE l2 == Append(l, e)
  <1>1. /\ Len(l) \in Nat /\ Len(l2) = Len(l) + 1 /\ l2[Len(l) + 1] = e
        /\ \A k \in 1..Len(l) : l2[k] = l[k]
    OBVIOUS
  <1>2. (f + 1)..Len(l2) = (f + 1)..Len(l) \cup {Len(l) + 1}
    BY <1>1
  <1>3. \A k \in (f + 1)..Len(l) : l2[k] = l[k]
    BY <1>1
  <1> HIDE DEF l2
  <1>4. Held(l2, f) = Held(l, f) \cup {e}
    BY <1>1, <1>2, <1>3 DEF Held
  <1> QED
    BY <1>4 DEF l2

(* What a reclamation lets go of was settled, and no copy of it remains.   *)
LEMMA ReclaimReleases ==
    ASSUME DeliveryInv, NEW upto \in freed..cursor
    PROVE \E S \in SUBSET (Held(log, freed) \cap receipts) : Held(log, upto) = Held(log, freed) \ S
  <1> DEFINE S == {log[k] : k \in (freed + 1)..upto}
  <1>1. Len(log) \in Nat /\ cursor \in 0..Len(log) /\ freed \in 0..cursor /\ upto \in 0..Len(log)
    BY DEF DeliveryInv, TypeOK
  <1>2. S \subseteq Held(log, freed) \cap receipts
    <2>1. \A k \in (freed + 1)..upto : k \in (freed + 1)..Len(log) /\ k \in 1..cursor
      BY <1>1
    <2> QED
      BY <2>1 DEF Held, DeliveryInv, RetiredOnlyReceipted
  <1>3. \A k \in (freed + 1)..upto, j \in (upto + 1)..Len(log) : log[k] # log[j]
    <2>1. \A k \in (freed + 1)..upto, j \in (upto + 1)..Len(log) : j \in 1..Len(log) /\ k \in 1..(j - 1)
      BY <1>1
    <2> QED
      BY <2>1 DEF DeliveryInv, FragmentsInOrder
  <1>4. (freed + 1)..Len(log) = (freed + 1)..upto \cup (upto + 1)..Len(log)
    BY <1>1
  <1>5. Held(log, upto) = Held(log, freed) \ S
    BY <1>3, <1>4 DEF Held
  <1> QED
    BY <1>2, <1>5, Zenon

(* A packet is reported when all its fragments are in the log. *)
LEMMA CommittedHeld ==
    ASSUME DeliveryInv, NEW a \in 1..Attempts, \A f \in 1..Fragments : Logged(log, <<a, f>>)
    PROVE \A e \in Entries : e[1] = a => e \in Held(log, freed) \cup receipts
  <1>1. Len(log) \in Nat /\ cursor \in 0..Len(log) /\ freed \in 0..cursor
    BY DEF DeliveryInv, TypeOK
  <1> SUFFICES ASSUME NEW e \in Entries, e[1] = a PROVE e \in Held(log, freed) \cup receipts
    OBVIOUS
  <1>2. e = <<a, e[2]>> /\ e[2] \in 1..Fragments
    BY CaptureTyped
  <1>3. PICK k \in 1..Len(log) : log[k] = e
    BY <1>2, ZenonT(60) DEF Logged
  <1>4. CASE k \in 1..cursor
    BY <1>3, <1>4 DEF DeliveryInv, RetiredOnlyReceipted
  <1>5. CASE k \in (freed + 1)..Len(log)
    BY <1>3, <1>5 DEF Held
  <1> QED
    BY <1>1, <1>3, <1>4, <1>5

LEMMA InitCustody == Init => Custody!Init
  BY DEF Init, Custody!Init

LEMMA NextCustody == DeliveryInv /\ [Next]_vars => [Custody!Next]_(Custody!vars)
  <1> SUFFICES ASSUME DeliveryInv, [Next]_vars PROVE Custody!Next \/ UNCHANGED Custody!vars
    OBVIOUS
  <1> USE DEF Held, Promised
  <1>1. CASE UNCHANGED <<log, freed, receipts, preserved>>
    BY <1>1 DEF Custody!vars
  <1>2. ASSUME NEW s \in Slots, execute_append(s), log' = Append(log, slots[s].entry)
        PROVE Custody!Keep
    <2>1. slots[s].entry \in Entries /\ log \in Seq(Entries) /\ freed \in 0..Len(log)
      BY <1>2 DEF execute_append, DeliveryInv, AppendsNew, Appending, TypeOK
    <2>2. Held(log', freed) = Held(log, freed) \cup {slots[s].entry}
      BY <1>2, <2>1, AppendHolds
    <2> QED
      BY <1>2, <2>1, <2>2 DEF Custody!Keep, execute_append
  <1>3. ASSUME NEW s \in Slots, execute_reclaim(s), NEW upto \in freed..cursor, freed' = upto
        PROVE Custody!Release
    <2>1. UNCHANGED <<log, receipts, preserved>>
      BY <1>3 DEF execute_reclaim
    <2>2. PICK S \in SUBSET (Held(log, freed) \cap receipts) : Held(log, upto) = Held(log, freed) \ S
      BY <1>3, ReclaimReleases, Zenon
    <2> QED
      BY <1>3, <2>1, <2>2, ZenonT(60) DEF Custody!Release
  <1>4. CASE capture_committed /\ preserved' = preserved \cup {cap.attempt} /\ ~(cap.frag < Fragments)
    <2>1. UNCHANGED <<log, freed, receipts>>
      BY <1>4 DEF capture_committed, journal
    <2>2. cap.attempt \in 1..Attempts /\ \A f \in 1..Fragments : Logged(log, <<cap.attempt, f>>)
      <3>1. cap.frag = Fragments
        BY <1>4, CaptureTyped, DeliveryAssumption
      <3> QED
        BY <1>4, <3>1, CommittedLogged
    <2>3. \A e \in Entries : e[1] = cap.attempt => e \in Held(log, freed) \cup receipts
      BY <2>2, CommittedHeld
    <2> DEFINE S == {e \in Entries : e[1] = cap.attempt}
    <2>4. S \in SUBSET (Held(log, freed) \cup receipts) /\ Promised(preserved') = Promised(preserved) \cup S
      BY <1>4, <2>3
    <2> QED
      BY <2>1, <2>4, Zenon DEF Custody!Promise, Custody!Next
  <1>5. CASE settle_observations
    <2>1. PICK e \in inflight : receipts' = receipts \cup {e}
      BY <1>5 DEF settle_observations
    <2>2. e \in Entries /\ UNCHANGED <<log, freed, preserved>>
      BY <1>5, SMTT(60) DEF settle_observations, journal, DeliveryInv, TypeOK
    <2> QED
      BY <2>1, <2>2 DEF Custody!Take, Custody!Next
  <1>6. CASE Owner
    BY <1>1, <1>2, <1>3, <1>6, SMTT(60) DEF Owner, execute_append, execute_peek, execute_settle, execute_reclaim,
       journal, Custody!Next
  <1>7. CASE Capture
    BY <1>1, <1>4, <1>7, ZenonT(60) DEF Capture, capture_start, capture_submit, capture_refused, capture_committed,
       capture_append_failed, capture_timeout, journal, Custody!Next
  <1>8. CASE DeliveryStep
    BY <1>1, <1>8, Zenon DEF DeliveryStep, delivery_idle, delivery_submit, delivery_refused, delivery_poll,
       delivery_abandon, delivery_encode, delivery_send, delivery_receipt, delivery_no_answer, journal
  <1>9. CASE Environment
    BY <1>1, <1>5, <1>9 DEF Environment, delivery_deadline, delivery_ack_late, request_lost, connect,
       disconnect, restart, journal
  <1>10. CASE UNCHANGED vars
    BY <1>1, <1>10 DEF vars, journal
  <1> QED
    BY <1>6, <1>7, <1>8, <1>9, <1>10 DEF Next

(* Capture and delivery implement AttendanceCustody for every instance:    *)
(* zj_capture_packet reports only packets all of whose fragments are in    *)
(* the journal or receipted, and reclamation releases only entries ADD has *)
(* taken.                                                                  *)
THEOREM CustodyImplemented == Spec => ImplementsCustody
  BY InitCustody, NextCustody, DeliveryInvariant, PTL DEF Spec, ImplementsCustody, Custody!Spec

(* What AttendanceCustody promises, as a step of the pipeline keeps it. *)
LEMMA PromiseKept == Custody!Spec => []Custody!PromiseKept
<1>1. Custody!Init => Custody!PromiseKept
  BY DEF Custody!Init, Custody!PromiseKept
<1>2. Custody!PromiseKept /\ [Custody!Next]_(Custody!vars) => Custody!PromiseKept'
  BY DEF Custody!PromiseKept, Custody!Next, Custody!vars, Custody!Keep, Custody!Promise, Custody!Take, Custody!Release
<1> QED
  BY <1>1, <1>2, PTL DEF Custody!Spec

(* Every packet that was reported as preserved is in the device's journal or  *)
(* has ADD's receipt, whatever is late, lost, repeated or restarted.          *)
THEOREM PromiseKeptInvariant == Spec => []Custody!PromiseKept
  BY CustodyImplemented, PromiseKept, PTL DEF ImplementsCustody
===============================================================================
