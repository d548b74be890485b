--------------------------- MODULE EvtQueueProofs ---------------------------
(***************************************************************************)
(* Proofs about EvtQueue for every queue size, handler-list length and set *)
(* of events: type correctness, slot stability and the safety part of      *)
(* ImplementsFifo. Its liveness part is left to TLC.                       *)
(***************************************************************************)
EXTENDS EvtQueue, SequenceTheorems, TLAPS

\* The message being walked down the list is the one in the tail slot, and
\* what the handlers have been given is that message or nothing yet.
WalkInv ==
  /\ pc # "test" => q_tail # q_head
  /\ pc = "test" => offered = Blank
  /\ pc = "data" => reg = event_q[q_tail].event
  /\ pc = "advance" => offered = event_q[q_tail]

IInv == TypeOK /\ WalkInv

USE SizeAssumption, HandlersAssumption

\* The arithmetic of the ring: NEXT stays inside it and moves the index.
LEMMA NextInSlot == \A i \in Slot : NEXT(i) \in Slot /\ (EVENT_Q_SIZE > 1 => NEXT(i) # i)
  BY DEF Slot, NEXT

\* Count and SlotOf enumerate the occupied slots: from the tail up to, and
\* without, the head.
LEMMA Occupied ==
  ASSUME q_head \in Slot, q_tail \in Slot
  PROVE  /\ Count \in 0 .. EVENT_Q_SIZE - 1
         /\ Count = 0 <=> q_head = q_tail
         /\ Full <=> Count = EVENT_Q_SIZE - 1
         /\ \A i \in 1 .. Count : SlotOf(i) \in Slot /\ SlotOf(i) # q_head
         /\ SlotOf(Count + 1) = q_head
         /\ SlotOf(1) = q_tail
  BY DEF Slot, NEXT, Full, Count, SlotOf

\* A message is the pair of its two fields.
LEMMA MessageFields ==
  ASSUME NEW x \in Msg \cup {Blank}
  PROVE  /\ x.event \in Event \cup {0}
         /\ [event |-> x.event, data |-> x.data] = x
  BY DEF Msg, Blank

\* Pending is a sequence of messages as long as Count.
LEMMA PendingSeq ==
  TypeOK => /\ Pending \in Seq(Msg \cup {Blank})
            /\ Len(Pending) = Count
            /\ q_tail # q_head => Pending # <<>> /\ Head(Pending) = event_q[q_tail]
<1> SUFFICES ASSUME TypeOK
             PROVE  /\ Pending \in Seq(Msg \cup {Blank})
                    /\ Len(Pending) = Count
                    /\ q_tail # q_head => Pending # <<>> /\ Head(Pending) = event_q[q_tail]
  OBVIOUS
<1>1. /\ Count \in Nat
      /\ \A i \in 1 .. Count : event_q[SlotOf(i)] \in Msg \cup {Blank}
  BY Occupied DEF TypeOK, Slot
<1>2. Pending \in Seq(Msg \cup {Blank}) /\ Len(Pending) = Count
  BY <1>1 DEF Pending
<1>3. ASSUME q_tail # q_head
      PROVE  Pending # <<>> /\ Head(Pending) = event_q[q_tail]
  <2>1. Count >= 1 /\ SlotOf(1) = q_tail
    BY <1>3, Occupied DEF TypeOK, Slot
  <2>2. Pending[1] = event_q[q_tail]
    BY <1>1, <2>1 DEF Pending
  <2> QED
    BY <1>2, <2>1, <2>2
<1> QED
  BY <1>2, <1>3

-----------------------------------------------------------------------------
LEMMA InitIInv == Init => IInv
<1> SUFFICES ASSUME Init PROVE IInv
  OBVIOUS
<1>1. event_q \in [Slot -> Msg \cup {Blank}]
  BY DEF Init
<1>2. q_head \in Slot /\ q_tail \in Slot /\ left \in 0 .. MAX_HANDLERS /\ reg \in Event \cup {0}
  BY DEF Init, Slot
<1>3. offered \in Msg \cup {Blank} /\ refused \in BOOLEAN
  BY DEF Init
<1>4. WalkInv /\ pc \in {"test", "event", "data", "advance"}
  BY DEF Init, WalkInv
<1> QED
  BY <1>1, <1>2, <1>3, <1>4 DEF IInv, TypeOK

\* A post writes the head slot, which is not the one being walked.
LEMMA PostIInv ==
  ASSUME IInv, NEW m \in Msg, evt_handler_event(m)
  PROVE  /\ IInv'
         /\ pc # "test" => event_q'[q_tail] = event_q[q_tail]
<1> USE DEF IInv, TypeOK, WalkInv, evt_handler_event
<1>1. CASE Full
  BY <1>1
<1>2. CASE ~ Full
  <2>1. event_q' = [event_q EXCEPT ![q_head] = m] /\ q_head' = NEXT(q_head)
        /\ UNCHANGED <<q_tail, pc, left, reg, offered>> /\ refused' = FALSE
    BY <1>2
  <2>2. q_head' \in Slot /\ q_head' # q_tail
    BY <1>2, <2>1, NextInSlot DEF Full
  <2>3. event_q' \in [Slot -> Msg \cup {Blank}]
    BY <2>1
  <2>4. pc # "test" => event_q'[q_tail] = event_q[q_tail]
    BY <2>1
  <2> QED
    BY <2>1, <2>2, <2>3, <2>4
<1> QED
  BY <1>1, <1>2

LEMMA DispatchIInv ==
  ASSUME IInv, Dispatch
  PROVE  IInv' /\ event_q' = event_q
<1> USE DEF IInv, TypeOK, WalkInv
<1>1. CASE TestQueue
  BY <1>1 DEF TestQueue
<1>2. CASE ReadEvent
  BY <1>2, MessageFields DEF ReadEvent
<1>3. CASE CallHandler
  <2>1. offered' = event_q[q_tail]
    BY <1>3, MessageFields DEF CallHandler
  <2> QED
    BY <1>3, <2>1 DEF CallHandler
<1>4. CASE Advance
  BY <1>4, NextInSlot DEF Advance
<1> QED
  BY <1>1, <1>2, <1>3, <1>4 DEF Dispatch

LEMMA NextIInv == IInv /\ [Next]_vars => IInv'
<1> SUFFICES ASSUME IInv, [Next]_vars PROVE IInv'
  OBVIOUS
<1>1. CASE Next
  BY <1>1, PostIInv, DispatchIInv DEF Next
<1>2. CASE UNCHANGED vars
  BY <1>2 DEF vars, IInv, TypeOK, WalkInv
<1> QED
  BY <1>1, <1>2

LEMMA AlwaysIInv == Spec => []IInv
  BY InitIInv, NextIInv, PTL DEF Spec

\* evt_handler.cpp: whatever the interrupts do, q_head and q_tail stay inside
\* event_q and every slot holds a posted message or the initial zeros.
THEOREM TypeCorrect == Spec => []TypeOK
  BY AlwaysIInv, PTL DEF IInv

\* evt_handler_event never overwrites the slot evt_handler_dispatch is walking.
THEOREM SlotStability == Spec => SlotStable
<1>1. IInv /\ [Next]_vars => [pc # "test" => event_q'[q_tail] = event_q[q_tail]]_vars
  <2> SUFFICES ASSUME IInv, Next
               PROVE  pc # "test" => event_q'[q_tail] = event_q[q_tail]
    OBVIOUS
  <2> QED
    BY PostIInv, DispatchIInv DEF Next
<1> QED
  BY <1>1, AlwaysIInv, PTL DEF Spec, SlotStable

-----------------------------------------------------------------------------
\* Each step of the ring is a step of LossyFifo, or invisible to it.

\* Storing at the head and moving it appends the message to Pending.
LEMMA PostAppends ==
  ASSUME IInv, NEW m \in Msg, evt_handler_event(m), ~ Full
  PROVE  Pending' = Append(Pending, m)
<1>1. TypeOK /\ TypeOK'
  BY PostIInv DEF IInv
<1>2. event_q' = [event_q EXCEPT ![q_head] = m] /\ q_head' = NEXT(q_head) /\ q_tail' = q_tail
  BY DEF evt_handler_event
<1>3. Count \in Nat /\ Count' = Count + 1
  BY <1>1, <1>2, NextInSlot DEF TypeOK, Slot, Count, NEXT, Full
<1>4. \A i \in Int : SlotOf(i)' = SlotOf(i)
  BY <1>2 DEF SlotOf
<1>5. \A i \in 1 .. Count : event_q'[SlotOf(i)] = event_q[SlotOf(i)]
  BY <1>1, <1>2, Occupied DEF TypeOK
<1>6. event_q'[SlotOf(Count + 1)] = m
  BY <1>1, <1>2, Occupied DEF TypeOK
<1>7. /\ Pending' = [i \in 1 .. Count + 1 |-> event_q'[SlotOf(i)]]
      /\ Pending = [i \in 1 .. Count |-> event_q[SlotOf(i)]]
  BY <1>3, <1>4 DEF Pending
<1>8. /\ Pending' \in Seq(Msg \cup {Blank}) /\ Pending \in Seq(Msg \cup {Blank})
      /\ Len(Pending') = Count + 1 /\ Len(Pending) = Count
  <2>1. (TypeOK => Pending \in Seq(Msg \cup {Blank}) /\ Len(Pending) = Count)'
    BY PendingSeq, PTL
  <2> QED
    BY <1>1, <1>3, <2>1, PendingSeq
<1>9. \A i \in 1 .. Count + 1 : Pending'[i] = Append(Pending, m)[i]
  BY <1>3, <1>5, <1>6, <1>7, <1>8
<1> QED
  BY <1>3, <1>8, <1>9, SeqEqual, AppendProperties

\* Moving the tail drops the first message of Pending.
LEMMA AdvanceDropsHead ==
  ASSUME IInv, Advance
  PROVE  Pending' = Tail(Pending)
<1>1. TypeOK /\ TypeOK'
  BY DispatchIInv DEF IInv, Dispatch
<1>2. event_q' = event_q /\ q_head' = q_head /\ q_tail' = NEXT(q_tail) /\ q_tail # q_head
  BY DEF Advance, IInv, WalkInv
<1>3. PICK n \in Nat : Count' = n /\ Count = n + 1
  BY <1>1, <1>2, NextInSlot DEF TypeOK, Slot, Count, NEXT
<1>4. \A i \in 1 .. n : SlotOf(i)' = SlotOf(i + 1)
  BY <1>1, <1>2, <1>3, NextInSlot DEF TypeOK, Slot, SlotOf, NEXT, Count
<1>5. /\ Pending' \in Seq(Msg \cup {Blank}) /\ Pending \in Seq(Msg \cup {Blank})
      /\ Len(Pending') = n /\ Len(Pending) = n + 1
  <2>1. (TypeOK => Pending \in Seq(Msg \cup {Blank}) /\ Len(Pending) = Count)'
    BY PendingSeq, PTL
  <2> QED
    BY <1>1, <1>3, <2>1, PendingSeq
<1>6. /\ Pending' = [i \in 1 .. n |-> event_q[SlotOf(i + 1)]]
      /\ Pending = [i \in 1 .. n + 1 |-> event_q[SlotOf(i)]]
  BY <1>2, <1>3, <1>4 DEF Pending
<1>7. \A i \in 1 .. n : Pending'[i] = Pending[i + 1]
  BY <1>6
<1>8. /\ Tail(Pending) \in Seq(Msg \cup {Blank})
      /\ Len(Tail(Pending)) = n
      /\ \A i \in 1 .. n : Tail(Pending)[i] = Pending[i + 1]
  BY <1>5, HeadTailProperties
<1> QED
  BY <1>5, <1>7, <1>8, SeqEqual

LEMMA PostRefines ==
  ASSUME IInv, NEW m \in Msg, evt_handler_event(m)
  PROVE  Fifo!Post(m) \/ Fifo!Refuse
<1>1. Len(Pending) = Count /\ (Full <=> Count = EVENT_Q_SIZE - 1)
      /\ Count \in 0 .. EVENT_Q_SIZE - 1
  BY PendingSeq, Occupied DEF IInv, TypeOK
<1>2. CASE Full
  <2>1. Pending' = Pending
    BY <1>2 DEF evt_handler_event, Pending, Count, SlotOf
  <2> QED
    BY <1>1, <1>2, <2>1 DEF evt_handler_event, Fifo!Refuse
<1>3. CASE ~ Full
  <2>1. Len(Pending) < EVENT_Q_SIZE - 1
    BY <1>1, <1>3
  <2> QED
    BY <1>3, <2>1, PostAppends DEF evt_handler_event, Fifo!Post
<1> QED
  BY <1>2, <1>3

LEMMA DispatchRefines ==
  ASSUME IInv, Dispatch
  PROVE  Fifo!Offer \/ Fifo!Retire \/ UNCHANGED <<Pending, offered, refused>>
<1>1. ASSUME UNCHANGED <<event_q, q_head, q_tail>> PROVE Pending' = Pending
  BY <1>1 DEF Pending, Count, SlotOf
<1>2. CASE TestQueue
  BY <1>1, <1>2 DEF TestQueue
<1>3. CASE ReadEvent
  BY <1>1, <1>3 DEF ReadEvent
<1>4. CASE CallHandler
  <2>1. pc = "data" /\ q_tail # q_head /\ event_q[q_tail] \in Msg \cup {Blank}
    BY <1>4 DEF CallHandler, IInv, WalkInv, TypeOK
  <2>2. Pending # <<>> /\ offered' = Head(Pending)
    BY <1>4, <2>1, PendingSeq, MessageFields DEF CallHandler, IInv, WalkInv
  <2> QED
    BY <1>1, <1>4, <2>2 DEF CallHandler, Fifo!Offer
<1>5. CASE Advance
  <2>1. Pending # <<>> /\ offered = Head(Pending)
    BY <1>5, PendingSeq DEF Advance, IInv, WalkInv
  <2> QED
    BY <1>5, <2>1, AdvanceDropsHead DEF Advance, Fifo!Retire
<1> QED
  BY <1>2, <1>3, <1>4, <1>5 DEF Dispatch

\* For every size the ring is a FIFO of one place less: nothing accepted is
\* lost, repeated, reordered or torn, and a post is refused only when it is full.
THEOREM QueueIsFifo == Spec => Fifo!Safety
<1>1. Init => Fifo!Init
  <2> SUFFICES ASSUME Init PROVE Pending = <<>>
    BY DEF Init, Fifo!Init
  <2>1. TypeOK /\ Count = 0
    BY InitIInv DEF IInv, Init, Count
  <2> QED
    BY <2>1, PendingSeq, EmptySeq
<1>2. IInv /\ [Next]_vars => [Fifo!Next]_(Fifo!vars)
  <2> SUFFICES ASSUME IInv, [Next]_vars PROVE [Fifo!Next]_(Fifo!vars)
    OBVIOUS
  <2>1. CASE Next
    BY <2>1, PostRefines, DispatchRefines DEF Next, Fifo!Next, Fifo!vars
  <2>2. CASE UNCHANGED vars
    BY <2>2 DEF vars, Fifo!vars, Pending, Count, SlotOf
  <2> QED
    BY <2>1, <2>2
<1> QED
  BY <1>1, <1>2, AlwaysIInv, PTL DEF Spec, Fifo!Safety
=============================================================================
