------------------------------ MODULE EvtQueue ------------------------------
(***************************************************************************)
(* The event queue of evt_handler.cpp. Interrupt handlers post events;     *)
(* the main loop takes them out and offers each to the list of handlers    *)
(* until one consumes it. An interrupt handler runs to completion with     *)
(* interrupts off, so a post is one step; the main loop can be interrupted *)
(* between any two of its memory accesses, so evt_handler_dispatch is one  *)
(* step per access of the shared ring.                                     *)
(***************************************************************************)
EXTENDS Integers, Sequences

CONSTANTS
  EVENT_Q_SIZE,   \* slots of event_q
  MAX_HANDLERS,   \* longest handler list a walk can see
  Event, Data     \* what interrupt handlers post (an event code, 16 bits of data)

\* q_head and q_tail are uint8_t.
ASSUME SizeAssumption == EVENT_Q_SIZE \in 1 .. 256
ASSUME HandlersAssumption == MAX_HANDLERS \in Nat \ {0}

VARIABLES
  event_q, q_head, q_tail,
  pc,        \* where evt_handler_dispatch is
  left,      \* handlers of the list from tmp on
  reg,       \* event code read for the call being prepared
  offered,   \* history: message handed to the latest handler, Blank between events
  refused    \* history: did the latest evt_handler_event return early?

vars == <<event_q, q_head, q_tail, pc, left, reg, offered, refused>>

Slot == 0 .. EVENT_Q_SIZE - 1
Msg == [event : Event, data : Data]

\* Contents of a slot of the zero-initialised array; 0 is no event code.
Blank == [event |-> 0, data |-> 0]
ASSUME BlankAssumption == 0 \notin Event

\* slip: the last slot is skipped by nobody, the index runs off the array
NextNoWrap(x) == x + 1

NEXT(x) == IF x = EVENT_Q_SIZE - 1 THEN 0 ELSE x + 1

Init ==
  /\ event_q = [i \in Slot |-> Blank]
  /\ q_head = 0
  /\ q_tail = 0
  /\ pc = "test"
  /\ left = 0
  /\ reg = 0
  /\ offered = Blank
  /\ refused = FALSE

\* slip: "full" tested on q_head itself, which is what "empty" looks like
FullOffByOne == q_head = q_tail

Full == NEXT(q_head) = q_tail

evt_handler_event(m) ==
  /\ IF Full
     THEN /\ refused' = TRUE
          /\ UNCHANGED <<event_q, q_head>>
     ELSE /\ refused' = FALSE
          /\ event_q' = [event_q EXCEPT ![q_head] = m]
          /\ q_head' = NEXT(q_head)
  /\ UNCHANGED <<q_tail, pc, left, reg, offered>>

\* slip: the slot is given back before the handlers have run
TestQueueFreesSlot ==
  /\ pc = "test"
  /\ q_tail # q_head
  /\ pc' = "event"
  /\ q_tail' = NEXT(q_tail)
  /\ left' \in 1 .. MAX_HANDLERS
  /\ UNCHANGED <<event_q, q_head, reg, offered, refused>>

\* while (q_tail != q_head) for (tmp = head; ...): at least the system handler is listed.
TestQueue ==
  /\ pc = "test"
  /\ q_tail # q_head
  /\ pc' = "event"
  /\ left' \in 1 .. MAX_HANDLERS
  /\ UNCHANGED <<event_q, q_head, q_tail, reg, offered, refused>>

ReadEvent ==
  /\ pc = "event"
  /\ reg' = event_q[q_tail].event
  /\ pc' = "data"
  /\ UNCHANGED <<event_q, q_head, q_tail, left, offered, refused>>

\* tmp->cb(event, data): a consuming handler, or the end of the list, ends the walk.
CallHandler ==
  /\ pc = "data"
  /\ offered' = [event |-> reg, data |-> event_q[q_tail].data]
  /\ \/ pc' = "advance" /\ UNCHANGED left
     \/ left > 1 /\ left' = left - 1 /\ pc' = "event"
  /\ UNCHANGED <<event_q, q_head, q_tail, reg, refused>>

Advance ==
  /\ pc = "advance"
  /\ q_tail' = NEXT(q_tail)
  /\ pc' = "test"
  /\ left' = 0
  /\ offered' = Blank
  /\ UNCHANGED <<event_q, q_head, reg, refused>>

Dispatch == TestQueue \/ ReadEvent \/ CallHandler \/ Advance

Next == (\E m \in Msg : evt_handler_event(m)) \/ Dispatch

\* The main loop calls evt_handler_dispatch for ever (main.cpp); nothing
\* obliges an interrupt to arrive.
Spec == Init /\ [][Next]_vars /\ WF_vars(Dispatch)
-----------------------------------------------------------------------------
\* Types and index ranges: the indices stay inside event_q.
TypeOK ==
  /\ event_q \in [Slot -> Msg \cup {Blank}]
  /\ q_head \in Slot
  /\ q_tail \in Slot
  /\ pc \in {"test", "event", "data", "advance"}
  /\ left \in 0 .. MAX_HANDLERS
  /\ reg \in Event \cup {0}
  /\ offered \in Msg \cup {Blank}
  /\ refused \in BOOLEAN

\* How many slots are occupied, and the slot of the i-th oldest event.
Count == IF q_head >= q_tail THEN q_head - q_tail
                             ELSE q_head - q_tail + EVENT_Q_SIZE
SlotOf(i) == IF q_tail + i - 1 < EVENT_Q_SIZE THEN q_tail + i - 1
                                              ELSE q_tail + i - 1 - EVENT_Q_SIZE
Pending == [i \in 1 .. Count |-> event_q[SlotOf(i)]]

\* The queue is a FIFO of EVENT_Q_SIZE - 1 places that loses an event only by
\* refusing it when full (the early return of evt_handler_event), and the
\* handlers see every accepted event, whole and in order.
Fifo == INSTANCE LossyFifo WITH
          Capacity <- EVENT_Q_SIZE - 1, Msg <- Msg, None <- Blank,
          pending <- Pending, offered <- offered, refused <- refused
ImplementsFifo == Fifo!Spec

\* While an event is walked down the list no post may touch its slot: handlers
\* called one after the other, and the two reads of one call, see one event.
SlotStable ==
  [][pc # "test" => event_q'[q_tail] = event_q[q_tail]]_vars
=============================================================================
