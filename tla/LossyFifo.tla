----------------------------- MODULE LossyFifo -----------------------------
(***************************************************************************)
(* What the system event queue promises its users (evt_handler.h): a       *)
(* posted event is refused only when Capacity events are waiting; an       *)
(* accepted one is offered to the handlers unchanged, in posting order,    *)
(* and leaves the queue once, after it has been offered.                   *)
(***************************************************************************)
EXTENDS Naturals, Sequences

CONSTANTS Capacity, Msg, None

VARIABLES
  pending,   \* accepted events that have not been retired, oldest first
  offered,   \* the event the handlers are being offered, or None
  refused    \* did the latest Post find the queue full?

vars == <<pending, offered, refused>>

Init ==
  /\ pending = <<>>
  /\ offered = None
  /\ refused = FALSE

Post(m) ==
  /\ Len(pending) < Capacity
  /\ pending' = Append(pending, m)
  /\ refused' = FALSE
  /\ UNCHANGED offered

Refuse ==
  /\ Len(pending) = Capacity
  /\ refused' = TRUE
  /\ UNCHANGED <<pending, offered>>

Offer ==
  /\ pending # <<>>
  /\ offered' = Head(pending)
  /\ UNCHANGED <<pending, refused>>

Retire ==
  /\ pending # <<>>
  /\ offered = Head(pending)
  /\ pending' = Tail(pending)
  /\ offered' = None
  /\ UNCHANGED refused

Next ==
  \/ \E m \in Msg : Post(m)
  \/ Refuse
  \/ Offer
  \/ Retire

Safety == Init /\ [][Next]_vars

\* Accepted events do not wait for ever: the consumer is fair, producers need not be.
Spec == Safety /\ WF_vars(Offer) /\ WF_vars(Retire)
=============================================================================
