--------------------------- MODULE SerialTransmit ---------------------------
(***************************************************************************)
(* The transmit side of usb_serial.cpp. The main loop prints into a ring   *)
(* of line buffers; the time tick's interrupt, in UsbSerial::process,      *)
(* sends one of them at a time and empties it. A buffer is empty when its  *)
(* first character is '\0', so it counts as full from the first character  *)
(* that vsnprintf writes.                                                  *)
(***************************************************************************)
EXTENDS Integers, Sequences

CONSTANTS
  TX_DEPTH,
  WRAP_ADDS,   \* what WRAP's i = (...) ? 0 : i++ adds to an i below depth
  Text, Empty  \* what is printed (never ""); the contents of an empty buffer

\* i = i++ is undefined. A compiler that stores the old value last leaves i
\* alone, one that stores the increment last adds 1; the second may only be
\* combined with an odd depth, or the index leaves the array.
ASSUME WrapAssumption ==
  /\ TX_DEPTH \in 1 .. 255
  /\ WRAP_ADDS \in {0, 1}
  /\ WRAP_ADDS = 1 => TX_DEPTH % 2 = 1
ASSUME TextAssumption == Empty \notin Text \cup [text : Text, whole : BOOLEAN]

VARIABLES
  tx_q,          \* buffers: Empty, or a text and whether all of it is there yet
  tx_h, tx_t,
  printing,      \* where UsbSerial::printf is
  text,          \* its text
  sending,       \* is the interrupt sending tx_q[tx_t]?
  refused        \* history: did the latest printf return early?

vars == <<tx_q, tx_h, tx_t, printing, text, sending, refused>>

Slot == 0 .. TX_DEPTH - 1
Buffer == {Empty} \cup [text : Text, whole : BOOLEAN]

\* slip: the index is compared before it is incremented
FollowingLate(i) == IF i >= TX_DEPTH THEN 0 ELSE i + 1 + WRAP_ADDS

\* tx_x++ and WRAP(tx_x, TX_DEPTH).
Following(i) == IF i + 1 >= TX_DEPTH THEN 0 ELSE i + 1 + WRAP_ADDS
-----------------------------------------------------------------------------
\* UsbSerial::printf, in the main loop: stands still while the interrupt runs.

Call(t) ==
  /\ ~ sending
  /\ printing = "no"
  /\ IF tx_q[tx_h] # Empty
     THEN refused' = TRUE /\ UNCHANGED <<printing, text>>
     ELSE printing' = "first" /\ text' = t /\ UNCHANGED refused
  /\ UNCHANGED <<tx_q, tx_h, tx_t, sending>>

\* slip: the head moves on before the text is in the buffer
FirstCharacterMovesOn ==
  /\ ~ sending
  /\ printing = "first"
  /\ tx_q' = [tx_q EXCEPT ![tx_h] = [text |-> text, whole |-> FALSE]]
  /\ tx_h' = Following(tx_h)
  /\ refused' = FALSE
  /\ printing' = "rest"
  /\ UNCHANGED <<tx_t, text, sending>>

FirstCharacter ==
  /\ ~ sending
  /\ printing = "first"
  /\ tx_q' = [tx_q EXCEPT ![tx_h] = [text |-> text, whole |-> FALSE]]
  /\ refused' = FALSE
  /\ printing' = "rest"
  /\ UNCHANGED <<tx_h, tx_t, text, sending>>

\* The rest goes behind a first character that may be '\0' again by now.
Rest ==
  /\ ~ sending
  /\ printing = "rest"
  /\ tx_q' = IF tx_q[tx_h] = Empty THEN tx_q ELSE [tx_q EXCEPT ![tx_h].whole = TRUE]
  /\ printing' = "advance"
  /\ UNCHANGED <<tx_h, tx_t, text, sending, refused>>

\* The code moves tx_h on before vsnprintf writes (line 111); the interrupt does
\* not read tx_h, so the step may as well come last.
Return ==
  /\ ~ sending
  /\ printing = "advance"
  /\ tx_h' = Following(tx_h)
  /\ printing' = "no"
  /\ text' = Empty
  /\ UNCHANGED <<tx_q, tx_t, sending, refused>>

printf == (\E t \in Text : Call(t)) \/ FirstCharacter \/ Rest \/ Return
-----------------------------------------------------------------------------
\* UsbSerial::process, in the time tick's interrupt.

Send ==
  /\ ~ sending
  /\ tx_q[tx_t] # Empty
  /\ sending' = TRUE
  /\ UNCHANGED <<tx_q, tx_h, tx_t, printing, text, refused>>

\* slip: the buffer is not given back
SentKeepsBuffer ==
  /\ sending
  /\ tx_t' = Following(tx_t)
  /\ sending' = FALSE
  /\ UNCHANGED <<tx_q, tx_h, printing, text, refused>>

Sent ==
  /\ sending
  /\ tx_q' = [tx_q EXCEPT ![tx_t] = Empty]
  /\ tx_t' = Following(tx_t)
  /\ sending' = FALSE
  /\ UNCHANGED <<tx_h, printing, text, refused>>

process == Send \/ Sent

Init ==
  /\ tx_q = [i \in Slot |-> Empty]
  /\ tx_h = 0 /\ tx_t = 0
  /\ printing = "no" /\ text = Empty
  /\ sending = FALSE
  /\ refused = FALSE

Next == printf \/ process

\* The tick comes every 20 ms and the host reads; nothing obliges the main loop
\* to print, and a printf under way goes on.
Spec == Init /\ [][Next]_vars /\ WF_vars(process) /\ WF_vars(FirstCharacter \/ Rest \/ Return)
-----------------------------------------------------------------------------
\* Types: the ring indices stay inside tx_q whichever way WRAP is compiled.
TypeOK ==
  /\ tx_q \in [Slot -> Buffer]
  /\ tx_h \in Slot
  /\ tx_t \in Slot
  /\ printing \in {"no", "first", "rest", "advance"}
  /\ text \in Text \cup {Empty}
  /\ sending \in BOOLEAN
  /\ refused \in BOOLEAN

\* The buffers the indices visit, and those in use from the tail on.
Stride == 1 + WRAP_ADDS
Places == (TX_DEPTH + WRAP_ADDS) \div Stride
Wrapped(n) == Stride * (IF n < Places THEN n ELSE n - Places)
Place(k) == Wrapped(tx_t \div Stride + k)
Used == {k \in 0 .. Places - 1 : tx_q[Place(k)] # Empty}
Pending == [n \in {k + 1 : k \in Used} |-> tx_q[Place(n - 1)].text]

\* Printed texts are sent once each, in the order they were printed, and one
\* is dropped only when every buffer of the ring is in use: although head and
\* tail are compared nowhere, "[0] == '\0'" keeps them in step, also when the
\* interrupt empties a buffer that printf is still filling. A printed text is
\* eventually sent.
Line == INSTANCE LossyFifo WITH
          Capacity <- Places, Msg <- Text, None <- Empty, pending <- Pending,
          offered <- IF sending THEN tx_q[tx_t].text ELSE Empty, refused <- refused
ImplementsFifo == Line!Spec

\* Head and tail never part: outside a printf and an interrupt the head is the
\* first empty buffer after the tail, so no printed text waits behind an empty one.
HeadInStep ==
  printing = "no" /\ ~ sending =>
    \/ Used = 0 .. Places - 1 /\ tx_h = tx_t
    \/ \E k \in 0 .. Places - 1 : Used = 0 .. k - 1 /\ tx_h = Place(k)
-----------------------------------------------------------------------------
\* usb_serial.h:39 "buffered printf": what is sent is what was printed. The
\* interrupt may find the first characters of a text and send those.
SentWhole == sending => tx_q[tx_t].whole
=============================================================================
