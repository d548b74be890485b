---------------------------- MODULE SerialReceive ----------------------------
(***************************************************************************)
(* The receive side of usb_serial.cpp and the command parser. The time     *)
(* tick's interrupt collects characters into a line buffer and posts a     *)
(* pointer to the buffer when the line ends; the main loop takes the event *)
(* later and parses the line where it lies, while characters go on coming. *)
(* Positions of a buffer count from 0, as in the code.                     *)
(***************************************************************************)
EXTENDS Integers, Sequences

CONSTANTS
  USB_SERIAL_BUF_SZ, RX_DEPTH, MAX_ARGS,
  QUEUE,       \* places of the event queue
  Char,        \* what the host sends: characters, space "SP", backspace "BS", line end "CR"
  NUL, None    \* '\0', NULL

ASSUME SizesAssumption ==
  /\ USB_SERIAL_BUF_SZ \in 2 .. 255
  /\ {RX_DEPTH, MAX_ARGS, QUEUE} \subseteq 1 .. 255
ASSUME CharAssumption == NUL \notin Char
ASSUME NoneAssumption == None \notin 0 .. USB_SERIAL_BUF_SZ - 1   \* no address in a buffer

VARIABLES
  rx_q, rx_p, rx_idx,
  queue,             \* EVENT_SERIAL_RECV in the event queue: the buffers they point to
  parsing,           \* where cmdp_parse_cmd is
  i, tok, token,     \* its locals, and the token it fills
  line,              \* history: per buffer, the line posted last,
  touched            \* and whether it shared the buffer with the line before or after

receiver == <<rx_p, rx_idx, queue, line, touched>>
parser == <<parsing, i, tok, token>>
vars == <<rx_q, receiver, parser>>

Buffer == 0 .. RX_DEPTH - 1
Position == 0 .. USB_SERIAL_BUF_SZ - 1
Posted == {queue[n] : n \in 1 .. Len(queue)}
NoToken == [cmd |-> None, arg |-> <<>>]
-----------------------------------------------------------------------------
\* UsbSerial::buffer_rx.

\* WRAP: i = (...) ? 0 : i++ is undefined (see SerialTransmit). This is the build
\* that stores the old value last; in the other rx_p reaches RX_DEPTH.
Wrap(p) == IF p >= RX_DEPTH THEN 0 ELSE p
LineEnd == {"CR"}   \* '\r' and '\n' alike

Store(b) == IF b = "BS" /\ rx_idx > 0 THEN rx_q
            ELSE [rx_q EXCEPT ![rx_p].data[rx_idx] = b]
IndexAfter(b) == IF b = "BS" /\ rx_idx > 0 THEN rx_idx - 1 ELSE rx_idx + 1

\* slip: room for the terminating '\0' is forgotten
AtEndTooLate(idx) == idx = USB_SERIAL_BUF_SZ

AtEnd(idx) == idx = USB_SERIAL_BUF_SZ - 1

\* dispatch: the line of n characters now in q is terminated and posted, or
\* lost if other events fill the queue.
Dispatch(q, n) ==
  /\ rx_q' = [q EXCEPT ![rx_p].data[n] = NUL, ![rx_p].len = n + 1]
  /\ \/ Len(queue) < QUEUE /\ queue' = Append(queue, rx_p)
     \/ UNCHANGED queue
  /\ rx_idx' = 0
  /\ rx_p' = Wrap(rx_p)
  /\ line' = [line EXCEPT ![rx_p] = [k \in 1 .. n |-> q[rx_p].data[k - 1]]]
  /\ touched' = [touched EXCEPT ![rx_p] = (@ \/ rx_p \in Posted) /\ rx_p \in Posted']

\* ("RX OVFLW" and the echo are left out.)
Receive(b) ==
  /\ IF b \in LineEnd THEN Dispatch(rx_q, rx_idx)
     ELSE IF AtEnd(IndexAfter(b)) THEN Dispatch(Store(b), IndexAfter(b))
     ELSE /\ rx_q' = Store(b)
          /\ rx_idx' = IndexAfter(b)
          /\ touched' = [touched EXCEPT ![rx_p] = @ \/ rx_p \in Posted]
          /\ UNCHANGED <<rx_p, queue, line>>
  /\ UNCHANGED parser
-----------------------------------------------------------------------------
\* cmdp_parse_cmd, called by ui_event_notify with the buffer of the oldest event.

str == rx_q[Head(queue)]

Begin ==
  /\ parsing = "no"
  /\ queue # <<>>
  /\ parsing' = "scan"
  /\ token' = NoToken
  /\ i' = 0 /\ tok' = 0
  /\ UNCHANGED <<rx_q, receiver>>

Scanning == i < str.len /\ Len(token.arg) < MAX_ARGS

\* slip: the separator stays where it is
ScanLeavesSeparator ==
  /\ parsing = "scan"
  /\ Scanning
  /\ IF str.data[i] \in {"SP", NUL}
     THEN /\ token' = IF token.cmd = None THEN [token EXCEPT !.cmd = tok]
                                          ELSE [token EXCEPT !.arg = Append(@, tok)]
          /\ tok' = i + 1
     ELSE UNCHANGED <<token, tok>>
  /\ i' = i + 1
  /\ UNCHANGED <<rx_q, receiver, parsing>>

Scan ==
  /\ parsing = "scan"
  /\ Scanning
  /\ IF str.data[i] \in {"SP", NUL}
     THEN /\ token' = IF token.cmd = None THEN [token EXCEPT !.cmd = tok]
                                          ELSE [token EXCEPT !.arg = Append(@, tok)]
          /\ rx_q' = [rx_q EXCEPT ![Head(queue)].data[i] = NUL]
          /\ tok' = i + 1
     ELSE UNCHANGED <<token, rx_q, tok>>
  /\ i' = i + 1
  /\ UNCHANGED <<receiver, parsing>>

\* No command is registered: the line is matched with none and at most reported.
Match ==
  /\ parsing = "scan"
  /\ ~ Scanning
  /\ parsing' = "release"
  /\ UNCHANGED <<rx_q, receiver, i, tok, token>>

\* RELEASE_BUF(token.cmd), which on a NULL writes elsewhere; the event is done.
Release ==
  /\ parsing = "release"
  /\ rx_q' = IF token.cmd = None THEN rx_q ELSE [rx_q EXCEPT ![Head(queue)].data[token.cmd] = NUL]
  /\ queue' = Tail(queue)
  /\ parsing' = "no"
  /\ token' = NoToken /\ i' = 0 /\ tok' = 0
  /\ touched' = [p \in Buffer |-> touched[p] /\ (p \in Posted' \/ (p = rx_p /\ rx_idx > 0))]
  /\ UNCHANGED <<rx_p, rx_idx, line>>

cmdp_parse_cmd == Begin \/ Scan \/ Match \/ Release

Init ==
  /\ rx_q = [p \in Buffer |-> [data |-> [k \in Position |-> NUL], len |-> 0]]
  /\ rx_p = 0 /\ rx_idx = 0
  /\ queue = <<>>
  /\ parsing = "no" /\ i = 0 /\ tok = 0 /\ token = NoToken
  /\ line = [p \in Buffer |-> <<>>]
  /\ touched = [p \in Buffer |-> FALSE]

Next == (\E b \in Char : Receive(b)) \/ cmdp_parse_cmd

\* The main loop goes on; nothing obliges the host to send.
Spec == Init /\ [][Next]_vars /\ WF_vars(cmdp_parse_cmd)
-----------------------------------------------------------------------------
\* Types: every index the interrupt and the parser use stays inside its buffer,
\* whatever they do to each other's line.
TypeOK ==
  /\ rx_q \in [Buffer -> [data : [Position -> Char \cup {NUL}], len : 0 .. USB_SERIAL_BUF_SZ]]
  /\ rx_p \in Buffer
  /\ rx_idx \in 0 .. USB_SERIAL_BUF_SZ - 2
  /\ Len(queue) <= QUEUE /\ Posted \subseteq Buffer
  /\ parsing \in {"no", "scan", "release"}
  /\ i \in 0 .. USB_SERIAL_BUF_SZ
  /\ tok \in 0 .. USB_SERIAL_BUF_SZ
  /\ token.cmd \in Position \cup {None}
  /\ Len(token.arg) <= MAX_ARGS /\ \A n \in 1 .. Len(token.arg) : token.arg[n] \in Position
  /\ touched \in [Buffer -> BOOLEAN]

\* Every C string the program makes of a buffer ends inside it: the last
\* character is never overwritten, whatever comes while it is being read
\* (usb_serial.cpp:54, the token's words and the "Bad cmd" message).
Terminated == \A p \in Buffer : rx_q[p].data[USB_SERIAL_BUF_SZ - 1] = NUL

\* In buffer p the C string at from is one whole word of the line, an empty one
\* too: what is between its spaces, from there to just before to.
IsWord(p, from, to) ==
  /\ \A k \in from .. to - 1 :
       rx_q[p].data[k] = line[p][k + 1] /\ line[p][k + 1] \notin {"SP", NUL}
  /\ rx_q[p].data[to] = NUL
  /\ to = Len(line[p]) \/ line[p][to + 1] = "SP"

Start(n) == IF n = 1 THEN token.cmd ELSE token.arg[n - 1]

\* A line that had its buffer to itself, from its first character to its
\* release, is parsed into its command and its first MAX_ARGS arguments: word
\* after word from its start, to its end unless there are too many.
ParsedAsSent ==
  parsing = "release" /\ ~ touched[Head(queue)] =>
    LET p == Head(queue)
        last == Len(token.arg) + 1
    IN /\ token.cmd = 0
       /\ \A n \in 1 .. last : \E to \in Start(n) .. Len(line[p]) :
            /\ IsWord(p, Start(n), to)
            /\ IF n < last THEN Start(n + 1) = to + 1
               ELSE to = Len(line[p]) \/ Len(token.arg) = MAX_ARGS
=============================================================================
