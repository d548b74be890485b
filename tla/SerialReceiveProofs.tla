------------------------- MODULE SerialReceiveProofs -------------------------
(***************************************************************************)
(* Proofs about SerialReceive for every size of a buffer, every number of  *)
(* buffers, of arguments and of places in the event queue, and every set   *)
(* of characters.                                                          *)
(***************************************************************************)
EXTENDS SerialReceive, TLAPS

USE SizesAssumption, CharAssumption, NoneAssumption

Line == [data : [Position -> Char \cup {NUL}], len : 0 .. USB_SERIAL_BUF_SZ]

\* Of the sequences TypeOK says only how long they are. A word begins at or
\* before the character that is looked at, and an event is parsed where it is
\* the oldest of the queue.
TypeInv ==
  /\ TypeOK
  /\ queue \in Seq(Buffer)
  /\ token \in [cmd : Position \cup {None}, arg : Seq(Position)]
  /\ tok <= i
  /\ parsing # "no" => queue # <<>>

-----------------------------------------------------------------------------
\* Sizes.

LEMMA SizeFacts ==
  /\ USB_SERIAL_BUF_SZ \in Nat /\ 2 <= USB_SERIAL_BUF_SZ
  /\ RX_DEPTH \in Nat /\ 1 <= RX_DEPTH
  /\ MAX_ARGS \in Nat /\ QUEUE \in Nat
OBVIOUS

\* One character of one buffer is written.
LEMMA CharacterWritten ==
  ASSUME NEW q \in [Buffer -> Line], NEW p \in Buffer, NEW k \in Position, NEW c \in Char \cup {NUL},
         NEW w, w = [q EXCEPT ![p].data[k] = c]
  PROVE  /\ w \in [Buffer -> Line]
         /\ \A b \in Buffer, n \in Position : n # k \/ c = NUL => w[b].data[n] \in {q[b].data[n], NUL}
         /\ \A b \in Buffer, n \in Position : n # k => w[b].data[n] = q[b].data[n]
<1> DEFINE d == [q[p].data EXCEPT ![k] = c]
           r == [q[p] EXCEPT !.data = d]
<1>1. w = [q EXCEPT ![p] = r]
  OBVIOUS
<1>2. q[p] \in Line
  OBVIOUS
<1>3. q[p].data \in [Position -> Char \cup {NUL}]
  BY <1>2 DEF Line
<1>4. d \in [Position -> Char \cup {NUL}]
  BY <1>3
<1>5. \A n \in Position : d[n] = IF n = k THEN c ELSE q[p].data[n]
  BY <1>3
<1> HIDE DEF d
<1>6. r \in Line /\ r.data = d
  BY <1>2, <1>4 DEF Line
<1> HIDE DEF r
<1>7. w \in [Buffer -> Line] /\ \A b \in Buffer : w[b] = IF b = p THEN r ELSE q[b]
  BY <1>1, <1>6
<1> QED
  BY <1>5, <1>6, <1>7

\* A line is ended: its '\0' is written, and its length.
Ended(v, q, p, k) == v = [q EXCEPT ![p].data[k] = NUL, ![p].len = k + 1]

LEMMA LineEnded ==
  ASSUME NEW q \in [Buffer -> Line], NEW p \in Buffer, NEW k \in Position,
         NEW v, Ended(v, q, p, k)
  PROVE  /\ v \in [Buffer -> Line]
         /\ \A b \in Buffer, n \in Position : v[b].data[n] \in {q[b].data[n], NUL}
<1> DEFINE w == [q EXCEPT ![p].data[k] = NUL]
           r == [w[p] EXCEPT !.len = k + 1]
<1>1. v = [w EXCEPT ![p] = r]
  BY DEF Ended
<1>2. /\ w \in [Buffer -> Line]
      /\ \A b \in Buffer, n \in Position : w[b].data[n] \in {q[b].data[n], NUL}
  BY CharacterWritten
<1>3. k + 1 \in 0 .. USB_SERIAL_BUF_SZ
  BY DEF Position
<1> HIDE DEF w
<1>4. r \in Line /\ r.data = w[p].data
  BY <1>2, <1>3, SMTT(30) DEF Line
<1> HIDE DEF r
<1>5. v \in [Buffer -> Line] /\ \A b \in Buffer : v[b] = IF b = p THEN r ELSE w[b]
  BY <1>1, <1>2, <1>4
<1> QED
  BY <1>2, <1>4, <1>5
-----------------------------------------------------------------------------
\* The inductive invariant.
IInv == TypeInv /\ Terminated

LEMMA InitIInv == Init => IInv
<1> SUFFICES ASSUME Init PROVE IInv
  OBVIOUS
<1>1. 0 \in Buffer /\ 0 \in 0 .. USB_SERIAL_BUF_SZ - 2 /\ USB_SERIAL_BUF_SZ - 1 \in Position
  BY SizeFacts DEF Buffer, Position
<1>2. queue = <<>> /\ Posted = {}
  BY DEF Init, Posted
<1>3. token \in [cmd : Position \cup {None}, arg : Seq(Position)] /\ token.arg = <<>>
  BY DEF Init, NoToken
<1>4. rx_q \in [Buffer -> Line]
  BY DEF Init, Line
<1>5. touched \in [Buffer -> BOOLEAN]
  BY DEF Init
<1>6. TypeOK
  <2>1. /\ rx_p \in Buffer /\ rx_idx \in 0 .. USB_SERIAL_BUF_SZ - 2
        /\ i \in 0 .. USB_SERIAL_BUF_SZ /\ tok \in 0 .. USB_SERIAL_BUF_SZ
    BY <1>1, SizeFacts DEF Init
  <2>2. Len(queue) <= QUEUE /\ Posted \subseteq Buffer
    BY <1>2, SizeFacts
  <2>3. /\ token.cmd \in Position \cup {None}
        /\ Len(token.arg) <= MAX_ARGS /\ \A n \in 1 .. Len(token.arg) : token.arg[n] \in Position
    BY <1>3, SizeFacts
  <2>4. parsing \in {"no", "scan", "release"}
    BY DEF Init
  <2> QED
    BY <1>4, <1>5, <2>1, <2>2, <2>3, <2>4 DEF TypeOK, Line
<1>7. Terminated
  BY <1>1 DEF Init, Terminated
<1> QED
  BY <1>2, <1>3, <1>6, <1>7 DEF Init, IInv, TypeInv

\* What the interrupt may do to the buffers keeps the parser's part.
LEMMA ReceiveKeeps ==
  ASSUME IInv, UNCHANGED parser,
         rx_q' \in [Buffer -> Line], Terminated', rx_p' \in Buffer, rx_idx' \in 0 .. USB_SERIAL_BUF_SZ - 2,
         queue' = queue \/ (Len(queue) < QUEUE /\ queue' = Append(queue, rx_p)),
         touched' \in [Buffer -> BOOLEAN]
  PROVE  IInv'
<1>1. queue \in Seq(Buffer) /\ rx_p \in Buffer /\ Len(queue) <= QUEUE
  BY DEF IInv, TypeInv, TypeOK
<1>2. queue' \in Seq(Buffer) /\ Len(queue') <= QUEUE /\ (queue # <<>> => queue' # <<>>)
  <2>1. CASE queue' = queue
    BY <1>1, <2>1
  <2>2. CASE Len(queue) < QUEUE /\ queue' = Append(queue, rx_p)
    BY <1>1, <2>2, SizeFacts
  <2> QED
    BY <2>1, <2>2
<1>3. Posted' \subseteq Buffer
  BY <1>2 DEF Posted
<1>4. TypeOK'
  BY <1>2, <1>3 DEF IInv, TypeInv, TypeOK, Line, parser
<1> QED
  BY <1>2, <1>4 DEF IInv, TypeInv, parser

\* dispatch, of a line of n characters in q.
LEMMA DispatchKeeps ==
  ASSUME IInv, UNCHANGED parser, NEW q \in [Buffer -> Line], NEW n \in Position,
         \A b \in Buffer : q[b].data[USB_SERIAL_BUF_SZ - 1] = NUL,
         Dispatch(q, n)
  PROVE  IInv'
<1>1. rx_p \in Buffer /\ touched \in [Buffer -> BOOLEAN] /\ USB_SERIAL_BUF_SZ - 1 \in Position
  BY SizeFacts DEF IInv, TypeInv, TypeOK, Position
<1>2. rx_q' \in [Buffer -> Line] /\ Terminated'
  <2>1. Ended(rx_q', q, rx_p, n)
    BY DEF Dispatch, Ended
  <2>2. /\ rx_q' \in [Buffer -> Line]
        /\ \A b \in Buffer, k \in Position : rx_q'[b].data[k] \in {q[b].data[k], NUL}
    BY <1>1, <2>1, LineEnded
  <2> QED
    BY <1>1, <2>2 DEF Terminated
<1>3. rx_p' \in Buffer /\ rx_idx' \in 0 .. USB_SERIAL_BUF_SZ - 2
  BY <1>1, SizeFacts DEF Dispatch, Wrap, Buffer
<1>4. touched' \in [Buffer -> BOOLEAN]
  BY <1>1 DEF Dispatch
<1> QED
  BY <1>2, <1>3, <1>4, ReceiveKeeps DEF Dispatch

\* A character is stored before the last place of the buffer.
LEMMA StoreFacts ==
  ASSUME IInv, NEW b \in Char
  PROVE  /\ Store(b) \in [Buffer -> Line]
         /\ \A p \in Buffer : Store(b)[p].data[USB_SERIAL_BUF_SZ - 1] = NUL
         /\ IndexAfter(b) \in Position
<1>1. /\ rx_q \in [Buffer -> Line] /\ rx_p \in Buffer
      /\ rx_idx \in 0 .. USB_SERIAL_BUF_SZ - 2
      /\ \A p \in Buffer : rx_q[p].data[USB_SERIAL_BUF_SZ - 1] = NUL
  BY DEF IInv, TypeInv, TypeOK, Terminated, Line
<1>2. /\ rx_idx \in Position /\ rx_idx # USB_SERIAL_BUF_SZ - 1 /\ USB_SERIAL_BUF_SZ - 1 \in Position
      /\ IndexAfter(b) \in Position
  BY <1>1, SizeFacts DEF Position, IndexAfter
<1>3. CASE b = "BS" /\ rx_idx > 0
  BY <1>1, <1>2, <1>3 DEF Store
<1>4. CASE ~ (b = "BS" /\ rx_idx > 0)
  <2>1. Store(b) = [rx_q EXCEPT ![rx_p].data[rx_idx] = b]
    BY <1>4 DEF Store
  <2> QED
    BY <1>1, <1>2, <2>1, CharacterWritten
<1> QED
  BY <1>3, <1>4

LEMMA ReceiveIInv ==
  ASSUME IInv, NEW b \in Char, Receive(b)
  PROVE  IInv'
<1>1. /\ rx_q \in [Buffer -> Line] /\ rx_p \in Buffer
      /\ rx_idx \in 0 .. USB_SERIAL_BUF_SZ - 2
      /\ \A p \in Buffer : rx_q[p].data[USB_SERIAL_BUF_SZ - 1] = NUL
      /\ touched \in [Buffer -> BOOLEAN]
  BY DEF IInv, TypeInv, TypeOK, Terminated, Line
<1>2. UNCHANGED parser
  BY DEF Receive
<1>3. CASE b \in LineEnd
  <2>1. rx_idx \in Position /\ Dispatch(rx_q, rx_idx)
    BY <1>1, <1>3, SizeFacts DEF Receive, Position
  <2> QED
    BY <1>1, <1>2, <2>1, DispatchKeeps
<1>4. CASE b \notin LineEnd /\ AtEnd(IndexAfter(b))
  <2>1. Dispatch(Store(b), IndexAfter(b))
    BY <1>4 DEF Receive
  <2> QED
    BY <1>2, <2>1, StoreFacts, DispatchKeeps
<1>5. CASE b \notin LineEnd /\ ~ AtEnd(IndexAfter(b))
  <2>1. /\ rx_q' = Store(b) /\ rx_idx' = IndexAfter(b) /\ UNCHANGED <<rx_p, queue>>
        /\ touched' = [touched EXCEPT ![rx_p] = @ \/ rx_p \in Posted]
    BY <1>5 DEF Receive
  <2>2. touched' \in [Buffer -> BOOLEAN]
    BY <1>1, <2>1
  <2>3. rx_idx' \in 0 .. USB_SERIAL_BUF_SZ - 2
    BY <1>5, <2>1, StoreFacts, SizeFacts DEF AtEnd, Position
  <2>4. rx_q' \in [Buffer -> Line] /\ Terminated'
    BY <2>1, StoreFacts DEF Terminated
  <2> QED
    BY <1>1, <1>2, <2>1, <2>2, <2>3, <2>4, ReceiveKeeps
<1> QED
  BY <1>3, <1>4, <1>5
-----------------------------------------------------------------------------
\* The parser.

LEMMA ScanIInv ==
  ASSUME IInv, Scan
  PROVE  IInv'
<1>1. /\ rx_q \in [Buffer -> Line] /\ queue \in Seq(Buffer)
      /\ i \in 0 .. USB_SERIAL_BUF_SZ /\ tok \in 0 .. USB_SERIAL_BUF_SZ /\ tok <= i
      /\ token \in [cmd : Position \cup {None}, arg : Seq(Position)]
      /\ \A p \in Buffer : rx_q[p].data[USB_SERIAL_BUF_SZ - 1] = NUL
      /\ parsing # "no" => queue # <<>>
  BY DEF IInv, TypeInv, TypeOK, Terminated, Line
<1>2. Head(queue) \in Buffer
  <2>1. parsing = "scan"
    BY DEF Scan
  <2> QED
    BY <1>1, <2>1
<1>3. str.len \in 0 .. USB_SERIAL_BUF_SZ
  BY <1>1, <1>2 DEF str, Line
<1>4. i \in Position /\ tok \in Position /\ Len(token.arg) < MAX_ARGS
  <2>1. i < str.len /\ Len(token.arg) < MAX_ARGS
    BY DEF Scan, Scanning
  <2> QED
    BY <1>1, <1>3, <2>1, SizeFacts DEF Position
<1>5. i' = i + 1 /\ i' \in 0 .. USB_SERIAL_BUF_SZ
  <2>1. i' = i + 1
    BY DEF Scan
  <2> QED
    BY <1>4, <2>1, SizeFacts DEF Position
<1>6. tok' \in 0 .. USB_SERIAL_BUF_SZ /\ tok' <= i'
  <2>1. tok' = i + 1 \/ tok' = tok
    BY DEF Scan
  <2> QED
    BY <1>1, <1>4, <1>5, <2>1, SizeFacts DEF Position
<1>7. rx_q' \in [Buffer -> Line] /\ Terminated'
  <2>1. USB_SERIAL_BUF_SZ - 1 \in Position
    BY SizeFacts DEF Position
  <2>2. CASE rx_q' = rx_q
    BY <1>1, <2>2 DEF Terminated
  <2>3. CASE rx_q' = [rx_q EXCEPT ![Head(queue)].data[i] = NUL]
    <3>1. /\ rx_q' \in [Buffer -> Line]
          /\ \A b \in Buffer, n \in Position : rx_q'[b].data[n] \in {rx_q[b].data[n], NUL}
      BY <1>1, <1>2, <1>4, <2>3, CharacterWritten
    <3> QED
      BY <1>1, <2>1, <3>1 DEF Terminated
  <2> QED
    BY <2>2, <2>3 DEF Scan
<1>8. token' \in [cmd : Position \cup {None}, arg : Seq(Position)] /\ Len(token'.arg) <= MAX_ARGS
  <2>1. token' \in {token, [token EXCEPT !.cmd = tok], [token EXCEPT !.arg = Append(@, tok)]}
    BY DEF Scan
  <2>2. CASE token' = token
    BY <1>1, <1>4, <2>2, SizeFacts
  <2>3. CASE token' = [token EXCEPT !.cmd = tok]
    BY <1>1, <1>4, <2>3, SizeFacts
  <2>4. CASE token' = [token EXCEPT !.arg = Append(@, tok)]
    <3>1. token.arg \in Seq(Position)
      BY <1>1
    <3>2. Append(token.arg, tok) \in Seq(Position) /\ Len(Append(token.arg, tok)) = Len(token.arg) + 1
      BY <1>4, <3>1
    <3>3. token'.arg = Append(token.arg, tok) /\ token' \in [cmd : Position \cup {None}, arg : Seq(Position)]
      BY <1>1, <2>4, <3>2
    <3> QED
      BY <1>4, <3>1, <3>2, <3>3, SizeFacts
  <2> QED
    BY <2>1, <2>2, <2>3, <2>4
<1>9. \A n \in 1 .. Len(token'.arg) : token'.arg[n] \in Position
  BY <1>8
<1>10. UNCHANGED <<receiver, parsing>>
  BY DEF Scan
<1>11. TypeOK'
  BY <1>5, <1>6, <1>7, <1>8, <1>9, <1>10 DEF IInv, TypeInv, TypeOK, Line, receiver, Posted
<1> QED
  BY <1>6, <1>7, <1>8, <1>10, <1>11 DEF IInv, TypeInv, receiver

LEMMA NoTokenType ==
  NoToken \in [cmd : Position \cup {None}, arg : Seq(Position)] /\ Len(NoToken.arg) <= MAX_ARGS
  /\ NoToken.cmd \in Position \cup {None}
  /\ \A n \in 1 .. Len(NoToken.arg) : NoToken.arg[n] \in Position
<1>1. NoToken.arg = <<>> /\ NoToken.cmd = None
  BY DEF NoToken
<1>2. NoToken \in [cmd : Position \cup {None}, arg : Seq(Position)]
  BY DEF NoToken
<1> QED
  BY <1>1, <1>2, SizeFacts

LEMMA BeginIInv ==
  ASSUME IInv, Begin
  PROVE  IInv'
<1>1. /\ queue # <<>> /\ parsing' = "scan" /\ token' = NoToken /\ i' = 0 /\ tok' = 0
      /\ UNCHANGED <<rx_q, receiver>>
  BY DEF Begin
<1>2. 0 \in 0 .. USB_SERIAL_BUF_SZ
  BY SizeFacts
<1>3. TypeOK'
  BY <1>1, <1>2, NoTokenType DEF IInv, TypeInv, TypeOK, receiver, Posted
<1>4. Terminated'
  BY <1>1 DEF IInv, Terminated
<1> QED
  BY <1>1, <1>3, <1>4, NoTokenType DEF IInv, TypeInv, receiver

LEMMA MatchIInv ==
  ASSUME IInv, Match
  PROVE  IInv'
<1>1. parsing = "scan" /\ parsing' = "release" /\ UNCHANGED <<rx_q, receiver, i, tok, token>>
  BY DEF Match
<1>2. TypeOK'
  BY <1>1 DEF IInv, TypeInv, TypeOK, receiver, Posted
<1>3. Terminated'
  BY <1>1 DEF IInv, Terminated
<1> QED
  BY <1>1, <1>2, <1>3 DEF IInv, TypeInv, receiver

LEMMA ReleaseIInv ==
  ASSUME IInv, Release
  PROVE  IInv'
<1>1. /\ rx_q \in [Buffer -> Line] /\ queue \in Seq(Buffer) /\ Len(queue) <= QUEUE
      /\ token.cmd \in Position \cup {None}
      /\ \A p \in Buffer : rx_q[p].data[USB_SERIAL_BUF_SZ - 1] = NUL
      /\ parsing # "no" => queue # <<>>
      /\ touched \in [Buffer -> BOOLEAN]
  BY DEF IInv, TypeInv, TypeOK, Terminated, Line
<1>2. /\ parsing = "release" /\ queue' = Tail(queue) /\ parsing' = "no"
      /\ token' = NoToken /\ i' = 0 /\ tok' = 0
      /\ UNCHANGED <<rx_p, rx_idx, line>>
  BY DEF Release
<1>3. queue # <<>> /\ Head(queue) \in Buffer
  BY <1>1, <1>2
<1>4. queue' \in Seq(Buffer) /\ Len(queue') = Len(queue) - 1
  BY <1>1, <1>2, <1>3
<1>5. Len(queue') <= QUEUE /\ Posted' \subseteq Buffer
  BY <1>1, <1>4, SizeFacts DEF Posted
<1>6. rx_q' \in [Buffer -> Line] /\ Terminated'
  <2>1. USB_SERIAL_BUF_SZ - 1 \in Position
    BY SizeFacts DEF Position
  <2>2. CASE rx_q' = rx_q
    BY <1>1, <2>2 DEF Terminated
  <2>3. CASE token.cmd \in Position /\ rx_q' = [rx_q EXCEPT ![Head(queue)].data[token.cmd] = NUL]
    <3>1. /\ rx_q' \in [Buffer -> Line]
          /\ \A b \in Buffer, n \in Position : rx_q'[b].data[n] \in {rx_q[b].data[n], NUL}
      BY <1>1, <1>3, <2>3, CharacterWritten
    <3> QED
      BY <1>1, <2>1, <3>1 DEF Terminated
  <2> QED
    BY <1>1, <2>2, <2>3 DEF Release
<1>7. touched' \in [Buffer -> BOOLEAN]
  BY <1>1 DEF Release
<1>8. 0 \in 0 .. USB_SERIAL_BUF_SZ
  BY SizeFacts
<1>9. TypeOK'
  BY <1>2, <1>5, <1>6, <1>7, <1>8, NoTokenType DEF IInv, TypeInv, TypeOK, Line
<1> QED
  BY <1>2, <1>4, <1>6, <1>9, NoTokenType DEF IInv, TypeInv

LEMMA StepIInv == IInv /\ [Next]_vars => IInv'
<1> SUFFICES ASSUME IInv, [Next]_vars PROVE IInv'
  OBVIOUS
<1>1. CASE \E b \in Char : Receive(b)
  BY <1>1, ReceiveIInv
<1>2. CASE cmdp_parse_cmd
  BY <1>2, BeginIInv, ScanIInv, MatchIInv, ReleaseIInv DEF cmdp_parse_cmd
<1>3. CASE UNCHANGED vars
  <2>1. TypeOK'
    BY <1>3 DEF vars, receiver, parser, IInv, TypeInv, TypeOK, Posted
  <2>2. Terminated'
    BY <1>3 DEF vars, IInv, Terminated
  <2> QED
    BY <1>3, <2>1, <2>2 DEF vars, receiver, parser, IInv, TypeInv
<1> QED
  BY <1>1, <1>2, <1>3 DEF Next

LEMMA AlwaysIInv == Spec => []IInv
BY InitIInv, StepIInv, PTL DEF Spec

\* TypeOK holds in every state: no index of buffer_rx or of cmdp_parse_cmd ever
\* leaves its buffer, for every size of the buffers, although the interrupt
\* writes the line and its length while the parser reads them.
THEOREM TypeCorrect == Spec => []TypeOK
<1>1. IInv => TypeOK
  BY DEF IInv, TypeInv
<1> QED
  BY <1>1, AlwaysIInv, PTL

\* The last character of every buffer stays '\0': every C string the program
\* makes of a line ends inside its buffer.
THEOREM StringsEnd == Spec => []Terminated
<1>1. IInv => Terminated
  BY DEF IInv
<1> QED
  BY <1>1, AlwaysIInv, PTL
-----------------------------------------------------------------------------
\* A line that has its buffer to itself.

\* How far the parser has come in a buffer.
Reached(p) == IF parsing # "no" /\ p = Head(queue) THEN i ELSE 0

Once(p) == \A m \in 1 .. Len(queue), n \in 1 .. Len(queue) : queue[m] = p /\ queue[n] = p => m = n

\* Of a line that is coming in, what is there has been sent; where a line waits to be
\* parsed, none is coming in, and it waits once.
Arriving(p) ==
  /\ p = rx_p /\ p \notin Posted => \A k \in 0 .. rx_idx - 1 : rx_q[p].data[k] \in Char
  /\ p = rx_p /\ p \in Posted => rx_idx = 0
  /\ Once(p)

\* A posted line is in its buffer, but for the separators the parser has passed.
Stored(p) ==
  /\ line[p] \in Seq(Char) /\ Len(line[p]) \in Position
  /\ rx_q[p].len = Len(line[p]) + 1
  /\ rx_q[p].data[Len(line[p])] = NUL
  /\ \A k \in 0 .. Len(line[p]) - 1 :
       rx_q[p].data[k] = IF k < Reached(p) /\ line[p][k + 1] = "SP" THEN NUL ELSE line[p][k + 1]

\* Where the n-th word ends: the next begins behind its separator.
EndOf(n) == (IF n <= Len(token.arg) THEN token.arg[n] ELSE tok) - 1

WordFound(p, n) ==
  /\ Start(n) <= EndOf(n) /\ EndOf(n) <= Len(line[p]) /\ EndOf(n) < i
  /\ IsWord(p, Start(n), EndOf(n))

\* What the parser has found so far, and that no word ends from tok to i.
Parsed(p) ==
  /\ i <= Len(line[p]) + 1 /\ (i = Len(line[p]) + 1 => tok = i)
  /\ \A k \in tok .. i - 1 : k < Len(line[p]) => line[p][k + 1] # "SP"
  /\ token.cmd = None => token.arg = <<>> /\ tok = 0
  /\ token.cmd # None => token.cmd = 0 /\ \A n \in 1 .. Len(token.arg) + 1 : WordFound(p, n)
  /\ parsing = "release" => i = Len(line[p]) + 1 \/ Len(token.arg) = MAX_ARGS

Alone(p) ==
  /\ Arriving(p)
  /\ p \in Posted => Stored(p)
  /\ p \in Posted /\ parsing # "no" /\ p = Head(queue) => Parsed(p)

AloneInv == line \in [Buffer -> Seq(Char \cup {NUL})] /\ \A p \in Buffer : ~ touched[p] => Alone(p)

LEMMA Known ==
  ASSUME IInv
  PROVE  /\ rx_q \in [Buffer -> Line] /\ rx_p \in Buffer /\ rx_p \in 0 .. RX_DEPTH - 1
         /\ rx_idx \in 0 .. USB_SERIAL_BUF_SZ - 2 /\ rx_idx \in Position
         /\ queue \in Seq(Buffer) /\ Posted \subseteq Buffer
         /\ i \in 0 .. USB_SERIAL_BUF_SZ /\ tok \in 0 .. USB_SERIAL_BUF_SZ /\ tok <= i
         /\ token \in [cmd : Position \cup {None}, arg : Seq(Position)]
         /\ touched \in [Buffer -> BOOLEAN]
         /\ parsing # "no" => queue # <<>>
BY SizeFacts DEF IInv, TypeInv, TypeOK, Line, Buffer, Position

LEMMA InitAlone == Init => AloneInv
<1> SUFFICES ASSUME Init PROVE AloneInv
  OBVIOUS
<1>1. queue = <<>> /\ Posted = {} /\ rx_idx = 0
  BY DEF Init, Posted
<1>2. line \in [Buffer -> Seq(Char \cup {NUL})]
  BY DEF Init
<1>3. \A p \in Buffer : Alone(p)
  BY <1>1 DEF Alone, Arriving, Once
<1> QED
  BY <1>2, <1>3 DEF AloneInv

\* A character is written, a line ended: what exactly changes.
LEMMA WrittenExactly ==
  ASSUME NEW q \in [Buffer -> Line], NEW p \in Buffer, NEW k \in Position, NEW c \in Char \cup {NUL},
         NEW w, w = [q EXCEPT ![p].data[k] = c]
  PROVE  /\ \A b \in Buffer : b # p => w[b] = q[b]
         /\ w[p].len = q[p].len
         /\ w[p].data[k] = c
         /\ \A n \in Position : w[p].data[n] = IF n = k THEN c ELSE q[p].data[n]
<1> DEFINE d == [q[p].data EXCEPT ![k] = c]
           r == [q[p] EXCEPT !.data = d]
<1>1. w = [q EXCEPT ![p] = r]
  OBVIOUS
<1>2. q[p] \in Line
  OBVIOUS
<1>3. q[p].data \in [Position -> Char \cup {NUL}]
  BY <1>2 DEF Line
<1>4. \A n \in Position : d[n] = IF n = k THEN c ELSE q[p].data[n]
  BY <1>3
<1> HIDE DEF d
<1>5. r.data = d /\ r.len = q[p].len
  BY <1>2 DEF Line
<1> HIDE DEF r
<1>6. \A b \in Buffer : w[b] = IF b = p THEN r ELSE q[b]
  BY <1>1
<1> QED
  BY <1>4, <1>5, <1>6

LEMMA EndedExactly ==
  ASSUME NEW q \in [Buffer -> Line], NEW p \in Buffer, NEW k \in Position,
         NEW v, Ended(v, q, p, k)
  PROVE  /\ \A b \in Buffer : b # p => v[b] = q[b]
         /\ v[p].len = k + 1
         /\ \A n \in Position : v[p].data[n] = IF n = k THEN NUL ELSE q[p].data[n]
<1> DEFINE w == [q EXCEPT ![p].data[k] = NUL]
           d == [q[p].data EXCEPT ![k] = NUL]
           r == [q[p] EXCEPT !.data = d]
           e == [w[p] EXCEPT !.len = k + 1]
<1>1. v = [w EXCEPT ![p] = e]
  BY DEF Ended
<1>2. w = [q EXCEPT ![p] = r]
  OBVIOUS
<1>3. q[p] \in Line
  OBVIOUS
<1>4. \A n \in Position : d[n] = IF n = k THEN NUL ELSE q[p].data[n]
  BY <1>3 DEF Line
<1>5. d \in [Position -> Char \cup {NUL}]
  BY <1>3 DEF Line
<1> HIDE DEF d
<1>6. r.data = d /\ r \in Line
  BY <1>3, <1>5 DEF Line
<1> HIDE DEF r
<1>7. w \in [Buffer -> Line] /\ w[p] = r /\ \A b \in Buffer : b # p => w[b] = q[b]
  BY <1>2, <1>6
<1> HIDE DEF w
<1>8. e.data = d /\ e.len = k + 1
  BY <1>6, <1>7 DEF Line
<1> HIDE DEF e
<1>9. v[p] = e /\ \A b \in Buffer : b # p => v[b] = q[b]
  BY <1>1, <1>7
<1> QED
  BY <1>4, <1>8, <1>9

\* A buffer that a step leaves alone, as it lies and in the queue, stays as it is.
LEMMA AloneSame ==
  ASSUME NEW p \in Buffer, Alone(p), rx_q'[p] = rx_q[p], line'[p] = line[p], p # rx_p, rx_p' = rx_p,
         UNCHANGED parser, (p \in Posted)' = (p \in Posted), Once(p)',
         p \in Posted => Head(queue') = Head(queue)
  PROVE  Alone(p)'
<1>1. Arriving(p)'
  BY DEF Arriving
<1>2. p \in Posted => Reached(p)' = Reached(p)
  BY DEF Reached, parser
<1>3. Stored(p) /\ p \in Posted => Stored(p)'
  BY <1>2 DEF Stored
<1>4. UNCHANGED <<parsing, i, tok, token>>
  BY DEF parser
<1>5. \A n : WordFound(p, n) => WordFound(p, n)'
  BY <1>4 DEF WordFound, Start, EndOf, IsWord
<1>6. Parsed(p) => Parsed(p)'
  BY <1>4, <1>5 DEF Parsed
<1> QED
  BY <1>1, <1>3, <1>4, <1>6 DEF Alone

\* A line is posted behind the others.
LEMMA Queued ==
  ASSUME IInv, queue' = Append(queue, rx_p)
  PROVE  /\ Posted' = Posted \cup {rx_p}
         /\ queue # <<>> => Head(queue') = Head(queue)
         /\ \A p \in Buffer : Once(p) /\ (p = rx_p => p \notin Posted) => Once(p)'
<1> DEFINE L == Len(queue)
<1>1. queue \in Seq(Buffer) /\ L \in Nat /\ rx_p \in Buffer
  BY Known
<1>2. Len(queue') = L + 1 /\ \A n \in 1 .. L + 1 : queue'[n] = IF n = L + 1 THEN rx_p ELSE queue[n]
  BY <1>1
<1>3. \A n \in 1 .. L : n \in 1 .. L + 1 /\ n # L + 1
  BY <1>1
<1>4. L + 1 \in 1 .. L + 1
  BY <1>1
<1>5. \A n \in 1 .. L + 1 : n \in 1 .. L \/ n = L + 1
  BY <1>1
<1>6. Posted' = Posted \cup {rx_p}
  BY <1>2, <1>3, <1>4, <1>5 DEF Posted
<1>7. queue # <<>> => Head(queue') = Head(queue)
  BY <1>1
<1>8. ASSUME NEW p \in Buffer, Once(p), p = rx_p => p \notin Posted
      PROVE  Once(p)'
  <2> SUFFICES ASSUME NEW m \in 1 .. L + 1, NEW n \in 1 .. L + 1, queue'[m] = p, queue'[n] = p
               PROVE  m = n
    BY <1>2 DEF Once
  <2>1. CASE m \in 1 .. L /\ n \in 1 .. L
    BY <1>2, <1>3, <1>8, <2>1 DEF Once
  <2>2. CASE m = L + 1 /\ n = L + 1
    BY <2>2
  <2>3. CASE m = L + 1 /\ n \in 1 .. L
    BY <1>2, <1>3, <1>4, <1>8, <2>3 DEF Posted
  <2>4. CASE n = L + 1 /\ m \in 1 .. L
    BY <1>2, <1>3, <1>4, <1>8, <2>4 DEF Posted
  <2> QED
    BY <1>5, <2>1, <2>2, <2>3, <2>4
<1> QED
  BY <1>6, <1>7, <1>8

\* dispatch, of the n characters of a line in q, all of them sent if the line has
\* its buffer to itself.
LEMMA DispatchAlone ==
  ASSUME IInv, AloneInv, UNCHANGED parser, NEW q \in [Buffer -> Line], NEW n \in Position,
         \A b \in Buffer : b # rx_p => q[b] = rx_q[b],
         ~ touched[rx_p] /\ rx_p \notin Posted => \A k \in 0 .. n - 1 : q[rx_p].data[k] \in Char,
         Dispatch(q, n)
  PROVE  AloneInv'
<1>0. rx_p' = rx_p
  <2>1. rx_p' = Wrap(rx_p)
    BY Zenon DEF Dispatch
  <2> QED
    BY <2>1, Known, SizeFacts DEF Wrap
<1>1. /\ Ended(rx_q', q, rx_p, n)
      /\ queue' = Append(queue, rx_p) \/ queue' = queue
      /\ rx_idx' = 0
      /\ line' = [line EXCEPT ![rx_p] = [k \in 1 .. n |-> q[rx_p].data[k - 1]]]
      /\ touched' = [touched EXCEPT ![rx_p] = (@ \/ rx_p \in Posted) /\ rx_p \in Posted']
  BY Zenon DEF Dispatch, Ended
<1>2. /\ \A b \in Buffer : b # rx_p => rx_q'[b] = rx_q[b]
      /\ rx_q'[rx_p].len = n + 1
      /\ \A k \in Position : rx_q'[rx_p].data[k] = IF k = n THEN NUL ELSE q[rx_p].data[k]
  BY <1>1, Known, EndedExactly
<1>3. Position \subseteq Nat /\ n \in Nat /\ \A k \in 0 .. n : k \in Position
  BY SizeFacts DEF Position
<1> DEFINE s == [k \in 1 .. n |-> q[rx_p].data[k - 1]]
<1>4. s \in Seq(Char \cup {NUL}) /\ Len(s) = n
  <2>1. \A k \in 1 .. n : q[rx_p].data[k - 1] \in Char \cup {NUL}
    BY <1>3, Known DEF Line
  <2> QED
    BY <1>3, <2>1
<1>5. \A k \in 1 .. n : s[k] = q[rx_p].data[k - 1]
  OBVIOUS
<1>6. line' = [line EXCEPT ![rx_p] = s]
  BY <1>1
<1> HIDE DEF s
<1>7. line' \in [Buffer -> Seq(Char \cup {NUL})] /\ line'[rx_p] = s
      /\ \A b \in Buffer : b # rx_p => line'[b] = line[b]
  BY <1>4, <1>6, Known DEF AloneInv
<1>8. ASSUME NEW p \in Buffer, ~ touched'[p], p # rx_p
      PROVE  Alone(p)'
  <2>1. Alone(p)
    BY <1>1, <1>8, Known DEF AloneInv
  <2>2. (p \in Posted)' = (p \in Posted) /\ Once(p)' /\ (p \in Posted => Head(queue') = Head(queue))
    <3>1. CASE queue' = queue
      BY <2>1, <3>1 DEF Posted, Once, Alone, Arriving
    <3>2. CASE queue' = Append(queue, rx_p)
      <4>1. Posted' = Posted \cup {rx_p} /\ Once(p)' /\ (queue # <<>> => Head(queue') = Head(queue))
        BY <1>8, <2>1, <3>2, Queued DEF Alone, Arriving
      <4>2. p \in Posted => queue # <<>>
        BY DEF Posted
      <4> QED
        BY <1>8, <4>1, <4>2
    <3> QED
      BY <1>1, <3>1, <3>2
  <2> QED
    BY <1>0, <1>2, <1>7, <1>8, <2>1, <2>2, AloneSame
<1>9. PICK p \in Buffer : p = rx_p
  BY Known
<1>10. ASSUME ~ touched'[p], p \notin Posted'
       PROVE  Alone(p)'
  <2>1. Once(p)'
    BY <1>10 DEF Once, Posted
  <2> QED
    BY <1>1, <1>10, <2>1 DEF Alone, Arriving
<1>11. ASSUME ~ touched'[p], p \in Posted'
       PROVE  Alone(p)'
  <2>1. ~ touched[p] /\ p \notin Posted
    BY <1>1, <1>9, <1>11, Known
  <2>2. queue' = Append(queue, rx_p)
    BY <1>1, <1>11, <2>1 DEF Posted
  <2>3. Once(p)'
    <3>1. Once(p)
      BY <2>1 DEF Once, Posted
    <3> QED
      BY <2>1, <2>2, <3>1, Queued
  <2>4. Arriving(p)'
    BY <1>1, <2>3 DEF Arriving
  <2>5. parsing' # "no" => Head(queue') # p
    <3> SUFFICES ASSUME parsing' # "no" PROVE Head(queue') # p
      OBVIOUS
    <3>1. queue # <<>> /\ queue \in Seq(Buffer)
      BY Known DEF parser
    <3>2. Head(queue') = Head(queue)
      BY <2>2, <3>1, Queued
    <3>3. Head(queue) = queue[1] /\ 1 \in 1 .. Len(queue)
      BY <3>1
    <3> QED
      BY <2>1, <3>2, <3>3 DEF Posted
  <2>6. Stored(p)'
    <3>1. Reached(p)' = 0
      BY <2>5 DEF Reached
    <3>2. \A k \in 1 .. n : k - 1 \in 0 .. n - 1
      BY <1>3
    <3>3. \A k \in 1 .. n : s[k] \in Char
      BY <1>5, <1>9, <2>1, <3>2
    <3>4. s \in Seq(Char)
      BY <1>4, <3>3
    <3>5. \A k \in 0 .. n - 1 : k \in Position /\ k # n /\ k + 1 \in 1 .. n /\ (k + 1) - 1 = k /\ ~ (k < 0)
      BY <1>3
    <3>6. \A k \in 0 .. n - 1 : rx_q'[p].data[k] = s[k + 1] /\ ~ (k < 0)
      BY <1>2, <1>5, <1>9, <3>5
    <3>7. line'[p] = s /\ rx_q'[p].len = n + 1 /\ rx_q'[p].data[n] = NUL
      BY <1>2, <1>7, <1>9
    <3> QED
      BY <1>4, <3>1, <3>4, <3>6, <3>7 DEF Stored
  <2> QED
    BY <2>4, <2>5, <2>6 DEF Alone
<1> QED
  BY <1>7, <1>8, <1>9, <1>10, <1>11 DEF AloneInv

LEMMA StoreSent ==
  ASSUME IInv, AloneInv, NEW b \in Char
  PROVE  /\ \A p \in Buffer : p # rx_p => Store(b)[p] = rx_q[p]
         /\ ~ touched[rx_p] /\ rx_p \notin Posted =>
              \A k \in 0 .. IndexAfter(b) - 1 : Store(b)[rx_p].data[k] \in Char
<1>1. rx_q \in [Buffer -> Line] /\ rx_p \in Buffer /\ rx_idx \in Position /\ rx_idx \in 0 .. USB_SERIAL_BUF_SZ - 2
  BY Known
<1>2. ~ touched[rx_p] /\ rx_p \notin Posted => \A k \in 0 .. rx_idx - 1 : rx_q[rx_p].data[k] \in Char
  BY <1>1 DEF AloneInv, Alone, Arriving
<1>3. CASE b = "BS" /\ rx_idx > 0
  <2>1. Store(b) = rx_q /\ IndexAfter(b) = rx_idx - 1
    BY <1>3 DEF Store, IndexAfter
  <2>2. \A k \in 0 .. (rx_idx - 1) - 1 : k \in 0 .. rx_idx - 1
    BY <1>1
  <2> QED
    BY <1>2, <2>1, <2>2
<1>4. CASE ~ (b = "BS" /\ rx_idx > 0)
  <2>1. Store(b) = [rx_q EXCEPT ![rx_p].data[rx_idx] = b] /\ IndexAfter(b) = rx_idx + 1
    BY <1>4 DEF Store, IndexAfter
  <2>2. /\ \A p \in Buffer : p # rx_p => Store(b)[p] = rx_q[p]
        /\ \A n \in Position : Store(b)[rx_p].data[n] = IF n = rx_idx THEN b ELSE rx_q[rx_p].data[n]
    BY <1>1, <2>1, WrittenExactly
  <2>3. \A k \in 0 .. (rx_idx + 1) - 1 : k \in Position /\ (k = rx_idx \/ k \in 0 .. rx_idx - 1)
    BY <1>1, SizeFacts DEF Position
  <2> QED
    BY <1>2, <2>1, <2>2, <2>3
<1> QED
  BY <1>3, <1>4

LEMMA ReceiveAlone ==
  ASSUME IInv, AloneInv, NEW b \in Char, Receive(b)
  PROVE  AloneInv'
<1>1. UNCHANGED parser
  BY DEF Receive
<1>2. CASE b \in LineEnd
  <2>1. Dispatch(rx_q, rx_idx)
    BY <1>2 DEF Receive
  <2>2. ~ touched[rx_p] /\ rx_p \notin Posted => \A k \in 0 .. rx_idx - 1 : rx_q[rx_p].data[k] \in Char
    BY Known DEF AloneInv, Alone, Arriving
  <2> QED
    BY <1>1, <2>1, <2>2, Known, DispatchAlone
<1>3. CASE b \notin LineEnd /\ AtEnd(IndexAfter(b))
  <2>1. Dispatch(Store(b), IndexAfter(b))
    BY <1>3 DEF Receive
  <2> QED
    BY <1>1, <2>1, StoreFacts, StoreSent, DispatchAlone
<1>4. CASE b \notin LineEnd /\ ~ AtEnd(IndexAfter(b))
  <2>1. /\ rx_q' = Store(b) /\ rx_idx' = IndexAfter(b) /\ UNCHANGED <<rx_p, queue, line>>
        /\ touched' = [touched EXCEPT ![rx_p] = @ \/ rx_p \in Posted]
    BY <1>4 DEF Receive
  <2>2. Posted' = Posted /\ \A p \in Buffer : Once(p)' = Once(p)
    BY <2>1 DEF Posted, Once
  <2>3. ASSUME NEW p \in Buffer, ~ touched'[p], p # rx_p
        PROVE  Alone(p)'
    <3>1. Alone(p)
      BY <2>1, <2>3, Known DEF AloneInv
    <3>2. rx_q'[p] = rx_q[p]
      BY <2>1, <2>3, StoreSent
    <3>3. Once(p)'
      BY <2>2, <3>1 DEF Alone, Arriving
    <3> QED
      BY <1>1, <2>1, <2>2, <2>3, <3>1, <3>2, <3>3, AloneSame
  <2>4. ASSUME NEW p \in Buffer, ~ touched'[p], p = rx_p
        PROVE  Alone(p)'
    <3>1. ~ touched[p] /\ p \notin Posted
      BY <2>1, <2>4, Known
    <3>2. Once(p)'
      BY <2>2, <3>1 DEF Once, Posted
    <3>3. \A k \in 0 .. rx_idx' - 1 : rx_q'[p].data[k] \in Char
      BY <2>1, <2>4, <3>1, StoreSent
    <3> QED
      BY <2>1, <2>2, <3>1, <3>2, <3>3 DEF Alone, Arriving
  <2> QED
    BY <2>1, <2>3, <2>4 DEF AloneInv
<1> QED
  BY <1>2, <1>3, <1>4
-----------------------------------------------------------------------------
\* The parser in such a line.

LEMMA StoredLength ==
  ASSUME NEW p, Stored(p)
  PROVE  Len(line[p]) \in Nat /\ Len(line[p]) <= USB_SERIAL_BUF_SZ - 1
<1>1. Len(line[p]) \in Position
  BY DEF Stored
<1> QED
  BY <1>1, SizeFacts DEF Position

LEMMA HeadPosted == IInv /\ queue # <<>> => Head(queue) \in Buffer /\ Head(queue) \in Posted
<1> SUFFICES ASSUME IInv, queue # <<>> PROVE Head(queue) \in Buffer /\ Head(queue) \in Posted
  OBVIOUS
<1>1. queue \in Seq(Buffer)
  BY Known
<1>2. Head(queue) = queue[1] /\ 1 \in 1 .. Len(queue)
  BY <1>1
<1> QED
  BY <1>1, <1>2 DEF Posted

LEMMA BeginAlone ==
  ASSUME IInv, AloneInv, Begin
  PROVE  AloneInv'
<1>1. /\ parsing = "no" /\ parsing' = "scan" /\ token' = NoToken /\ i' = 0 /\ tok' = 0
      /\ UNCHANGED <<rx_q, rx_p, rx_idx, queue, line, touched>>
  BY DEF Begin, receiver
<1>2. Posted' = Posted
  BY <1>1 DEF Posted
<1>3. ASSUME NEW p \in Buffer, ~ touched'[p]
      PROVE  Alone(p)'
  <2>1. Alone(p)
    BY <1>1, <1>3 DEF AloneInv
  <2>2. Arriving(p)'
    BY <1>1, <1>2, <2>1 DEF Alone, Arriving, Once
  <2>3. Reached(p) = 0 /\ Reached(p)' = 0
    BY <1>1 DEF Reached
  <2>4. p \in Posted => Stored(p)'
    BY <1>1, <2>1, <2>3 DEF Alone, Stored
  <2>5. p \in Posted => Len(line[p]) \in Nat
    BY <2>1, StoredLength DEF Alone
  <2>6. token'.cmd = None /\ token'.arg = <<>>
    BY <1>1 DEF NoToken
  <2>7. p \in Posted => Parsed(p)'
    BY <1>1, <2>5, <2>6 DEF Parsed
  <2> QED
    BY <1>2, <2>2, <2>4, <2>7 DEF Alone
<1> QED
  BY <1>1, <1>3 DEF AloneInv

LEMMA MatchAlone ==
  ASSUME IInv, AloneInv, Match
  PROVE  AloneInv'
<1>1. /\ parsing = "scan" /\ parsing' = "release" /\ ~ Scanning
      /\ UNCHANGED <<rx_q, rx_p, rx_idx, queue, line, touched, i, tok, token>>
  BY DEF Match, receiver
<1>2. Posted' = Posted
  BY <1>1 DEF Posted
<1>3. ASSUME NEW p \in Buffer, ~ touched'[p]
      PROVE  Alone(p)'
  <2>1. Alone(p)
    BY <1>1, <1>3 DEF AloneInv
  <2>2. Arriving(p)'
    BY <1>1, <1>2, <2>1 DEF Alone, Arriving, Once
  <2>3. Reached(p)' = Reached(p)
    BY <1>1 DEF Reached
  <2>4. p \in Posted => Stored(p)'
    BY <1>1, <2>1, <2>3 DEF Alone, Stored
  <2>5. ASSUME p \in Posted, p = Head(queue)
        PROVE  Parsed(p)'
    <3>1. Parsed(p) /\ Stored(p)
      BY <1>1, <2>1, <2>5 DEF Alone
    <3>2. \A n : WordFound(p, n)' = WordFound(p, n)
      BY <1>1 DEF WordFound, Start, EndOf, IsWord
    <3>3. ~ (i < Len(line[p]) + 1) \/ ~ (Len(token.arg) < MAX_ARGS)
      BY <1>1, <2>5, <3>1 DEF Scanning, str, Stored
    <3>4. Len(token.arg) <= MAX_ARGS
      BY DEF IInv, TypeInv, TypeOK
    <3>5. token.arg \in Seq(Position)
      BY Known
    <3>6. Len(token.arg) \in Nat
      BY <3>5
    <3>7. i \in Nat /\ Len(line[p]) \in Nat
      BY <3>1, Known, StoredLength, SizeFacts
    <3>8. i <= Len(line[p]) + 1
      BY <3>1 DEF Parsed
    <3>9. i = Len(line[p]) + 1 \/ Len(token.arg) = MAX_ARGS
      BY <3>3, <3>4, <3>6, <3>7, <3>8, SizeFacts
    <3> QED
      BY <1>1, <3>1, <3>2, <3>9 DEF Parsed
  <2> QED
    BY <1>1, <1>2, <2>2, <2>4, <2>5 DEF Alone
<1> QED
  BY <1>1, <1>3 DEF AloneInv

\* A separator ends the word that began at tok.
LEMMA WordEnds ==
  ASSUME IInv, NEW p \in Buffer, Stored(p), Parsed(p), p = Head(queue), parsing = "scan",
         i <= Len(line[p]), rx_q[p].data[i] \in {"SP", NUL}
  PROVE  /\ i = Len(line[p]) \/ line[p][i + 1] = "SP"
         /\ \A k \in tok .. i - 1 :
              rx_q[p].data[k] = line[p][k + 1] /\ line[p][k + 1] \notin {"SP", NUL}
<1>1. i \in Nat /\ tok \in Nat /\ tok <= i /\ Len(line[p]) \in Nat
  BY Known, StoredLength, SizeFacts
<1>2. Reached(p) = i
  BY DEF Reached
<1>3. \A k \in 1 .. Len(line[p]) : line[p][k] \in Char /\ line[p][k] # NUL
  BY DEF Stored
<1>4. \A k \in 0 .. Len(line[p]) - 1 : k + 1 \in 1 .. Len(line[p])
  BY <1>1
<1>5. i = Len(line[p]) \/ line[p][i + 1] = "SP"
  <2>1. CASE i \in 0 .. Len(line[p]) - 1
    <3>1. rx_q[p].data[i] = line[p][i + 1]
      BY <1>1, <1>2, <2>1 DEF Stored
    <3> QED
      BY <1>3, <1>4, <2>1, <3>1
  <2> QED
    BY <1>1, <2>1
<1>6. ASSUME NEW k \in tok .. i - 1
      PROVE  rx_q[p].data[k] = line[p][k + 1] /\ line[p][k + 1] \notin {"SP", NUL}
  <2>1. k \in 0 .. Len(line[p]) - 1 /\ k < Len(line[p])
    BY <1>1
  <2>2. line[p][k + 1] # "SP"
    BY <2>1 DEF Parsed
  <2>3. rx_q[p].data[k] = line[p][k + 1]
    BY <2>1, <2>2 DEF Stored
  <2> QED
    BY <1>3, <1>4, <2>1, <2>2, <2>3
<1> QED
  BY <1>5, <1>6

\* Words that have been found stay: the parser only writes behind them.
LEMMA WordStays ==
  ASSUME IInv, NEW p \in Buffer, NEW n \in Nat, WordFound(p, n), Start(n) \in Nat, EndOf(n) \in Int,
         Start(n)' = Start(n), EndOf(n)' = EndOf(n), line'[p] = line[p], i' = i + 1,
         i \in Position, \A k \in Position : k # i => rx_q'[p].data[k] = rx_q[p].data[k]
  PROVE  WordFound(p, n)'
<1>1. PICK s \in Nat : s = Start(n)
  OBVIOUS
<1>2. PICK e \in Int : e = EndOf(n)
  OBVIOUS
<1>3. i \in Nat /\ i <= USB_SERIAL_BUF_SZ - 1
  BY SizeFacts DEF Position
<1>4. s <= e /\ e <= Len(line[p]) /\ e < i
  BY <1>1, <1>2 DEF WordFound
<1>5. e \in Nat /\ \A k \in s .. e : k \in Position /\ k # i
  BY <1>3, <1>4, SizeFacts DEF Position
<1>6. IsWord(p, s, e)
  BY <1>1, <1>2 DEF WordFound
<1>7. /\ \A k \in s .. e - 1 :
           rx_q'[p].data[k] = line[p][k + 1] /\ line[p][k + 1] \notin {"SP", NUL}
      /\ rx_q'[p].data[e] = NUL
  <2>1. e \in s .. e /\ \A k \in s .. e - 1 : k \in s .. e
    BY <1>4, <1>5
  <2> QED
    BY <1>5, <1>6, <2>1 DEF IsWord
<1>8. e = Len(line'[p]) \/ line'[p][e + 1] = "SP"
  BY <1>6 DEF IsWord
<1>9. Start(n)' = s /\ EndOf(n)' = e /\ e < i'
  BY <1>1, <1>2, <1>3, <1>4
<1> QED
  BY <1>4, <1>7, <1>8, <1>9 DEF WordFound, IsWord

LEMMA EndIsNumber ==
  ASSUME IInv, NEW n \in 1 .. Len(token.arg) + 1
  PROVE  EndOf(n) \in Int
<1>1. token.arg \in Seq(Position) /\ tok \in Nat
  BY Known, SizeFacts
<1>2. Len(token.arg) \in Nat /\ \A m \in 1 .. Len(token.arg) : token.arg[m] \in Nat
  <2>1. Len(token.arg) \in Nat /\ \A m \in 1 .. Len(token.arg) : token.arg[m] \in Position
    BY <1>1
  <2> QED
    BY <2>1, SizeFacts DEF Position
<1>3. n <= Len(token.arg) => n \in 1 .. Len(token.arg)
  BY <1>2
<1> QED
  BY <1>1, <1>2, <1>3 DEF EndOf

\* What a round of the parser's loop changes.
LEMMA ScanFacts ==
  ASSUME IInv, Scan, NEW h \in Buffer, h = Head(queue)
  PROVE  /\ i \in Position /\ i < rx_q[h].len /\ i' = i + 1 /\ parsing = "scan" /\ parsing' = "scan"
         /\ Len(token.arg) < MAX_ARGS
         /\ UNCHANGED <<rx_p, rx_idx, queue, line, touched>>
         /\ \A b \in Buffer : b # h => rx_q'[b] = rx_q[b]
         /\ rx_q'[h].len = rx_q[h].len
         /\ \A k \in Position : k # i => rx_q'[h].data[k] = rx_q[h].data[k]
         /\ rx_q[h].data[i] \in {"SP", NUL} => rx_q'[h].data[i] = NUL /\ tok' = i + 1
         /\ rx_q[h].data[i] \notin {"SP", NUL} => rx_q' = rx_q /\ UNCHANGED <<token, tok>>
<1>1. /\ i < rx_q[h].len /\ i' = i + 1 /\ parsing = "scan" /\ parsing' = "scan"
      /\ Len(token.arg) < MAX_ARGS
      /\ UNCHANGED <<rx_p, rx_idx, queue, line, touched>>
  BY DEF Scan, Scanning, str, receiver
<1>2. i \in Position
  <2>1. rx_q[h] \in Line
    BY Known
  <2>2. rx_q[h].len \in 0 .. USB_SERIAL_BUF_SZ
    BY <2>1 DEF Line
  <2> QED
    BY <1>1, <2>2, Known, SizeFacts DEF Position
<1>3. CASE rx_q[h].data[i] \in {"SP", NUL}
  <2>1. rx_q' = [rx_q EXCEPT ![h].data[i] = NUL] /\ tok' = i + 1
    BY <1>3 DEF Scan, str
  <2>2. /\ \A b \in Buffer : b # h => rx_q'[b] = rx_q[b]
        /\ rx_q'[h].len = rx_q[h].len
        /\ \A k \in Position : rx_q'[h].data[k] = IF k = i THEN NUL ELSE rx_q[h].data[k]
    <3>1. rx_q \in [Buffer -> Line]
      BY Known
    <3>2. PICK c \in Char \cup {NUL} : c = NUL
      OBVIOUS
    <3>3. rx_q' = [rx_q EXCEPT ![h].data[i] = c]
      BY <2>1, <3>2
    <3>4. \A b \in Buffer : b # h => rx_q'[b] = rx_q[b]
      BY <1>2, <3>1, <3>3, WrittenExactly
    <3>5. rx_q'[h].len = rx_q[h].len
      BY <1>2, <3>1, <3>3, WrittenExactly
    <3>6. rx_q'[h].data[i] = c
      <4>1. rx_q[h].data \in [Position -> Char \cup {NUL}] /\ rx_q[h] \in Line
        BY <3>1 DEF Line
      <4>2. rx_q'[h] = [rx_q[h] EXCEPT !.data = [rx_q[h].data EXCEPT ![i] = c]]
        BY <3>1, <3>3
      <4>3. rx_q'[h].data = [rx_q[h].data EXCEPT ![i] = c]
        BY <4>1, <4>2 DEF Line
      <4> QED
        BY <1>2, <4>1, <4>3
    <3>7. \A k \in Position : k # i => rx_q'[h].data[k] = rx_q[h].data[k]
      BY <1>2, <3>1, <3>3, CharacterWritten
    <3> QED
      BY <3>2, <3>4, <3>5, <3>6, <3>7
  <2> QED
    BY <1>1, <1>2, <1>3, <2>1, <2>2
<1>4. CASE rx_q[h].data[i] \notin {"SP", NUL}
  <2>1. rx_q' = rx_q /\ UNCHANGED <<token, tok>>
    BY <1>4 DEF Scan, str
  <2> QED
    BY <1>1, <1>2, <1>4, <2>1
<1> QED
  BY <1>3, <1>4

LEMMA ScanStored ==
  ASSUME IInv, Scan, NEW p \in Buffer, p = Head(queue), Stored(p), Parsed(p)
  PROVE  Stored(p)'
<1>1. i \in Nat /\ Len(line[p]) \in Nat /\ Len(line[p]) \in Position /\ i <= Len(line[p])
  <2>1. i \in Nat /\ Len(line[p]) \in Nat /\ i < rx_q[p].len
    BY ScanFacts, Known, StoredLength, SizeFacts
  <2> QED
    BY <2>1 DEF Stored
<1>2. Reached(p) = i /\ Reached(p)' = i + 1
  BY ScanFacts DEF Reached
<1>3. \A k \in 0 .. Len(line[p]) - 1 : k \in Position
  BY <1>1, SizeFacts DEF Position
<1>4. rx_q'[p].data[Len(line[p])] = NUL
  <2>1. rx_q[p].data[Len(line[p])] = NUL
    BY DEF Stored
  <2> QED
    BY <1>1, <2>1, ScanFacts
<1>5. ASSUME NEW k \in 0 .. Len(line[p]) - 1
      PROVE  rx_q'[p].data[k] = IF k < i + 1 /\ line[p][k + 1] = "SP" THEN NUL ELSE line[p][k + 1]
  <2>1. rx_q[p].data[k] = IF k < i /\ line[p][k + 1] = "SP" THEN NUL ELSE line[p][k + 1]
    BY <1>2 DEF Stored
  <2>2. CASE k # i
    <3>1. k < i + 1 <=> k < i
      BY <1>1, <2>2
    <3>2. rx_q'[p].data[k] = rx_q[p].data[k]
      BY <1>3, <2>2, ScanFacts
    <3> QED
      BY <2>1, <3>1, <3>2
  <2>3. CASE k = i /\ rx_q[p].data[i] \in {"SP", NUL}
    <3>1. line[p][k + 1] = "SP"
      BY <1>1, <2>3, ScanFacts, WordEnds
    <3>2. rx_q'[p].data[k] = NUL /\ k < i + 1
      BY <1>1, <2>3, ScanFacts
    <3> QED
      BY <3>1, <3>2
  <2>4. CASE k = i /\ rx_q[p].data[i] \notin {"SP", NUL}
    <3>1. rx_q'[p].data[k] = rx_q[p].data[k]
      BY <2>4, ScanFacts
    <3> QED
      BY <1>1, <2>1, <2>4, <3>1
  <2> QED
    BY <2>2, <2>3, <2>4
<1>6. line' = line /\ rx_q'[p].len = rx_q[p].len
  BY ScanFacts
<1> QED
  BY <1>2, <1>4, <1>5, <1>6 DEF Stored

\* A round in which a word ends: it is the last of the words found.
LEMMA ScanWord ==
  ASSUME IInv, Scan, NEW p \in Buffer, p = Head(queue), Stored(p), Parsed(p),
         rx_q[p].data[i] \in {"SP", NUL}
  PROVE  Parsed(p)'
<1>1. /\ i \in Nat /\ tok \in Nat /\ tok <= i /\ Len(line[p]) \in Nat /\ i <= Len(line[p])
      /\ token \in [cmd : Position \cup {None}, arg : Seq(Position)]
  <2>1. /\ i \in Nat /\ tok \in Nat /\ tok <= i /\ Len(line[p]) \in Nat /\ i < rx_q[p].len
        /\ token \in [cmd : Position \cup {None}, arg : Seq(Position)]
    BY ScanFacts, Known, StoredLength, SizeFacts
  <2> QED
    BY <2>1 DEF Stored
<1>2. /\ i' = i + 1 /\ tok' = i + 1 /\ line'[p] = line[p] /\ parsing' = "scan" /\ i \in Position
      /\ rx_q'[p].data[i] = NUL
      /\ \A k \in Position : k # i => rx_q'[p].data[k] = rx_q[p].data[k]
  BY ScanFacts
<1>3. /\ i = Len(line[p]) \/ line[p][i + 1] = "SP"
      /\ \A k \in tok .. i - 1 :
           rx_q[p].data[k] = line[p][k + 1] /\ line[p][k + 1] \notin {"SP", NUL}
  BY <1>1, ScanFacts, WordEnds
<1>4. PICK t \in Nat, j \in Nat : t = tok /\ j = i
  BY <1>1
<1>5. IsWord(p, t, j)'
  <2>1. \A k \in t .. j - 1 : k \in Position /\ k # j
    BY <1>1, <1>2, <1>4, SizeFacts DEF Position
  <2>2. \A k \in t .. j - 1 :
          rx_q'[p].data[k] = line'[p][k + 1] /\ line'[p][k + 1] \notin {"SP", NUL}
    BY <1>2, <1>3, <1>4, <2>1
  <2>3. rx_q'[p].data[j] = NUL /\ (j = Len(line'[p]) \/ line'[p][j + 1] = "SP")
    BY <1>2, <1>3, <1>4
  <2> QED
    BY <2>2, <2>3 DEF IsWord
<1>6. \/ token.cmd = None /\ token' = [token EXCEPT !.cmd = tok]
      \/ token.cmd # None /\ token' = [token EXCEPT !.arg = Append(token.arg, tok)]
  BY DEF Scan, str
<1>7. /\ i' <= Len(line'[p]) + 1 /\ (i' = Len(line'[p]) + 1 => tok' = i')
      /\ \A k \in tok' .. i' - 1 : k < Len(line'[p]) => line'[p][k + 1] # "SP"
      /\ parsing' # "release"
  BY <1>1, <1>2
<1>8. CASE token.cmd = None
  <2>1. token.arg = <<>> /\ tok = 0
    BY <1>8 DEF Parsed
  <2>2. token'.cmd = 0 /\ token'.arg = <<>> /\ token'.cmd # None
    BY <1>1, <1>6, <1>8, <2>1, SizeFacts
  <2>3. Start(1)' = t /\ EndOf(1)' = j
    BY <1>1, <1>2, <1>4, <2>1, <2>2 DEF Start, EndOf
  <2>4. WordFound(p, 1)'
    BY <1>1, <1>2, <1>4, <1>5, <2>3 DEF WordFound
  <2>5. \A n \in 1 .. Len(token'.arg) + 1 : n = 1
    BY <2>2
  <2> QED
    BY <1>7, <2>2, <2>4, <2>5 DEF Parsed
<1>9. CASE token.cmd # None
  <2> DEFINE L == Len(token.arg)
  <2>1. L \in Nat /\ token.arg \in Seq(Position) /\ token.cmd = 0
    BY <1>1, <1>9 DEF Parsed
  <2>2. token'.cmd = 0 /\ token'.cmd # None /\ token'.arg = Append(token.arg, tok)
    BY <1>1, <1>6, <1>9, <2>1
  <2>3. Len(token'.arg) = L + 1 /\ token'.arg[L + 1] = tok /\ \A n \in 1 .. L : token'.arg[n] = token.arg[n]
    BY <2>1, <2>2
  <2>4. \A n \in 1 .. L + 1 : WordFound(p, n)
    BY <1>9 DEF Parsed
  <2>5. \A n \in 1 .. L : token.arg[n] \in Nat
    <3>1. \A n \in 1 .. L : token.arg[n] \in Position
      BY <2>1
    <3> QED
      BY <3>1, SizeFacts DEF Position
  <2>6. ASSUME NEW n \in 1 .. L + 1
        PROVE  WordFound(p, n)'
    <3>1. n \in Nat /\ (n = 1 \/ n - 1 \in 1 .. L) /\ (n \in 1 .. L \/ n = L + 1)
      BY <2>1
    <3>2. Start(n)' = Start(n) /\ Start(n) \in Nat
      <4>1. CASE n = 1
        BY <2>1, <2>2, <4>1 DEF Start
      <4>2. CASE n # 1
        <5>1. n - 1 \in 1 .. L
          BY <3>1, <4>2
        <5>2. token'.arg[n - 1] = token.arg[n - 1] /\ token.arg[n - 1] \in Nat
          BY <2>3, <2>5, <5>1
        <5> QED
          BY <4>2, <5>2 DEF Start
      <4> QED
        BY <4>1, <4>2
    <3>3. EndOf(n)' = EndOf(n) /\ EndOf(n) \in Int
      <4>1. CASE n \in 1 .. L
        <5>1. n <= L /\ n <= L + 1 /\ token.arg[n] \in Nat /\ token'.arg[n] = token.arg[n]
          BY <2>1, <2>3, <2>5, <4>1
        <5> QED
          BY <2>3, <5>1 DEF EndOf
      <4>2. CASE n = L + 1
        <5>1. ~ (n <= L) /\ n <= L + 1 /\ token'.arg[n] = tok
          BY <2>1, <2>3, <4>2
        <5> QED
          BY <1>1, <2>3, <5>1 DEF EndOf
      <4> QED
        BY <3>1, <4>1, <4>2
    <3> HIDE DEF L
    <3> QED
      BY <1>2, <2>4, <3>1, <3>2, <3>3, WordStays
  <2>7. ASSUME NEW n, n = L + 2
        PROVE  WordFound(p, n)'
    <3>1. n # 1 /\ n - 1 = L + 1 /\ ~ (n <= L + 1)
      BY <2>1, <2>7
    <3>2. Start(n)' = t
      BY <1>4, <2>3, <3>1 DEF Start
    <3>3. EndOf(n)' = j
      BY <1>1, <1>2, <1>4, <2>3, <3>1 DEF EndOf
    <3> QED
      BY <1>1, <1>2, <1>4, <1>5, <3>2, <3>3 DEF WordFound
  <2>8. \A n \in 1 .. Len(token'.arg) + 1 : n \in 1 .. L + 1 \/ n = L + 2
    BY <2>1, <2>3
  <2> HIDE DEF L
  <2> QED
    BY <1>7, <2>2, <2>6, <2>7, <2>8 DEF Parsed
<1> QED
  BY <1>8, <1>9

\* A round within a word.
LEMMA ScanOn ==
  ASSUME IInv, Scan, NEW p \in Buffer, p = Head(queue), Stored(p), Parsed(p),
         rx_q[p].data[i] \notin {"SP", NUL}
  PROVE  Parsed(p)'
<1>1. /\ i \in Nat /\ tok \in Nat /\ tok <= i /\ Len(line[p]) \in Nat /\ i <= Len(line[p])
      /\ token \in [cmd : Position \cup {None}, arg : Seq(Position)]
  <2>1. /\ i \in Nat /\ tok \in Nat /\ tok <= i /\ Len(line[p]) \in Nat /\ i < rx_q[p].len
        /\ token \in [cmd : Position \cup {None}, arg : Seq(Position)]
    BY ScanFacts, Known, StoredLength, SizeFacts
  <2> QED
    BY <2>1 DEF Stored
<1>2. /\ i' = i + 1 /\ line'[p] = line[p] /\ parsing' = "scan" /\ i \in Position
      /\ rx_q' = rx_q /\ UNCHANGED <<token, tok>>
  BY ScanFacts
<1>3. i # Len(line[p])
  BY DEF Stored
<1>4. rx_q[p].data[i] = line[p][i + 1]
  <2>1. Reached(p) = i
    BY ScanFacts DEF Reached
  <2>2. i \in 0 .. Len(line[p]) - 1 /\ ~ (i < i)
    BY <1>1, <1>3
  <2> QED
    BY <2>1, <2>2 DEF Stored
<1>5. \A k \in tok' .. i' - 1 : k < Len(line'[p]) => line'[p][k + 1] # "SP"
  <2> SUFFICES ASSUME NEW k \in tok .. i, k < Len(line[p]) PROVE line[p][k + 1] # "SP"
    BY <1>1, <1>2
  <2>1. CASE k = i
    BY <1>4, <2>1
  <2>2. CASE k \in tok .. i - 1
    BY <2>2 DEF Parsed
  <2> QED
    BY <1>1, <2>1, <2>2
<1>6. \A n \in 1 .. Len(token.arg) + 1 : WordFound(p, n) => WordFound(p, n)'
  <2> SUFFICES ASSUME NEW n \in 1 .. Len(token.arg) + 1, WordFound(p, n) PROVE WordFound(p, n)'
    OBVIOUS
  <2>1. Start(n)' = Start(n) /\ EndOf(n)' = EndOf(n) /\ IsWord(p, Start(n), EndOf(n))'
    BY <1>2 DEF Start, EndOf, IsWord, WordFound
  <2>2. EndOf(n) < i'
    <3>1. EndOf(n) \in Int
      BY EndIsNumber
    <3> QED
      BY <1>1, <1>2, <3>1 DEF WordFound
  <2> QED
    BY <1>2, <2>1, <2>2 DEF WordFound
<1>7. i' <= Len(line'[p]) + 1 /\ i' # Len(line'[p]) + 1
  BY <1>1, <1>2, <1>3
<1> QED
  BY <1>2, <1>5, <1>6, <1>7 DEF Parsed

LEMMA ScanAlone ==
  ASSUME IInv, AloneInv, Scan
  PROVE  AloneInv'
<1>1. queue # <<>>
  BY Known DEF Scan
<1>2. PICK h \in Buffer : h = Head(queue) /\ h \in Posted
  BY <1>1, HeadPosted
<1>3. /\ parsing = "scan" /\ parsing' = "scan"
      /\ UNCHANGED <<rx_p, rx_idx, queue, line, touched>>
      /\ \A b \in Buffer : b # h => rx_q'[b] = rx_q[b]
  BY <1>2, ScanFacts
<1>4. Posted' = Posted /\ \A p \in Buffer : Once(p)' = Once(p)
  BY <1>3 DEF Posted, Once
<1>5. ASSUME NEW p \in Buffer, ~ touched'[p], p # h
      PROVE  Alone(p)'
  <2>1. Alone(p) /\ rx_q'[p] = rx_q[p]
    BY <1>3, <1>5 DEF AloneInv
  <2>2. Arriving(p)'
    BY <1>3, <1>4, <2>1 DEF Alone, Arriving
  <2>3. Reached(p) = 0 /\ Reached(p)' = 0
    BY <1>2, <1>3, <1>5 DEF Reached
  <2>4. p \in Posted => Stored(p)'
    BY <1>3, <2>1, <2>3 DEF Alone, Stored
  <2> QED
    BY <1>2, <1>3, <1>4, <1>5, <2>2, <2>4 DEF Alone
<1>6. ASSUME ~ touched'[h]
      PROVE  Alone(h)'
  <2>1. Alone(h)
    BY <1>3, <1>6 DEF AloneInv
  <2>2. Stored(h) /\ Parsed(h)
    BY <1>2, <1>3, <2>1 DEF Alone
  <2>3. Arriving(h)'
    BY <1>2, <1>3, <1>4, <2>1 DEF Alone, Arriving
  <2>4. Stored(h)' /\ Parsed(h)'
    BY <1>2, <2>2, ScanStored, ScanWord, ScanOn
  <2> QED
    BY <2>3, <2>4 DEF Alone
<1>7. line' \in [Buffer -> Seq(Char \cup {NUL})]
  BY <1>3 DEF AloneInv
<1> QED
  BY <1>5, <1>6, <1>7 DEF AloneInv

\* The oldest event is done: the others stay as they are, one place nearer.
LEMMA Dequeued ==
  ASSUME IInv, queue # <<>>, queue' = Tail(queue), NEW p \in Buffer, Once(p)
  PROVE  /\ Once(p)'
         /\ p # Head(queue) => (p \in Posted)' = (p \in Posted)
         /\ p = Head(queue) => p \notin Posted'
<1> DEFINE L == Len(queue)
<1>1. queue \in Seq(Buffer) /\ L \in Nat \ {0} /\ Head(queue) = queue[1]
  BY Known
<1>2. Len(queue') = L - 1 /\ \A n \in 1 .. L - 1 : queue'[n] = queue[n + 1]
  BY <1>1
<1>3. \A n \in 1 .. L - 1 : n + 1 \in 1 .. L /\ n + 1 # 1
  BY <1>1
<1>4. 1 \in 1 .. L /\ \A n \in 1 .. L : n # 1 => n - 1 \in 1 .. L - 1 /\ (n - 1) + 1 = n
  BY <1>1
<1>5. Once(p)'
  <2> SUFFICES ASSUME NEW m \in 1 .. L - 1, NEW n \in 1 .. L - 1, queue'[m] = p, queue'[n] = p
               PROVE  m = n
    BY <1>2 DEF Once
  <2>1. m + 1 = n + 1
    BY <1>2, <1>3 DEF Once
  <2> QED
    BY <1>1, <2>1
<1>6. ASSUME p # Head(queue), p \in Posted
      PROVE  p \in Posted'
  <2>1. PICK n \in 1 .. L : queue[n] = p
    BY <1>6 DEF Posted
  <2>2. n # 1
    BY <1>1, <1>6, <2>1
  <2>3. n - 1 \in 1 .. Len(queue') /\ queue'[n - 1] = p
    BY <1>2, <1>4, <2>1, <2>2
  <2> QED
    BY <2>3 DEF Posted
<1>7. ASSUME p \in Posted'
      PROVE  p \in Posted /\ p # Head(queue)
  <2>1. PICK n \in 1 .. L - 1 : queue'[n] = p
    BY <1>2, <1>7 DEF Posted
  <2>2. n + 1 \in 1 .. L /\ n + 1 # 1 /\ queue[n + 1] = p
    BY <1>2, <1>3, <2>1
  <2> QED
    BY <1>1, <1>4, <2>2 DEF Posted, Once
<1> QED
  BY <1>5, <1>6, <1>7

LEMMA ReleaseAlone ==
  ASSUME IInv, AloneInv, Release
  PROVE  AloneInv'
<1>1. /\ parsing = "release" /\ parsing' = "no" /\ queue' = Tail(queue)
      /\ touched' = [p \in Buffer |-> touched[p] /\ (p \in Posted' \/ (p = rx_p /\ rx_idx > 0))]
      /\ UNCHANGED <<rx_p, rx_idx, line>>
  BY DEF Release
<1>2. queue # <<>> /\ Head(queue) \in Buffer
  BY <1>1, Known, HeadPosted
<1>3. ASSUME NEW p \in Buffer, p # Head(queue)
      PROVE  rx_q'[p] = rx_q[p]
  <2>1. CASE token.cmd = None
    BY <2>1 DEF Release
  <2>2. CASE token.cmd # None
    <3>1. rx_q' = [rx_q EXCEPT ![Head(queue)].data[token.cmd] = NUL]
      BY <2>2 DEF Release
    <3> QED
      BY <1>2, <1>3, <3>1, Known
  <2> QED
    BY <2>1, <2>2
<1>4. ASSUME NEW p \in Buffer, ~ touched[p]
      PROVE  Alone(p)'
  <2>1. Alone(p) /\ Once(p)
    BY <1>4 DEF AloneInv, Alone, Arriving
  <2>2. CASE p = Head(queue)
    <3>1. p \notin Posted' /\ Once(p)'
      BY <1>1, <1>2, <2>1, <2>2, Dequeued
    <3>2. p \in Posted
      BY <1>2, <2>2, HeadPosted
    <3>3. p = rx_p => rx_idx' = 0
      BY <1>1, <2>1, <3>2 DEF Alone, Arriving
    <3> QED
      BY <1>1, <3>1, <3>3 DEF Alone, Arriving
  <2>3. CASE p # Head(queue)
    <3>1. (p \in Posted)' = (p \in Posted) /\ Once(p)'
      BY <1>1, <1>2, <2>1, <2>3, Dequeued
    <3>2. rx_q'[p] = rx_q[p]
      BY <1>3, <2>3
    <3>3. Reached(p) = 0 /\ Reached(p)' = 0
      BY <1>1, <2>3 DEF Reached
    <3>4. Arriving(p)'
      BY <1>1, <2>1, <3>1, <3>2 DEF Alone, Arriving
    <3>5. p \in Posted => Stored(p)'
      BY <1>1, <2>1, <3>2, <3>3 DEF Alone, Stored
    <3> QED
      BY <1>1, <3>1, <3>4, <3>5 DEF Alone
  <2> QED
    BY <2>2, <2>3
<1>5. ASSUME NEW p \in Buffer, touched[p], ~ touched'[p]
      PROVE  Alone(p)'
  <2>1. p \notin Posted' /\ ~ (p = rx_p /\ rx_idx > 0)
    BY <1>1, <1>5
  <2>2. Once(p)'
    BY <2>1 DEF Once, Posted
  <2>3. p = rx_p => rx_idx = 0
    BY <2>1, Known
  <2> QED
    BY <1>1, <2>1, <2>2, <2>3 DEF Alone, Arriving
<1> QED
  BY <1>1, <1>4, <1>5 DEF AloneInv

LEMMA StepAlone == IInv /\ AloneInv /\ [Next]_vars => AloneInv'
<1> SUFFICES ASSUME IInv, AloneInv, [Next]_vars PROVE AloneInv'
  OBVIOUS
<1>1. CASE \E b \in Char : Receive(b)
  BY <1>1, ReceiveAlone
<1>2. CASE cmdp_parse_cmd
  BY <1>2, BeginAlone, ScanAlone, MatchAlone, ReleaseAlone DEF cmdp_parse_cmd
<1>3. CASE UNCHANGED vars
  <2>1. /\ UNCHANGED <<rx_q, rx_p, rx_idx, queue, line, touched, parsing, i, tok, token>>
    BY <1>3 DEF vars, receiver, parser
  <2>2. Posted' = Posted
    BY <2>1 DEF Posted
  <2>3. \A p \in Buffer : Alone(p) => Alone(p)'
    BY <2>1, <2>2 DEF Alone, Arriving, Once, Stored, Reached, Parsed, WordFound, Start, EndOf, IsWord
  <2> QED
    BY <2>1, <2>3 DEF AloneInv
<1> QED
  BY <1>1, <1>2, <1>3 DEF Next

\* A line that had its buffer to itself is parsed into its command and its first
\* MAX_ARGS arguments, whatever else came while it waited and was parsed.
THEOREM LinesParsed == Spec => []ParsedAsSent
<1>1. ASSUME IInv, AloneInv, parsing = "release", ~ touched[Head(queue)], NEW p, p = Head(queue)
      PROVE  /\ token.cmd = 0
             /\ \A n \in 1 .. Len(token.arg) + 1 : \E to \in Start(n) .. Len(line[p]) :
                  /\ IsWord(p, Start(n), to)
                  /\ IF n < Len(token.arg) + 1 THEN Start(n + 1) = to + 1
                     ELSE to = Len(line[p]) \/ Len(token.arg) = MAX_ARGS
  <2>1. p \in Buffer /\ p \in Posted
    BY <1>1, Known, HeadPosted
  <2>2. Stored(p) /\ Parsed(p)
    BY <1>1, <2>1 DEF AloneInv, Alone
  <2>3. Len(line[p]) \in Nat /\ tok \in Nat /\ token.arg \in Seq(Position)
    BY <1>1, <2>2, Known, StoredLength, SizeFacts
  <2>4. i = Len(line[p]) + 1 \/ Len(token.arg) = MAX_ARGS
    BY <1>1, <2>2 DEF Parsed
  <2>5. token.cmd # None
    <3> SUFFICES ASSUME token.cmd = None PROVE FALSE
      OBVIOUS
    <3>1. token.arg = <<>> /\ tok = 0
      BY <2>2 DEF Parsed
    <3>2. Len(token.arg) # MAX_ARGS
      <4>1. MAX_ARGS \in 1 .. 255
        BY SizesAssumption, Zenon
      <4>2. MAX_ARGS # 0
        BY <4>1, SMT
      <4>3. Len(<<>>) = 0
        OBVIOUS
      <4> QED
        BY <3>1, <4>2, <4>3, Zenon
    <3>3. tok = Len(line[p]) + 1
      BY <2>2, <2>3, <2>4, <3>2 DEF Parsed
    <3> QED
      BY <2>3, <3>1, <3>3
  <2>6. token.cmd = 0 /\ \A n \in 1 .. Len(token.arg) + 1 : WordFound(p, n)
    BY <2>2, <2>5 DEF Parsed
  <2>7. ASSUME NEW n \in 1 .. Len(token.arg) + 1
        PROVE  \E to \in Start(n) .. Len(line[p]) :
                  /\ IsWord(p, Start(n), to)
                  /\ IF n < Len(token.arg) + 1 THEN Start(n + 1) = to + 1
                     ELSE to = Len(line[p]) \/ Len(token.arg) = MAX_ARGS
    <3>1. PICK e \in Int : e = EndOf(n)
      BY <1>1, EndIsNumber
    <3>2. Start(n) <= e /\ e <= Len(line[p]) /\ IsWord(p, Start(n), e)
      BY <2>6, <3>1 DEF WordFound
    <3>3. Len(token.arg) \in Nat /\ n \in Nat /\ 1 <= n
      BY <2>3
    <3>4. Start(n) \in Int
      <4>1. CASE n = 1
        BY <2>6, <4>1 DEF Start
      <4>2. CASE n # 1
        <5>1. n - 1 \in 1 .. Len(token.arg)
          BY <3>3, <4>2
        <5>2. token.arg[n - 1] \in Position
          BY <2>3, <5>1
        <5> QED
          BY <4>2, <5>2, SizeFacts DEF Start, Position
      <4> QED
        BY <4>1, <4>2
    <3>5. e \in Start(n) .. Len(line[p])
      BY <2>3, <3>2, <3>4
    <3>6. CASE n < Len(token.arg) + 1
      <4>1. n <= Len(token.arg) /\ n + 1 # 1 /\ (n + 1) - 1 = n /\ n \in 1 .. Len(token.arg)
        BY <3>3, <3>6
      <4>2. token.arg[n] \in Int
        BY <2>3, <4>1, SizeFacts DEF Position
      <4>3. Start(n + 1) = e + 1
        BY <3>1, <4>1, <4>2 DEF Start, EndOf
      <4> QED
        BY <3>2, <3>5, <3>6, <4>3
    <3>7. CASE ~ (n < Len(token.arg) + 1)
      <4>1. ~ (n <= Len(token.arg))
        BY <3>3, <3>7
      <4>2. e = tok - 1
        BY <3>1, <4>1 DEF EndOf
      <4>3. e = Len(line[p]) \/ Len(token.arg) = MAX_ARGS
        BY <2>2, <2>3, <2>4, <4>2 DEF Parsed
      <4> QED
        BY <3>2, <3>5, <3>7, <4>3
    <3> QED
      BY <3>6, <3>7
  <2> QED
    BY <2>6, <2>7
<1>2. IInv /\ AloneInv => ParsedAsSent
  BY <1>1 DEF ParsedAsSent
<1> QED
  BY <1>2, InitIInv, InitAlone, StepIInv, StepAlone, PTL DEF Spec
=============================================================================
