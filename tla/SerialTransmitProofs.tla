------------------------ MODULE SerialTransmitProofs ------------------------
(***************************************************************************)
(* Proofs about SerialTransmit for every depth of the ring and both        *)
(* outcomes of WRAP: its types, that head and tail never part, and the     *)
(* safety part of ImplementsFifo.                                          *)
(***************************************************************************)
EXTENDS SerialTransmit, SequenceTheorems, TLAPS

USE WrapAssumption, TextAssumption

\* The first m buffers from the tail are in use, and no other.
Filled(m) == \A k \in 0 .. Places - 1 : tx_q[Place(k)] # Empty <=> k < m

\* The head is behind the buffers in use; a printf that has begun its text
\* still points to the last of them, or to the one before the tail when the
\* interrupt has sent all, the text it is filling included.
HeadBehind(m) ==
  IF printing \in {"no", "first"} THEN tx_h = Place(m)
  ELSE \/ m > 0 /\ tx_h = Place(m - 1)
       \/ m = 0 /\ tx_t = Following(tx_h)

\* m buffers in use, and what follows from that for the two that use them.
InStep(m) ==
  /\ Filled(m)
  /\ HeadBehind(m)
  /\ printing = "first" => m < Places
  /\ sending => m > 0

\* The indices WRAP makes the ring visit.
Visited == {Stride * j : j \in 0 .. Places - 1}

IInv ==
  /\ TypeOK
  /\ tx_h \in Visited /\ tx_t \in Visited
  /\ printing # "no" => text \in Text
  /\ \E m \in 0 .. Places : InStep(m)
-----------------------------------------------------------------------------
\* The arithmetic of the ring, for either outcome of WRAP: it goes round a
\* cycle of Places indices, Stride apart.

LEMMA RingShape ==
  /\ Places \in Nat \ {0}
  /\ Stride \in {1, 2}
  /\ \A j \in 0 .. Places - 1 :
       /\ Stride * j \in Slot
       /\ (Stride * j) \div Stride = j
       /\ Following(Stride * j) = IF j + 1 < Places THEN Stride * (j + 1) ELSE 0
<1>1. CASE WRAP_ADDS = 0
  <2>1. Stride = 1 /\ Places = TX_DEPTH
    BY <1>1 DEF Stride, Places
  <2> QED
    BY <1>1, <2>1 DEF Slot, Following
<1>2. CASE WRAP_ADDS = 1
  <2>1. Stride = 2 /\ Places \in Nat \ {0} /\ TX_DEPTH = 2 * Places - 1
    BY <1>2 DEF Stride, Places
  <2>2. \A j \in 0 .. Places - 1 : (2 * j) \div 2 = j
    BY <2>1
  <2>3. ASSUME NEW j \in 0 .. Places - 1
        PROVE  /\ 2 * j \in Slot
               /\ Following(2 * j) = IF j + 1 < Places THEN 2 * (j + 1) ELSE 0
    <3>0. j \in Nat /\ j <= Places - 1
      BY <2>1
    <3>1. 2 * j \in Nat /\ 2 * j <= TX_DEPTH - 1
      <4> HIDE WrapAssumption
      <4> QED
        BY <2>1, <3>0
    <3>2. (2 * j) + 1 >= TX_DEPTH <=> ~ (j + 1 < Places)
      BY <2>1
    <3>3. (2 * j) + 1 + WRAP_ADDS = 2 * (j + 1)
      BY <1>2, <2>1
    <3> QED
      BY <3>1, <3>2, <3>3 DEF Slot, Following
  <2> QED
    BY <2>1, <2>2, <2>3
<1> QED
  BY <1>1, <1>2

\* Where the tail is, counted in places, and what that makes of Place.
LEMMA TailPlace ==
  ASSUME tx_t \in Visited
  PROVE  \E j \in 0 .. Places - 1 :
           /\ tx_t = Stride * j
           /\ \A k \in 0 .. Places : Place(k) = Wrapped(j + k)
<1>1. PICK j \in 0 .. Places - 1 : tx_t = Stride * j
  BY DEF Visited
<1>2. tx_t \div Stride = j
  BY <1>1, RingShape
<1> QED
  BY <1>1, <1>2 DEF Place

LEMMA RingSize ==
  /\ Places \in Nat \ {0}
  /\ Visited \subseteq Slot
  /\ 0 \in Visited
<1>1. 0 = Stride * 0 /\ 0 \in 0 .. Places - 1
  BY RingShape
<1> QED
  BY <1>1, RingShape DEF Visited

LEMMA FollowingVisited == \A i \in Visited : Following(i) \in Visited
<1> SUFFICES ASSUME NEW j \in 0 .. Places - 1
             PROVE  Following(Stride * j) \in Visited
  BY DEF Visited
<1>1. CASE j + 1 < Places
  BY <1>1, RingShape DEF Visited
<1>2. CASE ~ (j + 1 < Places)
  BY <1>2, RingShape, RingSize
<1> QED
  BY <1>1, <1>2

\* Place enumerates the ring from the tail, each buffer once.
LEMMA PlaceFacts ==
  ASSUME tx_t \in Visited
  PROVE  /\ \A k \in 0 .. Places : Place(k) \in Visited
         /\ \A i \in 0 .. Places - 1, k \in 0 .. Places - 1 : Place(i) = Place(k) => i = k
         /\ Place(0) = tx_t /\ Place(Places) = tx_t
         /\ \A k \in 0 .. Places - 1 : Following(Place(k)) = Place(k + 1)
<1>1. PICK j \in 0 .. Places - 1 :
        /\ tx_t = Stride * j
        /\ \A k \in 0 .. Places : Place(k) = Wrapped(j + k)
  BY TailPlace
<1>2. ASSUME NEW k \in 0 .. Places
      PROVE  Place(k) \in Visited
  <2> DEFINE n == IF j + k < Places THEN j + k ELSE j + k - Places
  <2>1. n \in 0 .. Places - 1
    BY RingShape
  <2>2. Place(k) = Stride * n
    BY <1>1, RingShape DEF Wrapped
  <2> HIDE DEF n
  <2> QED
    BY <2>1, <2>2 DEF Visited
<1>3. ASSUME NEW i \in 0 .. Places - 1, NEW k \in 0 .. Places - 1, Place(i) = Place(k)
      PROVE  i = k
  <2>1. \A a, b \in Nat : Stride * a = Stride * b => a = b
    BY RingShape
  <2> DEFINE a == IF j + i < Places THEN j + i ELSE j + i - Places
  <2> DEFINE b == IF j + k < Places THEN j + k ELSE j + k - Places
  <2>2. a \in Nat /\ b \in Nat
    BY RingShape
  <2>3. Stride * a = Stride * b
    BY <1>1, <1>3, RingShape DEF Wrapped
  <2>4. a = b
    BY <2>1, <2>2, <2>3
  <2> QED
    BY <2>4, RingShape
<1>4. Place(0) = tx_t /\ Place(Places) = tx_t
  BY <1>1, RingShape DEF Wrapped
<1>5. ASSUME NEW k \in 0 .. Places - 1
      PROVE  Following(Place(k)) = Place(k + 1)
  <2>1. Place(k) = Stride * (IF j + k < Places THEN j + k ELSE j + k - Places)
    BY <1>1, RingShape DEF Wrapped
  <2>2. Place(k + 1) = Stride * (IF j + (k + 1) < Places THEN j + (k + 1) ELSE j + (k + 1) - Places)
    <3>1. Place(k + 1) = Wrapped(j + (k + 1))
      BY <1>1, RingShape
    <3> QED
      BY <3>1, RingShape DEF Wrapped
  <2>3. CASE j + (k + 1) < Places
    <3>1. j + k \in 0 .. Places - 1 /\ j + k < Places /\ (j + k) + 1 = j + (k + 1)
      BY <2>3, RingShape
    <3> QED
      BY <2>1, <2>2, <2>3, <3>1, RingShape
  <2>4. CASE j + (k + 1) = Places
    <3>1. j + k \in 0 .. Places - 1 /\ j + k < Places /\ ~ ((j + k) + 1 < Places)
      BY <2>4, RingShape
    <3>2. Following(Place(k)) = 0
      BY <2>1, <3>1, RingShape
    <3> QED
      BY <2>2, <2>4, <3>2, RingShape
  <2>5. CASE j + (k + 1) > Places
    <3>1. /\ j + k - Places \in 0 .. Places - 1 /\ ~ (j + k < Places)
          /\ (j + k - Places) + 1 = j + (k + 1) - Places /\ (j + k - Places) + 1 < Places
      BY <2>5, RingShape
    <3> QED
      BY <2>1, <2>2, <2>5, <3>1, RingShape
  <2> QED
    BY <2>3, <2>4, <2>5, RingShape
<1> QED
  BY <1>2, <1>3, <1>4, <1>5

\* When the tail moves on, each buffer comes one place nearer.
LEMMA PlaceMoves ==
  ASSUME tx_t \in Visited, tx_t' = Following(tx_t)
  PROVE  \A k \in 0 .. Places - 1 : Place(k)' = Place(k + 1)
<1>1. PICK j \in 0 .. Places - 1 :
        /\ tx_t = Stride * j
        /\ \A k \in 0 .. Places : Place(k) = Wrapped(j + k)
  BY TailPlace
<1> DEFINE i == IF j + 1 < Places THEN j + 1 ELSE 0
<1>2. i \in 0 .. Places - 1 /\ tx_t' = Stride * i
  BY <1>1, RingShape
<1>3. tx_t' \div Stride = i
  BY <1>2, RingShape
<1> SUFFICES ASSUME NEW k \in 0 .. Places - 1
             PROVE  Place(k)' = Place(k + 1)
  OBVIOUS
<1>4. Place(k)' = Wrapped(i + k)
  BY <1>3 DEF Place
<1>5. Place(k + 1) = Wrapped(j + (k + 1))
  BY <1>1, RingShape
<1>6. Wrapped(i + k) = Wrapped(j + (k + 1))
  BY RingShape DEF Wrapped
<1> QED
  BY <1>4, <1>5, <1>6
-----------------------------------------------------------------------------
LEMMA InitIInv == Init => IInv
<1> SUFFICES ASSUME Init PROVE IInv
  OBVIOUS
<1>1. tx_h \in Visited /\ tx_t \in Visited /\ Visited \subseteq Slot /\ Places \in Nat
  BY RingSize DEF Init
<1>2. TypeOK
  BY <1>1 DEF Init, TypeOK, Buffer
<1>3. \A k \in 0 .. Places - 1 : tx_q[Place(k)] = Empty
  BY <1>1, PlaceFacts DEF Init
<1>4. InStep(0)
  BY <1>1, <1>3, PlaceFacts DEF Init, InStep, Filled, HeadBehind
<1> QED
  BY <1>1, <1>2, <1>4 DEF IInv, Init

\* Nothing that Filled looks at changes while tail and buffers stand still.
LEMMA StillFilled ==
  ASSUME NEW m \in 0 .. Places, Filled(m), UNCHANGED <<tx_q, tx_t>>
  PROVE  Filled(m)' /\ \A k \in 0 .. Places : Place(k)' = Place(k)
  BY DEF Filled, Place

LEMMA CallIInv ==
  ASSUME IInv, NEW t \in Text, Call(t)
  PROVE  IInv'
<1>1. PICK m \in 0 .. Places : InStep(m)
  BY DEF IInv
<1>2. /\ TypeOK /\ UNCHANGED <<tx_q, tx_h, tx_t, sending>> /\ ~ sending /\ printing = "no"
      /\ tx_h \in Visited /\ tx_t \in Visited
  BY DEF IInv, Call
<1>3. Filled(m)' /\ \A k \in 0 .. Places : Place(k)' = Place(k)
  BY <1>1, <1>2, StillFilled DEF InStep
<1>4. TypeOK' /\ (printing # "no" => text \in Text)'
  BY <1>2 DEF TypeOK, Call
<1>5. printing' \in {"no", "first"} /\ HeadBehind(m)'
  <2>1. tx_h = Place(m) /\ printing' \in {"no", "first"}
    BY <1>1, <1>2 DEF InStep, HeadBehind, Call
  <2> QED
    BY <1>2, <1>3, <2>1 DEF HeadBehind
<1>6. printing' = "first" => m < Places
  <2> SUFFICES ASSUME printing' = "first", m = Places PROVE FALSE
    BY RingSize
  <2>1. tx_q[tx_h] = Empty
    BY <1>2 DEF Call
  <2>2. tx_h = Place(Places) /\ Place(Places) = Place(0)
    BY <1>1, <1>2, PlaceFacts DEF InStep, HeadBehind
  <2>3. tx_q[Place(0)] # Empty
    BY <1>1, RingSize DEF InStep, Filled
  <2> QED
    BY <2>1, <2>2, <2>3
<1>7. InStep(m)'
  BY <1>2, <1>3, <1>5, <1>6 DEF InStep
<1> QED
  BY <1>2, <1>4, <1>7 DEF IInv

\* The first character makes one more buffer used: the first free one.
LEMMA FirstCharacterFills ==
  ASSUME IInv, NEW m \in 0 .. Places, InStep(m), FirstCharacter
  PROVE  TypeOK' /\ tx_t' \in Visited /\ InStep(m + 1)' /\ m + 1 \in 0 .. Places
<1>1. /\ TypeOK /\ UNCHANGED <<tx_h, tx_t, text, sending>> /\ ~ sending
      /\ tx_h \in Visited /\ tx_t \in Visited /\ text \in Text
      /\ printing' = "rest" /\ refused' = FALSE
      /\ tx_q' = [tx_q EXCEPT ![tx_h] = [text |-> text, whole |-> FALSE]]
  BY DEF IInv, FirstCharacter
<1>2. m \in 0 .. Places - 1 /\ tx_h = Place(m) /\ Filled(m)
  BY RingSize DEF FirstCharacter, InStep, HeadBehind
<1>3. [text |-> text, whole |-> FALSE] \in Buffer /\ [text |-> text, whole |-> FALSE] # Empty
  <2>1. [text |-> text, whole |-> FALSE] \in [text : Text, whole : BOOLEAN]
    BY <1>1
  <2> QED
    BY <2>1 DEF Buffer
<1>4. TypeOK'
  BY <1>1, <1>3 DEF TypeOK
<1>5. \A k \in 0 .. Places : Place(k)' = Place(k)
  BY <1>1 DEF Place
<1>6. Filled(m + 1)'
  <2> SUFFICES ASSUME NEW k \in 0 .. Places - 1
               PROVE  tx_q'[Place(k)] # Empty <=> k < m + 1
    BY <1>5, RingSize DEF Filled
  <2>1. Place(k) \in Slot /\ (k # m => Place(k) # tx_h)
    BY <1>1, <1>2, PlaceFacts, RingSize
  <2>2. CASE k = m
    BY <1>1, <1>2, <1>3, <2>1, <2>2 DEF TypeOK
  <2>3. CASE k # m
    <3>1. tx_q'[Place(k)] = tx_q[Place(k)]
      BY <1>1, <2>1, <2>3 DEF TypeOK
    <3> QED
      BY <1>2, <2>3, <3>1 DEF Filled
  <2> QED
    BY <2>2, <2>3
<1>7. HeadBehind(m + 1)'
  <2>1. m + 1 > 0 /\ (m + 1) - 1 = m /\ tx_h' = Place(m)'
    BY <1>1, <1>2, <1>5
  <2> QED
    BY <1>1, <2>1 DEF HeadBehind
<1>8. InStep(m + 1)' /\ m + 1 \in 0 .. Places
  BY <1>1, <1>2, <1>6, <1>7, RingSize DEF InStep
<1> QED
  BY <1>1, <1>4, <1>8

LEMMA FirstCharacterIInv ==
  ASSUME IInv, FirstCharacter
  PROVE  IInv'
<1>1. PICK m \in 0 .. Places : InStep(m)
  BY DEF IInv
<1>2. TypeOK' /\ tx_t' \in Visited /\ InStep(m + 1)' /\ m + 1 \in 0 .. Places
  BY <1>1, FirstCharacterFills
<1> QED
  BY <1>2 DEF IInv, FirstCharacter

\* The rest of the text leaves each buffer empty or not, as it was, and the
\* same text in it.
LEMMA RestKeeps ==
  ASSUME IInv, Rest
  PROVE  /\ tx_q' \in [Slot -> Buffer]
         /\ \A i \in Slot : /\ tx_q'[i] = Empty <=> tx_q[i] = Empty
                            /\ tx_q[i] # Empty => tx_q'[i].text = tx_q[i].text
<1>1. tx_q \in [Slot -> Buffer] /\ tx_h \in Slot
  BY DEF IInv, TypeOK
<1>2. CASE tx_q[tx_h] = Empty
  BY <1>1, <1>2 DEF Rest
<1>3. CASE tx_q[tx_h] # Empty
  <2>1. tx_q' = [tx_q EXCEPT ![tx_h].whole = TRUE]
    BY <1>3 DEF Rest
  <2>2. tx_q[tx_h] \in [text : Text, whole : BOOLEAN]
    BY <1>1, <1>3 DEF Buffer
  <2> DEFINE b == [tx_q[tx_h] EXCEPT !.whole = TRUE]
  <2>3. b \in [text : Text, whole : BOOLEAN] /\ b.text = tx_q[tx_h].text
    BY <2>2
  <2>4. b \in Buffer /\ b # Empty
    BY <2>3 DEF Buffer
  <2>5. tx_q' = [tx_q EXCEPT ![tx_h] = b]
    BY <1>1, <2>1
  <2> HIDE DEF b
  <2> QED
    BY <1>1, <1>3, <2>3, <2>4, <2>5
<1> QED
  BY <1>2, <1>3

LEMMA RestIInv ==
  ASSUME IInv, Rest
  PROVE  IInv'
<1>1. PICK m \in 0 .. Places : InStep(m)
  BY DEF IInv
<1>2. /\ TypeOK /\ UNCHANGED <<tx_h, tx_t, text, sending, refused>> /\ ~ sending
      /\ tx_h \in Visited /\ tx_t \in Visited /\ text \in Text
      /\ printing = "rest" /\ printing' = "advance"
  BY DEF IInv, Rest
<1>3. TypeOK'
  BY <1>2, RestKeeps DEF TypeOK
<1>4. \A k \in 0 .. Places : Place(k)' = Place(k)
  BY <1>2 DEF Place
<1>5. Filled(m)'
  <2> SUFFICES ASSUME NEW k \in 0 .. Places - 1
               PROVE  tx_q'[Place(k)] # Empty <=> k < m
    BY <1>4, RingSize DEF Filled
  <2>1. Place(k) \in Slot
    BY <1>2, PlaceFacts, RingSize
  <2> QED
    BY <1>1, <2>1, RestKeeps DEF InStep, Filled
<1>6. HeadBehind(m)'
  <2>1. m > 0 => m - 1 \in 0 .. Places
    BY RingSize
  <2>2. (m > 0 /\ tx_h = Place(m - 1)) \/ (m = 0 /\ tx_t = Following(tx_h))
    BY <1>1, <1>2 DEF InStep, HeadBehind
  <2>3. (m > 0 /\ tx_h' = Place(m - 1)') \/ (m = 0 /\ tx_t' = Following(tx_h'))
    BY <1>2, <1>4, <2>1, <2>2
  <2> QED
    BY <1>2, <2>3 DEF HeadBehind, Following
<1>7. InStep(m)'
  BY <1>2, <1>5, <1>6 DEF InStep
<1> QED
  BY <1>2, <1>3, <1>7 DEF IInv

\* Only now does the head move on, past the buffer that has been filled.
LEMMA ReturnIInv ==
  ASSUME IInv, Return
  PROVE  IInv'
<1>1. PICK m \in 0 .. Places : InStep(m)
  BY DEF IInv
<1>2. /\ TypeOK /\ UNCHANGED <<tx_q, tx_t, sending, refused>> /\ ~ sending
      /\ tx_h \in Visited /\ tx_t \in Visited
      /\ printing = "advance" /\ printing' = "no" /\ text' = Empty
      /\ tx_h' = Following(tx_h)
  BY DEF IInv, Return
<1>3. tx_h' \in Visited /\ tx_h' \in Slot
  BY <1>2, FollowingVisited, RingSize
<1>4. TypeOK'
  BY <1>2, <1>3 DEF TypeOK
<1>5. Filled(m)' /\ \A k \in 0 .. Places : Place(k)' = Place(k)
  BY <1>1, <1>2, StillFilled DEF InStep
<1>6. tx_h' = Place(m)
  <2>1. CASE m > 0 /\ tx_h = Place(m - 1)
    <3>1. m - 1 \in 0 .. Places - 1 /\ (m - 1) + 1 = m
      BY <2>1, RingSize
    <3> QED
      BY <1>2, <2>1, <3>1, PlaceFacts
  <2>2. CASE m = 0 /\ tx_t = Following(tx_h)
    BY <1>2, <2>2, PlaceFacts
  <2>3. (m > 0 /\ tx_h = Place(m - 1)) \/ (m = 0 /\ tx_t = Following(tx_h))
    BY <1>1, <1>2 DEF InStep, HeadBehind
  <2> QED
    BY <2>1, <2>2, <2>3
<1>7. HeadBehind(m)'
  BY <1>2, <1>5, <1>6 DEF HeadBehind
<1>8. InStep(m)'
  BY <1>2, <1>5, <1>7 DEF InStep
<1> QED
  BY <1>2, <1>3, <1>4, <1>8 DEF IInv

LEMMA SendIInv ==
  ASSUME IInv, Send
  PROVE  IInv'
<1>1. PICK m \in 0 .. Places : InStep(m)
  BY DEF IInv
<1>2. /\ TypeOK /\ UNCHANGED <<tx_q, tx_h, tx_t, printing, text, refused>>
      /\ tx_h \in Visited /\ tx_t \in Visited /\ sending' = TRUE
  BY DEF IInv, Send
<1>3. m > 0
  <2>1. tx_q[Place(0)] # Empty
    BY <1>2, PlaceFacts DEF Send
  <2> QED
    BY <1>1, <2>1, RingSize DEF InStep, Filled
<1>4. Filled(m)' /\ \A k \in 0 .. Places : Place(k)' = Place(k)
  BY <1>1, <1>2, StillFilled DEF InStep
<1>5. HeadBehind(m)'
  <2>1. m - 1 \in 0 .. Places
    BY <1>3, RingSize
  <2> QED
    BY <1>1, <1>2, <1>3, <1>4, <2>1 DEF InStep, HeadBehind
<1>6. InStep(m)'
  BY <1>1, <1>2, <1>3, <1>4, <1>5 DEF InStep
<1>7. TypeOK' /\ (printing # "no" => text \in Text)'
  BY <1>2 DEF IInv, TypeOK
<1> QED
  BY <1>2, <1>6, <1>7 DEF IInv

\* The tail's buffer is given back and every other one comes one place nearer;
\* a printf caught in the middle may find that its own was the last.
LEMMA SentEmpties ==
  ASSUME IInv, NEW m \in 0 .. Places, InStep(m), Sent
  PROVE  TypeOK' /\ tx_t' \in Visited /\ InStep(m - 1)' /\ m - 1 \in 0 .. Places
<1>1. /\ TypeOK /\ UNCHANGED <<tx_h, printing, text, refused>> /\ sending /\ sending' = FALSE
      /\ tx_h \in Visited /\ tx_t \in Visited
      /\ tx_q' = [tx_q EXCEPT ![tx_t] = Empty] /\ tx_t' = Following(tx_t)
  BY DEF IInv, Sent
<1>2. m > 0 /\ m - 1 \in 0 .. Places - 1 /\ (m - 1) + 1 = m
  BY <1>1, RingSize DEF InStep
<1>3. \A k \in 0 .. Places - 1 : Place(k)' = Place(k + 1)
  BY <1>1, PlaceMoves
<1>4. tx_t' \in Visited /\ tx_t' \in Slot
  BY <1>1, FollowingVisited, RingSize
<1>5. TypeOK'
  BY <1>1, <1>4 DEF TypeOK, Buffer
<1>6. Filled(m - 1)'
  <2> SUFFICES ASSUME NEW k \in 0 .. Places - 1
               PROVE  tx_q'[Place(k + 1)] # Empty <=> k < m - 1
    BY <1>3, RingSize DEF Filled
  <2>1. CASE k = Places - 1
    <3>1. Place(k + 1) = tx_t
      BY <1>1, <2>1, PlaceFacts, RingSize
    <3> QED
      BY <1>1, <1>2, <2>1, <3>1, RingSize DEF TypeOK
  <2>2. CASE k # Places - 1
    <3>1. k + 1 \in 0 .. Places - 1 /\ 0 \in 0 .. Places - 1 /\ k + 1 # 0
      BY <2>2, RingSize
    <3>2. Place(k + 1) # tx_t /\ Place(k + 1) \in Slot
      BY <1>1, <3>1, PlaceFacts, RingSize
    <3>3. tx_q'[Place(k + 1)] = tx_q[Place(k + 1)]
      BY <1>1, <3>2 DEF TypeOK
    <3> QED
      BY <1>2, <3>1, <3>3 DEF InStep, Filled
  <2> QED
    BY <2>1, <2>2
<1>7. HeadBehind(m - 1)'
  <2>1. CASE printing \in {"no", "first"}
    <3>1. tx_h = Place(m)
      BY <2>1 DEF InStep, HeadBehind
    <3> QED
      BY <1>1, <1>2, <1>3, <2>1, <3>1 DEF HeadBehind
  <2>2. CASE printing \notin {"no", "first"}
    <3>1. tx_h = Place(m - 1)
      BY <1>2, <2>2 DEF InStep, HeadBehind
    <3>2. CASE m - 1 = 0
      <4>1. tx_t' = Following(tx_h')
        BY <1>1, <3>1, <3>2, PlaceFacts
      <4> QED
        BY <1>1, <2>2, <3>2, <4>1 DEF HeadBehind, Following
    <3>3. CASE m - 1 > 0
      <4>1. (m - 1) - 1 \in 0 .. Places - 1 /\ ((m - 1) - 1) + 1 = m - 1
        BY <1>2, <3>3, RingSize
      <4>2. tx_h' = Place((m - 1) - 1)'
        BY <1>1, <1>3, <3>1, <4>1
      <4> QED
        BY <1>1, <2>2, <3>3, <4>2 DEF HeadBehind
    <3> QED
      BY <1>2, <3>2, <3>3
  <2> QED
    BY <2>1, <2>2
<1>8. InStep(m - 1)'
  <2>1. printing = "first" => m < Places
    BY DEF InStep
  <2> QED
    BY <1>1, <1>2, <1>6, <1>7, <2>1, RingSize DEF InStep
<1> QED
  BY <1>2, <1>4, <1>5, <1>8, RingSize

LEMMA SentIInv ==
  ASSUME IInv, Sent
  PROVE  IInv'
<1>1. PICK m \in 0 .. Places : InStep(m)
  BY DEF IInv
<1>2. TypeOK' /\ tx_t' \in Visited /\ InStep(m - 1)' /\ m - 1 \in 0 .. Places
  BY <1>1, SentEmpties
<1> QED
  BY <1>2 DEF IInv, Sent

LEMMA NextIInv == IInv /\ [Next]_vars => IInv'
<1> SUFFICES ASSUME IInv, [Next]_vars PROVE IInv'
  OBVIOUS
<1>1. CASE printf
  BY <1>1, CallIInv, FirstCharacterIInv, RestIInv, ReturnIInv DEF printf
<1>2. CASE process
  BY <1>2, SendIInv, SentIInv DEF process
<1>3. CASE UNCHANGED vars
  BY <1>3 DEF vars, IInv, TypeOK, InStep, Filled, HeadBehind, Place, Following
<1> QED
  BY <1>1, <1>2, <1>3 DEF Next

LEMMA AlwaysIInv == Spec => []IInv
  BY InitIInv, NextIInv, PTL DEF Spec

\* usb_serial.cpp: whichever way WRAP is compiled, tx_h and tx_t stay inside
\* tx_q for every depth that compilation may be combined with.
THEOREM TypeCorrect == Spec => []TypeOK
  BY AlwaysIInv, PTL DEF IInv

\* printf and process compare their indices nowhere, and yet the head is always
\* the first empty buffer after the tail.
THEOREM HeadKeepsStep == Spec => []HeadInStep
<1>1. IInv => HeadInStep
  <2> SUFFICES ASSUME IInv, printing = "no", ~ sending
               PROVE  \/ Used = 0 .. Places - 1 /\ tx_h = tx_t
                      \/ \E k \in 0 .. Places - 1 : Used = 0 .. k - 1 /\ tx_h = Place(k)
    BY DEF HeadInStep
  <2>1. PICK m \in 0 .. Places : InStep(m)
    BY DEF IInv
  <2>2. Used = 0 .. m - 1 /\ tx_h = Place(m)
    <3>1. \A k \in 0 .. Places - 1 : tx_q[Place(k)] # Empty <=> k \in 0 .. m - 1
      BY <2>1, RingSize DEF InStep, Filled
    <3>2. 0 .. m - 1 \subseteq 0 .. Places - 1
      BY RingSize
    <3> QED
      BY <2>1, <3>1, <3>2 DEF Used, InStep, HeadBehind
  <2>3. CASE m = Places
    BY <2>2, <2>3, PlaceFacts DEF IInv
  <2>4. CASE m \in 0 .. Places - 1
    BY <2>2, <2>4
  <2> QED
    BY <2>3, <2>4, RingSize
<1> QED
  BY <1>1, AlwaysIInv, PTL

-----------------------------------------------------------------------------
\* Each step of the ring is a step of LossyFifo, or invisible to it.

\* Pending as a sequence, when m buffers are in use.
PendingHas(m) ==
  /\ Pending = [n \in 1 .. m |-> tx_q[Place(n - 1)].text]
  /\ Pending \in Seq(Text)
  /\ Len(Pending) = m

PendingIsSeq ==
  \A m \in 0 .. Places : TypeOK /\ tx_t \in Visited /\ Filled(m) => PendingHas(m)

LEMMA PendingSeq == PendingIsSeq
<1> SUFFICES ASSUME NEW m \in 0 .. Places, TypeOK, tx_t \in Visited, Filled(m)
             PROVE  PendingHas(m)
  BY DEF PendingIsSeq
<1>1. Used = 0 .. m - 1
  <2>1. \A k \in 0 .. Places - 1 : tx_q[Place(k)] # Empty <=> k \in 0 .. m - 1
    BY RingSize DEF Filled
  <2>2. 0 .. m - 1 \subseteq 0 .. Places - 1
    BY RingSize
  <2> QED
    BY <2>1, <2>2 DEF Used
<1>2. {k + 1 : k \in Used} = 1 .. m
  <2>1. \A n \in 1 .. m : n - 1 \in 0 .. m - 1 /\ n = (n - 1) + 1
    BY RingSize
  <2>2. \A k \in 0 .. m - 1 : k + 1 \in 1 .. m
    BY RingSize
  <2> QED
    BY <1>1, <2>1, <2>2
<1>3. Pending = [n \in 1 .. m |-> tx_q[Place(n - 1)].text]
  BY <1>2 DEF Pending
<1>4. ASSUME NEW n \in 1 .. m
      PROVE  tx_q[Place(n - 1)].text \in Text
  <2>1. n - 1 \in 0 .. Places - 1 /\ n - 1 < m
    BY RingSize
  <2>2. Place(n - 1) \in Slot /\ tx_q[Place(n - 1)] # Empty
    BY <2>1, PlaceFacts, RingSize DEF Filled
  <2> QED
    BY <2>2 DEF TypeOK, Buffer
<1>5. m \in Nat
  BY RingSize
<1> QED
  BY <1>3, <1>4, <1>5 DEF PendingHas

\* The text the tail points to is the first of Pending.
LEMMA TailFirst ==
  ASSUME NEW m \in 1 .. Places, tx_t \in Visited, PendingHas(m)
  PROVE  Pending # <<>> /\ Head(Pending) = tx_q[tx_t].text
<1>1. Place(0) = tx_t /\ 1 \in 1 .. m /\ 1 - 1 = 0
  BY PlaceFacts, RingSize
<1>2. Pending[1] = tx_q[tx_t].text
  BY <1>1 DEF PendingHas
<1> QED
  BY <1>1, <1>2, RingSize, HeadTailProperties DEF PendingHas

LEMMA CallRefines ==
  ASSUME IInv, NEW t \in Text, Call(t)
  PROVE  Line!Refuse \/ UNCHANGED Line!vars
<1>1. PICK m \in 0 .. Places : InStep(m)
  BY DEF IInv
<1>2. UNCHANGED <<tx_q, tx_t, sending>> /\ UNCHANGED Pending
  BY DEF Call, Pending, Used, Place
<1>3. CASE tx_q[tx_h] = Empty
  BY <1>2, <1>3 DEF Call, Line!vars
<1>4. CASE tx_q[tx_h] # Empty
  <2>1. tx_h = Place(m)
    BY <1>1 DEF InStep, HeadBehind, Call
  <2>2. m = Places
    BY <1>1, <1>4, <2>1, RingSize DEF InStep, Filled
  <2>3. Len(Pending) = Places
    BY <1>1, <2>2, PendingSeq DEF IInv, InStep, PendingHas, PendingIsSeq
  <2> QED
    BY <1>2, <1>4, <2>3 DEF Call, Line!Refuse
<1> QED
  BY <1>3, <1>4

\* A printf posts its text with the first character.
LEMMA FirstCharacterRefines ==
  ASSUME IInv, FirstCharacter
  PROVE  Line!Post(text)
<1>1. PICK m \in 0 .. Places : InStep(m)
  BY DEF IInv
<1>2. /\ TypeOK /\ UNCHANGED <<tx_h, tx_t, text, sending>> /\ ~ sending
      /\ tx_h \in Visited /\ tx_t \in Visited /\ text \in Text /\ refused' = FALSE
      /\ tx_q' = [tx_q EXCEPT ![tx_h] = [text |-> text, whole |-> FALSE]]
  BY DEF IInv, FirstCharacter
<1>3. m \in 0 .. Places - 1 /\ tx_h = Place(m) /\ Filled(m)
  BY <1>1, RingSize DEF FirstCharacter, InStep, HeadBehind
<1>4. \A k \in 0 .. Places : Place(k)' = Place(k)
  BY <1>2 DEF Place
<1>5. PendingHas(m)
  BY <1>2, <1>3, PendingSeq DEF PendingIsSeq
<1>6. PendingHas(m + 1)'
  <2>1. PendingIsSeq'
    BY PendingSeq, PTL
  <2>2. TypeOK' /\ tx_t' \in Visited /\ Filled(m + 1)' /\ m + 1 \in 0 .. Places
    BY <1>1, FirstCharacterFills DEF InStep
  <2> QED
    BY <2>1, <2>2 DEF PendingIsSeq
<1>7. \A n \in 1 .. m + 1 : Pending'[n] = Append(Pending, text)[n]
  <2> SUFFICES ASSUME NEW n \in 1 .. m + 1
               PROVE  Pending'[n] = Append(Pending, text)[n]
    OBVIOUS
  <2>1. n - 1 \in 0 .. Places - 1
    BY <1>3, RingSize
  <2>2. Pending'[n] = tx_q'[Place(n - 1)].text
    BY <1>4, <1>6, <2>1, RingSize DEF PendingHas
  <2>3. CASE n = m + 1
    <3>1. tx_q'[Place(n - 1)].text = text
      BY <1>2, <1>3, <2>3 DEF TypeOK
    <3> QED
      BY <1>5, <2>2, <2>3, <3>1, AppendProperties, <1>2 DEF PendingHas
  <2>4. CASE n \in 1 .. m
    <3>1. Place(n - 1) # tx_h /\ Place(n - 1) \in Slot
      BY <1>2, <1>3, <2>1, <2>4, PlaceFacts, RingSize
    <3>2. tx_q'[Place(n - 1)] = tx_q[Place(n - 1)]
      BY <1>2, <3>1 DEF TypeOK
    <3>3. Append(Pending, text)[n] = Pending[n]
      BY <1>2, <1>5, <2>4, AppendProperties DEF PendingHas
    <3> QED
      BY <1>5, <2>2, <2>4, <3>2, <3>3 DEF PendingHas
  <2>5. n = m + 1 \/ n \in 1 .. m
    BY RingSize
  <2> QED
    BY <2>3, <2>4, <2>5
<1>8. Pending' = Append(Pending, text)
  <2>1. Pending \in Seq(Text) /\ Len(Pending) = m /\ Pending' \in Seq(Text) /\ Len(Pending') = m + 1
    BY <1>5, <1>6 DEF PendingHas
  <2>2. Append(Pending, text) \in Seq(Text) /\ Len(Append(Pending, text)) = m + 1
    BY <1>2, <2>1, AppendProperties
  <2> QED
    BY <1>7, <2>1, <2>2, SeqEqual
<1>9. Len(Pending) < Places
  BY <1>3, <1>5, RingSize DEF PendingHas
<1> QED
  BY <1>2, <1>8, <1>9 DEF Line!Post

\* Giving back the tail's buffer drops the first of Pending.
LEMMA SentRefines ==
  ASSUME IInv, Sent
  PROVE  Line!Retire
<1>1. PICK m \in 0 .. Places : InStep(m)
  BY DEF IInv
<1>2. /\ TypeOK /\ refused' = refused /\ sending /\ sending' = FALSE /\ tx_t \in Visited
      /\ tx_q' = [tx_q EXCEPT ![tx_t] = Empty] /\ tx_t' = Following(tx_t)
  BY DEF IInv, Sent
<1>3. m \in 1 .. Places /\ m - 1 \in Nat /\ (m - 1) + 1 = m
  BY <1>1, <1>2, RingSize DEF InStep
<1>4. \A k \in 0 .. Places - 1 : Place(k)' = Place(k + 1)
  BY <1>2, PlaceMoves
<1>5. PendingHas(m)
  BY <1>1, <1>2, PendingSeq DEF PendingIsSeq, InStep
<1>6. PendingHas(m - 1)'
  <2>1. PendingIsSeq'
    BY PendingSeq, PTL
  <2>2. TypeOK' /\ tx_t' \in Visited /\ Filled(m - 1)' /\ m - 1 \in 0 .. Places
    BY <1>1, SentEmpties DEF InStep
  <2> QED
    BY <2>1, <2>2 DEF PendingIsSeq
<1>7. ASSUME NEW n \in 1 .. m - 1
      PROVE  Pending'[n] = Pending[n + 1]
  <2>1. /\ n - 1 \in 0 .. Places - 1 /\ (n - 1) + 1 = n /\ n \in 0 .. Places - 1
        /\ n + 1 \in 1 .. m /\ (n + 1) - 1 = n /\ n # 0 /\ 0 \in 0 .. Places - 1
    BY <1>3, RingSize
  <2>2. Pending'[n] = tx_q'[Place(n)].text
    BY <1>4, <1>6, <2>1 DEF PendingHas
  <2>3. Place(n) # tx_t /\ Place(n) \in Slot
    BY <1>2, <2>1, PlaceFacts, RingSize
  <2>4. tx_q'[Place(n)] = tx_q[Place(n)]
    BY <1>2, <2>3 DEF TypeOK
  <2> QED
    BY <1>5, <2>1, <2>2, <2>4 DEF PendingHas
<1>8. Pending' = Tail(Pending)
  <2>1. /\ Pending \in Seq(Text) /\ Len(Pending) = m
        /\ Pending' \in Seq(Text) /\ Len(Pending') = m - 1
    BY <1>5, <1>6 DEF PendingHas
  <2>2. Pending # <<>>
    BY <1>2, <1>3, <1>5, TailFirst
  <2>3. /\ Tail(Pending) \in Seq(Text) /\ Len(Tail(Pending)) = m - 1
        /\ \A n \in 1 .. m - 1 : Tail(Pending)[n] = Pending[n + 1]
    BY <1>3, <2>1, <2>2, HeadTailProperties
  <2> QED
    BY <1>7, <2>1, <2>3, SeqEqual
<1>9. Pending # <<>> /\ Head(Pending) = tx_q[tx_t].text
  BY <1>2, <1>3, <1>5, TailFirst
<1> QED
  BY <1>2, <1>8, <1>9 DEF Line!Retire

LEMMA SendRefines ==
  ASSUME IInv, Send
  PROVE  Line!Offer
<1>1. PICK m \in 0 .. Places : InStep(m)
  BY DEF IInv
<1>2. /\ TypeOK /\ tx_t \in Visited /\ sending' = TRUE /\ tx_q[tx_t] # Empty
      /\ UNCHANGED <<tx_q, tx_t, refused>>
  BY DEF IInv, Send
<1>3. m \in 1 .. Places
  <2>1. tx_q[Place(0)] # Empty
    BY <1>2, PlaceFacts
  <2> QED
    BY <1>1, <2>1, RingSize DEF InStep, Filled
<1>4. Pending # <<>> /\ Head(Pending) = tx_q[tx_t].text
  <2>1. PendingHas(m)
    BY <1>1, <1>2, PendingSeq DEF PendingIsSeq, InStep
  <2> QED
    BY <1>2, <1>3, <2>1, TailFirst
<1>5. Pending' = Pending
  BY <1>2 DEF Pending, Used, Place
<1> QED
  BY <1>2, <1>4, <1>5 DEF Line!Offer

\* The rest of the text and the move of the head are not seen from outside.
LEMMA RestRefines ==
  ASSUME IInv, Rest \/ Return
  PROVE  UNCHANGED Line!vars
<1>1. ~ sending /\ ~ sending' /\ UNCHANGED <<tx_t, refused>>
  BY DEF Rest, Return
<1>2. Pending' = Pending
  <2>1. CASE Return
    BY <2>1 DEF Return, Pending, Used, Place
  <2>2. CASE Rest
    <3>1. \A k \in 0 .. Places - 1 : Place(k)' = Place(k) /\ Place(k) \in Slot
      BY <1>1, PlaceFacts, RingSize DEF IInv, Place
    <3>2. \A k \in 0 .. Places - 1 :
            /\ tx_q'[Place(k)] = Empty <=> tx_q[Place(k)] = Empty
            /\ tx_q[Place(k)] # Empty => tx_q'[Place(k)].text = tx_q[Place(k)].text
      BY <2>2, <3>1, RestKeeps
    <3>3. Used' = Used
      BY <3>1, <3>2 DEF Used
    <3>4. \A n \in {k + 1 : k \in Used} : tx_q'[Place(n - 1)'].text = tx_q[Place(n - 1)].text
      <4> SUFFICES ASSUME NEW k \in Used
                   PROVE  tx_q'[Place((k + 1) - 1)'].text = tx_q[Place((k + 1) - 1)].text
        OBVIOUS
      <4>1. k \in 0 .. Places - 1 /\ (k + 1) - 1 = k /\ tx_q[Place(k)] # Empty
        BY RingSize DEF Used
      <4> QED
        BY <3>1, <3>2, <4>1
    <3> QED
      BY <3>3, <3>4 DEF Pending
  <2> QED
    BY <2>1, <2>2
<1> QED
  BY <1>1, <1>2 DEF Line!vars

\* For every depth and either WRAP the printed texts are sent once each and in
\* order, and a printf drops its text only when every buffer is in use.
THEOREM LineIsFifo == Spec => Line!Safety
<1>1. Init => Line!Init
  <2> SUFFICES ASSUME Init PROVE Pending = <<>>
    BY DEF Init, Line!Init
  <2>1. TypeOK /\ tx_t \in Visited /\ Filled(0) /\ 0 \in 0 .. Places
    <3>1. IInv /\ Places \in Nat
      BY InitIInv, RingSize
    <3>2. \A k \in 0 .. Places - 1 : tx_q[Place(k)] = Empty
      BY <3>1, PlaceFacts, RingSize DEF Init, IInv
    <3> QED
      BY <3>1, <3>2 DEF IInv, Filled
  <2>2. Pending \in Seq(Text) /\ Len(Pending) = 0
    BY <2>1, PendingSeq DEF PendingIsSeq, PendingHas
  <2> QED
    BY <2>2, EmptySeq
<1>2. IInv /\ [Next]_vars => [Line!Next]_(Line!vars)
  <2> SUFFICES ASSUME IInv, [Next]_vars PROVE [Line!Next]_(Line!vars)
    OBVIOUS
  <2>1. CASE \E t \in Text : Call(t)
    BY <2>1, CallRefines DEF Line!Next
  <2>2. CASE FirstCharacter
    BY <2>2, FirstCharacterRefines DEF Line!Next, IInv, FirstCharacter
  <2>3. CASE Rest \/ Return
    BY <2>3, RestRefines
  <2>4. CASE process
    BY <2>4, SendRefines, SentRefines DEF process, Line!Next
  <2>5. CASE UNCHANGED vars
    BY <2>5 DEF vars, Line!vars, Pending, Used, Place
  <2> QED
    BY <2>1, <2>2, <2>3, <2>4, <2>5 DEF Next, printf
<1> QED
  BY <1>1, <1>2, AlwaysIInv, PTL DEF Spec, Line!Safety
=============================================================================
