---------------------------- MODULE RadioProofs ----------------------------
(***************************************************************************)
(* Proofs about Radio: its types, that a radio counts as initialised only  *)
(* when it is, and what is sent on which frequency.                        *)
(***************************************************************************)
EXTENDS Radio, SequenceTheorems, TLAPS

USE ChipAssumption

Byte == 0 .. 255

\* Putting two short lists together.
LEMMA TwoAndThree ==
  ASSUME NEW a, NEW b, NEW c, NEW d, NEW e
  PROVE  <<a, b>> \o <<c, d, e>> = <<a, b, c, d, e>>
<1> DEFINE S == {a, b, c, d, e}
<1>1. <<a, b>> \in Seq(S) /\ <<c, d, e>> \in Seq(S) /\ <<a, b, c, d, e>> \in Seq(S)
  OBVIOUS
<1>2. Len(<<a, b>> \o <<c, d, e>>) = 5
  BY <1>1
<1>3. \A k \in 1 .. 5 : (<<a, b>> \o <<c, d, e>>)[k] = <<a, b, c, d, e>>[k]
  BY <1>1
<1>4. <<a, b>> \o <<c, d, e>> \in Seq(S)
  BY <1>1
<1> HIDE DEF S
<1> QED
  BY <1>1, <1>2, <1>3, <1>4, SeqEqual

LEMMA FiveAndFour ==
  ASSUME NEW a, NEW b, NEW c, NEW d, NEW e, NEW f, NEW g, NEW h, NEW i
  PROVE  <<a, b, c, d, e>> \o <<f, g, h, i>> = <<a, b, c, d, e, f, g, h, i>>
<1> DEFINE S == {a, b, c, d, e, f, g, h, i}
<1>1. <<a, b, c, d, e>> \in Seq(S) /\ <<f, g, h, i>> \in Seq(S) /\ <<a, b, c, d, e, f, g, h, i>> \in Seq(S)
  OBVIOUS
<1>2. Len(<<a, b, c, d, e>> \o <<f, g, h, i>>) = 9
  BY <1>1
<1>3. \A k \in 1 .. 9 : (<<a, b, c, d, e>> \o <<f, g, h, i>>)[k] = <<a, b, c, d, e, f, g, h, i>>[k]
  BY <1>1
<1>4. <<a, b, c, d, e>> \o <<f, g, h, i>> \in Seq(S)
  BY <1>1
<1> HIDE DEF S
<1> QED
  BY <1>1, <1>2, <1>3, <1>4, SeqEqual

\* What the main loop is asked to do, spelled out.
LeaveShutdown == Do("leave_shutdown")
AwaitInterrupt == Do("await_interrupt")
ReadIdentity == Do("identify")
AwaitEnd == Do("await_end")

LEMMA Operations ==
  /\ \A a, d : Write(a, d).op = "write" /\ Write(a, d).addr = a /\ Write(a, d).data = d
  /\ \A a : Read(a).op = "read" /\ Read(a).addr = a
  /\ LeaveShutdown.op = "leave_shutdown" /\ AwaitInterrupt.op = "await_interrupt"
  /\ ReadIdentity.op = "identify" /\ AwaitEnd.op = "await_end"
  /\ "write" \notin {LeaveShutdown.op, AwaitInterrupt.op, ReadIdentity.op, AwaitEnd.op, Read(3).op, Read(4).op, Read(7).op}
BY DEF Write, Read, Do, LeaveShutdown, AwaitInterrupt, ReadIdentity, AwaitEnd

LEMMA Probe ==
  /\ Len(rf_probe) = 9
  /\ rf_probe[1] = LeaveShutdown /\ rf_probe[2] = Read(3) /\ rf_probe[3] = Read(4)
  /\ rf_probe[4] = Write(7, <<128>>) /\ rf_probe[5] = AwaitInterrupt /\ rf_probe[6] = Write(11, <<146>>)
  /\ rf_probe[7] = Write(12, <<149>>) /\ rf_probe[8] = Write(13, <<20>>) /\ rf_probe[9] = ReadIdentity
<1>1. rf_probe =
        <<LeaveShutdown, Read(3), Read(4), Write(7, <<128>>), AwaitInterrupt>>
          \o <<Write(11, <<146>>), Write(12, <<149>>), Write(13, <<20>>), ReadIdentity>>
  BY DEF rf_probe, Identify, rf_spi_write, Mode, LeaveShutdown, AwaitInterrupt, ReadIdentity
<1>2. rf_probe =
        <<LeaveShutdown, Read(3), Read(4), Write(7, <<128>>), AwaitInterrupt,
          Write(11, <<146>>), Write(12, <<149>>), Write(13, <<20>>), ReadIdentity>>
  BY <1>1, FiveAndFour
<1> QED
  BY <1>2

LEMMA Keeloq ==
  /\ Len(keeloq_315_tx) = 6
  /\ keeloq_315_tx[1] = Write(113, <<33>>) /\ keeloq_315_tx[2] = Write(117, <<71>>) /\ keeloq_315_tx[3] = Write(118, <<125>>)
  /\ keeloq_315_tx[4] = Write(119, <<0>>) /\ keeloq_315_tx[5] = Write(7, <<9>>) /\ keeloq_315_tx[6] = AwaitEnd
BY DEF keeloq_315_tx, AwaitEnd, rf_spi_write, Mode, Modulation, Band, Carrier1, Carrier0, Fifo, TxOn

LEMMA Carrier315 ==
  /\ Len(unmod_carrier(315)) = 5
  /\ unmod_carrier(315)[1] = Write(117, <<7>>) /\ unmod_carrier(315)[2] = Write(118, <<0, 125>>) /\ unmod_carrier(315)[3] = Write(113, <<0>>)
  /\ unmod_carrier(315)[4] = Write(7, <<9>>) /\ unmod_carrier(315)[5] = Read(7)
<1>1. hbsel(315) = 0
  BY DEF hbsel
<1>2. fb(315) = 7
  BY <1>1 DEF fb
<1>3. fc(315) = 32000
  BY <1>1, <1>2 DEF fc
<1>4. InMemory(fc(315)) = <<0, 125>>
  BY <1>3 DEF InMemory
<1>5. unmod_carrier(315) = <<Write(117, <<7>>), Write(118, <<0, 125>>), Write(113, <<0>>), Write(7, <<9>>), Read(7)>>
  BY <1>1, <1>2, <1>4, TwoAndThree DEF unmod_carrier, rf_set_freq, rf_spi_write, Mode, Modulation, Band, Carrier1, TxOn
<1> QED
  BY <1>5

LEMMA Carrier434 ==
  /\ Len(unmod_carrier(434)) = 5
  /\ unmod_carrier(434)[1] = Write(117, <<19>>) /\ unmod_carrier(434)[2] = Write(118, <<0, 100>>) /\ unmod_carrier(434)[3] = Write(113, <<0>>)
  /\ unmod_carrier(434)[4] = Write(7, <<9>>) /\ unmod_carrier(434)[5] = Read(7)
<1>1. hbsel(434) = 0
  BY DEF hbsel
<1>2. fb(434) = 19
  BY <1>1 DEF fb
<1>3. fc(434) = 25600
  BY <1>1, <1>2 DEF fc
<1>4. InMemory(fc(434)) = <<0, 100>>
  BY <1>3 DEF InMemory
<1>5. unmod_carrier(434) = <<Write(117, <<19>>), Write(118, <<0, 100>>), Write(113, <<0>>), Write(7, <<9>>), Read(7)>>
  BY <1>1, <1>2, <1>4, TwoAndThree DEF unmod_carrier, rf_set_freq, rf_spi_write, Mode, Modulation, Band, Carrier1, TxOn
<1> QED
  BY <1>5

LEMMA CarrierOff ==
  /\ Len(unmod_carrier_off) = 1
  /\ unmod_carrier_off[1] = Write(7, <<1>>)
BY DEF unmod_carrier_off, rf_spi_write, Mode, Idle

LEMMA Dump ==
  /\ Len(dump_rf_regs) = 2
  /\ dump_rf_regs[1] = Read(3) /\ dump_rf_regs[2] = Read(4)
BY DEF dump_rf_regs

LEMMA Programs ==
  /\ Program("rf_probe") = rf_probe /\ Program("dump_rf_regs") = dump_rf_regs
  /\ Program("keeloq_315_tx") = keeloq_315_tx /\ Program("unmod_carrier_off") = unmod_carrier_off
  /\ Program("unmod_carrier_315") = unmod_carrier(315) /\ Program("unmod_carrier_434") = unmod_carrier(434)
BY Zenon DEF Program

\* The writes of the driver: of one register, of both registers of the carrier's
\* frequency. A plain one asks for no reset, turns nothing off and leaves the
\* antenna switch alone.
One(t) == \E a \in Registers, d \in Byte : t = Write(a, <<d>>)
Two(t) == \E d \in Byte, e \in Byte : t = Write(118, <<d, e>>)
Plain(t) ==
  \E a \in Registers \ Gpios, d \in Byte : (a = Mode => d = TxOn) /\ t = Write(a, <<d>>)

LEMMA Forms ==
  /\ One(Write(7, <<128>>)) /\ One(Write(11, <<146>>)) /\ One(Write(12, <<149>>)) /\ One(Write(13, <<20>>))
  /\ Plain(Write(113, <<33>>)) /\ Plain(Write(117, <<71>>)) /\ Plain(Write(118, <<125>>))
  /\ Plain(Write(119, <<0>>)) /\ Plain(Write(7, <<9>>))
  /\ Plain(Write(117, <<7>>)) /\ Plain(Write(117, <<19>>)) /\ Plain(Write(113, <<0>>))
  /\ Two(Write(118, <<0, 125>>)) /\ Two(Write(118, <<0, 100>>))
<1>1. ASSUME NEW a \in {7, 11, 12, 13}, NEW d \in {20, 128, 146, 149}
      PROVE  One(Write(a, <<d>>))
  <2>1. a \in Registers /\ d \in Byte
    BY DEF Registers, Gpios, Mode, Byte
  <2> QED
    BY <2>1 DEF One
<1>2. ASSUME NEW a \in {7, 113, 117, 118, 119}, NEW d \in {0, 7, 9, 19, 33, 71, 125}, a = 7 => d = 9
      PROVE  Plain(Write(a, <<d>>))
  <2>1. a \in Registers \ Gpios /\ d \in Byte /\ (a = Mode => d = TxOn)
    BY <1>2 DEF Registers, Gpios, Mode, Modulation, Band, Carrier1, Carrier0, Byte, TxOn
  <2> QED
    BY <2>1 DEF Plain
<1>3. ASSUME NEW e \in {100, 125}
      PROVE  Two(Write(118, <<0, e>>))
  <2>1. 0 \in Byte /\ e \in Byte
    BY DEF Byte
  <2> QED
    BY <2>1 DEF Two
<1> QED
  BY <1>1, <1>2, <1>3

\* What is written, and that only the probe asks for a reset and writes the
\* registers of the antenna switch.
LEMMA Writes ==
  ASSUME NEW f \in Functions, NEW p \in 1 .. Len(Program(f)), NEW t, t = Program(f)[p],
         t.op = "write"
  PROVE  \/ f = "rf_probe" /\ One(t)
         \/ f = "unmod_carrier_off" /\ t = Write(7, <<1>>)
         \/ Plain(t) \/ Two(t)
<1>1. CASE f = "rf_probe"
  <2>1. p \in 1 .. Len(rf_probe) /\ t = rf_probe[p]
    BY <1>1, Programs, Zenon
  <2>2. t \in {LeaveShutdown, Read(3), Read(4), Write(7, <<128>>), AwaitInterrupt,
               Write(11, <<146>>), Write(12, <<149>>), Write(13, <<20>>), ReadIdentity}
    BY <2>1, Probe
  <2> QED
    BY <1>1, <2>2, Operations, Forms, Zenon
<1>2. CASE f = "dump_rf_regs"
  <2>1. p \in 1 .. Len(dump_rf_regs) /\ t = dump_rf_regs[p]
    BY <1>2, Programs, Zenon
  <2>2. t \in {Read(3), Read(4)}
    BY <2>1, Dump
  <2> QED
    BY <2>2, Operations, Forms, Zenon
<1>3. CASE f = "keeloq_315_tx"
  <2>1. p \in 1 .. Len(keeloq_315_tx) /\ t = keeloq_315_tx[p]
    BY <1>3, Programs, Zenon
  <2>2. t \in {Write(113, <<33>>), Write(117, <<71>>), Write(118, <<125>>), Write(119, <<0>>),
               Write(7, <<9>>), AwaitEnd}
    BY <2>1, Keeloq
  <2> QED
    BY <2>2, Operations, Forms, Zenon
<1>4. CASE f = "unmod_carrier_315"
  <2>1. p \in 1 .. Len(unmod_carrier(315)) /\ t = unmod_carrier(315)[p]
    BY <1>4, Programs, Zenon
  <2>2. t \in {Write(117, <<7>>), Write(118, <<0, 125>>), Write(113, <<0>>), Write(7, <<9>>), Read(7)}
    BY <2>1, Carrier315
  <2> QED
    BY <2>2, Operations, Forms, Zenon
<1>5. CASE f = "unmod_carrier_434"
  <2>1. p \in 1 .. Len(unmod_carrier(434)) /\ t = unmod_carrier(434)[p]
    BY <1>5, Programs, Zenon
  <2>2. t \in {Write(117, <<19>>), Write(118, <<0, 100>>), Write(113, <<0>>), Write(7, <<9>>), Read(7)}
    BY <2>1, Carrier434
  <2> QED
    BY <2>2, Operations, Forms, Zenon
<1>6. CASE f = "unmod_carrier_off"
  <2>1. p \in 1 .. Len(unmod_carrier_off) /\ t = unmod_carrier_off[p]
    BY <1>6, Programs, Zenon
  <2>2. t = Write(7, <<1>>)
    BY <2>1, CarrierOff
  <2> QED
    BY <1>6, <2>2, Zenon
<1> QED
  BY <1>1, <1>2, <1>3, <1>4, <1>5, <1>6 DEF Functions

\* Every function does something.
LEMMA NotEmpty == \A f \in Functions : Len(Program(f)) \in Nat /\ 1 \in 1 .. Len(Program(f))
<1>1. Len(rf_probe) \in Nat /\ 1 \in 1 .. Len(rf_probe)
  BY Probe
<1>2. Len(dump_rf_regs) \in Nat /\ 1 \in 1 .. Len(dump_rf_regs)
  BY Dump
<1>3. Len(keeloq_315_tx) \in Nat /\ 1 \in 1 .. Len(keeloq_315_tx)
  BY Keeloq
<1>4. Len(unmod_carrier(315)) \in Nat /\ 1 \in 1 .. Len(unmod_carrier(315))
  BY Carrier315
<1>5. Len(unmod_carrier(434)) \in Nat /\ 1 \in 1 .. Len(unmod_carrier(434))
  BY Carrier434
<1>6. Len(unmod_carrier_off) \in Nat /\ 1 \in 1 .. Len(unmod_carrier_off)
  BY CarrierOff
<1> SUFFICES ASSUME NEW f \in Functions
             PROVE  Len(Program(f)) \in Nat /\ 1 \in 1 .. Len(Program(f))
  OBVIOUS
<1>7. CASE f = "rf_probe"
  BY <1>1, <1>7, Programs, Zenon
<1>8. CASE f = "dump_rf_regs"
  BY <1>2, <1>8, Programs, Zenon
<1>9. CASE f = "keeloq_315_tx"
  BY <1>3, <1>9, Programs, Zenon
<1>10. CASE f = "unmod_carrier_315"
  BY <1>4, <1>10, Programs, Zenon
<1>11. CASE f = "unmod_carrier_434"
  BY <1>5, <1>11, Programs, Zenon
<1>12. CASE f = "unmod_carrier_off"
  BY <1>6, <1>12, Programs, Zenon
<1> QED
  BY <1>7, <1>8, <1>9, <1>10, <1>11, <1>12 DEF Functions
-----------------------------------------------------------------------------
\* Where the main loop goes.
Place(f, p) ==
  \/ f = "none" /\ p = 0
  \/ f \in Functions /\ p \in 1 .. Len(Program(f))

LEMMA Advances ==
  ASSUME Place(function, pos), function # "none", Advance
  PROVE  /\ Place(function', pos')
         /\ \/ pos < Len(Program(function)) /\ function' = function /\ pos' = pos + 1
            \/ pos = Len(Program(function)) /\ function' \in {"none", "dump_rf_regs"}
<1>1. PICK n \in Nat : n = Len(Program(function))
  BY NotEmpty, Zenon DEF Place
<1>2. pos \in 1 .. n
  BY <1>1, Zenon DEF Place
<1>3. CASE pos < n
  <2>1. function' = function /\ pos' = pos + 1
    BY <1>1, <1>3, Zenon DEF Advance
  <2>2. pos' \in 1 .. n
    BY <1>2, <1>3, <2>1
  <2> QED
    BY <1>1, <1>3, <2>1, <2>2, Zenon DEF Place
<1>4. CASE ~ (pos < n)
  <2>1. pos = n
    BY <1>2, <1>4
  <2>2. \/ function' = "dump_rf_regs" /\ pos' = 1
        \/ function' = "none" /\ pos' = 0
    BY <1>1, <1>4, Zenon DEF Advance, Call
  <2> QED
    BY <1>1, <2>1, <2>2, NotEmpty, Zenon DEF Place, Functions
<1> QED
  BY <1>3, <1>4

LEMMA Calls ==
  ASSUME NEW f \in Functions, Call(f)
  PROVE  Place(function', pos') /\ function' = f /\ pos' = 1
BY NotEmpty, Zenon DEF Place, Call

LEMMA DefaultsType == Defaults \in [Registers -> Byte]
BY DEF Defaults, Registers, Gpios, Mode, Modulation, Band, Carrier1, Carrier0, Byte, Idle

LEMMA AreNumbers == Registers \subseteq Nat
BY DEF Registers, Gpios, Mode, Modulation, Band, Carrier1, Carrier0

LEMMA WrittenOne ==
  ASSUME reg \in [Registers -> Byte], NEW a \in Registers, NEW d \in Byte
  PROVE  Written(Write(a, <<d>>)) = [reg EXCEPT ![a] = d]
<1> DEFINE t == Write(a, <<d>>)
<1>1. t.addr = a /\ t.data = <<d>>
  BY DEF Write
<1>2. Written(t) = [x \in Registers |-> IF x - t.addr \in 0 .. Len(t.data) - 1
                                        THEN t.data[x - t.addr + 1] ELSE reg[x]]
  BY Zenon DEF Written
<1>3. Written(t) = [x \in Registers |-> IF x - a \in 0 .. Len(<<d>>) - 1
                                        THEN <<d>>[x - a + 1] ELSE reg[x]]
  BY <1>1, <1>2, Zenon
<1> HIDE DEF t
<1>4. ASSUME NEW x \in Registers
      PROVE  (IF x - a \in 0 .. Len(<<d>>) - 1 THEN <<d>>[x - a + 1] ELSE reg[x])
               = [reg EXCEPT ![a] = d][x]
  BY AreNumbers
<1>5. Written(t) = [reg EXCEPT ![a] = d]
  BY <1>3, <1>4
<1> QED
  BY <1>5 DEF t

LEMMA WrittenTwo ==
  ASSUME reg \in [Registers -> Byte], NEW d \in Byte, NEW e \in Byte
  PROVE  Written(Write(118, <<d, e>>)) = [reg EXCEPT ![118] = d, ![119] = e]
<1> DEFINE t == Write(118, <<d, e>>)
<1>1. t.addr = 118 /\ t.data = <<d, e>>
  BY DEF Write
<1>2. Written(t) = [x \in Registers |-> IF x - t.addr \in 0 .. Len(t.data) - 1
                                        THEN t.data[x - t.addr + 1] ELSE reg[x]]
  BY Zenon DEF Written
<1>3. Written(t) = [x \in Registers |-> IF x - 118 \in 0 .. Len(<<d, e>>) - 1
                                        THEN <<d, e>>[x - 118 + 1] ELSE reg[x]]
  BY <1>1, <1>2, Zenon
<1> HIDE DEF t
<1>4. ASSUME NEW x \in Registers
      PROVE  (IF x - 118 \in 0 .. Len(<<d, e>>) - 1 THEN <<d, e>>[x - 118 + 1] ELSE reg[x])
               = IF x = 119 THEN e ELSE IF x = 118 THEN d ELSE reg[x]
  BY AreNumbers
<1>5. Written(t) = [x \in Registers |-> IF x = 119 THEN e ELSE IF x = 118 THEN d ELSE reg[x]]
  BY <1>3, <1>4
<1>6. [reg EXCEPT ![118] = d, ![119] = e]
        = [x \in Registers |-> IF x = 119 THEN e ELSE IF x = 118 THEN d ELSE reg[x]]
  OBVIOUS
<1> QED
  BY <1>5, <1>6, Zenon DEF t
-----------------------------------------------------------------------------
\* Types.

LEMMA Placed == TypeOK => Place(function, pos) /\ reg \in [Registers -> Byte]
BY Zenon DEF TypeOK, Place, Byte

\* Where the main loop is, and what it writes.
LEMMA Writing ==
  ASSUME TypeOK, function # "none", Current.op = "write"
  PROVE  \/ function = "rf_probe" /\ One(Current)
         \/ function = "unmod_carrier_off" /\ Current = Write(7, <<1>>)
         \/ Plain(Current) \/ Two(Current)
BY Placed, Writes, Zenon DEF Place, Current

LEMMA NoReset == \A t : Plain(t) \/ Two(t) \/ t = Write(7, <<1>>) => t # Write(Mode, <<128>>)
<1>1. Write(7, <<1>>) # Write(Mode, <<128>>)
  BY DEF Write
<1>2. ASSUME NEW t, Plain(t)
      PROVE  t # Write(Mode, <<128>>)
  BY <1>2 DEF Plain, Write, TxOn
<1>3. ASSUME NEW t, Two(t)
      PROVE  t # Write(Mode, <<128>>)
  BY <1>3 DEF Two, Write
<1> QED
  BY <1>1, <1>2, <1>3

\* What a write does.
WriteEffect ==
  \/ phase # "ready" /\ UNCHANGED <<reg, phase>>
  \/ phase = "ready" /\ Current = Write(Mode, <<128>>) /\ reg' = Defaults /\ phase' = "reset"
  \/ /\ phase = "ready" /\ phase' = phase /\ Current # Write(Mode, <<128>>)
     /\ \/ \E a \in Registers, d \in Byte : Current = Write(a, <<d>>) /\ reg' = [reg EXCEPT ![a] = d]
        \/ \E d \in Byte, e \in Byte : /\ Current = Write(118, <<d, e>>)
                                       /\ reg' = [reg EXCEPT ![118] = d, ![119] = e]

LEMMA WriteStep ==
  ASSUME TypeOK, rf_spi_writem
  PROVE  WriteEffect
<1>1. CASE phase # "ready"
  BY <1>1, Zenon DEF rf_spi_writem, WriteEffect
<1>2. CASE phase = "ready" /\ Current = Write(Mode, <<128>>)
  BY <1>2, Zenon DEF rf_spi_writem, WriteEffect
<1>3. CASE phase = "ready" /\ Current # Write(Mode, <<128>>)
  <2>1. reg' = Written(Current) /\ phase' = phase
    BY <1>3, Zenon DEF rf_spi_writem
  <2>2. function # "none" /\ Current.op = "write"
    BY DEF rf_spi_writem
  <2>3. CASE \E a \in Registers, d \in Byte : Current = Write(a, <<d>>)
    <3>1. PICK a \in Registers, d \in Byte : Current = Write(a, <<d>>)
      BY <2>3
    <3>2. Written(Current) = [reg EXCEPT ![a] = d]
      BY <3>1, WrittenOne, Placed, Zenon
    <3> QED
      BY <1>3, <2>1, <3>1, <3>2, Zenon DEF WriteEffect
  <2>4. CASE \E d \in Byte, e \in Byte : Current = Write(118, <<d, e>>)
    <3>1. PICK d \in Byte, e \in Byte : Current = Write(118, <<d, e>>)
      BY <2>4
    <3>2. Written(Current) = [reg EXCEPT ![118] = d, ![119] = e]
      BY <3>1, WrittenTwo, Placed, Zenon
    <3> QED
      BY <1>3, <2>1, <3>1, <3>2, Zenon DEF WriteEffect
  <2>5. 7 \in Registers /\ 1 \in Byte
    BY DEF Registers, Gpios, Mode, Byte
  <2> QED
    BY <2>2, <2>3, <2>4, <2>5, Writing, Zenon DEF One, Two, Plain
<1> QED
  BY <1>1, <1>2, <1>3
-----------------------------------------------------------------------------
\* What the main loop is about to do in the functions the invariant follows.

LEMMA ProbePlace ==
  ASSUME TypeOK, function = "rf_probe"
  PROVE  /\ pos \in 1 .. 9 /\ Len(Program(function)) = 9
         /\ pos = 1 => Current = LeaveShutdown
         /\ pos = 2 => Current = Read(3)
         /\ pos = 3 => Current = Read(4)
         /\ pos = 4 => Current = Write(7, <<128>>)
         /\ pos = 5 => Current = AwaitInterrupt
         /\ pos = 6 => Current = Write(11, <<146>>)
         /\ pos = 7 => Current = Write(12, <<149>>)
         /\ pos = 8 => Current = Write(13, <<20>>)
         /\ pos = 9 => Current = ReadIdentity
<1>1. Len(Program(function)) = Len(rf_probe) /\ Current = rf_probe[pos]
  BY Programs, Zenon DEF Current
<1>2. pos \in 1 .. Len(rf_probe)
  BY <1>1, Placed, Zenon DEF Place
<1> QED
  BY <1>1, <1>2, Probe

Keeloqs == function = "keeloq_315_tx"

LEMMA KeeloqPlace ==
  ASSUME TypeOK, Keeloqs
  PROVE  /\ pos \in 1 .. 6 /\ Len(Program(function)) = 6
         /\ pos = 1 => Current = Write(113, <<33>>)
         /\ pos = 2 => Current = Write(117, <<71>>)
         /\ pos = 3 => Current = Write(118, <<125>>)
         /\ pos = 4 => Current = Write(119, <<0>>)
         /\ pos = 5 => Current = Write(7, <<9>>)
         /\ pos = 6 => Current = AwaitEnd
<1>1. Len(Program(function)) = Len(keeloq_315_tx) /\ Current = keeloq_315_tx[pos]
  BY Programs, Zenon DEF Current, Keeloqs
<1>2. pos \in 1 .. Len(keeloq_315_tx)
  BY <1>1, Placed, Zenon DEF Place, Keeloqs
<1> QED
  BY <1>1, <1>2, Keeloq
-----------------------------------------------------------------------------
\* The antenna switch's registers as the probe leaves them.
SwitchSet == reg[11] = 146 /\ reg[12] = 149 /\ reg[13] = 20

\* What the probe has achieved where it is: the old interrupts are cleared when it
\* asks for the reset, so the one it waits for is the end of it, and the writes
\* that follow reach the chip.
ProbeAt ==
  /\ pos > 1 => phase # "shutdown"
  /\ pos = 3 => 3 \notin status
  /\ pos = 4 => status = {}
  /\ phase = "reset" => status = {}
  /\ pos > 6 => reg[11] = 146
  /\ pos > 7 => reg[12] = 149
  /\ pos > 8 => reg[13] = 20

\* What keeloq_315_tx has written.
KeeloqAt ==
  /\ pos > 1 => reg[113] = 33
  /\ pos > 2 => reg[117] = 71
  /\ pos > 3 => reg[118] = 125
  /\ pos > 4 => reg[119] = 0

RadioInv ==
  /\ rf_initialized => chip = "si4432" /\ function # "rf_probe" /\ phase = "ready" /\ SwitchSet
  /\ chip = "none" => phase = "shutdown"
  /\ phase = "reset" => function = "rf_probe" /\ pos = 5
  /\ chip # "none" /\ function = "rf_probe" => ProbeAt
  /\ rf_initialized /\ Keeloqs => KeeloqAt

IInv == TypeOK /\ RadioInv

LEMMA InitIInv == Init => IInv
<1> SUFFICES ASSUME Init PROVE IInv
  OBVIOUS
<1>1. TypeOK
  BY DefaultsType DEF Init, TypeOK, Byte
<1>2. ~ Keeloqs
  BY Zenon DEF Init, Keeloqs
<1> QED
  BY <1>1, <1>2 DEF Init, IInv, RadioInv

\* Where a function goes on, and where it ends.
LEMMA Proceeds ==
  ASSUME TypeOK, function # "none", Advance
  PROVE  /\ Place(function', pos')
         /\ \/ function' = function /\ pos' = pos + 1 /\ (function = "rf_probe" => pos < 9)
            \/ function' \in {"none", "dump_rf_regs"} /\ (function = "rf_probe" => pos = 9)
<1>1. /\ Place(function', pos')
      /\ \/ pos < Len(Program(function)) /\ function' = function /\ pos' = pos + 1
         \/ pos = Len(Program(function)) /\ function' \in {"none", "dump_rf_regs"}
  BY Placed, Advances, Zenon
<1>2. function = "rf_probe" => Len(Program(function)) = 9
  BY ProbePlace, Zenon
<1> QED
  BY <1>1, <1>2, Zenon

LEMMA EffectTypes ==
  ASSUME WriteEffect, reg \in [Registers -> Byte], phase \in {"shutdown", "reset", "ready"}
  PROVE  reg' \in [Registers -> Byte] /\ phase' \in {"shutdown", "reset", "ready"}
<1>1. ASSUME \E a \in Registers, d \in Byte : reg' = [reg EXCEPT ![a] = d]
      PROVE  reg' \in [Registers -> Byte]
  BY <1>1
<1>2. ASSUME \E d \in Byte, e \in Byte : reg' = [reg EXCEPT ![118] = d, ![119] = e]
      PROVE  reg' \in [Registers -> Byte]
  <2>1. PICK d \in Byte, e \in Byte : reg' = [reg EXCEPT ![118] = d, ![119] = e]
    BY <1>2
  <2> QED
    BY <2>1
<1>3. ASSUME reg' = reg \/ reg' = Defaults
      PROVE  reg' \in [Registers -> Byte]
  BY <1>3, DefaultsType
<1> QED
  BY <1>1, <1>2, <1>3, Zenon DEF WriteEffect

LEMMA TypeFrom ==
  ASSUME chip' \in Chips, reg' \in [Registers -> Byte], phase' \in {"shutdown", "reset", "ready"},
         rf_initialized' \in BOOLEAN, status' \subseteq {3, 4},
         app' \in {"none", "rf_test", "rf_debug"}, Place(function', pos')
  PROVE  TypeOK'
BY Zenon DEF TypeOK, Place, Byte

LEMMA StepTypeOK == TypeOK /\ [Next]_vars => TypeOK'
<1> SUFFICES ASSUME TypeOK, [Next]_vars PROVE TypeOK'
  OBVIOUS
<1>0. /\ chip \in Chips /\ reg \in [Registers -> Byte] /\ phase \in {"shutdown", "reset", "ready"}
      /\ rf_initialized \in BOOLEAN /\ status \subseteq {3, 4}
      /\ app \in {"none", "rf_test", "rf_debug"} /\ Place(function, pos)
  BY Placed, Zenon DEF TypeOK
<1>1. ASSUME NEW a \in {"rf_test", "rf_debug"}, AppStart(a)
      PROVE  TypeOK'
  <2>1. Place(function', pos')
    BY <1>0, <1>1, Calls, Zenon DEF AppStart, Functions
  <2> QED
    BY <1>0, <1>1, <2>1, TypeFrom, Zenon DEF AppStart
<1>2. CASE AppStop
  BY <1>0, <1>2, TypeFrom, Zenon DEF AppStop
<1>3. CASE Scroll
  <2>1. Place(function', pos')
    BY <1>3, Calls, Zenon DEF Scroll, Functions
  <2> QED
    BY <1>0, <1>3, <2>1, TypeFrom, Zenon DEF Scroll
<1>4. ASSUME NEW f \in Functions, Select(f)
      PROVE  TypeOK'
  <2>1. Place(function', pos')
    BY <1>4, Calls, Zenon DEF Select
  <2> QED
    BY <1>0, <1>4, <2>1, TypeFrom, Zenon DEF Select
<1>5. CASE rf_spi_writem
  <2>1. Place(function', pos')
    BY <1>5, Proceeds, Zenon DEF rf_spi_writem
  <2>2. reg' \in [Registers -> Byte] /\ phase' \in {"shutdown", "reset", "ready"}
    BY <1>0, <1>5, WriteStep, EffectTypes, Zenon
  <2> QED
    BY <1>0, <1>5, <2>1, <2>2, TypeFrom, Zenon DEF rf_spi_writem
<1>6. CASE rf_spi_readm
  <2>1. Place(function', pos')
    BY <1>6, Proceeds, Zenon DEF rf_spi_readm
  <2>2. status' \subseteq {3, 4}
    BY <1>0, <1>6, Zenon DEF rf_spi_readm
  <2> QED
    BY <1>0, <1>6, <2>1, <2>2, TypeFrom, Zenon DEF rf_spi_readm
<1>7. CASE rf_config_gpios
  <2>1. Place(function', pos')
    BY <1>7, Proceeds, Zenon DEF rf_config_gpios
  <2>2. status' \subseteq {3, 4} /\ phase' \in {"shutdown", "reset", "ready"}
    BY <1>0, <1>7, Zenon DEF rf_config_gpios
  <2> QED
    BY <1>0, <1>7, <2>1, <2>2, TypeFrom, Zenon DEF rf_config_gpios
<1>8. CASE WaitForInterrupt
  <2>1. Place(function', pos')
    BY <1>8, Proceeds, Zenon DEF WaitForInterrupt
  <2> QED
    BY <1>0, <1>8, <2>1, TypeFrom, Zenon DEF WaitForInterrupt
<1>9. CASE IdentifyChip
  <2>1. Place(function', pos')
    BY <1>9, Proceeds, Zenon DEF IdentifyChip
  <2>2. rf_initialized' \in BOOLEAN
    BY <1>9 DEF IdentifyChip
  <2> QED
    BY <1>0, <1>9, <2>1, <2>2, TypeFrom, Zenon DEF IdentifyChip
<1>10. CASE WaitForEndOfPacket
  <2>1. Place(function', pos')
    BY <1>10, Proceeds, Zenon DEF WaitForEndOfPacket
  <2> QED
    BY <1>0, <1>10, <2>1, TypeFrom, Zenon DEF WaitForEndOfPacket
<1>11. CASE ChipReady
  <2>1. status' \subseteq {3, 4} /\ phase' \in {"shutdown", "reset", "ready"}
    BY <1>0, <1>11, Zenon DEF ChipReady
  <2> QED
    BY <1>0, <1>11, <2>1, TypeFrom, Zenon DEF ChipReady
<1>12. CASE PacketSent
  <2>1. reg' \in [Registers -> Byte]
    <3>1. reg' = [reg EXCEPT ![7] = 1]
      BY <1>12, Zenon DEF PacketSent, Mode, Idle
    <3>2. reg \in [Registers -> Byte]
      BY <1>0, Zenon
    <3>3. 1 \in Byte
      BY DEF Byte
    <3> QED
      BY <3>1, <3>2, <3>3
  <2> QED
    BY <1>0, <1>12, <2>1, TypeFrom, Zenon DEF PacketSent
<1>13. CASE UNCHANGED vars
  BY <1>0, <1>13, TypeFrom, Zenon DEF vars
<1> QED
  BY <1>1, <1>2, <1>3, <1>4, <1>5, <1>6, <1>7, <1>8, <1>9, <1>10, <1>11, <1>12, <1>13, Zenon DEF Next, Perform

\* Every register is given a byte, and the main loop stays inside its functions.
THEOREM TypeCorrect == Spec => []TypeOK
<1>1. Init => TypeOK
  BY InitIInv DEF IInv
<1> QED
  BY <1>1, StepTypeOK, PTL DEF Spec
-----------------------------------------------------------------------------
\* What a write to a ready chip does, by its form and by its function.

LEMMA Numbered == Registers = {7, 11, 12, 13, 113, 117, 118, 119}
BY DEF Registers, Gpios, Mode, Modulation, Band, Carrier1, Carrier0

LEMMA WriteOfOne ==
  ASSUME TypeOK, rf_spi_writem, NEW a \in Registers, NEW d \in Byte, Current = Write(a, <<d>>),
         phase = "ready", a # 7 \/ d # 128
  PROVE  reg' = [reg EXCEPT ![a] = d] /\ phase' = phase
<1>1. Write(a, <<d>>) # Write(7, <<128>>)
  BY DEF Write
<1>2. Current # Write(Mode, <<128>>)
  BY <1>1, Zenon DEF Mode
<1>3. reg' = Written(Current) /\ phase' = phase
  BY <1>2, Zenon DEF rf_spi_writem
<1>4. Written(Write(a, <<d>>)) = [reg EXCEPT ![a] = d]
  BY WrittenOne, Placed, Zenon
<1> QED
  BY <1>3, <1>4, Zenon

LEMMA WriteOfTwo ==
  ASSUME TypeOK, rf_spi_writem, NEW d \in Byte, NEW e \in Byte, Current = Write(118, <<d, e>>),
         phase = "ready"
  PROVE  reg' = [reg EXCEPT ![118] = d, ![119] = e] /\ phase' = phase
<1>1. Write(118, <<d, e>>) # Write(7, <<128>>)
  BY DEF Write
<1>2. Current # Write(Mode, <<128>>)
  BY <1>1, Zenon DEF Mode
<1>3. reg' = Written(Current) /\ phase' = phase
  BY <1>2, Zenon DEF rf_spi_writem
<1>4. Written(Write(118, <<d, e>>)) = [reg EXCEPT ![118] = d, ![119] = e]
  BY WrittenTwo, Placed, Zenon
<1> QED
  BY <1>3, <1>4, Zenon

\* Outside the probe.
LEMMA OtherWrites ==
  ASSUME TypeOK, rf_spi_writem, function # "rf_probe"
  PROVE  /\ phase' = phase
         /\ \A g \in {11, 12, 13} : reg'[g] = reg[g]
         /\ reg'[7] = reg[7] \/ reg'[7] = 9 \/ function = "unmod_carrier_off"
<1>1. CASE phase # "ready"
  BY <1>1, Zenon DEF rf_spi_writem
<1>2. CASE phase = "ready"
  <2>1. reg \in [Registers -> Byte]
    BY Placed
  <2>2. function # "none" /\ Current.op = "write"
    BY Zenon DEF rf_spi_writem
  <2>3. CASE Current = Write(7, <<1>>) /\ function = "unmod_carrier_off"
    <3>1. 7 \in Registers /\ 1 \in Byte
      BY DEF Registers, Mode, Byte
    <3>2. 1 # 128
      OBVIOUS
    <3>3. reg' = [reg EXCEPT ![7] = 1] /\ phase' = phase
      BY <1>2, <2>3, <3>1, <3>2, WriteOfOne, Zenon
    <3>4. \A g \in {11, 12, 13} : reg'[g] = reg[g]
      BY <2>1, <3>3, Numbered
    <3> QED
      BY <2>3, <3>3, <3>4, Zenon
  <2>4. CASE Plain(Current)
    <3>1. PICK a \in Registers \ Gpios, d \in Byte :
            (a = Mode => d = TxOn) /\ Current = Write(a, <<d>>)
      BY <2>4, Zenon DEF Plain
    <3>2. a \in Registers /\ (a = 7 => d = 9) /\ a \notin {11, 12, 13}
      BY <3>1 DEF Gpios, Mode, TxOn
    <3>3. reg' = [reg EXCEPT ![a] = d] /\ phase' = phase
      BY <1>2, <3>1, <3>2, WriteOfOne
    <3> QED
      BY <2>1, <3>2, <3>3, Numbered
  <2>5. CASE Two(Current)
    <3>1. PICK d \in Byte, e \in Byte : Current = Write(118, <<d, e>>)
      BY <2>5, Zenon DEF Two
    <3>2. reg' = [reg EXCEPT ![118] = d, ![119] = e] /\ phase' = phase
      BY <1>2, <3>1, WriteOfTwo, Zenon
    <3>3. reg'[7] = reg[7] /\ reg'[11] = reg[11] /\ reg'[12] = reg[12] /\ reg'[13] = reg[13]
      BY <2>1, <3>2, Numbered
    <3> QED
      BY <3>2, <3>3
  <2> QED
    BY <2>2, <2>3, <2>4, <2>5, Writing, Zenon
<1> QED
  BY <1>1, <1>2
-----------------------------------------------------------------------------
\* The invariant, step by step.

\* The writes of keeloq_315_tx, of a radio that is ready.
LEMMA KeeloqWrites ==
  ASSUME TypeOK, rf_spi_writem, Keeloqs, phase = "ready"
  PROVE  /\ pos \in 1 .. 5
         /\ pos = 1 => reg' = [reg EXCEPT ![113] = 33]
         /\ pos = 2 => reg' = [reg EXCEPT ![117] = 71]
         /\ pos = 3 => reg' = [reg EXCEPT ![118] = 125]
         /\ pos = 4 => reg' = [reg EXCEPT ![119] = 0]
         /\ pos = 5 => reg' = [reg EXCEPT ![7] = 9]
<1>1. Current.op = "write"
  BY Zenon DEF rf_spi_writem
<1>2. pos # 6
  BY <1>1, KeeloqPlace, Operations, Zenon
<1>3. pos \in 1 .. 6
  BY KeeloqPlace, Zenon
<1>4. pos \in 1 .. 5
  BY <1>2, <1>3
<1>5. ASSUME NEW a \in {7, 113, 117, 118, 119}, NEW d \in {0, 9, 33, 71, 125}, Current = Write(a, <<d>>)
      PROVE  reg' = [reg EXCEPT ![a] = d]
  <2>1. a \in Registers /\ d \in Byte /\ d # 128
    BY Numbered DEF Byte
  <2> QED
    BY <1>5, <2>1, WriteOfOne
<1>6. pos = 1 => reg' = [reg EXCEPT ![113] = 33]
  BY <1>5, KeeloqPlace
<1>7. pos = 2 => reg' = [reg EXCEPT ![117] = 71]
  BY <1>5, KeeloqPlace
<1>8. pos = 3 => reg' = [reg EXCEPT ![118] = 125]
  BY <1>5, KeeloqPlace
<1>9. pos = 4 => reg' = [reg EXCEPT ![119] = 0]
  BY <1>5, KeeloqPlace
<1>10. pos = 5 => reg' = [reg EXCEPT ![7] = 9]
  BY <1>5, KeeloqPlace
<1> QED
  BY <1>4, <1>6, <1>7, <1>8, <1>9, <1>10

\* The writes of the probe: the reset, and the three of the antenna switch.
LEMMA ProbeWrites ==
  ASSUME TypeOK, rf_spi_writem, function = "rf_probe"
  PROVE  /\ pos \in {4, 6, 7, 8}
         /\ phase # "ready" => UNCHANGED <<reg, phase>>
         /\ phase = "ready" /\ pos = 4 => phase' = "reset"
         /\ phase = "ready" /\ pos = 6 => phase' = phase /\ reg' = [reg EXCEPT ![11] = 146]
         /\ phase = "ready" /\ pos = 7 => phase' = phase /\ reg' = [reg EXCEPT ![12] = 149]
         /\ phase = "ready" /\ pos = 8 => phase' = phase /\ reg' = [reg EXCEPT ![13] = 20]
<1>1. Current.op = "write"
  BY Zenon DEF rf_spi_writem
<1>2. pos \notin {1, 2, 3, 5, 9}
  BY <1>1, ProbePlace, Operations, Zenon
<1>3. pos \in {4, 6, 7, 8}
  BY <1>2, ProbePlace
<1>4. phase # "ready" => UNCHANGED <<reg, phase>>
  BY Zenon DEF rf_spi_writem
<1>5. phase = "ready" /\ pos = 4 => phase' = "reset"
  BY ProbePlace, Zenon DEF rf_spi_writem, Mode
<1>6. {20, 146, 149} \subseteq Byte /\ {11, 12, 13} \subseteq Registers /\ 11 # 7 /\ 12 # 7 /\ 13 # 7
  BY Numbered DEF Byte
<1>7. phase = "ready" /\ pos = 6 => phase' = phase /\ reg' = [reg EXCEPT ![11] = 146]
  BY <1>6, ProbePlace, WriteOfOne, Zenon
<1>8. phase = "ready" /\ pos = 7 => phase' = phase /\ reg' = [reg EXCEPT ![12] = 149]
  BY <1>6, ProbePlace, WriteOfOne, Zenon
<1>9. phase = "ready" /\ pos = 8 => phase' = phase /\ reg' = [reg EXCEPT ![13] = 20]
  BY <1>6, ProbePlace, WriteOfOne, Zenon
<1> QED
  BY <1>3, <1>4, <1>5, <1>7, <1>8, <1>9, Zenon

LEMMA WriteKeeps ==
  ASSUME TypeOK, RadioInv, rf_spi_writem
  PROVE  RadioInv'
<1>1. reg \in [Registers -> Byte] /\ phase \in {"shutdown", "reset", "ready"}
  BY Placed DEF TypeOK
<1>2. function # "none" /\ Advance /\ UNCHANGED <<chip, status, rf_initialized>>
  BY Zenon DEF rf_spi_writem
<1>3. \/ function' = function /\ pos' = pos + 1 /\ (function = "rf_probe" => pos < 9)
      \/ function' \in {"none", "dump_rf_regs"} /\ (function = "rf_probe" => pos = 9)
  BY <1>2, Proceeds, Zenon
<1>4. CASE function = "rf_probe"
  <2>1. pos \in {4, 6, 7, 8}
    BY <1>4, ProbeWrites, Zenon
  <2>2. ~ rf_initialized /\ ~ rf_initialized'
    BY <1>2, <1>4, Zenon DEF RadioInv
  <2>3. function' = "rf_probe" /\ pos' = pos + 1
    BY <1>3, <1>4, <2>1
  <2>4. CASE phase # "ready"
    <3>1. reg' = reg /\ phase' = phase
      BY <1>4, <2>4, ProbeWrites, Zenon
    <3> QED
      BY <1>1, <1>2, <1>4, <2>1, <2>2, <2>3, <2>4, <3>1 DEF RadioInv, ProbeAt
  <2>5. CASE phase = "ready" /\ pos = 4
    <3>1. phase' = "reset"
      BY <1>4, <2>5, ProbeWrites, Zenon
    <3> QED
      BY <1>1, <1>2, <1>4, <2>2, <2>3, <2>5, <3>1 DEF RadioInv, ProbeAt
  <2>6. CASE phase = "ready" /\ pos = 6
    <3>1. phase' = phase /\ reg' = [reg EXCEPT ![11] = 146]
      BY <1>4, <2>6, ProbeWrites, Zenon
    <3>2. reg'[11] = 146
      BY <1>1, <3>1, Numbered
    <3> QED
      BY <1>1, <1>2, <1>4, <2>2, <2>3, <2>6, <3>1, <3>2 DEF RadioInv, ProbeAt
  <2>7. CASE phase = "ready" /\ pos = 7
    <3>1. phase' = phase /\ reg' = [reg EXCEPT ![12] = 149]
      BY <1>4, <2>7, ProbeWrites, Zenon
    <3>2. reg'[11] = reg[11] /\ reg'[12] = 149
      BY <1>1, <3>1, Numbered
    <3> QED
      BY <1>1, <1>2, <1>4, <2>2, <2>3, <2>7, <3>1, <3>2 DEF RadioInv, ProbeAt
  <2>8. CASE phase = "ready" /\ pos = 8
    <3>1. phase' = phase /\ reg' = [reg EXCEPT ![13] = 20]
      BY <1>4, <2>8, ProbeWrites, Zenon
    <3>2. reg'[11] = reg[11] /\ reg'[12] = reg[12] /\ reg'[13] = 20
      BY <1>1, <3>1, Numbered
    <3> QED
      BY <1>1, <1>2, <1>4, <2>2, <2>3, <2>8, <3>1, <3>2 DEF RadioInv, ProbeAt
  <2> QED
    BY <2>1, <2>4, <2>5, <2>6, <2>7, <2>8
<1>5. CASE function # "rf_probe"
  <2>1. phase' = phase /\ reg'[11] = reg[11] /\ reg'[12] = reg[12] /\ reg'[13] = reg[13]
    BY <1>5, OtherWrites
  <2>2. function' # "rf_probe"
    BY <1>3, <1>5
  <2>3. ASSUME rf_initialized, Keeloqs, function' = function, pos' = pos + 1
        PROVE  KeeloqAt'
    <3>1. phase = "ready" /\ KeeloqAt
      BY <2>3, Zenon DEF RadioInv
    <3>2. pos \in 1 .. 5
      BY <2>3, <3>1, KeeloqWrites, Zenon
    <3>3. CASE pos = 1
      <4>1. reg' = [reg EXCEPT ![113] = 33]
        BY <2>3, <3>1, <3>3, KeeloqWrites, Zenon
      <4>2. reg'[113] = 33
        BY <1>1, <4>1, Numbered
      <4> QED
        BY <2>3, <3>3, <4>2 DEF KeeloqAt
    <3>4. CASE pos = 2
      <4>1. reg' = [reg EXCEPT ![117] = 71]
        BY <2>3, <3>1, <3>4, KeeloqWrites, Zenon
      <4>2. reg'[113] = reg[113] /\ reg'[117] = 71
        BY <1>1, <4>1, Numbered
      <4> QED
        BY <2>3, <3>1, <3>4, <4>2 DEF KeeloqAt
    <3>5. CASE pos = 3
      <4>1. reg' = [reg EXCEPT ![118] = 125]
        BY <2>3, <3>1, <3>5, KeeloqWrites, Zenon
      <4>2. reg'[113] = reg[113] /\ reg'[117] = reg[117] /\ reg'[118] = 125
        BY <1>1, <4>1, Numbered
      <4> QED
        BY <2>3, <3>1, <3>5, <4>2 DEF KeeloqAt
    <3>6. CASE pos = 4
      <4>1. reg' = [reg EXCEPT ![119] = 0]
        BY <2>3, <3>1, <3>6, KeeloqWrites, Zenon
      <4>2. reg'[113] = reg[113] /\ reg'[117] = reg[117] /\ reg'[118] = reg[118] /\ reg'[119] = 0
        BY <1>1, <4>1, Numbered
      <4> QED
        BY <2>3, <3>1, <3>6, <4>2 DEF KeeloqAt
    <3>7. CASE pos = 5
      <4>1. reg' = [reg EXCEPT ![7] = 9]
        BY <2>3, <3>1, <3>7, KeeloqWrites, Zenon
      <4>2. reg'[113] = reg[113] /\ reg'[117] = reg[117] /\ reg'[118] = reg[118] /\ reg'[119] = reg[119]
        BY <1>1, <4>1, Numbered
      <4> QED
        BY <2>3, <3>1, <3>7, <4>2 DEF KeeloqAt
    <3> QED
      BY <3>2, <3>3, <3>4, <3>5, <3>6, <3>7
  <2>4. Keeloqs' => Keeloqs /\ function' = function /\ pos' = pos + 1
    BY <1>3, Zenon DEF Keeloqs
  <2> QED
    BY <1>2, <1>5, <2>1, <2>2, <2>3, <2>4 DEF RadioInv, SwitchSet
<1> QED
  BY <1>4, <1>5

\* What the probe does besides writing, and where.
LEMMA ProbeOps ==
  ASSUME TypeOK, function = "rf_probe"
  PROVE  /\ Current.op = "read" => \/ pos = 2 /\ Current.addr = 3
                                   \/ pos = 3 /\ Current.addr = 4
         /\ Current.op = "leave_shutdown" => pos = 1
         /\ Current.op = "await_interrupt" => pos = 5
         /\ Current.op = "identify" => pos = 9
         /\ Current.op # "await_end"
<1>1. pos \in {1, 2, 3, 4, 5, 6, 7, 8, 9}
  BY ProbePlace
<1>2. /\ pos = 1 => Current.op = "leave_shutdown"
      /\ pos = 2 => Current.op = "read" /\ Current.addr = 3
      /\ pos = 3 => Current.op = "read" /\ Current.addr = 4
      /\ pos \in {4, 6, 7, 8} => Current.op = "write"
      /\ pos = 5 => Current.op = "await_interrupt"
      /\ pos = 9 => Current.op = "identify"
  BY ProbePlace, Operations
<1> QED
  BY <1>1, <1>2, Zenon

\* No other function reads the chip's identity.
LEMMA OnlyProbeIdentifies ==
  ASSUME TypeOK, function # "none", Current.op = "identify"
  PROVE  function = "rf_probe"
<1>1. function \in Functions /\ pos \in 1 .. Len(Program(function))
  BY Placed, Zenon DEF Place
<1>2. CASE function = "dump_rf_regs"
  <2>1. pos \in 1 .. Len(dump_rf_regs) /\ Current = dump_rf_regs[pos]
    BY <1>1, <1>2, Programs, Zenon DEF Current
  <2>2. Current \in {Read(3), Read(4)}
    BY <2>1, Dump
  <2> QED
    BY <2>2, Operations
<1>3. CASE function = "keeloq_315_tx"
  <2>1. pos \in 1 .. Len(keeloq_315_tx) /\ Current = keeloq_315_tx[pos]
    BY <1>1, <1>3, Programs, Zenon DEF Current
  <2>2. \/ Current \in {Write(113, <<33>>), Write(117, <<71>>), Write(118, <<125>>), Write(119, <<0>>), Write(7, <<9>>)}
        \/ Current = AwaitEnd
    BY <2>1, Keeloq
  <2> QED
    BY <2>2, Operations
<1>4. CASE function = "unmod_carrier_315"
  <2>1. pos \in 1 .. Len(unmod_carrier(315)) /\ Current = unmod_carrier(315)[pos]
    BY <1>1, <1>4, Programs, Zenon DEF Current
  <2>2. Current \in {Write(117, <<7>>), Write(118, <<0, 125>>), Write(113, <<0>>), Write(7, <<9>>), Read(7)}
    BY <2>1, Carrier315
  <2> QED
    BY <2>2, Operations
<1>5. CASE function = "unmod_carrier_434"
  <2>1. pos \in 1 .. Len(unmod_carrier(434)) /\ Current = unmod_carrier(434)[pos]
    BY <1>1, <1>5, Programs, Zenon DEF Current
  <2>2. Current \in {Write(117, <<19>>), Write(118, <<0, 100>>), Write(113, <<0>>), Write(7, <<9>>), Read(7)}
    BY <2>1, Carrier434
  <2> QED
    BY <2>2, Operations
<1>6. CASE function = "unmod_carrier_off"
  <2>1. pos \in 1 .. Len(unmod_carrier_off) /\ Current = unmod_carrier_off[pos]
    BY <1>1, <1>6, Programs, Zenon DEF Current
  <2>2. Current = Write(7, <<1>>)
    BY <2>1, CarrierOff
  <2> QED
    BY <2>2, Operations
<1> QED
  BY <1>1, <1>2, <1>3, <1>4, <1>5, <1>6, Zenon DEF Functions

\* A step of another function that leaves the registers alone.
LEMMA OthersKeep ==
  ASSUME TypeOK, RadioInv, function # "none", function # "rf_probe", Current.op # "write", Advance,
         UNCHANGED <<chip, reg, rf_initialized>>, phase' = phase \/ (phase' = "ready" /\ chip # "none")
  PROVE  RadioInv'
<1>1. \/ function' = function /\ pos' = pos + 1
      \/ function' \in {"none", "dump_rf_regs"}
  BY Proceeds, Zenon
<1>2. function' # "rf_probe"
  BY <1>1
<1>3. Keeloqs' => Keeloqs /\ pos' = pos + 1
  BY <1>1, Zenon DEF Keeloqs
<1>4. Keeloqs => pos \in Int
  BY KeeloqPlace
<1>5. rf_initialized /\ Keeloqs' => KeeloqAt'
  <2> SUFFICES ASSUME rf_initialized, Keeloqs' PROVE KeeloqAt'
    OBVIOUS
  <2>1. Keeloqs /\ pos' = pos + 1 /\ pos \in Int /\ KeeloqAt
    BY <1>3, <1>4, Zenon DEF RadioInv
  <2>2. pos = 6
    <3>1. pos \in {1, 2, 3, 4, 5, 6}
      BY <2>1, KeeloqPlace
    <3> QED
      BY <2>1, <3>1, KeeloqPlace, Operations
  <2>3. reg' = reg
    OBVIOUS
  <2> QED
    BY <2>1, <2>2, <2>3 DEF KeeloqAt
<1> QED
  BY <1>2, <1>5 DEF RadioInv, SwitchSet

LEMMA ReadKeeps ==
  ASSUME TypeOK, RadioInv, rf_spi_readm
  PROVE  RadioInv'
<1>1. /\ function # "none" /\ Current.op = "read" /\ Advance
      /\ status' = status \ {Current.addr} /\ UNCHANGED <<chip, reg, phase, rf_initialized>>
  BY Zenon DEF rf_spi_readm
<1>2. CASE function = "rf_probe"
  <2>1. \/ pos = 2 /\ Current.addr = 3
        \/ pos = 3 /\ Current.addr = 4
    BY <1>1, <1>2, ProbeOps, Zenon
  <2>2. function' = function /\ pos' = pos + 1
    BY <1>1, <2>1, <1>2, Proceeds
  <2>3. status \subseteq {3, 4}
    BY DEF TypeOK
  <2>4. ~ Keeloqs'
    BY <1>2, <2>2, Zenon DEF Keeloqs
  <2>5. UNCHANGED <<chip, reg, phase, rf_initialized>>
    BY <1>1, Zenon
  <2>6. CASE pos = 2
    <3>1. status' = status \ {3} /\ pos' = 3
      BY <1>1, <2>1, <2>2, <2>6
    <3> QED
      BY <1>2, <2>2, <2>4, <2>5, <2>6, <3>1 DEF RadioInv, ProbeAt
  <2>7. CASE pos = 3
    <3>1. status' = status \ {4} /\ pos' = 4
      BY <1>1, <2>1, <2>2, <2>7
    <3>2. 3 \notin status => status' = {}
      BY <2>3, <3>1
    <3> QED
      BY <1>2, <2>2, <2>4, <2>5, <2>7, <3>1, <3>2 DEF RadioInv, ProbeAt
  <2> QED
    BY <2>1, <2>6, <2>7
<1>3. CASE function # "rf_probe"
  BY <1>1, <1>3, OthersKeep, Zenon
<1> QED
  BY <1>2, <1>3

LEMMA PowerKeeps ==
  ASSUME TypeOK, RadioInv, rf_config_gpios
  PROVE  RadioInv'
<1>1. /\ function # "none" /\ Current.op = "leave_shutdown" /\ Advance
      /\ \/ phase = "shutdown" /\ chip # "none" /\ phase' = "ready"
         \/ ~ (phase = "shutdown" /\ chip # "none") /\ phase' = phase
      /\ UNCHANGED <<chip, reg, rf_initialized>>
  BY Zenon DEF rf_config_gpios
<1>2. CASE function = "rf_probe"
  <2>1. pos = 1
    BY <1>1, <1>2, ProbeOps, Zenon
  <2>2. function' = function /\ pos' = 2
    <3>1. function # "none" /\ Advance
      BY <1>1, Zenon
    <3> QED
      BY <3>1, <2>1, <1>2, Proceeds
  <2>3. ~ Keeloqs'
    BY <1>2, <2>2, Zenon DEF Keeloqs
  <2>4. \/ phase = "shutdown" /\ chip # "none" /\ phase' = "ready"
        \/ ~ (phase = "shutdown" /\ chip # "none") /\ phase' = phase
    BY <1>1, Zenon
  <2>5. UNCHANGED <<chip, reg, rf_initialized>>
    BY <1>1, Zenon
  <2> QED
    BY <1>2, <2>1, <2>2, <2>3, <2>4, <2>5 DEF RadioInv, ProbeAt
<1>3. CASE function # "rf_probe"
  BY <1>1, <1>3, OthersKeep, Zenon
<1> QED
  BY <1>2, <1>3

LEMMA InterruptKeeps ==
  ASSUME TypeOK, RadioInv, WaitForInterrupt
  PROVE  RadioInv'
<1>1. /\ function # "none" /\ Current.op = "await_interrupt" /\ Advance
      /\ status # {} /\ UNCHANGED <<chip, reg, phase, status, rf_initialized>>
  BY Zenon DEF WaitForInterrupt
<1>2. CASE function = "rf_probe"
  <2>1. pos = 5
    BY <1>1, <1>2, ProbeOps, Zenon
  <2>2. Advance /\ function # "none"
    BY <1>1, Zenon
  <2>3. function' = function /\ pos' = 6
    BY <2>1, <2>2, <1>2, Proceeds
  <2>4. ~ Keeloqs'
    BY <1>2, <2>3, Zenon DEF Keeloqs
  <2>5. status # {} /\ UNCHANGED <<chip, reg, phase, status, rf_initialized>>
    BY <1>1, Zenon
  <2> QED
    BY <1>2, <2>1, <2>3, <2>4, <2>5 DEF RadioInv, ProbeAt
<1>3. CASE function # "rf_probe"
  BY <1>1, <1>3, OthersKeep, Zenon
<1> QED
  BY <1>2, <1>3

LEMMA IdentifyKeeps ==
  ASSUME TypeOK, RadioInv, IdentifyChip
  PROVE  RadioInv'
<1>1. /\ function # "none" /\ Current.op = "identify" /\ Advance
      /\ rf_initialized' = (chip = "si4432") /\ UNCHANGED <<chip, reg, phase>>
  BY DEF IdentifyChip
<1>2. function = "rf_probe"
  BY <1>1, OnlyProbeIdentifies, Zenon
<1>3. pos = 9
  BY <1>1, <1>2, ProbeOps, Zenon
<1>4. function' \in {"none", "dump_rf_regs"}
  BY <1>1, <1>2, <1>3, Proceeds
<1>5. ~ Keeloqs'
  BY <1>4, Zenon DEF Keeloqs
<1>6. phase \in {"shutdown", "reset", "ready"}
  BY DEF TypeOK
<1>7. UNCHANGED <<chip, reg, phase>> /\ (rf_initialized' => chip = "si4432")
  BY <1>1, Zenon
<1> QED
  BY <1>2, <1>3, <1>4, <1>5, <1>6, <1>7 DEF RadioInv, ProbeAt, SwitchSet

LEMMA EndKeeps ==
  ASSUME TypeOK, RadioInv, WaitForEndOfPacket
  PROVE  RadioInv'
<1>1. /\ function # "none" /\ Current.op = "await_end" /\ Advance
      /\ UNCHANGED <<chip, reg, phase, rf_initialized>>
  BY Zenon DEF WaitForEndOfPacket
<1>2. function # "rf_probe"
  BY <1>1, ProbeOps, Zenon
<1> QED
  BY <1>1, <1>2, OthersKeep, Zenon

LEMMA ReadyKeeps ==
  ASSUME TypeOK, RadioInv, ChipReady
  PROVE  RadioInv'
BY DEF ChipReady, RadioInv, ProbeAt, SwitchSet

\* The other steps of the main loop, and the chip's.
LEMMA StepRadioInv == IInv /\ [Next]_vars => RadioInv'
<1> SUFFICES ASSUME TypeOK, RadioInv, [Next]_vars PROVE RadioInv'
  BY DEF IInv
<1>0. reg \in [Registers -> Byte]
  BY Placed
<1>1. ASSUME NEW a \in {"rf_test", "rf_debug"}, AppStart(a)
      PROVE  RadioInv'
  <2>1. \/ function' = function /\ pos' = pos
        \/ ~ rf_initialized /\ function' = "rf_probe" /\ pos' = 1
        \/ function' = "dump_rf_regs"
    BY <1>1, Zenon DEF AppStart, Call
  <2>2. function = "none" /\ UNCHANGED <<chip, reg, phase, status, rf_initialized>>
    BY <1>1, Zenon DEF AppStart
  <2>3. ~ Keeloqs'
    BY <2>1, <2>2, Zenon DEF Keeloqs
  <2> QED
    BY <2>1, <2>2, <2>3 DEF RadioInv, ProbeAt, SwitchSet
<1>2. CASE AppStop
  BY <1>2, Zenon DEF AppStop, RadioInv, ProbeAt, SwitchSet, KeeloqAt, Keeloqs
<1>3. CASE Scroll
  <2>1. function' = "dump_rf_regs" /\ function = "none" /\ UNCHANGED <<chip, reg, phase, status, rf_initialized>>
    BY <1>3, Zenon DEF Scroll, Call
  <2>2. ~ Keeloqs'
    BY <2>1, Zenon DEF Keeloqs
  <2> QED
    BY <2>1, <2>2 DEF RadioInv, SwitchSet
<1>4. ASSUME NEW f \in Functions \ {"rf_probe", "dump_rf_regs"}, Select(f)
      PROVE  RadioInv'
  <2>1. /\ function' # "rf_probe" /\ function = "none" /\ pos' = 1
        /\ UNCHANGED <<chip, reg, phase, status, rf_initialized>>
    BY <1>4, Zenon DEF Select, Call
  <2>2. KeeloqAt'
    BY <2>1 DEF KeeloqAt
  <2> QED
    BY <2>1, <2>2 DEF RadioInv, SwitchSet
<1>5. CASE rf_spi_writem
  BY <1>5, WriteKeeps
<1>6. CASE rf_spi_readm
  BY <1>6, ReadKeeps
<1>7. CASE rf_config_gpios
  BY <1>7, PowerKeeps
<1>8. CASE WaitForInterrupt
  BY <1>8, InterruptKeeps
<1>9. CASE IdentifyChip
  BY <1>9, IdentifyKeeps
<1>10. CASE WaitForEndOfPacket
  BY <1>10, EndKeeps
<1>11. CASE ChipReady
  BY <1>11, ReadyKeeps
<1>12. CASE PacketSent
  <2>1. reg' = [reg EXCEPT ![7] = 1] /\ UNCHANGED <<chip, phase, status, rf_initialized, function, pos>>
    BY <1>12, Zenon DEF PacketSent, Mode, Idle
  <2>2. \A a \in {11, 12, 13, 113, 117, 118, 119} : reg'[a] = reg[a]
    BY <1>0, <2>1, Numbered
  <2>3. Keeloqs' = Keeloqs
    BY <2>1, Zenon DEF Keeloqs
  <2> QED
    BY <2>1, <2>2, <2>3 DEF RadioInv, SwitchSet, ProbeAt, KeeloqAt
<1>13. CASE UNCHANGED vars
  BY <1>13, Zenon DEF vars, RadioInv, ProbeAt, SwitchSet, KeeloqAt, Keeloqs
<1> QED
  BY <1>1, <1>2, <1>3, <1>4, <1>5, <1>6, <1>7, <1>8, <1>9, <1>10, <1>11, <1>12, <1>13, Zenon DEF Next, Perform
LEMMA StepIInv == IInv /\ [Next]_vars => IInv'
BY StepTypeOK, StepRadioInv DEF IInv

LEMMA Invariance == Spec => []IInv
BY InitIInv, StepIInv, PTL DEF Spec
-----------------------------------------------------------------------------
\* An initialised radio has its antenna switch set up, whatever interrupts were
\* pending when it was probed.
THEOREM SwitchReady == Spec => []SwitchSetUp
<1>1. IInv => SwitchSetUp
  BY DEF IInv, RadioInv, SwitchSet, SwitchSetUp
<1> QED
  BY <1>1, Invariance, PTL

\* keeloq_315_tx sends on 315 MHz, whatever the radio was tuned to before.
THEOREM PacketOn315 == Spec => []SendsOn315
<1>1. ASSUME IInv, rf_initialized, function = "keeloq_315_tx", pos = Len(keeloq_315_tx)
      PROVE  Tuned(315) /\ reg[Modulation] = Fifo
  <2>1. pos = 6 /\ KeeloqAt
    BY <1>1, Keeloq DEF IInv, RadioInv, Keeloqs
  <2>2. reg[113] = 33 /\ reg[117] = 71 /\ reg[118] = 125 /\ reg[119] = 0
    BY <2>1 DEF KeeloqAt
  <2>3. hbsel(315) = 0
    BY DEF hbsel
  <2>4. fb(315) = 7
    BY <2>3 DEF fb
  <2>5. fc(315) = 32000
    BY <2>3, <2>4 DEF fc
  <2> QED
    BY <2>2, <2>3, <2>4, <2>5 DEF Tuned, Band, Carrier1, Carrier0, Modulation, Fifo
<1>2. IInv => SendsOn315
  BY <1>1 DEF SendsOn315
<1> QED
  BY <1>2, Invariance, PTL

CarrierKept ==
  rf_initialized /\ reg[Mode] = TxOn /\ reg[Modulation] = 0 =>
    \/ reg'[Mode] = TxOn /\ phase' = "ready"
    \/ function = "unmod_carrier_off"

LEMMA StepCarrierKept == IInv /\ [Next]_vars => CarrierKept
<1> SUFFICES ASSUME IInv, [Next]_vars, rf_initialized, reg[7] = 9, reg[113] = 0,
                    function # "unmod_carrier_off"
             PROVE  reg'[7] = 9 /\ phase' = "ready"
  BY DEF CarrierKept, Mode, TxOn, Modulation
<1>1. phase = "ready" /\ function # "rf_probe" /\ TypeOK
  BY DEF IInv, RadioInv
<1>2. CASE UNCHANGED <<reg, phase>>
  BY <1>1, <1>2
<1>3. CASE rf_spi_writem
  BY <1>1, <1>3, OtherWrites
<1>4. CASE rf_config_gpios
  BY <1>1, <1>4 DEF rf_config_gpios
<1>5. CASE ChipReady
  BY <1>1, <1>5 DEF ChipReady
<1>6. CASE PacketSent
  BY <1>6 DEF PacketSent, Modulation, Fifo
<1>7. CASE \/ \E a \in {"rf_test", "rf_debug"} : AppStart(a)
           \/ AppStop \/ Scroll
           \/ \E f \in Functions \ {"rf_probe", "dump_rf_regs"} : Select(f)
           \/ rf_spi_readm \/ WaitForInterrupt \/ IdentifyChip \/ WaitForEndOfPacket
           \/ UNCHANGED vars
  <2>1. UNCHANGED <<reg, phase>>
    BY <1>7, Zenon DEF AppStart, AppStop, Scroll, Select, rf_spi_readm, WaitForInterrupt,
       IdentifyChip, WaitForEndOfPacket, vars
  <2> QED
    BY <1>2, <2>1
<1> QED
  BY <1>3, <1>4, <1>5, <1>6, <1>7, Zenon DEF Next, Perform

\* Nothing but unmod_carrier_off and a packet takes an unmodulated carrier off the
\* air: in particular no application's start resets the radio.
THEOREM CarrierStays == Spec => CarrierStaysOn
<1>1. IInv /\ [Next]_vars => [CarrierKept]_vars
  BY StepCarrierKept
<1> QED
  BY <1>1, Invariance, PTL DEF Spec, CarrierStaysOn, CarrierKept
=============================================================================
