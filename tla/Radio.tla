------------------------------- MODULE Radio -------------------------------
(***************************************************************************)
(* The radio driver si4432.cpp and the functions of the radio test in      *)
(* rf_test.cpp. Each function is the list of what it does to the chip over *)
(* SPI, in order, and the main loop carries it out one transaction per     *)
(* step, while the chip (external) resets itself, becomes ready and sends. *)
(* Registers no property tells apart are left out.                         *)
(***************************************************************************)
EXTENDS Integers, Sequences

CONSTANT Chips   \* what may be at the other end of the SPI port
ASSUME ChipAssumption == Chips \subseteq {"si4432", "other", "none"}

VARIABLES
  chip,            \* never changes
  reg,             \* the chip's registers
  phase,           \* in shutdown, in reset, or ready; writes are lost before
  status,          \* the interrupt status registers (3, 4) that hold a one
  rf_initialized,
  app,             \* the application that runs, of those that use the radio
  function, pos    \* what the main loop is in, and the next thing it does

vars == <<chip, reg, phase, status, rf_initialized, app, function, pos>>

Mode == \h07
Gpios == {\h0b, \h0c, \h0d}
Modulation == \h71
Band == \h75
Carrier1 == \h76
Carrier0 == \h77
Registers == Gpios \cup {Mode, Modulation, Band, Carrier1, Carrier0}

TxOn == 9
Idle == 1
Fifo == \h21

\* The registers after power-on and after a software reset (external).
Defaults ==
  [a \in Registers |-> IF a = Mode THEN Idle ELSE IF a = Band THEN \h75
                      ELSE IF a = Carrier1 THEN \hbb ELSE IF a = Carrier0 THEN \h80 ELSE 0]
-----------------------------------------------------------------------------
\* The things a function does.
Write(a, bytes) == [op |-> "write", addr |-> a, data |-> bytes]
Do(op) == [op |-> op, addr |-> 0, data |-> <<>>]
Read(a) == [op |-> "read", addr |-> a, data |-> <<>>]

rf_spi_write(a, d) == Write(a, <<d>>)

\* rf_set_freq, for whole megahertz from 240 to 960. fc is written as it lies
\* in memory, its low byte first.
hbsel(mhz) == IF mhz >= 480 THEN 1 ELSE 0
fb(mhz) == (mhz \div (hbsel(mhz) + 1) - 240) \div 10
fc(mhz) == (mhz * 6400) \div (hbsel(mhz) + 1) - (fb(mhz) + 24) * 64000

\* slip: the whole of fc in one register
InMemoryUnsplit(w) == <<w, 0>>
InMemory(w) == <<w % 256, w \div 256>>

rf_set_freq(mhz) ==
  <<rf_spi_write(Band, fb(mhz) + 32 * hbsel(mhz)), Write(Carrier1, InMemory(fc(mhz)))>>

unmod_carrier(mhz) ==
  rf_set_freq(mhz) \o <<rf_spi_write(Modulation, 0), rf_spi_write(Mode, TxOn), Read(Mode)>>

unmod_carrier_off == <<rf_spi_write(Mode, Idle)>>

\* slip: the band is left as it was
keeloq_315_txKeepsBand ==
  <<rf_spi_write(Modulation, Fifo), rf_spi_write(Carrier1, \h7D), rf_spi_write(Carrier0, 0),
    rf_spi_write(Mode, TxOn), Do("await_end")>>

keeloq_315_tx ==
  <<rf_spi_write(Modulation, Fifo), rf_spi_write(Band, \h47), rf_spi_write(Carrier1, \h7D),
    rf_spi_write(Carrier0, 0), rf_spi_write(Mode, TxOn), Do("await_end")>>

Identify ==
  <<rf_spi_write(\h0b, \h92), rf_spi_write(\h0c, \h95), rf_spi_write(\h0d, \h14), Do("identify")>>

\* slip: old interrupts are not cleared
rf_probeUncleared ==
  <<Do("leave_shutdown"), rf_spi_write(Mode, \h80), Do("await_interrupt")>> \o Identify

\* slip: interrupts are cleared when the reset is already under way
rf_probeClearsLate ==
  <<Do("leave_shutdown"), rf_spi_write(Mode, \h80), Read(3), Read(4), Do("await_interrupt")>> \o Identify

rf_probe ==
  <<Do("leave_shutdown"), Read(3), Read(4), rf_spi_write(Mode, \h80), Do("await_interrupt")>> \o Identify

\* The first lines of the register dump; the others read nothing that changes.
dump_rf_regs == <<Read(3), Read(4)>>

Functions ==
  {"rf_probe", "dump_rf_regs", "keeloq_315_tx", "unmod_carrier_315", "unmod_carrier_434", "unmod_carrier_off"}
Program(f) ==
  CASE f = "rf_probe" -> rf_probe
    [] f = "dump_rf_regs" -> dump_rf_regs
    [] f = "keeloq_315_tx" -> keeloq_315_tx
    [] f = "unmod_carrier_315" -> unmod_carrier(315)
    [] f = "unmod_carrier_434" -> unmod_carrier(434)
    [] f = "unmod_carrier_off" -> unmod_carrier_off
-----------------------------------------------------------------------------
\* The main loop.

Current == Program(function)[pos]
Call(f) == function' = f /\ pos' = 1

\* The register dump follows the probe of the application that shows it.
Advance ==
  IF pos < Len(Program(function)) THEN pos' = pos + 1 /\ UNCHANGED function
  ELSE IF function = "rf_probe" /\ app = "rf_debug" THEN Call("dump_rf_regs")
  ELSE function' = "none" /\ pos' = 0

\* slip: the chip is probed again at every start
AppStartAlwaysProbes(a) ==
  /\ function = "none" /\ app = "none"
  /\ app' = a
  /\ Call("rf_probe")
  /\ UNCHANGED <<chip, reg, phase, status, rf_initialized>>

\* EVENT_APP_START of the radio test or of the register dump.
AppStart(a) ==
  /\ function = "none" /\ app = "none"
  /\ app' = a
  /\ IF ~ rf_initialized THEN Call("rf_probe")
     ELSE IF a = "rf_debug" THEN Call("dump_rf_regs")
     ELSE UNCHANGED <<function, pos>>
  /\ UNCHANGED <<chip, reg, phase, status, rf_initialized>>

AppStop ==
  /\ function = "none" /\ app # "none"
  /\ app' = "none"
  /\ UNCHANGED <<chip, reg, phase, status, rf_initialized, function, pos>>

\* KEY_UP and KEY_DOWN in the register dump, where they show its first lines
\* again; further down the dump reads nothing that changes.
Scroll ==
  /\ function = "none" /\ app = "rf_debug"
  /\ Call("dump_rf_regs")
  /\ UNCHANGED <<chip, reg, phase, status, rf_initialized, app>>

\* The menu's entries are there whether the probe succeeded or not.
Select(f) ==
  /\ function = "none" /\ app = "rf_test"
  /\ Call(f)
  /\ UNCHANGED <<chip, reg, phase, status, rf_initialized, app>>

\* rf_spi_writem: consecutive registers. 0x80 to the mode register resets.
Written(t) ==
  [a \in Registers |-> IF a - t.addr \in 0 .. Len(t.data) - 1 THEN t.data[a - t.addr + 1] ELSE reg[a]]

rf_spi_writem ==
  /\ function # "none" /\ Current.op = "write"
  /\ IF phase # "ready" THEN UNCHANGED <<reg, phase>>
     ELSE IF Current = Write(Mode, <<\h80>>) THEN reg' = Defaults /\ phase' = "reset"
     ELSE reg' = Written(Current) /\ UNCHANGED phase
  /\ Advance
  /\ UNCHANGED <<chip, status, rf_initialized, app>>

\* rf_spi_readm: reading a status register clears it.
rf_spi_readm ==
  /\ function # "none" /\ Current.op = "read"
  /\ status' = status \ {Current.addr}
  /\ Advance
  /\ UNCHANGED <<chip, reg, phase, rf_initialized, app>>

\* LOW(rf_sdn) and ten milliseconds.
rf_config_gpios ==
  /\ function # "none" /\ Current.op = "leave_shutdown"
  /\ IF phase = "shutdown" /\ chip # "none"
     THEN phase' = "ready" /\ status' = {4}
     ELSE UNCHANGED <<phase, status>>
  /\ Advance
  /\ UNCHANGED <<chip, reg, rf_initialized, app>>

\* while (READ(rf_irq)): the line is low while a status register is not zero.
WaitForInterrupt ==
  /\ function # "none" /\ Current.op = "await_interrupt"
  /\ status # {}
  /\ Advance
  /\ UNCHANGED <<chip, reg, phase, status, rf_initialized, app>>

IdentifyChip ==
  /\ function # "none" /\ Current.op = "identify"
  /\ rf_initialized' = (chip = "si4432")
  /\ Advance
  /\ UNCHANGED <<chip, reg, phase, status, app>>

\* while (rf_spi_read(7) & 0x8), bit 3 being txon.
WaitForEndOfPacket ==
  /\ function # "none" /\ Current.op = "await_end"
  /\ reg[Mode] # TxOn
  /\ Advance
  /\ UNCHANGED <<chip, reg, phase, status, rf_initialized, app>>

Perform ==
  \/ rf_spi_writem \/ rf_spi_readm \/ rf_config_gpios
  \/ WaitForInterrupt \/ IdentifyChip \/ WaitForEndOfPacket
-----------------------------------------------------------------------------
\* The chip (external).

\* Its reset is over.
ChipReady ==
  /\ phase = "reset"
  /\ phase' = "ready"
  /\ status' = status \cup {4}
  /\ UNCHANGED <<chip, reg, rf_initialized, app, function, pos>>

\* The packet is sent, or the FIFO has run out.
PacketSent ==
  /\ phase = "ready" /\ reg[Mode] = TxOn /\ reg[Modulation] = Fifo
  /\ reg' = [reg EXCEPT ![Mode] = Idle]
  /\ UNCHANGED <<chip, phase, status, rf_initialized, app, function, pos>>
-----------------------------------------------------------------------------
Init ==
  /\ chip \in Chips
  /\ reg = Defaults /\ phase = "shutdown" /\ status = {}
  /\ rf_initialized = FALSE
  /\ app = "none" /\ function = "none" /\ pos = 0

Next ==
  \/ \E a \in {"rf_test", "rf_debug"} : AppStart(a)
  \/ AppStop \/ Scroll
  \/ \E f \in Functions \ {"rf_probe", "dump_rf_regs"} : Select(f)
  \/ Perform
  \/ ChipReady \/ PacketSent

\* The main loop does what it can, and so does the chip; no key need be pressed.
Spec == Init /\ [][Next]_vars /\ WF_vars(Perform) /\ WF_vars(ChipReady) /\ WF_vars(PacketSent)
-----------------------------------------------------------------------------
\* Types: every register is given a byte.
TypeOK ==
  /\ chip \in Chips
  /\ reg \in [Registers -> 0 .. 255]
  /\ phase \in {"shutdown", "reset", "ready"} /\ rf_initialized \in BOOLEAN
  /\ status \subseteq {3, 4}
  /\ app \in {"none", "rf_test", "rf_debug"}
  /\ \/ function = "none" /\ pos = 0
     \/ function \in Functions /\ pos \in 1 .. Len(Program(function))

\* A radio that counts as initialised has its antenna switch set up: rf_probe
\* does not take an interrupt that was pending before for the end of the reset
\* it asked for, which would lose what it writes next.
SwitchSetUp ==
  rf_initialized /\ function # "rf_probe" =>
    phase = "ready" /\ reg[\h0b] = \h92 /\ reg[\h0c] = \h95 /\ reg[\h0d] = \h14

\* A chip tuned to mhz, as the data sheet reads its registers.
Tuned(mhz) ==
  /\ reg[Band] % 64 = fb(mhz) + 32 * hbsel(mhz)
  /\ reg[Carrier1] * 256 + reg[Carrier0] = fc(mhz)

\* keeloq_315_tx sends its packet on 315 MHz, whatever the radio was tuned to
\* and was doing before.
SendsOn315 ==
  rf_initialized /\ function = "keeloq_315_tx" /\ pos = Len(keeloq_315_tx) /\ reg[Mode] = TxOn =>
    Tuned(315) /\ reg[Modulation] = Fifo

\* An unmodulated carrier of an initialised radio stays on until it is turned
\* off or made to send a packet, while applications are stopped and started:
\* none of them resets the radio again.
CarrierStaysOn ==
  [][rf_initialized /\ reg[Mode] = TxOn /\ reg[Modulation] = 0 =>
       \/ reg'[Mode] = TxOn /\ phase' = "ready"
       \/ function = "unmod_carrier_off"]_vars

\* With a chip on the port, whichever it is, the main loop comes back from the
\* probe and from every entry of the menu.
FunctionsReturn == (chip # "none" /\ function # "none") ~> (function = "none")
=============================================================================
