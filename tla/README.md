# RF-Pirate: TLA+ models, model checks and proofs

RF-Pirate is a hand-held radio tool on an ATmega32U4. This directory models the
firmware (`src/sw/rfp`), its USB bootloader (`src/sw/bootloader`) and the part of
the USB library LUFA (`src/sw/lufa-lib/LUFA`) that both link, checks the models
with TLC and proves theorems about them with TLAPS. File and line numbers below
are those of `src/`.

## 1. The system

The firmware is one main loop and a handful of interrupt handlers on one
processor. Interrupt handlers do not interrupt each other; they interrupt the
main loop between any two instructions. They talk to it through an event queue.

| component | state | operations | interacts with |
|---|---|---|---|
| event queue, `evt_handler.cpp` | ring `event_q[5]`, `q_head`, `q_tail` | post (any interrupt), dispatch (main loop) | everything |
| handler list, `evt_handler.cpp` | pool of 3 nodes, list `head` | add, pop, synchronous event | menu, applications |
| menu, `Menu.cpp`, `MenuEntry.cpp`, `ui.cpp` | stack of levels, selections, dropdown values | five keys | handler list, display, applications |
| register dump, `rf_debug.cpp` | first register shown | start, stop, scroll | menu, display, radio |
| radio test, `rf_test.cpp` | none of its own | menu functions, radio events | radio |
| keypad and battery, `keypad.cpp` | `state`, `last_keycode`, the converter | two tick clients, converter interrupt | time tick, event queue |
| time tick, `timetick.cpp` | `count`, five clients | timer interrupt, registration | keypad, USB, LED |
| USB serial, `usb_serial.cpp` | transmit ring of 5, two receive buffers | `printf` (main loop), `process` (tick) | event queue, parser |
| command parser, `cmd_parser.cpp` | one token | parse a line in place | USB serial |
| radio driver, `si4432.cpp` | `rf_initialized`, chip registers over SPI | register access, probe, frequency | radio test, register dump |
| display driver, `ssd1306.cpp` | frame buffer, icons | draw, clear, transfer | menu |
| bootloader, `BootloaderCDC.c` | address, timeout, flash, EEPROM | AVR109 commands, reset, hand-over | host, application |
| USB library, `LUFA/Drivers/USB` | device state, configuration, request, controller registers | bus interrupt, control requests, CDC sending | host, USB serial, bootloader |

What is hard here, and hardly tested by hand:

* **interleaving**: posts during a dispatch, characters received during a
  parse, a send during a print, the conversions of two clients of one converter,
  the bus interrupt during a control request;
* **pairing over long walks**: applications started and stopped, handlers
  registered and popped, levels saved and restored;
* **limits**: a full queue, an exhausted pool, a line that fills its buffer, a
  counter that wraps, the last page of an erase loop;
* **failure**: the host unplugged or the power gone in the middle of a block, a
  control transfer broken off, a bus reset or suspended anywhere;
* **waits**: the USB library polls in a dozen places, one of the two programs
  inside an interrupt handler, the bootloader in four more before it calls the
  library; the radio driver polls for its chip;
* **undefined behaviour** the program depends on: `WRAP` in `usb_serial.cpp:4`,
  the uninitialised return value in `rf_debug.cpp:44`.

What makes each part correct: the queue loses nothing it accepted and hands
events out whole and in order; an application is told to stop exactly if it was
told to start, and the handler list, the menu level and the display agree with
that; a key event names a key that was down; a printed text goes out once and
in order; a received line is parsed as it was sent and never read past its
buffer; a block the bootloader confirms is in flash; a reset leads where it was
meant to; a USB transfer ends, with all of its data, as far as the caller of the
library lets it; the radio is where the
program believes it is. `PROJECT.json` lists the hazards line by line with the
properties that watch them.

## 2. Modules

| module | models | used by |
|---|---|---|
| `LossyFifo` | abstract: a bounded FIFO that refuses when full, one element at a time on offer | refined by `EvtQueue`, `SerialTransmit` |
| `EvtQueue` | the ring, with every memory access of `evt_handler_dispatch` a step of its own | `MCEvtQueue`, `EvtQueueProofs` |
| `MenuSystem` | menu, dropdowns, handler list, applications, the menu's lines of the display | `MCMenuSystem`, `MenuSystemProofs` |
| `Keypad` | time tick, its clients, the converter and its interrupt | `MCKeypad`, `KeypadProofs` |
| `SerialTransmit` | the transmit ring between `printf` and the interrupt | `MCSerialTransmit`, `SerialTransmitProofs` |
| `SerialReceive` | receive buffer, event, in-place parser | `MCSerialReceive`, `SerialReceiveProofs` |
| `Bootloader` | reset, hand-over, timeout, commands, flash and EEPROM | `MCBootloader`, `BootloaderProofs` |
| `UsbDevice` | USB interrupt, control requests, CDC sending, against a host that may fail | `MCUsbDevice`, `UsbDeviceProofs` |
| `Radio` | radio driver and radio test functions, against the chip | `MCRadio`, `RadioProofs` |

Definitions carry the names of the code where there is one. Mutated forms of
some definitions stand before them, each marked `slip:`; no specification uses
them.

### EvtQueue
`evt_handler_event(e, d)` is one step, since it runs with interrupts off.
`evt_handler_dispatch` is taken apart: the test of the ring, the read of
`event`, the read of `data` with the call, the advance of the tail; a post may
come between any two. `Init` is the zero-initialised memory (the program never
calls `evt_handler_init`). `pending` and `offered` of `LossyFifo` are the slots
from tail to head and the event that is with the handlers.

### MenuSystem
`TakeKey` takes a key off the queue, `ui_event_notify`, `rf_event_notify` and
`rf_debug_notify` are the handlers it is offered to from the head of the list,
one per step. A key on the menu is one action per case of `Menu::KeyHandler`,
each with the `DrawMenu` that ends it. `stack[stack_idx]` is `cur`. The display
is its lines: text, inverse or not, and the scroll icon. `started` is history:
the application starts not yet followed by a stop. The uninitialised return
value of `rf_debug_notify` is a choice. The menu tree is a constant; it has to
be shallow enough for stack and pool (`TreeAssumption`), which nothing in the
code enforces. The shipped trees also satisfy `ContentsAssumption`: the register
dump's menu is empty, and no menu has a dropdown twice. The display has at least
two lines for the menu, because on a single one the two scroll icons would share
a place and hide each other.

### Keypad
`i` walks through the tick's clients in the order `ui_setup` registers them.
The converter is external: a channel written to ADMUX counts until the
conversion starts, ADSC set during one does nothing, a read-modify-write of
ADCSRA clears a pending ADIF. Two facts about time are in the guards and
commented there: a conversion (0.2 ms) is over before the next tick (10 ms)
unless this tick was late, which `process_usb` may make it; and a conversion has
started before the next client is called (8 us against a 16-bit division).
`process_usb` need not return: the run `usb_in_tick` shows that it may not.
The model starts where `keypad_init` ends.

### SerialTransmit, SerialReceive
`printf` is four steps because the interrupt may find the buffer with its first
characters only. `WRAP(i, d)` assigns `i++` to `i`; `WRAP_ADDS` is 0 for a build
that leaves `i` alone and 1 for one in which the increment wins. The transmit
ring is modelled for both. A text is sent when it is handed to the USB library:
`process` ignores what `SendByte` returns (`usb_serial.cpp:89-90`), and is taken
to return. For the receive index the second outcome leaves
`rx_q`, so `SerialReceive` assumes the first. In `SerialReceive` a received
character is one step of the interrupt and the parser advances a character per
step in the same buffer. Since no command is registered, matching is one step
without effect. An event may be lost to a queue full of other events.

### Bootloader
A byte is the set of its one-bits, so that writing a page onto flash is an
intersection. The flash hardware is external: an erase or a write makes the
application section unreadable (it reads as blank) until `boot_rww_enable`; a
word of the page buffer takes one fill. `cmd` is the command under way with the
locals of `ReadWriteMemoryBlock`; each byte of a block is a step, and unplugging,
the reset button and a power cycle come between any two. The host stays within
the application's flash and the EEPROM, starts a flash block on a page, does
not ask for more than a page (what `b` answers), and is not enumerated again
before the command it was unplugged in has run out of zeros. That it reads its
answers is assumed; one that does not is stuck like one that stops sending.

The application may enter by a jump, with its tick's interrupt enabled and its
vectors gone (`ui.cpp:67`). `started` is the programs begun since the hardware was
last reset: when both are in it, the timer goes on and the vectors are the
bootloader's, which has no handler for it, whichever of the two runs (`Astray`);
the next tick leads to the bootloader's start (`BadInterrupt`). It comes within
ten milliseconds, before a host has enumerated the device or a pulse of the LED is
over, so there are no commands, timeouts or menu entries before it. `broken` is
history: a block has erased the first page and not yet written it. The chip erase
erases and writes a page in one step: what it writes is blank when the page buffer
is, and when it is not, only a power failure in between would tell the two apart.

### UsbDevice
`context` is the program: the bootloader calls `USB_USBTask` from its main loop
(`"loop"`), the firmware from the time tick's handler (`"tick"`), where
`USB_GEN_vect` is masked from the moment a request is taken until the task
returns. A place of `pc` is a loop that polls, of the library or of the
bootloader; what happens between two polls is one step. A packet is its number of
bytes. The controller is external: TXINI is `in = None`, RXOUTI `out # None`,
RXSTPI `setup # NoRequest`; a SETUP clears what was in the bank, a bus reset
disables address and endpoints. The host is external too: it takes a transfer
through its stages and may, at most `MaxFaults` times, break it off with another
SETUP, suspend or reset the bus, or be unplugged. Three facts about time are in
the guards: nothing happens on the bus while an interrupt that could be served is
pending; the host breaks off only what really waits, not between two instructions;
the next SETUP comes after the task has got from its last poll to its end. A host
that wants data asks for at least one byte. The build options are those of the two
makefiles: device only, control packets of fixed size, one configuration, no self
power or remote wake-up in the bootloader. `disturbed` is history: a transfer was
broken off.

In the main loop `CDC_Task` runs in turn with the USB task, and waits for its host:
in the middle of a command (`"fetch"`), for room for an answer (`"respond"`), for
the empty packet after a full one (`"zlp"`) and for the host to have read it
(`"sent"`). A command is the number of bytes it takes and answers; what it does
is in `Bootloader`. The numbers stay those of the command's letter when the cable
is pulled and the rest is read as zeros; the command's memory effects then are
`Bootloader`'s too. A bus reset during one of these waits disables the endpoint and
selects the control endpoint, which the wait then polls: the wait for a byte goes
on until the cable is pulled, the others run through and leave at most a stray
byte in the control endpoint's bank, where the next SETUP takes its place. The host
leaves the device alone for some time after a reset (10 ms), so it sends no request
between two instructions of a wait that is about to go on.

### Radio
A function is the list of its SPI transactions and waits (`Program`), and the main
loop carries out one per step. Writes before the chip is ready are lost; reading
an interrupt status clears it; the chip comes out of shutdown with an interrupt
pending. Only registers that a property tells apart are kept. The frequencies are
whole megahertz, for which the single-precision arithmetic of `rf_set_freq` is
exact enough to be computed in integers.

## 3. Runs

All passing runs are exhaustive for their constants.

| run | shows |
|---|---|
| `evt_queue` | `SlotStable`: no post touches the event being offered; `ImplementsFifo`: the ring is a FIFO of one place less than it has slots, and what it accepts is eventually offered and retired |
| `menu` | `MenuPath`, `StartedMatchesMenu`, `HandlersMatchMenu`, `ScreenShowsMenu`, `OpenDropdownIsCurrent`, `DumpStaysOnChip`, `DumpShown`, under every sequence of keys and with either return value of `rf_debug_notify` |
| `keypad` | `PressesAreReal`: a key event names the key held when its ladder was sampled; `KeyReported`, `BatteryReported`: sampling does not stop, as long as every call of `process_usb` returns, which `usb_in_tick` shows it may not |
| `transmit` | `HeadInStep`, `ImplementsFifo`: texts go out once and in order, and are dropped only when the ring is full |
| `receive` | `Terminated`: no string runs out of its buffer; `ParsedAsSent`: a line that had the buffer to itself is cut into its words |
| `boot` | `BlockWritten`, `VerifiesFlash`, `ErasesSection`, `EntersOnRequest`; `BrokenOffNotStarted`: an application whose first page was erased for a block that never ended is not started, wherever the power failed; `GivesUpAlone`: the timeout, where it works |
| `usb` | in both programs: `AddressAgreed`, `DataWhole`; `EndpointKept`: the interrupt selects another endpoint under a wait for no event but the reset that disables the endpoint waited for; `TransfersEnd`: the device answers every transfer that is not broken off, as long as no command of the bootloader waits for ever; `UnplugEndsWait`: in the main loop, for the command's waits too; `WaitTimesOut`: in the tick a wait for the host to read data ends after `USB_STREAM_TIMEOUT_MS` + 1 frames |
| `radio` | `SwitchSetUp`: the probe waits for the end of its own reset; `SendsOn315`, `CarrierStaysOn`, whatever was done before; `FunctionsReturn`: the main loop comes back if any chip is there |

Runs that are expected to fail. Each shows the code doing other than a comment or text
of it says; the findings in `PROJECT.json` quote both.

| run | what happens |
|---|---|
| `battery_voltage` | a key ladder's value is reported as the battery's (`keypad.cpp:100`) |
| `sent_whole` | a text is sent half-written and the rest is lost (`usb_serial.cpp:111`) |
| `usb_in_tick` | unplugged in the middle of a transfer, the USB task waits in the tick's handler for ever (`Endpoint.c:76`) |
| `menu_entry` | entered from the application's menu, the bootloader is left at the first tick, by an interrupt it has no handler for (`ui.cpp:67`) |

Seen on the way, in the models as they are in the code, without a run:

* UP and DOWN in the register dump may also reach the menu, since the handler
  returns an uninitialised variable (`rf_debug.cpp:44`); entering the dump draws
  the up icon over its first line (`Menu.cpp:138`, against "No menu",
  `rf_debug.cpp:26`), which `DumpShown` allows for;
* a numeric dropdown that has reached its maximum cannot be lowered
  (`MenuEntry.cpp:134`);
* 65536 is no multiple of 6000, so the battery is read 5536 ticks after the last
  time when the count wraps (`timetick.cpp:35`);
* `WRAP` leaves `rx_p` alone, so the second receive buffer is never used and the
  next line is stored over the one that waits (`usb_serial.cpp:4`, against the
  comment at `:61-63`); a line overwritten while it is parsed may be released
  through NULL (`cmd_parser.cpp:82`); with an empty command table the parser
  compares the line with what is at address 0 (`:68`), which only decides whether
  it prints a message;
* a backspace to the start of the line makes the next character report an
  overflow (`usb_serial.cpp:44-50`);
* the chip erase advances by a page and a byte and so skips page 128 of 224
  (`BootloaderCDC.c:517`, against "Clear the application section of flash",
  `:509`); `ErasesSection` states exactly which pages are blank afterwards;
* after a page was written and not read back, the flash reads as blank and the
  timeout does not leave (`BootloaderCDC.c:174`), hence `rww` in `GivesUpAlone`;
* a host that stays attached and sends half a command keeps the bootloader for
  ever (`BootloaderCDC.c:392`), and so does one that does not read an answer, or
  resets the bus in the middle of a command: the reset disables the endpoint that
  `:392` waits for and is no unplugging, so the next enumeration is not answered,
  against "must be serviced within 30ms" (`USBTask.h:162`). Unplugged, the rest of
  its block is written as zeros (`:395`);
* an application that was written only in part is started if its first page is
  whole: `main` looks at the first word alone (`BootloaderCDC.c:117`);
* a bootloader that was entered from the menu leads back to the application, whose
  interrupts then go to the bootloader's vectors (`BootloaderCDC.c:202`) and lead
  back to the start again, until a reset of the hardware;
* command `C`, for the high byte, fills the low one (`BootloaderCDC.c:550`);
* a host that breaks off a control read in its status stage leaves the task
  waiting for that stage until the cable is pulled (`Endpoint.c:74`,
  `Template_Endpoint_Control_W.c:41`); the request it sent instead is then
  stalled unread (`DeviceStandardReq.c:118`). `disturbed` takes a transfer that
  was broken off, reset, suspended or unplugged in the middle out of `TransfersEnd`;
  its premise `CommandsEnd` takes out a bootloader that waits in a command for ever;
* the state is `Configured` after a wake-up or SetConfiguration(0) of an addressed
  device without a configuration (`USBInterrupt.c:134`, `DeviceStandardReq.c:196`),
  and a SetConfiguration that was waiting when the cable was pulled sets it on an
  unattached one;
* the two bytes of the nominal carrier are swapped: `rf_set_freq` writes `fc` as it
  lies in memory, low byte first, from register 0x76 up (`si4432.cpp:209`), so the
  entries "Carrier 315" and "Carrier 434" (`rf_test.cpp:294-295`) are not on these
  frequencies; `keeloq_315_tx` writes the bytes the right way round (`:145`);
* without a chip, `rf_probe` never returns (`si4432.cpp:157`).

### Bounds

* `evt_queue`: the firmware's five slots, two handlers, two events. The indices
  meet in every relative position; a third event would only be a third colour.
* `menu`: one of each kind of entry, a menu longer than the display and the
  deepest nesting the pool allows, with both shipped applications.
* `keypad`: the periods 50, 2, 7, 6000 and the range 65536 are scaled to 5, 2, 3,
  10 and 32. What matters is kept: keypad and battery meet in one tick and in
  neighbouring ones, both meet the USB client, no period but the USB's divides
  the range. All five keys, and a battery that reads 0xff or not.
* `transmit`: the firmware's five buffers, two texts, and the outcome of `WRAP`
  that leaves `i` alone. (`WRAP_ADDS = 1` has the same properties on the same
  five buffers, of which it then uses every other one.)
* `receive`: buffers of five characters: a command and one argument fill one, and
  with empty words there are more than the parser keeps; characters are a letter,
  a space, a backspace and a line end. Two waiting events.
* `boot`: bytes of one bit, two pages of two words, a block that fills a page and
  one of a single byte. (Two pages do not reach the page that the erase loop jumps
  over; the theorem `EraseLeavesBlank` does, and on four pages of one word, where it
  is the third, `ErasesSection` holds too, and fails if that page is not excepted.)
  `COUNTS`, the range of `boottimeout`, is 3 instead of 256, the timeout 2
  instead of 10.
* `usb`: control packets of three bytes, a descriptor of six that fills two, and
  hosts that ask for five, six and eight: the last packet is short, full and
  enough, full and to be followed by an empty one. Data packets of two bytes, a
  timeout of one frame, one fault. The bootloader's commands take one byte, or
  more than a packet, and answer nothing, a full packet, or more than one.
  Requests: one of each kind that is handled differently, with a recipient for
  each branch.
* `radio`: all functions, all chips; nothing is scaled.

### Fairness

The firmware's main loop waits only in the radio driver, for a chip that `Radio`
shows to answer if there is one, so dispatching, a print under way and a parse
under way are weakly fair; without a chip `rf_probe` keeps the main loop for ever,
and nothing that is said of eventual dispatching holds. Timer, converter and
watchdog are hardware: weakly fair; the tick in `Keypad` is strongly fair, because
its guard (no conversion left over from the last tick) is a fact about time that
holds again and again. In `Keypad` every client of the tick is weakly fair but
`process_usb`, whose return the two liveness properties have as their premise
(`UsbReturns`). Users, the battery, the host, the button and the power are under
no obligation. In `Bootloader` a command goes on by itself only when no host is
attached, because then `FetchNextCommandByte` no longer waits. In `UsbDevice` the
task is strongly fair: in the firmware sending comes between two calls of it, but
each call of `UsbSerial::process` ends with one; in the bootloader `CDC_Task` and
the task take turns in the main loop, and as long as `CDC_Task` waits in a
command, no step of the task is possible. `CDC_Task` is strongly fair too, which
obliges it to go on when what it waits for is there, and the interrupt, which is
served between two ticks. A host goes on with a transfer it has begun, and need
not begin one, read data, send the rest of a command or stay. In `Radio` the main
loop and the chip are weakly fair. Deadlock is checked except for the event queue,
which may be left empty for ever; the menu, which ends when the device is switched
off or enters the bootloader; `usb`, where nobody need plug the device in again;
and `radio`, which waits for ever without a chip.

## 4. Proofs

For every value of the constants that satisfies the assumptions:

* `EvtQueueProofs`: `TypeCorrect`, `SlotStability`, and `QueueIsFifo`, the safety
  part of the refinement. The inductive invariant adds `WalkInv`: while an event
  is with the handlers the ring is not empty, and what was read of it is still
  what the tail slot holds.
* `MenuSystemProofs`, for every menu tree within the assumptions: `TypeCorrect`,
  `PathKept`, `ApplicationsMatch`, `HandlersMatch`, `DumpInRange`. The invariants
  need one another: that a pop finds the right node needs the list to match the
  started applications, and these to match the levels' flags. `LevelBounds` adds
  how much of the tree's depth and of the pool the levels so far have used, without
  which neither `stack_idx` nor the pool stays in range.

  On top of that the display: `OneDropdownOpen`, `MenuShown`, `DumpStaysShown`, also
  for every number of lines. `ScreenShowsMenu` speaks of the moments between keys;
  what is inductive is `DisplayInv`, which holds at any time: either the dump is in
  front, the menu has no lines and the dump's are on the screen, or the menu has all
  of its lines and they show a window around the selected entry. It is kept because
  a dump is always in front of every other handler (`DumpInFront`: nothing is entered
  from an empty menu), and because `DrawMenu` draws a right window over any screen
  (`MenuDrawn`), and over a dump nothing but its icon (`DumpDrawn`).
* `KeypadProofs`: `TypeCorrect` and `KeyEventsAreReal`, for all periods. The
  invariant says what the handlers rely on: in a key state the conversion under
  way, or finished and not served, is of that state's ladder (`OwnLadder`).
* `SerialTransmitProofs`, for every depth and both outcomes of `WRAP` (the second on
  an odd depth, as the code has it): `TypeCorrect`, `HeadKeepsStep`, and
  `LineIsFifo`, the safety part of the refinement. Counted along the places that
  `WRAP` visits, the buffers in use are the first m from the tail (`Filled`), and the
  head is behind them or, while `printf` fills a buffer, on the last of them or just
  behind the tail that the interrupt has moved on (`HeadBehind`). `RingShape` and
  `PlaceMoves` are the arithmetic: the places are distinct, and a step of `WRAP`
  goes from one to the next.
* `SerialReceiveProofs`, for every size of a buffer, any number of buffers and
  arguments and any characters: `TypeCorrect`, `StringsEnd`, `LinesParsed`. `TypeInv`
  adds that a word begins at or before the character the parser is at, and that an
  event is parsed where it is the oldest. `AloneInv` is about a buffer that one line
  has to itself: what is there of a line that is coming in has been sent
  (`Arriving`), a posted line is there but for the separators the parser has passed
  (`Stored`), and the parser has found whole words one behind the other up to `tok`,
  and no separator since (`Parsed`). It stands for the induction over the line: each
  round of the parser's loop ends one word or none.
* `BootloaderProofs`, for every geometry of flash and EEPROM and all bytes:
  `TypeCorrect`, `EntryOnRequest`, `HalfWrittenStaysDown`, `ReadsBack`,
  `BlocksAreWritten`, `EraseLeavesBlank`. `HalfWrittenStaysDown` rests on
  `BrokenInv`: while the first page is erased and not written, its first word is
  blank, and nothing on the way to the next start writes one. `RoomLeft` is what
  the host promised of the command under way, `RunInv` which of the two programs
  runs with which causes of reset. `BlockInv` follows a block: of the bytes
  received, the whole words are in the page buffer and in no other place of it, a
  low byte waits in `LowByte`, and the address is behind them. `EraseInv` says
  that after round j of the erase loop the pages of the addresses 0 .. j - 1 times
  `SPM_PAGESIZE + 1` are blank; `RoundOf` then finds the round of each page that
  has one.
* `UsbDeviceProofs`, for every packet size, any descriptors, any lengths a host
  may ask for and any number of faults: `TypeCorrect`, `WaitsPollTheirOwn`,
  `AddressStaysAgreed`, `DataArrivesWhole`. `PlaceInv` says which request and
  which program a place belongs to, `SetupInv` that a request not yet taken is the
  one the host has just sent, `CommandInv` that a bus reset under a command's wait
  has disabled its endpoint and the host has no transfer yet. `WaitsPollTheirOwn`
  needs the controller: after a bus reset the endpoints are disabled until the
  next SetConfiguration, which the task, not called during a command, cannot carry
  out. `AddressInv` follows a change of address: the status packet goes out from
  the old one, then the host uses the new one and the device is about to.
  `StreamInv` balances a control read: what the host has, the packet on its way
  and the rest make the whole, and behind a short packet there is no rest.
* `RadioProofs`, whichever chips may be on the port: `TypeCorrect`, `SwitchReady`,
  `PacketOn315`, `CarrierStays`. The run has every value of the only constant, so
  the proofs add the argument rather than generality. `ProbeAt` says what the probe
  has achieved where it is: the old interrupts are cleared when it asks for the
  reset, so the interrupt it waits for is the end of that reset, and the three writes
  that follow are not lost. `KeeloqAt` is the same for the packet. `Probe`, `Keeloq`
  and the lemmas after them spell out the functions, `Writes` what any of them may
  write: only the probe resets the chip or writes the switch's registers.

Each inductive argument is laid out as initial states, one step per action, and
a last temporal step. Two of the proofs changed what they were about: the menu's
display is right only from two lines up and with the contents above, which the
model now says, and the icon of a line is decided in one order, not in
overlapping cases.

Only model-checked:

* everything that must eventually happen, out of the prover's reach: `TransfersEnd`,
  `UnplugEndsWait`, `WaitTimesOut`, `GivesUpAlone`, `FunctionsReturn`, `KeyReported`,
  `BatteryReported`, and the liveness part of both refinements;
* the runs that are expected to fail.

## 5. Not modelled

* The display driver: bits of a frame buffer, drawn by the main loop alone and
  sent out whole. `MenuSystem` has what is on which line.
* The radio's interrupt handler and everything it would serve. Nothing enables it:
  `rf_enable_isr` is commented out where it was called, `rx_315` is in no menu. Its
  two faults (it uses the SPI port without regard to the main loop,
  `si4432.cpp:327`; it shifts the status only after a one, `:330`) cannot show in
  this build.
* Registration of tick clients: `cb` is set before `ticks` (`timetick.cpp:76`), but
  the first tick comes 10 ms after the timer is started and registration takes
  microseconds.
* Of the USB library: the notification endpoint, SendBreak,
  the internal serial number, the streams on data endpoints. Receiving on the data
  OUT endpoint is modelled for the bootloader only; the firmware's `process` takes a
  byte there without waiting. What the bootloader's commands do with their bytes is
  in `Bootloader`, byte by byte; how they wait for packets is in `UsbDevice`.
* Pin macros, lock bits and fuses, the contents of the descriptors, header and
  status line.
* Code without a caller: `evt_handler_init`, `timetick_deregister`,
  `cmdp_register_cmd`, `Menu::SetLineStartEnd`, string dropdowns.
* The rest of LUFA. More than nine tenths of the repository's lines are the vendored
  library's host mode, other device classes and other boards, and its demonstration
  and sample projects (a web server, file systems, programmers), none of which is
  compiled into the firmware or the bootloader. They are no part of this system, and
  modelling them would say nothing about it. Of the program's own code with logic,
  `src/sw/rfp` and `BootloaderCDC.c`, the modules cover what is listed above.

## 6. Plan

Done in this order, the most central first: event queue with its abstract
specification and proofs; menu with handler list and proofs; keypad and tick with
proofs; serial line; bootloader; USB library; radio.

Proofs, in this order: event queue, menu, keypad, transmit ring, bootloader, USB
library, receive buffer, the menu's display, radio, the parser. Left: nothing that
a run checks as an invariant or an action property.

A composition of keypad, queue and menu would add little: each hands over only
whole events, the refinement of `LossyFifo` says what may be lost, and the menu is
checked under every sequence of keys.
