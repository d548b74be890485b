------------------------------ MODULE Bootloader ------------------------------
(***************************************************************************)
(* bootloader/BootloaderCDC.c: the AVR109 command interpreter over the     *)
(* application's flash and the EEPROM, and the hand-over between reset,    *)
(* bootloader and application. The host may be unplugged, and the power    *)
(* fail or the reset button be pressed, between any two bytes. A byte is   *)
(* the set of its one-bits.                                                *)
(***************************************************************************)
EXTENDS Integers, Sequences

CONSTANTS
  Bit,
  PAGES, WORDS,      \* pages below BOOT_START_ADDR, words in a page
  CELLS,             \* cells of the EEPROM
  BOOTLOADTIMEOUT, COUNTS,  \* and how far boottimeout, a uint8_t, counts
  Letter,            \* the commands the host uses
  BlockSize          \* the sizes of its blocks, in bytes

ASSUME SizesAssumption ==
  /\ Bit # {}
  /\ PAGES \in Nat \ {0} /\ WORDS \in Nat \ {0} /\ CELLS \in Nat \ {0}
  /\ BOOTLOADTIMEOUT \in 1 .. COUNTS - 1
  /\ COUNTS \in Nat
  /\ BlockSize \subseteq 0 .. 2 * WORDS

VARIABLES
  flash, eeprom,
  page_buffer,       \* the hardware's page buffer
  rww,               \* may the flash be read?
  mcusr,             \* the causes of reset not yet cleared
  running,           \* "reset", "app", "boot", or "exit": waiting for the watchdog
  RunBootloader, boottimeout, CurrAddress,
  cmd,               \* the command under way, with its locals; as history, whether
                     \* the page buffer was clear before it
  started,           \* the programs that main has started since the hardware was reset
  attached,          \* is there a host?
  sent,              \* history: the bytes received of the block under way,
  asked,             \* whether the reset under way was meant for the bootloader, and
  broken             \* whether a block has erased the first page that was not written since

memory == <<flash, page_buffer, rww, broken>>
control == <<mcusr, running, RunBootloader, asked, started>>
vars == <<memory, eeprom, control, boottimeout, CurrAddress, cmd, attached, sent>>

Byte == SUBSET Bit
Zero == {}
Word == [lo : Byte, hi : Byte]
BlankWord == [lo |-> Bit, hi |-> Bit]
Page == 0 .. PAGES - 1
Offset == 0 .. WORDS - 1
SPM_PAGESIZE == 2 * WORDS
BOOT_START_ADDR == PAGES * SPM_PAGESIZE
BlankPage == [w \in Offset |-> BlankWord]
Unfilled == [lo |-> Bit, hi |-> Bit, filled |-> FALSE]
EmptyBuffer == [w \in Offset |-> Unfilled]

Idle == [name |-> "none"]
Continued == {"A", "B", "g", "e", "C", "c", "D", "T", "l"}
Effects == Continued \cup {"E", "m", "d"}
Loaded == flash[0][0] # BlankWord
-----------------------------------------------------------------------------
\* The hardware, as far as <avr/boot.h> and <avr/pgmspace.h> use it. Addresses
\* are of bytes. A word of the page buffer takes one fill until the buffer is
\* written or cleared; a second one may or may not replace it. While rww is
\* off, the flash reads as blank.

PageOf(a) == a \div SPM_PAGESIZE
OffsetOf(a) == (a \div 2) % WORDS
pgm_read_word(a) == IF rww THEN flash[PageOf(a)][OffsetOf(a)] ELSE BlankWord

Written(old) == [w \in Offset |-> [lo |-> old[w].lo \cap page_buffer[w].lo,
                                   hi |-> old[w].hi \cap page_buffer[w].hi]]

boot_page_erase(a) ==
  /\ flash' = [flash EXCEPT ![PageOf(a)] = BlankPage]
  /\ rww' = FALSE
  /\ broken' = (broken \/ PageOf(a) = 0)
  /\ UNCHANGED page_buffer

boot_page_write(a) ==
  /\ flash' = [flash EXCEPT ![PageOf(a)] = Written(@)]
  /\ page_buffer' = EmptyBuffer
  /\ rww' = FALSE
  /\ broken' = (broken /\ PageOf(a) # 0)

boot_rww_enable == rww' = TRUE /\ page_buffer' = EmptyBuffer /\ UNCHANGED <<flash, broken>>

boot_page_fill(a, word) ==
  /\ \/ page_buffer' = [page_buffer EXCEPT ![OffsetOf(a)] =
                           [lo |-> word.lo, hi |-> word.hi, filled |-> TRUE]]
     \/ page_buffer[OffsetOf(a)].filled /\ UNCHANGED page_buffer
  /\ UNCHANGED <<flash, rww, broken>>
-----------------------------------------------------------------------------
\* Reset, and main up to its loop. The causes of reset add up in MCUSR until
\* the program clears them. Only the hardware's reset undoes what a program has
\* set up: the application leaves its timer's interrupt enabled, the bootloader
\* the interrupt vectors in its own section.

Restart(causes, meant) ==
  /\ mcusr' = causes /\ asked' = meant
  /\ running' = "reset"
  /\ RunBootloader' = TRUE
  /\ boottimeout' = 0 /\ CurrAddress' = 0
  /\ cmd' = Idle /\ sent' = <<>>
  /\ UNCHANGED <<flash, eeprom, broken, attached>>

Reset(causes, meant) ==
  /\ Restart(causes, meant)
  /\ page_buffer' = EmptyBuffer /\ rww' = TRUE
  /\ started' = {}

Button == Reset(mcusr \cup {"EXTRF"}, TRUE)
PowerCycle == Reset({"PORF"}, FALSE)
Watchdog == running = "exit" /\ Reset(mcusr \cup {"WDRF"}, FALSE)

\* The timer goes on and the bootloader has no handler for it. The interrupt
\* comes before anything that takes longer than a tick: a command, a pulse of the
\* LED, a key.
Astray == started = {"app", "boot"} /\ running \in started

\* A vector without a handler leads to the bootloader's start.
BadInterrupt ==
  /\ Astray
  /\ Restart(mcusr, FALSE)
  /\ UNCHANGED <<page_buffer, rww, started>>

\* The application's menu entry: MCUSR |= _BV(EXTRF), and the jump.
jmp_bootloader ==
  /\ running = "app" /\ ~ Astray
  /\ Restart(mcusr \cup {"EXTRF"}, TRUE)
  /\ UNCHANGED <<page_buffer, rww, started>>

\* slip: MCUSR is not cleared
MainKeepsMcusr ==
  /\ running = "reset"
  /\ running' = IF "EXTRF" \notin mcusr /\ pgm_read_word(0) # BlankWord THEN "app" ELSE "boot"
  /\ asked' = FALSE /\ started' = started \cup {running'}
  /\ UNCHANGED <<mcusr, memory, eeprom, RunBootloader, boottimeout, CurrAddress, cmd, attached, sent>>

main ==
  /\ running = "reset"
  /\ running' = IF "EXTRF" \notin mcusr /\ pgm_read_word(0) # BlankWord THEN "app" ELSE "boot"
  /\ mcusr' = {} /\ asked' = FALSE /\ started' = started \cup {running'}
  /\ UNCHANGED <<memory, eeprom, RunBootloader, boottimeout, CurrAddress, cmd, attached, sent>>

\* main's loop between commands: one pulse of the LED, and the check for a
\* timeout that follows in every round. It ends in the watchdog's endless loop.

\* slip: leaves for a blank flash
TimedOutBlank(n) == n >= BOOTLOADTIMEOUT /\ pgm_read_word(0) = BlankWord

TimedOut(n) == n >= BOOTLOADTIMEOUT /\ pgm_read_word(0) # BlankWord

Loop == running = "boot" /\ ~ Astray /\ cmd = Idle

Pulse ==
  /\ Loop /\ RunBootloader
  /\ boottimeout' = (boottimeout + 1) % COUNTS
  /\ RunBootloader' = ~ TimedOut(boottimeout')
  /\ UNCHANGED <<memory, eeprom, mcusr, running, asked, started, CurrAddress, cmd, attached, sent>>

Leave ==
  /\ Loop /\ ~ RunBootloader
  /\ running' = "exit"
  /\ UNCHANGED <<memory, eeprom, mcusr, RunBootloader, asked, started, boottimeout, CurrAddress, cmd, attached, sent>>
-----------------------------------------------------------------------------
\* The host. It uses memory commands on the application's flash and the EEPROM
\* only, writes flash in blocks that start a page, and is not back before the
\* command it was unplugged in has run out.

Unplug == attached /\ attached' = FALSE
Plug == ~ attached /\ cmd = Idle /\ attached' = TRUE
Cable ==
  /\ Unplug \/ Plug
  /\ UNCHANGED <<memory, eeprom, control, boottimeout, CurrAddress, cmd, sent>>

InFlash(n) == CurrAddress + n <= BOOT_START_ADDR
InEeprom(n) == CurrAddress \div 2 + n <= CELLS

Sends(letter) ==
  /\ Loop /\ RunBootloader /\ attached
  /\ letter \in Letter
  /\ letter \in {"C", "c", "m"} => InFlash(2)
  /\ letter \in {"D", "d"} => InEeprom(1)
  /\ boottimeout' = 0
  /\ UNCHANGED <<mcusr, running, asked, started, attached, sent>>

\* FetchNextCommandByte returns 0 for what an unplugged host does not send.
Fetched == IF attached THEN Byte ELSE {Zero}

Continues == UNCHANGED <<control, boottimeout, attached>>
Ends == Continues /\ cmd' = Idle /\ sent' = <<>>
-----------------------------------------------------------------------------
\* CDC_Task: commands that end at once.

\* 'L', 'P', 't', 'a', 'p', 'S', 'V', 's', 'b', 'r', 'F', 'N', 'Q', 'R', 27 and
\* unknown ones answer and change nothing.
Answer ==
  /\ \E letter \in Letter \ Effects : Sends(letter)
  /\ UNCHANGED <<memory, eeprom, RunBootloader, CurrAddress, cmd>>

ExitCommand ==
  /\ Sends("E")
  /\ RunBootloader' = FALSE
  /\ UNCHANGED <<memory, eeprom, CurrAddress, cmd>>

CommitPage ==
  /\ Sends("m")
  /\ boot_page_write(CurrAddress)
  /\ UNCHANGED <<eeprom, RunBootloader, CurrAddress, cmd>>

ReadCell ==
  /\ Sends("d")
  /\ CurrAddress' = CurrAddress + 2
  /\ UNCHANGED <<memory, eeprom, RunBootloader, cmd>>

\* Commands that go on: with the bytes that follow, or page by page.
Begin ==
  /\ \E letter \in Continued :
       /\ Sends(letter)
       /\ cmd' = IF letter = "e" THEN [name |-> "e", at |-> 0, clean |-> page_buffer = EmptyBuffer]
                 ELSE [name |-> letter]
  /\ UNCHANGED <<memory, eeprom, RunBootloader, CurrAddress>>

SetAddress ==
  /\ cmd = [name |-> "A"]
  /\ CurrAddress' \in IF attached THEN {2 * w : w \in 0 .. PAGES * WORDS - 1} ELSE {0}
  /\ Ends /\ UNCHANGED <<memory, eeprom>>

\* The device type of 'T'; the lock bits of 'l', which are not modelled.
TakeByte ==
  /\ cmd \in {[name |-> "T"], [name |-> "l"]}
  /\ Ends /\ UNCHANGED <<memory, eeprom, CurrAddress>>

FillHigh ==
  /\ cmd = [name |-> "C"]
  /\ \E b \in Fetched : boot_page_fill(CurrAddress, [lo |-> b, hi |-> Zero])
  /\ Ends /\ UNCHANGED <<eeprom, CurrAddress>>

FillLow ==
  /\ cmd = [name |-> "c"]
  /\ \E b \in Fetched : boot_page_fill(CurrAddress + 1, [lo |-> b, hi |-> Zero])
  /\ CurrAddress' = CurrAddress + 2
  /\ Ends /\ UNCHANGED eeprom

WriteCell ==
  /\ cmd = [name |-> "D"]
  /\ \E b \in Fetched : eeprom' = [eeprom EXCEPT ![CurrAddress \div 2] = b]
  /\ CurrAddress' = CurrAddress + 2
  /\ Ends /\ UNCHANGED memory

\* One round of 'e': the page is erased, and written from the page buffer,
\* which may hold fills of 'C' and 'c' in the first round; CurrFlashAddress
\* moves on by SPM_PAGESIZE in the body and by 1 in the loop's head.
EraseRound ==
  /\ cmd.name = "e" /\ cmd.at < BOOT_START_ADDR
  /\ flash' = [flash EXCEPT ![PageOf(cmd.at)] = Written(BlankPage)]
  /\ page_buffer' = EmptyBuffer /\ rww' = FALSE
  /\ broken' = (broken /\ PageOf(cmd.at) # 0)
  /\ cmd' = [cmd EXCEPT !.at = @ + SPM_PAGESIZE + 1]
  /\ Continues /\ UNCHANGED <<eeprom, CurrAddress, sent>>

\* slip: the last page is taken for the bootloader's
EraseDoneEarly ==
  /\ cmd.name = "e" /\ cmd.at >= BOOT_START_ADDR - SPM_PAGESIZE
  /\ Ends /\ UNCHANGED <<memory, eeprom, CurrAddress>>

EraseDone ==
  /\ cmd.name = "e" /\ cmd.at >= BOOT_START_ADDR
  /\ Ends /\ UNCHANGED <<memory, eeprom, CurrAddress>>
-----------------------------------------------------------------------------
\* ReadWriteMemoryBlock.

InBlock == "left" \in DOMAIN cmd

\* slip: the flash is not made readable
PrepareBlocked(type) ==
  IF cmd.name = "B" /\ type = "F" THEN boot_page_erase(CurrAddress) ELSE UNCHANGED memory

Prepare(type) ==
  IF cmd.name = "g" THEN boot_rww_enable
  ELSE IF type = "F" THEN boot_page_erase(CurrAddress) ELSE UNCHANGED memory

HostAsks(type, n) ==
  IF type = "E" THEN InEeprom(n)
  ELSE /\ InFlash(n) /\ CurrAddress < BOOT_START_ADDR
       /\ cmd.name = "B" => CurrAddress % SPM_PAGESIZE = 0

BeginBlock ==
  /\ cmd \in {[name |-> "B"], [name |-> "g"]} /\ attached
  /\ \E n \in BlockSize, type \in {"F", "E"} :
       /\ HostAsks(type, n)
       /\ Prepare(type)
       /\ cmd' = [name |-> cmd.name, type |-> type, left |-> n, PageStartAddress |-> CurrAddress,
                  HighByte |-> FALSE, LowByte |-> Zero, clean |-> page_buffer = EmptyBuffer]
  /\ Continues /\ UNCHANGED <<eeprom, CurrAddress, sent>>

\* Without a host the memory type is fetched as 0 and refused.
RefuseBlock ==
  /\ cmd \in {[name |-> "B"], [name |-> "g"]} /\ ~ attached
  /\ Ends /\ UNCHANGED <<memory, eeprom, CurrAddress>>

\* slip: the count is tested before it is lowered
ByteDueOnceMore(name, type) == InBlock /\ cmd.name = name /\ cmd.type = type /\ cmd.left >= 0

ByteDue(name, type) == InBlock /\ cmd.name = name /\ cmd.type = type /\ cmd.left > 0
Counted == [cmd EXCEPT !.left = @ - 1]
Received(b) == sent' = IF attached THEN Append(sent, b) ELSE sent

ReadFlashByte ==
  /\ ByteDue("g", "F")
  /\ CurrAddress' = IF cmd.HighByte THEN CurrAddress + 2 ELSE CurrAddress
  /\ cmd' = [Counted EXCEPT !.HighByte = ~ @]
  /\ Continues /\ UNCHANGED <<memory, eeprom, sent>>

ReadEepromByte ==
  /\ ByteDue("g", "E")
  /\ CurrAddress' = CurrAddress + 2
  /\ cmd' = Counted
  /\ Continues /\ UNCHANGED <<memory, eeprom, sent>>

WriteLowByte ==
  /\ ByteDue("B", "F") /\ ~ cmd.HighByte
  /\ \E b \in Fetched : cmd' = [Counted EXCEPT !.HighByte = TRUE, !.LowByte = b] /\ Received(b)
  /\ Continues /\ UNCHANGED <<memory, eeprom, CurrAddress>>

\* slip: each word goes into the flash as it comes
WriteWordThrough ==
  /\ ByteDue("B", "F") /\ cmd.HighByte
  /\ \E b \in Fetched :
       /\ Received(b)
       /\ flash' = [flash EXCEPT ![PageOf(CurrAddress)][OffsetOf(CurrAddress)] = [lo |-> cmd.LowByte, hi |-> b]]
  /\ cmd' = [Counted EXCEPT !.HighByte = FALSE, !.LowByte = Zero]
  /\ CurrAddress' = CurrAddress + 2
  /\ Continues /\ UNCHANGED <<eeprom, page_buffer, rww, broken>>

WriteHighByte ==
  /\ ByteDue("B", "F") /\ cmd.HighByte
  /\ \E b \in Fetched : boot_page_fill(CurrAddress, [lo |-> cmd.LowByte, hi |-> b]) /\ Received(b)
  /\ cmd' = [Counted EXCEPT !.HighByte = FALSE, !.LowByte = Zero]
  /\ CurrAddress' = CurrAddress + 2
  /\ Continues /\ UNCHANGED eeprom

WriteEepromByte ==
  /\ ByteDue("B", "E")
  /\ \E b \in Fetched : eeprom' = [eeprom EXCEPT ![CurrAddress \div 2] = b] /\ Received(b)
  /\ cmd' = Counted
  /\ CurrAddress' = CurrAddress + 2
  /\ Continues /\ UNCHANGED memory

\* slip: the page is written where the address has moved to
TargetMoved == CurrAddress

Target == cmd.PageStartAddress

EndBlock ==
  /\ InBlock /\ cmd.left = 0
  /\ IF cmd.name = "B" /\ cmd.type = "F" THEN boot_page_write(Target) ELSE UNCHANGED memory
  /\ Ends /\ UNCHANGED <<eeprom, CurrAddress>>

ReadWriteMemoryBlock ==
  \/ BeginBlock \/ RefuseBlock
  \/ ReadFlashByte \/ ReadEepromByte
  \/ WriteLowByte \/ WriteHighByte \/ WriteEepromByte
  \/ EndBlock
-----------------------------------------------------------------------------
Command == Answer \/ ExitCommand \/ CommitPage \/ ReadCell \/ Begin

CDC_Task ==
  \/ Command
  \/ SetAddress \/ TakeByte \/ FillHigh \/ FillLow \/ WriteCell
  \/ EraseRound \/ EraseDone
  \/ ReadWriteMemoryBlock

Init ==
  /\ flash \in [Page -> {BlankPage, [w \in Offset |-> [lo |-> Zero, hi |-> Zero]]}]
  /\ eeprom = [c \in 0 .. CELLS - 1 |-> Bit]
  /\ page_buffer = EmptyBuffer /\ rww = TRUE
  /\ mcusr = {"PORF"} /\ asked = FALSE /\ started = {} /\ broken = FALSE
  /\ running = "reset"
  /\ RunBootloader = TRUE /\ boottimeout = 0 /\ CurrAddress = 0
  /\ cmd = Idle /\ sent = <<>>
  /\ attached = FALSE

Next ==
  \/ Button \/ PowerCycle \/ Watchdog \/ BadInterrupt \/ jmp_bootloader \/ main
  \/ Pulse \/ Leave
  \/ Cable
  \/ CDC_Task

\* The loop, the timer and the watchdog go on, and so does a command that nobody is there
\* to feed; a host that is there need not send or read.
Alone == ~ attached /\ (SetAddress \/ TakeByte \/ FillHigh \/ FillLow \/ WriteCell \/ ReadWriteMemoryBlock)
Spec == /\ Init /\ [][Next]_vars
        /\ WF_vars(main) /\ WF_vars(Pulse) /\ WF_vars(Leave) /\ WF_vars(Watchdog)
        /\ WF_vars(BadInterrupt)
        /\ WF_vars(EraseRound \/ EraseDone) /\ WF_vars(Alone)
-----------------------------------------------------------------------------
\* Types: a block's count runs out where it should, and the address never
\* leaves what the host was promised.
TypeOK ==
  /\ flash \in [Page -> [Offset -> Word]]
  /\ eeprom \in [0 .. CELLS - 1 -> Byte]
  /\ page_buffer \in [Offset -> [lo : Byte, hi : Byte, filled : BOOLEAN]]
  /\ mcusr \subseteq {"EXTRF", "PORF", "WDRF"}
  /\ running \in {"reset", "app", "boot", "exit"}
  /\ rww \in BOOLEAN /\ RunBootloader \in BOOLEAN /\ attached \in BOOLEAN /\ asked \in BOOLEAN
  /\ started \subseteq {"app", "boot"} /\ broken \in BOOLEAN
  /\ boottimeout \in 0 .. COUNTS - 1
  /\ CurrAddress \in 0 .. BOOT_START_ADDR + 2 * CELLS
  /\ InBlock => cmd.left \in 0 .. SPM_PAGESIZE

\* "Unless they pressed the button, get out of the bootloader and into userland"
\* (line 96), or the application asked for it: with an application in the flash
\* nothing else leads into the bootloader, whatever resets came before.
EntersOnRequest ==
  [][running = "reset" /\ running' = "boot" /\ Loaded => asked]_vars

\* A flash block that the host gets confirmed holds, in its page, the words that
\* were sent and blanks, an EEPROM block its bytes, and the address has moved
\* behind it, so that the next block needs none ('a' is answered with 'Y').
\* (The last byte of an odd flash block is dropped.)
BlockWritten ==
  [][EndBlock /\ cmd.name = "B" /\ attached =>
       LET start == cmd.PageStartAddress
           words == Len(sent) \div 2
       IN IF cmd.type = "F"
          THEN /\ cmd.clean => flash'[PageOf(start)] =
                    [w \in Offset |-> IF w < words THEN [lo |-> sent[2 * w + 1], hi |-> sent[2 * w + 2]]
                                      ELSE BlankWord]
               /\ CurrAddress = start + 2 * words
          ELSE /\ \A k \in 1 .. Len(sent) : eeprom[start \div 2 + k - 1] = sent[k]
               /\ CurrAddress = start + 2 * Len(sent)]_vars

\* What a host reads back to verify is the flash, also right after writing:
\* the flash is readable throughout a 'g' block (line 290).
VerifiesFlash == cmd.name = "g" /\ InBlock => rww

\* "Time out" (line 59), where it works: without a host, with an application
\* and a readable flash, an idle bootloader is left for the application unless
\* the button keeps being pressed or the host comes back.
GivesUpAlone ==
  \/ []<><<Button>>_vars
  \/ (running = "boot" /\ ~ attached /\ cmd = Idle /\ rww /\ Loaded) ~> (running = "app" \/ attached)

\* A chip erase ("Clear the application section of flash", line 509) that finds
\* the page buffer clear leaves every page blank, but for those that the loop
\* jumps over: its step of a page and a byte has gained a page on the page
\* boundaries after SPM_PAGESIZE rounds.
ErasesSection ==
  [][EraseDone /\ cmd.clean =>
       \A p \in Page : (p + 1) % (SPM_PAGESIZE + 1) # 0 => flash[p] = BlankPage]_vars

\* An application whose first page was erased for a block that never ended is
\* not started, wherever the power failed or the button was pressed in it: the
\* words wait in the page buffer, which a reset clears, so that the page is
\* written whole or not at all, and the first word that main looks at (line 117)
\* says of its page that it is whole.
BrokenOffNotStarted == [][running # "app" /\ running' = "app" => ~ broken]_vars
-----------------------------------------------------------------------------
\* What a comment says and the code does not do.

\* "continuously runs the bootloader processing routine until instructed to
\* soft-exit, or hard-reset via the watchdog" (line 90): out of the bootloader,
\* nothing but a reset of the hardware leads to its start again.
RunsUntilReset == [][running = "boot" /\ running' = "reset" => Button \/ PowerCycle]_vars
=============================================================================
