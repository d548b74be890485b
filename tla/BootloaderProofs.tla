-------------------------- MODULE BootloaderProofs --------------------------
(***************************************************************************)
(* Proofs about Bootloader for every geometry of flash and EEPROM, every   *)
(* set of block sizes up to a page and every set of bytes.                 *)
(***************************************************************************)
EXTENDS Bootloader, SequenceTheorems, TLAPS

USE SizesAssumption

\* The forms of cmd: between commands or waiting for the bytes that follow; in
\* a chip erase; in a block.
SimpleCmd == [name : {"none"} \cup (Continued \ {"e"})]
EraseCmd == [name : {"e"}, at : Nat, clean : BOOLEAN]
BlockCmd == [name : {"B", "g"}, type : {"F", "E"}, left : 0 .. SPM_PAGESIZE,
             PageStartAddress : Nat, HighByte : BOOLEAN, LowByte : Byte, clean : BOOLEAN]

\* The room that the host promised for the command under way is still there.
RoomLeft ==
  /\ cmd \in [name : {"C", "c"}] => InFlash(2)
  /\ cmd \in [name : {"D"}] => InEeprom(1)
  /\ cmd \in BlockCmd => IF cmd.type = "E" THEN InEeprom(cmd.left)
                         ELSE CurrAddress + cmd.left + (IF cmd.HighByte THEN 1 ELSE 0) <= BOOT_START_ADDR

TypeInv ==
  /\ TypeOK
  /\ cmd \in SimpleCmd \cup EraseCmd \cup BlockCmd
  /\ RoomLeft

\* Commands run in the bootloader only, and not where it has been entered from the
\* application; reset and application find the flash readable; main clears the
\* causes of a reset, and EXTRF is there when asked for.
RunInv ==
  /\ cmd # Idle => running = "boot" /\ "app" \notin started
  /\ running \in {"app", "boot"} => running \in started
  /\ running = "reset" \/ "app" \in started => rww
  /\ running # "reset" => mcusr = {}
  /\ "EXTRF" \in mcusr => asked

\* What the page buffer and the flash hold of a flash block of which k words
\* have been received, when the buffer was clear before.
WordsFilled(k) ==
  /\ flash[PageOf(cmd.PageStartAddress)] = BlankPage
  /\ \A w \in Offset : page_buffer[w] =
       IF w < k THEN [lo |-> sent[2 * w + 1], hi |-> sent[2 * w + 2], filled |-> TRUE] ELSE Unfilled

\* A block being written, as long as the host has been there: the bytes
\* received are where they belong, and the address is behind them.
FlashBlock ==
  /\ cmd.PageStartAddress < BOOT_START_ADDR
  /\ cmd.PageStartAddress % SPM_PAGESIZE = 0
  /\ Len(sent) + cmd.left <= SPM_PAGESIZE
  /\ \E k \in 0 .. WORDS :
       /\ Len(sent) = 2 * k + (IF cmd.HighByte THEN 1 ELSE 0)
       /\ CurrAddress = cmd.PageStartAddress + 2 * k
       /\ cmd.HighByte => cmd.LowByte = sent[Len(sent)]
       /\ cmd.clean => WordsFilled(k)

EepromBlock ==
  /\ CurrAddress = cmd.PageStartAddress + 2 * Len(sent)
  /\ \A k \in 1 .. Len(sent) : eeprom[cmd.PageStartAddress \div 2 + k - 1] = sent[k]

BlockInv ==
  /\ sent \in Seq(Byte)
  /\ ~ InBlock => sent = <<>>
  /\ InBlock /\ cmd.name = "B" /\ attached => IF cmd.type = "F" THEN FlashBlock ELSE EepromBlock
-----------------------------------------------------------------------------
LEMMA Sizes ==
  /\ SPM_PAGESIZE \in Nat /\ SPM_PAGESIZE = 2 * WORDS
  /\ PAGES * WORDS \in Nat
  /\ BOOT_START_ADDR = 2 * (PAGES * WORDS)
  /\ BOOT_START_ADDR >= 2
<1>1. SPM_PAGESIZE \in Nat /\ SPM_PAGESIZE = 2 * WORDS
  BY DEF SPM_PAGESIZE
<1>2. PAGES * WORDS \in Nat /\ PAGES * WORDS >= 1
  OBVIOUS
<1>3. PAGES * (2 * WORDS) = 2 * (PAGES * WORDS)
  OBVIOUS
<1> QED
  BY <1>1, <1>2, <1>3 DEF BOOT_START_ADDR

\* A form is told by its fields.
LEMMA Forms ==
  /\ cmd \in SimpleCmd \cup EraseCmd => ~ InBlock
  /\ cmd \in BlockCmd => InBlock /\ cmd \notin SimpleCmd /\ cmd \notin EraseCmd
  /\ cmd \in EraseCmd => cmd \notin SimpleCmd
  /\ Idle \in SimpleCmd
<1>1. cmd \in SimpleCmd => DOMAIN cmd = {"name"}
  BY DEF SimpleCmd
<1>2. cmd \in EraseCmd => DOMAIN cmd = {"name", "at", "clean"}
  BY DEF EraseCmd
<1>3. cmd \in BlockCmd => "left" \in DOMAIN cmd
  BY DEF BlockCmd
<1>4. Idle \in SimpleCmd
  BY DEF Idle, SimpleCmd
<1> QED
  BY <1>1, <1>2, <1>3, <1>4 DEF InBlock

\* The memory operations keep the types of flash and page buffer.
MemoryOK ==
  /\ flash \in [Page -> [Offset -> Word]]
  /\ page_buffer \in [Offset -> [lo : Byte, hi : Byte, filled : BOOLEAN]]
  /\ rww \in BOOLEAN /\ broken \in BOOLEAN

LEMMA Blanks ==
  /\ BlankPage \in [Offset -> Word]
  /\ EmptyBuffer \in [Offset -> [lo : Byte, hi : Byte, filled : BOOLEAN]]
<1>1. BlankWord \in Word
  BY DEF BlankWord, Word, Byte
<1>2. Unfilled \in [lo : Byte, hi : Byte, filled : BOOLEAN]
  BY DEF Unfilled, Byte
<1> QED
  BY <1>1, <1>2 DEF BlankPage, EmptyBuffer

LEMMA WrittenType ==
  ASSUME MemoryOK, NEW old \in [Offset -> Word]
  PROVE  Written(old) \in [Offset -> Word]
<1> SUFFICES ASSUME NEW w \in Offset
             PROVE  [lo |-> old[w].lo \cap page_buffer[w].lo,
                     hi |-> old[w].hi \cap page_buffer[w].hi] \in Word
  BY DEF Written
<1>1. old[w] \in [lo : Byte, hi : Byte] /\ old[w].lo \in Byte /\ old[w].hi \in Byte
  BY DEF Word
<1>2. old[w].lo \cap page_buffer[w].lo \in Byte /\ old[w].hi \cap page_buffer[w].hi \in Byte
  BY <1>1 DEF Byte
<1> QED
  BY <1>2 DEF Word

LEMMA PageType ==
  ASSUME MemoryOK, NEW a, NEW p \in [Offset -> Word]
  PROVE  [flash EXCEPT ![PageOf(a)] = p] \in [Page -> [Offset -> Word]]
  BY DEF MemoryOK

LEMMA EraseMemory ==
  ASSUME MemoryOK, NEW a, boot_page_erase(a)
  PROVE  MemoryOK'
  BY Blanks, PageType DEF boot_page_erase, MemoryOK

LEMMA WriteMemory ==
  ASSUME MemoryOK, NEW a, boot_page_write(a)
  PROVE  MemoryOK'
<1>1. flash' = [flash EXCEPT ![PageOf(a)] = Written(flash[PageOf(a)])]
  BY DEF boot_page_write
<1>2. flash' \in [Page -> [Offset -> Word]]
  <2>1. CASE PageOf(a) \in Page
    BY <1>1, <2>1, WrittenType, PageType DEF MemoryOK
  <2>2. CASE PageOf(a) \notin Page
    BY <1>1, <2>2 DEF MemoryOK
  <2> QED
    BY <2>1, <2>2
<1> QED
  BY <1>2, Blanks DEF boot_page_write, MemoryOK

LEMMA FillMemory ==
  ASSUME MemoryOK, NEW a, NEW lo \in Byte, NEW hi \in Byte, boot_page_fill(a, [lo |-> lo, hi |-> hi])
  PROVE  MemoryOK'
<1>1. UNCHANGED <<flash, rww, broken>>
  BY DEF boot_page_fill
<1>2. page_buffer' \in [Offset -> [lo : Byte, hi : Byte, filled : BOOLEAN]]
  <2> DEFINE b == [lo |-> lo, hi |-> hi, filled |-> TRUE]
  <2>1. b \in [lo : Byte, hi : Byte, filled : BOOLEAN]
    OBVIOUS
  <2>2. page_buffer' = [page_buffer EXCEPT ![OffsetOf(a)] = b] \/ UNCHANGED page_buffer
    BY DEF boot_page_fill
  <2> HIDE DEF b
  <2> QED
    BY <2>1, <2>2 DEF MemoryOK
<1> QED
  BY <1>1, <1>2 DEF MemoryOK

-----------------------------------------------------------------------------
\* Types: every action keeps TypeInv.

LEMMA InitTypeInv == Init => TypeInv
<1> SUFFICES ASSUME Init PROVE TypeInv
  OBVIOUS
<1>1. flash \in [Page -> [Offset -> Word]]
  <2>1. [w \in Offset |-> [lo |-> Zero, hi |-> Zero]] \in [Offset -> Word]
    BY DEF Word, Zero, Byte
  <2> QED
    BY <2>1, Blanks DEF Init
<1>2. eeprom \in [0 .. CELLS - 1 -> Byte]
  BY DEF Init, Byte
<1>3. cmd \in SimpleCmd /\ ~ InBlock /\ cmd \notin BlockCmd
  BY Forms DEF Init
<1>4. RoomLeft
  BY <1>3 DEF Init, RoomLeft, Idle
<1>5. TypeOK
  <2>1. page_buffer \in [Offset -> [lo : Byte, hi : Byte, filled : BOOLEAN]]
    BY Blanks DEF Init
  <2>2. boottimeout \in 0 .. COUNTS - 1 /\ CurrAddress \in 0 .. BOOT_START_ADDR + 2 * CELLS
    BY Sizes DEF Init
  <2>3. /\ mcusr \subseteq {"EXTRF", "PORF", "WDRF"} /\ running \in {"reset", "app", "boot", "exit"}
        /\ rww \in BOOLEAN /\ RunBootloader \in BOOLEAN /\ attached \in BOOLEAN /\ asked \in BOOLEAN
        /\ started \subseteq {"app", "boot"} /\ broken \in BOOLEAN
    BY DEF Init
  <2> QED
    BY <1>1, <1>2, <1>3, <2>1, <2>2, <2>3 DEF TypeOK
<1> QED
  BY <1>3, <1>4, <1>5 DEF TypeInv

\* A command that ends leaves nothing to promise.
LEMMA IdleTypeInv ==
  ASSUME cmd' = Idle,
         MemoryOK',
         eeprom' \in [0 .. CELLS - 1 -> Byte],
         mcusr' \subseteq {"EXTRF", "PORF", "WDRF"},
         running' \in {"reset", "app", "boot", "exit"},
         RunBootloader' \in BOOLEAN, attached' \in BOOLEAN, asked' \in BOOLEAN,
         started' \subseteq {"app", "boot"},
         boottimeout' \in 0 .. COUNTS - 1,
         CurrAddress' \in 0 .. BOOT_START_ADDR + 2 * CELLS
  PROVE  TypeInv'
<1>1. cmd' \in SimpleCmd /\ cmd' \notin BlockCmd /\ ~ InBlock'
  BY DEF Idle, SimpleCmd, BlockCmd, InBlock
<1>2. RoomLeft'
  BY <1>1 DEF RoomLeft, Idle
<1> QED
  BY <1>1, <1>2 DEF TypeInv, TypeOK, MemoryOK

LEMMA ResetTypeInv ==
  ASSUME TypeInv, Button \/ PowerCycle \/ Watchdog \/ BadInterrupt \/ jmp_bootloader
  PROVE  TypeInv'
<1>1. PICK causes \in SUBSET {"EXTRF", "PORF", "WDRF"}, meant \in BOOLEAN : Restart(causes, meant)
  BY DEF Button, PowerCycle, Watchdog, BadInterrupt, jmp_bootloader, Reset, TypeInv, TypeOK
<1>2. MemoryOK'
  BY <1>1, Blanks DEF Button, PowerCycle, Watchdog, BadInterrupt, jmp_bootloader, Reset, Restart, TypeInv, TypeOK, MemoryOK
<1>3. started' \subseteq {"app", "boot"}
  BY DEF Button, PowerCycle, Watchdog, BadInterrupt, jmp_bootloader, Reset, TypeInv, TypeOK
<1> QED
  BY <1>1, <1>2, <1>3, Sizes, IdleTypeInv DEF Restart, TypeInv, TypeOK

\* Nothing of TypeInv but the causes, the flags and the timeout changes in main,
\* its loop and with the cable.
LEMMA MainTypeInv ==
  ASSUME TypeInv, main \/ Pulse \/ Leave \/ Cable
  PROVE  TypeInv'
<1>1. UNCHANGED <<memory, eeprom, CurrAddress, cmd, sent>>
  BY DEF main, Pulse, Leave, Cable
<1>2. RoomLeft' /\ (cmd \in SimpleCmd \cup EraseCmd \cup BlockCmd)' /\ (InBlock => cmd.left \in 0 .. SPM_PAGESIZE)'
  BY <1>1 DEF TypeInv, TypeOK, RoomLeft, InFlash, InEeprom, InBlock
<1>3. boottimeout' \in 0 .. COUNTS - 1
  BY DEF TypeInv, TypeOK, main, Pulse, Leave, Cable
<1>4. /\ mcusr' \subseteq {"EXTRF", "PORF", "WDRF"} /\ running' \in {"reset", "app", "boot", "exit"}
      /\ RunBootloader' \in BOOLEAN /\ attached' \in BOOLEAN /\ asked' \in BOOLEAN
      /\ started' \subseteq {"app", "boot"}
  BY DEF TypeInv, TypeOK, main, Pulse, Leave, Cable, control, Unplug, Plug, TimedOut
<1> QED
  BY <1>1, <1>2, <1>3, <1>4 DEF TypeInv, TypeOK, memory

\* Commands that end at once, and the beginning of the others.
LEMMA CommandTypeInv ==
  ASSUME TypeInv, Command
  PROVE  TypeInv'
<1>1. /\ cmd = Idle /\ boottimeout' = 0
      /\ UNCHANGED <<eeprom, mcusr, running, asked, started, attached, sent>>
      /\ RunBootloader' \in BOOLEAN
  BY DEF Command, Answer, ExitCommand, CommitPage, ReadCell, Begin, Sends, Loop, TypeInv, TypeOK
<1>2. MemoryOK'
  <2>1. MemoryOK
    BY DEF TypeInv, TypeOK, MemoryOK
  <2>2. CASE CommitPage
    BY <2>1, <2>2, WriteMemory DEF CommitPage
  <2>3. CASE Answer \/ ExitCommand \/ ReadCell \/ Begin
    BY <2>1, <2>3 DEF Answer, ExitCommand, ReadCell, Begin, memory, MemoryOK
  <2> QED
    BY <2>2, <2>3 DEF Command
<1>3. CurrAddress' \in 0 .. BOOT_START_ADDR + 2 * CELLS
  <2>1. CASE ReadCell
    <3>1. CurrAddress \in Nat /\ CurrAddress \div 2 + 1 <= CELLS /\ CurrAddress' = CurrAddress + 2
      BY <2>1 DEF ReadCell, Sends, InEeprom, TypeInv, TypeOK
    <3> QED
      BY <3>1, Sizes
  <2>2. CASE Answer \/ ExitCommand \/ CommitPage \/ Begin
    BY <2>2 DEF Answer, ExitCommand, CommitPage, Begin, TypeInv, TypeOK
  <2> QED
    BY <2>1, <2>2 DEF Command
<1>4. CASE Answer \/ ExitCommand \/ CommitPage \/ ReadCell
  <2>1. cmd' = Idle
    BY <1>1, <1>4 DEF Answer, ExitCommand, CommitPage, ReadCell
  <2> QED
    BY <1>1, <1>2, <1>3, <2>1, IdleTypeInv DEF TypeInv, TypeOK
<1>5. CASE Begin
  <2>1. PICK letter \in Continued :
          /\ Sends(letter)
          /\ cmd' = IF letter = "e" THEN [name |-> "e", at |-> 0, clean |-> page_buffer = EmptyBuffer]
                    ELSE [name |-> letter]
    BY <1>5 DEF Begin
  <2>2. CurrAddress' = CurrAddress
    BY <1>5 DEF Begin
  <2>3. CASE letter = "e"
    <3>1. cmd' \in EraseCmd /\ ~ InBlock' /\ cmd' \notin SimpleCmd /\ cmd' \notin BlockCmd
      BY <2>1, <2>3 DEF EraseCmd, InBlock, SimpleCmd, BlockCmd
    <3>2. RoomLeft'
      BY <2>1, <2>3, <3>1 DEF RoomLeft
    <3> QED
      BY <1>1, <1>2, <1>3, <3>1, <3>2, Sizes DEF TypeInv, TypeOK, MemoryOK
  <2>4. CASE letter # "e"
    <3>1. cmd' = [name |-> letter] /\ cmd' \in SimpleCmd /\ ~ InBlock' /\ cmd' \notin BlockCmd
      BY <2>1, <2>4 DEF SimpleCmd, InBlock, BlockCmd
    <3>2. /\ cmd' \in [name : {"C", "c"}] => letter \in {"C", "c"}
          /\ cmd' \in [name : {"D"}] => letter = "D"
      BY <3>1
    <3>3. RoomLeft'
      BY <2>1, <2>2, <3>1, <3>2 DEF RoomLeft, Sends, InFlash, InEeprom
    <3> QED
      BY <1>1, <1>2, <1>3, <3>1, <3>3 DEF TypeInv, TypeOK, MemoryOK
  <2> QED
    BY <2>3, <2>4
<1> QED
  BY <1>4, <1>5 DEF Command

\* The second step of a command with one parameter, the end of a chip erase and
\* the end of a block.
LEMMA EndTypeInv ==
  ASSUME TypeInv, SetAddress \/ TakeByte \/ FillHigh \/ FillLow \/ WriteCell
                  \/ EraseDone \/ RefuseBlock \/ EndBlock
  PROVE  TypeInv'
<1>1. Ends
  BY DEF SetAddress, TakeByte, FillHigh, FillLow, WriteCell, EraseDone, RefuseBlock, EndBlock
<1>2. Fetched \subseteq Byte /\ Zero \in Byte
  BY DEF Fetched, Zero, Byte
<1>3. MemoryOK'
  <2>1. MemoryOK
    BY DEF TypeInv, TypeOK, MemoryOK
  <2>2. CASE FillHigh \/ FillLow
    BY <1>2, <2>1, <2>2, FillMemory DEF FillHigh, FillLow
  <2>3. CASE EndBlock
    <3>1. CASE cmd.name = "B" /\ cmd.type = "F"
      BY <2>1, <2>3, <3>1, WriteMemory DEF EndBlock
    <3>2. CASE ~ (cmd.name = "B" /\ cmd.type = "F")
      BY <2>1, <2>3, <3>2 DEF EndBlock, memory, MemoryOK
    <3> QED
      BY <3>1, <3>2
  <2>4. CASE UNCHANGED memory
    BY <2>1, <2>4 DEF memory, MemoryOK
  <2> QED
    BY <2>2, <2>3, <2>4 DEF SetAddress, TakeByte, WriteCell, EraseDone, RefuseBlock
<1>4. eeprom' \in [0 .. CELLS - 1 -> Byte]
  <2>1. CASE WriteCell
    BY <1>2, <2>1 DEF WriteCell, TypeInv, TypeOK
  <2>2. CASE UNCHANGED eeprom
    BY <2>2 DEF TypeInv, TypeOK
  <2> QED
    BY <2>1, <2>2 DEF SetAddress, TakeByte, FillHigh, FillLow, EraseDone, RefuseBlock, EndBlock
<1>5. CurrAddress' \in 0 .. BOOT_START_ADDR + 2 * CELLS
  <2>1. CurrAddress \in Nat
    BY DEF TypeInv, TypeOK
  <2>2. CASE SetAddress
    <3>1. CurrAddress' \in {2 * w : w \in 0 .. PAGES * WORDS - 1} \cup {0}
      BY <2>2 DEF SetAddress
    <3> QED
      BY <3>1, Sizes
  <2>3. CASE FillLow
    <3>1. CurrAddress + 2 <= BOOT_START_ADDR /\ CurrAddress' = CurrAddress + 2
      BY <2>3 DEF FillLow, TypeInv, RoomLeft, InFlash
    <3> QED
      BY <2>1, <3>1, Sizes
  <2>4. CASE WriteCell
    <3>1. CurrAddress \div 2 + 1 <= CELLS /\ CurrAddress' = CurrAddress + 2
      BY <2>4 DEF WriteCell, TypeInv, RoomLeft, InEeprom
    <3> QED
      BY <2>1, <3>1, Sizes
  <2>5. CASE UNCHANGED CurrAddress
    BY <2>5 DEF TypeInv, TypeOK
  <2> QED
    BY <2>2, <2>3, <2>4, <2>5 DEF TakeByte, FillHigh, EraseDone, RefuseBlock, EndBlock
<1> QED
  BY <1>1, <1>3, <1>4, <1>5, IdleTypeInv DEF Ends, Continues, control, TypeInv, TypeOK

LEMMA EraseRoundTypeInv ==
  ASSUME TypeInv, EraseRound
  PROVE  TypeInv'
<1>1. cmd \in EraseCmd
  BY DEF EraseRound, TypeInv, SimpleCmd, BlockCmd, Continued
<1>2. cmd' \in EraseCmd /\ ~ InBlock' /\ cmd' \notin SimpleCmd /\ cmd' \notin BlockCmd
  <2>1. cmd.at + SPM_PAGESIZE + 1 \in Nat
    BY <1>1, Sizes DEF EraseCmd
  <2>2. cmd' = [cmd EXCEPT !.at = cmd.at + SPM_PAGESIZE + 1]
    BY DEF EraseRound
  <2>3. cmd' \in EraseCmd
    BY <1>1, <2>1, <2>2 DEF EraseCmd
  <2> QED
    BY <2>3 DEF EraseCmd, InBlock, SimpleCmd, BlockCmd
<1>3. RoomLeft'
  BY <1>2 DEF RoomLeft, EraseCmd
<1>4. MemoryOK'
  <2>1. MemoryOK
    BY DEF TypeInv, TypeOK, MemoryOK
  <2>2. flash' \in [Page -> [Offset -> Word]]
    BY <2>1, Blanks, WrittenType, PageType DEF EraseRound
  <2> QED
    BY <2>1, <2>2, Blanks DEF EraseRound, MemoryOK
<1> QED
  BY <1>2, <1>3, <1>4 DEF EraseRound, Continues, control, TypeInv, TypeOK, MemoryOK

LEMMA BeginBlockTypeInv ==
  ASSUME TypeInv, BeginBlock
  PROVE  /\ TypeInv'
         /\ cmd' \in BlockCmd
<1>1. PICK n \in BlockSize, type \in {"F", "E"} :
        /\ HostAsks(type, n)
        /\ Prepare(type)
        /\ cmd' = [name |-> cmd.name, type |-> type, left |-> n, PageStartAddress |-> CurrAddress,
                   HighByte |-> FALSE, LowByte |-> Zero, clean |-> page_buffer = EmptyBuffer]
  BY DEF BeginBlock
<1>2. /\ cmd.name \in {"B", "g"} /\ n \in 0 .. SPM_PAGESIZE /\ CurrAddress \in Nat
      /\ UNCHANGED <<control, boottimeout, attached, eeprom, CurrAddress>>
  BY Sizes DEF BeginBlock, TypeInv, TypeOK, Continues
<1>3. cmd' \in BlockCmd
  BY <1>1, <1>2 DEF BlockCmd, Zero, Byte
<1>4. cmd' \notin SimpleCmd /\ InBlock' /\ cmd'.left \in 0 .. SPM_PAGESIZE
  BY <1>3 DEF BlockCmd, SimpleCmd, InBlock
<1>5. RoomLeft'
  <2>1. ~ (cmd' \in [name : {"C", "c"}]) /\ ~ (cmd' \in [name : {"D"}])
    BY <1>3 DEF BlockCmd
  <2>2. CASE type = "E"
    BY <1>1, <1>2, <2>1, <2>2 DEF RoomLeft, HostAsks, InEeprom
  <2>3. CASE type = "F"
    <3>1. CurrAddress + n <= BOOT_START_ADDR
      BY <1>1, <2>3 DEF HostAsks, InFlash
    <3>2. cmd'.type = "F" /\ cmd'.left = n /\ cmd'.HighByte = FALSE
      BY <1>1, <2>3
    <3> QED
      BY <1>2, <2>1, <3>1, <3>2, Sizes DEF RoomLeft
  <2> QED
    BY <2>2, <2>3
<1>6. MemoryOK'
  <2>1. MemoryOK
    BY DEF TypeInv, TypeOK, MemoryOK
  <2>2. boot_rww_enable \/ boot_page_erase(CurrAddress) \/ UNCHANGED memory
    BY <1>1 DEF Prepare
  <2> QED
    BY <2>1, <2>2, EraseMemory, Blanks DEF boot_rww_enable, memory, MemoryOK
<1> QED
  BY <1>2, <1>3, <1>4, <1>5, <1>6 DEF control, TypeInv, TypeOK, MemoryOK

\* Each byte of a block uses up one byte of the room.
LEMMA ByteTypeInv ==
  ASSUME TypeInv, ReadFlashByte \/ ReadEepromByte \/ WriteLowByte \/ WriteHighByte \/ WriteEepromByte
  PROVE  /\ TypeInv'
         /\ cmd \in BlockCmd /\ cmd' \in BlockCmd
<1>1. /\ InBlock /\ cmd.left > 0
      /\ UNCHANGED <<control, boottimeout, attached>>
      /\ cmd.type = IF ReadEepromByte \/ WriteEepromByte THEN "E" ELSE "F"
  BY DEF ReadFlashByte, ReadEepromByte, WriteLowByte, WriteHighByte, WriteEepromByte, ByteDue, Continues
<1>2. cmd \in BlockCmd
  BY <1>1, Forms DEF TypeInv
<1>3. Fetched \subseteq Byte /\ Zero \in Byte
  BY DEF Fetched, Zero, Byte
<1>4. cmd.left \in Nat /\ CurrAddress \in Nat /\ cmd.left - 1 \in 0 .. SPM_PAGESIZE
  BY <1>1, <1>2, Sizes DEF BlockCmd, TypeInv, TypeOK
<1>5. /\ cmd' \in BlockCmd /\ cmd'.left = cmd.left - 1 /\ cmd'.type = cmd.type
      /\ cmd'.HighByte = IF cmd.type = "F" THEN ~ cmd.HighByte ELSE cmd.HighByte
  <2>1. CASE ReadFlashByte
    BY <1>1, <1>2, <1>4, <2>1 DEF ReadFlashByte, ByteDue, Counted, BlockCmd
  <2>2. CASE ReadEepromByte \/ WriteEepromByte
    BY <1>1, <1>2, <1>4, <2>2 DEF ReadEepromByte, WriteEepromByte, ByteDue, Counted, BlockCmd
  <2>3. CASE WriteLowByte
    BY <1>1, <1>2, <1>3, <1>4, <2>3 DEF WriteLowByte, ByteDue, Counted, BlockCmd
  <2>4. CASE WriteHighByte
    BY <1>1, <1>2, <1>3, <1>4, <2>4 DEF WriteHighByte, ByteDue, Counted, BlockCmd
  <2> QED
    BY <2>1, <2>2, <2>3, <2>4
<1>6. CurrAddress' = IF cmd.type = "E" \/ cmd.HighByte THEN CurrAddress + 2 ELSE CurrAddress
  BY <1>1 DEF ReadFlashByte, ReadEepromByte, WriteLowByte, WriteHighByte, WriteEepromByte, ByteDue
<1>7. /\ RoomLeft'
      /\ CurrAddress' \in 0 .. BOOT_START_ADDR + 2 * CELLS
  <2>1. ~ (cmd' \in [name : {"C", "c"}]) /\ ~ (cmd' \in [name : {"D"}])
    BY <1>5 DEF BlockCmd
  <2>2. CASE cmd.type = "E"
    <3>1. CurrAddress \div 2 + cmd.left <= CELLS /\ CurrAddress' = CurrAddress + 2
      BY <1>2, <1>6, <2>2 DEF TypeInv, RoomLeft, InEeprom
    <3>2. CurrAddress' \div 2 + (cmd.left - 1) <= CELLS /\ CurrAddress' \in 0 .. BOOT_START_ADDR + 2 * CELLS
      BY <1>1, <1>4, <3>1, Sizes
    <3> QED
      BY <1>5, <2>1, <2>2, <3>2 DEF RoomLeft, InEeprom
  <2>3. CASE cmd.type = "F"
    <3>1. CurrAddress + cmd.left + (IF cmd.HighByte THEN 1 ELSE 0) <= BOOT_START_ADDR
      BY <1>2, <2>3 DEF TypeInv, RoomLeft
    <3>2. CASE cmd.HighByte
      <4>1. CurrAddress' = CurrAddress + 2 /\ ~ cmd'.HighByte
        BY <1>5, <1>6, <2>3, <3>2
      <4> QED
        BY <1>1, <1>4, <1>5, <2>1, <2>3, <3>1, <3>2, <4>1, Sizes DEF RoomLeft
    <3>3. CASE ~ cmd.HighByte
      <4>1. CurrAddress' = CurrAddress /\ cmd'.HighByte
        BY <1>5, <1>6, <2>3, <3>3
      <4> QED
        BY <1>1, <1>4, <1>5, <2>1, <2>3, <3>1, <3>3, <4>1, Sizes DEF RoomLeft
    <3> QED
      BY <3>2, <3>3
  <2> QED
    BY <1>1, <2>2, <2>3
<1>8. MemoryOK'
  <2>1. MemoryOK
    BY DEF TypeInv, TypeOK, MemoryOK
  <2>2. CASE WriteHighByte
    <3>1. cmd.LowByte \in Byte
      BY <1>2 DEF BlockCmd
    <3> QED
      BY <1>3, <2>1, <2>2, <3>1, FillMemory DEF WriteHighByte
  <2>3. CASE UNCHANGED memory
    BY <2>1, <2>3 DEF memory, MemoryOK
  <2> QED
    BY <2>2, <2>3 DEF ReadFlashByte, ReadEepromByte, WriteLowByte, WriteEepromByte
<1>9. eeprom' \in [0 .. CELLS - 1 -> Byte]
  <2>1. CASE WriteEepromByte
    BY <1>3, <2>1 DEF WriteEepromByte, TypeInv, TypeOK
  <2>2. CASE UNCHANGED eeprom
    BY <2>2 DEF TypeInv, TypeOK
  <2> QED
    BY <2>1, <2>2 DEF ReadFlashByte, ReadEepromByte, WriteLowByte, WriteHighByte
<1>10. cmd'.left \in 0 .. SPM_PAGESIZE
  BY <1>5 DEF BlockCmd
<1> QED
  BY <1>1, <1>2, <1>5, <1>7, <1>8, <1>9, <1>10 DEF control, TypeInv, TypeOK, MemoryOK

LEMMA NextTypeInv == TypeInv /\ [Next]_vars => TypeInv'
<1> SUFFICES ASSUME TypeInv, [Next]_vars PROVE TypeInv'
  OBVIOUS
<1>1. CASE UNCHANGED vars
  BY <1>1 DEF vars, memory, control, TypeInv, TypeOK, RoomLeft, InFlash, InEeprom, InBlock
<1>2. CASE CDC_Task
  BY <1>2, CommandTypeInv, EndTypeInv, EraseRoundTypeInv, BeginBlockTypeInv, ByteTypeInv
     DEF CDC_Task, ReadWriteMemoryBlock
<1> QED
  BY <1>1, <1>2, ResetTypeInv, MainTypeInv DEF Next

LEMMA AlwaysTypeInv == Spec => []TypeInv
  BY InitTypeInv, NextTypeInv, PTL DEF Spec

\* BootloaderCDC.c: for every geometry a block's count and the address stay
\* inside what the host was promised, wherever it is unplugged.
THEOREM TypeCorrect == Spec => []TypeOK
  BY AlwaysTypeInv, PTL DEF TypeInv

-----------------------------------------------------------------------------
\* The hand-over between reset, bootloader and application.

LEMMA NotIdle ==
  /\ cmd.name # "none" => cmd # Idle
  /\ InBlock => cmd # Idle
  BY DEF Idle, InBlock

\* A command runs in the bootloader and leaves alone what leads there.
LEMMA TaskRuns ==
  ASSUME TypeInv, RunInv, CDC_Task
  PROVE  /\ running = "boot" /\ "app" \notin started
         /\ UNCHANGED <<mcusr, running, asked, started>>
<1>1. CASE Command
  <2>1. running = "boot" /\ ~ Astray /\ UNCHANGED <<mcusr, running, asked, started>>
    BY <1>1 DEF Command, Answer, ExitCommand, CommitPage, ReadCell, Begin, Sends, Loop
  <2>2. "boot" \in started /\ started \subseteq {"app", "boot"}
    BY <2>1 DEF RunInv, TypeInv, TypeOK
  <2>3. "app" \notin started
    BY <2>1, <2>2 DEF Astray
  <2> QED
    BY <2>1, <2>3
<1>2. CASE ~ Command
  <2>1. UNCHANGED control
    BY <1>2 DEF CDC_Task, ReadWriteMemoryBlock, SetAddress, TakeByte, FillHigh, FillLow, WriteCell,
                EraseRound, EraseDone, BeginBlock, RefuseBlock, ReadFlashByte, ReadEepromByte,
                WriteLowByte, WriteHighByte, WriteEepromByte, EndBlock, Ends, Continues
  <2>2. cmd # Idle
    <3>1. CASE SetAddress \/ TakeByte \/ FillHigh \/ FillLow \/ WriteCell \/ BeginBlock \/ RefuseBlock
      BY <3>1 DEF SetAddress, TakeByte, FillHigh, FillLow, WriteCell, BeginBlock, RefuseBlock, Idle
    <3>2. CASE EraseRound \/ EraseDone
      BY <3>2, NotIdle DEF EraseRound, EraseDone
    <3>3. CASE ReadFlashByte \/ ReadEepromByte \/ WriteLowByte \/ WriteHighByte \/ WriteEepromByte \/ EndBlock
      BY <3>3, NotIdle DEF ReadFlashByte, ReadEepromByte, WriteLowByte, WriteHighByte,
                           WriteEepromByte, EndBlock, ByteDue
    <3> QED
      BY <1>2, <3>1, <3>2, <3>3 DEF CDC_Task, ReadWriteMemoryBlock
  <2> QED
    BY <2>1, <2>2 DEF RunInv, control
<1> QED
  BY <1>1, <1>2

LEMMA NextRunInv == TypeInv /\ RunInv /\ [Next]_vars => RunInv'
<1> SUFFICES ASSUME TypeInv, RunInv, [Next]_vars PROVE RunInv'
  OBVIOUS
<1>1. CASE UNCHANGED vars
  BY <1>1 DEF vars, memory, control, RunInv
<1>2. CASE CDC_Task
  BY <1>2, TaskRuns DEF RunInv
<1>3. CASE Button \/ PowerCycle
  BY <1>3 DEF Button, PowerCycle, Reset, Restart, RunInv
<1>4. CASE Watchdog
  <2>1. mcusr = {} /\ mcusr' = mcusr \cup {"WDRF"}
    BY <1>4 DEF Watchdog, Reset, Restart, RunInv
  <2>2. "EXTRF" \notin mcusr'
    BY <2>1
  <2> QED
    BY <1>4, <2>2 DEF Watchdog, Reset, Restart, RunInv
<1>5. CASE jmp_bootloader
  BY <1>5 DEF jmp_bootloader, Restart, RunInv
<1>6. CASE main
  BY <1>6 DEF main, memory, RunInv
<1>7. CASE Pulse \/ Leave
  BY <1>7 DEF Pulse, Leave, Loop, memory, RunInv
<1>8. CASE Cable
  BY <1>8 DEF Cable, control, memory, RunInv
<1>9. CASE BadInterrupt
  <2>1. running # "reset" /\ "app" \in started /\ mcusr' = mcusr
    BY <1>9 DEF BadInterrupt, Astray, Restart
  <2>2. rww' /\ mcusr' = {}
    BY <1>9, <2>1 DEF BadInterrupt, RunInv
  <2> QED
    BY <1>9, <2>2 DEF BadInterrupt, Restart, RunInv
<1> QED
  BY <1>1, <1>2, <1>3, <1>4, <1>5, <1>6, <1>7, <1>8, <1>9 DEF Next

LEMMA AlwaysRunInv == Spec => []RunInv
<1>1. Init => RunInv
  BY DEF Init, RunInv
<1> QED
  BY <1>1, NextRunInv, AlwaysTypeInv, PTL DEF Spec

\* Word 0 is in the first page.
LEMMA FirstWord == pgm_read_word(0) = IF rww THEN flash[0][0] ELSE BlankWord
<1>1. PageOf(0) = 0 /\ OffsetOf(0) = 0
  BY Sizes DEF PageOf, OffsetOf
<1> QED
  BY <1>1 DEF pgm_read_word

\* Only main leaves the reset, and only main starts the application.
LEMMA MainDecides ==
  ASSUME TypeInv, RunInv, [Next]_vars
  PROVE  /\ running = "reset" /\ running' # "reset" => main
         /\ running # "app" /\ running' = "app" => main
<1>1. CASE CDC_Task
  BY <1>1, TaskRuns
<1>2. CASE UNCHANGED vars
  BY <1>2 DEF vars, control
<1> QED
  BY <1>1, <1>2 DEF Next, Button, PowerCycle, Watchdog, BadInterrupt, jmp_bootloader, Reset, Restart, Pulse, Leave, Loop,
                    Cable, control

\* BootloaderCDC.c:96: with an application in the flash, only the button or the
\* application's own request leads into the bootloader, however many resets of
\* other kinds came before and wherever they came.
THEOREM EntryOnRequest == Spec => EntersOnRequest
<1>1. TypeInv /\ RunInv /\ [Next]_vars
        => [running = "reset" /\ running' = "boot" /\ Loaded => asked]_vars
  <2> SUFFICES ASSUME TypeInv, RunInv, [Next]_vars, running = "reset", running' = "boot", Loaded
               PROVE  asked
    OBVIOUS
  <2>1. main
    BY MainDecides
  <2>2. rww /\ pgm_read_word(0) # BlankWord
    BY FirstWord DEF RunInv, Loaded
  <2>3. "EXTRF" \in mcusr
    BY <2>1, <2>2 DEF main
  <2> QED
    BY <2>3 DEF RunInv
<1> QED
  BY <1>1, AlwaysTypeInv, AlwaysRunInv, PTL DEF Spec, EntersOnRequest

\* As long as the first page's block has not ended, the page is blank.
BrokenInv == broken => flash[0] = BlankPage

LEMMA FirstPage == 0 \in Page
  BY DEF Page

LEMMA EraseBroken ==
  ASSUME MemoryOK, BrokenInv, NEW a, boot_page_erase(a)
  PROVE  BrokenInv'
  BY FirstPage DEF boot_page_erase, BrokenInv, MemoryOK

LEMMA WriteBroken ==
  ASSUME MemoryOK, BrokenInv, NEW a, NEW page,
         flash' = [flash EXCEPT ![PageOf(a)] = page],
         broken' = (broken /\ PageOf(a) # 0)
  PROVE  BrokenInv'
  BY FirstPage DEF BrokenInv, MemoryOK

LEMMA NextBrokenInv == TypeInv /\ BrokenInv /\ [Next]_vars => BrokenInv'
<1> SUFFICES ASSUME TypeInv, BrokenInv, [Next]_vars PROVE BrokenInv'
  OBVIOUS
<1>1. MemoryOK
  BY DEF TypeInv, TypeOK, MemoryOK
<1>2. CASE UNCHANGED <<flash, broken>>
  BY <1>2 DEF BrokenInv
<1>3. CASE UNCHANGED vars \/ main \/ Pulse \/ Leave \/ Cable
  BY <1>2, <1>3 DEF vars, memory, main, Pulse, Leave, Cable
<1>4. CASE Button \/ PowerCycle \/ Watchdog \/ BadInterrupt \/ jmp_bootloader
  BY <1>2, <1>4 DEF Button, PowerCycle, Watchdog, BadInterrupt, jmp_bootloader, Reset, Restart
<1>5. CASE Answer \/ ExitCommand \/ ReadCell \/ Begin
  BY <1>2, <1>5 DEF Answer, ExitCommand, ReadCell, Begin, memory
<1>6. CASE CommitPage
  BY <1>1, <1>6, WriteBroken DEF CommitPage, boot_page_write
<1>7. CASE SetAddress \/ TakeByte \/ WriteCell \/ EraseDone \/ RefuseBlock
            \/ ReadFlashByte \/ ReadEepromByte \/ WriteLowByte \/ WriteEepromByte
  BY <1>2, <1>7 DEF SetAddress, TakeByte, WriteCell, EraseDone, RefuseBlock,
                    ReadFlashByte, ReadEepromByte, WriteLowByte, WriteEepromByte, memory
<1>8. CASE FillHigh \/ FillLow \/ WriteHighByte
  BY <1>2, <1>8 DEF FillHigh, FillLow, WriteHighByte, boot_page_fill
<1>9. CASE EraseRound
  BY <1>1, <1>9, WriteBroken DEF EraseRound
<1>10. CASE BeginBlock
  <2>1. boot_rww_enable \/ boot_page_erase(CurrAddress) \/ UNCHANGED memory
    BY <1>10 DEF BeginBlock, Prepare
  <2> QED
    BY <1>1, <1>2, <2>1, EraseBroken DEF boot_rww_enable, memory
<1>11. CASE EndBlock
  <2>1. boot_page_write(Target) \/ UNCHANGED memory
    BY <1>11 DEF EndBlock
  <2> QED
    BY <1>1, <1>2, <2>1, WriteBroken DEF boot_page_write, memory
<1> QED
  BY <1>3, <1>4, <1>5, <1>6, <1>7, <1>8, <1>9, <1>10, <1>11
     DEF Next, CDC_Task, Command, ReadWriteMemoryBlock

LEMMA AlwaysBrokenInv == Spec => []BrokenInv
<1>1. Init => BrokenInv
  BY DEF Init, BrokenInv
<1> QED
  BY <1>1, NextBrokenInv, AlwaysTypeInv, PTL DEF Spec

\* BootloaderCDC.c:117, :322-369: wherever in a block the power fails or the button
\* is pressed, an application whose first page it was is not started.
THEOREM HalfWrittenStaysDown == Spec => BrokenOffNotStarted
<1>1. TypeInv /\ RunInv /\ BrokenInv /\ [Next]_vars => [running # "app" /\ running' = "app" => ~ broken]_vars
  <2> SUFFICES ASSUME TypeInv, RunInv, BrokenInv, [Next]_vars, running # "app", running' = "app", broken
               PROVE  FALSE
    OBVIOUS
  <2>1. main
    BY MainDecides
  <2>2. flash[0][0] # BlankWord
    BY <2>1, FirstWord DEF main
  <2>3. flash[0][0] = BlankWord
    <3>1. 0 \in Offset
      BY DEF Offset
    <3> QED
      BY <3>1 DEF BrokenInv, BlankPage
  <2> QED
    BY <2>2, <2>3
<1> QED
  BY <1>1, AlwaysTypeInv, AlwaysRunInv, AlwaysBrokenInv, PTL DEF Spec, BrokenOffNotStarted

-----------------------------------------------------------------------------
\* Reading back.

\* The flash is made unreadable by commands that are not 'g'.
LEMMA NextVerifies == TypeInv /\ VerifiesFlash /\ [Next]_vars => VerifiesFlash'
<1> SUFFICES ASSUME TypeInv, VerifiesFlash, [Next]_vars PROVE VerifiesFlash'
  OBVIOUS
<1>1. CASE UNCHANGED <<cmd, rww>>
  BY <1>1 DEF VerifiesFlash, InBlock
<1>2. ASSUME cmd' \in SimpleCmd \cup EraseCmd PROVE VerifiesFlash'
  BY <1>2 DEF VerifiesFlash, InBlock, SimpleCmd, EraseCmd
<1>3. CASE UNCHANGED vars \/ main \/ Pulse \/ Leave \/ Cable
  BY <1>1, <1>3 DEF vars, memory, main, Pulse, Leave, Cable
<1>4. CASE Button \/ PowerCycle \/ Watchdog \/ BadInterrupt \/ jmp_bootloader
  BY <1>2, <1>4, Forms DEF Button, PowerCycle, Watchdog, BadInterrupt, jmp_bootloader, Reset, Restart
<1>5. CASE Command
  <2>1. cmd' = Idle \/ Begin
    BY <1>5 DEF Command, Answer, ExitCommand, CommitPage, ReadCell, Sends, Loop
  <2>2. CASE Begin
    BY <1>2, <2>2 DEF Begin, SimpleCmd, EraseCmd
  <2> QED
    BY <1>2, <2>1, <2>2, Forms
<1>6. CASE Ends
  BY <1>2, <1>6, Forms DEF Ends
<1>7. CASE EraseRound
  BY <1>7 DEF EraseRound, VerifiesFlash
<1>8. CASE BeginBlock
  BY <1>8 DEF BeginBlock, Prepare, boot_rww_enable, VerifiesFlash
<1>9. CASE ReadFlashByte \/ ReadEepromByte
  BY <1>9 DEF ReadFlashByte, ReadEepromByte, ByteDue, memory, VerifiesFlash
<1>10. CASE WriteLowByte \/ WriteHighByte \/ WriteEepromByte
  <2>1. cmd.name = "B" /\ cmd'.name = cmd.name
    BY <1>10, ByteTypeInv DEF WriteLowByte, WriteHighByte, WriteEepromByte, ByteDue, Counted, BlockCmd
  <2> QED
    BY <2>1 DEF VerifiesFlash
<1> QED
  BY <1>3, <1>4, <1>5, <1>6, <1>7, <1>8, <1>9, <1>10
     DEF Next, CDC_Task, ReadWriteMemoryBlock, SetAddress, TakeByte, FillHigh, FillLow, WriteCell,
         EraseDone, RefuseBlock, EndBlock

\* BootloaderCDC.c:290: what the host reads back with 'g' is the flash, whatever
\* was programmed before and left it unreadable.
THEOREM ReadsBack == Spec => []VerifiesFlash
<1>1. Init => VerifiesFlash
  BY DEF Init, VerifiesFlash, InBlock, Idle
<1> QED
  BY <1>1, NextVerifies, AlwaysTypeInv, PTL DEF Spec

-----------------------------------------------------------------------------
\* Programming. First the arithmetic of pages.

LEMMA PageInFlash ==
  ASSUME NEW a \in Nat, a < BOOT_START_ADDR
  PROVE  PageOf(a) \in Page
<1> DEFINE S == SPM_PAGESIZE
<1> DEFINE q == a \div S
<1> DEFINE r == a % S
<1>1. S \in Nat /\ S > 0 /\ BOOT_START_ADDR = PAGES * S
  BY Sizes DEF BOOT_START_ADDR
<1>2. q \in Nat /\ r \in 0 .. S - 1 /\ a = S * q + r
  BY <1>1
<1>3. PageOf(a) = q
  BY DEF PageOf
<1> HIDE DEF S, q, r
<1>4. q < PAGES
  <2> SUFFICES ASSUME q >= PAGES PROVE FALSE
    BY <1>2
  <2>1. q - PAGES \in Nat
    BY <1>2
  <2>2. S * (q - PAGES) >= 0
    BY <1>1, <2>1
  <2>3. S * q = S * (q - PAGES) + PAGES * S
    BY <1>1, <1>2
  <2>4. S * q \in Nat /\ S * (q - PAGES) \in Nat /\ PAGES * S \in Nat
    BY <1>1, <1>2, <2>1
  <2> QED
    BY <1>1, <1>2, <2>2, <2>3, <2>4
<1> QED
  BY <1>2, <1>3, <1>4 DEF Page

\* Word w of the page that starts at a.
LEMMA OffsetInPage ==
  ASSUME NEW a \in Nat, a % SPM_PAGESIZE = 0, NEW w \in Offset
  PROVE  OffsetOf(a + 2 * w) = w
<1> DEFINE q == a \div SPM_PAGESIZE
<1>1. q \in Nat /\ a = SPM_PAGESIZE * q
  BY Sizes
<1> HIDE DEF q
<1>2. a = 2 * (WORDS * q) /\ WORDS * q \in Nat
  BY <1>1, Sizes
<1>3. w \in 0 .. WORDS - 1
  BY DEF Offset
<1>4. (a + 2 * w) \div 2 = WORDS * q + w
  BY <1>2, <1>3
<1> DEFINE x == WORDS * q + w
<1> DEFINE d == x \div WORDS
<1> DEFINE r == x % WORDS
<1>5. x \in Nat /\ d \in Nat /\ r \in 0 .. WORDS - 1 /\ x = WORDS * d + r
  BY <1>2, <1>3
<1>6. WORDS * q + w = WORDS * d + r
  BY <1>5
<1> HIDE DEF x, d, r
<1>7. d = q
  <2>1. ASSUME d > q PROVE FALSE
    <3>1. d - q - 1 \in Nat /\ WORDS * (d - q - 1) >= 0
      BY <1>1, <1>5, <2>1
    <3>2. WORDS * d = WORDS * q + WORDS * (d - q - 1) + WORDS
      BY <1>1, <1>5
    <3>3. WORDS * d \in Nat /\ WORDS * q \in Nat /\ WORDS * (d - q - 1) \in Nat
      BY <1>1, <1>5, <3>1
    <3> QED
      BY <1>3, <1>5, <1>6, <3>1, <3>2, <3>3
  <2>2. ASSUME d < q PROVE FALSE
    <3>1. q - d - 1 \in Nat /\ WORDS * (q - d - 1) >= 0
      BY <1>1, <1>5, <2>2
    <3>2. WORDS * q = WORDS * d + WORDS * (q - d - 1) + WORDS
      BY <1>1, <1>5
    <3>3. WORDS * d \in Nat /\ WORDS * q \in Nat /\ WORDS * (q - d - 1) \in Nat
      BY <1>1, <1>5, <3>1
    <3> QED
      BY <1>3, <1>5, <1>6, <3>1, <3>2, <3>3
  <2> QED
    BY <1>1, <1>5, <2>1, <2>2
<1>8. r = w
  BY <1>1, <1>3, <1>5, <1>6, <1>7
<1> QED
  BY <1>4, <1>8 DEF OffsetOf, x, r

LEMMA NoBlockInv ==
  ASSUME sent' = <<>>, ~ InBlock'
  PROVE  BlockInv'
<1>1. sent' \in Seq(Byte)
  OBVIOUS
<1> QED
  BY <1>1 DEF BlockInv

LEMMA StillBlockInv ==
  ASSUME BlockInv, UNCHANGED <<flash, page_buffer, eeprom, CurrAddress, cmd, sent>>,
         attached' => attached \/ cmd = Idle
  PROVE  BlockInv'
<1>1. InBlock' = InBlock /\ (InBlock /\ attached' => attached)
  BY NotIdle DEF InBlock
<1>2. /\ FlashBlock' <=> FlashBlock
      /\ EepromBlock' <=> EepromBlock
  BY DEF FlashBlock, EepromBlock, WordsFilled
<1> QED
  BY <1>1, <1>2 DEF BlockInv

LEMMA BeginBlockInv ==
  ASSUME TypeInv, BlockInv, BeginBlock
  PROVE  BlockInv'
<1>1. PICK n \in BlockSize, type \in {"F", "E"} :
        /\ HostAsks(type, n)
        /\ Prepare(type)
        /\ cmd' = [name |-> cmd.name, type |-> type, left |-> n, PageStartAddress |-> CurrAddress,
                   HighByte |-> FALSE, LowByte |-> Zero, clean |-> page_buffer = EmptyBuffer]
  BY DEF BeginBlock
<1>2. /\ sent = <<>> /\ sent' = <<>> /\ Len(sent') = 0 /\ sent' \in Seq(Byte)
      /\ CurrAddress' = CurrAddress /\ CurrAddress \in Nat
      /\ n \in Nat /\ n <= SPM_PAGESIZE
  <2>1. sent = <<>>
    BY DEF BeginBlock, BlockInv, InBlock
  <2> QED
    BY <2>1, Sizes DEF BeginBlock, TypeInv, TypeOK
<1>3. /\ InBlock' /\ cmd'.name = cmd.name /\ cmd'.type = type /\ cmd'.left = n
      /\ cmd'.PageStartAddress = CurrAddress /\ cmd'.HighByte = FALSE
      /\ cmd'.clean = (page_buffer = EmptyBuffer)
  BY <1>1 DEF InBlock
<1>4. ASSUME cmd.name = "B", type = "F"
      PROVE  FlashBlock'
  <2>1. CurrAddress < BOOT_START_ADDR /\ CurrAddress % SPM_PAGESIZE = 0
    BY <1>1, <1>4 DEF HostAsks
  <2>2. page_buffer' = page_buffer /\ flash' = [flash EXCEPT ![PageOf(CurrAddress)] = BlankPage]
    BY <1>1, <1>4 DEF Prepare, boot_page_erase
  <2>3. flash'[PageOf(CurrAddress)] = BlankPage
    BY <1>2, <2>1, <2>2, PageInFlash DEF TypeInv, TypeOK
  <2>4. (cmd.clean => WordsFilled(0))'
    <3> SUFFICES ASSUME page_buffer = EmptyBuffer
                 PROVE  WordsFilled(0)'
      BY <1>3
    <3>1. \A w \in Offset : page_buffer'[w] = Unfilled /\ ~ (w < 0)
      BY <2>2 DEF EmptyBuffer, Offset
    <3> QED
      BY <1>3, <2>3, <3>1 DEF WordsFilled
  <2>5. 0 \in 0 .. WORDS /\ Len(sent') = 2 * 0 + (IF cmd'.HighByte THEN 1 ELSE 0)
        /\ CurrAddress' = cmd'.PageStartAddress + 2 * 0
    BY <1>2, <1>3
  <2> QED
    BY <1>2, <1>3, <2>1, <2>4, <2>5, Sizes DEF FlashBlock
<1>5. ASSUME type = "E"
      PROVE  EepromBlock'
  BY <1>2, <1>3 DEF EepromBlock
<1> QED
  BY <1>2, <1>3, <1>4, <1>5 DEF BlockInv

LEMMA ReadBlockInv ==
  ASSUME TypeInv, BlockInv, ReadFlashByte \/ ReadEepromByte
  PROVE  BlockInv'
<1>1. cmd'.name = "g" /\ InBlock'
  <2>1. cmd \in BlockCmd /\ cmd' \in BlockCmd /\ cmd.name = "g"
    BY ByteTypeInv DEF ReadFlashByte, ReadEepromByte, ByteDue
  <2> QED
    BY <2>1 DEF ReadFlashByte, ReadEepromByte, Counted, BlockCmd, InBlock
<1> QED
  BY <1>1 DEF ReadFlashByte, ReadEepromByte, BlockInv

\* What a byte of a written block adds to sent.
LEMMA ByteReceived ==
  ASSUME BlockInv, NEW b \in Byte, Received(b), UNCHANGED attached
  PROVE  /\ sent' \in Seq(Byte) /\ Len(sent) \in Nat
         /\ attached => /\ Len(sent') = Len(sent) + 1
                        /\ sent'[Len(sent) + 1] = b
                        /\ \A i \in 1 .. Len(sent) : sent'[i] = sent[i]
  BY AppendProperties DEF Received, BlockInv

LEMMA WriteLowByteInv ==
  ASSUME TypeInv, BlockInv, WriteLowByte
  PROVE  BlockInv'
<1>1. PICK b \in Fetched : cmd' = [Counted EXCEPT !.HighByte = TRUE, !.LowByte = b] /\ Received(b)
  BY DEF WriteLowByte
<1>2. b \in Byte
  BY DEF Fetched, Byte, Zero
<1>3. cmd \in BlockCmd /\ cmd' \in BlockCmd /\ cmd.name = "B" /\ cmd.type = "F" /\ ~ cmd.HighByte /\ InBlock
  BY ByteTypeInv DEF WriteLowByte, ByteDue
<1>4. /\ cmd'.name = "B" /\ cmd'.type = "F" /\ cmd'.left = cmd.left - 1 /\ cmd'.HighByte = TRUE
      /\ cmd'.LowByte = b /\ cmd'.PageStartAddress = cmd.PageStartAddress /\ cmd'.clean = cmd.clean
      /\ InBlock' /\ cmd.left \in Nat
  BY <1>1, <1>3 DEF Counted, BlockCmd, InBlock
<1>5. UNCHANGED <<flash, page_buffer, attached, CurrAddress>>
  BY DEF WriteLowByte, Continues, memory
<1>6. ASSUME attached PROVE FlashBlock'
  <2>1. FlashBlock
    BY <1>3, <1>6 DEF BlockInv
  <2>2. PICK k \in 0 .. WORDS :
          /\ Len(sent) = 2 * k + (IF cmd.HighByte THEN 1 ELSE 0)
          /\ CurrAddress = cmd.PageStartAddress + 2 * k
          /\ cmd.clean => WordsFilled(k)
    BY <2>1 DEF FlashBlock
  <2>3. Len(sent) = 2 * k /\ Len(sent') = 2 * k + 1 /\ sent'[Len(sent')] = b
        /\ \A i \in 1 .. 2 * k : sent'[i] = sent[i]
    BY <1>1, <1>2, <1>3, <1>5, <1>6, <2>2, ByteReceived
  <2>4. (cmd.clean => WordsFilled(k))'
    <3> SUFFICES ASSUME cmd.clean PROVE WordsFilled(k)'
      BY <1>4
    <3>1. \A w \in Offset : w < k => 2 * w + 1 \in 1 .. 2 * k /\ 2 * w + 2 \in 1 .. 2 * k
      BY DEF Offset
    <3> QED
      BY <1>4, <1>5, <2>2, <2>3, <3>1 DEF WordsFilled
  <2>5. (Len(sent) + cmd.left <= SPM_PAGESIZE)'
    BY <1>4, <2>1, <2>3, Sizes, SMTT(30) DEF FlashBlock
  <2>6. (cmd.PageStartAddress < BOOT_START_ADDR /\ cmd.PageStartAddress % SPM_PAGESIZE = 0)'
    BY <1>4, <2>1 DEF FlashBlock
  <2>7. /\ Len(sent') = 2 * k + (IF cmd'.HighByte THEN 1 ELSE 0)
        /\ CurrAddress' = cmd'.PageStartAddress + 2 * k
        /\ cmd'.HighByte => cmd'.LowByte = sent'[Len(sent')]
    BY <1>4, <1>5, <2>2, <2>3
  <2> QED
    BY <2>4, <2>5, <2>6, <2>7 DEF FlashBlock
<1> QED
  BY <1>1, <1>2, <1>4, <1>5, <1>6, ByteReceived DEF BlockInv

\* The second byte of a word fills the next word of a buffer that was clear.
LEMMA WriteHighByteInv ==
  ASSUME TypeInv, BlockInv, WriteHighByte
  PROVE  BlockInv'
<1>1. PICK b \in Fetched : boot_page_fill(CurrAddress, [lo |-> cmd.LowByte, hi |-> b]) /\ Received(b)
  BY DEF WriteHighByte
<1>2. b \in Byte
  BY DEF Fetched, Byte, Zero
<1>3. cmd \in BlockCmd /\ cmd.name = "B" /\ cmd.type = "F" /\ cmd.HighByte /\ InBlock /\ cmd.left > 0
  BY ByteTypeInv DEF WriteHighByte, ByteDue
<1>4. /\ cmd'.name = "B" /\ cmd'.type = "F" /\ cmd'.left = cmd.left - 1 /\ cmd'.HighByte = FALSE
      /\ cmd'.PageStartAddress = cmd.PageStartAddress /\ cmd'.clean = cmd.clean
      /\ InBlock' /\ cmd.left \in Nat
  BY <1>3 DEF WriteHighByte, Counted, BlockCmd, InBlock
<1>5. UNCHANGED <<flash, attached>> /\ CurrAddress' = CurrAddress + 2
  BY <1>1 DEF WriteHighByte, Continues, boot_page_fill
<1>6. ASSUME attached PROVE FlashBlock'
  <2>1. FlashBlock
    BY <1>3, <1>6 DEF BlockInv
  <2>2. PICK k \in 0 .. WORDS :
          /\ Len(sent) = 2 * k + (IF cmd.HighByte THEN 1 ELSE 0)
          /\ CurrAddress = cmd.PageStartAddress + 2 * k
          /\ cmd.HighByte => cmd.LowByte = sent[Len(sent)]
          /\ cmd.clean => WordsFilled(k)
    BY <2>1 DEF FlashBlock
  <2>3. /\ Len(sent) = 2 * k + 1 /\ Len(sent') = 2 * k + 2 /\ sent'[2 * k + 2] = b
        /\ \A i \in 1 .. 2 * k + 1 : sent'[i] = sent[i]
        /\ sent'[2 * k + 1] = cmd.LowByte
    BY <1>1, <1>2, <1>3, <1>5, <1>6, <2>2, ByteReceived
  <2>4. k < WORDS /\ k \in Offset
    BY <1>3, <1>4, <2>1, <2>3, Sizes DEF FlashBlock, Offset
  <2>5. OffsetOf(CurrAddress) = k
    <3>1. cmd.PageStartAddress \in Nat
      BY <1>3 DEF BlockCmd
    <3> QED
      BY <2>1, <2>2, <2>4, <3>1, OffsetInPage DEF FlashBlock
  <2>6. (cmd.clean => WordsFilled(k + 1))'
    <3> SUFFICES ASSUME cmd.clean PROVE WordsFilled(k + 1)'
      BY <1>4
    <3> DEFINE f == [lo |-> cmd.LowByte, hi |-> b, filled |-> TRUE]
    <3>1. WordsFilled(k)
      BY <2>2
    <3>2. ~ page_buffer[k].filled
      <4>1. page_buffer[k] = Unfilled
        <5>1. ~ (k < k)
          OBVIOUS
        <5> QED
          BY <2>4, <3>1, <5>1 DEF WordsFilled
      <4> QED
        BY <4>1 DEF Unfilled
    <3>3. page_buffer' = [page_buffer EXCEPT ![k] = f]
      BY <1>1, <2>5, <3>2 DEF boot_page_fill
    <3>4. page_buffer \in [Offset -> [lo : Byte, hi : Byte, filled : BOOLEAN]]
      BY DEF TypeInv, TypeOK
    <3>5. f = [lo |-> sent'[2 * k + 1], hi |-> sent'[2 * k + 2], filled |-> TRUE]
      BY <2>3
    <3> HIDE DEF f
    <3>6. ASSUME NEW w \in Offset
          PROVE  page_buffer'[w] =
                   IF w < k + 1 THEN [lo |-> sent'[2 * w + 1], hi |-> sent'[2 * w + 2], filled |-> TRUE]
                   ELSE Unfilled
      <4>1. CASE w = k
        <5>1. page_buffer'[k] = f
          BY <2>4, <3>3, <3>4
        <5>2. k < k + 1
          OBVIOUS
        <5> QED
          BY <3>5, <4>1, <5>1, <5>2
      <4>2. CASE w < k
        <5>1. 2 * w + 1 \in 1 .. 2 * k + 1 /\ 2 * w + 2 \in 1 .. 2 * k + 1 /\ w < k + 1 /\ w # k
          BY <4>2 DEF Offset
        <5> QED
          BY <2>3, <3>1, <3>3, <3>4, <4>2, <5>1 DEF WordsFilled
      <4>3. CASE w > k
        <5>1. ~ (w < k) /\ ~ (w < k + 1) /\ w # k
          BY <4>3 DEF Offset
        <5> QED
          BY <3>1, <3>3, <3>4, <5>1 DEF WordsFilled
      <4> QED
        BY <4>1, <4>2, <4>3 DEF Offset
    <3> QED
      BY <1>4, <1>5, <3>1, <3>6 DEF WordsFilled
  <2>7. (Len(sent) + cmd.left <= SPM_PAGESIZE)'
    BY <1>4, <2>1, <2>3, Sizes DEF FlashBlock
  <2>8. (cmd.PageStartAddress < BOOT_START_ADDR /\ cmd.PageStartAddress % SPM_PAGESIZE = 0)'
    BY <1>4, <2>1 DEF FlashBlock
  <2>9. /\ k + 1 \in 0 .. WORDS
        /\ Len(sent') = 2 * (k + 1) + (IF cmd'.HighByte THEN 1 ELSE 0)
        /\ CurrAddress' = cmd'.PageStartAddress + 2 * (k + 1)
        /\ ~ cmd'.HighByte
    <3>1. cmd.PageStartAddress \in Nat
      BY <1>3 DEF BlockCmd
    <3> QED
      BY <1>4, <1>5, <2>2, <2>3, <2>4, <3>1
  <2> QED
    BY <2>6, <2>7, <2>8, <2>9 DEF FlashBlock
<1> QED
  BY <1>1, <1>2, <1>4, <1>5, <1>6, ByteReceived DEF BlockInv

LEMMA WriteEepromByteInv ==
  ASSUME TypeInv, BlockInv, WriteEepromByte
  PROVE  BlockInv'
<1>1. PICK b \in Fetched : eeprom' = [eeprom EXCEPT ![CurrAddress \div 2] = b] /\ Received(b)
  BY DEF WriteEepromByte
<1>2. b \in Byte
  BY DEF Fetched, Byte, Zero
<1>3. cmd \in BlockCmd /\ cmd.name = "B" /\ cmd.type = "E" /\ InBlock /\ cmd.left > 0
  BY ByteTypeInv DEF WriteEepromByte, ByteDue
<1>4. /\ cmd'.name = "B" /\ cmd'.type = "E" /\ cmd'.PageStartAddress = cmd.PageStartAddress
      /\ InBlock' /\ cmd.left \in Nat /\ cmd.PageStartAddress \in Nat
  BY <1>3 DEF WriteEepromByte, Counted, BlockCmd, InBlock
<1>5. UNCHANGED attached /\ CurrAddress' = CurrAddress + 2
  BY DEF WriteEepromByte, Continues
<1>6. ASSUME attached PROVE EepromBlock'
  <2> DEFINE s == cmd.PageStartAddress \div 2
  <2> DEFINE l == Len(sent)
  <2>1. EepromBlock
    BY <1>3, <1>6 DEF BlockInv
  <2>2. /\ l \in Nat /\ Len(sent') = l + 1 /\ sent'[l + 1] = b
        /\ \A i \in 1 .. l : sent'[i] = sent[i]
    BY <1>1, <1>2, <1>5, <1>6, ByteReceived
  <2>3. s \in Nat /\ CurrAddress \div 2 = s + l /\ CurrAddress = cmd.PageStartAddress + 2 * l
    <3>1. CurrAddress = cmd.PageStartAddress + 2 * l
      BY <2>1 DEF EepromBlock
    <3>2. \A x, y \in Nat : x \div 2 \in Nat /\ (x + 2 * y) \div 2 = x \div 2 + y
      OBVIOUS
    <3> HIDE DEF l
    <3> QED
      BY <1>4, <2>2, <3>1, <3>2
  <2>4. s + l \in 0 .. CELLS - 1
    <3>1. CurrAddress \div 2 + cmd.left <= CELLS
      BY <1>3 DEF TypeInv, RoomLeft, InEeprom
    <3> HIDE DEF s, l
    <3> QED
      <4>1. PICK q : q = CurrAddress \div 2
        OBVIOUS
      <4>2. q = s + l /\ q + cmd.left <= CELLS
        BY <2>3, <3>1, <4>1
      <4>3. s \in Nat /\ l \in Nat /\ cmd.left \in Nat /\ cmd.left > 0
        BY <1>3, <1>4, <2>2, <2>3
      <4> QED
        BY <4>2, <4>3
  <2>5. eeprom \in [0 .. CELLS - 1 -> Byte]
    BY DEF TypeInv, TypeOK
  <2>6. \A k \in 1 .. l : eeprom[s + k - 1] = sent[k]
    BY <2>1 DEF EepromBlock
  <2>7. eeprom' = [eeprom EXCEPT ![s + l] = b]
    BY <1>1, <2>3
  <2> HIDE DEF s, l
  <2>8. ASSUME NEW k \in 1 .. l + 1
        PROVE  eeprom'[s + k - 1] = sent'[k]
    <3>1. CASE k = l + 1
      <4>1. s + k - 1 = s + l
        BY <2>2, <2>3, <3>1
      <4> QED
        BY <2>2, <2>4, <2>5, <2>7, <3>1, <4>1
    <3>2. CASE k \in 1 .. l
      <4>1. s + k - 1 # s + l /\ s + k - 1 \in 0 .. CELLS - 1
        BY <2>2, <2>3, <2>4, <3>2
      <4> QED
        BY <2>2, <2>5, <2>6, <2>7, <3>2, <4>1
    <3>3. k = l + 1 \/ k \in 1 .. l
      BY <2>2
    <3> QED
      BY <3>1, <3>2, <3>3
  <2>9. CurrAddress' = cmd'.PageStartAddress + 2 * Len(sent')
    BY <1>4, <1>5, <2>2, <2>3
  <2> QED
    BY <1>4, <2>2, <2>8, <2>9 DEF EepromBlock, s
<1> QED
  BY <1>1, <1>2, <1>4, <1>5, <1>6, ByteReceived DEF BlockInv

LEMMA NextBlockInv == TypeInv /\ BlockInv /\ [Next]_vars => BlockInv'
<1> SUFFICES ASSUME TypeInv, BlockInv, [Next]_vars PROVE BlockInv'
  OBVIOUS
<1>1. ASSUME cmd' \in SimpleCmd \cup EraseCmd, sent' = <<>> PROVE BlockInv'
  BY <1>1, NoBlockInv DEF InBlock, SimpleCmd, EraseCmd
<1>2. CASE UNCHANGED vars \/ main \/ Pulse \/ Leave
  BY <1>2, StillBlockInv DEF vars, memory, main, Pulse, Leave
<1>3. CASE Cable
  BY <1>3, StillBlockInv DEF Cable, memory, Unplug, Plug
<1>4. CASE Button \/ PowerCycle \/ Watchdog \/ BadInterrupt \/ jmp_bootloader
  BY <1>1, <1>4, Forms DEF Button, PowerCycle, Watchdog, BadInterrupt, jmp_bootloader, Reset, Restart
<1>5. CASE Command
  <2>1. sent' = <<>>
    BY <1>5, NotIdle DEF Command, Answer, ExitCommand, CommitPage, ReadCell, Begin, Sends, Loop, BlockInv
  <2>2. cmd' = Idle \/ Begin
    BY <1>5 DEF Command, Answer, ExitCommand, CommitPage, ReadCell, Sends, Loop
  <2>3. CASE Begin
    BY <1>1, <2>1, <2>3 DEF Begin, SimpleCmd, EraseCmd
  <2> QED
    BY <1>1, <2>1, <2>2, <2>3, Forms
<1>6. CASE Ends
  BY <1>1, <1>6, Forms DEF Ends
<1>7. CASE EraseRound
  <2>1. cmd \in EraseCmd /\ cmd' \in EraseCmd
    <3>1. cmd \in EraseCmd
      BY <1>7 DEF EraseRound, TypeInv, SimpleCmd, BlockCmd, Continued
    <3>2. cmd.at + SPM_PAGESIZE + 1 \in Nat
      BY <3>1, Sizes DEF EraseCmd
    <3> QED
      BY <1>7, <3>1, <3>2 DEF EraseRound, EraseCmd
  <2> QED
    BY <1>1, <1>7, <2>1, Forms DEF EraseRound, BlockInv
<1> QED
  BY <1>2, <1>3, <1>4, <1>5, <1>6, <1>7, BeginBlockInv, ReadBlockInv, WriteLowByteInv, WriteHighByteInv, WriteEepromByteInv
     DEF Next, CDC_Task, ReadWriteMemoryBlock, SetAddress, TakeByte, FillHigh, FillLow, WriteCell,
         EraseDone, RefuseBlock, EndBlock

LEMMA AlwaysBlockInv == Spec => []BlockInv
<1>1. Init => BlockInv
  <2> SUFFICES ASSUME Init PROVE BlockInv
    OBVIOUS
  <2>1. ~ InBlock /\ sent = <<>> /\ sent \in Seq(Byte)
    BY NotIdle DEF Init
  <2> QED
    BY <2>1 DEF BlockInv
<1> QED
  BY <1>1, NextBlockInv, AlwaysTypeInv, PTL DEF Spec

\* BootloaderCDC.c, ReadWriteMemoryBlock: for every geometry and every size of
\* block, what the host gets confirmed is in the flash or the EEPROM, whole and in
\* its place, whatever was programmed, broken off or reset before.
THEOREM BlocksAreWritten == Spec => BlockWritten
<1> DEFINE start == cmd.PageStartAddress
<1> DEFINE words == Len(sent) \div 2
<1>1. ASSUME TypeInv, BlockInv, EndBlock, cmd.name = "B", attached, cmd.type = "F"
      PROVE  /\ cmd.clean => flash'[PageOf(start)] =
                  [w \in Offset |-> IF w < words THEN [lo |-> sent[2 * w + 1], hi |-> sent[2 * w + 2]]
                                    ELSE BlankWord]
             /\ CurrAddress = start + 2 * words
  <2>1. FlashBlock /\ cmd \in BlockCmd /\ start \in Nat
    <3>1. InBlock
      BY <1>1 DEF EndBlock
    <3>2. cmd \in BlockCmd
      BY <1>1, <3>1, Forms DEF TypeInv
    <3> QED
      BY <1>1, <3>1, <3>2 DEF BlockInv, BlockCmd
  <2>2. PICK k \in 0 .. WORDS :
          /\ Len(sent) = 2 * k + (IF cmd.HighByte THEN 1 ELSE 0)
          /\ CurrAddress = start + 2 * k
          /\ cmd.clean => WordsFilled(k)
    BY <2>1 DEF FlashBlock
  <2>3. words = k
    <3>1. CASE cmd.HighByte
      BY <2>2, <3>1
    <3>2. CASE ~ cmd.HighByte
      BY <2>2, <3>2
    <3> QED
      BY <3>1, <3>2
  <2>4. PageOf(start) \in Page
    BY <2>1, PageInFlash DEF FlashBlock
  <2>5. flash'[PageOf(start)] = Written(flash[PageOf(start)])
    BY <1>1, <2>4 DEF EndBlock, Target, boot_page_write, TypeInv, TypeOK
  <2>6. ASSUME cmd.clean, NEW w \in Offset
        PROVE  [lo |-> BlankPage[w].lo \cap page_buffer[w].lo, hi |-> BlankPage[w].hi \cap page_buffer[w].hi]
               = IF w < k THEN [lo |-> sent[2 * w + 1], hi |-> sent[2 * w + 2]] ELSE BlankWord
    <3>1. WordsFilled(k) /\ BlankPage[w] = BlankWord
      BY <2>2, <2>6 DEF BlankPage
    <3>2. page_buffer[w].lo \in SUBSET Bit /\ page_buffer[w].hi \in SUBSET Bit
      BY <1>1 DEF TypeInv, TypeOK, Byte
    <3>3. BlankPage[w].lo \cap page_buffer[w].lo = page_buffer[w].lo
          /\ BlankPage[w].hi \cap page_buffer[w].hi = page_buffer[w].hi
      BY <3>1, <3>2 DEF BlankWord
    <3>4. CASE w < k
      <4>1. page_buffer[w].lo = sent[2 * w + 1] /\ page_buffer[w].hi = sent[2 * w + 2]
        <5>1. page_buffer[w] = [lo |-> sent[2 * w + 1], hi |-> sent[2 * w + 2], filled |-> TRUE]
          BY <3>1, <3>4 DEF WordsFilled
        <5> QED
          BY <5>1
      <4> QED
        BY <3>3, <3>4, <4>1
    <3>5. CASE ~ (w < k)
      <4>1. page_buffer[w].lo = Bit /\ page_buffer[w].hi = Bit
        <5>1. page_buffer[w] = Unfilled
          BY <3>1, <3>5 DEF WordsFilled
        <5> QED
          BY <5>1 DEF Unfilled
      <4> QED
        BY <3>3, <3>5, <4>1 DEF BlankWord
    <3> QED
      BY <3>4, <3>5
  <2>7. cmd.clean => flash[PageOf(start)] = BlankPage
    BY <2>2 DEF WordsFilled
  <2> QED
    BY <2>2, <2>3, <2>5, <2>6, <2>7 DEF Written
<1>2. ASSUME TypeInv, BlockInv, EndBlock, cmd.name = "B", attached, cmd.type # "F"
      PROVE  /\ \A k \in 1 .. Len(sent) : eeprom[start \div 2 + k - 1] = sent[k]
             /\ CurrAddress = start + 2 * Len(sent)
  BY <1>2 DEF EndBlock, BlockInv, EepromBlock
<1>3. TypeInv /\ BlockInv /\ [Next]_vars =>
        [EndBlock /\ cmd.name = "B" /\ attached =>
           IF cmd.type = "F"
           THEN /\ cmd.clean => flash'[PageOf(start)] =
                     [w \in Offset |-> IF w < words THEN [lo |-> sent[2 * w + 1], hi |-> sent[2 * w + 2]]
                                       ELSE BlankWord]
                /\ CurrAddress = start + 2 * words
           ELSE /\ \A k \in 1 .. Len(sent) : eeprom[start \div 2 + k - 1] = sent[k]
                /\ CurrAddress = start + 2 * Len(sent)]_vars
  BY <1>1, <1>2
<1> QED
  BY <1>3, AlwaysTypeInv, AlwaysBlockInv, PTL DEF Spec, BlockWritten

-----------------------------------------------------------------------------
\* The chip erase.

\* Round i of the loop erases the page that i * Step lies in.
Step == SPM_PAGESIZE + 1

EraseInv ==
  cmd \in EraseCmd /\ cmd.clean =>
    /\ page_buffer = EmptyBuffer
    /\ \E j \in Nat : /\ cmd.at = j * Step
                      /\ \A i \in 0 .. j - 1 : flash[PageOf(i * Step)] = BlankPage

LEMMA WrittenBlank ==
  ASSUME page_buffer = EmptyBuffer
  PROVE  Written(BlankPage) = BlankPage
<1>1. ASSUME NEW w \in Offset
      PROVE  [lo |-> BlankPage[w].lo \cap page_buffer[w].lo,
              hi |-> BlankPage[w].hi \cap page_buffer[w].hi] = BlankWord
  <2>1. BlankPage[w] = BlankWord /\ page_buffer[w] = Unfilled
    BY DEF BlankPage, EmptyBuffer
  <2>2. BlankWord.lo = Bit /\ BlankWord.hi = Bit /\ Unfilled.lo = Bit /\ Unfilled.hi = Bit
    BY DEF BlankWord, Unfilled
  <2>3. Bit \cap Bit = Bit
    OBVIOUS
  <2> QED
    BY <2>1, <2>2, <2>3 DEF BlankWord
<1> QED
  BY <1>1 DEF Written, BlankPage

LEMMA EraseRoundInv ==
  ASSUME TypeInv, EraseInv, EraseRound
  PROVE  EraseInv'
<1>1. cmd \in EraseCmd
  BY DEF EraseRound, TypeInv, SimpleCmd, BlockCmd, Continued
<1>2. cmd'.at = cmd.at + Step /\ cmd'.clean = cmd.clean
  BY <1>1, Sizes DEF EraseRound, EraseCmd, Step
<1> SUFFICES ASSUME cmd.clean
             PROVE  /\ page_buffer' = EmptyBuffer
                    /\ \E j \in Nat : /\ cmd'.at = j * Step
                                      /\ \A i \in 0 .. j - 1 : flash'[PageOf(i * Step)] = BlankPage
  BY <1>2 DEF EraseInv
<1>3. PICK j \in Nat : /\ cmd.at = j * Step
                       /\ \A i \in 0 .. j - 1 : flash[PageOf(i * Step)] = BlankPage
  BY <1>1 DEF EraseInv
<1>4. Step \in Nat /\ cmd.at \in Nat
  BY <1>1, Sizes DEF Step, EraseCmd
<1>5. cmd'.at = (j + 1) * Step
  BY <1>2, <1>3, <1>4
<1>6. PageOf(cmd.at) \in Page
  BY <1>4, PageInFlash DEF EraseRound
<1>7. flash' = [flash EXCEPT ![PageOf(cmd.at)] = BlankPage]
  BY <1>1, WrittenBlank DEF EraseRound, EraseInv
<1>8. ASSUME NEW i \in 0 .. (j + 1) - 1
      PROVE  flash'[PageOf(i * Step)] = BlankPage
  <2>1. CASE PageOf(i * Step) = PageOf(cmd.at)
    BY <1>6, <1>7, <2>1 DEF TypeInv, TypeOK
  <2>2. CASE PageOf(i * Step) # PageOf(cmd.at)
    <3>1. i # j
      BY <1>3, <2>2
    <3>2. i \in 0 .. j - 1
      BY <3>1
    <3> QED
      BY <1>3, <1>7, <2>2, <3>2 DEF TypeInv, TypeOK
  <2> QED
    BY <2>1, <2>2
<1>9. page_buffer' = EmptyBuffer /\ j + 1 \in Nat
  BY DEF EraseRound
<1> QED
  BY <1>5, <1>8, <1>9

LEMMA NextEraseInv == TypeInv /\ EraseInv /\ [Next]_vars => EraseInv'
<1> SUFFICES ASSUME TypeInv, EraseInv, [Next]_vars PROVE EraseInv'
  OBVIOUS
<1>1. ASSUME cmd' \in SimpleCmd \cup BlockCmd PROVE EraseInv'
  BY <1>1 DEF EraseInv, SimpleCmd, EraseCmd, BlockCmd
<1>2. CASE UNCHANGED vars \/ main \/ Pulse \/ Leave \/ Cable
  BY <1>2 DEF vars, memory, main, Pulse, Leave, Cable, EraseInv
<1>3. CASE Button \/ PowerCycle \/ Watchdog \/ BadInterrupt \/ jmp_bootloader
  BY <1>1, <1>3, Forms DEF Button, PowerCycle, Watchdog, BadInterrupt, jmp_bootloader, Reset, Restart
<1>4. CASE Command
  <2>1. cmd' = Idle \/ Begin
    BY <1>4 DEF Command, Answer, ExitCommand, CommitPage, ReadCell, Sends, Loop
  <2>2. CASE Begin
    <3>1. cmd' \in SimpleCmd \/ cmd' = [name |-> "e", at |-> 0, clean |-> page_buffer = EmptyBuffer]
      BY <2>2 DEF Begin, SimpleCmd
    <3>2. CASE cmd' = [name |-> "e", at |-> 0, clean |-> page_buffer = EmptyBuffer]
      <4>1. /\ cmd'.at = 0 /\ cmd'.clean = (page_buffer = EmptyBuffer) /\ page_buffer' = page_buffer
            /\ 0 \in Nat /\ 0 = 0 * Step /\ 0 .. 0 - 1 = {}
        BY <2>2, <3>2, Sizes DEF Begin, memory, Step
      <4>2. \A i \in 0 .. 0 - 1 : flash'[PageOf(i * Step)] = BlankPage
        BY <4>1
      <4> QED
        BY <4>1, <4>2 DEF EraseInv
    <3> QED
      BY <1>1, <3>1, <3>2
  <2> QED
    BY <1>1, <2>1, <2>2, Forms
<1>5. CASE Ends
  BY <1>1, <1>5, Forms DEF Ends
<1>6. CASE BeginBlock
  BY <1>1, <1>6, BeginBlockTypeInv
<1>7. CASE ReadFlashByte \/ ReadEepromByte \/ WriteLowByte \/ WriteHighByte \/ WriteEepromByte
  BY <1>1, <1>7, ByteTypeInv
<1> QED
  BY <1>2, <1>3, <1>4, <1>5, <1>6, <1>7, EraseRoundInv
     DEF Next, CDC_Task, ReadWriteMemoryBlock, SetAddress, TakeByte, FillHigh, FillLow, WriteCell,
         EraseDone, RefuseBlock, EndBlock

LEMMA AlwaysEraseInv == Spec => []EraseInv
<1>1. Init => EraseInv
  BY DEF Init, EraseInv, EraseCmd, Idle
<1> QED
  BY <1>1, NextEraseInv, AlwaysTypeInv, PTL DEF Spec

\* A page that the loop does not jump over is met by the round i = c * S + d,
\* where c counts the pages jumped over before it.
LEMMA RoundOf ==
  ASSUME NEW p \in Page, (p + 1) % Step # 0
  PROVE  \E i \in Nat : i * Step < BOOT_START_ADDR /\ PageOf(i * Step) = p
<1> DEFINE S == SPM_PAGESIZE
<1> DEFINE c == p \div Step
<1> DEFINE d == p % Step
<1>1. /\ S \in Nat /\ S > 0 /\ Step = S + 1 /\ BOOT_START_ADDR = PAGES * S
      /\ p \in Nat /\ p <= PAGES - 1
  BY Sizes DEF Page, BOOT_START_ADDR, Step
<1>2. c \in Nat /\ d \in 0 .. S /\ p = Step * c + d
  BY <1>1
<1>3. d # S
  <2> SUFFICES ASSUME d = S PROVE FALSE
    OBVIOUS
  <2>1. p + 1 = Step * (c + 1)
    BY <1>1, <1>2
  <2>2. (Step * (c + 1)) % Step = 0
    BY <1>1, <1>2
  <2> QED
    BY <2>1, <2>2
<1> HIDE DEF S, c, d
<1> DEFINE i == c * S + d
<1>4. d \in Nat /\ d < S
  BY <1>1, <1>2, <1>3
<1>5. i \in Nat
  BY <1>1, <1>2, <1>4
<1>6. i * Step = S * p + d
  <2>1. (c * S + d) * (S + 1) = S * ((S + 1) * c + d) + d
    BY <1>1, <1>2, <1>4
  <2> QED
    BY <1>1, <1>2, <2>1
<1>7. S * p \in Nat /\ S * p <= S * (PAGES - 1)
  <2>1. PAGES - 1 - p \in Nat
    BY <1>1
  <2>2. S * (PAGES - 1 - p) \in Nat /\ S * p \in Nat /\ S * (PAGES - 1) \in Nat
    BY <1>1, <2>1
  <2>3. S * (PAGES - 1) = S * p + S * (PAGES - 1 - p)
    BY <1>1
  <2> QED
    BY <2>2, <2>3
<1>8. i * Step < BOOT_START_ADDR
  <2>1. PAGES * S = S * (PAGES - 1) + S /\ S * (PAGES - 1) \in Nat
    BY <1>1
  <2> HIDE DEF i
  <2> QED
    BY <1>1, <1>4, <1>6, <1>7, <2>1
<1>9. (S * p + d) \div S = p
  BY <1>1, <1>4, <1>7
<1> QED
  BY <1>5, <1>6, <1>8, <1>9 DEF PageOf, S

\* BootloaderCDC.c:509: for every geometry a chip erase that finds the page buffer
\* clear has blanked every page but those its step of a page and a byte jumps over.
THEOREM EraseLeavesBlank == Spec => ErasesSection
<1>1. TypeInv /\ EraseInv /\ [Next]_vars =>
        [EraseDone /\ cmd.clean =>
           \A p \in Page : (p + 1) % (SPM_PAGESIZE + 1) # 0 => flash[p] = BlankPage]_vars
  <2> SUFFICES ASSUME TypeInv, EraseInv, EraseDone, cmd.clean,
                      NEW p \in Page, (p + 1) % (SPM_PAGESIZE + 1) # 0
               PROVE  flash[p] = BlankPage
    OBVIOUS
  <2>1. cmd \in EraseCmd /\ cmd.at >= BOOT_START_ADDR
    BY DEF EraseDone, TypeInv, SimpleCmd, BlockCmd, Continued
  <2>2. PICK j \in Nat : /\ cmd.at = j * Step
                         /\ \A i \in 0 .. j - 1 : flash[PageOf(i * Step)] = BlankPage
    BY <2>1 DEF EraseInv
  <2>3. PICK i \in Nat : i * Step < BOOT_START_ADDR /\ PageOf(i * Step) = p
    BY RoundOf DEF Step
  <2>4. i < j
    <3> SUFFICES ASSUME i >= j PROVE FALSE
      OBVIOUS
    <3>1. Step \in Nat /\ i - j \in Nat
      BY Sizes DEF Step
    <3>2. Step * (i - j) \in Nat /\ i * Step \in Nat /\ j * Step \in Nat
      BY <3>1
    <3>3. i * Step = j * Step + Step * (i - j)
      BY <3>1
    <3> QED
      BY <2>1, <2>2, <2>3, <3>2, <3>3, Sizes
  <2> QED
    BY <2>2, <2>3, <2>4
<1> QED
  BY <1>1, AlwaysTypeInv, AlwaysEraseInv, PTL DEF Spec, ErasesSection
=============================================================================
