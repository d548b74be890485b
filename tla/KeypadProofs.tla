---------------------------- MODULE KeypadProofs ----------------------------
(***************************************************************************)
(* Theorems about Keypad: its types, and that key events name the key that *)
(* was sampled. The inductive invariant adds to PressesAreReal what the    *)
(* interrupt handlers rely on without saying so: while the state is a key  *)
(* state, whatever the converter works on is that ladder's channel, and a  *)
(* key event has left the converter idle until the next tick.              *)
(***************************************************************************)
EXTENDS Keypad, TLAPS

\* The converter's interrupt is pending only when it has nothing under way.
OneConversion == adif => adc = "idle"

\* In a key state the conversion under way, or finished and not served, is of
\* that state's ladder.
OwnLadder(st, c) ==
  state = st => /\ adc = "starting" => mux = c
                /\ adc = "converting" \/ adif => sample.channel = c

\* What a ladder's sample can be, given the key that was held.
SampleReal ==
  /\ sample.channel = 5 =>
       IF sample.held \in Ladder5 THEN sample.value = Reading[sample.held]
                                  ELSE sample.value >= 240
  /\ sample.channel = 6 =>
       IF sample.held \in Ladder6 THEN sample.value = Reading[sample.held]
                                  ELSE sample.value >= 240

\* A posted key event and the sample it came from stay as they are until the
\* next tick begins.
Quiet == /\ i # 0 => posted = "none"
         /\ posted = "EVENT_KEYPRESS" => adc = "idle" /\ ~ adif

KeyInv == /\ OneConversion
          /\ OwnLadder("READ_ADC5", 5)
          /\ OwnLadder("READ_ADC6", 6)
          /\ SampleReal
          /\ Quiet
          /\ PressesAreReal

IInv == TypeOK /\ KeyInv
-----------------------------------------------------------------------------
USE TicksAssumption, InputAssumption

\* timetick.cpp: count stays a 16-bit number.
LEMMA CountInRange == count \in 0 .. COUNT_WRAP - 1 => CountUp \in 0 .. COUNT_WRAP - 1
  BY DEF CountUp

LEMMA Clients == Len(Client) + 1 = 5 /\ DOMAIN Client = 1 .. 4
  BY DEF Client

LEMMA InitIInv == Init => IInv
<1> SUFFICES ASSUME Init PROVE IInv
  OBVIOUS
<1>1. /\ count \in 0 .. COUNT_WRAP - 1 /\ i = 0
  BY DEF Init
<1>2. sample \in SampleType
  BY DEF Init, SampleType, Byte
<1>3. TypeOK
  <2>1. i \in 0 .. Len(Client) + 1 /\ mux \in 5 .. 7
    BY Clients DEF Init
  <2>2. /\ late \in BOOLEAN /\ adif \in BOOLEAN /\ settling \in BOOLEAN
        /\ state \in {"READ_ADC5", "READ_ADC6", "READ_VBATT"}
        /\ adc \in {"idle", "starting", "converting"}
        /\ posted \in {"none", "EVENT_KEYPRESS", "EVENT_VBATT"}
    BY DEF Init
  <2> QED
    BY <1>1, <1>2, <2>1, <2>2 DEF Init, TypeOK
<1>4. KeyInv
  BY DEF Init, KeyInv, OneConversion, OwnLadder, SampleReal, Quiet, PressesAreReal
<1> QED
  BY <1>3, <1>4 DEF IInv

LEMMA TypeStep == TypeOK /\ [Next]_vars => TypeOK'
<1> SUFFICES ASSUME TypeOK, [Next]_vars PROVE TypeOK'
  OBVIOUS
<1> USE DEF TypeOK, clock, converter, world
<1>1. CASE Tick
  <2>1. i' \in 0 .. Len(Client) + 1
    BY <1>1, Clients DEF Tick
  <2>2. late' \in BOOLEAN /\ posted' \in {"none", "EVENT_KEYPRESS", "EVENT_VBATT"}
    BY <1>1 DEF Tick
  <2> QED
    BY <1>1, <2>1, <2>2 DEF Tick
<1>2. CASE SkipClient
  BY <1>2, Clients DEF SkipClient
<1>3. CASE process_usb
  BY <1>3, Clients DEF process_usb, Called
<1>4. CASE keypad_timetick_cb
  <2>1. i' \in 0 .. Len(Client) + 1
    BY <1>4, Clients DEF keypad_timetick_cb, Called
  <2>2. mux' \in 5 .. 7
    BY <1>4 DEF keypad_timetick_cb
  <2>3. adc' \in {"idle", "starting", "converting"} /\ adif' \in BOOLEAN
    BY <1>4 DEF keypad_timetick_cb, StartConversion
  <2> QED
    BY <1>4, <2>1, <2>2, <2>3 DEF keypad_timetick_cb
<1>5. CASE vbatt_read_cb
  <2>1. i' \in 0 .. Len(Client) + 1
    BY <1>5, Clients DEF vbatt_read_cb, Called
  <2>2. mux' \in 5 .. 7
    BY <1>5 DEF vbatt_read_cb
  <2>3. adc' \in {"idle", "starting", "converting"} /\ adif' \in BOOLEAN
    BY <1>5 DEF vbatt_read_cb, StartConversion
  <2> QED
    BY <1>5, <2>1, <2>2, <2>3 DEF vbatt_read_cb
<1>6. CASE EndTick
  BY <1>6, Clients, CountInRange DEF EndTick
<1>7. CASE ReadKey
  BY <1>7 DEF ReadKey, Enter, Keycode, Key, Ladder5, Ladder6
<1>8. CASE ReadVbatt
  <2>1. /\ adif' \in BOOLEAN /\ settling' \in BOOLEAN
        /\ state' \in {"READ_ADC5", "READ_ADC6", "READ_VBATT"}
        /\ posted' \in {"none", "EVENT_KEYPRESS", "EVENT_VBATT"}
    BY <1>8 DEF ReadVbatt, Enter
  <2> QED
    BY <1>8, <2>1 DEF ReadVbatt
<1>9. CASE RetryVbatt
  <2>1. /\ adif' \in BOOLEAN /\ settling' \in BOOLEAN
        /\ adc' \in {"idle", "starting", "converting"}
        /\ posted' \in {"none", "EVENT_KEYPRESS", "EVENT_VBATT"}
    BY <1>9 DEF RetryVbatt, Enter
  <2>2. mux' \in 5 .. 7
    BY <1>9 DEF RetryVbatt
  <2> QED
    BY <1>9, <2>1, <2>2 DEF RetryVbatt
<1>10. CASE Sample
  <2>1. \A c \in 5 .. 7 : Conversions(c) \subseteq Byte
    BY LadderAssumption DEF Conversions, Key
  <2>2. sample' \in SampleType
    BY <1>10, <2>1 DEF Sample, SampleType
  <2> QED
    BY <1>10, <2>2 DEF Sample
<1>11. CASE Complete
  BY <1>11 DEF Complete
<1>12. CASE World
  BY <1>12 DEF World
<1>13. CASE UNCHANGED vars
  BY <1>13 DEF vars
<1> QED
  BY <1>1, <1>2, <1>3, <1>4, <1>5, <1>6, <1>7, <1>8, <1>9, <1>10, <1>11, <1>12, <1>13
     DEF Next, TimerClient, Prompt, AdcInterrupt

\* The keycodes of an interrupt in a key state are the keys of its ladder.
LEMMA KeycodeIsHeld ==
  ASSUME sample \in SampleType, SampleReal,
         \/ state = "READ_ADC5" /\ sample.channel = 5
         \/ state = "READ_ADC6" /\ sample.channel = 6,
         Keycode(sample.value) # NoKey
  PROVE  /\ sample.held = Keycode(sample.value)
         /\ sample.channel = IF Keycode(sample.value) \in Ladder5 THEN 5 ELSE 6
<1>1. sample.value \in 0 .. 255
  BY DEF SampleType, Byte
<1>2. CASE state = "READ_ADC5" /\ sample.channel = 5
  BY <1>1, <1>2, LadderAssumption DEF SampleReal, Keycode, Ladder5, Key, Byte
<1>3. CASE state = "READ_ADC6" /\ sample.channel = 6
  BY <1>1, <1>3, LadderAssumption DEF SampleReal, Keycode, Ladder5, Ladder6, Key, Byte
<1> QED
  BY <1>2, <1>3

LEMMA KeyStep == IInv /\ [Next]_vars => KeyInv'
<1> SUFFICES ASSUME TypeOK, KeyInv, [Next]_vars PROVE KeyInv'
  BY DEF IInv
<1> USE DEF KeyInv, clock, converter, world
<1>1. CASE Tick
  BY <1>1 DEF Tick, OneConversion, OwnLadder, SampleReal, Quiet, PressesAreReal
<1>2. CASE SkipClient
  BY <1>2, Clients DEF SkipClient, OneConversion, OwnLadder, SampleReal, Quiet, PressesAreReal
<1>3. CASE process_usb
  BY <1>3, Clients DEF process_usb, Called, OneConversion, OwnLadder, SampleReal, Quiet, PressesAreReal
<1>4. CASE keypad_timetick_cb
  BY <1>4, Clients DEF TypeOK, keypad_timetick_cb, Called, StartConversion,
     OneConversion, OwnLadder, SampleReal, Quiet, PressesAreReal
<1>5. CASE vbatt_read_cb
  BY <1>5, Clients DEF TypeOK, vbatt_read_cb, Called, StartConversion,
     OneConversion, OwnLadder, SampleReal, Quiet, PressesAreReal
<1>6. CASE EndTick
  BY <1>6, Clients DEF EndTick, OneConversion, OwnLadder, SampleReal, Quiet, PressesAreReal
<1>7. CASE ReadKey
  <2>1. /\ adc = "idle" /\ adc' = "idle" /\ ~ adif' /\ sample' = sample /\ i = 0 /\ i' = 0
        /\ last_keycode' = Keycode(sample.value)
        /\ posted' = IF last_keycode' = NoKey THEN "none" ELSE "EVENT_KEYPRESS"
    BY <1>7 DEF ReadKey, Enter, OneConversion
  <2>2. \/ state = "READ_ADC5" /\ sample.channel = 5
        \/ state = "READ_ADC6" /\ sample.channel = 6
    BY <1>7 DEF TypeOK, ReadKey, Enter, OwnLadder
  <2>3. Keycode(sample.value) # NoKey =>
          /\ sample.held = Keycode(sample.value)
          /\ sample.channel = IF Keycode(sample.value) \in Ladder5 THEN 5 ELSE 6
    BY <2>2, KeycodeIsHeld DEF TypeOK
  <2>4. PressesAreReal'
    BY <2>1, <2>3 DEF PressesAreReal
  <2> QED
    BY <2>1, <2>4 DEF OneConversion, OwnLadder, SampleReal, Quiet
<1>8. CASE ReadVbatt
  BY <1>8 DEF ReadVbatt, Enter, OneConversion, OwnLadder, SampleReal, Quiet, PressesAreReal
<1>9. CASE RetryVbatt
  BY <1>9 DEF RetryVbatt, Enter, OneConversion, OwnLadder, SampleReal, Quiet, PressesAreReal
<1>10. CASE Sample
  <2>1. /\ adc = "starting" /\ adc' = "converting" /\ ~ adif /\ ~ adif'
        /\ sample'.channel = mux /\ sample'.held = held /\ sample'.value \in Conversions(mux)
    BY <1>10 DEF Sample, OneConversion, TypeOK
  <2>2. SampleReal'
    BY <2>1, LadderAssumption DEF SampleReal, Conversions, TypeOK
  <2>3. OwnLadder("READ_ADC5", 5)' /\ OwnLadder("READ_ADC6", 6)'
    BY <1>10, <2>1 DEF Sample, OwnLadder
  <2>4. posted # "EVENT_KEYPRESS"
    BY <2>1 DEF Quiet
  <2> QED
    BY <1>10, <2>1, <2>2, <2>3, <2>4 DEF Sample, OneConversion, Quiet, PressesAreReal
<1>11. CASE Complete
  BY <1>11 DEF Complete, OneConversion, OwnLadder, SampleReal, Quiet, PressesAreReal
<1>12. CASE World
  BY <1>12 DEF World, OneConversion, OwnLadder, SampleReal, Quiet, PressesAreReal
<1>13. CASE UNCHANGED vars
  BY <1>13 DEF vars, OneConversion, OwnLadder, SampleReal, Quiet, PressesAreReal
<1> QED
  BY <1>1, <1>2, <1>3, <1>4, <1>5, <1>6, <1>7, <1>8, <1>9, <1>10, <1>11, <1>12, <1>13
     DEF Next, TimerClient, Prompt, AdcInterrupt

LEMMA Inductive == Spec => []IInv
<1>1. IInv /\ [Next]_vars => IInv'
  BY TypeStep, KeyStep DEF IInv
<1> QED
  BY <1>1, InitIInv, PTL DEF Spec
-----------------------------------------------------------------------------
\* Whatever the periods the clients are registered with, the tick count, the
\* channel selection and the keypad state keep to their ranges.
THEOREM TypeCorrect == Spec => []TypeOK
<1>1. IInv => TypeOK
  BY DEF IInv
<1> QED
  BY <1>1, Inductive, PTL

\* Whatever the periods, and however late ticks are, ISR(ADC_vect) posts a key
\* only if that key was held when its ladder was sampled.
THEOREM KeyEventsAreReal == Spec => []PressesAreReal
<1>1. IInv => PressesAreReal
  BY DEF IInv, KeyInv
<1> QED
  BY <1>1, Inductive, PTL
=============================================================================
