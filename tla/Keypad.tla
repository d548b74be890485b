------------------------------- MODULE Keypad -------------------------------
(***************************************************************************)
(* The sampling of keys and battery: the time tick (timetick.cpp) whose    *)
(* interrupt calls its clients, the two clients of keypad.cpp that share   *)
(* one analog-to-digital converter, the converter's own interrupt, and the *)
(* converter. Interrupt handlers do not interrupt each other; the          *)
(* converter works on while one runs.                                      *)
(***************************************************************************)
EXTENDS Integers, Sequences

CONSTANTS
  COUNT_WRAP,                     \* count is uint16_t: 2^16
  LED_TICKS, USB_TICKS, KEYPAD_TICKS, VBATT_TICKS,  \* the periods they are registered with
  Held,                           \* what the user may hold down: keys, or NoKey
  Reading, Released,              \* conversion of a held key, and of a ladder with no key down
  Battery,                        \* conversions of the battery voltage
  NoKey

Ladder5 == {"KEY_DOWN", "KEY_RIGHT"}
Ladder6 == {"KEY_SELECT", "KEY_UP", "KEY_LEFT"}
Key == Ladder5 \cup Ladder6
Byte == 0 .. 255

ASSUME TicksAssumption ==
  /\ COUNT_WRAP \in Nat \ {0}
  /\ {LED_TICKS, USB_TICKS, KEYPAD_TICKS, VBATT_TICKS} \subseteq Nat \ {0}
ASSUME InputAssumption ==
  /\ NoKey \notin Key /\ Held \subseteq Key \cup {NoKey}
  /\ Released \subseteq Byte /\ Battery \subseteq Byte
\* The resistor ladders fit the thresholds of keypad.cpp.
ASSUME LadderAssumption ==
  /\ Reading \in [Key -> Byte]
  /\ Reading["KEY_DOWN"] < 20 /\ Reading["KEY_RIGHT"] \in 20 .. 139
  /\ Reading["KEY_SELECT"] < 20 /\ Reading["KEY_UP"] \in 20 .. 139 /\ Reading["KEY_LEFT"] \in 140 .. 239
  /\ \A v \in Released : v >= 240

VARIABLES
  count,         \* timetick.cpp
  i,             \* client the timer interrupt is at; 0 when it is not running
  late,          \* has this tick taken so long that the next one is already pending?
  state, last_keycode,    \* keypad.cpp
  mux,           \* ADMUX: the selected channel
  adc, adif,     \* is a conversion starting or under way; is its interrupt pending
  sample,        \* the conversion under way or last made: its channel, its value
                 \* and, as history, the key that was held
  settling,      \* was a conversion under way when the latest tick ended?
  held, batt,    \* the user and the battery
  posted         \* history: event posted since the latest tick began

clock == <<count, i, late>>
converter == <<mux, adc, adif, sample>>
world == <<held, batt>>
vars == <<clock, state, last_keycode, converter, settling, world, posted>>

\* The order ui_setup registers them in; the fifth slot stays empty.
Client == <<"led_keepalive", "process_usb", "keypad_timetick_cb", "vbatt_read_cb">>
Period(c) == CASE c = "led_keepalive"      -> LED_TICKS
               [] c = "process_usb"        -> USB_TICKS
               [] c = "keypad_timetick_cb" -> KEYPAD_TICKS
               [] c = "vbatt_read_cb"      -> VBATT_TICKS
Due(c) == count % Period(c) = 0

\* A conversion starts within 8 us of ADSC being set; the 16-bit division that
\* decides whether the next client is due takes longer.
Called(c) == i \in DOMAIN Client /\ Client[i] = c /\ Due(c) /\ adc # "starting"
-----------------------------------------------------------------------------
\* The converter. A channel written to ADMUX counts until the conversion has
\* started, shortly after ADSC is set; setting ADSC again then does nothing.

Conversions(c) ==
  CASE c = 5 -> IF held \in Ladder5 THEN {Reading[held]} ELSE Released
    [] c = 6 -> IF held \in Ladder6 THEN {Reading[held]} ELSE Released
    [] c = 7 -> {batt}

Sample ==
  /\ adc = "starting"
  /\ adc' = "converting"
  /\ \E v \in Conversions(mux) : sample' = [channel |-> mux, value |-> v, held |-> held]
  /\ UNCHANGED <<clock, state, last_keycode, mux, adif, settling, world, posted>>

Complete ==
  /\ adc = "converting"
  /\ adc' = "idle"
  /\ adif' = TRUE
  /\ UNCHANGED <<clock, state, last_keycode, mux, sample, settling, world, posted>>

\* ADCSRA |= ... : reads ADIF and writes it back, which clears it; sets ADSC.
StartConversion ==
  /\ adif' = FALSE
  /\ adc' = IF adc = "idle" THEN "starting" ELSE adc
-----------------------------------------------------------------------------
\* ISR(TIMER0_COMPA_vect).

\* The timer comes every 10 ms, a conversion takes 0.2 ms: what was under way
\* when a tick ended has been served before the next, unless the tick was late.
Tick ==
  /\ i = 0
  /\ late \/ ~ settling
  /\ i' = 1
  /\ late' = FALSE
  /\ posted' = "none"
  /\ UNCHANGED <<count, state, last_keycode, converter, settling, world>>

\* Not due; or the led, which has no part in this.
SkipClient ==
  /\ i \in DOMAIN Client
  /\ Client[i] = "led_keepalive" \/ ~ Due(Client[i])
  /\ i' = i + 1
  /\ UNCHANGED <<count, late, state, last_keycode, converter, settling, world, posted>>

\* Writes to a host that does not read wait in the USB library for up to 0.1 s a
\* byte, and a transfer that is cut off may keep the call for ever (UsbDevice).
process_usb ==
  /\ Called("process_usb")
  /\ late' \in BOOLEAN
  /\ i' = i + 1
  /\ UNCHANGED <<count, state, last_keycode, converter, settling, world, posted>>

keypad_timetick_cb ==
  /\ Called("keypad_timetick_cb")
  /\ mux' = IF state = "READ_ADC5" THEN 5 ELSE 6
  /\ StartConversion
  /\ i' = i + 1
  /\ UNCHANGED <<count, late, state, last_keycode, sample, settling, world, posted>>

\* slip: the converter is pointed at the battery, the state is not
VbattReadKeepsState ==
  /\ Called("vbatt_read_cb")
  /\ mux' = 7
  /\ StartConversion
  /\ i' = i + 1
  /\ UNCHANGED <<count, late, state, last_keycode, sample, settling, world, posted>>

vbatt_read_cb ==
  /\ Called("vbatt_read_cb")
  /\ mux' = 7
  /\ StartConversion
  /\ state' = "READ_VBATT"
  /\ i' = i + 1
  /\ UNCHANGED <<count, late, last_keycode, sample, settling, world, posted>>

\* slip: the counter is wider than it is
CountNoWrap == count + 1

CountUp == (count + 1) % COUNT_WRAP

EndTick ==
  /\ i = Len(Client) + 1
  /\ i' = 0
  /\ count' = CountUp
  /\ settling' = (adc # "idle" \/ adif)
  /\ UNCHANGED <<late, state, last_keycode, converter, world, posted>>
-----------------------------------------------------------------------------
\* ISR(ADC_vect).

Keycode(val) ==
  CASE state = "READ_ADC5" /\ val < 20               -> "KEY_DOWN"
    [] state = "READ_ADC5" /\ val \in 20 .. 139      -> "KEY_RIGHT"
    [] state = "READ_ADC6" /\ val < 20               -> "KEY_SELECT"
    [] state = "READ_ADC6" /\ val \in 20 .. 139      -> "KEY_UP"
    [] state = "READ_ADC6" /\ val \in 140 .. 239     -> "KEY_LEFT"
    [] OTHER                                         -> NoKey

Enter == i = 0 /\ adif /\ adif' = FALSE /\ settling' = FALSE

ReadKey ==
  /\ Enter
  /\ state # "READ_VBATT"
  /\ last_keycode' = Keycode(sample.value)
  /\ state' = IF state = "READ_ADC5" THEN "READ_ADC6" ELSE "READ_ADC5"
  /\ posted' = IF last_keycode' = NoKey THEN "none" ELSE "EVENT_KEYPRESS"
  /\ UNCHANGED <<clock, mux, adc, sample, world>>

\* slip: the keys are never returned to
ReadVbattKeepsState ==
  /\ Enter
  /\ state = "READ_VBATT" /\ sample.value # 255
  /\ posted' = "EVENT_VBATT"
  /\ last_keycode' = NoKey
  /\ UNCHANGED <<clock, state, mux, adc, sample, world>>

ReadVbatt ==
  /\ Enter
  /\ state = "READ_VBATT" /\ sample.value # 255
  /\ posted' = "EVENT_VBATT"
  /\ state' = "READ_ADC5"
  /\ last_keycode' = NoKey
  /\ UNCHANGED <<clock, mux, adc, sample, world>>

\* 0xff: vbatt_read_cb again, at once.
RetryVbatt ==
  /\ Enter
  /\ state = "READ_VBATT" /\ sample.value = 255
  /\ mux' = 7
  /\ adc' = "starting"
  /\ posted' = "none"
  /\ last_keycode' = NoKey
  /\ UNCHANGED <<clock, state, sample, world>>

AdcInterrupt == ReadKey \/ ReadVbatt \/ RetryVbatt
-----------------------------------------------------------------------------
\* The user presses and releases keys, the battery is charged and used.
World ==
  /\ held' \in Held /\ batt' \in Battery
  /\ UNCHANGED <<clock, state, last_keycode, converter, settling, posted>>

\* keypad_init has returned; the first tick is still some ms away.
Init ==
  /\ count = 0 /\ i = 0 /\ late = FALSE
  /\ state = "READ_VBATT" /\ last_keycode = NoKey
  /\ mux = 7 /\ adc = "starting" /\ adif = FALSE
  /\ sample = [channel |-> 7, value |-> 0, held |-> NoKey]
  /\ settling = TRUE
  /\ held \in Held /\ batt \in Battery
  /\ posted = "none"

Prompt == SkipClient \/ keypad_timetick_cb \/ vbatt_read_cb \/ EndTick
TimerClient == Prompt \/ process_usb
Next == Tick \/ TimerClient \/ AdcInterrupt \/ Sample \/ Complete \/ World

\* The hardware goes on by itself and a pending interrupt is taken; a timer
\* interrupt is pending until taken, however busy the converter's is. Nothing
\* obliges the user or the battery, nor process_usb to return.
Spec == /\ Init /\ [][Next]_vars
        /\ SF_vars(Tick) /\ WF_vars(Prompt) /\ WF_vars(AdcInterrupt)
        /\ WF_vars(Sample) /\ WF_vars(Complete)
-----------------------------------------------------------------------------
SampleType == [channel : 5 .. 7, value : Byte, held : Key \cup {NoKey}]

\* Types: the tick counter keeps its width and the converter's multiplexer is
\* only ever set to a ladder or to the battery (keypad.cpp).
TypeOK ==
  /\ count \in 0 .. COUNT_WRAP - 1
  /\ i \in 0 .. Len(Client) + 1
  /\ late \in BOOLEAN
  /\ state \in {"READ_ADC5", "READ_ADC6", "READ_VBATT"}
  /\ last_keycode \in Key \cup {NoKey}
  /\ mux \in 5 .. 7
  /\ adc \in {"idle", "starting", "converting"}
  /\ adif \in BOOLEAN
  /\ sample \in SampleType
  /\ settling \in BOOLEAN
  /\ held \in Held /\ batt \in Battery
  /\ posted \in {"none", "EVENT_KEYPRESS", "EVENT_VBATT"}

\* EVENT_KEYPRESS names the key that was down when the converter sampled its
\* ladder: neither a battery reading nor the other ladder's is ever decoded as
\* a key, however the two clients of the converter overlap (keypad.cpp, state).
PressesAreReal ==
  posted = "EVENT_KEYPRESS" =>
    /\ sample.held = last_keycode
    /\ sample.channel = IF last_keycode \in Ladder5 THEN 5 ELSE 6

\* The tick is not kept by process_usb for ever.
UsbReturns == []<>(i \in DOMAIN Client => Client[i] # "process_usb")

\* A key held down is reported again and again, as long as process_usb returns
\* and the battery does not read 0xff for ever (the retry would then keep the
\* converter).
KeyReported ==
  \A k \in Held \ {NoKey} :
    UsbReturns /\ <>[](held = k /\ batt # 255) => []<>(posted = "EVENT_KEYPRESS" /\ last_keycode = k)

\* The battery goes on being reported, by readings of its own channel, once it
\* stays below 0xff and as long as process_usb returns.
BatteryReported ==
  UsbReturns /\ <>[](batt # 255) => []<>(posted = "EVENT_VBATT" /\ sample.channel = 7)
-----------------------------------------------------------------------------
\* What a comment says and the code does not do.

\* keypad.cpp:61 "Produce event with battery voltage".
EventWithBatteryVoltage == posted = "EVENT_VBATT" => sample.channel = 7
=============================================================================
