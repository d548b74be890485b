------------------------------ MODULE MCKeypad ------------------------------
(* Periods in scale: the keypad's is odd and does not divide the battery's, *)
(* the battery's is even, and neither divides the counter's range, so that  *)
(* the two meet in one tick, in neighbouring ticks and across the wrap.     *)
EXTENDS Keypad

KeyReading == [k \in Key |-> CASE k \in {"KEY_DOWN", "KEY_SELECT"} -> 5
                               [] k \in {"KEY_RIGHT", "KEY_UP"} -> 100
                               [] k = "KEY_LEFT" -> 200]
=============================================================================
