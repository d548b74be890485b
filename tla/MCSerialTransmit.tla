-------------------------- MODULE MCSerialTransmit --------------------------
(* The firmware's five buffers and two texts, so that order shows.          *)
EXTENDS SerialTransmit
=============================================================================
