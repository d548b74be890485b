--------------------------- MODULE MCSerialReceive ---------------------------
(* Short buffers, so that a line can fill one and a command has more words  *)
(* than the parser keeps.                                                   *)
EXTENDS SerialReceive
=============================================================================
