---------------------------- MODULE MCEvtQueue ----------------------------
(* The firmware's queue (5 slots, lists of up to 3 handlers) with two event *)
(* codes and two data words: enough to tell a torn or reordered event apart. *)
EXTENDS EvtQueue
=============================================================================
