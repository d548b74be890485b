----------------------------- MODULE MCBootloader -----------------------------
(* Bytes of one bit; two words to a page and a second page, so that a block  *)
(* that fills one has a neighbour.                                           *)
EXTENDS Bootloader
=============================================================================
