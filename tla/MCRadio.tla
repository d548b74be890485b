------------------------------ MODULE MCRadio ------------------------------
(* Every chip the port may have; the functions are the menu's.              *)
EXTENDS Radio
=============================================================================
