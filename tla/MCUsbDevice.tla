---------------------------- MODULE MCUsbDevice ----------------------------
(* Packets of three bytes and a descriptor that fills two of them; the host *)
(* asks for less, so that the last packet is short, for all, and for more,  *)
(* so that an empty packet has to follow. Data packets are of two bytes: a  *)
(* command takes one, or more than a packet, and answers nothing, a short   *)
(* packet, a full one or more.                                              *)
EXTENDS UsbDevice

Sizes == <<6>>
Takes(n, m) == [takes |-> n, answers |-> m]
Commands == {Takes(1, 0), Takes(1, 3), Takes(3, 2)}
=============================================================================
