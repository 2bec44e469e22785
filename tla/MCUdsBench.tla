------------------------------ MODULE MCUdsBench ------------------------------
(* A scan of two SIDs: one that the panel also sends (0x19), and one that      *)
(* sid | 0x40 does not change, so that an answer to the first, late or to the  *)
(* panel, passes for one to it.  Two identifiers to read, one chained to the   *)
(* other.                                                                      *)
EXTENDS UdsBench

MCDids == <<"F186", "F190">>
MCSids == <<\h19, \h59>>
===============================================================================
