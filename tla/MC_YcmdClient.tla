---------------------------- MODULE MC_YcmdClient ----------------------------
(* The benchmark with the warm-up and one measured run of each kind (three  *)
(* Starts), two loopback ports, one port taken by another program.          *)
EXTENDS YcmdClient

CONSTANTS p1, p2

MC_Ports == {p1, p2}
=============================================================================
