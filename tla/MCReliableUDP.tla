---------------------------- MODULE MCReliableUDP ----------------------------
(* ReliableUDP on small instances.                                          *)
EXTENDS ReliableUDP

CONSTANTS p0, p1

TwoPackets == <<p0, p1>>
=============================================================================
