------------------------------ MODULE MCReplay ------------------------------
(***************************************************************************)
(* A ring of four two-bit words and counters that wrap at MCUint64: the    *)
(* ring is overwritten almost twice before the protocol limit, and the     *)
(* counters at the limit and at the top of the integer range are offered.  *)
(***************************************************************************)
EXTENDS ReplayWindow

MCWordBits == 2

MCWords == 4

MCLimit == 13

MCUint64 == 22
=============================================================================
