----------------------------- MODULE MCShimMux ------------------------------
(***************************************************************************)
(* A virtual descriptor asked for reading and writing and a real one for   *)
(* reading, so that calls are virtual only, real only or mixed, and bits   *)
(* and descriptors differ in number; no, one and an unlimited timeout.     *)
(***************************************************************************)
EXTENDS ShimMux

CONSTANTS v1, r1

MCVirtual == {v1} \X {"read", "write"}

MCReal == {r1} \X {"read"}

MCTimeouts == {0, 1}
=============================================================================
