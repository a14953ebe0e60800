----------------------------- MODULE MCSession ------------------------------
(***************************************************************************)
(* A few handshakes and packets per key.  One tick is the keepalive        *)
(* interval and two are the rekey interval, so that timers fire between,   *)
(* and during, the steps of the other thread.                              *)
(***************************************************************************)
EXTENDS Session

MCUint64 == 16

MCHandshakeTimeout == 1

MCKeepalive == 1

MCRekey == 2
=============================================================================
