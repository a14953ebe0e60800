----------------------------- MODULE MCShimFds ------------------------------
(***************************************************************************)
(* Three virtual descriptors, a real one on either side of them (192 and   *)
(* more are never handed out, but the range must not claim them), one or   *)
(* two application threads.                                                *)
(***************************************************************************)
EXTENDS ShimFds

CONSTANTS t1, t2

MCRealFds == {127, 131}

MCOneThread == {t1}

MCTwoThreads == {t1, t2}
=============================================================================
