--------------------------- MODULE MCTunnelStart ----------------------------
(***************************************************************************)
(* Three application threads: one starts the tunnel while the others wait, *)
(* arrive late or wake spuriously.  No symmetry: liveness is checked.      *)
(***************************************************************************)
EXTENDS TunnelStart

CONSTANTS t1, t2, t3

MCThreads == {t1, t2, t3}
=============================================================================
