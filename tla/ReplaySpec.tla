----------------------------- MODULE ReplaySpec -----------------------------
(***************************************************************************)
(* What a receiver expects of WireGuard's replay protection, without       *)
(* bitmaps, words or modular indices: a packet number is admitted exactly  *)
(* when it is legal, not older than the window, and was never admitted     *)
(* before.  Packet numbers here are the counters plus one, as in           *)
(* wireguard_check_replay.                                                 *)
(***************************************************************************)
EXTENDS Naturals

CONSTANTS
    Window,      \* how far behind the newest number a late one may be
    Limit,       \* REJECT_AFTER_MESSAGES
    Counters     \* the counters a packet may carry

VARIABLES
    newest,      \* the largest number admitted so far, 0 at first
    admitted,    \* every number ever admitted
    verdict      \* the last question and its answer

specVars == <<newest, admitted, verdict>>

SpecInit ==
    /\ newest = 0
    /\ admitted = {}
    /\ verdict = [seq |-> 0, ok |-> FALSE]

Admissible(seq) ==
    /\ seq < Limit
    /\ seq + 1 + Window >= newest
    /\ seq + 1 \notin admitted

Admit(seq) ==
    /\ Admissible(seq)
    /\ newest' = IF seq + 1 > newest THEN seq + 1 ELSE newest
    /\ admitted' = admitted \cup {seq + 1}
    /\ verdict' = [seq |-> seq, ok |-> TRUE]

Refuse(seq) ==
    /\ ~Admissible(seq)
    /\ verdict' = [seq |-> seq, ok |-> FALSE]
    /\ UNCHANGED <<newest, admitted>>

SpecNext == \E seq \in Counters : Admit(seq) \/ Refuse(seq)

ReplayContract == SpecInit /\ [][SpecNext]_specVars
=============================================================================
