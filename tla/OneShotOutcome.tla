--------------------------- MODULE OneShotOutcome ---------------------------
(***************************************************************************)
(* What tsvita_tunnel_ensure_started promises to the threads that call it: *)
(* the process decides once whether the tunnel carries its traffic, nobody *)
(* is answered before the decision, and everybody is answered with it.     *)
(***************************************************************************)
CONSTANT Threads

VARIABLES
    outcome,   \* "undecided", then "online" or "failed" for ever
    asking,    \* the threads that wait for an answer
    answers    \* the answers given so far

oneShotVars == <<outcome, asking, answers>>

OneShotInit == outcome = "undecided" /\ asking = {} /\ answers = {}

Ask(t) ==
    /\ t \notin asking
    /\ asking' = asking \cup {t}
    /\ UNCHANGED <<outcome, answers>>

Decide(o) ==
    /\ outcome = "undecided" /\ asking /= {}
    /\ outcome' = o
    /\ UNCHANGED <<asking, answers>>

Answer(t) ==
    /\ outcome /= "undecided" /\ t \in asking
    /\ asking' = asking \ {t}
    /\ answers' = answers \cup {outcome}
    /\ UNCHANGED outcome

OneShotNext ==
    \/ \E t \in Threads : Ask(t) \/ Answer(t)
    \/ \E o \in {"online", "failed"} : Decide(o)

OneShot == OneShotInit /\ [][OneShotNext]_oneShotVars
=============================================================================
