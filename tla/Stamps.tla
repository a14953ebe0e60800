------------------------------- MODULE Stamps -------------------------------
(***************************************************************************)
(* wireguard_tai64n_now of src/wireguard_platform_vita.c: the seconds of   *)
(* the stamp in every handshake initiation come from the wall clock, its   *)
(* fraction from the process clock, which starts at zero with the process  *)
(* and whose seconds begin at other moments.  The gateway answers only an  *)
(* initiation whose stamp is greater than all it has seen (external).      *)
(***************************************************************************)
EXTENDS Naturals

CONSTANTS
    FRACTIONS,    \* clock units in a second
    MaxWall       \* bound: the wall clock

ASSUME StampsAssumption == FRACTIONS \in Nat \ {0} /\ MaxWall \in Nat

VARIABLES
    wall,         \* time(NULL) with its fraction; never set back
    process,      \* sceKernelGetProcessTimeWide
    greatest,     \* external: the greatest stamp the gateway has accepted
    accepted,     \* history: the wall clock when it did
    asked,        \* history: the wall clock at the last initiation
    answered      \*   and whether it was accepted

stampVars == <<wall, process, greatest, accepted, asked, answered>>

StampInit ==
    /\ wall = FRACTIONS /\ process = 0
    /\ greatest = <<0, 0>> /\ accepted = 0
    /\ asked = 0 /\ answered = TRUE

Second(t) == t \div FRACTIONS

\* Mutant of wireguard_tai64n_now: one clock for both parts.
ProcessStamp == <<Second(process), process % FRACTIONS>>

wireguard_tai64n_now == <<Second(wall), process % FRACTIONS>>

Later(s, t) == s[1] > t[1] \/ (s[1] = t[1] /\ s[2] > t[2])

Initiate ==
    /\ asked' = wall
    /\ answered' = Later(wireguard_tai64n_now, greatest)
    /\ IF answered'
       THEN greatest' = wireguard_tai64n_now /\ accepted' = wall
       ELSE UNCHANGED <<greatest, accepted>>
    /\ UNCHANGED <<wall, process>>

ClockTick ==
    /\ wall < MaxWall
    /\ wall' = wall + 1 /\ process' = process + 1
    /\ UNCHANGED <<greatest, accepted, asked, answered>>

\* The program is started again, which takes some time.
Relaunch ==
    /\ wall < MaxWall
    /\ wall' = wall + 1 /\ process' = 0
    /\ UNCHANGED <<greatest, accepted, asked, answered>>

StampNext == Initiate \/ ClockTick \/ Relaunch

StampSpec == StampInit /\ [][StampNext]_stampVars

-----------------------------------------------------------------------------
\* An initiation can be refused only within the second of the wall clock in
\* which another one was accepted, across restarts too: two attempts a second
\* apart never collide, although the stamps are not monotonic.
RefusedWithinSecond == ~answered => Second(asked) = Second(accepted)
=============================================================================
