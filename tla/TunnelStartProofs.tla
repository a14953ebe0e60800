------------------------- MODULE TunnelStartProofs --------------------------
(***************************************************************************)
(* TLAPS proofs about TunnelStart, for any set of application threads.     *)
(***************************************************************************)
EXTENDS TunnelStart, TLAPS

\* start_tunnel has one owner, and only while the state says so.
OneStarter ==
    /\ \A t \in Threads : pc[t] \in Starting => g_state = "STARTING"
    /\ \A t, u \in Threads :
          pc[t] \in Starting /\ pc[u] \in Starting => t = u
    /\ g_state = "STARTING" => \E t \in Threads : pc[t] \in Starting
    /\ starts = IF g_state = "STOPPED" THEN 0 ELSE 1

\* The wait set is the set of threads inside pthread_cond_wait.
WaitSet ==
    /\ \A t \in Threads : t \in waiters <=> pc[t] = "wait"
    /\ NoLostWakeup

\* An answer agrees with the outcome it was read from, wherever it has got
\* to: in a thread, in the history of routes, in the list a thread holds.
AnswersAgree ==
    /\ \A t \in Threads :
          /\ pc[t] = "return" => /\ g_state \in {"ONLINE", "FAILED"}
                                 /\ result[t] = Answer(g_state)
          /\ pc[t] = "free" => result[t] = Answer(g_state)
          /\ pc[t] \in {"is_online", "free"} => lists[t] /= "none"
          /\ lists[t] = "lwip" => g_state = "ONLINE"
          /\ lists[t] = "real" => g_state = "FAILED"
    /\ "lwip" \in routes => g_state = "ONLINE"
    /\ "real" \in routes => g_state = "FAILED"
    /\ FreeMatchesAlloc

\* What the stages of start_tunnel have built when one of them begins.
StagesBuild ==
    /\ \A t \in Threads :
          /\ pc[t] \in {"handshake", "lwip", "lwip_wait", "netif", "thread"}
                => outer_socket = "open"
          /\ pc[t] \in {"lwip", "lwip_wait", "netif", "thread"} => session
          /\ pc[t] \in {"netif", "thread"} => tcpip = "running"
          /\ pc[t] = "thread" => netif = "up"
          /\ pc[t] \in Stages => ~receive_thread /\ ~running
          /\ pc[t] \in {"wifi", "key", "config", "device", "socket"}
                => outer_socket = "none"
          /\ pc[t] = "publish" /\ result[t] = "online" => TunnelReady
          /\ pc[t] = "publish" /\ result[t] = "offline" =>
                /\ ~receive_thread /\ ~running
                /\ outer_socket = "open" => failedAt = "thread"
    /\ g_tcpip_ready => tcpip = "running"
    /\ g_state = "STOPPED" =>
          outer_socket = "none" /\ ~receive_thread /\ ~running
    /\ g_state = "ONLINE" => TunnelReady
    /\ FailedReleases

StartInv == TypeOK /\ OneStarter /\ WaitSet /\ AnswersAgree /\ StagesBuild

USE DEF TunnelState, Stages, Starting, InEnsure, Calls, Stacks, Answers,
        Answer, Stack, Goto, Advance, Fail, Elsewhere, tunnel, history,
        CheckWifi, load_private_key, load_peer_config

\* The invariant holds before the first call.
LEMMA InitStartInv == Init => StartInv
<1> SUFFICES ASSUME Init PROVE StartInv
  OBVIOUS
<1>1. TypeOK BY DEF Init, TypeOK
<1>2. OneStarter BY DEF Init, OneStarter
<1>3. WaitSet BY DEF Init, WaitSet, NoLostWakeup
<1>4. AnswersAgree BY DEF Init, AnswersAgree, FreeMatchesAlloc
<1>5. StagesBuild BY DEF Init, StagesBuild, TunnelReady, FailedReleases
<1> QED BY <1>1, <1>2, <1>3, <1>4, <1>5 DEF StartInv

\* Every step preserves the types.
LEMMA NextTypeOK == TypeOK /\ AnswersAgree /\ [Next]_vars => TypeOK'
<1> SUFFICES ASSUME TypeOK, AnswersAgree, [Next]_vars PROVE TypeOK'
  OBVIOUS
<1>1. ASSUME NEW t \in Threads, EnsureStarted(t) PROVE TypeOK'
  BY <1>1 DEF EnsureStarted, TypeOK
<1>2. ASSUME NEW t \in Threads, Publish(t) PROVE TypeOK'
  BY <1>2 DEF Publish, TypeOK
<1>3. ASSUME NEW t \in Threads, start_tunnel(t) PROVE TypeOK'
  <2>1. CASE CheckInputs(t) BY <2>1 DEF CheckInputs, TypeOK
  <2>2. CASE InitPeer(t) BY <2>2 DEF InitPeer, TypeOK
  <2>3. CASE OpenOuterSocket(t) BY <2>3 DEF OpenOuterSocket, TypeOK
  <2>4. CASE InitialHandshake(t)
    <3>1. session' \in BOOLEAN
      BY <2>4, Zenon DEF InitialHandshake, TypeOK
    <3> QED BY <2>4, <3>1 DEF InitialHandshake, TypeOK
  <2>5. CASE TcpipInit(t) BY <2>5 DEF TcpipInit, TypeOK
  <2>6. CASE TcpipReady(t) BY <2>6 DEF TcpipReady, TypeOK
  <2>7. CASE AddNetif(t) BY <2>7 DEF AddNetif, TypeOK
  <2>8. CASE StartReceiveThread(t)
    <3>1. running' \in BOOLEAN /\ receive_thread' \in BOOLEAN
      BY <2>8, Zenon DEF StartReceiveThread, TypeOK
    <3> QED BY <2>8, <3>1 DEF StartReceiveThread, TypeOK
  <2> QED BY <1>3, <2>1, <2>2, <2>3, <2>4, <2>5, <2>6, <2>7, <2>8
          DEF start_tunnel
<1>4. ASSUME NEW t \in Threads, RouteCall(t) PROVE TypeOK'
  BY <1>4 DEF RouteCall, TypeOK
<1>5. ASSUME NEW t \in Threads, IsOnline(t) PROVE TypeOK'
  BY <1>5 DEF IsOnline, TypeOK
<1>6. ASSUME NEW t \in Threads, FreeList(t) PROVE TypeOK'
  <2>1. lists[t] \in Stacks
    BY <1>6 DEF FreeList, TypeOK, AnswersAgree
  <2> QED BY <1>6, <2>1 DEF FreeList, TypeOK
<1>7. ASSUME NEW t \in Threads, SpuriousWake(t) PROVE TypeOK'
  BY <1>7 DEF SpuriousWake, TypeOK
<1>8. ASSUME NEW t \in Threads, CallFree(t) PROVE TypeOK'
  BY <1>8 DEF CallFree, TypeOK
<1>9. ASSUME NEW t \in Threads, NEW c \in Calls, CallEnsure(t, c)
      PROVE  TypeOK'
  BY <1>9 DEF CallEnsure, TypeOK
<1>10. CASE TcpipReadyCallback
  BY <1>10 DEF TcpipReadyCallback, TypeOK
<1>11. CASE UNCHANGED vars
  BY <1>11 DEF vars, TypeOK
<1> QED
  BY <1>1, <1>2, <1>3, <1>4, <1>5, <1>6, <1>7, <1>8, <1>9, <1>10, <1>11
     DEF Next, Proceed

\* Every step leaves at most one thread inside start_tunnel, during STARTING.
LEMMA NextOneStarter == StartInv /\ [Next]_vars => OneStarter'
<1> SUFFICES ASSUME StartInv, [Next]_vars PROVE OneStarter'
  OBVIOUS
<1> USE DEF StartInv, TypeOK, OneStarter
<1>1. ASSUME NEW t \in Threads, EnsureStarted(t) PROVE OneStarter'
  BY <1>1 DEF EnsureStarted
<1>2. ASSUME NEW t \in Threads, Publish(t) PROVE OneStarter'
  BY <1>2 DEF Publish
<1>3. ASSUME NEW t \in Threads, CheckInputs(t) PROVE OneStarter'
  BY <1>3 DEF CheckInputs
<1>4. ASSUME NEW t \in Threads, InitPeer(t) PROVE OneStarter'
  BY <1>4 DEF InitPeer
<1>5. ASSUME NEW t \in Threads, OpenOuterSocket(t) PROVE OneStarter'
  BY <1>5 DEF OpenOuterSocket
<1>6. ASSUME NEW t \in Threads, InitialHandshake(t) PROVE OneStarter'
  BY <1>6 DEF InitialHandshake
<1>7. ASSUME NEW t \in Threads, TcpipInit(t) PROVE OneStarter'
  BY <1>7 DEF TcpipInit
<1>8. ASSUME NEW t \in Threads, TcpipReady(t) PROVE OneStarter'
  BY <1>8 DEF TcpipReady
<1>9. ASSUME NEW t \in Threads, AddNetif(t) PROVE OneStarter'
  BY <1>9 DEF AddNetif
<1>10. ASSUME NEW t \in Threads, StartReceiveThread(t) PROVE OneStarter'
  BY <1>10 DEF StartReceiveThread
<1>11. ASSUME NEW t \in Threads, RouteCall(t) PROVE OneStarter'
  BY <1>11 DEF RouteCall
<1>12. ASSUME NEW t \in Threads, IsOnline(t) PROVE OneStarter'
  BY <1>12 DEF IsOnline
<1>13. ASSUME NEW t \in Threads, FreeList(t) PROVE OneStarter'
  BY <1>13 DEF FreeList
<1>14. ASSUME NEW t \in Threads, SpuriousWake(t) PROVE OneStarter'
  BY <1>14 DEF SpuriousWake, WaitSet
<1>15. ASSUME NEW t \in Threads, CallFree(t) PROVE OneStarter'
  BY <1>15 DEF CallFree
<1>16. ASSUME NEW t \in Threads, NEW c \in Calls, CallEnsure(t, c)
      PROVE  OneStarter'
  BY <1>16 DEF CallEnsure
<1>17. CASE TcpipReadyCallback
  BY <1>17 DEF TcpipReadyCallback
<1>18. CASE UNCHANGED vars
  BY <1>18 DEF vars
<1> QED
  BY <1>1, <1>2, <1>3, <1>4, <1>5, <1>6, <1>7, <1>8, <1>9, <1>10,
     <1>11, <1>12, <1>13, <1>14, <1>15, <1>16, <1>17, <1>18
     DEF Next, Proceed, start_tunnel

\* Every step keeps the waiters of g_state_cond inside STARTING.
LEMMA NextWaitSet == StartInv /\ [Next]_vars => WaitSet'
<1> SUFFICES ASSUME StartInv, [Next]_vars PROVE WaitSet'
  OBVIOUS
<1> USE DEF StartInv, TypeOK, WaitSet, OneStarter, NoLostWakeup
<1>1. ASSUME NEW t \in Threads, EnsureStarted(t) PROVE WaitSet'
  BY <1>1 DEF EnsureStarted
<1>2. ASSUME NEW t \in Threads, Publish(t) PROVE WaitSet'
  BY <1>2 DEF Publish
<1>3. ASSUME NEW t \in Threads, CheckInputs(t) PROVE WaitSet'
  BY <1>3 DEF CheckInputs
<1>4. ASSUME NEW t \in Threads, InitPeer(t) PROVE WaitSet'
  BY <1>4 DEF InitPeer
<1>5. ASSUME NEW t \in Threads, OpenOuterSocket(t) PROVE WaitSet'
  BY <1>5 DEF OpenOuterSocket
<1>6. ASSUME NEW t \in Threads, InitialHandshake(t) PROVE WaitSet'
  BY <1>6 DEF InitialHandshake
<1>7. ASSUME NEW t \in Threads, TcpipInit(t) PROVE WaitSet'
  BY <1>7 DEF TcpipInit
<1>8. ASSUME NEW t \in Threads, TcpipReady(t) PROVE WaitSet'
  BY <1>8 DEF TcpipReady
<1>9. ASSUME NEW t \in Threads, AddNetif(t) PROVE WaitSet'
  BY <1>9 DEF AddNetif
<1>10. ASSUME NEW t \in Threads, StartReceiveThread(t) PROVE WaitSet'
  BY <1>10 DEF StartReceiveThread
<1>11. ASSUME NEW t \in Threads, RouteCall(t) PROVE WaitSet'
  BY <1>11 DEF RouteCall
<1>12. ASSUME NEW t \in Threads, IsOnline(t) PROVE WaitSet'
  BY <1>12 DEF IsOnline
<1>13. ASSUME NEW t \in Threads, FreeList(t) PROVE WaitSet'
  BY <1>13 DEF FreeList
<1>14. ASSUME NEW t \in Threads, SpuriousWake(t) PROVE WaitSet'
  BY <1>14 DEF SpuriousWake
<1>15. ASSUME NEW t \in Threads, CallFree(t) PROVE WaitSet'
  BY <1>15 DEF CallFree
<1>16. ASSUME NEW t \in Threads, NEW c \in Calls, CallEnsure(t, c)
      PROVE  WaitSet'
  BY <1>16 DEF CallEnsure
<1>17. CASE TcpipReadyCallback
  BY <1>17 DEF TcpipReadyCallback
<1>18. CASE UNCHANGED vars
  BY <1>18 DEF vars
<1> QED
  BY <1>1, <1>2, <1>3, <1>4, <1>5, <1>6, <1>7, <1>8, <1>9, <1>10,
     <1>11, <1>12, <1>13, <1>14, <1>15, <1>16, <1>17, <1>18
     DEF Next, Proceed, start_tunnel

\* Every step keeps what callers were told equal to the published outcome.
LEMMA NextAnswersAgree == StartInv /\ [Next]_vars => AnswersAgree'
<1> SUFFICES ASSUME StartInv, [Next]_vars PROVE AnswersAgree'
  OBVIOUS
<1> USE DEF StartInv, TypeOK, AnswersAgree, OneStarter, FreeMatchesAlloc
<1>1. ASSUME NEW t \in Threads, EnsureStarted(t) PROVE AnswersAgree'
  BY <1>1 DEF EnsureStarted
<1>2. ASSUME NEW t \in Threads, Publish(t) PROVE AnswersAgree'
  BY <1>2 DEF Publish
<1>3. ASSUME NEW t \in Threads, CheckInputs(t) PROVE AnswersAgree'
  BY <1>3 DEF CheckInputs
<1>4. ASSUME NEW t \in Threads, InitPeer(t) PROVE AnswersAgree'
  BY <1>4 DEF InitPeer
<1>5. ASSUME NEW t \in Threads, OpenOuterSocket(t) PROVE AnswersAgree'
  BY <1>5 DEF OpenOuterSocket
<1>6. ASSUME NEW t \in Threads, InitialHandshake(t) PROVE AnswersAgree'
  BY <1>6 DEF InitialHandshake
<1>7. ASSUME NEW t \in Threads, TcpipInit(t) PROVE AnswersAgree'
  BY <1>7 DEF TcpipInit
<1>8. ASSUME NEW t \in Threads, TcpipReady(t) PROVE AnswersAgree'
  BY <1>8 DEF TcpipReady
<1>9. ASSUME NEW t \in Threads, AddNetif(t) PROVE AnswersAgree'
  BY <1>9 DEF AddNetif
<1>10. ASSUME NEW t \in Threads, StartReceiveThread(t) PROVE AnswersAgree'
  BY <1>10 DEF StartReceiveThread
<1>11. ASSUME NEW t \in Threads, RouteCall(t) PROVE AnswersAgree'
  BY <1>11 DEF RouteCall
<1>12. ASSUME NEW t \in Threads, IsOnline(t) PROVE AnswersAgree'
  BY <1>12 DEF IsOnline
<1>13. ASSUME NEW t \in Threads, FreeList(t) PROVE AnswersAgree'
  BY <1>13 DEF FreeList
<1>14. ASSUME NEW t \in Threads, SpuriousWake(t) PROVE AnswersAgree'
  BY <1>14 DEF SpuriousWake
<1>15. ASSUME NEW t \in Threads, CallFree(t) PROVE AnswersAgree'
  BY <1>15 DEF CallFree
<1>16. ASSUME NEW t \in Threads, NEW c \in Calls, CallEnsure(t, c)
      PROVE  AnswersAgree'
  BY <1>16 DEF CallEnsure
<1>17. CASE TcpipReadyCallback
  BY <1>17 DEF TcpipReadyCallback
<1>18. CASE UNCHANGED vars
  BY <1>18 DEF vars
<1> QED
  BY <1>1, <1>2, <1>3, <1>4, <1>5, <1>6, <1>7, <1>8, <1>9, <1>10,
     <1>11, <1>12, <1>13, <1>14, <1>15, <1>16, <1>17, <1>18
     DEF Next, Proceed, start_tunnel

\* Every stage of start_tunnel finds what the earlier ones built.
LEMMA NextStagesBuild == StartInv /\ [Next]_vars => StagesBuild'
<1> SUFFICES ASSUME StartInv, [Next]_vars PROVE StagesBuild'
  OBVIOUS
<1> USE DEF StartInv, TypeOK, StagesBuild, OneStarter, TunnelReady,
           FailedReleases
<1>1. ASSUME NEW t \in Threads, EnsureStarted(t) PROVE StagesBuild'
  BY <1>1 DEF EnsureStarted
<1>2. ASSUME NEW t \in Threads, Publish(t) PROVE StagesBuild'
  BY <1>2 DEF Publish
<1>3. ASSUME NEW t \in Threads, CheckInputs(t) PROVE StagesBuild'
  BY <1>3 DEF CheckInputs
<1>4. ASSUME NEW t \in Threads, InitPeer(t) PROVE StagesBuild'
  BY <1>4 DEF InitPeer
<1>5. ASSUME NEW t \in Threads, OpenOuterSocket(t) PROVE StagesBuild'
  BY <1>5 DEF OpenOuterSocket
<1>6. ASSUME NEW t \in Threads, InitialHandshake(t) PROVE StagesBuild'
  BY <1>6 DEF InitialHandshake
<1>7. ASSUME NEW t \in Threads, TcpipInit(t) PROVE StagesBuild'
  BY <1>7 DEF TcpipInit
<1>8. ASSUME NEW t \in Threads, TcpipReady(t) PROVE StagesBuild'
  BY <1>8 DEF TcpipReady
<1>9. ASSUME NEW t \in Threads, AddNetif(t) PROVE StagesBuild'
  BY <1>9 DEF AddNetif
<1>10. ASSUME NEW t \in Threads, StartReceiveThread(t) PROVE StagesBuild'
  BY <1>10 DEF StartReceiveThread
<1>11. ASSUME NEW t \in Threads, RouteCall(t) PROVE StagesBuild'
  BY <1>11 DEF RouteCall
<1>12. ASSUME NEW t \in Threads, IsOnline(t) PROVE StagesBuild'
  BY <1>12 DEF IsOnline
<1>13. ASSUME NEW t \in Threads, FreeList(t) PROVE StagesBuild'
  BY <1>13 DEF FreeList
<1>14. ASSUME NEW t \in Threads, SpuriousWake(t) PROVE StagesBuild'
  BY <1>14 DEF SpuriousWake
<1>15. ASSUME NEW t \in Threads, CallFree(t) PROVE StagesBuild'
  BY <1>15 DEF CallFree
<1>16. ASSUME NEW t \in Threads, NEW c \in Calls, CallEnsure(t, c)
      PROVE  StagesBuild'
  BY <1>16 DEF CallEnsure
<1>17. CASE TcpipReadyCallback
  BY <1>17 DEF TcpipReadyCallback
<1>18. CASE UNCHANGED vars
  BY <1>18 DEF vars
<1> QED
  BY <1>1, <1>2, <1>3, <1>4, <1>5, <1>6, <1>7, <1>8, <1>9, <1>10,
     <1>11, <1>12, <1>13, <1>14, <1>15, <1>16, <1>17, <1>18
     DEF Next, Proceed, start_tunnel

\* Every step preserves the invariant.
LEMMA NextStartInv == StartInv /\ [Next]_vars => StartInv'
  BY NextTypeOK, NextOneStarter, NextWaitSet, NextAnswersAgree,
     NextStagesBuild DEF StartInv

\* The inductive invariant holds in every reachable state.
THEOREM StartInvariant == Spec => []StartInv
  BY InitStartInv, NextStartInv, PTL DEF Spec

\* Every variable of the start-up protocol keeps its type.
THEOREM StartTypeCorrect == Spec => []TypeOK
  BY StartInvariant, PTL DEF StartInv

\* However many threads call ensure_started, start_tunnel runs once.
THEOREM StartedOnceHolds == Spec => []StartedOnce
<1>1. StartInv => StartedOnce
  BY DEF StartInv, OneStarter, StartedOnce
<1> QED BY <1>1, StartInvariant, PTL

\* No thread sleeps on g_state_cond once the outcome is published.
THEOREM NoLostWakeupHolds == Spec => []NoLostWakeup
  BY StartInvariant, PTL DEF StartInv, WaitSet

\* A call is routed to lwIP only over a complete tunnel.
THEOREM OnlineMeansReadyHolds == Spec => []OnlineMeansReady
<1>1. StartInv => OnlineMeansReady
  BY DEF StartInv, AnswersAgree, StagesBuild, OnlineMeansReady
<1> QED BY <1>1, StartInvariant, PTL

\* No process uses both stacks for AF_INET, and every addrinfo list goes
\* back to its allocator.
THEOREM OneStackHolds == Spec => [](OneStack /\ FreeMatchesAlloc)
<1>1. StartInv => OneStack /\ FreeMatchesAlloc
  BY DEF StartInv, AnswersAgree, OneStack
<1> QED BY <1>1, StartInvariant, PTL

\* A failed start leaves at most the socket of a failed pthread_create.
THEOREM FailedReleasesHolds == Spec => []FailedReleases
  BY StartInvariant, PTL DEF StartInv, StagesBuild

\* ONLINE and FAILED are never left.
THEOREM OutcomeIsFinalHolds == Spec => OutcomeIsFinal
<1>1. StartInv /\ [Next]_vars =>
         [(g_state \in {"ONLINE", "FAILED"}) => (g_state' = g_state)]_vars
  <2> SUFFICES ASSUME StartInv, [Next]_vars,
                      g_state \in {"ONLINE", "FAILED"}
               PROVE  g_state' = g_state
    OBVIOUS
  <2> QED
    BY DEF StartInv, OneStarter, Next, Proceed, EnsureStarted, Publish,
           start_tunnel, CheckInputs, InitPeer, OpenOuterSocket,
           InitialHandshake, TcpipInit, TcpipReady, AddNetif,
           StartReceiveThread, RouteCall, IsOnline, FreeList, SpuriousWake,
           CallFree, CallEnsure, TcpipReadyCallback, vars
<1> QED BY <1>1, StartInvariant, PTL DEF Spec, OutcomeIsFinal

-----------------------------------------------------------------------------
(* Refinement: the start-up protocol implements one decision.              *)

\* The mapped variables, named.
Outcome == CASE g_state = "ONLINE" -> "online"
             [] g_state = "FAILED" -> "failed"
             [] OTHER -> "undecided"

Asking == {t \in Threads : pc[t] \in InEnsure}

Answered == {IF s = "lwip" THEN "online" ELSE "failed" : s \in routes}

\* Inside ensure_started and outside it, most steps are invisible.
LEMMA QuietStep ==
    ASSUME StartInv, [Next]_vars, UNCHANGED <<g_state, routes>>,
           \A u \in Threads : pc[u] \in InEnsure <=> pc'[u] \in InEnsure
    PROVE  UNCHANGED Abstract!oneShotVars
<1>1. Outcome' = Outcome
  BY DEF Outcome
<1>2. Asking' = Asking
  BY DEF Asking
<1>3. Answered' = Answered
  BY DEF Answered
<1> QED
  BY <1>1, <1>2, <1>3 DEF Abstract!oneShotVars, Outcome, Asking, Answered

\* The mutex, the condition variable and the stages of start_tunnel
\* implement one decision that every caller is told.
THEOREM StartImplementsOneShot == Spec => ImplementsOneShot
<1>1. Init => Abstract!OneShotInit
  BY DEF Init, Abstract!OneShotInit
<1>2. StartInv /\ [Next]_vars
         => [Abstract!OneShotNext]_(Abstract!oneShotVars)
  <2> SUFFICES ASSUME StartInv, [Next]_vars
               PROVE  Abstract!OneShotNext \/ UNCHANGED Abstract!oneShotVars
    OBVIOUS
  <2> USE DEF StartInv, TypeOK
  <2>1. ASSUME NEW t \in Threads, CheckInputs(t)
        PROVE  UNCHANGED Abstract!oneShotVars
    BY <2>1, QuietStep DEF CheckInputs
  <2>2. ASSUME NEW t \in Threads, InitPeer(t)
        PROVE  UNCHANGED Abstract!oneShotVars
    BY <2>2, QuietStep DEF InitPeer
  <2>3. ASSUME NEW t \in Threads, OpenOuterSocket(t)
        PROVE  UNCHANGED Abstract!oneShotVars
    BY <2>3, QuietStep DEF OpenOuterSocket
  <2>4. ASSUME NEW t \in Threads, InitialHandshake(t)
        PROVE  UNCHANGED Abstract!oneShotVars
    BY <2>4, QuietStep DEF InitialHandshake
  <2>5. ASSUME NEW t \in Threads, TcpipInit(t)
        PROVE  UNCHANGED Abstract!oneShotVars
    BY <2>5, QuietStep DEF TcpipInit
  <2>6. ASSUME NEW t \in Threads, TcpipReady(t)
        PROVE  UNCHANGED Abstract!oneShotVars
    BY <2>6, QuietStep DEF TcpipReady
  <2>7. ASSUME NEW t \in Threads, AddNetif(t)
        PROVE  UNCHANGED Abstract!oneShotVars
    BY <2>7, QuietStep DEF AddNetif
  <2>8. ASSUME NEW t \in Threads, StartReceiveThread(t)
        PROVE  UNCHANGED Abstract!oneShotVars
    BY <2>8, QuietStep DEF StartReceiveThread
  <2>9. ASSUME NEW t \in Threads, IsOnline(t)
        PROVE  UNCHANGED Abstract!oneShotVars
    BY <2>9, QuietStep DEF IsOnline
  <2>10. ASSUME NEW t \in Threads, FreeList(t)
        PROVE  UNCHANGED Abstract!oneShotVars
    BY <2>10, QuietStep DEF FreeList
  <2>11. ASSUME NEW t \in Threads, SpuriousWake(t)
        PROVE  UNCHANGED Abstract!oneShotVars
    BY <2>11, QuietStep DEF SpuriousWake, WaitSet
  <2>12. ASSUME NEW t \in Threads, CallFree(t)
        PROVE  UNCHANGED Abstract!oneShotVars
    BY <2>12, QuietStep DEF CallFree
  <2>13. ASSUME NEW t \in Threads, EnsureStarted(t)
        PROVE  UNCHANGED Abstract!oneShotVars
    <3>1. /\ Outcome' = Outcome /\ routes' = routes
          /\ \A u \in Threads : pc[u] \in InEnsure <=> pc'[u] \in InEnsure
      BY <2>13 DEF EnsureStarted, Outcome
    <3>2. Asking' = Asking /\ Answered' = Answered
      BY <3>1 DEF Asking, Answered
    <3> QED BY <3>1, <3>2 DEF Abstract!oneShotVars, Outcome, Asking, Answered
  <2>14. CASE TcpipReadyCallback
    BY <2>14, QuietStep DEF TcpipReadyCallback
  <2>15. CASE UNCHANGED vars
    BY <2>15, QuietStep DEF vars
  <2>16. ASSUME NEW t \in Threads, Publish(t)
        PROVE  \E o \in {"online", "failed"} : Abstract!Decide(o)
    <3>1. Outcome = "undecided" /\ Outcome' \in {"online", "failed"}
      BY <2>16 DEF Publish, OneStarter, Outcome
    <3>2. \A u \in Threads : pc[u] \in InEnsure <=> pc'[u] \in InEnsure
      BY <2>16 DEF Publish, WaitSet
    <3>3. t \in Asking /\ Asking' = Asking /\ Answered' = Answered
      BY <2>16, <3>2 DEF Publish, Asking, Answered
    <3> QED BY <3>1, <3>3 DEF Abstract!Decide, Outcome, Asking, Answered
  <2>17. ASSUME NEW t \in Threads, RouteCall(t)
        PROVE  Abstract!Answer(t)
    <3>1. /\ Outcome /= "undecided" /\ Outcome' = Outcome
          /\ Outcome = IF Stack(result[t]) = "lwip" THEN "online" ELSE "failed"
      BY <2>17 DEF RouteCall, AnswersAgree, Outcome
    <3>2. t \in Asking /\ Asking' = Asking \ {t}
      BY <2>17 DEF RouteCall, Asking
    <3>3. Answered' = Answered \cup {Outcome}
      BY <2>17, <3>1 DEF RouteCall, Answered
    <3> QED BY <3>1, <3>2, <3>3 DEF Abstract!Answer, Outcome, Asking, Answered
  <2>18. ASSUME NEW t \in Threads, NEW c \in Calls, CallEnsure(t, c)
        PROVE  Abstract!Ask(t)
    <3>1. Outcome' = Outcome /\ Answered' = Answered
      BY <2>18 DEF CallEnsure, Outcome, Answered
    <3>2. t \notin Asking /\ Asking' = Asking \cup {t}
      BY <2>18 DEF CallEnsure, Asking
    <3> QED BY <3>1, <3>2 DEF Abstract!Ask, Outcome, Asking, Answered
  <2> QED
    BY <2>1, <2>2, <2>3, <2>4, <2>5, <2>6, <2>7, <2>8, <2>9, <2>10,
       <2>11, <2>12, <2>13, <2>14, <2>15, <2>16, <2>17, <2>18
       DEF Next, Proceed, start_tunnel, Abstract!OneShotNext
<1> QED BY <1>1, <1>2, StartInvariant, PTL
        DEF Spec, ImplementsOneShot, Abstract!OneShot
=============================================================================
