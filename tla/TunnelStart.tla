---------------------------- MODULE TunnelStart -----------------------------
(***************************************************************************)
(* Bringing the tunnel up: tsvita_tunnel_ensure_started with its mutex and *)
(* condition variable, start_tunnel stage by stage with every failure      *)
(* exit, initialize_lwip with its ready callback, and the socket-shim      *)
(* calls that route an application call by the answer (__wrap_socket,      *)
(* __wrap_getaddrinfo, __wrap_freeaddrinfo).                               *)
(*                                                                         *)
(* A critical section of g_state_mutex that makes no blocking call is one  *)
(* action; pthread_cond_wait splits it, and start_tunnel runs outside it.  *)
(***************************************************************************)
EXTENDS Naturals

CONSTANT Threads    \* application threads that use sockets

ASSUME ThreadsAssumption == Threads /= {}

VARIABLES
    g_state,          \* TunnelState
    waiters,          \* threads blocked on g_state_cond
    pc,               \* where each thread is
    call,             \* the shim function a thread is in
    result,           \* what ensure_started or is_online told the thread
    outer_socket,     \* g_tunnel.outer_socket: "none" is -1
    session,          \* a WireGuard session was established
    tcpip,            \* lwIP's thread: "off", "starting", "running"
    g_tcpip_ready,
    netif,            \* g_tunnel.netif: "absent", "partial" or "up"
    running,          \* g_tunnel.running
    receive_thread,   \* the receive thread exists
    lists,            \* the addrinfo list a thread holds, by its allocator
    starts,           \* history: how often start_tunnel was entered
    failedAt,         \* history: the stage at which start_tunnel failed
    routes,           \* history: the stacks AF_INET calls were routed to
    freed             \* history: <<allocator, deallocator>> of freed lists

tunnel == <<outer_socket, session, tcpip, g_tcpip_ready, netif, running,
            receive_thread>>
history == <<starts, failedAt, routes, freed>>
vars == <<g_state, waiters, pc, call, result, tunnel, lists, history>>

TunnelState == {"STOPPED", "STARTING", "ONLINE", "FAILED"}

Stages == {"wifi", "key", "config", "device", "socket", "handshake",
           "lwip", "lwip_wait", "netif", "thread"}

Starting == Stages \cup {"publish"}      \* inside ensure_started, as starter

InEnsure == Starting \cup {"enter", "wait", "return"}

Calls == {"socket", "getaddrinfo", "freeaddrinfo"}

Stacks == {"lwip", "real"}

Answers == {"online", "offline"}

\* The start-up state; only lists of a stack are ever freed.
TypeOK ==
    /\ g_state \in TunnelState /\ waiters \subseteq Threads
    /\ pc \in [Threads -> InEnsure \cup {"idle", "is_online", "free"}]
    /\ call \in [Threads -> Calls] /\ result \in [Threads -> Answers]
    /\ outer_socket \in {"none", "open"} /\ session \in BOOLEAN
    /\ tcpip \in {"off", "starting", "running"} /\ g_tcpip_ready \in BOOLEAN
    /\ netif \in {"absent", "partial", "up"}
    /\ running \in BOOLEAN /\ receive_thread \in BOOLEAN
    /\ lists \in [Threads -> Stacks \cup {"none"}]
    /\ starts \in Nat /\ failedAt \in Stages \cup {"none"}
    /\ routes \subseteq Stacks /\ freed \subseteq Stacks \X Stacks

Init ==
    /\ g_state = "STOPPED" /\ waiters = {}
    /\ pc = [t \in Threads |-> "idle"]
    /\ call = [t \in Threads |-> "socket"]
    /\ result = [t \in Threads |-> "offline"]
    /\ outer_socket = "none" /\ session = FALSE
    /\ tcpip = "off" /\ g_tcpip_ready = FALSE /\ netif = "absent"
    /\ running = FALSE /\ receive_thread = FALSE
    /\ lists = [t \in Threads |-> "none"]
    /\ starts = 0 /\ failedAt = "none" /\ routes = {} /\ freed = {}

Answer(state) == IF state = "ONLINE" THEN "online" ELSE "offline"

Goto(t, label) == pc' = [pc EXCEPT ![t] = label]

-----------------------------------------------------------------------------
(* tsvita_tunnel_ensure_started                                            *)

\* Mutant of EnsureStarted: answers "offline" during a start.
EnsureStartedNoWait(t) ==
    /\ pc[t] = "enter"
    /\ IF g_state = "STOPPED"
       THEN g_state' = "STARTING" /\ starts' = starts + 1 /\ Goto(t, "wifi")
            /\ UNCHANGED result
       ELSE /\ result' = [result EXCEPT ![t] = Answer(g_state)]
            /\ Goto(t, "return") /\ UNCHANGED <<g_state, starts>>
    /\ UNCHANGED <<waiters, call, tunnel, lists, failedAt, routes, freed>>

\* The while loop and the tests after it, with g_state_mutex held.
EnsureStarted(t) ==
    /\ pc[t] = "enter"
    /\ \/ /\ g_state = "STARTING"
          /\ waiters' = waiters \cup {t}
          /\ Goto(t, "wait")
          /\ UNCHANGED <<g_state, result, starts>>
       \/ /\ g_state \in {"ONLINE", "FAILED"}
          /\ result' = [result EXCEPT ![t] = Answer(g_state)]
          /\ Goto(t, "return")
          /\ UNCHANGED <<g_state, waiters, starts>>
       \/ /\ g_state = "STOPPED"
          /\ g_state' = "STARTING"
          /\ starts' = starts + 1
          /\ Goto(t, "wifi")
          /\ UNCHANGED <<waiters, result>>
    /\ UNCHANGED <<call, tunnel, lists, failedAt, routes, freed>>

\* POSIX lets pthread_cond_wait return without a signal.
SpuriousWake(t) ==
    /\ t \in waiters
    /\ waiters' = waiters \ {t}
    /\ Goto(t, "enter")
    /\ UNCHANGED <<g_state, call, result, tunnel, lists, history>>

\* Mutant of Publish: nobody is woken.
PublishNoBroadcast(t) ==
    /\ pc[t] = "publish"
    /\ g_state' = IF result[t] = "online" THEN "ONLINE" ELSE "FAILED"
    /\ Goto(t, "return")
    /\ UNCHANGED <<waiters, call, result, tunnel, lists, history>>

\* start_tunnel returned: publish the state and wake every waiter.
Publish(t) ==
    /\ pc[t] = "publish"
    /\ g_state' = IF result[t] = "online" THEN "ONLINE" ELSE "FAILED"
    /\ waiters' = {}
    /\ pc' = [u \in Threads |-> IF u = t THEN "return"
                                ELSE IF u \in waiters THEN "enter" ELSE pc[u]]
    /\ UNCHANGED <<call, result, tunnel, lists, history>>

-----------------------------------------------------------------------------
(* start_tunnel                                                            *)

Advance(t, next) == Goto(t, next) /\ UNCHANGED <<result, failedAt>>

Fail(t) ==
    /\ Goto(t, "publish")
    /\ result' = [result EXCEPT ![t] = "offline"]
    /\ failedAt' = pc[t]

Elsewhere == UNCHANGED <<g_state, waiters, call, lists, starts, routes, freed>>

CheckWifi(t) == pc[t] = "wifi" /\ (Advance(t, "key") \/ Fail(t))

load_private_key(t) == pc[t] = "key" /\ (Advance(t, "config") \/ Fail(t))

load_peer_config(t) == pc[t] = "config" /\ (Advance(t, "device") \/ Fail(t))

\* Errors -60, -2, -3 to -7 and those of the file system.
CheckInputs(t) ==
    /\ CheckWifi(t) \/ load_private_key(t) \/ load_peer_config(t)
    /\ UNCHANGED tunnel /\ Elsewhere

\* The memset of g_tunnel, then device, peer and endpoint: -61, -62, -63.
InitPeer(t) ==
    /\ pc[t] = "device"
    /\ outer_socket' = "none" /\ session' = FALSE /\ netif' = "absent"
    /\ running' = FALSE /\ receive_thread' = FALSE
    /\ Advance(t, "socket") \/ Fail(t)
    /\ UNCHANGED <<tcpip, g_tcpip_ready>> /\ Elsewhere

OpenOuterSocket(t) ==
    /\ pc[t] = "socket"
    /\ \/ outer_socket' = "open" /\ Advance(t, "handshake")
       \/ UNCHANGED outer_socket /\ Fail(t)
    /\ UNCHANGED <<session, tcpip, g_tcpip_ready, netif, running,
                   receive_thread>> /\ Elsewhere

\* perform_initial_handshake: a session, or an error that closes the socket.
InitialHandshake(t) ==
    /\ pc[t] = "handshake"
    /\ \/ session' = TRUE /\ UNCHANGED outer_socket /\ Advance(t, "lwip")
       \/ outer_socket' = "none" /\ UNCHANGED session /\ Fail(t)
    /\ UNCHANGED <<tcpip, g_tcpip_ready, netif, running, receive_thread>>
    /\ Elsewhere

\* initialize_lwip up to the wait: tcpip_init spawns lwIP's thread.
TcpipInit(t) ==
    /\ pc[t] = "lwip"
    /\ g_tcpip_ready' = FALSE /\ tcpip' = "starting"
    /\ Advance(t, "lwip_wait")
    /\ UNCHANGED <<outer_socket, session, netif, running, receive_thread>>
    /\ Elsewhere

\* Mutant of TcpipReadyCallback: signals without setting the flag.
TcpipReadyCallbackUnset ==
    /\ tcpip = "starting"
    /\ tcpip' = "running" /\ UNCHANGED g_tcpip_ready
    /\ UNCHANGED <<g_state, waiters, pc, call, result, outer_socket, session,
                   netif, running, receive_thread, lists, history>>

\* lwIP's thread runs the callback once it can take g_tcpip_init_mutex.
TcpipReadyCallback ==
    /\ tcpip = "starting"
    /\ tcpip' = "running" /\ g_tcpip_ready' = TRUE
    /\ UNCHANGED <<g_state, waiters, pc, call, result, outer_socket, session,
                   netif, running, receive_thread, lists, history>>

TcpipReady(t) ==
    /\ pc[t] = "lwip_wait" /\ g_tcpip_ready
    /\ Advance(t, "netif")
    /\ UNCHANGED tunnel /\ Elsewhere

\* Mutant of AddNetif: a failure leaves the outer socket open.
AddNetifLeaks(t) ==
    /\ pc[t] = "netif"
    /\ \/ netif' = "up" /\ Advance(t, "thread")
       \/ netif' \in {"absent", "partial"} /\ Fail(t)
    /\ UNCHANGED <<outer_socket, session, tcpip, g_tcpip_ready, running,
                   receive_thread>>
    /\ Elsewhere

\* Four netifapi calls; any of them may fail (-50), which closes the socket
\* but leaves lwIP's thread and whatever the earlier calls configured.
AddNetif(t) ==
    /\ pc[t] = "netif"
    /\ \/ netif' = "up" /\ UNCHANGED outer_socket /\ Advance(t, "thread")
       \/ /\ netif' \in {"absent", "partial"}
          /\ outer_socket' = "none" /\ Fail(t)
    /\ UNCHANGED <<session, tcpip, g_tcpip_ready, running, receive_thread>>
    /\ Elsewhere

\* Mutant of StartReceiveThread: ignores what pthread_create returned.
StartReceiveThreadUnchecked(t) ==
    /\ pc[t] = "thread"
    /\ running' = TRUE /\ receive_thread' \in BOOLEAN
    /\ Goto(t, "publish")
    /\ result' = [result EXCEPT ![t] = "online"]
    /\ UNCHANGED <<failedAt, outer_socket, session, tcpip, g_tcpip_ready, netif>>
    /\ Elsewhere

\* pthread_create; its failure (-64) clears running but not the socket.
StartReceiveThread(t) ==
    /\ pc[t] = "thread"
    /\ \/ /\ running' = TRUE /\ receive_thread' = TRUE
          /\ Goto(t, "publish")
          /\ result' = [result EXCEPT ![t] = "online"]
          /\ UNCHANGED failedAt
       \/ running' = FALSE /\ UNCHANGED receive_thread /\ Fail(t)
    /\ UNCHANGED <<outer_socket, session, tcpip, g_tcpip_ready, netif>>
    /\ Elsewhere

start_tunnel(t) ==
    \/ CheckInputs(t) \/ InitPeer(t) \/ OpenOuterSocket(t)
    \/ InitialHandshake(t) \/ TcpipInit(t) \/ TcpipReady(t)
    \/ AddNetif(t) \/ StartReceiveThread(t)

-----------------------------------------------------------------------------
(* The routing calls of socket_shim.c                                      *)

\* __wrap_socket(AF_INET, ...) and __wrap_getaddrinfo enter ensure_started.
CallEnsure(t, c) ==
    /\ pc[t] = "idle" /\ c \in {"socket", "getaddrinfo"}
    /\ c = "getaddrinfo" => lists[t] = "none"
    /\ call' = [call EXCEPT ![t] = c]
    /\ Goto(t, "enter")
    /\ UNCHANGED <<g_state, waiters, result, tunnel, lists, history>>

Stack(answer) == IF answer = "online" THEN "lwip" ELSE "real"

\* The answer picks the stack; the call on that stack may itself fail.
RouteCall(t) ==
    /\ pc[t] = "return"
    /\ routes' = routes \cup {Stack(result[t])}
    /\ \/ call[t] = "getaddrinfo"
          /\ lists' = [lists EXCEPT ![t] = Stack(result[t])]
       \/ UNCHANGED lists
    /\ Goto(t, "idle")
    /\ UNCHANGED <<g_state, waiters, call, result, tunnel, starts, failedAt,
                   freed>>

\* __wrap_freeaddrinfo asks tsvita_tunnel_is_online, then frees.
CallFree(t) ==
    /\ pc[t] = "idle" /\ lists[t] /= "none"
    /\ call' = [call EXCEPT ![t] = "freeaddrinfo"]
    /\ Goto(t, "is_online")
    /\ UNCHANGED <<g_state, waiters, result, tunnel, lists, history>>

\* Mutant of IsOnline: compares with the wrong state.
IsOnlineWhileStarting(t) ==
    /\ pc[t] = "is_online"
    /\ result' = [result EXCEPT ![t] =
                      IF g_state = "STARTING" THEN "online" ELSE "offline"]
    /\ Goto(t, "free")
    /\ UNCHANGED <<g_state, waiters, call, tunnel, lists, history>>

IsOnline(t) ==
    /\ pc[t] = "is_online"
    /\ result' = [result EXCEPT ![t] = Answer(g_state)]
    /\ Goto(t, "free")
    /\ UNCHANGED <<g_state, waiters, call, tunnel, lists, history>>

FreeList(t) ==
    /\ pc[t] = "free"
    /\ freed' = freed \cup {<<lists[t], Stack(result[t])>>}
    /\ lists' = [lists EXCEPT ![t] = "none"]
    /\ Goto(t, "idle")
    /\ UNCHANGED <<g_state, waiters, call, result, tunnel, starts, failedAt,
                   routes>>

-----------------------------------------------------------------------------
\* What a thread does by itself once it is inside a shim call.
Proceed(t) ==
    \/ EnsureStarted(t) \/ Publish(t) \/ start_tunnel(t)
    \/ RouteCall(t) \/ IsOnline(t) \/ FreeList(t)

Next ==
    \/ \E t \in Threads :
          \/ Proceed(t) \/ SpuriousWake(t) \/ CallFree(t)
          \/ \E c \in Calls : CallEnsure(t, c)
    \/ TcpipReadyCallback

\* Every thread is scheduled, and no stage of start_tunnel blocks for ever:
\* the handshake has a 5 s deadline and recvfrom a 100 ms timeout.  Assumed:
\* the setsockopt of that timeout, whose result the code ignores, succeeds.
Fairness ==
    /\ \A t \in Threads : WF_vars(Proceed(t))
    /\ WF_vars(TcpipReadyCallback)

Spec == Init /\ [][Next]_vars

FairSpec == Spec /\ Fairness

-----------------------------------------------------------------------------
\* start_tunnel resets g_tunnel and calls tcpip_init, which lwIP allows
\* once per process: however many threads race into ensure_started, and
\* whatever fails, it is entered at most once.
StartedOnce == starts <= 1

\* A thread sleeps on g_state_cond only while a start is under way: the
\* broadcast wakes every waiter and none goes to sleep after it.
NoLostWakeup == waiters /= {} => g_state = "STARTING"

\* Before a call is routed to lwIP everything a packet needs is up: the
\* session, lwIP's thread, the netif, the outer socket, the receive thread.
TunnelReady ==
    /\ session /\ tcpip = "running" /\ netif = "up"
    /\ outer_socket = "open" /\ running /\ receive_thread

OnlineMeansReady == (g_state = "ONLINE" \/ "lwip" \in routes) => TunnelReady

\* A process never mixes stacks: no AF_INET call is answered by the Vita's
\* own stack before or after another one went through the tunnel.
OneStack == ~({"lwip", "real"} \subseteq routes)

\* freeaddrinfo decides by the state at the time of the free, not by who
\* allocated: every list still goes back to the allocator it came from.
FreeMatchesAlloc == \A f \in freed : f[1] = f[2]

\* A failed start keeps no receive thread, and no outer socket unless it is
\* the creation of the receive thread that failed.
FailedReleases ==
    g_state = "FAILED" =>
        /\ ~receive_thread /\ ~running
        /\ outer_socket = "open" => failedAt = "thread"

\* Both outcomes are final: nothing restarts the tunnel or takes it down.
OutcomeIsFinal ==
    [][(g_state \in {"ONLINE", "FAILED"}) => (g_state' = g_state)]_vars

\* Every call of the shim returns, waiters included.
EveryCallReturns == \A t \in Threads : pc[t] /= "idle" ~> pc[t] = "idle"

\* The mutex, the condition variable and the stages implement one decision.
Abstract == INSTANCE OneShotOutcome WITH
    outcome <- CASE g_state = "ONLINE" -> "online"
                 [] g_state = "FAILED" -> "failed"
                 [] OTHER -> "undecided",
    asking <- {t \in Threads : pc[t] \in InEnsure},
    answers <- {IF s = "lwip" THEN "online" ELSE "failed" : s \in routes}

ImplementsOneShot == Abstract!OneShot
=============================================================================
