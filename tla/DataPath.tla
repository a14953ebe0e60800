------------------------------ MODULE DataPath ------------------------------
(***************************************************************************)
(* The threads of moonlight/tunnel.c once the tunnel is online, and what   *)
(* they wait for: the receive thread keeps g_peer_mutex while it hands a   *)
(* decrypted packet to tcpip_input, lwIP's thread takes the same mutex in  *)
(* tunnel_netif_output, and the threads of the application queue their     *)
(* calls in the mailbox that tcpip_input uses (lwipopts.h: no core         *)
(* locking, TCPIP_MBOX_SIZE messages).  Keys and timers are in Session.    *)
(***************************************************************************)
EXTENDS Naturals, Sequences, FiniteSets

CONSTANTS
    Apps,               \* application threads that call lwIP's sockets
    TCPIP_MBOX_SIZE,
    OUTER_RCVBUF,       \* datagrams the outer socket buffers
    PBUF_POOL_SIZE,     \* packets lwIP can hold
    MaxDatagrams        \* bound: datagrams that are received

\* No application thread bears the name of another kind of message.
ASSUME DataPathAssumption ==
    /\ {TCPIP_MBOX_SIZE, OUTER_RCVBUF, PBUF_POOL_SIZE} \subseteq Nat \ {0}
    /\ MaxDatagrams \in Nat
    /\ Apps \cap {"none", "input", "timer"} = {}

VARIABLES
    mutex,      \* g_peer_mutex: "free", "receiver" or "lwip"
    outer,      \* datagrams waiting in the outer socket
    rpc,        \* the receive thread
    result,     \* of the datagram being processed
    pbuf,       \* the receive thread has a pbuf in hand
    lpc, job,   \* lwIP's thread and the message it works on
    mbox,       \* lwIP's mailbox
    call,       \* the state of each application thread
    pbufs,      \* packets allocated in lwIP
    received,   \* history: datagrams of the peer taken from the socket
    counters    \* rx_packets, the rejection counters, and history: the rest

receiver == <<rpc, result, pbuf, received>>
lwip == <<lpc, job>>
dpVars == <<mutex, outer, receiver, lwip, mbox, call, pbufs, counters>>

\* What process_handshake_response_locked and process_transport_locked can
\* answer before a pbuf is allocated.  "silent" is a response, a keepalive or
\* a message of another type; "-33" stands for -32, -40, -41, -43 and -44
\* too, which record_transport_rejection does not tell apart.
Verdicts == {"silent", "-33", "-42", "-47"}

Rejections == {"-33", "-42", "-45", "-46", "-47"}

DPInit ==
    /\ mutex = "free" /\ outer = 0
    /\ rpc = "recvfrom" /\ result = "none" /\ pbuf = FALSE
    /\ lpc = "fetch" /\ job = "none" /\ mbox = <<>>
    /\ call = [a \in Apps |-> "idle"]
    /\ pbufs = 0 /\ received = 0
    /\ counters = [rx |-> 0, decrypt |-> 0, replay |-> 0, other |-> 0,
                   silent |-> 0]

Lock(t) == mutex = "free" /\ mutex' = t

Unlock(t) == mutex = t /\ mutex' = "free"

Bump(c) == counters' = [counters EXCEPT ![c] = @ + 1]

-----------------------------------------------------------------------------
(* receive_thread_main.                                                    *)

\* sceNetRecvfrom: a datagram of the peer, or a timeout or a stranger's.
Recvfrom ==
    /\ rpc = "recvfrom"
    /\ \/ /\ outer > 0 /\ received < MaxDatagrams
          /\ outer' = outer - 1 /\ received' = received + 1
          /\ rpc' = "lock"
       \/ /\ outer' \in {outer, IF outer > 0 THEN outer - 1 ELSE 0}
          /\ rpc' = "timers"
          /\ UNCHANGED received
    /\ UNCHANGED <<mutex, result, pbuf, lwip, mbox, call, pbufs, counters>>

ReceiverLock ==
    /\ rpc = "lock" /\ Lock("receiver")
    /\ rpc' = "process"
    /\ UNCHANGED <<outer, result, pbuf, received, lwip, mbox, call, pbufs,
                   counters>>

\* The message is handled under the mutex; a packet for this host gets a
\* pbuf when there is one.
Process ==
    /\ rpc = "process"
    /\ \/ /\ result' \in Verdicts /\ rpc' = "unlock"
          /\ UNCHANGED <<pbuf, pbufs>>
       \/ /\ result' = "-45" /\ rpc' = "unlock"
          /\ UNCHANGED <<pbuf, pbufs>>
       \/ /\ pbufs < PBUF_POOL_SIZE
          /\ pbufs' = pbufs + 1 /\ pbuf' = TRUE
          /\ result' = "none" /\ rpc' = "input"
    /\ UNCHANGED <<mutex, outer, received, lwip, mbox, call, counters>>

\* Mutant of TcpipInput: waits for room in the mailbox, as lwIP's API calls
\* do.
TcpipInputBlocks ==
    /\ rpc = "input" /\ Len(mbox) < TCPIP_MBOX_SIZE
    /\ mbox' = Append(mbox, "input") /\ pbuf' = FALSE
    /\ Bump("rx") /\ result' = "delivered"
    /\ rpc' = "unlock"
    /\ UNCHANGED <<mutex, outer, received, lwip, call, pbufs>>

\* Mutant of TcpipInput: the pbuf is left to lwIP on an error too.
TcpipInputKeepsPbuf ==
    /\ rpc = "input" /\ pbuf' = FALSE
    /\ \/ /\ Len(mbox) < TCPIP_MBOX_SIZE
          /\ mbox' = Append(mbox, "input")
          /\ Bump("rx") /\ result' = "delivered"
       \/ result' = "-46" /\ UNCHANGED <<mbox, counters>>
    /\ rpc' = "unlock"
    /\ UNCHANGED <<mutex, outer, received, lwip, call, pbufs>>

\* tcpip_input tries to post: a full mailbox, or no memory for the message,
\* is an error at once, and the packet is freed.
TcpipInput ==
    /\ rpc = "input" /\ pbuf' = FALSE
    /\ \/ /\ Len(mbox) < TCPIP_MBOX_SIZE
          /\ mbox' = Append(mbox, "input")
          /\ Bump("rx") /\ result' = "delivered"
          /\ UNCHANGED pbufs
       \/ /\ result' = "-46" /\ pbufs' = pbufs - 1
          /\ UNCHANGED <<mbox, counters>>
    /\ rpc' = "unlock"
    /\ UNCHANGED <<mutex, outer, received, lwip, call>>

ReceiverUnlock ==
    /\ rpc = "unlock" /\ Unlock("receiver")
    /\ rpc' = IF result \in Rejections THEN "record" ELSE "timers"
    /\ IF result = "silent" THEN Bump("silent") ELSE UNCHANGED counters
    /\ UNCHANGED <<outer, result, pbuf, received, lwip, mbox, call, pbufs>>

\* Mutant of record_transport_rejection: a packet that lwIP had no room for is
\* not counted.
RecordOtherwise ==
    /\ rpc = "record"
    /\ CASE result = "-42" -> Bump("decrypt")
         [] result = "-47" -> Bump("replay")
         [] result = "-33" -> Bump("other")
         [] OTHER -> UNCHANGED counters
    /\ rpc' = "timers"
    /\ UNCHANGED <<mutex, outer, result, pbuf, received, lwip, mbox, call,
                   pbufs>>

record_transport_rejection ==
    /\ rpc = "record"
    /\ Bump(CASE result = "-42" -> "decrypt"
              [] result = "-47" -> "replay"
              [] OTHER -> "other")
    /\ rpc' = "timers"
    /\ UNCHANGED <<mutex, outer, result, pbuf, received, lwip, mbox, call,
                   pbufs>>

\* The rekey and keepalive timers, under the mutex again.
TimersLock ==
    /\ rpc = "timers" /\ Lock("receiver")
    /\ rpc' = "timed"
    /\ UNCHANGED <<outer, result, pbuf, received, lwip, mbox, call, pbufs,
                   counters>>

TimersUnlock ==
    /\ rpc = "timed" /\ Unlock("receiver")
    /\ rpc' = "recvfrom" /\ result' = "none"
    /\ UNCHANGED <<outer, pbuf, received, lwip, mbox, call, pbufs, counters>>

-----------------------------------------------------------------------------
(* lwIP's thread, external but for tunnel_netif_output.                    *)

\* A message, or a timer of lwIP that has expired.
Fetch ==
    /\ lpc = "fetch"
    /\ mbox /= <<>> /\ job' = Head(mbox) /\ mbox' = Tail(mbox)
    /\ lpc' = "handle"
    /\ UNCHANGED <<mutex, outer, receiver, call, pbufs, counters>>

LwipTimer ==
    /\ lpc = "fetch"
    /\ job' = "timer" /\ lpc' = "handle"
    /\ UNCHANGED <<mutex, outer, receiver, mbox, call, pbufs, counters>>

\* The message is handled, with a packet to send or without.
Handle ==
    /\ lpc = "handle"
    /\ lpc' \in {"output", "finish"}
    /\ UNCHANGED <<mutex, outer, receiver, job, mbox, call, pbufs, counters>>

\* tunnel_netif_output refuses an empty or oversized packet, or one it can
\* not copy, without the mutex.
NetifOutput ==
    /\ lpc = "output"
    /\ lpc' \in {"lock", "finish"}
    /\ UNCHANGED <<mutex, outer, receiver, job, mbox, call, pbufs, counters>>

NetifLock ==
    /\ lpc = "lock" /\ Lock("lwip")
    /\ lpc' = "send"
    /\ UNCHANGED <<outer, receiver, job, mbox, call, pbufs, counters>>

\* send_transport_locked and the unlock, whatever the result.
NetifSend ==
    /\ lpc = "send" /\ Unlock("lwip")
    /\ lpc' = "finish"
    /\ UNCHANGED <<outer, receiver, job, mbox, call, pbufs, counters>>

\* An input packet is freed, a call's thread is woken.
Finish ==
    /\ lpc = "finish"
    /\ pbufs' = IF job = "input" THEN pbufs - 1 ELSE pbufs
    /\ call' = [a \in Apps |-> IF job = a THEN "idle" ELSE call[a]]
    /\ lpc' = "fetch" /\ job' = "none"
    /\ UNCHANGED <<mutex, outer, receiver, mbox, counters>>

-----------------------------------------------------------------------------
(* The application's threads and the network, external.                    *)

Call(a) ==
    /\ call[a] = "idle"
    /\ call' = [call EXCEPT ![a] = "post"]
    /\ UNCHANGED <<mutex, outer, receiver, lwip, mbox, pbufs, counters>>

\* sys_mbox_post blocks while the mailbox is full; then the thread waits.
Post(a) ==
    /\ call[a] = "post" /\ Len(mbox) < TCPIP_MBOX_SIZE
    /\ mbox' = Append(mbox, a)
    /\ call' = [call EXCEPT ![a] = "wait"]
    /\ UNCHANGED <<mutex, outer, receiver, lwip, pbufs, counters>>

\* A datagram that finds the socket's buffer full is lost.
Arrive ==
    /\ outer' = IF outer < OUTER_RCVBUF THEN outer + 1 ELSE outer
    /\ UNCHANGED <<mutex, receiver, lwip, mbox, call, pbufs, counters>>

-----------------------------------------------------------------------------
Receiver ==
    \/ Recvfrom \/ ReceiverLock \/ Process \/ TcpipInput \/ ReceiverUnlock
    \/ record_transport_rejection \/ TimersLock \/ TimersUnlock

Lwip == Handle \/ NetifOutput \/ NetifLock \/ NetifSend \/ Finish

DPNext ==
    \/ Receiver \/ Lwip \/ Fetch \/ LwipTimer \/ Arrive
    \/ \E a \in Apps : Call(a) \/ Post(a)

DPSpec == DPInit /\ [][DPNext]_dpVars

\* Threads run; a mutex or a place in the mailbox that is free again and
\* again is got in the end; lwIP's timers do not keep it from its mailbox.
DPFairSpec ==
    /\ DPSpec
    /\ SF_dpVars(Receiver) /\ SF_dpVars(Lwip) /\ SF_dpVars(Fetch)
    /\ \A a \in Apps : SF_dpVars(Post(a))

-----------------------------------------------------------------------------
\* Every packet lwIP holds is in the mailbox, in the receive thread's hand
\* or being handled: no path of process_transport_locked leaks a pbuf or
\* frees one twice.
PbufsAccounted ==
    pbufs = Cardinality({i \in DOMAIN mbox : mbox[i] = "input"})
            + (IF pbuf THEN 1 ELSE 0) + (IF job = "input" THEN 1 ELSE 0)

\* Every datagram taken from the peer ends up in exactly one counter: it is
\* handed to lwIP, silently done with, or rejected for one reason.
DatagramsAccounted ==
    rpc \in {"recvfrom", "timers", "timed"} =>
        received = counters.rx + counters.decrypt + counters.replay
                   + counters.other + counters.silent

\* Nobody who holds g_peer_mutex waits for somebody who needs it: every
\* call of an application thread into lwIP returns, and the receive thread
\* comes back to its socket again and again.
NobodyStarves ==
    /\ \A a \in Apps : call[a] /= "idle" ~> call[a] = "idle"
    /\ []<>(rpc = "recvfrom")
=============================================================================
