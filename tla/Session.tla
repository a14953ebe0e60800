------------------------------ MODULE Session -------------------------------
(***************************************************************************)
(* The WireGuard session of moonlight/tunnel.c over an unreliable network: *)
(* perform_initial_handshake, the receive thread with its rekey and        *)
(* keepalive timers, and lwIP's thread sending through tunnel_netif_output *)
(* under g_peer_mutex.                                                     *)
(*                                                                         *)
(* A handshake is identified by the sender index of its initiation; the    *)
(* keys that handshake i yields are called key i.  A datagram stays in net *)
(* until it is lost, so it may arrive late, in any order and repeatedly.   *)
(* The gateway (Linux WireGuard) and wireguard-lwip are external.          *)
(***************************************************************************)
EXTENDS Naturals

CONSTANTS
    MaxHandshakes,        \* bound: initiations created
    MaxCounter,           \* bound: transport packets under one key, each way
    MaxTime,              \* bound: the process clock
    HANDSHAKE_TIMEOUT,    \* TSVITA_HANDSHAKE_TIMEOUT_US
    REKEY_INTERVAL,       \* TSVITA_REKEY_INTERVAL_US
    KEEPALIVE_INTERVAL,   \* TSVITA_KEEPALIVE_INTERVAL_US
    UINT64                \* the modulus of uint64_t subtraction

ASSUME BoundsAssumption ==
    /\ MaxHandshakes \in Nat \ {0} /\ MaxCounter \in Nat /\ MaxTime \in Nat
    /\ HANDSHAKE_TIMEOUT \in Nat
    /\ REKEY_INTERVAL \in Nat \ {0} /\ KEEPALIVE_INTERVAL \in Nat \ {0}
    /\ HANDSHAKE_TIMEOUT <= MaxTime
    /\ UINT64 \in Nat /\ MaxTime < UINT64

VARIABLES
    clock,      \* sceKernelGetProcessTimeWide
    pc,         \* the starting thread, then the receive thread
    now,        \* the receive thread's sample of the clock
    deadline,   \* of perform_initial_handshake
    curr, prev, \* peer->curr_keypair and peer->prev_keypair
    handshake,  \* peer->handshake: the index it is valid for, 0 if none
    pending_handshake_sender,
    last_handshake_us,
    last_transport_tx_us,
    nextIndex,  \* the next fresh sender index
    net,        \* datagrams in flight
    gateway,    \* the peer's keys: next (unconfirmed), send, prev, and so on
    encrypted,  \* history: encryptions per key and counter
    delivered,  \* history: packets handed to tcpip_input, per key and counter
    confirmed   \* history: keys the gateway has started to send with

peer == <<curr, prev, handshake, pending_handshake_sender,
          last_handshake_us, nextIndex>>
vars == <<clock, pc, now, deadline, peer, last_transport_tx_us, net, gateway,
          encrypted, delivered, confirmed>>

Keys == 1..MaxHandshakes

Counters == 0..(MaxCounter - 1)

\* A keypair: its key (0 when not valid), sending_counter, and the counters
\* its replay window has accepted (ReplaySpec).
Keypairs == [key : 0..MaxHandshakes, ctr : 0..MaxCounter,
             seen : SUBSET Counters]

NoKeypair == [key |-> 0, ctr |-> 0, seen |-> {}]

Messages == [type : {"init", "resp", "data"}, key : Keys]
            \cup [type : {"reply"}, key : Keys, ctr : Counters]

ThreadType ==
    /\ clock \in 0..MaxTime /\ now \in 0..MaxTime /\ deadline \in 0..MaxTime
    /\ pc \in {"hs_send", "hs_wait", "hs_recv", "lwip", "recv", "sample",
               "rekey", "keepalive", "failed"}

PeerType ==
    /\ curr \in Keypairs /\ prev \in Keypairs
    /\ handshake \in 0..MaxHandshakes
    /\ pending_handshake_sender \in 0..MaxHandshakes
    /\ last_handshake_us \in 0..MaxTime /\ last_transport_tx_us \in 0..MaxTime
    /\ nextIndex \in 1..(MaxHandshakes + 1)

GatewayType ==
    gateway \in [send : 0..MaxHandshakes, next : 0..MaxHandshakes,
                 prev : 0..MaxHandshakes, answered : 0..MaxHandshakes,
                 ctr : [Keys -> 0..MaxCounter]]

HistoryType ==
    /\ encrypted \in [Keys \X Counters -> Nat]
    /\ delivered \in [Keys \X Counters -> Nat]
    /\ confirmed \subseteq Keys

\* Indices, counters and times stay within the named bounds.
TypeOK ==
    ThreadType /\ PeerType /\ net \subseteq Messages /\ GatewayType
    /\ HistoryType

Init ==
    /\ clock = 0 /\ pc = "hs_send" /\ now = 0 /\ deadline = 0
    /\ curr = NoKeypair /\ prev = NoKeypair /\ handshake = 0
    /\ pending_handshake_sender = 0
    /\ last_handshake_us = 0 /\ last_transport_tx_us = 0 /\ nextIndex = 1
    /\ net = {}
    /\ gateway = [send |-> 0, next |-> 0, prev |-> 0, answered |-> 0,
                  ctr |-> [k \in Keys |-> 0]]
    /\ encrypted = [p \in Keys \X Counters |-> 0]
    /\ delivered = [p \in Keys \X Counters |-> 0]
    /\ confirmed = {}

\* uint64_t subtraction of two clock values.
Elapsed(later, earlier) ==
    IF later >= earlier THEN later - earlier ELSE UINT64 + later - earlier

-----------------------------------------------------------------------------
(* wireguard-lwip, as tunnel.c uses it.                                    *)

\* wireguard_create_handshake_initiation draws a fresh sender index.
CreateInitiation ==
    /\ nextIndex <= MaxHandshakes
    /\ handshake' = nextIndex
    /\ nextIndex' = nextIndex + 1

\* wireguard_process_handshake_response: only for the current handshake.
ResponseAuthentic(i) == i = handshake /\ handshake /= 0

\* wireguard_start_session(peer, true), which also ends the handshake.
StartSession(i) ==
    /\ prev' = curr
    /\ curr' = [key |-> i, ctr |-> 0, seen |-> {}]
    /\ handshake' = 0

\* get_peer_keypair_for_idx on a valid index.
KeypairForIdx(k) ==
    IF curr.key = k THEN "curr" ELSE IF prev.key = k THEN "prev" ELSE "none"

-----------------------------------------------------------------------------
(* The functions that run with g_peer_mutex held.                          *)

\* send_handshake_locked: no initiation, a failed sendto, or a pending one.
\* The index is remembered only when the datagram left.
SendHandshake ==
    \/ UNCHANGED <<handshake, nextIndex, pending_handshake_sender, net>>
    \/ CreateInitiation /\ UNCHANGED <<pending_handshake_sender, net>>
    \/ /\ CreateInitiation
       /\ net' = net \cup {[type |-> "init", key |-> nextIndex]}
       /\ pending_handshake_sender' = nextIndex

SentHandshake == pending_handshake_sender' /= pending_handshake_sender

\* Mutant of SendTransport: a failed sendto gives the counter back.
SendTransportOnSuccess ==
    /\ curr.key /= 0 /\ curr.ctr < MaxCounter
    /\ encrypted' = [encrypted EXCEPT ![<<curr.key, curr.ctr>>] = @ + 1]
    /\ \/ /\ net' = net \cup {[type |-> "data", key |-> curr.key]}
          /\ curr' = [curr EXCEPT !.ctr = @ + 1]
          /\ last_transport_tx_us' = clock
       \/ UNCHANGED <<net, curr, last_transport_tx_us>>
    /\ UNCHANGED <<prev, handshake, pending_handshake_sender,
                   last_handshake_us, nextIndex, delivered>>

\* send_transport_locked: encryption consumes the counter whether or not
\* sendto then succeeds.
SendTransport ==
    /\ curr.key /= 0 /\ curr.ctr < MaxCounter
    /\ curr' = [curr EXCEPT !.ctr = @ + 1]
    /\ encrypted' = [encrypted EXCEPT ![<<curr.key, curr.ctr>>] = @ + 1]
    /\ \/ /\ net' = net \cup {[type |-> "data", key |-> curr.key]}
          /\ last_transport_tx_us' = clock
       \/ UNCHANGED <<net, last_transport_tx_us>>
    /\ UNCHANGED <<prev, handshake, pending_handshake_sender,
                   last_handshake_us, nextIndex, delivered>>

\* Mutant of AcceptResponse: the old session is torn down first.
AcceptResponseWipesOld(i) ==
    /\ i = pending_handshake_sender /\ ResponseAuthentic(i)
    /\ prev' = NoKeypair
    /\ curr' = [key |-> i, ctr |-> 0, seen |-> {}]
    /\ handshake' = 0
    /\ last_handshake_us' = clock
    /\ pending_handshake_sender' = 0
    /\ UNCHANGED nextIndex

\* Mutant of AcceptResponse: the index stays pending.
AcceptResponseKeepsPending(i) ==
    /\ i = pending_handshake_sender /\ ResponseAuthentic(i)
    /\ StartSession(i)
    /\ last_handshake_us' = clock
    /\ UNCHANGED <<pending_handshake_sender, nextIndex>>

\* process_handshake_response_locked on a response to initiation i.
AcceptResponse(i) ==
    /\ i = pending_handshake_sender /\ ResponseAuthentic(i)
    /\ StartSession(i)
    /\ last_handshake_us' = clock
    /\ pending_handshake_sender' = 0
    /\ UNCHANGED nextIndex

RejectResponse(i) ==
    /\ i /= pending_handshake_sender \/ ~ResponseAuthentic(i)
    /\ UNCHANGED peer

\* process_transport_locked up to the replay check: both keypairs are
\* looked up by the receiver index of the packet.
Fresh(m) ==
    \/ KeypairForIdx(m.key) = "curr" /\ m.ctr \notin curr.seen
    \/ KeypairForIdx(m.key) = "prev" /\ m.ctr \notin prev.seen

\* Mutant of MarkSeen: the previous keypair has no window.
MarkSeenCurrentOnly(m) ==
    /\ UNCHANGED prev
    /\ curr' = IF KeypairForIdx(m.key) = "curr"
               THEN [curr EXCEPT !.seen = @ \cup {m.ctr}] ELSE curr

MarkSeen(m) ==
    IF KeypairForIdx(m.key) = "curr"
    THEN curr' = [curr EXCEPT !.seen = @ \cup {m.ctr}] /\ UNCHANGED prev
    ELSE prev' = [prev EXCEPT !.seen = @ \cup {m.ctr}] /\ UNCHANGED curr

\* After the replay check a packet is delivered, or dropped: a keepalive, a
\* malformed inner packet, no pbuf, a full lwIP mailbox.
ProcessTransport(m) ==
    /\ \/ /\ Fresh(m) /\ MarkSeen(m)
          /\ \/ delivered' = [delivered EXCEPT ![<<m.key, m.ctr>>] = @ + 1]
             \/ UNCHANGED delivered
       \/ ~Fresh(m) /\ UNCHANGED <<curr, prev, delivered>>
    /\ UNCHANGED <<handshake, pending_handshake_sender, last_handshake_us,
                   nextIndex>>

-----------------------------------------------------------------------------
(* perform_initial_handshake, run once by the thread in start_tunnel.      *)

HandshakeSend ==
    /\ pc = "hs_send"
    /\ SendHandshake
    /\ IF SentHandshake
       THEN pc' = "hs_wait" /\ deadline' = clock + HANDSHAKE_TIMEOUT
       ELSE pc' = "failed" /\ UNCHANGED deadline
    /\ UNCHANGED <<clock, now, curr, prev, last_handshake_us,
                   last_transport_tx_us, gateway, encrypted, delivered,
                   confirmed>>

\* Mutant of HandshakeLoop: without the deadline.
HandshakeLoopForever ==
    /\ pc = "hs_wait"
    /\ pc' = "hs_recv"
    /\ UNCHANGED <<clock, now, deadline, peer, last_transport_tx_us, net,
                   gateway, encrypted, delivered, confirmed>>

HandshakeLoop ==
    /\ pc = "hs_wait"
    /\ pc' = IF clock < deadline THEN "hs_recv" ELSE "failed"
    /\ UNCHANGED <<clock, now, deadline, peer, last_transport_tx_us, net,
                   gateway, encrypted, delivered, confirmed>>

\* recvfrom timed out, or brought anything that is not a response.
HandshakeNothing ==
    /\ pc = "hs_recv"
    /\ pc' = "hs_wait"
    /\ UNCHANGED <<clock, now, deadline, peer, last_transport_tx_us, net,
                   gateway, encrypted, delivered, confirmed>>

HandshakeResponse(i) ==
    /\ pc = "hs_recv" /\ [type |-> "resp", key |-> i] \in net
    /\ \/ AcceptResponse(i) /\ pc' = "lwip" /\ deadline' = 0
       \/ RejectResponse(i) /\ pc' = "hs_wait" /\ UNCHANGED deadline
    /\ UNCHANGED <<clock, now, last_transport_tx_us, net, gateway,
                   encrypted, delivered, confirmed>>

\* initialize_lwip and pthread_create (TunnelStart has their steps).
StartReceiving ==
    /\ pc = "lwip"
    /\ pc' \in {"recv", "failed"}
    /\ UNCHANGED <<clock, now, deadline, peer, last_transport_tx_us, net,
                   gateway, encrypted, delivered, confirmed>>

-----------------------------------------------------------------------------
(* receive_thread_main                                                     *)

\* A timeout, a datagram from elsewhere, or a type the thread ignores: the
\* gateway's own initiations and cookie replies among them.
ReceiveNothing ==
    /\ pc = "recv"
    /\ pc' = "sample"
    /\ UNCHANGED <<clock, now, deadline, peer, last_transport_tx_us, net,
                   gateway, encrypted, delivered, confirmed>>

ReceiveResponse(i) ==
    /\ pc = "recv" /\ [type |-> "resp", key |-> i] \in net
    /\ AcceptResponse(i) \/ RejectResponse(i)
    /\ pc' = "sample"
    /\ UNCHANGED <<clock, now, deadline, last_transport_tx_us, net, gateway,
                   encrypted, delivered, confirmed>>

ReceiveTransport(m) ==
    /\ pc = "recv" /\ m \in net /\ m.type = "reply"
    /\ ProcessTransport(m)
    /\ pc' = "sample"
    /\ UNCHANGED <<clock, now, deadline, last_transport_tx_us, net, gateway,
                   encrypted, confirmed>>

\* The clock is read before g_peer_mutex is taken.
SampleClock ==
    /\ pc = "sample"
    /\ now' = clock /\ pc' = "rekey"
    /\ UNCHANGED <<clock, deadline, peer, last_transport_tx_us, net, gateway,
                   encrypted, delivered, confirmed>>

RekeyDue ==
    /\ pending_handshake_sender = 0
    /\ Elapsed(now, last_handshake_us) >= REKEY_INTERVAL

\* Takes g_peer_mutex, which it keeps until Keepalive.
Rekey ==
    /\ pc = "rekey"
    /\ IF RekeyDue
       THEN SendHandshake
       ELSE UNCHANGED <<handshake, nextIndex, pending_handshake_sender, net>>
    /\ pc' = "keepalive"
    /\ UNCHANGED <<clock, now, deadline, curr, prev, last_handshake_us,
                   last_transport_tx_us, gateway, encrypted, delivered,
                   confirmed>>

\* Mutant of KeepaliveDue: measures from the last handshake.
KeepaliveDueSinceHandshake ==
    /\ curr.key /= 0
    /\ Elapsed(now, last_handshake_us) >= KEEPALIVE_INTERVAL

KeepaliveDue ==
    /\ curr.key /= 0
    /\ Elapsed(now, last_transport_tx_us) >= KEEPALIVE_INTERVAL

\* The end of an iteration, where the sample goes out of scope.
Keepalive ==
    /\ pc = "keepalive"
    /\ IF KeepaliveDue /\ curr.ctr < MaxCounter
       THEN SendTransport
       ELSE UNCHANGED <<peer, last_transport_tx_us, net, encrypted, delivered>>
    /\ pc' = "recv" /\ now' = 0
    /\ UNCHANGED <<clock, deadline, gateway, confirmed>>

\* tunnel_netif_output, called by lwIP's thread whenever the receive thread
\* does not hold g_peer_mutex.
NetifOutput ==
    /\ pc \in {"recv", "sample", "rekey"}
    /\ SendTransport
    /\ UNCHANGED <<clock, pc, now, deadline, gateway, confirmed>>

-----------------------------------------------------------------------------
(* External: the clock, the network and the gateway.                       *)

\* The bound leaves room for the deadline of the initial handshake.
Tick ==
    /\ clock < MaxTime
    /\ pc = "hs_send" => clock + HANDSHAKE_TIMEOUT < MaxTime
    /\ clock' = clock + 1
    /\ UNCHANGED <<pc, now, deadline, peer, last_transport_tx_us, net,
                   gateway, encrypted, delivered, confirmed>>

Lose(m) ==
    /\ m \in net
    /\ net' = net \ {m}
    /\ UNCHANGED <<clock, pc, now, deadline, peer, last_transport_tx_us,
                   gateway, encrypted, delivered, confirmed>>

\* The gateway answers an initiation once (its TAI64N stamp must grow); the
\* new key replaces an unconfirmed one and ends the previous one.
GatewayAnswer(i) ==
    /\ [type |-> "init", key |-> i] \in net /\ i > gateway.answered
    /\ gateway' = [gateway EXCEPT !.answered = i, !.next = i, !.prev = 0]
    /\ net' = net \cup {[type |-> "resp", key |-> i]}
    /\ UNCHANGED <<clock, pc, now, deadline, peer, last_transport_tx_us,
                   encrypted, delivered, confirmed>>

\* A packet under the unconfirmed key confirms it.
GatewayConfirm(i) ==
    /\ [type |-> "data", key |-> i] \in net /\ i = gateway.next
    /\ gateway' = [gateway EXCEPT !.prev = gateway.send, !.send = i, !.next = 0]
    /\ confirmed' = confirmed \cup {i}
    /\ UNCHANGED <<clock, pc, now, deadline, peer, last_transport_tx_us, net,
                   encrypted, delivered>>

GatewaySend ==
    LET k == gateway.send
    IN  /\ k /= 0 /\ gateway.ctr[k] < MaxCounter
        /\ gateway' = [gateway EXCEPT !.ctr[k] = @ + 1]
        /\ net' = net \cup {[type |-> "reply", key |-> k,
                             ctr |-> gateway.ctr[k]]}
        /\ UNCHANGED <<clock, pc, now, deadline, peer, last_transport_tx_us,
                       encrypted, delivered, confirmed>>

-----------------------------------------------------------------------------
ReceiveThread ==
    \/ ReceiveNothing \/ SampleClock \/ Rekey \/ Keepalive
    \/ \E i \in Keys : ReceiveResponse(i)
    \/ \E m \in net : ReceiveTransport(m)

Starter ==
    \/ HandshakeSend \/ HandshakeLoop \/ HandshakeNothing \/ StartReceiving
    \/ \E i \in Keys : HandshakeResponse(i)

Gateway ==
    \/ GatewaySend
    \/ \E i \in Keys : GatewayAnswer(i) \/ GatewayConfirm(i)

LosslessNext == Starter \/ ReceiveThread \/ NetifOutput \/ Gateway \/ Tick

Next == LosslessNext \/ \E m \in net : Lose(m)

Spec == Init /\ [][Next]_vars

\* The threads are scheduled and time passes.  Assumed: the outer socket has
\* its 100 ms timeout, whose setsockopt the code does not check.
Scheduled ==
    WF_vars(Starter) /\ WF_vars(ReceiveThread) /\ WF_vars(Tick)

\* Moreover the gateway answers what reaches it, a response that keeps being
\* in flight is received at last, and a sendto that is tried again and again
\* succeeds at last.
Fairness ==
    /\ Scheduled
    /\ SF_vars(Rekey /\ SentHandshake)
    /\ \A i \in Keys :
          /\ WF_vars(GatewayAnswer(i))
          /\ SF_vars(ReceiveResponse(i)) /\ SF_vars(HandshakeResponse(i))

FairSpec == Init /\ [][Next]_vars /\ Fairness

\* A path that loses datagrams until the tunnel is online, and none after.
LossyStartNext ==
    \/ LosslessNext
    \/ pc \in {"hs_send", "hs_wait", "hs_recv"} /\ \E m \in net : Lose(m)

FairLosslessSpec == Init /\ [][LossyStartNext]_vars /\ Fairness

-----------------------------------------------------------------------------
\* No two packets are ever encrypted under the same key and counter: not
\* when lwIP's thread and the keepalive timer send at the same time, not
\* after a failed sendto, not across a rekey.
NonceNeverReused == \A p \in Keys \X Counters : encrypted[p] <= 1

\* A packet of the gateway reaches lwIP at most once, however often and
\* however late the network delivers it, on either side of a rekey.
NoDuplicateDelivery == \A p \in Keys \X Counters : delivered[p] <= 1

\* The one handshake that is waited for is the one whose state the peer
\* still holds: its response can always be processed.
PendingIsCurrent ==
    pending_handshake_sender /= 0 => pending_handshake_sender = handshake

\* A rekey interrupts neither direction.  The gateway still sends with the
\* key the Vita sends with, once it has confirmed it; and whatever key the
\* gateway sends with, the receive thread finds a keypair for it, unless no
\* packet of the previous session ever reached the gateway.
RekeyKeepsBothDirections ==
    /\ curr.key \in confirmed => gateway.send = curr.key
    /\ (prev.key \in confirmed \/ prev.key = 0) =>
          gateway.send = 0 \/ KeypairForIdx(gateway.send) /= "none"

\* A keepalive goes out only after KEEPALIVE_INTERVAL without a transmission
\* or when lwIP's thread transmitted between the receive thread's sample of
\* the clock and its lock: the subtraction then wraps.
KeepaliveJustified ==
    [][(pc = "keepalive" /\ encrypted' /= encrypted) =>
          \/ clock - last_transport_tx_us >= KEEPALIVE_INTERVAL
          \/ last_transport_tx_us > now]_vars

\* perform_initial_handshake ends, with a session or with an error.
HandshakeEnds ==
    pc \in {"hs_send", "hs_wait", "hs_recv"} ~> pc \in {"lwip", "failed"}

\* A session older than REKEY_INTERVAL is replaced by a newer one (unless
\* the model has used up its indices on initiations that were not sent).
RekeyOverdue(k) ==
    /\ pc \in {"recv", "sample", "rekey", "keepalive"} /\ curr.key = k
    /\ clock - last_handshake_us >= REKEY_INTERVAL
    /\ nextIndex <= MaxHandshakes

RekeyHappens ==
    \A k \in Keys :
        RekeyOverdue(k) ~>
            \/ curr.key /= k
            \/ nextIndex > MaxHandshakes /\ pending_handshake_sender = 0
=============================================================================
