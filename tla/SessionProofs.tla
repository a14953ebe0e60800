--------------------------- MODULE SessionProofs ----------------------------
(***************************************************************************)
(* TLAPS proofs about Session, for any number of handshakes, packets and   *)
(* ticks, and any interleaving, loss, duplication and reordering.          *)
(***************************************************************************)
EXTENDS Session, TLAPS

\* Key numbers only grow: a handshake under way is newer than every session,
\* the current session is newer than the previous one.
KeysGrow ==
    /\ curr.key < nextIndex /\ handshake < nextIndex
    /\ prev.key = 0 \/ prev.key < curr.key
    /\ handshake /= 0 => curr.key < handshake
    /\ pc = "hs_send" => pending_handshake_sender = 0
    /\ PendingIsCurrent

\* The counters used under a key are below its sending_counter; a key newer
\* than the current one is unused.
NoncesBelow ==
    /\ NonceNeverReused
    /\ \A k \in Keys, c \in Counters :
          encrypted[<<k, c>>] /= 0 =>
              k <= curr.key /\ (k = curr.key => c < curr.ctr)

\* Whatever was delivered is marked in the window of its keypair, as long as
\* that keypair is held.
DeliveredSeen ==
    /\ NoDuplicateDelivery
    /\ \A k \in Keys, c \in Counters :
          delivered[<<k, c>>] /= 0 =>
              /\ k <= curr.key
              /\ k = curr.key => c \in curr.seen
              /\ k = prev.key => c \in prev.seen

\* The gateway's sending key is the newest it has confirmed; what it has not
\* confirmed yet is newer; and it only ever confirms a key the Vita has used
\* as its current one.
GatewayBehind ==
    /\ gateway.send = 0 \/ gateway.send \in confirmed
    /\ \A k \in confirmed : k <= gateway.send
    /\ gateway.send <= gateway.answered
    /\ gateway.next = 0 \/ gateway.send < gateway.next
    /\ gateway.next <= gateway.answered
    /\ gateway.send = curr.key \/ gateway.send <= prev.key

\* Packets in flight were encrypted under the current key or an older one.
DataBehind ==
    \A m \in net : m.type = "data" => m.key = curr.key \/ m.key <= prev.key

\* The bound on the clock leaves room for the first deadline.
StartRoom == pc = "hs_send" => clock + HANDSHAKE_TIMEOUT <= MaxTime

SessionInv ==
    /\ TypeOK /\ StartRoom /\ KeysGrow /\ NoncesBelow /\ DeliveredSeen
    /\ GatewayBehind /\ DataBehind

\* The invariant holds before the first initiation.
LEMMA InitSessionInv == Init => SessionInv
<1> SUFFICES ASSUME Init PROVE SessionInv
  OBVIOUS
<1> USE BoundsAssumption DEF Init, NoKeypair, Keys, Counters
<1>1. ThreadType /\ PeerType
  BY DEF ThreadType, PeerType, Keypairs
<1>2. net \subseteq Messages /\ GatewayType /\ HistoryType
  BY DEF GatewayType, HistoryType
<1>3. StartRoom /\ KeysGrow
  BY DEF StartRoom, KeysGrow, PendingIsCurrent
<1>4. NoncesBelow /\ DeliveredSeen
  BY DEF NoncesBelow, NonceNeverReused, DeliveredSeen, NoDuplicateDelivery
<1>5. GatewayBehind /\ DataBehind
  BY DEF GatewayBehind, DataBehind
<1> QED BY <1>1, <1>2, <1>3, <1>4, <1>5 DEF SessionInv, TypeOK

-----------------------------------------------------------------------------
(* What each shared function does to the parts of the invariant.           *)

\* Steps that touch neither the peer nor the network nor the gateway.
LEMMA QuietStep ==
    ASSUME SessionInv, ThreadType', StartRoom',
           UNCHANGED <<peer, last_transport_tx_us, net, gateway, encrypted,
                       delivered, confirmed>>,
           pc' = "hs_send" => pc = "hs_send"
    PROVE  SessionInv'
<1> USE DEF SessionInv, peer
<1>1. TypeOK'
  BY DEF TypeOK, PeerType, GatewayType, HistoryType
<1>2. KeysGrow'
  BY DEF KeysGrow, PendingIsCurrent
<1>3. NoncesBelow' /\ DeliveredSeen'
  BY DEF NoncesBelow, NonceNeverReused, DeliveredSeen, NoDuplicateDelivery
<1>4. GatewayBehind' /\ DataBehind'
  BY DEF GatewayBehind, DataBehind
<1> QED BY <1>1, <1>2, <1>3, <1>4

\* send_handshake_locked, called only while no handshake is pending.
LEMMA SendHandshakeStep ==
    ASSUME SessionInv, ThreadType', SendHandshake,
           pending_handshake_sender = 0, pc' /= "hs_send",
           UNCHANGED <<curr, prev, last_handshake_us, last_transport_tx_us,
                       gateway, encrypted, delivered, confirmed>>
    PROVE  SessionInv'
<1> USE DEF SessionInv
<1>0. /\ curr.key \in Nat /\ prev.key \in Nat /\ handshake \in Nat
      /\ nextIndex \in 1..(MaxHandshakes + 1)
  BY BoundsAssumption DEF TypeOK, PeerType, Keypairs
<1>1. /\ \/ handshake' = handshake /\ nextIndex' = nextIndex
            /\ pending_handshake_sender' = 0
         \/ /\ nextIndex <= MaxHandshakes
            /\ handshake' = nextIndex /\ nextIndex' = nextIndex + 1
            /\ pending_handshake_sender' \in {0, nextIndex}
      /\ net' = net \/ (nextIndex <= MaxHandshakes /\
            net' = net \cup {[type |-> "init", key |-> nextIndex]})
  BY DEF SendHandshake, CreateInitiation
<1>2. PeerType'
  BY <1>0, <1>1, BoundsAssumption DEF TypeOK, PeerType
<1>3. net' \subseteq Messages
  BY <1>0, <1>1, BoundsAssumption DEF TypeOK, Messages, Keys
<1>4. TypeOK'
  BY <1>2, <1>3 DEF TypeOK, GatewayType, HistoryType
<1>5. KeysGrow'
  BY <1>0, <1>1, BoundsAssumption DEF KeysGrow, PendingIsCurrent
<1>6. NoncesBelow' /\ DeliveredSeen'
  BY DEF NoncesBelow, NonceNeverReused, DeliveredSeen, NoDuplicateDelivery
<1>7. GatewayBehind'
  BY DEF GatewayBehind
<1>8. DataBehind'
  BY <1>1 DEF DataBehind
<1> QED BY <1>4, <1>5, <1>6, <1>7, <1>8 DEF StartRoom

\* send_transport_locked.
LEMMA SendTransportStep ==
    ASSUME SessionInv, ThreadType', SendTransport, pc' /= "hs_send",
           UNCHANGED <<gateway, confirmed>>
    PROVE  SessionInv'
<1> USE DEF SessionInv
<1>0. /\ curr.key \in 1..MaxHandshakes /\ curr.ctr \in 0..(MaxCounter - 1)
      /\ prev.key \in Nat /\ <<curr.key, curr.ctr>> \in Keys \X Counters
  BY BoundsAssumption
     DEF SendTransport, TypeOK, PeerType, Keypairs, Keys, Counters
<1>1. /\ curr'.key = curr.key /\ curr'.ctr = curr.ctr + 1
      /\ curr'.seen = curr.seen /\ prev' = prev
      /\ curr' \in Keypairs
  BY <1>0, BoundsAssumption DEF SendTransport, TypeOK, PeerType, Keypairs
<1>2. PeerType'
  BY <1>1 DEF SendTransport, TypeOK, PeerType, ThreadType
<1>3. net' \subseteq Messages
  BY <1>0 DEF SendTransport, TypeOK, Messages, Keys
<1>4. HistoryType'
  BY <1>0 DEF SendTransport, TypeOK, HistoryType
<1>5. TypeOK'
  BY <1>2, <1>3, <1>4 DEF TypeOK, GatewayType
<1>6. KeysGrow'
  BY <1>1 DEF SendTransport, KeysGrow, PendingIsCurrent
<1>7. NoncesBelow'
  <2>1. encrypted[<<curr.key, curr.ctr>>] = 0
    BY <1>0 DEF NoncesBelow, Keys, Counters
  <2>2. \A k \in Keys, c \in Counters :
           encrypted'[<<k, c>>] = IF k = curr.key /\ c = curr.ctr
                                  THEN 1 ELSE encrypted[<<k, c>>]
    BY <1>0, <2>1 DEF SendTransport, TypeOK, HistoryType
  <2>3. NonceNeverReused'
    BY <2>2 DEF NoncesBelow, NonceNeverReused
  <2>4. ASSUME NEW k \in Keys, NEW c \in Counters, encrypted'[<<k, c>>] /= 0
        PROVE  k <= curr'.key /\ (k = curr'.key => c < curr'.ctr)
    BY <1>0, <1>1, <2>2, <2>4 DEF NoncesBelow, Keys, Counters
  <2> QED BY <2>3, <2>4 DEF NoncesBelow
<1>8. DeliveredSeen'
  BY <1>1 DEF SendTransport, DeliveredSeen, NoDuplicateDelivery
<1>9. GatewayBehind'
  BY <1>1 DEF GatewayBehind
<1>10. DataBehind'
  BY <1>1 DEF SendTransport, DataBehind
<1> QED BY <1>5, <1>6, <1>7, <1>8, <1>9, <1>10 DEF StartRoom

\* process_handshake_response_locked when it accepts.
LEMMA AcceptResponseStep ==
    ASSUME SessionInv, ThreadType', NEW i \in Keys, AcceptResponse(i),
           pc' /= "hs_send",
           UNCHANGED <<last_transport_tx_us, net, gateway, encrypted,
                       delivered, confirmed>>
    PROVE  SessionInv'
<1> USE DEF SessionInv
<1>0. /\ i \in 1..MaxHandshakes /\ i = handshake /\ curr.key < i
      /\ curr.key \in Nat /\ prev.key \in Nat /\ i < nextIndex
      /\ nextIndex \in Nat
  BY BoundsAssumption
     DEF AcceptResponse, ResponseAuthentic, KeysGrow, Keys, TypeOK, PeerType,
         Keypairs
<1>1. /\ curr' = [key |-> i, ctr |-> 0, seen |-> {}] /\ prev' = curr
      /\ handshake' = 0 /\ pending_handshake_sender' = 0
      /\ nextIndex' = nextIndex /\ last_handshake_us' = clock
  BY DEF AcceptResponse, StartSession
<1>2. curr'.key = i /\ curr'.ctr = 0 /\ curr'.seen = {} /\ curr' \in Keypairs
  BY <1>0, <1>1, BoundsAssumption DEF Keypairs
<1>3. PeerType'
  BY <1>1, <1>2, BoundsAssumption DEF TypeOK, PeerType, ThreadType
<1>4. TypeOK'
  BY <1>3 DEF TypeOK, GatewayType, HistoryType
<1>5. KeysGrow'
  BY <1>0, <1>1, <1>2 DEF KeysGrow, PendingIsCurrent
<1>6. NoncesBelow'
  BY <1>0, <1>2 DEF NoncesBelow, NonceNeverReused, Keys
<1>7. DeliveredSeen'
  BY <1>0, <1>1, <1>2 DEF DeliveredSeen, NoDuplicateDelivery, Keys
<1>8. GatewayBehind'
  <2>1. gateway.send \in Nat
    BY BoundsAssumption DEF TypeOK, GatewayType
  <2>2. gateway.send <= prev'.key
    BY <1>0, <1>1, <2>1 DEF GatewayBehind, KeysGrow
  <2> QED BY <2>2 DEF GatewayBehind
<1>9. DataBehind'
  <2> SUFFICES ASSUME NEW m \in net, m.type = "data" PROVE m.key <= prev'.key
    BY DEF DataBehind
  <2>1. m.key \in Nat
    BY DEF TypeOK, Messages, Keys
  <2> QED BY <1>0, <1>1, <2>1 DEF DataBehind, KeysGrow
<1> QED BY <1>4, <1>5, <1>6, <1>7, <1>8, <1>9 DEF StartRoom

\* process_transport_locked on a packet of the gateway.
LEMMA ProcessTransportStep ==
    ASSUME SessionInv, ThreadType', NEW m \in net, m.type = "reply",
           ProcessTransport(m), pc' /= "hs_send",
           UNCHANGED <<last_transport_tx_us, net, gateway, encrypted,
                       confirmed>>
    PROVE  SessionInv'
<1> USE DEF SessionInv
<1>0. /\ m.key \in Keys /\ m.ctr \in Counters
      /\ curr \in Keypairs /\ prev \in Keypairs
  BY DEF TypeOK, PeerType, Messages
<1>1. /\ curr' = curr \/ (m.key = curr.key /\
            curr' = [curr EXCEPT !.seen = @ \cup {m.ctr}])
      /\ prev' = prev \/ (m.key = prev.key /\ m.key /= curr.key /\
            prev' = [prev EXCEPT !.seen = @ \cup {m.ctr}])
  BY DEF ProcessTransport, Fresh, MarkSeen, KeypairForIdx
<1>2. /\ curr'.key = curr.key /\ curr'.ctr = curr.ctr
      /\ curr.seen \subseteq curr'.seen /\ curr' \in Keypairs
  BY <1>0, <1>1 DEF Keypairs
<1>3. /\ prev'.key = prev.key
      /\ prev.seen \subseteq prev'.seen /\ prev' \in Keypairs
  BY <1>0, <1>1 DEF Keypairs
<1>4. /\ UNCHANGED <<handshake, pending_handshake_sender, last_handshake_us,
                     nextIndex>>
  BY DEF ProcessTransport
<1>5. \/ delivered' = delivered
      \/ /\ delivered' = [delivered EXCEPT ![<<m.key, m.ctr>>] = @ + 1]
         /\ Fresh(m) /\ MarkSeen(m)
  BY DEF ProcessTransport
<1>6. TypeOK'
  <2>1. PeerType'
    BY <1>2, <1>3, <1>4 DEF TypeOK, PeerType
  <2>2. HistoryType'
    BY <1>0, <1>5 DEF TypeOK, HistoryType
  <2> QED BY <2>1, <2>2 DEF TypeOK, GatewayType
<1>7. KeysGrow'
  BY <1>2, <1>3, <1>4 DEF KeysGrow, PendingIsCurrent
<1>8. NoncesBelow'
  BY <1>2 DEF NoncesBelow, NonceNeverReused
<1>9. DeliveredSeen'
  <2>1. CASE delivered' = delivered
    BY <2>1, <1>2, <1>3 DEF DeliveredSeen, NoDuplicateDelivery
  <2>2. CASE /\ delivered' = [delivered EXCEPT ![<<m.key, m.ctr>>] = @ + 1]
             /\ Fresh(m) /\ MarkSeen(m)
    <3>1. /\ m.key = curr.key \/ m.key = prev.key
          /\ m.key = curr.key => m.ctr \notin curr.seen
          /\ (m.key = prev.key /\ m.key /= curr.key) => m.ctr \notin prev.seen
      BY <2>2 DEF Fresh, KeypairForIdx
    <3>2. delivered[<<m.key, m.ctr>>] = 0
      BY <1>0, <3>1 DEF DeliveredSeen
    <3>3. \A k \in Keys, c \in Counters :
             delivered'[<<k, c>>] = IF k = m.key /\ c = m.ctr
                                    THEN 1 ELSE delivered[<<k, c>>]
      BY <1>0, <2>2, <3>2 DEF TypeOK, HistoryType
    <3>4. NoDuplicateDelivery'
      BY <3>3 DEF DeliveredSeen, NoDuplicateDelivery
    <3>5. /\ m.key = curr.key => m.ctr \in curr'.seen
          /\ (m.key = prev.key /\ m.key /= curr.key) => m.ctr \in prev'.seen
      BY <1>0, <2>2 DEF MarkSeen, KeypairForIdx, Keypairs
    <3>6. m.key <= curr.key /\ (curr.key = prev.key => prev.key = 0)
      BY <1>0, <3>1, BoundsAssumption DEF KeysGrow, Keypairs, Keys
    <3>7. ASSUME NEW k \in Keys, NEW c \in Counters, delivered'[<<k, c>>] /= 0
          PROVE  /\ k <= curr'.key
                 /\ k = curr'.key => c \in curr'.seen
                 /\ k = prev'.key => c \in prev'.seen
      <4>1. CASE k = m.key /\ c = m.ctr
        BY <4>1, <1>0, <1>2, <1>3, <3>5, <3>6 DEF Keys
      <4>2. CASE ~(k = m.key /\ c = m.ctr)
        BY <4>2, <3>7, <3>3, <1>2, <1>3 DEF DeliveredSeen
      <4> QED BY <4>1, <4>2
    <3> QED BY <3>4, <3>7 DEF DeliveredSeen
  <2> QED BY <1>5, <2>1, <2>2
<1>10. GatewayBehind' /\ DataBehind'
  BY <1>2, <1>3 DEF GatewayBehind, DataBehind
<1> QED BY <1>6, <1>7, <1>8, <1>9, <1>10 DEF StartRoom

\* Steps of the network and the gateway leave the Vita alone.
LEMMA OutsideStep ==
    ASSUME SessionInv, net' \subseteq Messages, GatewayType',
           confirmed' \subseteq Keys, GatewayBehind', DataBehind',
           UNCHANGED <<clock, pc, now, deadline, peer, last_transport_tx_us,
                       encrypted, delivered>>
    PROVE  SessionInv'
<1> USE DEF SessionInv, peer
<1>1. TypeOK'
  BY DEF TypeOK, ThreadType, PeerType, HistoryType
<1>2. KeysGrow'
  BY DEF KeysGrow, PendingIsCurrent
<1>3. NoncesBelow' /\ DeliveredSeen'
  BY DEF NoncesBelow, NonceNeverReused, DeliveredSeen, NoDuplicateDelivery
<1> QED BY <1>1, <1>2, <1>3 DEF StartRoom

\* Losing a datagram preserves the invariant.
LEMMA LoseStep ==
    ASSUME SessionInv, NEW m \in net, Lose(m)
    PROVE  SessionInv'
<1>1. net' \subseteq Messages /\ GatewayType' /\ confirmed' \subseteq Keys
  BY DEF SessionInv, Lose, TypeOK, GatewayType, HistoryType
<1>2. GatewayBehind' /\ DataBehind'
  BY DEF SessionInv, Lose, GatewayBehind, DataBehind, peer
<1> QED BY <1>1, <1>2, OutsideStep DEF Lose

\* Every step of the gateway preserves the invariant.
LEMMA GatewayStep ==
    ASSUME SessionInv, Gateway
    PROVE  SessionInv'
<1> USE DEF SessionInv
<1>0. /\ gateway.send \in 0..MaxHandshakes /\ gateway.next \in 0..MaxHandshakes
      /\ gateway.answered \in 0..MaxHandshakes
      /\ curr.key \in Nat /\ prev.key \in Nat
      /\ gateway.ctr \in [Keys -> 0..MaxCounter]
  BY DEF TypeOK, GatewayType, PeerType, Keypairs
<1>1. ASSUME NEW i \in Keys, GatewayAnswer(i) PROVE SessionInv'
  <2>1. /\ gateway' = [gateway EXCEPT !.answered = i, !.next = i, !.prev = 0]
        /\ i \in 1..MaxHandshakes /\ i > gateway.answered
    BY <1>1 DEF GatewayAnswer, Keys
  <2>a. gateway' = [send |-> gateway.send, next |-> i, prev |-> 0,
                    answered |-> i, ctr |-> gateway.ctr]
    BY <2>1 DEF TypeOK, GatewayType
  <2>2. /\ gateway'.send = gateway.send /\ gateway'.next = i
        /\ gateway'.answered = i /\ GatewayType'
    BY <1>0, <2>1, <2>a, BoundsAssumption DEF GatewayType
  <2>3. net' \subseteq Messages /\ confirmed' \subseteq Keys
    BY <1>1 DEF GatewayAnswer, TypeOK, Messages, HistoryType
  <2>4. GatewayBehind'
    BY <1>0, <1>1, <2>1, <2>2 DEF GatewayAnswer, GatewayBehind, peer
  <2>5. DataBehind'
    BY <1>1 DEF GatewayAnswer, DataBehind, peer
  <2> QED BY <1>1, <2>2, <2>3, <2>4, <2>5, OutsideStep DEF GatewayAnswer
<1>2. ASSUME NEW i \in Keys, GatewayConfirm(i) PROVE SessionInv'
  <2>1. /\ gateway' = [gateway EXCEPT !.prev = gateway.send, !.send = i,
                                      !.next = 0]
        /\ i \in 1..MaxHandshakes /\ i = gateway.next
        /\ confirmed' = confirmed \cup {i} /\ net' = net
    BY <1>2 DEF GatewayConfirm, Keys
  <2>a. gateway' = [send |-> i, next |-> 0, prev |-> gateway.send,
                    answered |-> gateway.answered, ctr |-> gateway.ctr]
    BY <2>1 DEF TypeOK, GatewayType
  <2>2. /\ gateway'.send = i /\ gateway'.next = 0
        /\ gateway'.answered = gateway.answered /\ GatewayType'
    BY <1>0, <2>1, <2>a, BoundsAssumption DEF GatewayType
  <2>3. net' \subseteq Messages /\ confirmed' \subseteq Keys
    BY <2>1 DEF TypeOK, HistoryType
  <2>4. i = curr.key \/ i <= prev.key
    BY <1>2 DEF GatewayConfirm, DataBehind
  <2>5. \A k \in confirmed : k \in Nat
    BY DEF TypeOK, HistoryType, Keys
  <2>6. GatewayBehind'
    BY <1>0, <1>2, <2>1, <2>2, <2>4, <2>5
       DEF GatewayConfirm, GatewayBehind, peer
  <2>7. DataBehind'
    BY <1>2 DEF GatewayConfirm, DataBehind, peer
  <2> QED BY <1>2, <2>2, <2>3, <2>6, <2>7, OutsideStep DEF GatewayConfirm
<1>3. CASE GatewaySend
  <2> DEFINE k == gateway.send
  <2>1. k \in Keys /\ gateway.ctr[k] \in Counters
    BY <1>0, <1>3, BoundsAssumption DEF GatewaySend, Keys, Counters
  <2>2. gateway' = [gateway EXCEPT !.ctr = [gateway.ctr EXCEPT ![k] = @ + 1]]
    BY <1>3 DEF GatewaySend
  <2>a. [gateway.ctr EXCEPT ![k] = @ + 1] \in [Keys -> 0..MaxCounter]
    BY <1>0, <2>1, BoundsAssumption DEF Counters
  <2>3. /\ gateway'.send = gateway.send /\ gateway'.next = gateway.next
        /\ gateway'.answered = gateway.answered /\ GatewayType'
    BY <2>2, <2>a DEF TypeOK, GatewayType
  <2>4. net' \subseteq Messages /\ confirmed' \subseteq Keys
    BY <1>3, <2>1 DEF GatewaySend, TypeOK, Messages, HistoryType
  <2>5. GatewayBehind'
    BY <1>3, <2>3 DEF GatewaySend, GatewayBehind, peer
  <2>6. DataBehind'
    BY <1>3 DEF GatewaySend, DataBehind, peer
  <2> QED BY <1>3, <2>3, <2>4, <2>5, <2>6, OutsideStep DEF GatewaySend
<1> QED BY <1>1, <1>2, <1>3 DEF Gateway

-----------------------------------------------------------------------------
\* Every step preserves the invariant.
LEMMA NextSessionInv == SessionInv /\ [Next]_vars => SessionInv'
<1> SUFFICES ASSUME SessionInv, [Next]_vars PROVE SessionInv'
  OBVIOUS
<1>0. ThreadType /\ PeerType
  BY DEF SessionInv, TypeOK
<1>1. CASE HandshakeSend
  <2>1. ThreadType'
    BY <1>0, <1>1, BoundsAssumption
       DEF HandshakeSend, ThreadType, SessionInv, StartRoom
  <2> QED BY <1>1, <2>1, SendHandshakeStep
          DEF HandshakeSend, SessionInv, KeysGrow
<1>2. CASE HandshakeLoop \/ HandshakeNothing \/ StartReceiving \/ ReceiveNothing
  <2>1. ThreadType' /\ pc' /= "hs_send"
    BY <1>0, <1>2 DEF HandshakeLoop, HandshakeNothing, StartReceiving,
                      ReceiveNothing, ThreadType
  <2> QED BY <1>2, <2>1, QuietStep
          DEF StartRoom, HandshakeLoop, HandshakeNothing, StartReceiving, ReceiveNothing
<1>3. CASE SampleClock \/ Tick
  <2>1. ThreadType' /\ StartRoom' /\ (pc' = "hs_send" => pc = "hs_send")
    BY <1>0, <1>3, BoundsAssumption
       DEF SampleClock, Tick, ThreadType, SessionInv, StartRoom
  <2> QED BY <1>3, <2>1, QuietStep DEF SampleClock, Tick
<1>4. CASE Rekey
  <2>1. ThreadType' /\ pc' /= "hs_send"
    BY <1>0, <1>4 DEF Rekey, ThreadType
  <2>2. CASE RekeyDue
    BY <1>4, <2>1, <2>2, SendHandshakeStep DEF Rekey, RekeyDue
  <2>3. CASE ~RekeyDue
    BY <1>4, <2>1, <2>3, QuietStep DEF Rekey, peer, StartRoom
  <2> QED BY <2>2, <2>3
<1>5. CASE Keepalive
  <2>1. ThreadType' /\ pc' /= "hs_send"
    BY <1>0, <1>5, BoundsAssumption DEF Keepalive, ThreadType
  <2>2. CASE KeepaliveDue /\ curr.ctr < MaxCounter
    BY <1>5, <2>1, <2>2, SendTransportStep DEF Keepalive
  <2>3. CASE ~(KeepaliveDue /\ curr.ctr < MaxCounter)
    BY <1>5, <2>1, <2>3, QuietStep DEF Keepalive, StartRoom
  <2> QED BY <2>2, <2>3
<1>6. CASE NetifOutput
  <2>1. ThreadType' /\ pc' /= "hs_send"
    BY <1>0, <1>6 DEF NetifOutput, ThreadType
  <2> QED BY <1>6, <2>1, SendTransportStep DEF NetifOutput
<1>7. ASSUME NEW i \in Keys, HandshakeResponse(i) \/ ReceiveResponse(i)
      PROVE  SessionInv'
  <2>1. ThreadType' /\ pc' /= "hs_send"
    BY <1>0, <1>7, BoundsAssumption
       DEF HandshakeResponse, ReceiveResponse, ThreadType
  <2>2. CASE AcceptResponse(i)
    BY <1>7, <2>1, <2>2, AcceptResponseStep
       DEF HandshakeResponse, ReceiveResponse
  <2>3. CASE RejectResponse(i)
    BY <1>7, <2>1, <2>3, QuietStep
       DEF HandshakeResponse, ReceiveResponse, RejectResponse, StartRoom
  <2> QED BY <1>7, <2>2, <2>3 DEF HandshakeResponse, ReceiveResponse
<1>8. ASSUME NEW m \in net, ReceiveTransport(m) PROVE SessionInv'
  <2>1. ThreadType' /\ pc' /= "hs_send"
    BY <1>0, <1>8 DEF ReceiveTransport, ThreadType
  <2> QED BY <1>8, <2>1, ProcessTransportStep DEF ReceiveTransport
<1>9. CASE Gateway
  BY <1>9, GatewayStep
<1>10. ASSUME NEW m \in net, Lose(m) PROVE SessionInv'
  BY <1>10, LoseStep
<1>11. CASE UNCHANGED vars
  BY <1>0, <1>11, QuietStep DEF vars, ThreadType, SessionInv, StartRoom
<1> QED
  BY <1>1, <1>2, <1>3, <1>4, <1>5, <1>6, <1>7, <1>8, <1>9, <1>10, <1>11
     DEF Next, LosslessNext, Starter, ReceiveThread

\* The inductive invariant holds in every reachable state.
THEOREM SessionInvariant == Spec => []SessionInv
  BY InitSessionInv, NextSessionInv, PTL DEF Spec

\* Every variable of the session keeps its type.
THEOREM SessionTypeCorrect == Spec => []TypeOK
  BY SessionInvariant, PTL DEF SessionInv

\* No key and counter are used for two encryptions.
THEOREM NonceNeverReusedHolds == Spec => []NonceNeverReused
  BY SessionInvariant, PTL DEF SessionInv, NoncesBelow

\* No packet of the gateway reaches lwIP twice.
THEOREM NoDuplicateDeliveryHolds == Spec => []NoDuplicateDelivery
  BY SessionInvariant, PTL DEF SessionInv, DeliveredSeen

\* The response that is waited for can always be processed.
THEOREM PendingIsCurrentHolds == Spec => []PendingIsCurrent
  BY SessionInvariant, PTL DEF SessionInv, KeysGrow

\* A rekey interrupts neither direction.
THEOREM RekeyKeepsBothDirectionsHolds == Spec => []RekeyKeepsBothDirections
<1>1. SessionInv => RekeyKeepsBothDirections
  <2> SUFFICES ASSUME SessionInv PROVE RekeyKeepsBothDirections
    OBVIOUS
  <2>0. gateway.send \in Nat /\ curr.key \in Nat /\ prev.key \in Nat
    BY DEF SessionInv, TypeOK, GatewayType, PeerType, Keypairs
  <2>1. curr.key \in confirmed => gateway.send = curr.key
    BY <2>0 DEF SessionInv, GatewayBehind, KeysGrow
  <2>2. ASSUME prev.key \in confirmed \/ prev.key = 0
        PROVE  gateway.send = 0 \/ KeypairForIdx(gateway.send) /= "none"
    BY <2>0, <2>2 DEF SessionInv, GatewayBehind, KeysGrow, KeypairForIdx
  <2> QED BY <2>1, <2>2 DEF RekeyKeepsBothDirections
<1> QED BY <1>1, SessionInvariant, PTL

\* The receive thread's sample of the clock lies in the past.
SamplePast == now <= clock

\* now is either the clock of an earlier moment or out of scope.
LEMMA SampleAlwaysPast == Spec => []SamplePast
<1>1. Init => SamplePast
  BY DEF Init, SamplePast
<1>2. TypeOK /\ SamplePast /\ [Next]_vars => SamplePast'
  <2> SUFFICES ASSUME TypeOK, SamplePast, [Next]_vars PROVE SamplePast'
    OBVIOUS
  <2>1. clock \in Nat /\ now \in Nat
    BY BoundsAssumption DEF TypeOK, ThreadType
  <2>2. CASE Tick
    BY <2>1, <2>2 DEF Tick, SamplePast
  <2>3. CASE SampleClock
    BY <2>1, <2>3 DEF SampleClock, SamplePast
  <2>4. CASE Keepalive
    BY <2>1, <2>4 DEF Keepalive, SamplePast
  <2>5. CASE UNCHANGED <<clock, now>>
    BY <2>5 DEF SamplePast
  <2>6. Starter => UNCHANGED <<clock, now>>
    BY DEF Starter, HandshakeSend, HandshakeLoop, HandshakeNothing,
           StartReceiving, HandshakeResponse
  <2>7. ReceiveThread => SampleClock \/ Keepalive \/ UNCHANGED <<clock, now>>
    BY DEF ReceiveThread, ReceiveNothing, Rekey, ReceiveResponse,
           ReceiveTransport
  <2>8. Gateway \/ NetifOutput => UNCHANGED <<clock, now>>
    BY DEF Gateway, GatewaySend, GatewayAnswer, GatewayConfirm, NetifOutput
  <2>9. (\E m \in net : Lose(m)) => UNCHANGED <<clock, now>>
    BY DEF Lose
  <2>10. UNCHANGED vars => UNCHANGED <<clock, now>>
    BY DEF vars
  <2> QED BY <2>2, <2>3, <2>4, <2>5, <2>6, <2>7, <2>8, <2>9, <2>10
          DEF Next, LosslessNext
<1> QED BY <1>1, <1>2, SessionTypeCorrect, PTL DEF Spec

\* The end of receive_thread_main's iteration: a keepalive follows a silence
\* of KEEPALIVE_INTERVAL, or a transmission that lwIP's thread made between
\* the sample of the clock and the lock, where the subtraction wraps.
THEOREM KeepaliveAlwaysJustified == Spec => KeepaliveJustified
<1> DEFINE Sent == pc = "keepalive" /\ encrypted' /= encrypted
<1> DEFINE Cause == \/ clock - last_transport_tx_us >= KEEPALIVE_INTERVAL
                    \/ last_transport_tx_us > now
<1>1. ASSUME TypeOK, SamplePast, [Next]_vars PROVE [Sent => Cause]_vars
  <2> SUFFICES ASSUME Next, Sent PROVE Cause
    BY <1>1
  <2>1. /\ clock \in Nat /\ now \in Nat /\ last_transport_tx_us \in Nat
        /\ now <= clock /\ KEEPALIVE_INTERVAL \in Nat
    BY <1>1, BoundsAssumption DEF TypeOK, ThreadType, PeerType, SamplePast
  <2>2. Keepalive
    <3>1. ~Starter
      BY DEF Starter, HandshakeSend, HandshakeLoop, HandshakeNothing,
             StartReceiving, HandshakeResponse
    <3>2. ~NetifOutput
      BY DEF NetifOutput
    <3>3. ~Gateway /\ ~Tick
      BY DEF Gateway, GatewaySend, GatewayAnswer, GatewayConfirm, Tick
    <3>4. ~(\E m \in net : Lose(m))
      BY DEF Lose
    <3>5. ReceiveThread => Keepalive
      BY DEF ReceiveThread, ReceiveNothing, SampleClock, Rekey,
             ReceiveResponse, ReceiveTransport
    <3> QED BY <3>1, <3>2, <3>3, <3>4, <3>5 DEF Next, LosslessNext
  <2>3. Elapsed(now, last_transport_tx_us) >= KEEPALIVE_INTERVAL
    BY <2>2 DEF Keepalive, KeepaliveDue
  <2>4. CASE now >= last_transport_tx_us
    BY <2>1, <2>3, <2>4 DEF Elapsed
  <2>5. CASE ~(now >= last_transport_tx_us)
    BY <2>1, <2>5
  <2> QED BY <2>4, <2>5
<1>2. TypeOK /\ SamplePast /\ [Next]_vars => [Sent => Cause]_vars
  BY <1>1
<1> QED BY <1>2, SessionTypeCorrect, SampleAlwaysPast, PTL
        DEF Spec, KeepaliveJustified
=============================================================================
