--------------------------- MODULE DataPathProofs ---------------------------
(***************************************************************************)
(* TLAPS proofs about DataPath, for any number of application threads and  *)
(* any size of the mailbox, the socket's buffer and the packet pool.       *)
(***************************************************************************)
EXTENDS DataPath, FiniteSetTheorems, TLAPS

\* Where a message is in a mailbox.
Places(m, x) == {i \in DOMAIN m : m[i] = x}

Count(m, x) == Cardinality(Places(m, x))

Messages == Apps \cup {"input"}

Results == Verdicts \cup Rejections \cup {"none", "delivered"}

ReceiverType ==
    /\ mutex \in {"free", "receiver", "lwip"} /\ outer \in 0..OUTER_RCVBUF
    /\ rpc \in {"recvfrom", "lock", "process", "input", "unlock", "record",
                "timers", "timed"}
    /\ result \in Results /\ pbuf \in BOOLEAN /\ received \in Nat

LwipType ==
    /\ lpc \in {"fetch", "handle", "output", "lock", "send", "finish"}
    /\ job \in Messages \cup {"none", "timer"}
    /\ mbox \in Seq(Messages) /\ Len(mbox) <= TCPIP_MBOX_SIZE
    /\ call \in [Apps -> {"idle", "post", "wait"}]
    /\ pbufs \in 0..PBUF_POOL_SIZE

CountersType ==
    counters \in [rx : Nat, decrypt : Nat, replay : Nat, other : Nat,
                  silent : Nat]

\* The socket's buffer, the mailbox and the pool never hold more than they
\* have room for.
DPTypeOK == ReceiverType /\ LwipType /\ CountersType

\* g_peer_mutex has one holder, and it is held exactly where the code is
\* between its lock and its unlock.
OneHolder ==
    /\ mutex = "receiver" <=> rpc \in {"process", "input", "unlock", "timed"}
    /\ mutex = "lwip" <=> lpc = "send"

\* The receive thread has a pbuf in hand only on its way to tcpip_input, and
\* what it has in hand when it unlocks is an answer of the processing.
InHand ==
    /\ pbuf <=> rpc = "input"
    /\ rpc = "unlock" => result \in Rejections \cup {"silent", "delivered"}
    /\ rpc = "record" => result \in Rejections

\* The datagram that is being handled and is in no counter yet.
Pending ==
    \/ rpc \in {"lock", "process", "input", "record"}
    \/ rpc = "unlock" /\ result /= "delivered"

Counted == counters.rx + counters.decrypt + counters.replay + counters.other
           + counters.silent

EveryDatagram == received = Counted + (IF Pending THEN 1 ELSE 0)

EveryPbuf ==
    pbufs = Count(mbox, "input") + (IF pbuf THEN 1 ELSE 0)
            + (IF job = "input" THEN 1 ELSE 0)

\* An application thread that waits has exactly one message under way, in the
\* mailbox or at lwIP's thread; one that does not wait has none.
CallsAccounted ==
    \A a \in Apps :
        Count(mbox, a) + (IF job = a THEN 1 ELSE 0)
            = IF call[a] = "wait" THEN 1 ELSE 0

DPInv ==
    /\ DPTypeOK /\ OneHolder /\ InHand /\ EveryDatagram /\ EveryPbuf
    /\ CallsAccounted /\ (lpc = "fetch" <=> job = "none")

\* The sizes are numbers.
LEMMA Sizes ==
    /\ TCPIP_MBOX_SIZE \in Nat \ {0} /\ OUTER_RCVBUF \in Nat \ {0}
    /\ PBUF_POOL_SIZE \in Nat \ {0} /\ MaxDatagrams \in Nat
BY DataPathAssumption

-----------------------------------------------------------------------------
(* Counting the messages of a mailbox.                                     *)

\* A mailbox is finite, so what it holds can be counted.
LEMMA CountType ==
    ASSUME NEW m \in Seq(Messages), NEW x
    PROVE  IsFiniteSet(Places(m, x)) /\ Count(m, x) \in Nat
<1>1. Places(m, x) \subseteq 1..Len(m) /\ Len(m) \in Nat
  BY DEF Places
<1>2. IsFiniteSet(1..Len(m))
  BY <1>1, FS_Interval
<1>3. IsFiniteSet(Places(m, x))
  BY <1>1, <1>2, FS_Subset
<1> QED BY <1>3, FS_CardinalityType DEF Count

\* An empty mailbox holds nothing.
LEMMA CountEmpty == \A x : Count(<<>>, x) = 0
<1> TAKE x
<1>1. Places(<<>>, x) = {}
  BY DEF Places
<1> QED BY <1>1, FS_EmptySet DEF Count

\* Posting a message adds one of its kind.
LEMMA CountAppend ==
    ASSUME NEW m \in Seq(Messages), NEW y \in Messages, NEW x
    PROVE  Count(Append(m, y), x) = Count(m, x) + (IF x = y THEN 1 ELSE 0)
<1>1. /\ Len(m) \in Nat /\ DOMAIN m = 1..Len(m)
      /\ DOMAIN Append(m, y) = 1..(Len(m) + 1)
      /\ \A i \in 1..Len(m) : Append(m, y)[i] = m[i]
      /\ Append(m, y)[Len(m) + 1] = y
  OBVIOUS
<1>2. IsFiniteSet(Places(m, x)) /\ Count(m, x) \in Nat
  BY CountType
<1>3. Len(m) + 1 \notin Places(m, x)
  BY <1>1 DEF Places
<1>4. CASE x = y
  <2>1. Places(Append(m, y), x) = Places(m, x) \cup {Len(m) + 1}
    BY <1>1, <1>4 DEF Places
  <2> QED BY <2>1, <1>2, <1>3, <1>4, FS_AddElement DEF Count
<1>5. CASE x /= y
  <2>1. Places(Append(m, y), x) = Places(m, x)
    BY <1>1, <1>5 DEF Places
  <2> QED BY <2>1, <1>2, <1>5 DEF Count
<1> QED BY <1>4, <1>5

\* Fetching the first message takes one of its kind.
LEMMA CountTail ==
    ASSUME NEW m \in Seq(Messages), m /= <<>>, NEW x
    PROVE  Count(m, x) = Count(Tail(m), x) + (IF x = Head(m) THEN 1 ELSE 0)
<1> DEFINE Rest == Places(m, x) \ {1}
<1> DEFINE shift == [i \in Places(Tail(m), x) |-> i + 1]
<1>1. /\ Len(m) \in Nat \ {0} /\ DOMAIN m = 1..Len(m) /\ Head(m) = m[1]
      /\ Tail(m) \in Seq(Messages) /\ Len(Tail(m)) = Len(m) - 1
      /\ DOMAIN Tail(m) = 1..(Len(m) - 1)
      /\ \A i \in 1..(Len(m) - 1) : Tail(m)[i] = m[i + 1]
  OBVIOUS
<1>2. /\ IsFiniteSet(Places(m, x)) /\ Count(m, x) \in Nat
      /\ IsFiniteSet(Places(Tail(m), x)) /\ Count(Tail(m), x) \in Nat
  BY <1>1, CountType
<1>3. shift \in Bijection(Places(Tail(m), x), Rest)
  <2>1. \A i \in Places(Tail(m), x) : i \in Nat /\ i + 1 \in Rest
    BY <1>1 DEF Places
  <2>2. \A j \in Rest : j \in Int /\ j - 1 \in Places(Tail(m), x)
    BY <1>1 DEF Places
  <2>3. shift \in [Places(Tail(m), x) -> Rest]
    BY <2>1
  <2>4. \A i, j \in Places(Tail(m), x) : shift[i] = shift[j] => i = j
    BY <2>1
  <2>5. \A j \in Rest : \E i \in Places(Tail(m), x) : shift[i] = j
    <3> TAKE j \in Rest
    <3>1. shift[j - 1] = j
      BY <2>2
    <3> QED BY <2>2, <3>1
  <2> HIDE DEF Rest, shift
  <2> QED BY <2>3, <2>4, <2>5
          DEF Bijection, Injection, IsInjective, Surjection
<1>4. Cardinality(Rest) = Count(Tail(m), x)
  BY <1>2, <1>3, FS_Bijection DEF ExistsBijection, Count
<1>5. 1 \in Places(m, x) <=> x = Head(m)
  BY <1>1 DEF Places
<1>6. Cardinality(Rest) =
        IF x = Head(m) THEN Count(m, x) - 1 ELSE Count(m, x)
  BY <1>2, <1>5, FS_RemoveElement DEF Count
<1> HIDE DEF Rest
<1> QED BY <1>2, <1>4, <1>6

-----------------------------------------------------------------------------
(* The invariant, kept by every step of every thread.                      *)

\* The threads start with nothing in hand.
LEMMA InitDPInv == DPInit => DPInv
<1> SUFFICES ASSUME DPInit PROVE DPInv
  OBVIOUS
<1> USE DEF DPInit
<1>1. DPTypeOK
  <2>1. ReceiverType
    <3>1. outer \in 0..OUTER_RCVBUF
      BY Sizes
    <3> QED BY <3>1 DEF ReceiverType, Results
  <2>2. LwipType
    BY Sizes DEF LwipType, Messages
  <2>3. CountersType
    BY DEF CountersType
  <2> QED BY <2>1, <2>2, <2>3 DEF DPTypeOK
<1>2. OneHolder /\ InHand /\ EveryDatagram
  BY DEF OneHolder, InHand, EveryDatagram, Counted, Pending
<1>3. EveryPbuf /\ CallsAccounted
  BY CountEmpty, DataPathAssumption DEF EveryPbuf, CallsAccounted
<1> QED BY <1>1, <1>2, <1>3 DEF DPInv

\* What the accounts of packets and calls rest on when lwIP's side is idle.
LEMMA AccountsKept ==
    ASSUME DPInv, UNCHANGED <<mbox, job, call, pbufs, pbuf>>
    PROVE  EveryPbuf' /\ CallsAccounted'
BY DEF DPInv, EveryPbuf, CallsAccounted

\* One more in a counter, and nothing else, is one more counted.
LEMMA BumpCounts ==
    ASSUME DPInv, NEW c \in {"rx", "decrypt", "replay", "other", "silent"},
           Bump(c)
    PROVE  /\ CountersType'
           /\ Counted \in Nat /\ Counted' = Counted + 1
<1>1. counters' = [counters EXCEPT ![c] = @ + 1] /\ CountersType
  BY DEF DPInv, DPTypeOK, Bump
<1> QED BY <1>1 DEF CountersType, Counted

\* Parts of the type invariant that a step leaves alone.
LEMMA TypesKept ==
    /\ LwipType /\ UNCHANGED <<lpc, job, mbox, call, pbufs>> => LwipType'
    /\ CountersType /\ UNCHANGED counters =>
           CountersType' /\ Counted' = Counted
BY DEF LwipType, CountersType, Counted

\* The steps of receive_thread_main.
LEMMA ReceiverStep == ASSUME DPInv, Receiver PROVE DPInv'
<1> USE Sizes DEF DPInv, DPTypeOK, receiver, lwip
<1>0. Counted \in Nat
  BY DEF CountersType, Counted
<1>1. CASE Recvfrom
  <2> USE <1>1 DEF Recvfrom
  <2>1. ReceiverType'
    BY DEF ReceiverType
  <2>2. LwipType' /\ CountersType' /\ Counted' = Counted
    BY TypesKept
  <2>3. OneHolder' /\ InHand'
    BY DEF OneHolder, InHand
  <2>4. EveryDatagram'
    BY <1>0, <2>2 DEF EveryDatagram, Pending
  <2> QED BY <2>1, <2>2, <2>3, <2>4, AccountsKept
<1>2. CASE ReceiverLock
  <2> USE <1>2 DEF ReceiverLock, Lock
  <2>1. ReceiverType' /\ LwipType' /\ CountersType' /\ Counted' = Counted
    BY TypesKept DEF ReceiverType
  <2>2. OneHolder' /\ InHand'
    BY DEF OneHolder, InHand
  <2>3. EveryDatagram'
    BY <2>1 DEF EveryDatagram, Pending
  <2> QED BY <2>1, <2>2, <2>3, AccountsKept
<1>3. CASE Process
  <2> USE <1>3 DEF Process
  <2>1. ReceiverType'
    BY DEF ReceiverType, Results, Verdicts, Rejections
  <2>2. LwipType'
    BY DEF LwipType
  <2>3. CountersType' /\ Counted' = Counted
    BY TypesKept
  <2>4. OneHolder' /\ InHand'
    BY DEF OneHolder, InHand, Verdicts, Rejections
  <2>5. EveryDatagram'
    BY <2>3 DEF EveryDatagram, Pending, Verdicts
  <2>6. EveryPbuf'
    <3>1. Count(mbox, "input") \in Nat
      BY CountType DEF LwipType
    <3> QED BY <3>1 DEF EveryPbuf, InHand
  <2>7. CallsAccounted'
    BY DEF CallsAccounted
  <2> QED BY <2>1, <2>2, <2>3, <2>4, <2>5, <2>6, <2>7
<1>4. CASE TcpipInput
  <2> USE <1>4 DEF TcpipInput
  <2>0. "input" \in Messages /\ pbuf /\ mbox \in Seq(Messages)
    BY DEF Messages, InHand, LwipType
  <2>1. /\ Count(mbox, "input") \in Nat
        /\ Count(Append(mbox, "input"), "input") = Count(mbox, "input") + 1
        /\ \A a \in Apps :
              Count(Append(mbox, "input"), a) = Count(mbox, a)
    <3>1. \A a \in Apps : Count(mbox, a) \in Nat /\ a /= "input"
      BY <2>0, CountType, DataPathAssumption
    <3> QED BY <2>0, <3>1, CountType, CountAppend
  <2>2. pbufs \in 1..PBUF_POOL_SIZE
    BY <2>0, <2>1 DEF EveryPbuf, LwipType
  <2>3. CASE mbox' = Append(mbox, "input") /\ Len(mbox) < TCPIP_MBOX_SIZE
             /\ Bump("rx") /\ result' = "delivered" /\ UNCHANGED pbufs
    <3> USE <2>3
    <3>1. CountersType' /\ Counted' = Counted + 1
      BY BumpCounts
    <3>2. mbox' \in Seq(Messages) /\ Len(mbox') <= TCPIP_MBOX_SIZE
      BY <2>0
    <3>3. ReceiverType' /\ LwipType'
      BY <3>2 DEF ReceiverType, LwipType, Results
    <3>4. OneHolder' /\ InHand'
      BY DEF OneHolder, InHand
    <3>5. EveryDatagram'
      BY <1>0, <3>1 DEF EveryDatagram, Pending
    <3>6. EveryPbuf' /\ CallsAccounted'
      BY <2>0, <2>1 DEF EveryPbuf, CallsAccounted
    <3> QED BY <3>1, <3>3, <3>4, <3>5, <3>6
  <2>4. CASE result' = "-46" /\ pbufs' = pbufs - 1
             /\ UNCHANGED <<mbox, counters>>
    <3> USE <2>4
    <3>1. ReceiverType'
      BY DEF ReceiverType, Results, Rejections
    <3>2. LwipType'
      BY <2>2 DEF LwipType
    <3>3. CountersType' /\ Counted' = Counted
      BY TypesKept
    <3>4. OneHolder' /\ InHand'
      BY DEF OneHolder, InHand, Rejections
    <3>5. EveryDatagram'
      BY <3>3 DEF EveryDatagram, Pending
    <3>6. EveryPbuf' /\ CallsAccounted'
      BY <2>0, <2>1, <2>2 DEF EveryPbuf, CallsAccounted
    <3> QED BY <3>1, <3>2, <3>3, <3>4, <3>5, <3>6
  <2> QED BY <2>3, <2>4
<1>5. CASE ReceiverUnlock
  <2> USE <1>5 DEF ReceiverUnlock, Unlock
  <2>1. ReceiverType' /\ LwipType'
    BY TypesKept DEF ReceiverType
  <2>2. OneHolder' /\ InHand'
    BY DEF OneHolder, InHand
  <2>3. CountersType' /\ EveryDatagram'
    <3>1. CASE result = "silent"
      <4>1. CountersType' /\ Counted' = Counted + 1
        BY <3>1, BumpCounts
      <4> QED BY <1>0, <3>1, <4>1 DEF EveryDatagram, Pending, Rejections
    <3>2. CASE result /= "silent"
      <4>1. CountersType' /\ Counted' = Counted
        BY <3>2, TypesKept
      <4> QED BY <3>2, <4>1 DEF EveryDatagram, Pending, InHand, Rejections
    <3> QED BY <3>1, <3>2
  <2> QED BY <2>1, <2>2, <2>3, AccountsKept
<1>6. CASE record_transport_rejection
  <2> DEFINE c == CASE result = "-42" -> "decrypt"
                    [] result = "-47" -> "replay"
                    [] OTHER -> "other"
  <2> USE <1>6 DEF record_transport_rejection
  <2>1. c \in {"rx", "decrypt", "replay", "other", "silent"} /\ Bump(c)
    OBVIOUS
  <2>2. CountersType' /\ Counted' = Counted + 1
    <3> HIDE DEF c
    <3> QED BY <2>1, BumpCounts
  <2>3. ReceiverType' /\ LwipType'
    BY TypesKept DEF ReceiverType
  <2>4. OneHolder' /\ InHand'
    BY DEF OneHolder, InHand
  <2>5. EveryDatagram'
    BY <1>0, <2>2 DEF EveryDatagram, Pending
  <2> QED BY <2>2, <2>3, <2>4, <2>5, AccountsKept
<1>7. CASE TimersLock \/ TimersUnlock
  <2> USE <1>7 DEF TimersLock, TimersUnlock, Lock, Unlock
  <2>1. ReceiverType' /\ LwipType' /\ CountersType' /\ Counted' = Counted
    BY TypesKept DEF ReceiverType, Results
  <2>2. OneHolder' /\ InHand'
    BY DEF OneHolder, InHand
  <2>3. EveryDatagram'
    BY <2>1 DEF EveryDatagram, Pending
  <2> QED BY <2>1, <2>2, <2>3, AccountsKept
<1> QED BY <1>1, <1>2, <1>3, <1>4, <1>5, <1>6, <1>7 DEF Receiver

\* The steps of lwIP's thread.
LEMMA LwipStep == ASSUME DPInv, Lwip \/ Fetch \/ LwipTimer PROVE DPInv'
<1> USE Sizes DEF DPInv, DPTypeOK, receiver, lwip
<1>0. /\ mbox \in Seq(Messages) /\ Count(mbox, "input") \in Nat
      /\ \A a \in Apps : Count(mbox, a) \in Nat
                         /\ a \notin {"none", "input", "timer"}
  BY CountType, DataPathAssumption DEF LwipType
<1>1. CASE Handle \/ NetifOutput \/ NetifLock \/ NetifSend
  <2> USE <1>1 DEF Handle, NetifOutput, NetifLock, NetifSend, Lock, Unlock
  <2>1. ReceiverType' /\ LwipType' /\ CountersType' /\ Counted' = Counted
    BY TypesKept DEF ReceiverType, LwipType
  <2>2. OneHolder' /\ InHand' /\ (lpc = "fetch" <=> job = "none")'
    BY DEF OneHolder, InHand
  <2>3. EveryDatagram'
    BY <2>1 DEF EveryDatagram, Pending
  <2> QED BY <2>1, <2>2, <2>3, AccountsKept
<1>2. CASE Finish
  <2> USE <1>2 DEF Finish
  <2>1. pbufs' \in 0..PBUF_POOL_SIZE
    BY <1>0 DEF EveryPbuf, LwipType
  <2>2. call' \in [Apps -> {"idle", "post", "wait"}]
    BY DEF LwipType
  <2>3. ReceiverType' /\ LwipType' /\ CountersType' /\ Counted' = Counted
    BY <2>1, <2>2, TypesKept DEF ReceiverType, LwipType
  <2>4. OneHolder' /\ InHand' /\ EveryDatagram'
    BY <2>3 DEF OneHolder, InHand, EveryDatagram, Pending
  <2>5. EveryPbuf'
    BY <1>0, <2>1 DEF EveryPbuf, LwipType, ReceiverType
  <2>6. CallsAccounted'
    BY <1>0, <2>2 DEF CallsAccounted, LwipType
  <2> QED BY <2>3, <2>4, <2>5, <2>6
<1>3. CASE Fetch
  <2> USE <1>3 DEF Fetch
  <2>1. /\ Head(mbox) \in Messages /\ Tail(mbox) \in Seq(Messages)
        /\ Len(Tail(mbox)) <= TCPIP_MBOX_SIZE
    BY <1>0 DEF LwipType
  <2>2. \A x : Count(Tail(mbox), x) \in Nat /\ Count(mbox, x)
                 = Count(Tail(mbox), x) + (IF x = Head(mbox) THEN 1 ELSE 0)
    BY <1>0, <2>1, CountType, CountTail
  <2>3. ReceiverType' /\ LwipType' /\ CountersType' /\ Counted' = Counted
    BY <2>1, TypesKept DEF ReceiverType, LwipType
  <2>4. OneHolder' /\ InHand' /\ EveryDatagram'
    BY <2>3 DEF OneHolder, InHand, EveryDatagram, Pending
  <2>5. job' /= "none"
    BY <2>1, DataPathAssumption DEF Messages
  <2>6. EveryPbuf'
    BY <2>2 DEF EveryPbuf, LwipType, ReceiverType
  <2>7. CallsAccounted'
    BY <1>0, <2>2 DEF CallsAccounted, LwipType
  <2> QED BY <2>3, <2>4, <2>5, <2>6, <2>7
<1>4. CASE LwipTimer
  <2> USE <1>4 DEF LwipTimer
  <2>1. ReceiverType' /\ LwipType' /\ CountersType' /\ Counted' = Counted
    BY TypesKept DEF ReceiverType, LwipType
  <2>2. OneHolder' /\ InHand' /\ EveryDatagram'
    BY <2>1 DEF OneHolder, InHand, EveryDatagram, Pending
  <2>3. EveryPbuf' /\ CallsAccounted'
    BY <1>0 DEF EveryPbuf, CallsAccounted
  <2> QED BY <2>1, <2>2, <2>3
<1> QED BY <1>1, <1>2, <1>3, <1>4 DEF Lwip

\* The steps of the application's threads and of the network.
LEMMA OutsideStep ==
    ASSUME DPInv, Arrive \/ \E a \in Apps : Call(a) \/ Post(a)
    PROVE  DPInv'
<1> USE Sizes DEF DPInv, DPTypeOK, receiver, lwip
<1>1. CASE Arrive
  <2> USE <1>1 DEF Arrive
  <2>1. ReceiverType' /\ LwipType' /\ CountersType' /\ Counted' = Counted
    BY TypesKept DEF ReceiverType
  <2>2. OneHolder' /\ InHand' /\ EveryDatagram'
    BY <2>1 DEF OneHolder, InHand, EveryDatagram, Pending
  <2> QED BY <2>1, <2>2, AccountsKept
<1>2. ASSUME NEW a \in Apps, Call(a) \/ Post(a) PROVE DPInv'
  <2> USE <1>2 DEF Call, Post
  <2>1. /\ mbox \in Seq(Messages) /\ a \in Messages /\ a /= "input"
        /\ Count(mbox, "input") \in Nat
        /\ \A b \in Apps : Count(mbox, b) \in Nat
    BY CountType, DataPathAssumption DEF LwipType, Messages
  <2>2. ReceiverType' /\ CountersType' /\ Counted' = Counted
    BY TypesKept DEF ReceiverType
  <2>3. LwipType'
    <3>1. mbox' \in Seq(Messages) /\ Len(mbox') <= TCPIP_MBOX_SIZE
      BY <2>1 DEF LwipType
    <3>2. call' \in [Apps -> {"idle", "post", "wait"}]
      BY DEF LwipType
    <3> QED BY <3>1, <3>2 DEF LwipType
  <2>4. OneHolder' /\ InHand' /\ EveryDatagram'
    BY <2>2 DEF OneHolder, InHand, EveryDatagram, Pending
  <2>5. CASE Call(a)
    BY <2>1, <2>2, <2>3, <2>4, <2>5
       DEF EveryPbuf, CallsAccounted, LwipType
  <2>6. CASE Post(a)
    <3>1. \A x : Count(mbox', x)
                   = Count(mbox, x) + (IF x = a THEN 1 ELSE 0)
      BY <2>1, <2>6, CountAppend
    <3>2. EveryPbuf'
      BY <2>1, <2>6, <3>1 DEF EveryPbuf
    <3>3. CallsAccounted'
      BY <2>1, <2>6, <3>1 DEF CallsAccounted, LwipType
    <3> QED BY <2>2, <2>3, <2>4, <2>6, <3>2, <3>3
  <2> QED BY <2>5, <2>6
<1> QED BY <1>1, <1>2

-----------------------------------------------------------------------------
\* The whole invariant, whatever the order in which the threads run: the
\* accounts of packets, datagrams and calls hold together.
THEOREM DPInvariant == DPSpec => []DPInv
<1>1. DPInv /\ [DPNext]_dpVars => DPInv'
  <2> SUFFICES ASSUME DPInv, [DPNext]_dpVars PROVE DPInv'
    OBVIOUS
  <2>1. CASE Receiver
    BY <2>1, ReceiverStep
  <2>2. CASE Lwip \/ Fetch \/ LwipTimer
    BY <2>2, LwipStep
  <2>3. CASE Arrive \/ \E a \in Apps : Call(a) \/ Post(a)
    BY <2>3, OutsideStep
  <2>4. CASE UNCHANGED dpVars
    <3> USE <2>4 DEF dpVars, receiver, lwip, DPInv
    <3>1. DPTypeOK' /\ Counted' = Counted
      BY TypesKept DEF DPTypeOK, ReceiverType
    <3>2. OneHolder' /\ InHand' /\ EveryDatagram'
      BY <3>1 DEF OneHolder, InHand, EveryDatagram, Pending
    <3> QED BY <3>1, <3>2, AccountsKept
  <2> QED BY <2>1, <2>2, <2>3, <2>4 DEF DPNext
<1> QED BY <1>1, InitDPInv, PTL DEF DPSpec

\* No path of process_transport_locked leaks a pbuf or frees one twice, for
\* any number of threads and any size of the mailbox and the pool.
THEOREM PbufsAlwaysAccounted == DPSpec => []PbufsAccounted
<1>1. DPInv => PbufsAccounted
  BY DEF DPInv, EveryPbuf, PbufsAccounted, Count, Places
<1> QED BY <1>1, DPInvariant, PTL

\* Every datagram the receive thread takes from the peer is in exactly one
\* counter once it is done with it, for any number of datagrams.
THEOREM DatagramsAlwaysAccounted == DPSpec => []DatagramsAccounted
<1>1. DPInv => DatagramsAccounted
  BY DEF DPInv, DPTypeOK, CountersType, EveryDatagram, Pending, Counted,
         DatagramsAccounted
<1> QED BY <1>1, DPInvariant, PTL

\* The receive thread and lwIP's thread are never both between the lock and
\* the unlock of g_peer_mutex.
MutualExclusion ==
    ~ (rpc \in {"process", "input", "unlock", "timed"} /\ lpc = "send")

\* g_peer_mutex excludes the receive thread from tunnel_netif_output and the
\* other way round.
THEOREM PeerMutexExcludes == DPSpec => []MutualExclusion
<1>1. DPInv => MutualExclusion
  BY DEF DPInv, OneHolder, MutualExclusion
<1> QED BY <1>1, DPInvariant, PTL

\* No call of the application into lwIP is lost and none is answered twice:
\* a thread that waits has exactly one message under way, in the mailbox or
\* at lwIP's thread, and one that does not wait has none.
THEOREM CallsAlwaysAccounted == DPSpec => []CallsAccounted
<1>1. DPInv => CallsAccounted
  BY DEF DPInv
<1> QED BY <1>1, DPInvariant, PTL
=============================================================================
