--------------------------- MODULE ShimCallProofs ---------------------------
(***************************************************************************)
(* TLAPS proofs about the calls of the socket shim that wait: ShimConnect, *)
(* whatever fails and whatever the network and the other threads do        *)
(* between two lwIP calls of one connect, and ShimMux, for any set of      *)
(* descriptors, any timeouts and any order in which data arrives and is    *)
(* taken between the samples.                                              *)
(***************************************************************************)
EXTENDS ShimConnect, ShimMux, FiniteSetTheorems, TLAPS

-----------------------------------------------------------------------------
(* connect on a virtual TCP socket.                                        *)

\* How far the connection is when the call is at each of its steps, and that
\* EINPROGRESS is what is waited for.
Progress ==
    /\ at = "connecting" => conn /= "new"
    /\ at = "restore" =>
          /\ result = "0" => conn \in {"connected", "closed"}
          /\ result = "EINPROGRESS" => conn /= "new"
    /\ at = "poll" => result = "EINPROGRESS" /\ conn /= "new"
    /\ at = "so_error" => conn \in {"connected", "refused", "closed"}
    /\ SuccessMeansConnected /\ InProgressIsFinished

\* The mode of the socket at each step, unless somebody else has chosen one:
\* the flags that were read are the ones at the call; while they are to be
\* restored the socket is blocking; and a connect on a socket made blocking
\* does not answer EINPROGRESS, so the restore is the last step that can fail
\* before a success.
FlagsInHand ==
    /\ (at = "getfl" /\ ~meddled) => mode = entry
    /\ at = "setfl" => /\ socket_flags = "nonblocking"
                       /\ ~meddled => mode = entry /\ entry = "nonblocking"
    /\ (at \in {"connect", "connecting", "restore"} /\ restore_nonblocking)
          => /\ socket_flags = "nonblocking"
             /\ ~meddled => entry = "nonblocking" /\ mode = "blocking"
    /\ (at \in {"connect", "connecting", "restore"} /\ ~restore_nonblocking)
          => (~meddled => mode = entry)
    /\ (at = "restore" /\ result = "EINPROGRESS" /\ restore_nonblocking)
          => meddled
    /\ (at \in {"poll", "so_error"} /\ ~meddled) => mode = entry
    /\ ConnectedKeepsMode

ConnectInv == ConnectTypeOK /\ Progress /\ FlagsInHand

\* A socket nobody has connected yet.
LEMMA InitConnectInv == ConnectInit => ConnectInv
BY DEF ConnectInit, ConnectInv, ConnectTypeOK, Progress, FlagsInHand,
       Modes, Errors,
       SuccessMeansConnected, InProgressIsFinished, ConnectedKeepsMode

\* The answers of lwIP's side are errnos of the call.
LEMMA Answers ==
    ASSUME ConnectTypeOK
    PROVE  /\ AtOnce \in Errors /\ SoError \in Errors \cup {"0"}
           /\ AtOnce = "EINPROGRESS" => conn \in {"new", "refused"}
           /\ SoError = "0" <=> conn /= "refused"
           /\ SoError /= "EINPROGRESS"
BY DEF ConnectTypeOK, AtOnce, SoError, Errors

\* Every lwIP call of __wrap_connect keeps the invariant.
LEMMA StepKeeps == ASSUME ConnectInv, ConnectStep PROVE ConnectInv'
<1> USE DEF ConnectInv, lwip, history
<1> USE DEF SuccessMeansConnected, InProgressIsFinished, ConnectedKeepsMode
<1>1. CASE GetFlags
  <2>1. ConnectTypeOK'
    BY <1>1 DEF GetFlags, ConnectTypeOK
  <2>2. Progress' /\ FlagsInHand'
    BY <1>1 DEF GetFlags, ConnectTypeOK, Progress, FlagsInHand, Modes
  <2> QED BY <2>1, <2>2
<1>2. CASE LwipConnect
  <2>1. ConnectTypeOK'
    BY <1>2, Answers DEF LwipConnect, ConnectTypeOK
  <2>2. Progress'
    BY <1>2, Answers DEF LwipConnect, Errors, Progress
  <2>3. FlagsInHand'
    BY <1>2, Answers DEF LwipConnect, ConnectTypeOK, Modes, Errors, FlagsInHand
  <2> QED BY <2>1, <2>2, <2>3
<1>3. CASE Connected
  <2>1. ConnectTypeOK'
    BY <1>3, Answers DEF Connected, ConnectTypeOK, Errors
  <2>2. Progress'
    BY <1>3, Answers DEF Connected, ConnectTypeOK, Progress
  <2>3. FlagsInHand'
    BY <1>3, Answers DEF Connected, FlagsInHand
  <2> QED BY <2>1, <2>2, <2>3
<1>4. CASE PollConnect
  <2>1. ConnectTypeOK'
    BY <1>4 DEF PollConnect, ConnectTypeOK, Errors
  <2>2. Progress' /\ FlagsInHand'
    BY <1>4 DEF PollConnect, ConnectTypeOK, Progress, FlagsInHand
  <2> QED BY <2>1, <2>2
<1>5. CASE ReadSoError
  <2>1. ConnectTypeOK'
    BY <1>5, Answers DEF ReadSoError, ConnectTypeOK, Errors
  <2>2. Progress' /\ FlagsInHand'
    BY <1>5, Answers DEF ReadSoError, ConnectTypeOK, Progress, FlagsInHand
  <2> QED BY <2>1, <2>2
<1>6. CASE ReturnToCaller
  BY <1>6 DEF ReturnToCaller, ConnectTypeOK, Progress, FlagsInHand
<1>7. ASSUME NEW failure \in Failures, ClearNonblock(failure)
      PROVE  ConnectInv'
  <2>1. ConnectTypeOK'
    BY <1>7 DEF ClearNonblock, SetFlags, ConnectTypeOK, Modes
  <2>2. Progress' /\ FlagsInHand'
    BY <1>7 DEF ClearNonblock, SetFlags, ConnectTypeOK, Progress, FlagsInHand
  <2> QED BY <2>1, <2>2
<1>8. ASSUME NEW failure \in Failures, RestoreFlags(failure)
      PROVE  ConnectInv'
  <2>1. ConnectTypeOK'
    BY <1>8 DEF RestoreFlags, SetFlags, Failures, ConnectTypeOK, Modes, Errors,
                FlagsInHand
  <2>2. Progress'
    BY <1>8 DEF RestoreFlags, SetFlags, Failures, ConnectTypeOK, Progress
  <2>3. FlagsInHand'
    BY <1>8 DEF RestoreFlags, SetFlags, Failures, ConnectTypeOK, FlagsInHand
  <2> QED BY <2>1, <2>2, <2>3
<1> QED BY <1>1, <1>2, <1>3, <1>4, <1>5, <1>6, <1>7, <1>8 DEF ConnectStep

\* So do a new call, the network and the other threads, at any point.
LEMMA OthersKeep ==
    ASSUME ConnectInv,
           Call \/ Network \/ Close \/ \E m \in Modes : ChooseMode(m)
    PROVE  ConnectInv'
<1> USE DEF ConnectInv, lwip, history
<1> USE DEF SuccessMeansConnected, InProgressIsFinished, ConnectedKeepsMode
<1>1. CASE Call
  BY <1>1 DEF Call, ConnectTypeOK, Progress, FlagsInHand
<1>2. CASE Network \/ Close
  <2>1. ConnectTypeOK'
    BY <1>2 DEF Network, Close, ConnectTypeOK
  <2>2. Progress' /\ FlagsInHand'
    BY <1>2 DEF Network, Close, Progress, FlagsInHand
  <2> QED BY <2>1, <2>2
<1>3. ASSUME NEW m \in Modes, ChooseMode(m) PROVE ConnectInv'
  <2>1. ConnectTypeOK'
    BY <1>3 DEF ChooseMode, ConnectTypeOK
  <2>2. Progress' /\ FlagsInHand'
    BY <1>3 DEF ChooseMode, ConnectTypeOK, Progress, FlagsInHand
  <2> QED BY <2>1, <2>2
<1> QED BY <1>1, <1>2, <1>3

-----------------------------------------------------------------------------
\* The invariant of __wrap_connect holds at every step of every call.
THEOREM ConnectInvariant == ConnectSpec => []ConnectInv
<1>1. ConnectInv /\ [ConnectNext]_connectVars => ConnectInv'
  <2> SUFFICES ASSUME ConnectInv, [ConnectNext]_connectVars PROVE ConnectInv'
    OBVIOUS
  <2>1. CASE UNCHANGED connectVars
    BY <2>1 DEF connectVars, ConnectInv, ConnectTypeOK, Progress, FlagsInHand,
           SuccessMeansConnected, InProgressIsFinished, ConnectedKeepsMode
  <2> QED BY <2>1, StepKeeps, OthersKeep DEF ConnectNext
<1> QED BY <1>1, InitConnectInv, PTL DEF ConnectSpec

\* __wrap_connect returns 0 only for a connection that lwIP established.
THEOREM SuccessAlwaysConnected == ConnectSpec => []SuccessMeansConnected
<1>1. ConnectInv => SuccessMeansConnected
  BY DEF ConnectInv, Progress
<1> QED BY <1>1, ConnectInvariant, PTL

\* A socket that __wrap_connect reports connected has the O_NONBLOCK it had
\* at the call, whichever fcntl failed, unless another thread set it.
THEOREM ModeAlwaysKept == ConnectSpec => []ConnectedKeepsMode
<1>1. ConnectInv => ConnectedKeepsMode
  BY DEF ConnectInv, FlagsInHand
<1> QED BY <1>1, ConnectInvariant, PTL

\* EINPROGRESS reaches the caller of __wrap_connect only when the socket was
\* closed under it.
THEOREM InProgressAlwaysFinished == ConnectSpec => []InProgressIsFinished
<1>1. ConnectInv => InProgressIsFinished
  BY DEF ConnectInv, Progress
<1> QED BY <1>1, ConnectInvariant, PTL

-----------------------------------------------------------------------------
(* poll and select over both stacks.                                       *)

MuxTypeOK ==
    /\ ready \subseteq Interests /\ glimpsed \subseteq Interests
    /\ selected \subseteq Interests /\ watch \subseteq selected
    /\ timeout \in Timeouts \cup {Forever} /\ elapsed \in 0..MaxElapsed

\* A sample only ever holds what was asked for and seen during the call.
SamplesSeen ==
    /\ ready \subseteq glimpsed /\ steady \subseteq ready
    /\ virtual_ready \subseteq selected \cap glimpsed
    /\ real_ready \subseteq selected \cap glimpsed

\* The sets that are sampled are the caller's, and what has been ready since
\* the head of the loop is in the samples taken since: when they come out
\* empty, nothing has.
NothingMissed ==
    /\ pc \in {"virtual", "real"} => watch = selected
    /\ pc = "real" => selected \cap Virtual \cap steady \subseteq virtual_ready
    /\ pc = "clock" => selected \cap steady = {}

MuxInv == MuxTypeOK /\ SamplesSeen /\ NothingMissed /\ AnswerIsTrue

\* The bounds are numbers and the descriptors are split in two.
LEMMA MuxFacts ==
    /\ MaxElapsed \in Nat /\ Forever \in Nat
    /\ Interests = Virtual \cup Real
    /\ \A t \in Timeouts : t \in 0..MaxElapsed /\ t /= Forever
BY MuxAssumption DEF Forever, Interests

\* Before the first call.
LEMMA InitMuxInv == Init => MuxInv
BY MuxFacts DEF Init, MuxInv, MuxTypeOK, SamplesSeen, NothingMissed,
   AnswerIsTrue

\* What a sample that ends the call reports is true.
LEMMA AnswerTrue ==
    ASSUME NEW found, found \subseteq selected \cap glimpsed, Answer(found),
           UNCHANGED <<selected, glimpsed>>
    PROVE  AnswerIsTrue'
<1>1. CASE found = {}
  BY <1>1 DEF Answer, Return, AnswerIsTrue
<1>2. CASE found /= {}
  <2>1. /\ outcome'.found = found /\ outcome'.count = Count(found)
        /\ selected' = selected /\ glimpsed' = glimpsed
    BY <1>2 DEF Answer, Return
  <2>2. Count(found) \in {Cardinality(found),
                          Cardinality({i[1] : i \in found})}
    BY DEF Count
  <2> QED BY <1>2, <2>1, <2>2 DEF AnswerIsTrue
<1> QED BY <1>1, <1>2

\* The outcomes that find nothing.
LEMMA PlainOutcomes ==
    \A r \in {"timeout", "lwip error", "real error", "ENOMEM", "delegated",
             "none"} : [result |-> r] \in Outcomes
BY DEF Outcomes

\* A failing sample is reported as an error of its stack.
LEMMA FailuresNamed ==
    ASSUME SampleFails
    PROVE  /\ pc' = "idle"
           /\ outcome' \in Outcomes
           /\ outcome'.result \in {"lwip error", "real error"}
<1>1. \/ Return([result |-> "lwip error"])
      \/ Return([result |-> "real error"])
  BY DEF SampleFails
<1>2. CASE Return([result |-> "lwip error"])
  BY <1>2, PlainOutcomes DEF Return
<1>3. CASE Return([result |-> "real error"])
  BY <1>3, PlainOutcomes DEF Return
<1> QED BY <1>1, <1>2, <1>3

\* The steps of the loop.
LEMMA LoopKeeps == ASSUME MuxInv, Step PROVE MuxInv'
<1> USE MuxFacts DEF MuxInv, args, samples
<1>1. CASE LoopHead
  <2> USE <1>1 DEF LoopHead, Stay
  <2>1. MuxTypeOK' /\ SamplesSeen'
    BY DEF MuxTypeOK, SamplesSeen
  <2>2. NothingMissed' /\ AnswerIsTrue'
    BY DEF NothingMissed, AnswerIsTrue
  <2> QED BY <2>1, <2>2
<1>2. CASE SampleVirtual
  <2> USE <1>2 DEF SampleVirtual
  <2>1. virtual_ready' \subseteq selected \cap glimpsed
    BY DEF MuxTypeOK, SamplesSeen
  <2>2. MuxTypeOK' /\ SamplesSeen'
    BY <2>1 DEF MuxTypeOK, SamplesSeen
  <2>3. CASE has_real
    <3>1. NothingMissed' /\ AnswerIsTrue'
      BY <2>3 DEF NothingMissed, SamplesSeen, AnswerIsTrue
    <3> QED BY <2>2, <3>1
  <2>4. CASE ~has_real /\ Answered(virtual_ready')
    <3>1. Answer(virtual_ready') /\ pc' = "idle"
      BY <2>4 DEF Answer, Return
    <3>2. AnswerIsTrue'
      BY <2>1, <3>1, AnswerTrue
    <3>3. NothingMissed'
      BY <3>1 DEF NothingMissed
    <3> QED BY <2>2, <3>2, <3>3
  <2>5. CASE ~has_real /\ ~Answered(virtual_ready')
    <3>1. pc' = "clock" /\ virtual_ready' = {} /\ selected \subseteq Virtual
      BY <2>5 DEF Answered, has_real, MuxTypeOK
    <3>2. selected \cap steady = {}
      BY <3>1 DEF NothingMissed, SamplesSeen
    <3>3. NothingMissed' /\ AnswerIsTrue'
      BY <3>1, <3>2 DEF NothingMissed, AnswerIsTrue
    <3> QED BY <2>2, <3>3
  <2> QED BY <2>3, <2>4, <2>5
<1>3. CASE SampleReal
  <2> DEFINE found == virtual_ready \cup real_ready'
  <2> USE <1>3 DEF SampleReal
  <2>1. found \subseteq selected \cap glimpsed
    BY DEF MuxTypeOK, SamplesSeen
  <2>2. MuxTypeOK' /\ SamplesSeen'
    BY <2>1 DEF MuxTypeOK, SamplesSeen
  <2>3. CASE Answered(found)
    <3>1. Answer(found) /\ pc' = "idle"
      BY <2>3 DEF Answer, Return
    <3>2. AnswerIsTrue'
      <4> HIDE DEF found
      <4> QED BY <2>1, <3>1, AnswerTrue
    <3>3. NothingMissed'
      BY <3>1 DEF NothingMissed
    <3> QED BY <2>2, <3>2, <3>3
  <2>4. CASE ~Answered(found)
    <3>1. pc' = "clock" /\ virtual_ready = {} /\ real_ready' = {}
      BY <2>4 DEF Answered
    <3>2. selected \cap steady = {}
      BY <3>1 DEF NothingMissed, SamplesSeen, MuxTypeOK
    <3>3. NothingMissed' /\ AnswerIsTrue'
      BY <3>1, <3>2 DEF NothingMissed, AnswerIsTrue
    <3> QED BY <2>2, <3>3
  <2> QED BY <2>3, <2>4
<1>4. CASE CheckClock \/ Delay
  <2> USE <1>4 DEF CheckClock, Delay, Return, Stay
  <2>1. MuxTypeOK' /\ SamplesSeen'
    BY DEF MuxTypeOK, SamplesSeen
  <2>2. NothingMissed' /\ AnswerIsTrue'
    BY DEF NothingMissed, AnswerIsTrue
  <2> QED BY <2>1, <2>2
<1> QED BY <1>1, <1>2, <1>3, <1>4 DEF Step

\* A new call, a failing sample, the clock, and the other threads.
LEMMA MuxOthersKeep ==
    ASSUME MuxInv,
           \/ \E k \in {"poll", "select"}, s \in SUBSET Interests \ {{}},
                 t \in Timeouts \cup {Forever} : Enter(k, s, t)
           \/ SampleFails \/ Tick
           \/ \E i \in Interests : Arrive(i) \/ Consume(i)
    PROVE  MuxInv'
<1> USE MuxFacts DEF MuxInv, args, samples
<1>1. ASSUME NEW k \in {"poll", "select"}, NEW s \in SUBSET Interests \ {{}},
             NEW t \in Timeouts \cup {Forever}, Enter(k, s, t)
      PROVE  MuxInv'
  <2> USE <1>1 DEF Enter, Return, Stay
  <2>1. MuxTypeOK' /\ SamplesSeen'
    BY DEF MuxTypeOK, SamplesSeen
  <2>2. NothingMissed' /\ AnswerIsTrue'
    BY DEF NothingMissed, AnswerIsTrue
  <2> QED BY <2>1, <2>2
<1>2. CASE SampleFails
  <2>1. MuxTypeOK' /\ SamplesSeen'
    BY <1>2 DEF SampleFails, MuxTypeOK, SamplesSeen
  <2>2. NothingMissed' /\ AnswerIsTrue'
    BY <1>2, FailuresNamed DEF NothingMissed, AnswerIsTrue
  <2> QED BY <2>1, <2>2
<1>3. CASE Tick
  <2> USE <1>3 DEF Tick
  <2>1. MuxTypeOK' /\ SamplesSeen'
    BY DEF MuxTypeOK, SamplesSeen
  <2>2. NothingMissed' /\ AnswerIsTrue'
    BY DEF NothingMissed, AnswerIsTrue
  <2> QED BY <2>1, <2>2
<1>4. ASSUME NEW i \in Interests, Arrive(i) \/ Consume(i) PROVE MuxInv'
  <2> USE <1>4 DEF Arrive, Consume
  <2>1. MuxTypeOK' /\ SamplesSeen'
    BY DEF MuxTypeOK, SamplesSeen
  <2>2. NothingMissed'
    BY DEF NothingMissed
  <2>3. AnswerIsTrue'
    BY DEF AnswerIsTrue
  <2> QED BY <2>1, <2>2, <2>3
<1> QED BY <1>1, <1>2, <1>3, <1>4

-----------------------------------------------------------------------------
\* The invariant of the loops of __wrap_poll and __wrap_select.
THEOREM MuxInvariant == Spec => []MuxInv
<1>1. MuxInv /\ [Next]_vars => MuxInv'
  <2> SUFFICES ASSUME MuxInv, [Next]_vars PROVE MuxInv'
    OBVIOUS
  <2>1. CASE UNCHANGED vars
    BY <2>1 DEF vars, args, samples, MuxInv, MuxTypeOK, SamplesSeen,
           NothingMissed, AnswerIsTrue
  <2> QED BY <2>1, LoopKeeps, MuxOthersKeep DEF Next
<1> QED BY <1>1, InitMuxInv, PTL DEF Spec

\* __wrap_poll and __wrap_select report only what was asked for and was
\* ready during the call, and count it.
THEOREM AnswerAlwaysTrue == Spec => []AnswerIsTrue
<1>1. MuxInv => AnswerIsTrue
  BY DEF MuxInv
<1> QED BY <1>1, MuxInvariant, PTL

\* A timeout is reported neither early, nor to a caller that waits for ever,
\* nor over a descriptor that has been ready since the last loop head.
THEOREM TimeoutAlwaysTrue == Spec => TimeoutIsTrue
<1> DEFINE Reported == pc /= "idle" /\ pc' = "idle"
                       /\ outcome'.result = "timeout"
<1> DEFINE True == timeout /= Forever /\ elapsed >= timeout
                   /\ selected \cap steady = {}
<1>1. ASSUME MuxInv, [Next]_vars PROVE [Reported => True]_vars
  <2> SUFFICES ASSUME Next, Reported PROVE True
    BY <1>1
  <2> USE MuxFacts, <1>1 DEF MuxInv
  <2>1. CASE SampleVirtual
    <3>1. Answer(virtual_ready') /\ ~has_real /\ Answered(virtual_ready')
      BY <2>1 DEF SampleVirtual, Stay
    <3>2. virtual_ready' = {} /\ timeout = 0
      BY <3>1 DEF Answer, Answered, Return
    <3>3. selected \cap steady = {}
      BY <2>1, <3>1, <3>2 DEF SampleVirtual, NothingMissed, SamplesSeen,
                              MuxTypeOK, has_real
    <3> QED BY <3>2, <3>3 DEF MuxTypeOK, Forever
  <2>2. CASE SampleReal
    <3>1. Answer(virtual_ready \cup real_ready')
          /\ Answered(virtual_ready \cup real_ready')
      BY <2>2 DEF SampleReal, Stay
    <3>2. virtual_ready = {} /\ real_ready' = {} /\ timeout = 0
      BY <3>1 DEF Answer, Answered, Return
    <3>3. selected \cap steady = {}
      BY <2>2, <3>2 DEF SampleReal, NothingMissed, SamplesSeen, MuxTypeOK
    <3> QED BY <3>2, <3>3 DEF MuxTypeOK, Forever
  <2>3. CASE CheckClock
    BY <2>3 DEF CheckClock, NothingMissed
  <2>4. CASE LoopHead \/ Delay \/ Tick
    BY <2>4 DEF LoopHead, Delay, Tick
  <2>5. CASE SampleFails
    BY <2>5, FailuresNamed
  <2>6. ASSUME NEW k, NEW s, NEW t, Enter(k, s, t) PROVE True
    BY <2>6 DEF Enter
  <2>7. ASSUME NEW i, Arrive(i) \/ Consume(i) PROVE True
    BY <2>7 DEF Arrive, Consume
  <2> QED BY <2>1, <2>2, <2>3, <2>4, <2>5, <2>6, <2>7 DEF Next, Step
<1> QED BY <1>1, MuxInvariant, PTL DEF Spec, TimeoutIsTrue

-----------------------------------------------------------------------------
(* Type correctness: the number a call returns is never more than there    *)
(* are interests.                                                          *)

\* Bits or descriptors, there is at least one and at most one per interest.
LEMMA CountBounds ==
    ASSUME NEW found \in SUBSET Interests, found /= {}
    PROVE  Count(found) \in 1..Cardinality(Interests)
<1> DEFINE descriptor == [i \in found |-> i[1]]
<1> DEFINE Named == {i[1] : i \in found}
<1>1. IsFiniteSet(Interests)
  BY MuxAssumption, FS_Union DEF Interests
<1>2. /\ IsFiniteSet(found) /\ Cardinality(found) \in Nat
      /\ Cardinality(found) <= Cardinality(Interests)
      /\ Cardinality(Interests) \in Nat
  BY <1>1, FS_Subset, FS_CardinalityType
<1>3. descriptor \in Surjection(found, Named)
  BY DEF Surjection
<1>4. IsFiniteSet(Named) /\ Cardinality(Named) <= Cardinality(found)
  <2> HIDE DEF descriptor, Named
  <2> QED BY <1>2, <1>3, FS_Surjection
<1>5. Cardinality(Named) \in Nat /\ Named /= {}
  <2>1. Named /= {}
    OBVIOUS
  <2> HIDE DEF Named
  <2> QED BY <1>4, <2>1, FS_CardinalityType
<1>6. Cardinality(found) /= 0 /\ Cardinality(Named) /= 0
  <2> HIDE DEF Named
  <2> QED BY <1>2, <1>4, <1>5, FS_EmptySet
<1>7. Count(found) \in {Cardinality(found), Cardinality(Named)}
  BY DEF Count
<1> HIDE DEF Named
<1> QED BY <1>2, <1>4, <1>5, <1>6, <1>7

\* What a call answers with is an outcome.
LEMMA AnswerTyped ==
    ASSUME NEW found \in SUBSET Interests, Answer(found)
    PROVE  outcome' \in Outcomes /\ pc' = "idle"
<1>1. CASE found = {}
  BY <1>1 DEF Answer, Return, Outcomes
<1>2. CASE found /= {}
  <2>1. Count(found) \in 1..Cardinality(Interests)
    BY <1>2, CountBounds
  <2> QED BY <1>2, <2>1 DEF Answer, Return, Outcomes
<1> QED BY <1>1, <1>2

\* Every step keeps the types.
LEMMA TypeStep == ASSUME TypeOK, Next PROVE TypeOK'
<1> USE MuxFacts DEF TypeOK, args, samples, Stay
<1>1. CASE LoopHead \/ Delay \/ Tick
  BY <1>1 DEF LoopHead, Delay, Tick
<1>2. CASE SampleVirtual
  <2> USE <1>2 DEF SampleVirtual
  <2>1. virtual_ready' \in SUBSET Interests
    OBVIOUS
  <2>2. outcome' \in Outcomes /\ pc' \in {"idle", "real", "clock"}
    <3>1. CASE Answer(virtual_ready')
      BY <2>1, <3>1, AnswerTyped
    <3>2. CASE ~Answer(virtual_ready')
      BY <3>2
    <3> QED BY <3>1, <3>2
  <2> QED BY <2>2
<1>3. CASE SampleReal
  <2> USE <1>3 DEF SampleReal
  <2>1. virtual_ready \cup real_ready' \in SUBSET Interests
    OBVIOUS
  <2>2. outcome' \in Outcomes /\ pc' \in {"idle", "clock"}
    <3>1. CASE Answer(virtual_ready \cup real_ready')
      BY <2>1, <3>1, AnswerTyped
    <3>2. CASE ~Answer(virtual_ready \cup real_ready')
      BY <3>2
    <3> QED BY <3>1, <3>2
  <2> QED BY <2>2
<1>4. CASE CheckClock
  <2>1. outcome' \in Outcomes
    BY <1>4, PlainOutcomes DEF CheckClock, Return
  <2> QED BY <1>4, <2>1 DEF CheckClock, Return
<1>5. CASE SampleFails
  <2>1. outcome' \in Outcomes /\ pc' = "idle"
    BY <1>5, FailuresNamed
  <2> QED BY <1>5, <2>1 DEF SampleFails
<1>6. ASSUME NEW k \in {"poll", "select"}, NEW s \in SUBSET Interests \ {{}},
             NEW t \in Timeouts \cup {Forever}, Enter(k, s, t)
      PROVE  TypeOK'
  <2>1. outcome' \in Outcomes /\ pc' \in {"idle", "head"}
    BY <1>6, PlainOutcomes DEF Enter, Return
  <2> QED BY <1>6, <2>1 DEF Enter
<1>7. ASSUME NEW i \in Interests, Arrive(i) \/ Consume(i) PROVE TypeOK'
  BY <1>7 DEF Arrive, Consume
<1> QED BY <1>1, <1>2, <1>3, <1>4, <1>5, <1>6, <1>7 DEF Next, Step

\* Type correctness of the loops of __wrap_poll and __wrap_select: each
\* sample holds descriptors of its own stack only, and the number returned
\* is at least one and at most that of the interests.
THEOREM MuxTypeCorrect == Spec => []TypeOK
<1>1. Init => TypeOK
  BY MuxFacts DEF Init, TypeOK, Outcomes
<1>2. TypeOK /\ [Next]_vars => TypeOK'
  <2>1. ASSUME TypeOK, UNCHANGED vars PROVE TypeOK'
    BY <2>1 DEF vars, args, samples, TypeOK
  <2> QED BY <2>1, TypeStep
<1> QED BY <1>1, <1>2, PTL DEF Spec
=============================================================================
