------------------------------ MODULE ShimMux -------------------------------
(***************************************************************************)
(* __wrap_poll and __wrap_select of moonlight/socket_shim.c: one call over *)
(* virtual (lwIP) and real (Vita) descriptors, as the loop of zero-timeout *)
(* samples and short delays that replaces a blocking wait.  Each sample,   *)
(* each reading of the clock and the delay is a step; between them data    *)
(* arrives and other threads consume it.                                   *)
(***************************************************************************)
EXTENDS Naturals, FiniteSets

CONSTANTS
    Virtual, Real,    \* descriptors, by is_virtual_socket, each with what
                      \*   is asked of it: <<fd, "read">>, <<fd, "write">>
    Timeouts,         \* finite timeouts a caller passes, 0 among them
    MaxElapsed        \* bound: where the model's stopwatch saturates

ASSUME MuxAssumption ==
    /\ Virtual \cap Real = {} /\ IsFiniteSet(Virtual) /\ IsFiniteSet(Real)
    /\ Timeouts \subseteq 0..MaxElapsed /\ MaxElapsed \in Nat

Interests == Virtual \cup Real

Forever == MaxElapsed + 1    \* a negative poll timeout, a NULL timeval

VARIABLES
    ready,      \* external: what a sample would report now
    kind,       \* "poll" or "select"
    selected,   \* what the caller asks for (original_read and so on)
    watch,      \* the caller's own fd_sets, which a sample overwrites
    timeout,
    elapsed,    \* sceKernelGetProcessTimeWide() - started
    virtual_ready, real_ready,   \* the last samples
    pc,
    outcome,    \* what the last call returned
    steady,     \* history: ready without a break since the last loop head
    glimpsed    \* history: ready at some moment of the call

args == <<kind, selected, timeout>>
samples == <<virtual_ready, real_ready>>
vars == <<ready, args, watch, elapsed, samples, pc, outcome, steady, glimpsed>>

Outcomes == [result : {"ready"}, found : SUBSET Interests,
             count : 1..Cardinality(Interests)]
            \cup [result : {"timeout", "lwip error", "real error", "ENOMEM",
                            "delegated", "none"}]

\* Each sample holds descriptors of its own stack only.
TypeOK ==
    /\ ready \subseteq Interests /\ steady \subseteq ready /\ glimpsed \subseteq Interests
    /\ kind \in {"poll", "select"} /\ selected \subseteq Interests
    /\ watch \subseteq selected
    /\ timeout \in Timeouts \cup {Forever} /\ elapsed \in 0..MaxElapsed
    /\ virtual_ready \subseteq Virtual /\ real_ready \subseteq Real
    /\ pc \in {"idle", "head", "virtual", "real", "clock", "delay"}
    /\ outcome \in Outcomes

Init ==
    /\ ready = {} /\ kind = "poll" /\ selected = {} /\ watch = {}
    /\ timeout = Forever /\ elapsed = 0
    /\ virtual_ready = {} /\ real_ready = {}
    /\ pc = "idle" /\ outcome = [result |-> "none"]
    /\ steady = {} /\ glimpsed = {}

has_real == selected \cap Real /= {}

Return(o) == pc' = "idle" /\ outcome' = o

Stay == UNCHANGED outcome

-----------------------------------------------------------------------------
\* The classification of the descriptors; without a virtual one the call
\* goes to the Vita's own stack as it is.  A mixed poll needs two arrays.
Enter(k, s, t) ==
    /\ pc = "idle"
    /\ kind' = k /\ selected' = s /\ watch' = s /\ timeout' = t
    /\ elapsed' = 0 /\ steady' = {} /\ glimpsed' = ready
    /\ virtual_ready' = {} /\ real_ready' = {}
    /\ IF s \cap Virtual = {}
       THEN Return([result |-> "delegated"])
       ELSE \/ pc' = "head" /\ Stay
            \/ /\ k = "poll" /\ s \cap Real /= {}
               /\ Return([result |-> "ENOMEM"])
    /\ UNCHANGED ready

\* Mutant of LoopHead: the sets are not copied back.
LoopHeadKeepsSets ==
    /\ pc = "head"
    /\ steady' = ready
    /\ pc' = "virtual"
    /\ Stay /\ UNCHANGED <<ready, args, watch, elapsed, samples, glimpsed>>

\* The head of the loop: select copies the caller's sets back first.
LoopHead ==
    /\ pc = "head"
    /\ watch' = selected
    /\ steady' = ready
    /\ pc' = "virtual"
    /\ Stay /\ UNCHANGED <<ready, args, elapsed, samples, glimpsed>>

\* The end of an iteration's sampling.
Answered(found) == found /= {} \/ timeout = 0

\* How many of them: lwip_select counts the bits it sets; poll and a mixed
\* select count descriptors.
Count(found) ==
    IF kind = "select" /\ ~has_real THEN Cardinality(found)
    ELSE Cardinality({i[1] : i \in found})

\* Mutant of Answer: the sets are returned as they came.
AnswerEverything(found) ==
    Return(IF found = {} THEN [result |-> "timeout"]
           ELSE [result |-> "ready", found |-> selected,
                 count |-> Count(selected)])

Answer(found) ==
    Return(IF found = {} THEN [result |-> "timeout"]
           ELSE [result |-> "ready", found |-> found, count |-> Count(found)])

\* lwip_poll or lwip_select with a zero timeout.  select writes its result
\* over the sets it is given: the caller's own when all are virtual.
SampleVirtual ==
    /\ pc = "virtual"
    /\ virtual_ready' = watch \cap Virtual \cap ready
    /\ watch' = IF kind = "select" /\ ~has_real THEN virtual_ready' ELSE watch
    /\ IF has_real THEN pc' = "real" /\ Stay
       ELSE IF Answered(virtual_ready') THEN Answer(virtual_ready')
       ELSE pc' = "clock" /\ Stay
    /\ UNCHANGED <<ready, args, elapsed, real_ready, steady, glimpsed>>

SampleReal ==
    /\ pc = "real"
    /\ real_ready' = watch \cap Real \cap ready
    /\ LET found == virtual_ready \cup real_ready'
       IN  IF Answered(found) THEN Answer(found) ELSE pc' = "clock" /\ Stay
    /\ UNCHANGED <<ready, args, watch, elapsed, virtual_ready, steady,
                   glimpsed>>

\* A sample fails.  A mixed call samples both stacks before it looks at the
\* results, and lwIP's error wins.
SampleFails ==
    /\ \/ pc = "virtual" /\ ~has_real /\ Return([result |-> "lwip error"])
       \/ pc = "real" /\ \/ Return([result |-> "real error"])
                         \/ Return([result |-> "lwip error"])
    /\ UNCHANGED <<ready, args, watch, elapsed, samples, steady, glimpsed>>

CheckClock ==
    /\ pc = "clock"
    /\ IF timeout /= Forever /\ elapsed >= timeout
       THEN Return([result |-> "timeout"])
       ELSE pc' = "delay" /\ Stay
    /\ UNCHANGED <<ready, args, watch, elapsed, samples, steady, glimpsed>>

\* Mutant of Delay: without a timeout it waits for a notification, which
\* the Vita's pthread port may miss.
DelayBlocks ==
    /\ pc = "delay" /\ timeout /= Forever
    /\ pc' = "head"
    /\ Stay
    /\ UNCHANGED <<ready, args, watch, elapsed, samples, steady, glimpsed>>

\* sceKernelDelayThread(TSVITA_MUX_SLICE_US); ticks happen meanwhile.
Delay ==
    /\ pc = "delay"
    /\ pc' = "head"
    /\ Stay
    /\ UNCHANGED <<ready, args, watch, elapsed, samples, steady, glimpsed>>

-----------------------------------------------------------------------------
(* External: data arrives, another thread takes it, time passes.           *)

Arrive(i) ==
    /\ i \notin ready
    /\ ready' = ready \cup {i} /\ glimpsed' = glimpsed \cup {i}
    /\ UNCHANGED <<args, watch, elapsed, samples, pc, outcome, steady>>

Consume(i) ==
    /\ i \in ready
    /\ ready' = ready \ {i} /\ steady' = steady \ {i}
    /\ UNCHANGED <<args, watch, elapsed, samples, pc, outcome, glimpsed>>

Tick ==
    /\ pc /= "idle" /\ elapsed < MaxElapsed
    /\ elapsed' = elapsed + 1
    /\ UNCHANGED <<ready, args, watch, samples, pc, outcome, steady, glimpsed>>

-----------------------------------------------------------------------------
Step == LoopHead \/ SampleVirtual \/ SampleReal \/ CheckClock \/ Delay

Next ==
    \/ \E k \in {"poll", "select"}, s \in SUBSET Interests \ {{}},
          t \in Timeouts \cup {Forever} : Enter(k, s, t)
    \/ Step \/ SampleFails \/ Tick
    \/ \E i \in Interests : Arrive(i) \/ Consume(i)

Spec == Init /\ [][Next]_vars

\* The calling thread is scheduled and the process clock advances.
FairSpec == Spec /\ WF_vars(Step) /\ WF_vars(Tick)

-----------------------------------------------------------------------------
\* A timeout is reported neither early nor over data: not before the time
\* the caller gave has passed, never to a caller that gave none, and not when
\* something was ready from the beginning of the last iteration on.  The
\* comment in __wrap_poll names that case, "a FIN/EOF that arrives after poll
\* begins".
TimeoutIsTrue ==
    [][(pc /= "idle" /\ pc' = "idle" /\ outcome'.result = "timeout") =>
          /\ timeout /= Forever /\ elapsed >= timeout
          /\ selected \cap steady = {}]_vars

\* The loop never reports what was not asked for or was not ready at any
\* moment of the call, and the number it returns is that of the descriptors
\* or of the bits in the sets it leaves behind.
AnswerIsTrue ==
    (pc = "idle" /\ outcome.result = "ready") =>
        /\ outcome.found /= {} /\ outcome.found \subseteq selected \cap glimpsed
        /\ outcome.count \in {Cardinality(outcome.found),
                              Cardinality({i[1] : i \in outcome.found})}

\* A call with a timeout returns; and no call waits for ever on a descriptor
\* that stays ready, which is what the slices are for: a blocking lwip_poll
\* can miss the notification.
MuxReturns ==
    /\ (pc /= "idle" /\ timeout /= Forever) ~> pc = "idle"
    /\ \A i \in Interests : []<>~(pc /= "idle" /\ i \in selected \cap ready)
=============================================================================
