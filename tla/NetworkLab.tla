----------------------------- MODULE NetworkLab -----------------------------
(***************************************************************************)
(* The network lab of src/main.c: main acquires the screen, run_probe      *)
(* brings the network up as far as it gets, tests DNS, TCP and STUN, and   *)
(* the user repeats it with CROSS or leaves with START.  A call that can   *)
(* fail is a step; the reports of firmware, memory, addresses, MTU and NAT *)
(* only log and are left out.                                              *)
(***************************************************************************)
EXTENDS Naturals

CONSTANT MaxRuns    \* bound: how often the diagnosis is run

ASSUME RunsAssumption == MaxRuns \in Nat \ {0}

VARIABLES
    at,         \* where the program is
    open,       \* what it has acquired and not released
    overrun,    \* history: something was acquired over what was still open
    run,        \* the number of the run, also its STUN transaction id: the
                \*   process clock never gives two runs the same stamp
    previous,   \* previous_buttons
    target,     \* what is being tested: "control", "baseline" or "stun"
    connection, \* external: the TCP connection of the socket
    rcvtimeo,   \* the STUN socket has a receive timeout
    requests,   \* external: STUN requests sent by any run of this process
    results,    \* what this run has reported
    evidence    \* history: the tests of this run that really succeeded

labTest == <<target, connection, rcvtimeo, requests, results, evidence>>
labVars == <<at, open, overrun, run, previous, labTest>>

Screen == {"vita2d", "pgf", "font"}

Network == {"module", "memory", "net", "netctl"}

NoResults == [t \in {"control", "baseline", "stun"} |-> "none"]

LabInit ==
    /\ at = "start" /\ open = {} /\ overrun = FALSE
    /\ run = 1 /\ previous = {}
    /\ target = "control" /\ connection = "none" /\ rcvtimeo = FALSE
    /\ requests = {} /\ results = NoResults /\ evidence = {}

Acquire(handles) ==
    /\ open' = open \cup handles
    /\ overrun' = (overrun \/ handles \cap open /= {})

Release(handles) == open' = open \ handles /\ UNCHANGED overrun

Keep == UNCHANGED <<open, overrun>>

-----------------------------------------------------------------------------
(* main before the first run.                                              *)

\* One of the three; a failure undoes the earlier ones and leaves.
AcquireScreen(label, handle, next, undo) ==
    /\ at = label
    /\ \/ Acquire({handle}) /\ at' = next
       \/ Release(undo) /\ at' = "exited"
    /\ UNCHANGED <<run, previous, labTest>>

StartScreen ==
    \/ AcquireScreen("start", "vita2d", "pgf", {})
    \/ AcquireScreen("pgf", "pgf", "font", {"vita2d"})
    \/ AcquireScreen("font", "font", "report", {"vita2d", "pgf"})

-----------------------------------------------------------------------------
(* run_probe and initialize_network.                                       *)

\* The log is closed if open, and may not open again: the run goes on.
reset_report ==
    /\ at = "report" /\ at' = "module"
    /\ open' \in {open \ {"log"}, open \cup {"log"}} /\ UNCHANGED overrun
    /\ results' = NoResults /\ evidence' = {}
    /\ UNCHANGED <<run, previous, target, connection, rcvtimeo, requests>>

\* Mutant of Initialize: does not ask whether an earlier run got this far.
InitializeAgain(label, handles, next) ==
    /\ at = label
    /\ \/ Acquire(handles) /\ at' = next
       \/ Release({"log"}) /\ at' = "menu"
    /\ target' = "control"
    /\ UNCHANGED <<run, previous, connection, rcvtimeo, requests, results,
                   evidence>>

\* One stage of initialize_network: skipped when an earlier run reached it;
\* a failure ends the run and keeps the stages before it.
Initialize(label, handles, next) ==
    /\ at = label
    /\ \/ handles \subseteq open /\ Keep /\ at' = next
       \/ ~(handles \subseteq open) /\ Acquire(handles) /\ at' = next
       \/ ~(handles \subseteq open) /\ Release({"log"}) /\ at' = "menu"
    /\ target' = "control"
    /\ UNCHANGED <<run, previous, connection, rcvtimeo, requests, results,
                   evidence>>

initialize_network_lab ==
    \/ Initialize("module", {"module"}, "net")
    \/ Initialize("net", {"memory", "net"}, "netctl")
    \/ Initialize("netctl", {"netctl"}, "resolver")

\* The test of a target is over: what it had open is released, and run_probe
\* goes on to the next one.
Report(result, handles) ==
    /\ Release(handles)
    /\ results' = [results EXCEPT ![target] = result]
    /\ at' = CASE target = "control" -> "pton"
               [] target = "baseline" -> "dump"
               [] target = "stun" -> "dump_read"
    /\ target' = CASE target = "control" -> "baseline" [] OTHER -> "stun"
    /\ connection' = "none"
    /\ UNCHANGED <<rcvtimeo, requests>>

LabGoto(label) ==
    /\ at' = label
    /\ UNCHANGED <<target, rcvtimeo, requests, results, evidence>>

\* resolve_ipv4, for the control plane and for the STUN server.
ResolverCreate ==
    /\ at = "resolver"
    /\ \/ Acquire({"resolver"}) /\ LabGoto("resolving") /\ UNCHANGED connection
       \/ Report("failed", {}) /\ UNCHANGED evidence
    /\ UNCHANGED <<run, previous>>

ResolverStart ==
    /\ at = "resolving"
    /\ \/ Release({"resolver"}) /\ LabGoto("socket") /\ UNCHANGED connection
       \/ Report("failed", {"resolver"}) /\ UNCHANGED evidence
    /\ UNCHANGED <<run, previous>>

Pton ==
    /\ at = "pton"
    /\ \/ Keep /\ LabGoto("socket") /\ UNCHANGED connection
       \/ Report("failed", {}) /\ UNCHANGED evidence
    /\ UNCHANGED <<run, previous>>

OpenTestSocket ==
    /\ at = "socket"
    /\ \/ /\ Acquire({"socket"})
          /\ LabGoto(IF target = "stun" THEN "timeout" ELSE "nonblocking")
          /\ UNCHANGED connection
       \/ Report("failed", {}) /\ UNCHANGED evidence
    /\ UNCHANGED <<run, previous>>

-----------------------------------------------------------------------------
(* test_tcp_connect.                                                       *)

\* A stage that fails, or leads to the next one and acquires handles.
TcpStage(label, handles, next, held) ==
    /\ at = label
    /\ \/ Acquire(handles) /\ LabGoto(next) /\ UNCHANGED connection
       \/ Report("failed", held) /\ UNCHANGED evidence
    /\ UNCHANGED <<run, previous>>

TcpConnect ==
    /\ at = "connect"
    /\ \/ Report("ok", {"socket"}) /\ evidence' = evidence \cup {target}
       \/ Report("failed", {"socket"}) /\ UNCHANGED evidence
       \/ Keep /\ LabGoto("epoll-create") /\ connection' = "syn"
    /\ UNCHANGED <<run, previous>>

\* Mutant of EpollWait: waits without TCP_CONNECT_TIMEOUT_US.
EpollWaitForever ==
    /\ at = "epoll-wait" /\ connection /= "syn"
    /\ \/ Keep /\ LabGoto("socket-error") /\ UNCHANGED connection
       \/ Report("failed", {"epoll", "socket"}) /\ UNCHANGED evidence
    /\ UNCHANGED <<run, previous>>

\* An event, or the timeout or an error.
EpollWait ==
    /\ at = "epoll-wait"
    /\ \/ /\ connection /= "syn"
          /\ Keep /\ LabGoto("socket-error") /\ UNCHANGED connection
       \/ Report("failed", {"epoll", "socket"}) /\ UNCHANGED evidence
    /\ UNCHANGED <<run, previous>>

\* SO_ERROR, when it can be read; a connection that was reset since may
\* show an error or none.
SocketError ==
    /\ at = "socket-error"
    /\ \/ Report("failed", {"epoll", "socket"})
       \/ connection \in {"up", "reset"} /\ Report("ok", {"epoll", "socket"})
    /\ UNCHANGED <<run, previous, evidence>>

test_tcp_connect ==
    \/ TcpStage("nonblocking", {}, "connect", {"socket"})
    \/ TcpConnect
    \/ TcpStage("epoll-create", {"epoll"}, "epoll-control", {"socket"})
    \/ TcpStage("epoll-control", {}, "epoll-wait", {"epoll", "socket"})
    \/ EpollWait \/ SocketError

\* External: the handshake ends, well or not, or an open connection breaks.
Peer ==
    /\ \/ /\ connection = "syn" /\ connection' = "up"
          /\ evidence' = evidence \cup {target}
       \/ connection = "syn" /\ connection' = "refused" /\ UNCHANGED evidence
       \/ connection = "up" /\ connection' = "reset" /\ UNCHANGED evidence
    /\ UNCHANGED <<at, open, overrun, run, previous, target, rcvtimeo,
                   requests, results>>

-----------------------------------------------------------------------------
(* test_packet_capture, test_stun and the end of a run.                    *)

\* Without a capture the STUN test still runs.
DumpCreate ==
    /\ at = "dump"
    /\ Acquire({"dump"}) \/ Keep
    /\ LabGoto("resolver")
    /\ UNCHANGED <<run, previous, connection>>

\* The results of both setsockopt calls are ignored.
StunTimeouts ==
    /\ at = "timeout" /\ at' = "sendto"
    /\ rcvtimeo' \in BOOLEAN
    /\ Keep
    /\ UNCHANGED <<run, previous, target, connection, requests, results,
                   evidence>>

StunSend ==
    /\ at = "sendto"
    /\ \/ /\ at' = "recvfrom" /\ requests' = requests \cup {run}
          /\ Keep
          /\ UNCHANGED <<target, connection, rcvtimeo, results, evidence>>
       \/ Report("failed", {"socket"}) /\ UNCHANGED evidence
    /\ UNCHANGED <<run, previous>>

\* Mutant of StunAnswer: the transaction id is not compared.
StunAnswerAny(t) ==
    /\ at = "recvfrom"
    /\ Report(IF t /= 0 THEN "ok" ELSE "failed", {"socket"})
    /\ evidence' = IF t = run THEN evidence \cup {"stun"} ELSE evidence
    /\ UNCHANGED <<run, previous>>

\* One datagram is read: an answer to request t, perhaps late or repeated,
\* or something else (0).  Only the transaction id tells them apart.
StunAnswer(t) ==
    /\ at = "recvfrom"
    /\ Report(IF t = run THEN "ok" ELSE "failed", {"socket"})
    /\ evidence' = IF t = run THEN evidence \cup {"stun"} ELSE evidence
    /\ UNCHANGED <<run, previous>>

StunTimeout ==
    /\ at = "recvfrom" /\ rcvtimeo
    /\ Report("failed", {"socket"})
    /\ UNCHANGED <<run, previous, evidence>>

DumpRead ==
    /\ at = "dump_read"
    /\ Release({"dump"}) /\ LabGoto("raw")
    /\ UNCHANGED <<run, previous, connection>>

RawSocket ==
    /\ \/ at = "raw" /\ Acquire({"socket"}) /\ LabGoto("raw_close")
       \/ at = "raw" /\ Keep /\ LabGoto("log")
       \/ at = "raw_close" /\ Release({"socket"}) /\ LabGoto("log")
       \/ at = "log" /\ Release({"log"}) /\ LabGoto("menu")
    /\ UNCHANGED <<run, previous, connection>>

-----------------------------------------------------------------------------
(* The button loop of main, and its end.                                   *)

\* START wins over CROSS; a held button counts once.
Buttons(b) ==
    LET pressed == b \ previous IN
    /\ at = "menu" /\ previous' = b
    /\ \/ "START" \in pressed /\ at' = "exit" /\ UNCHANGED run
       \/ /\ "START" \notin pressed /\ "CROSS" \in pressed /\ run < MaxRuns
          /\ at' = "report" /\ run' = run + 1
       \/ pressed = {} /\ UNCHANGED <<at, run>>
    /\ Keep /\ UNCHANGED labTest

\* close_log, cleanup_network stage by stage, then the screen.
Exit ==
    /\ at = "exit" /\ at' = "exited"
    /\ Release({"log"} \cup Network \cup Screen)
    /\ UNCHANGED <<run, previous, labTest>>

-----------------------------------------------------------------------------
LabStep ==
    \/ StartScreen \/ reset_report \/ initialize_network_lab
    \/ ResolverCreate \/ ResolverStart \/ Pton \/ OpenTestSocket
    \/ test_tcp_connect \/ DumpCreate \/ StunTimeouts \/ StunSend
    \/ StunTimeout \/ DumpRead \/ RawSocket \/ Exit

LabNext ==
    \/ LabStep \/ Peer
    \/ \E t \in requests \cup {0} : StunAnswer(t)
    \/ \E b \in SUBSET {"START", "CROSS"} : Buttons(b)

\* Calls return, recvfrom only if its timeout could be set.
LabSpec == LabInit /\ [][LabNext]_labVars /\ WF_labVars(LabStep)

-----------------------------------------------------------------------------
\* Whatever failed and however often the diagnosis was repeated: nothing is
\* acquired over what is still open, a finished run has left no resolver,
\* socket, epoll, capture or log open, and the program leaves nothing.
LabReleases ==
    /\ ~overrun
    /\ at = "menu" => open \subseteq Screen \cup Network
    /\ at = "exited" => open = {}

\* A test is reported as good only if in this very run the connection was
\* established, or the answer was to this run's request.
LabReportsTrue == \A t \in DOMAIN results : results[t] = "ok" => t \in evidence

\* Every run gets back to the buttons, whatever answers or keeps silent, as
\* long as recvfrom has its timeout.
LabRunEnds ==
    at = "report" ~> (at = "menu" \/ (at = "recvfrom" /\ ~rcvtimeo))
=============================================================================
