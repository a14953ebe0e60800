------------------------------- MODULE Probe --------------------------------
(***************************************************************************)
(* The network half of run_probe in src/wg_handshake_probe.c, on top of    *)
(* the files of Identity: initialize_network, one handshake, a UDP and a   *)
(* TCP echo through lwIP, and every exit with what it releases.  The user  *)
(* may press CROSS and run it again after any outcome.                     *)
(*                                                                         *)
(* lwIP has no thread here: its callbacks run inside netif.input,          *)
(* sys_check_timeouts and tcp_abort.  One received datagram raises at most *)
(* one callback.  A deadline is the moment a clock passes it.              *)
(***************************************************************************)
EXTENDS Identity

VARIABLES
    stage,          \* where the network half is, "off" outside it
    network,        \* how far initialize_network has got, 0 to 3
    socket_id,      \* the outer socket is open
    netif, udp,     \* context.netif is added, context.udp is allocated
    tcp,            \* context.tcp is not NULL
    pcb,            \* external: lwIP's side of the TCP connection
    echo_received, tcp_connected, tcp_received, tcp_closed, tcp_failed,
    expired,        \* the process clock has passed the deadline
    verdict,        \* history: what the last run reported
    echoes          \* history: the good echoes that arrived in this run

outer == <<network, socket_id>>
lwip == <<netif, udp, tcp, pcb>>
flags == <<echo_received, tcp_connected, tcp_received, tcp_closed, tcp_failed>>
report == <<verdict, echoes>>
probeVars == <<stage, outer, lwip, flags, expired, report>>

\* The probe's own state, and that of the files it works on.
ProbeTypeOK ==
    /\ TypeOK
    /\ stage \in {"off", "socket", "send", "response", "netif", "udp",
                  "udp_loop", "tcp", "tcp_loop", "cleanup", "close"}
    /\ stage /= "off" => pc = "ready"
    /\ network \in 0..3 /\ socket_id \in BOOLEAN
    /\ netif \in BOOLEAN /\ udp \in BOOLEAN /\ tcp \in BOOLEAN
    /\ pcb \in {"none", "new", "syn", "open", "closing"}
    /\ echo_received \in BOOLEAN /\ tcp_connected \in BOOLEAN
    /\ tcp_received \in BOOLEAN /\ tcp_closed \in BOOLEAN
    /\ tcp_failed \in BOOLEAN /\ expired \in BOOLEAN
    /\ verdict \in {"none", "approved", "rejected"}
    /\ echoes \subseteq {"udp", "tcp"}

ProbeInit ==
    /\ Init
    /\ stage = "off" /\ network = 0 /\ socket_id = FALSE
    /\ netif = FALSE /\ udp = FALSE /\ tcp = FALSE /\ pcb = "none"
    /\ echo_received = FALSE /\ tcp_connected = FALSE /\ tcp_received = FALSE
    /\ tcp_closed = FALSE /\ tcp_failed = FALSE /\ expired = FALSE
    /\ verdict = "none" /\ echoes = {}

-----------------------------------------------------------------------------
(* run_probe and send_handshake_and_ip_probe                               *)

\* peer_alloc or wireguard_peer_init fails: the run ends without a network.
RejectPeer == stage = "off" /\ EndRun /\ UNCHANGED probeVars

\* Each of the three steps may fail, and leaves what the ones before it did.
initialize_network ==
    /\ pc = "ready" /\ stage = "off"
    /\ network' \in 0..3
    /\ stage' = IF network' = 3 THEN "socket" ELSE "close"
    /\ verdict' = "none" /\ echoes' = {}
    /\ UNCHANGED <<vars, socket_id, lwip, flags, expired>>

\* An exit of send_handshake_and_ip_probe, which closes its socket.
Abandon ==
    /\ socket_id' = FALSE /\ stage' = "close" /\ verdict' = "rejected"

\* Wi-Fi is off, the address does not parse, there is no socket; or there is.
OpenSocket ==
    /\ stage = "socket"
    /\ \/ socket_id' = TRUE /\ stage' = "send" /\ UNCHANGED verdict
       \/ Abandon
    /\ UNCHANGED <<vars, network, lwip, flags, expired, echoes>>

SendInitiation ==
    /\ stage = "send"
    /\ \/ stage' = "response" /\ UNCHANGED <<socket_id, verdict>>
       \/ Abandon
    /\ UNCHANGED <<vars, network, lwip, flags, expired, echoes>>

\* One recvfrom: an authentic response to this initiation, or the end.
AwaitResponse ==
    /\ stage = "response"
    /\ \/ stage' = "netif" /\ UNCHANGED <<socket_id, verdict>>
       \/ Abandon
    /\ UNCHANGED <<vars, network, lwip, flags, expired, echoes>>

-----------------------------------------------------------------------------
(* send_lwip_echo                                                          *)

\* Mutant of AddNetif: the context is not cleared.
AddNetifKeepsContext ==
    /\ stage = "netif"
    /\ \/ /\ netif' = TRUE /\ stage' = "udp"
          /\ UNCHANGED <<socket_id, verdict>>
       \/ Abandon /\ UNCHANGED netif
    /\ UNCHANGED <<vars, network, udp, tcp, pcb, flags, expired, echoes>>

\* The memset of the context, lwip_init on the first run, netif_add.
AddNetif ==
    /\ stage = "netif"
    /\ echo_received' = FALSE /\ tcp_connected' = FALSE
    /\ tcp_received' = FALSE /\ tcp_closed' = FALSE /\ tcp_failed' = FALSE
    /\ udp' = FALSE /\ tcp' = FALSE
    /\ \/ /\ netif' = TRUE /\ stage' = "udp"
          /\ UNCHANGED <<socket_id, verdict>>
       \/ Abandon /\ UNCHANGED netif
    /\ UNCHANGED <<vars, network, pcb, expired, echoes>>

\* udp_new, bind, connect, the packet and udp_send: errors -41 to -45.
SendEcho ==
    /\ stage = "udp"
    /\ \/ udp' = TRUE /\ stage' = "udp_loop" /\ UNCHANGED verdict
       \/ udp' \in BOOLEAN /\ stage' = "cleanup" /\ verdict' = "rejected"
    /\ expired' = FALSE
    /\ UNCHANGED <<vars, outer, netif, tcp, pcb, flags, echoes>>

\* The conditions of the two receive loops.
UdpLooping == stage = "udp_loop" /\ ~echo_received /\ ~expired

TcpLooping ==
    /\ stage = "tcp_loop" /\ ~expired /\ ~tcp_failed
    /\ ~(tcp_received /\ tcp_closed)

GoOn == UNCHANGED <<stage, verdict>>

GiveUpEcho == stage' = "cleanup" /\ verdict' = "rejected"

\* lwip_process_transport returns an error: any datagram that is not a fresh
\* authentic packet from the gateway ends the run, in either loop.
RejectDatagram ==
    /\ UdpLooping \/ TcpLooping
    /\ GiveUpEcho
    /\ UNCHANGED <<vars, outer, lwip, flags, expired, echoes>>

\* Mutant of EndUdpLoop: without the deadline.
EndUdpLoopOnEcho ==
    /\ stage = "udp_loop" /\ echo_received
    /\ stage' = "tcp" /\ UNCHANGED verdict
    /\ UNCHANGED <<vars, outer, lwip, flags, expired, echoes>>

EndUdpLoop ==
    /\ stage = "udp_loop"
    /\ \/ echo_received /\ stage' = "tcp" /\ UNCHANGED verdict
       \/ ~echo_received /\ expired /\ GiveUpEcho
    /\ UNCHANGED <<vars, outer, lwip, flags, expired, echoes>>

\* lwip_echo_received with the expected source and payload; anything else
\* leaves the context as it was.
lwip_echo_received ==
    /\ UdpLooping
    /\ echo_received' = TRUE /\ echoes' = echoes \cup {"udp"}
    /\ GoOn
    /\ UNCHANGED <<vars, outer, lwip, tcp_connected, tcp_received, tcp_closed,
                   tcp_failed, expired>>

\* tcp_new (-47), tcp_bind (-47) and tcp_connect (-48).
OpenTcp ==
    /\ stage = "tcp"
    /\ \/ tcp' = TRUE /\ pcb' = "syn" /\ stage' = "tcp_loop" /\ UNCHANGED verdict
       \/ tcp' = TRUE /\ pcb' = "new" /\ GiveUpEcho
       \/ UNCHANGED <<tcp, pcb>> /\ GiveUpEcho
    /\ expired' = FALSE
    /\ UNCHANGED <<vars, outer, netif, udp, flags, echoes>>

\* tcp_write or tcp_output may refuse the request.
lwip_tcp_connected ==
    /\ TcpLooping /\ pcb = "syn"
    /\ pcb' = "open"
    /\ \/ tcp_connected' = TRUE /\ UNCHANGED tcp_failed
       \/ tcp_failed' = TRUE /\ UNCHANGED tcp_connected
    /\ GoOn
    /\ UNCHANGED <<vars, outer, netif, udp, tcp, echo_received, tcp_received,
                   tcp_closed, expired, echoes>>

\* Data: the whole echo, or anything else, which fails the run.
TcpData ==
    /\ TcpLooping /\ pcb = "open"
    /\ \/ /\ tcp_received' = TRUE /\ echoes' = echoes \cup {"tcp"}
          /\ UNCHANGED tcp_failed
       \/ tcp_failed' = TRUE /\ UNCHANGED <<tcp_received, echoes>>
    /\ GoOn
    /\ UNCHANGED <<vars, outer, lwip, echo_received, tcp_connected, tcp_closed,
                   expired>>

\* The peer's FIN: tcp_close, and lwIP keeps the pcb for the last ACK.
TcpFin ==
    /\ TcpLooping /\ pcb = "open"
    /\ tcp_closed' = TRUE /\ tcp' = FALSE /\ pcb' = "closing"
    /\ GoOn
    /\ UNCHANGED <<vars, outer, netif, udp, echo_received, tcp_connected,
                   tcp_received, tcp_failed, expired, echoes>>

\* External: the last ACK arrives, and no callback is called.
LastAck ==
    /\ TcpLooping /\ pcb = "closing"
    /\ pcb' = "none"
    /\ GoOn
    /\ UNCHANGED <<vars, outer, netif, udp, tcp, flags, expired, echoes>>

\* Mutant of lwip_tcp_error: the context keeps the freed pcb.
lwip_tcp_error_keeps_pcb ==
    /\ TcpLooping /\ pcb \in {"syn", "open", "closing"}
    /\ pcb' = "none"
    /\ tcp_failed' = TRUE
    /\ GoOn
    /\ UNCHANGED <<vars, outer, netif, udp, tcp, echo_received, tcp_connected,
                   tcp_received, tcp_closed, expired, echoes>>

\* A reset, or lwIP gives up: it has freed the pcb when it calls back.
lwip_tcp_error ==
    /\ TcpLooping /\ pcb \in {"syn", "open", "closing"}
    /\ pcb' = "none"
    /\ tcp' = FALSE /\ tcp_failed' = TRUE
    /\ GoOn
    /\ UNCHANGED <<vars, outer, netif, udp, echo_received, tcp_connected,
                   tcp_received, tcp_closed, expired, echoes>>

EndTcpLoop ==
    /\ stage = "tcp_loop" /\ ~TcpLooping
    /\ stage' = "cleanup"
    /\ verdict' = IF tcp_connected /\ tcp_received /\ ~tcp_failed
                  THEN "approved" ELSE "rejected"
    /\ UNCHANGED <<vars, outer, lwip, flags, expired, echoes>>

\* tcp_abort, udp_remove, netif_remove (lwIP aborts what is still bound to
\* the address), then the outer socket.  The context goes out of scope.
Cleanup ==
    /\ stage = "cleanup"
    /\ tcp' = FALSE /\ udp' = FALSE /\ netif' = FALSE /\ pcb' = "none"
    /\ socket_id' = FALSE
    /\ stage' = "close"
    /\ UNCHANGED <<vars, network, flags, expired, report>>

\* cleanup_network undoes as much as initialize_network did.
cleanup_network ==
    /\ stage = "close"
    /\ network' = 0 /\ stage' = "off"
    /\ EndRun
    /\ UNCHANGED <<socket_id, lwip, flags, expired, report>>

-----------------------------------------------------------------------------
(* External: the clock, and a crash, which takes the process with it.      *)

Expire ==
    /\ stage \in {"udp_loop", "tcp_loop"} /\ ~expired
    /\ expired' = TRUE
    /\ UNCHANGED <<vars, stage, outer, lwip, flags, report>>

CrashProbe ==
    /\ Crash
    /\ stage' = "off" /\ network' = 0 /\ socket_id' = FALSE
    /\ netif' = FALSE /\ udp' = FALSE /\ tcp' = FALSE /\ pcb' = "none"
    /\ echo_received' = FALSE /\ tcp_connected' = FALSE
    /\ tcp_received' = FALSE /\ tcp_closed' = FALSE /\ tcp_failed' = FALSE
    /\ expired' = FALSE /\ verdict' = "none" /\ echoes' = {}

-----------------------------------------------------------------------------
FileStep == run_probe /\ UNCHANGED probeVars

NetworkStep ==
    \/ RejectPeer \/ initialize_network \/ OpenSocket \/ SendInitiation
    \/ AwaitResponse \/ AddNetif \/ SendEcho \/ EndUdpLoop \/ OpenTcp
    \/ EndTcpLoop \/ Cleanup \/ cleanup_network

Datagram ==
    \/ RejectDatagram \/ lwip_echo_received \/ lwip_tcp_connected
    \/ TcpData \/ TcpFin \/ LastAck \/ lwip_tcp_error

ProbeNext ==
    \/ FileStep \/ NetworkStep \/ Datagram \/ Expire \/ CrashProbe
    \/ EditConfig /\ UNCHANGED probeVars

allVars == <<vars, probeVars>>

ProbeSpec == ProbeInit /\ [][ProbeNext]_allVars

\* Every call of a run returns, recvfrom after its timeout at the latest, and
\* the clock reaches every deadline; nothing about what arrives.  Assumed: the
\* setsockopt of the timeouts, whose results the code ignores, succeed.
ProbeFairness ==
    /\ WF_allVars(FileStep /\ pc /= "idle") /\ WF_allVars(NetworkStep)
    /\ WF_allVars(Expire)

ProbeFairSpec == ProbeSpec /\ ProbeFairness

-----------------------------------------------------------------------------
NothingLeaks ==
    pc /= "ready" =>
        /\ stage = "off" /\ network = 0 /\ ~socket_id
        /\ ~netif /\ ~udp /\ ~tcp /\ pcb = "none"

NoDanglingPcb == tcp => pcb \in {"new", "syn", "open"}

\* What a run acquires it releases, and once: a run that ends, wherever it
\* fails, has given back the network module, the outer socket, the netif and
\* both pcbs (the next run binds the same ports); and context.tcp points to
\* a pcb that lwIP still has, so the cleanup never aborts one that a reset, a
\* timeout or the close after a FIN has taken away.
ReleasedOnce == NothingLeaks /\ NoDanglingPcb

\* The report "APROVADO" means that this very run saw both echoes, whatever
\* an earlier run saw.
ApprovedMeansEchoes == verdict = "approved" => echoes = {"udp", "tcp"}

\* Every run of the probe ends, however the gateway behaves.
ProbeEnds == pc /= "idle" ~> pc = "idle"
=============================================================================
