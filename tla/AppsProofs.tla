----------------------------- MODULE AppsProofs -----------------------------
(***************************************************************************)
(* TLAPS proofs about the diagnostic applications, for any number of keys, *)
(* runs and clock units: the handshake probe with its identity files, the  *)
(* network lab, the crypto probe and the stamps of the initiations.        *)
(***************************************************************************)
EXTENDS Probe, NetworkLab, CryptoProbe, Stamps, TLAPS

-----------------------------------------------------------------------------
(* The identity files across crashes.                                      *)

\* Where run_probe is once it has read or published its key.
Making == {"random", "tmp_open", "tmp_write", "tmp_sync", "rename"}

Keyed == {"pub_open", "pub_write", "pub_sync", "config", "conf_open",
          "conf_write", "conf_sync", "ready"}

\* A key reaches wg-private.key only whole and synced: the temporary file is
\* complete before the sync and clean before the rename, so the private file
\* is never dirty.
KeyWhole ==
    /\ KeyNeverTorn /\ "key" \notin dirty
    /\ pc \in Keyed \cup (Making \ {"random"}) => private_key \in Keys
    /\ pc \in {"tmp_sync", "rename"} => temporary = private_key
    /\ pc = "rename" => "tmp" \notin dirty

\* A new key is made only where there is none, and the one that is published
\* is the one in the file.
KeyKept ==
    /\ (pc \in Making /\ ~blind) => private_file = Absent
    /\ pc \in Keyed => private_file = private_key
    /\ pc \in Keyed \ {"pub_open", "pub_write"} => public_file = private_key
    /\ AnnouncedKeyLives

\* What the user has written is on the disk, and no template is under way.
ConfigSettled ==
    /\ config = "filled" => "conf" \notin dirty
    /\ pc = "conf_write" => config /= "filled"

IdentityInv == TypeOK /\ KeyWhole /\ KeyKept /\ ConfigSettled

-----------------------------------------------------------------------------
(* The network half of the probe.                                          *)

\* What is open at each stage.
HeldByStage ==
    /\ stage = "off" => network = 0
    /\ stage \in {"off", "close"} => ~socket_id
    /\ stage \in {"off", "socket", "send", "response", "netif", "close"} =>
          ~netif /\ ~udp
    /\ stage \notin {"tcp_loop", "cleanup"} => ~tcp /\ pcb = "none"
    /\ NoDanglingPcb

\* From the memset of the context on, its flags are those of this run.
EchoesOfRun ==
    /\ stage \in {"udp", "udp_loop", "tcp", "tcp_loop"} =>
          /\ echo_received => "udp" \in echoes
          /\ tcp_received => "tcp" \in echoes
    /\ stage \in {"tcp", "tcp_loop"} => echo_received
    /\ ApprovedMeansEchoes

\* ProbeTypeOK in two parts, the second with the Boolean variables.
StageType ==
    /\ stage \in {"off", "socket", "send", "response", "netif", "udp",
                  "udp_loop", "tcp", "tcp_loop", "cleanup", "close"}
    /\ stage /= "off" => pc = "ready"
    /\ network \in 0..3 /\ pcb \in {"none", "new", "syn", "open", "closing"}
    /\ verdict \in {"none", "approved", "rejected"}
    /\ echoes \subseteq {"udp", "tcp"}

FlagsType ==
    /\ socket_id \in BOOLEAN /\ netif \in BOOLEAN /\ udp \in BOOLEAN
    /\ tcp \in BOOLEAN /\ echo_received \in BOOLEAN
    /\ tcp_connected \in BOOLEAN /\ tcp_received \in BOOLEAN
    /\ tcp_closed \in BOOLEAN /\ tcp_failed \in BOOLEAN /\ expired \in BOOLEAN

ProbeInv == StageType /\ FlagsType /\ HeldByStage /\ EchoesOfRun

-----------------------------------------------------------------------------
(* The network lab.                                                        *)

Tests == {"control", "baseline", "stun"}

Transient == {"resolver", "socket", "epoll", "dump"}

LabTypeOK ==
    /\ at \in {"start", "pgf", "font", "report", "module", "net", "netctl",
               "resolver", "resolving", "pton", "socket", "nonblocking",
               "connect", "epoll-create", "epoll-control", "epoll-wait",
               "socket-error", "dump", "timeout", "sendto", "recvfrom",
               "dump_read", "raw", "raw_close", "log", "menu", "exit",
               "exited"}
    /\ open \subseteq Screen \cup Network \cup Transient \cup {"log"}
    /\ target \in Tests
    /\ connection \in {"none", "syn", "up", "refused", "reset"}
    /\ results \in [Tests -> {"none", "ok", "failed"}]

\* What may be open at each point besides the screen and the network.
OpenByPoint ==
    /\ at = "start" => open = {}
    /\ at = "pgf" => open = {"vita2d"}
    /\ at = "font" => open = {"vita2d", "pgf"}
    /\ at \in {"report", "menu", "exit", "exited"} => "log" \notin open
    /\ at = "exited" => open = {}
    /\ "resolver" \in open => at = "resolving"
    /\ "socket" \in open =>
          at \in {"nonblocking", "connect", "epoll-create", "epoll-control",
                  "epoll-wait", "socket-error", "timeout", "sendto",
                  "recvfrom", "raw_close"}
    /\ "epoll" \in open => at \in {"epoll-control", "epoll-wait",
                                   "socket-error"}
    /\ "dump" \in open =>
          /\ target = "stun"
          /\ at \in {"resolver", "resolving", "socket", "nonblocking",
                     "connect", "epoll-create", "epoll-control", "epoll-wait",
                     "socket-error", "timeout", "sendto", "recvfrom",
                     "dump_read"}
    /\ "memory" \in open <=> "net" \in open

\* A connection exists only while a TCP test waits for it, and one that is
\* or was established is evidence for the target.
Evident ==
    /\ connection /= "none" =>
          at \in {"epoll-create", "epoll-control", "epoll-wait",
                  "socket-error"}
    /\ connection \in {"up", "reset"} => target \in evidence
    /\ at \in {"dump", "timeout", "sendto", "recvfrom"} => target = "stun"
    /\ LabReportsTrue

LabInv == LabTypeOK /\ ~overrun /\ OpenByPoint /\ Evident

-----------------------------------------------------------------------------
(* The crypto probe and the stamps.                                        *)

\* Zeroes are never drawn without the error being remembered.
CryptoInv ==
    /\ g_random_error \in BOOLEAN /\ zeroes \in BOOLEAN
    /\ zeroes => g_random_error
    /\ crypto_at = "start" => result = "none"
    /\ ApprovedMeansRandom

\* The gateway's greatest stamp carries the second of the initiation it
\* accepted last, which is not in the future.
StampInv ==
    /\ wall \in Nat /\ process \in Nat /\ accepted \in 0..wall
    /\ greatest[1] = Second(accepted)
    /\ RefusedWithinSecond

-----------------------------------------------------------------------------
(* Proofs about the identity files.                                        *)

\* No key is the mark of a missing or of a torn file.
LEMMA KeyFacts ==
    /\ MaxKeys \in Nat \ {0} /\ Torn \notin Keys /\ Absent \notin Keys
    /\ Torn /= Absent /\ Contents = Keys \cup {Absent, Torn}
BY KeysAssumption DEF Torn, Absent, Keys, Contents

\* Nothing is there before the first run.
LEMMA InitIdentityInv == Init => IdentityInv
<1> SUFFICES ASSUME Init PROVE IdentityInv
  OBVIOUS
<1>1. TypeOK
  <2>1. 1 \in 1..(MaxKeys + 1)
    BY KeyFacts
  <2>2. {private_file, temporary, public_file} \subseteq Contents
    BY KeyFacts DEF Init
  <2> QED BY <2>1, <2>2 DEF Init, TypeOK
<1>2. KeyWhole /\ KeyKept /\ ConfigSettled
  BY KeyFacts DEF Init, KeyWhole, KeyKept, ConfigSettled, KeyNeverTorn,
     AnnouncedKeyLives, Making, Keyed
<1> QED BY <1>1, <1>2 DEF IdentityInv

\* load_or_create_private_key.
LEMMA KeyStepKeeps ==
    ASSUME IdentityInv,
           \/ Start \/ OpenKey \/ StatKey \/ GenerateKey \/ OpenTemporary
           \/ WriteTemporary \/ SyncTemporary \/ RenameKey
    PROVE  IdentityInv'
<1> USE KeyFacts DEF IdentityInv, GiveUp, Goto, files, history, Making, Keyed,
        KeyNeverTorn, AnnouncedKeyLives
<1>1. CASE Start
  <2>1. TypeOK'
    BY <1>1 DEF Start, TypeOK
  <2>2. KeyWhole' /\ KeyKept' /\ ConfigSettled'
    BY <1>1 DEF Start, KeyWhole, KeyKept, ConfigSettled
  <2> QED BY <2>1, <2>2
<1>2. CASE OpenKey
  <2>1. TypeOK'
    BY <1>2 DEF OpenKey, TypeOK
  <2>2. KeyWhole' /\ KeyKept' /\ ConfigSettled'
    BY <1>2 DEF OpenKey, KeyWhole, KeyKept, ConfigSettled
  <2> QED BY <2>1, <2>2
<1>3. CASE StatKey
  <2>1. TypeOK'
    BY <1>3 DEF StatKey, TypeOK
  <2>2. KeyWhole' /\ ConfigSettled'
    BY <1>3 DEF StatKey, KeyWhole, ConfigSettled
  <2>3. KeyKept'
    BY <1>3 DEF StatKey, KeyKept, TypeOK
  <2> QED BY <2>1, <2>2, <2>3
<1>4. CASE GenerateKey
  <2>1. TypeOK'
    BY <1>4 DEF GenerateKey, TypeOK, Keys
  <2>2. KeyWhole' /\ KeyKept' /\ ConfigSettled'
    <3>1. nextKey <= MaxKeys => nextKey \in Keys
      BY DEF TypeOK, Keys
    <3> QED BY <1>4, <3>1 DEF GenerateKey, KeyWhole, KeyKept, ConfigSettled
  <2> QED BY <2>1, <2>2
<1>5. CASE OpenTemporary
  <2>1. TypeOK'
    BY <1>5 DEF OpenTemporary, TypeOK, Paths
  <2>2. KeyWhole' /\ KeyKept' /\ ConfigSettled'
    BY <1>5 DEF OpenTemporary, KeyWhole, KeyKept, ConfigSettled
  <2> QED BY <2>1, <2>2
<1>6. CASE WriteTemporary
  <2>1. TypeOK'
    BY <1>6 DEF WriteTemporary, TypeOK, KeyWhole
  <2>2. KeyWhole' /\ KeyKept' /\ ConfigSettled'
    BY <1>6 DEF WriteTemporary, KeyWhole, KeyKept, ConfigSettled
  <2> QED BY <2>1, <2>2
<1>7. CASE SyncTemporary
  <2>1. TypeOK'
    BY <1>7 DEF SyncTemporary, TypeOK
  <2>2. KeyWhole' /\ KeyKept' /\ ConfigSettled'
    BY <1>7 DEF SyncTemporary, KeyWhole, KeyKept, ConfigSettled
  <2> QED BY <2>1, <2>2
<1>8. CASE RenameKey
  <2>1. TypeOK'
    BY <1>8 DEF RenameKey, TypeOK, KeyWhole
  <2>2. KeyWhole' /\ ConfigSettled'
    BY <1>8 DEF RenameKey, KeyWhole, ConfigSettled
  <2>3. KeyKept'
    BY <1>8 DEF RenameKey, KeyKept, KeyWhole, TypeOK
  <2> QED BY <2>1, <2>2, <2>3
<1> QED BY <1>1, <1>2, <1>3, <1>4, <1>5, <1>6, <1>7, <1>8

\* export_public_key and load_peer_config.
LEMMA ConfigStepKeeps ==
    ASSUME IdentityInv,
           \/ OpenPublic \/ WritePublic \/ SyncPublic \/ LoadConfig
           \/ CreateTemplate \/ WriteTemplate \/ SyncTemplate
    PROVE  IdentityInv'
<1> USE KeyFacts DEF IdentityInv, GiveUp, Goto, files, history, Making, Keyed,
        KeyNeverTorn, AnnouncedKeyLives
<1>1. CASE OpenPublic \/ WritePublic
  <2>1. TypeOK'
    BY <1>1 DEF OpenPublic, WritePublic, TypeOK, Paths, KeyWhole
  <2>2. KeyWhole' /\ KeyKept' /\ ConfigSettled'
    BY <1>1 DEF OpenPublic, WritePublic, KeyWhole, KeyKept, ConfigSettled
  <2> QED BY <2>1, <2>2
<1>2. CASE SyncPublic
  <2>1. TypeOK'
    BY <1>2 DEF SyncPublic, TypeOK, KeyWhole
  <2>2. KeyWhole' /\ KeyKept' /\ ConfigSettled'
    BY <1>2 DEF SyncPublic, KeyWhole, KeyKept, ConfigSettled
  <2> QED BY <2>1, <2>2
<1>3. CASE LoadConfig
  <2>1. TypeOK'
    BY <1>3 DEF LoadConfig, TypeOK
  <2>2. KeyWhole' /\ KeyKept' /\ ConfigSettled'
    BY <1>3 DEF LoadConfig, KeyWhole, KeyKept, ConfigSettled
  <2> QED BY <2>1, <2>2
<1>4. CASE CreateTemplate \/ WriteTemplate \/ SyncTemplate
  <2>1. TypeOK'
    BY <1>4 DEF CreateTemplate, WriteTemplate, SyncTemplate, TypeOK, Paths
  <2>2. KeyWhole' /\ KeyKept'
    BY <1>4 DEF CreateTemplate, WriteTemplate, SyncTemplate, KeyWhole, KeyKept
  <2>3. ConfigSettled'
    BY <1>4 DEF CreateTemplate, WriteTemplate, SyncTemplate, ConfigSettled
  <2> QED BY <2>1, <2>2, <2>3
<1> QED BY <1>1, <1>2, <1>3, <1>4

\* The end of a run, a crash at any point, and the user.
LEMMA CrashKeeps ==
    ASSUME IdentityInv, EndRun \/ Crash \/ EditConfig PROVE IdentityInv'
<1> USE KeyFacts DEF IdentityInv, GiveUp, files, history, Making, Keyed,
        KeyNeverTorn, AnnouncedKeyLives
<1>1. CASE EndRun \/ EditConfig
  <2>1. TypeOK'
    BY <1>1 DEF EndRun, EditConfig, TypeOK
  <2>2. KeyWhole' /\ KeyKept' /\ ConfigSettled'
    BY <1>1 DEF EndRun, EditConfig, KeyWhole, KeyKept, ConfigSettled
  <2> QED BY <2>1, <2>2
<1>2. CASE Crash
  <2>1. private_file' = private_file
    BY <1>2 DEF Crash, Survives, KeyWhole
  <2>2. TypeOK'
    BY <1>2, <2>1 DEF Crash, Survives, TypeOK
  <2>3. KeyWhole' /\ KeyKept' /\ ConfigSettled'
    BY <1>2, <2>1 DEF Crash, Survives, KeyWhole, KeyKept, ConfigSettled
  <2> QED BY <2>2, <2>3
<1> QED BY <1>1, <1>2

\* The invariant of the identity files, over any number of runs and crashes.
THEOREM IdentityInvariant == Spec => []IdentityInv
<1>1. IdentityInv /\ [Next]_vars => IdentityInv'
  <2> SUFFICES ASSUME IdentityInv, [Next]_vars PROVE IdentityInv'
    OBVIOUS
  <2>1. CASE UNCHANGED vars
    BY <2>1 DEF vars, files, history, IdentityInv, TypeOK, KeyWhole, KeyKept,
           ConfigSettled, KeyNeverTorn, AnnouncedKeyLives
  <2> QED BY <2>1, KeyStepKeeps, ConfigStepKeeps, CrashKeeps
          DEF Next, run_probe
<1> QED BY <1>1, InitIdentityInv, PTL DEF Spec

\* No step of the files touches the network half of a run, and every step of
\* the whole probe is a step of the files or leaves them alone.
LEMMA ProbeStepIsFileStep == ProbeNext => [Next]_vars
<1> SUFFICES ASSUME ProbeNext PROVE [Next]_vars
  OBVIOUS
<1>1. CASE FileStep
  BY <1>1 DEF FileStep, Next
<1>2. CASE NetworkStep
  BY <1>2 DEF NetworkStep, RejectPeer, initialize_network, OpenSocket,
     SendInitiation, AwaitResponse, AddNetif, SendEcho, EndUdpLoop, OpenTcp,
     EndTcpLoop, Cleanup, cleanup_network, Next
<1>3. CASE Datagram \/ Expire
  BY <1>3 DEF Datagram, RejectDatagram, lwip_echo_received,
     lwip_tcp_connected, TcpData, TcpFin, LastAck, lwip_tcp_error, Expire
<1>4. CASE CrashProbe \/ EditConfig
  BY <1>4 DEF CrashProbe, Next
<1> QED BY <1>1, <1>2, <1>3, <1>4 DEF ProbeNext

\* The whole probe implements the specification of its files.
THEOREM ProbeImplementsIdentity == ProbeSpec => Spec
<1>1. ProbeInit => Init
  BY DEF ProbeInit
<1>2. [ProbeNext]_allVars => [Next]_vars
  BY ProbeStepIsFileStep DEF allVars
<1> QED BY <1>1, <1>2, PTL DEF ProbeSpec, Spec

\* wg-private.key is never torn, wherever the console loses power.
THEOREM KeyIsNeverTorn == ProbeSpec => []KeyNeverTorn
<1>1. IdentityInv => KeyNeverTorn
  BY DEF IdentityInv, KeyWhole
<1> QED BY <1>1, IdentityInvariant, ProbeImplementsIdentity, PTL

\* A key whose public half was announced stays in wg-private.key, unless
\* open and stat both failed on a file that is there.
THEOREM AnnouncedKeyAlwaysLives == ProbeSpec => []AnnouncedKeyLives
<1>1. IdentityInv => AnnouncedKeyLives
  BY DEF IdentityInv, KeyKept
<1> QED BY <1>1, IdentityInvariant, ProbeImplementsIdentity, PTL

\* A run talks to the gateway with the key that is in both files.
THEOREM CopiesAlwaysAgree == ProbeSpec => []CopiesAgree
<1>1. IdentityInv => CopiesAgree
  BY DEF IdentityInv, KeyKept, CopiesAgree, Keyed
<1> QED BY <1>1, IdentityInvariant, ProbeImplementsIdentity, PTL

\* The template never replaces what the user wrote, not even across a crash.
THEOREM UserConfigAlwaysKept == ProbeSpec => UserConfigKept
<1>1. IdentityInv /\ [Next]_vars =>
        [config = "filled" => config' = "filled"]_vars
  BY DEF IdentityInv, ConfigSettled, Next, run_probe, Start, OpenKey, StatKey,
     GenerateKey, OpenTemporary, WriteTemporary, SyncTemporary, RenameKey,
     OpenPublic, WritePublic, SyncPublic, LoadConfig, CreateTemplate,
     WriteTemplate, SyncTemplate, EndRun, Crash, EditConfig, Survives, files
<1> QED BY <1>1, IdentityInvariant, ProbeImplementsIdentity, PTL
        DEF Spec, UserConfigKept

-----------------------------------------------------------------------------
(* Proofs about the network half of the probe.                             *)

\* The steps on the files, a crash and the user: the network half is off.
LEMMA FilesKeepProbeInv ==
    ASSUME ProbeInv,
           FileStep \/ CrashProbe \/ (EditConfig /\ UNCHANGED probeVars)
    PROVE  ProbeInv'
<1> USE DEF ProbeInv
<1>1. CASE FileStep \/ (EditConfig /\ UNCHANGED probeVars)
  <2>1. pc /= "ready" /\ UNCHANGED probeVars
    BY <1>1 DEF FileStep, run_probe, Start, OpenKey, StatKey, GenerateKey,
       OpenTemporary, WriteTemporary, SyncTemporary, RenameKey, OpenPublic,
       WritePublic, SyncPublic, LoadConfig, CreateTemplate, WriteTemplate,
       SyncTemplate, EditConfig
  <2>2. StageType' /\ FlagsType'
    BY <2>1 DEF probeVars, outer, lwip, flags, report, StageType, FlagsType
  <2>3. HeldByStage' /\ EchoesOfRun'
    BY <2>1 DEF probeVars, outer, lwip, flags, report, HeldByStage,
       EchoesOfRun, NoDanglingPcb, ApprovedMeansEchoes
  <2> QED BY <2>2, <2>3
<1>2. CASE CrashProbe
  <2>0. FlagsType'
    BY <1>2, Zenon DEF CrashProbe, FlagsType
  <2>1. StageType'
    BY <1>2 DEF CrashProbe, StageType
  <2>2. HeldByStage' /\ EchoesOfRun'
    BY <1>2 DEF CrashProbe, HeldByStage, EchoesOfRun, NoDanglingPcb,
       ApprovedMeansEchoes
  <2> QED BY <2>0, <2>1, <2>2
<1> QED BY <1>1, <1>2

\* run_probe and send_handshake_and_ip_probe, up to the handshake response.
LEMMA HandshakeKeepsProbeInv ==
    ASSUME ProbeInv,
           \/ RejectPeer \/ initialize_network \/ OpenSocket
           \/ SendInitiation \/ AwaitResponse
    PROVE  ProbeInv'
<1> USE DEF ProbeInv, outer, lwip, flags, report, vars
<1>1. CASE RejectPeer
  <2> USE <1>1 DEF RejectPeer, probeVars
  <2>0. FlagsType'
    BY Zenon DEF FlagsType
  <2>1. StageType'
    BY DEF StageType
  <2>2. HeldByStage' /\ EchoesOfRun'
    BY DEF HeldByStage, EchoesOfRun, NoDanglingPcb, ApprovedMeansEchoes
  <2> QED BY <2>0, <2>1, <2>2
<1>2. CASE initialize_network
  <2> USE <1>2 DEF initialize_network
  <2>0. FlagsType'
    BY Zenon DEF FlagsType
  <2>1. StageType'
    BY DEF StageType
  <2>2. HeldByStage' /\ EchoesOfRun'
    BY DEF HeldByStage, EchoesOfRun, NoDanglingPcb, ApprovedMeansEchoes
  <2> QED BY <2>0, <2>1, <2>2
<1>3. CASE OpenSocket \/ SendInitiation \/ AwaitResponse
  <2> USE <1>3 DEF OpenSocket, SendInitiation, AwaitResponse, Abandon
  <2>0. FlagsType'
    BY Zenon DEF FlagsType
  <2>1. StageType'
    BY DEF StageType
  <2>2. HeldByStage' /\ EchoesOfRun'
    BY DEF HeldByStage, EchoesOfRun, NoDanglingPcb, ApprovedMeansEchoes
  <2> QED BY <2>0, <2>1, <2>2
<1> QED BY <1>1, <1>2, <1>3

\* send_lwip_echo, and the release of the network.
LEMMA EchoKeepsProbeInv ==
    ASSUME ProbeInv,
           \/ AddNetif \/ SendEcho \/ EndUdpLoop \/ OpenTcp \/ EndTcpLoop
           \/ Cleanup \/ cleanup_network
    PROVE  ProbeInv'
<1> USE DEF ProbeInv, outer, lwip, flags, report, vars
<1>1. CASE AddNetif
  <2> USE <1>1 DEF AddNetif, Abandon
  <2>0. FlagsType'
    BY Zenon DEF FlagsType
  <2>1. StageType'
    BY DEF StageType
  <2>2. HeldByStage' /\ EchoesOfRun'
    BY DEF HeldByStage, EchoesOfRun, NoDanglingPcb, ApprovedMeansEchoes
  <2> QED BY <2>0, <2>1, <2>2
<1>2. CASE SendEcho
  <2> USE <1>2 DEF SendEcho
  <2>0. FlagsType'
    BY Zenon DEF FlagsType
  <2>1. StageType'
    BY DEF StageType
  <2>2. HeldByStage' /\ EchoesOfRun'
    BY DEF HeldByStage, EchoesOfRun, NoDanglingPcb, ApprovedMeansEchoes
  <2> QED BY <2>0, <2>1, <2>2
<1>3. CASE EndUdpLoop
  <2> USE <1>3 DEF EndUdpLoop, GiveUpEcho
  <2>0. FlagsType'
    BY Zenon DEF FlagsType
  <2>1. StageType'
    BY DEF StageType
  <2>2. HeldByStage' /\ EchoesOfRun'
    BY DEF HeldByStage, EchoesOfRun, NoDanglingPcb, ApprovedMeansEchoes
  <2> QED BY <2>0, <2>1, <2>2
<1>4. CASE OpenTcp
  <2> USE <1>4 DEF OpenTcp, GiveUpEcho
  <2>0. FlagsType'
    BY Zenon DEF FlagsType
  <2>1. StageType'
    BY DEF StageType
  <2>2. HeldByStage' /\ EchoesOfRun'
    BY DEF HeldByStage, EchoesOfRun, NoDanglingPcb, ApprovedMeansEchoes
  <2> QED BY <2>0, <2>1, <2>2
<1>5. CASE EndTcpLoop
  <2> USE <1>5 DEF EndTcpLoop
  <2>0. FlagsType'
    BY Zenon DEF FlagsType
  <2>1. StageType'
    BY DEF StageType
  <2>2. HeldByStage'
    BY DEF HeldByStage, NoDanglingPcb
  <2>3. EchoesOfRun'
    BY DEF EchoesOfRun, ApprovedMeansEchoes, StageType
  <2> QED BY <2>0, <2>1, <2>2, <2>3
<1>6. CASE Cleanup
  <2> USE <1>6 DEF Cleanup
  <2>0. FlagsType'
    BY Zenon DEF FlagsType
  <2>1. StageType'
    BY DEF StageType
  <2>2. HeldByStage' /\ EchoesOfRun'
    BY DEF HeldByStage, EchoesOfRun, NoDanglingPcb, ApprovedMeansEchoes
  <2> QED BY <2>0, <2>1, <2>2
<1>7. CASE cleanup_network
  <2> USE <1>7 DEF cleanup_network
  <2>0. FlagsType'
    BY Zenon DEF FlagsType
  <2>1. StageType'
    BY DEF StageType
  <2>2. HeldByStage' /\ EchoesOfRun'
    BY DEF HeldByStage, EchoesOfRun, NoDanglingPcb, ApprovedMeansEchoes
  <2> QED BY <2>0, <2>1, <2>2
<1> QED BY <1>1, <1>2, <1>3, <1>4, <1>5, <1>6, <1>7

\* What a datagram or the clock does in one of the two receive loops.
LEMMA DatagramKeepsProbeInv ==
    ASSUME ProbeInv, Datagram \/ Expire PROVE ProbeInv'
<1> USE DEF ProbeInv, outer, lwip, flags, report, vars,
        UdpLooping, TcpLooping, GoOn
<1>1. CASE RejectDatagram \/ Expire
  <2> USE <1>1 DEF RejectDatagram, GiveUpEcho, Expire
  <2>0. FlagsType'
    BY Zenon DEF FlagsType
  <2>1. StageType'
    BY DEF StageType
  <2>2. HeldByStage' /\ EchoesOfRun'
    BY DEF HeldByStage, EchoesOfRun, NoDanglingPcb, ApprovedMeansEchoes
  <2> QED BY <2>0, <2>1, <2>2
<1>2. CASE lwip_echo_received \/ TcpData
  <2> USE <1>2 DEF lwip_echo_received, TcpData
  <2>0. FlagsType'
    BY Zenon DEF FlagsType
  <2>1. StageType'
    BY DEF StageType
  <2>2. HeldByStage'
    BY DEF HeldByStage, NoDanglingPcb
  <2>3. EchoesOfRun'
    BY DEF EchoesOfRun, ApprovedMeansEchoes
  <2> QED BY <2>0, <2>1, <2>2, <2>3
<1>3. CASE lwip_tcp_connected \/ TcpFin \/ LastAck \/ lwip_tcp_error
  <2> USE <1>3 DEF lwip_tcp_connected, TcpFin, LastAck, lwip_tcp_error
  <2>0. FlagsType'
    BY Zenon DEF FlagsType
  <2>1. StageType'
    BY DEF StageType
  <2>2. HeldByStage' /\ EchoesOfRun'
    BY DEF HeldByStage, EchoesOfRun, NoDanglingPcb, ApprovedMeansEchoes
  <2> QED BY <2>0, <2>1, <2>2
<1> QED BY <1>1, <1>2, <1>3 DEF Datagram

\* The invariant of the handshake probe's network half.
THEOREM ProbeInvariant == ProbeSpec => []ProbeInv
<1>1. ProbeInit => ProbeInv
  <2> SUFFICES ASSUME ProbeInit PROVE ProbeInv
    OBVIOUS
  <2>1. FlagsType
    BY Zenon DEF ProbeInit, FlagsType
  <2>2. StageType
    BY DEF ProbeInit, StageType
  <2>3. HeldByStage /\ EchoesOfRun
    BY DEF ProbeInit, HeldByStage, EchoesOfRun, NoDanglingPcb,
       ApprovedMeansEchoes
  <2> QED BY <2>1, <2>2, <2>3 DEF ProbeInv
<1>2. ProbeInv /\ [ProbeNext]_allVars => ProbeInv'
  <2> SUFFICES ASSUME ProbeInv, [ProbeNext]_allVars PROVE ProbeInv'
    OBVIOUS
  <2>1. CASE UNCHANGED allVars
    <3> USE <2>1 DEF allVars, probeVars, outer, lwip, flags, report, vars,
                     ProbeInv
    <3>1. StageType' /\ FlagsType'
      BY DEF StageType, FlagsType
    <3> QED BY <3>1 DEF HeldByStage, EchoesOfRun, NoDanglingPcb,
            ApprovedMeansEchoes
  <2> QED BY <2>1, FilesKeepProbeInv, HandshakeKeepsProbeInv,
          EchoKeepsProbeInv, DatagramKeepsProbeInv DEF ProbeNext, NetworkStep
<1> QED BY <1>1, <1>2, PTL DEF ProbeSpec

\* Type correctness of the handshake probe, files and network together.
THEOREM ProbeTypeCorrect == ProbeSpec => []ProbeTypeOK
<1>1. IdentityInv /\ ProbeInv => ProbeTypeOK
  BY DEF IdentityInv, ProbeInv, StageType, FlagsType, ProbeTypeOK
<1> QED BY <1>1, IdentityInvariant, ProbeImplementsIdentity, ProbeInvariant,
        PTL

\* Whatever fails in send_handshake_and_ip_probe, the run releases the
\* network, its socket, the netif and both pcbs, and never aborts a pcb that
\* lwIP has already freed.
THEOREM AlwaysReleasedOnce == ProbeSpec => []ReleasedOnce
<1>1. ProbeInv => ReleasedOnce
  BY DEF ProbeInv, StageType, HeldByStage, ReleasedOnce, NothingLeaks
<1> QED BY <1>1, ProbeInvariant, PTL

\* "APROVADO" is reported only by a run that saw both of its own echoes.
THEOREM ApprovedAlwaysMeansEchoes == ProbeSpec => []ApprovedMeansEchoes
<1>1. ProbeInv => ApprovedMeansEchoes
  BY DEF ProbeInv, EchoesOfRun
<1> QED BY <1>1, ProbeInvariant, PTL

-----------------------------------------------------------------------------
(* Proofs about the crypto probe and the stamps.                           *)

\* The crypto probe reports "APROVADO" only for a run whose checks all passed
\* and whose random draws were all good, whatever an earlier run drew.
THEOREM ApprovedAlwaysMeansRandom == CryptoSpec => []ApprovedMeansRandom
<1>1. CryptoInit => CryptoInv
  BY DEF CryptoInit, CryptoInv, ApprovedMeansRandom
<1>2. CryptoInv /\ [CryptoNext]_cryptoVars => CryptoInv'
  <2> SUFFICES ASSUME CryptoInv, [CryptoNext]_cryptoVars PROVE CryptoInv'
    OBVIOUS
  <2> USE DEF CryptoInv, ApprovedMeansRandom
  <2>0. CASE CryptoStart
    BY <2>0 DEF CryptoStart
  <2>1. CASE KnownAnswers
    <3>1. zeroes' \in BOOLEAN /\ g_random_error' \in BOOLEAN
      BY <2>1, Zenon DEF KnownAnswers
    <3> QED BY <2>1, <3>1 DEF KnownAnswers
  <2>2. CASE DeviceInit \/ Initiation
    BY <2>2 DEF DeviceInit, Initiation, wireguard_random_bytes
  <2>3. CASE Verdict
    BY <2>3 DEF Verdict
  <2>4. ASSUME NEW b \in SUBSET {"START", "CROSS"}, CryptoButtons(b)
        PROVE  CryptoInv'
    BY <2>4 DEF CryptoButtons
  <2>5. CASE UNCHANGED cryptoVars
    BY <2>5 DEF cryptoVars
  <2> QED BY <2>0, <2>1, <2>2, <2>3, <2>4, <2>5 DEF CryptoNext, CryptoStep
<1>3. CryptoInv => ApprovedMeansRandom
  BY DEF CryptoInv
<1> QED BY <1>1, <1>2, <1>3, PTL DEF CryptoSpec

\* Seconds never run backwards.
LEMMA SecondMonotonic ==
    ASSUME NEW s \in Nat, NEW t \in Nat, s <= t
    PROVE  /\ Second(s) \in Nat /\ Second(t) \in Nat
           /\ Second(s) <= Second(t)
BY StampsAssumption DEF Second

\* wireguard_tai64n_now: an initiation is refused only within the second in
\* which another was accepted, for every resolution of the clocks and across
\* any number of relaunches, although the stamps themselves may go back.
THEOREM AlwaysRefusedWithinSecond == StampSpec => []RefusedWithinSecond
<1> USE StampsAssumption
<1>1. StampInit => StampInv
  BY SecondMonotonic DEF StampInit, StampInv, RefusedWithinSecond, Second
<1>2. StampInv /\ [StampNext]_stampVars => StampInv'
  <2> SUFFICES ASSUME StampInv, [StampNext]_stampVars PROVE StampInv'
    OBVIOUS
  <2> USE DEF StampInv, RefusedWithinSecond
  <2>1. CASE Initiate
    <3>1. /\ Second(accepted) \in Nat /\ Second(wall) \in Nat
          /\ Second(accepted) <= Second(wall)
      BY SecondMonotonic
    <3>2. CASE answered'
      BY <2>1, <3>2 DEF Initiate, wireguard_tai64n_now
    <3>3. CASE ~answered'
      <4>1. ~(Second(wall) > greatest[1])
        BY <2>1, <3>3 DEF Initiate, Later, wireguard_tai64n_now
      <4>2. Second(wall) = Second(accepted)
        BY <3>1, <4>1
      <4> QED BY <2>1, <3>3, <4>2 DEF Initiate
    <3> QED BY <3>2, <3>3
  <2>2. CASE ClockTick \/ Relaunch
    BY <2>2 DEF ClockTick, Relaunch
  <2>3. CASE UNCHANGED stampVars
    BY <2>3 DEF stampVars
  <2> QED BY <2>1, <2>2, <2>3 DEF StampNext
<1>3. StampInv => RefusedWithinSecond
  BY DEF StampInv
<1> QED BY <1>1, <1>2, <1>3, PTL DEF StampSpec

-----------------------------------------------------------------------------
(* Proofs about the network lab.                                           *)

\* What is acquired while it is not open is not acquired over anything.
LEMMA AcquiredOnce ==
    ASSUME NEW h, ~overrun, Acquire(h), h \cap open = {}
    PROVE  ~overrun' /\ open' = open \cup h
BY DEF Acquire

\* The end of a test, from any of its points: what the test had open is
\* released, and what is reported as good has its evidence.
LEMMA ReportKeeps ==
    ASSUME LabInv, NEW r \in {"ok", "failed"}, NEW h, Report(r, h),
           h \subseteq {"resolver", "socket", "epoll"},
           open \cap {"resolver", "socket", "epoll"} \subseteq h,
           at \notin {"start", "pgf", "font", "exited"},
           evidence \subseteq evidence', r = "ok" => target \in evidence'
    PROVE  LabInv'
<1> USE DEF LabInv, Report, Release, Tests
<1>1. /\ open' = open \ h /\ overrun' = overrun /\ connection' = "none"
      /\ results' = [results EXCEPT ![target] = r]
      /\ target = "control" => at' = "pton" /\ target' = "baseline"
      /\ target = "baseline" => at' = "dump" /\ target' = "stun"
      /\ target = "stun" => at' = "dump_read" /\ target' = "stun"
      /\ target \in Tests
  BY DEF LabTypeOK
<1>2. LabTypeOK'
  <2>1. results' \in [Tests -> {"none", "ok", "failed"}]
    BY <1>1 DEF LabTypeOK
  <2> QED BY <1>1, <2>1 DEF LabTypeOK
<1>3. OpenByPoint'
  BY <1>1 DEF OpenByPoint
<1>4. Evident'
  <2>1. LabReportsTrue'
    BY <1>1 DEF LabTypeOK, Evident, LabReportsTrue
  <2> QED BY <1>1, <2>1 DEF Evident
<1> QED BY <1>1, <1>2, <1>3, <1>4

\* A step within a run that only moves on, with what it acquires or releases.
LEMMA MoveKeeps ==
    ASSUME LabInv, LabTypeOK', OpenByPoint', ~overrun',
           UNCHANGED <<target, results, evidence>>,
           connection' = connection,
           connection /= "none" =>
               at' \in {"epoll-create", "epoll-control", "epoll-wait",
                        "socket-error"},
           at' \in {"dump", "timeout", "sendto", "recvfrom"} => target = "stun"
    PROVE  LabInv'
BY DEF LabInv, Evident, LabReportsTrue

\* main up to the first run, and reset_report.
LEMMA StartKeeps == ASSUME LabInv, StartScreen \/ reset_report PROVE LabInv'
<1> USE DEF LabInv
<1>1. CASE StartScreen
  <2> USE DEF StartScreen, AcquireScreen, labTest
  <2>1. /\ UNCHANGED <<target, connection, results, evidence>>
        /\ at \in {"start", "pgf", "font"}
        /\ at' \in {"pgf", "font", "report", "exited"}
    BY <1>1
  <2>2. /\ ~overrun'
        /\ \/ at' = "pgf" /\ open' = {"vita2d"}
           \/ at' = "font" /\ open' = {"vita2d", "pgf"}
           \/ at' = "report" /\ open' = {"vita2d", "pgf", "font"}
           \/ at' = "exited" /\ open' = {}
    <3>1. CASE AcquireScreen("start", "vita2d", "pgf", {})
      <4>1. open = {}
        BY <3>1 DEF OpenByPoint
      <4>2. CASE Acquire({"vita2d"}) /\ at' = "pgf"
        <5>1. {"vita2d"} \cap open = {}
          BY <4>1
        <5>2. ~overrun' /\ open' = open \cup {"vita2d"}
          BY <4>2, <5>1, AcquiredOnce
        <5> QED BY <4>1, <4>2, <5>2
      <4>3. CASE Release({}) /\ at' = "exited"
        BY <4>1, <4>3 DEF Release
      <4> QED BY <3>1, <4>2, <4>3
    <3>2. CASE AcquireScreen("pgf", "pgf", "font", {"vita2d"})
      <4>1. open = {"vita2d"}
        BY <3>2 DEF OpenByPoint
      <4>2. CASE Acquire({"pgf"}) /\ at' = "font"
        <5>1. {"pgf"} \cap open = {}
          BY <4>1
        <5>2. ~overrun' /\ open' = open \cup {"pgf"}
          BY <4>2, <5>1, AcquiredOnce
        <5> QED BY <4>1, <4>2, <5>2
      <4>3. CASE Release({"vita2d"}) /\ at' = "exited"
        BY <4>1, <4>3 DEF Release
      <4> QED BY <3>2, <4>2, <4>3
    <3>3. CASE AcquireScreen("font", "font", "report", {"vita2d", "pgf"})
      <4>1. open = {"vita2d", "pgf"}
        BY <3>3 DEF OpenByPoint
      <4>2. CASE Acquire({"font"}) /\ at' = "report"
        <5>1. {"font"} \cap open = {}
          BY <4>1
        <5>2. ~overrun' /\ open' = open \cup {"font"}
          BY <4>2, <5>1, AcquiredOnce
        <5> QED BY <4>1, <4>2, <5>2
      <4>3. CASE Release({"vita2d", "pgf"}) /\ at' = "exited"
        BY <4>1, <4>3 DEF Release
      <4> QED BY <3>3, <4>2, <4>3
    <3> QED BY <1>1, <3>1, <3>2, <3>3
  <2>3. LabTypeOK'
    BY <2>1, <2>2 DEF LabTypeOK, Screen
  <2>4. OpenByPoint'
    BY <2>2 DEF OpenByPoint
  <2> QED BY <2>1, <2>2, <2>3, <2>4, MoveKeeps DEF Evident
<1>2. CASE reset_report
  <2> USE <1>2 DEF reset_report, NoResults
  <2>1. LabTypeOK'
    BY DEF LabTypeOK, Tests
  <2>2. OpenByPoint'
    BY DEF OpenByPoint
  <2>3. Evident'
    BY DEF Evident, LabReportsTrue
  <2> QED BY <2>1, <2>2, <2>3
<1> QED BY <1>1, <1>2

\* initialize_network, skipped as far as an earlier run got.
LEMMA InitializeKeeps == ASSUME LabInv, initialize_network_lab PROVE LabInv'
<1> USE DEF LabInv
<1>1. ASSUME NEW h, NEW label, NEW next, Initialize(label, h, next),
             <<label, h, next>> \in
                 {<<"module", {"module"}, "net">>,
                  <<"net", {"memory", "net"}, "netctl">>,
                  <<"netctl", {"netctl"}, "resolver">>}
      PROVE  LabInv'
  <2>1. /\ at = label /\ target' = "control"
        /\ UNCHANGED <<connection, results, evidence>>
        /\ \/ at' = next /\ open' = open /\ overrun' = overrun
           \/ at' = next /\ ~(h \subseteq open) /\ Acquire(h)
           \/ at' = "menu" /\ open' = open \ {"log"} /\ overrun' = overrun
    BY <1>1 DEF Initialize, Keep, Release
  <2>2. /\ ~overrun'
        /\ \/ at' = next /\ open' \in {open, open \cup h}
           \/ at' = "menu" /\ open' = open \ {"log"}
    <3>1. ~(h \subseteq open) => h \cap open = {}
      BY <1>1 DEF OpenByPoint
    <3> QED BY <2>1, <3>1, AcquiredOnce
  <2>3. LabTypeOK'
    BY <1>1, <2>1, <2>2 DEF LabTypeOK, Network, Tests
  <2>4. OpenByPoint'
    BY <1>1, <2>1, <2>2 DEF OpenByPoint
  <2>5. Evident'
    BY <1>1, <2>1, <2>2 DEF Evident, LabReportsTrue
  <2> QED BY <2>2, <2>3, <2>4, <2>5
<1> QED BY <1>1 DEF initialize_network_lab

\* A point of a test: it fails, or leads on with what it acquires or releases.
LEMMA ProbingKeeps ==
    ASSUME LabInv, ResolverCreate \/ ResolverStart \/ Pton \/ OpenTestSocket
    PROVE  LabInv'
<1> USE DEF LabInv
<1>1. CASE ResolverCreate
  <2>1. CASE Acquire({"resolver"}) /\ LabGoto("resolving")
             /\ UNCHANGED connection
    <3>1. at = "resolver" /\ {"resolver"} \cap open = {}
      BY <1>1 DEF ResolverCreate, OpenByPoint
    <3>2. ~overrun' /\ open' = open \cup {"resolver"}
      BY <2>1, <3>1, AcquiredOnce
    <3>3. LabTypeOK'
      BY <2>1, <3>2 DEF LabGoto, LabTypeOK, Transient
    <3>4. OpenByPoint'
      BY <2>1, <3>1, <3>2 DEF LabGoto, OpenByPoint
    <3> QED BY <2>1, <3>1, <3>2, <3>3, <3>4, MoveKeeps DEF LabGoto, Evident
  <2>2. CASE Report("failed", {}) /\ UNCHANGED evidence
    <3>1. at = "resolver" /\ open \cap {"resolver", "socket", "epoll"} = {}
      BY <1>1 DEF ResolverCreate, OpenByPoint
    <3> QED BY <2>2, <3>1, ReportKeeps
  <2> QED BY <1>1, <2>1, <2>2 DEF ResolverCreate
<1>2. CASE ResolverStart
  <2>1. CASE Release({"resolver"}) /\ LabGoto("socket")
             /\ UNCHANGED connection
    <3>1. at = "resolving" /\ open' = open \ {"resolver"} /\ ~overrun'
      BY <1>2, <2>1 DEF ResolverStart, Release
    <3>2. LabTypeOK'
      BY <2>1, <3>1 DEF LabGoto, LabTypeOK
    <3>3. OpenByPoint'
      BY <2>1, <3>1 DEF LabGoto, OpenByPoint
    <3> QED BY <2>1, <3>1, <3>2, <3>3, MoveKeeps DEF LabGoto, Evident
  <2>2. CASE Report("failed", {"resolver"}) /\ UNCHANGED evidence
    <3>1. /\ at = "resolving"
          /\ open \cap {"resolver", "socket", "epoll"} \subseteq {"resolver"}
      BY <1>2 DEF ResolverStart, OpenByPoint
    <3> QED BY <2>2, <3>1, ReportKeeps
  <2> QED BY <1>2, <2>1, <2>2 DEF ResolverStart
<1>3. CASE Pton
  <2>1. CASE Keep /\ LabGoto("socket") /\ UNCHANGED connection
    <3>1. at = "pton" /\ open' = open /\ ~overrun'
      BY <1>3, <2>1 DEF Pton, Keep
    <3>2. LabTypeOK'
      BY <2>1, <3>1 DEF LabGoto, LabTypeOK
    <3>3. OpenByPoint'
      BY <2>1, <3>1 DEF LabGoto, OpenByPoint
    <3> QED BY <2>1, <3>1, <3>2, <3>3, MoveKeeps DEF LabGoto, Evident
  <2>2. CASE Report("failed", {}) /\ UNCHANGED evidence
    <3>1. at = "pton" /\ open \cap {"resolver", "socket", "epoll"} = {}
      BY <1>3 DEF Pton, OpenByPoint
    <3> QED BY <2>2, <3>1, ReportKeeps
  <2> QED BY <1>3, <2>1, <2>2 DEF Pton
<1>4. CASE OpenTestSocket
  <2>1. CASE /\ Acquire({"socket"})
             /\ LabGoto(IF target = "stun" THEN "timeout" ELSE "nonblocking")
             /\ UNCHANGED connection
    <3>1. at = "socket" /\ {"socket"} \cap open = {}
      BY <1>4 DEF OpenTestSocket, OpenByPoint
    <3>2. ~overrun' /\ open' = open \cup {"socket"}
      BY <2>1, <3>1, AcquiredOnce
    <3>3. LabTypeOK'
      BY <2>1, <3>2 DEF LabGoto, LabTypeOK, Transient
    <3>4. OpenByPoint'
      BY <2>1, <3>1, <3>2 DEF LabGoto, OpenByPoint
    <3> QED BY <2>1, <3>1, <3>2, <3>3, <3>4, MoveKeeps DEF LabGoto, Evident
  <2>2. CASE Report("failed", {}) /\ UNCHANGED evidence
    <3>1. at = "socket" /\ open \cap {"resolver", "socket", "epoll"} = {}
      BY <1>4 DEF OpenTestSocket, OpenByPoint
    <3> QED BY <2>2, <3>1, ReportKeeps
  <2> QED BY <1>4, <2>1, <2>2 DEF OpenTestSocket
<1> QED BY <1>1, <1>2, <1>3, <1>4

\* test_tcp_connect: each failure releases exactly what is open by then, and
\* a connection is reported only once the peer has answered.
LEMMA TcpKeeps == ASSUME LabInv, test_tcp_connect PROVE LabInv'
<1> USE DEF LabInv
<1>1. ASSUME NEW label, NEW h, NEW next, NEW held,
             TcpStage(label, h, next, held),
             <<label, h, next, held>> \in
                 {<<"nonblocking", {}, "connect", {"socket"}>>,
                  <<"epoll-create", {"epoll"}, "epoll-control", {"socket"}>>,
                  <<"epoll-control", {}, "epoll-wait", {"epoll", "socket"}>>}
      PROVE  LabInv'
  <2>1. CASE Acquire(h) /\ LabGoto(next) /\ UNCHANGED connection
    <3>1. at = label /\ h \cap open = {}
      BY <1>1 DEF TcpStage, OpenByPoint
    <3>2. ~overrun' /\ open' = open \cup h
      BY <2>1, <3>1, AcquiredOnce
    <3>3. LabTypeOK'
      BY <1>1, <2>1, <3>2 DEF LabGoto, LabTypeOK, Transient
    <3>4. OpenByPoint'
      BY <1>1, <2>1, <3>1, <3>2 DEF LabGoto, OpenByPoint
    <3> QED BY <1>1, <2>1, <3>1, <3>2, <3>3, <3>4, MoveKeeps
            DEF LabGoto, Evident
  <2>2. CASE Report("failed", held) /\ UNCHANGED evidence
    <3>1. /\ at = label /\ held \subseteq {"resolver", "socket", "epoll"}
          /\ open \cap {"resolver", "socket", "epoll"} \subseteq held
          /\ at \notin {"start", "pgf", "font", "exited"}
      BY <1>1 DEF TcpStage, OpenByPoint
    <3> QED BY <2>2, <3>1, ReportKeeps
  <2> QED BY <1>1, <2>1, <2>2 DEF TcpStage
<1>2. CASE TcpConnect
  <2>1. /\ at = "connect"
        /\ open \cap {"resolver", "socket", "epoll"} \subseteq {"socket"}
    BY <1>2 DEF TcpConnect, OpenByPoint
  <2>2. CASE Report("ok", {"socket"}) /\ evidence' = evidence \cup {target}
    BY <2>1, <2>2, ReportKeeps
  <2>3. CASE Report("failed", {"socket"}) /\ UNCHANGED evidence
    BY <2>1, <2>3, ReportKeeps
  <2>4. CASE Keep /\ LabGoto("epoll-create") /\ connection' = "syn"
    <3>1. LabTypeOK' /\ ~overrun'
      BY <2>4 DEF Keep, LabGoto, LabTypeOK
    <3>2. OpenByPoint'
      BY <2>1, <2>4 DEF Keep, LabGoto, OpenByPoint
    <3>3. Evident'
      BY <2>4 DEF LabGoto, Evident, LabReportsTrue
    <3> QED BY <3>1, <3>2, <3>3
  <2> QED BY <1>2, <2>2, <2>3, <2>4 DEF TcpConnect
<1>3. CASE EpollWait
  <2>1. /\ at = "epoll-wait"
        /\ open \cap {"resolver", "socket", "epoll"}
              \subseteq {"epoll", "socket"}
    BY <1>3 DEF EpollWait, OpenByPoint
  <2>2. CASE Keep /\ LabGoto("socket-error") /\ UNCHANGED connection
    <3>1. LabTypeOK' /\ ~overrun'
      BY <2>2 DEF Keep, LabGoto, LabTypeOK
    <3>2. OpenByPoint'
      BY <2>1, <2>2 DEF Keep, LabGoto, OpenByPoint
    <3> QED BY <2>1, <2>2, <3>1, <3>2, MoveKeeps DEF LabGoto, Evident
  <2>3. CASE Report("failed", {"epoll", "socket"}) /\ UNCHANGED evidence
    BY <2>1, <2>3, ReportKeeps
  <2> QED BY <1>3, <2>2, <2>3 DEF EpollWait
<1>4. CASE SocketError
  <2>1. /\ at = "socket-error" /\ UNCHANGED evidence
        /\ open \cap {"resolver", "socket", "epoll"}
              \subseteq {"epoll", "socket"}
    BY <1>4 DEF SocketError, OpenByPoint
  <2>2. CASE Report("failed", {"epoll", "socket"})
    BY <2>1, <2>2, ReportKeeps
  <2>3. CASE connection \in {"up", "reset"} /\ Report("ok", {"epoll", "socket"})
    <3>1. target \in evidence
      BY <2>3 DEF Evident
    <3> QED BY <2>1, <2>3, <3>1, ReportKeeps
  <2> QED BY <1>4, <2>2, <2>3 DEF SocketError
<1> QED BY <1>1, <1>2, <1>3, <1>4 DEF test_tcp_connect

\* The peer's steps: what the kernel learns of the connection.
LEMMA PeerKeeps == ASSUME LabInv, Peer PROVE LabInv'
<1> USE DEF LabInv
<1>1. /\ UNCHANGED <<at, open, overrun, target, results>>
      /\ evidence \subseteq evidence'
      /\ connection /= "none" /\ connection' \in {"up", "refused", "reset"}
      /\ connection' \in {"up", "reset"} => target \in evidence'
  BY DEF Peer, Evident
<1>2. LabTypeOK'
  BY <1>1 DEF LabTypeOK
<1>3. OpenByPoint'
  BY <1>1 DEF OpenByPoint
<1>4. Evident'
  BY <1>1 DEF Evident, LabReportsTrue
<1> QED BY <1>1, <1>2, <1>3, <1>4

\* test_packet_capture and test_stun.
LEMMA StunKeeps ==
    ASSUME LabInv,
           \/ DumpCreate \/ StunTimeouts \/ StunSend \/ StunTimeout
           \/ \E t \in requests \cup {0} : StunAnswer(t)
    PROVE  LabInv'
<1> USE DEF LabInv
<1>1. CASE DumpCreate
  <2>1. at = "dump" /\ {"dump"} \cap open = {}
    BY <1>1 DEF DumpCreate, OpenByPoint
  <2>2. ~overrun' /\ open' \in {open, open \cup {"dump"}}
    <3>1. CASE Acquire({"dump"})
      BY <2>1, <3>1, AcquiredOnce
    <3>2. CASE Keep
      BY <3>2 DEF Keep
    <3> QED BY <1>1, <3>1, <3>2 DEF DumpCreate
  <2>3. target = "stun"
    BY <1>1, <2>1 DEF Evident
  <2>4. LabTypeOK'
    BY <1>1, <2>2 DEF DumpCreate, LabGoto, LabTypeOK, Transient
  <2>5. OpenByPoint'
    BY <1>1, <2>1, <2>2, <2>3 DEF DumpCreate, LabGoto, OpenByPoint
  <2> QED BY <1>1, <2>1, <2>2, <2>4, <2>5, MoveKeeps
          DEF DumpCreate, LabGoto, Evident
<1>2. CASE StunTimeouts
  <2>1. LabTypeOK' /\ ~overrun'
    BY <1>2 DEF StunTimeouts, Keep, LabTypeOK
  <2>2. OpenByPoint'
    BY <1>2 DEF StunTimeouts, Keep, OpenByPoint
  <2> QED BY <1>2, <2>1, <2>2, MoveKeeps DEF StunTimeouts, Evident
<1>3. CASE StunSend
  <2>1. /\ at = "sendto"
        /\ open \cap {"resolver", "socket", "epoll"} \subseteq {"socket"}
    BY <1>3 DEF StunSend, OpenByPoint
  <2>2. CASE Report("failed", {"socket"}) /\ UNCHANGED evidence
    BY <2>1, <2>2, ReportKeeps
  <2>3. CASE /\ at' = "recvfrom" /\ Keep
             /\ UNCHANGED <<target, connection, rcvtimeo, results, evidence>>
    <3>1. LabTypeOK' /\ ~overrun'
      BY <2>3 DEF Keep, LabTypeOK
    <3>2. OpenByPoint'
      BY <2>1, <2>3 DEF Keep, OpenByPoint
    <3> QED BY <2>1, <2>3, <3>1, <3>2, MoveKeeps DEF Evident
  <2> QED BY <1>3, <2>2, <2>3 DEF StunSend
<1>4. CASE StunTimeout \/ \E t \in requests \cup {0} : StunAnswer(t)
  <2>1. /\ at = "recvfrom" /\ target = "stun"
        /\ open \cap {"resolver", "socket", "epoll"} \subseteq {"socket"}
    BY <1>4 DEF StunTimeout, StunAnswer, OpenByPoint, Evident
  <2>2. CASE StunTimeout
    BY <2>1, <2>2, ReportKeeps DEF StunTimeout
  <2>3. ASSUME NEW t, StunAnswer(t) PROVE LabInv'
    <3>1. CASE t = run
      <4>1. Report("ok", {"socket"}) /\ evidence' = evidence \cup {"stun"}
        BY <2>3, <3>1 DEF StunAnswer
      <4> QED BY <2>1, <4>1, ReportKeeps
    <3>2. CASE t /= run
      <4>1. Report("failed", {"socket"}) /\ evidence' = evidence
        BY <2>3, <3>2 DEF StunAnswer
      <4> QED BY <2>1, <4>1, ReportKeeps
    <3> QED BY <3>1, <3>2
  <2> QED BY <1>4, <2>2, <2>3
<1> QED BY <1>1, <1>2, <1>3, <1>4

\* The end of a run, the buttons and the end of main.
LEMMA EndKeeps ==
    ASSUME LabInv,
           \/ DumpRead \/ RawSocket \/ Exit
           \/ \E b \in SUBSET {"START", "CROSS"} : Buttons(b)
    PROVE  LabInv'
<1> USE DEF LabInv
<1>1. CASE DumpRead
  <2>1. LabTypeOK' /\ ~overrun'
    BY <1>1 DEF DumpRead, Release, LabGoto, LabTypeOK
  <2>2. OpenByPoint'
    BY <1>1 DEF DumpRead, Release, LabGoto, OpenByPoint
  <2> QED BY <1>1, <2>1, <2>2, MoveKeeps DEF DumpRead, LabGoto, Evident
<1>2. CASE RawSocket
  <2>1. /\ at \in {"raw", "raw_close", "log"} /\ ~overrun'
        /\ at' \in {"raw_close", "log", "menu"}
        /\ UNCHANGED <<target, connection, results, evidence>>
        /\ \/ at' = "raw_close" /\ open' = open \cup {"socket"}
           \/ at = "raw" /\ at' = "log" /\ open' = open
           \/ at' = "log" /\ open' = open \ {"socket"}
           \/ at = "log" /\ at' = "menu" /\ open' = open \ {"log"}
    <3>1. CASE at = "raw" /\ Acquire({"socket"}) /\ LabGoto("raw_close")
      <4>1. {"socket"} \cap open = {}
        BY <3>1 DEF OpenByPoint
      <4> QED BY <1>2, <3>1, <4>1, AcquiredOnce DEF RawSocket, LabGoto
    <3>2. CASE ~(at = "raw" /\ Acquire({"socket"}) /\ LabGoto("raw_close"))
      BY <1>2, <3>2 DEF RawSocket, Keep, Release, LabGoto
    <3> QED BY <3>1, <3>2
  <2>2. LabTypeOK'
    BY <2>1 DEF LabTypeOK, Transient
  <2>3. OpenByPoint'
    BY <2>1 DEF OpenByPoint
  <2> QED BY <2>1, <2>2, <2>3, MoveKeeps DEF Evident
<1>3. ASSUME NEW b, Buttons(b) PROVE LabInv'
  <2>1. /\ at = "menu" /\ at' \in {"menu", "exit", "report"}
        /\ UNCHANGED <<open, overrun, target, connection, results, evidence>>
    BY <1>3 DEF Buttons, Keep, labTest
  <2>2. LabTypeOK'
    BY <2>1 DEF LabTypeOK
  <2>3. OpenByPoint'
    BY <2>1 DEF OpenByPoint
  <2> QED BY <2>1, <2>2, <2>3, MoveKeeps DEF Evident
<1>4. CASE Exit
  <2>1. open' = {}
    <3>1. open \subseteq {"log"} \cup Network \cup Screen
      BY <1>4 DEF Exit, LabTypeOK, OpenByPoint, Transient
    <3> QED BY <1>4, <3>1 DEF Exit, Release
  <2>2. LabTypeOK' /\ ~overrun'
    BY <1>4, <2>1 DEF Exit, Release, labTest, LabTypeOK
  <2>3. OpenByPoint'
    BY <1>4, <2>1 DEF Exit, OpenByPoint
  <2> QED BY <1>4, <2>2, <2>3, MoveKeeps DEF Exit, labTest, Evident
<1> QED BY <1>1, <1>2, <1>3, <1>4

\* The invariant holds in every state the lab reaches.
THEOREM LabInvariant == LabSpec => []LabInv
<1>1. LabInit => LabInv
  <2> SUFFICES ASSUME LabInit PROVE LabInv
    OBVIOUS
  <2> USE DEF LabInit, NoResults, Tests
  <2>1. LabTypeOK
    BY DEF LabTypeOK
  <2>2. OpenByPoint
    BY DEF OpenByPoint
  <2>3. Evident
    BY DEF Evident, LabReportsTrue
  <2> QED BY <2>1, <2>2, <2>3 DEF LabInv
<1>2. LabInv /\ [LabNext]_labVars => LabInv'
  <2> SUFFICES ASSUME LabInv, [LabNext]_labVars PROVE LabInv'
    OBVIOUS
  <2>1. CASE UNCHANGED labVars
    BY <2>1 DEF labVars, labTest, LabInv, LabTypeOK, OpenByPoint, Evident,
       LabReportsTrue
  <2> QED BY <2>1, StartKeeps, InitializeKeeps, ProbingKeeps, TcpKeeps,
          PeerKeeps, StunKeeps, EndKeeps DEF LabNext, LabStep
<1> QED BY <1>1, <1>2, PTL DEF LabSpec

\* Whatever failed and however often the diagnosis was repeated, nothing is
\* acquired over what is open, and neither a run nor the program leaves
\* anything of its own behind.
THEOREM LabAlwaysReleases == LabSpec => []LabReleases
<1>1. LabInv => LabReleases
  BY DEF LabInv, LabTypeOK, OpenByPoint, Transient, LabReleases
<1> QED BY <1>1, LabInvariant, PTL

\* A test is reported as good only on evidence of this run.
THEOREM LabReportsAlwaysTrue == LabSpec => []LabReportsTrue
<1>1. LabInv => LabReportsTrue
  BY DEF LabInv, Evident
<1> QED BY <1>1, LabInvariant, PTL
=============================================================================
