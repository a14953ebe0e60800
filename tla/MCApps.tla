------------------------------- MODULE MCApps -------------------------------
(***************************************************************************)
(* The diagnostic applications and the pieces of code they share, which do *)
(* not run together: a behaviour is one of the handshake probe (with its   *)
(* files), the network lab, the crypto probe, the stamps of successive     *)
(* launches, the configuration parser or the packet functions.             *)
(*                                                                         *)
(* Three private keys: one in use, and two that errors made a run generate *)
(* in vain.  Three runs of the lab, so that each stage of its network can  *)
(* fail once.  A second has three fractions.                               *)
(***************************************************************************)
EXTENDS Probe, NetworkLab, CryptoProbe, Stamps, PeerConfig, IpUdpPacket

VARIABLE part

MCPublicKey == <<75, 75>>

\* A key is 5 or 6 bytes with its name and newline, an address 6 or 8, a port
\* 5 or 8: three settings fit into READ_SIZE, four lines may be cut in any
\* setting.  There are values with a carriage return behind, with a blank and
\* with a form feed in front of them, and an address that is one only when it
\* is cut after its blank.
MCLines ==
    [name : {"blank", "bare"}, value : {<<>>}]
    \cup [name : {"key"}, value : {MCPublicKey, <<75, 75, 13>>, <<>>}]
    \cup [name : {"ip"}, value : {<<49, 46, 50>>, <<49, 46, 50, 32, 57>>, <<>>}]
    \cup [name : {"port"}, value : {<<53, 49, 56, 50, 48>>, <<43, 55>>,
                                    <<32, 12, 55>>, <<13, 55, 12>>,
                                    <<54, 53, 53, 51, 55>>}]

MCCharacters == {46, 48, 50, 53, 54, 120}

\* With source port 64169 and the payload "TS" the UDP checksum comes out as
\* zero; a payload of three bytes does not fit.
MCDatagrams ==
    [source : {<<10, 77, 0, 2>>}, destination : {<<10, 77, 0, 1>>},
     source_port : {40001, 64169}, destination_port : {40000},
     identification : {0, 65535},
     payload : {<<>>, <<84>>, <<84, 83>>, <<84, 83, 86>>}]

probePart == allVars
others == <<labVars, cryptoVars, stampVars, configVars, packetVars>>
appsVars == <<part, probePart, others>>

AppsInit ==
    /\ part \in {"probe", "lab", "crypto", "stamps", "config", "packet"}
    /\ ProbeInit /\ LabInit /\ CryptoInit /\ StampInit /\ ConfigInit
    /\ PacketInit

LabPart ==
    /\ part = "lab" /\ LabNext
    /\ UNCHANGED <<part, probePart, cryptoVars, stampVars, configVars,
                   packetVars>>

AppsNext ==
    \/ part = "probe" /\ ProbeNext /\ UNCHANGED <<part, others>>
    \/ LabPart
    \/ /\ part = "crypto" /\ CryptoNext
       /\ UNCHANGED <<part, probePart, labVars, stampVars, configVars,
                      packetVars>>
    \/ /\ part = "stamps" /\ StampNext
       /\ UNCHANGED <<part, probePart, labVars, cryptoVars, configVars,
                      packetVars>>
    \/ /\ part = "config" /\ ConfigNext
       /\ UNCHANGED <<part, probePart, labVars, cryptoVars, stampVars,
                      packetVars>>
    \/ /\ part = "packet" /\ PacketNext
       /\ UNCHANGED <<part, probePart, labVars, cryptoVars, stampVars,
                      configVars>>

AppsSpec ==
    /\ AppsInit /\ [][AppsNext]_appsVars
    /\ ProbeFairness /\ WF_labVars(part = "lab" /\ LabStep)
=============================================================================
