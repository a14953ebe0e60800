---------------------------- MODULE IpUdpPacket -----------------------------
(***************************************************************************)
(* tsvita_build_ipv4_udp_packet and tsvita_validate_ipv4_udp_packet of     *)
(* src/ip_udp_packet.c, on bytes, with what may happen to a packet between *)
(* the two: a byte is damaged, the UDP checksum is zeroed (which UDP       *)
(* allows), the end is cut off or padding follows.                         *)
(***************************************************************************)
EXTENDS Integers, Sequences

CONSTANTS
    Datagrams,     \* records of what a packet is built from
    CAPACITY,      \* output_capacity
    Damages        \* values a damaged byte may take

Byte == 0..255

UINT16_MAX == 65535

Word == 0..UINT16_MAX

IPV4_DONT_FRAGMENT == 16384

ASSUME PacketAssumption ==
    /\ CAPACITY \in Nat /\ Damages \subseteq Byte
    /\ Datagrams \subseteq [source : Seq(Byte), destination : Seq(Byte),
                            source_port : Word, destination_port : Word,
                            identification : Word, payload : Seq(Byte)]
    /\ \A d \in Datagrams : Len(d.source) = 4 /\ Len(d.destination) = 4

VARIABLES
    datagram,      \* the arguments of the builder, or NoDatagram
    built,         \* what it wrote, <<>> when it returned 0
    wire           \* what the validator gets

packetVars == <<datagram, built, wire>>

NoDatagram == [payload |-> <<>>]

PacketInit == datagram = NoDatagram /\ built = <<>> /\ wire = <<>>

read_be16(p, i) == p[i + 1] * 256 + p[i + 2]

high(w) == w \div 256

low(w) == w % 256

write_be16(p, i, w) == [p EXCEPT ![i + 1] = high(w), ![i + 2] = low(w)]

\* A byte of a sum of big-endian words.
Summand(p, i) == IF i % 2 = 1 THEN p[i] * 256 ELSE p[i]

\* The 32-bit sum, which no packet makes overflow; an odd last byte is a
\* high byte.
checksum_add(p) ==
    LET sum[i \in 0..Len(p)] ==
            IF i = 0 THEN 0 ELSE sum[i - 1] + Summand(p, i)
    IN  sum[Len(p)]

fold(sum) == (sum % 65536) + (sum \div 65536)

\* The carries are added until none is left; two rounds do for 32 bits.
checksum_finish(sum) == UINT16_MAX - fold(fold(sum))

udp_checksum(source, destination, udp) ==
    checksum_finish(checksum_add(source) + checksum_add(destination)
                    + 17 + Len(udp) + checksum_add(udp))

-----------------------------------------------------------------------------
Ipv4Header(d, size) ==
    LET header == <<69, 0, high(size), low(size),
                    high(d.identification), low(d.identification),
                    high(IPV4_DONT_FRAGMENT), low(IPV4_DONT_FRAGMENT),
                    64, 17, 0, 0>> \o d.source \o d.destination
    IN  write_be16(header, 10, checksum_finish(checksum_add(header)))

UdpDatagram(d, size) ==
    LET udp == <<high(d.source_port), low(d.source_port),
                 high(d.destination_port), low(d.destination_port),
                 high(size - 20), low(size - 20), 0, 0>> \o d.payload
        sum == udp_checksum(d.source, d.destination, udp)
    IN  write_be16(udp, 6, IF sum = 0 THEN UINT16_MAX ELSE sum)

\* The packet, or <<>> when it does not fit the buffer.
tsvita_build_ipv4_udp_packet(d) ==
    LET size == 28 + Len(d.payload)
    IN  IF size > UINT16_MAX \/ CAPACITY < size THEN <<>>
        ELSE Ipv4Header(d, size) \o UdpDatagram(d, size)

\* Mutant of HeaderValid: trusts the header checksum.
HeaderValidUnsummed(p, d) ==
    LET total == read_be16(p, 2) IN
    /\ p[1] = 69 /\ p[10] = 17
    /\ total >= 28 /\ total <= Len(p)
    /\ read_be16(p, 6) % 16384 = 0
    /\ SubSeq(p, 13, 16) = d.source /\ SubSeq(p, 17, 20) = d.destination

\* The header up to the addresses.
HeaderValid(p, d) ==
    LET total == read_be16(p, 2) IN
    /\ p[1] = 69 /\ p[10] = 17
    /\ total >= 28 /\ total <= Len(p)
    /\ read_be16(p, 6) % 16384 = 0
    /\ checksum_finish(checksum_add(SubSeq(p, 1, 20))) = 0
    /\ SubSeq(p, 13, 16) = d.source /\ SubSeq(p, 17, 20) = d.destination

UdpValid(p, d) ==
    LET size == read_be16(p, 24) IN
    /\ read_be16(p, 20) = d.source_port
    /\ read_be16(p, 22) = d.destination_port
    /\ size = read_be16(p, 2) - 20 /\ size = 8 + Len(d.payload)
    /\ \/ read_be16(p, 26) = 0
       \/ udp_checksum(d.source, d.destination, SubSeq(p, 21, 20 + size)) = 0
    /\ SubSeq(p, 29, 20 + size) = d.payload

tsvita_validate_ipv4_udp_packet(p, d) ==
    Len(p) >= 28 /\ HeaderValid(p, d) /\ UdpValid(p, d)

-----------------------------------------------------------------------------
Build(d) ==
    /\ datagram = NoDatagram
    /\ datagram' = d
    /\ built' = tsvita_build_ipv4_udp_packet(d)
    /\ wire' = built'

\* External: what the way does to a packet, once.
DamageByte(i, v) ==
    /\ wire = built /\ v /= wire[i]
    /\ wire' = [wire EXCEPT ![i] = v]
    /\ UNCHANGED <<datagram, built>>

ZeroChecksum ==
    /\ wire = built /\ built /= <<>>
    /\ wire' = [wire EXCEPT ![27] = 0, ![28] = 0]
    /\ UNCHANGED <<datagram, built>>

Resize(n) ==
    /\ wire = built /\ built /= <<>>
    /\ wire' = IF n <= Len(built) THEN SubSeq(built, 1, n)
               ELSE built \o [i \in 1..(n - Len(built)) |-> 165]
    /\ UNCHANGED <<datagram, built>>

PacketNext ==
    \/ \E d \in Datagrams : Build(d)
    \/ \E i \in DOMAIN wire, v \in Damages : DamageByte(i, v)
    \/ ZeroChecksum
    \/ \E n \in 0..(CAPACITY + 2) : Resize(n)

PacketSpec == PacketInit /\ [][PacketNext]_packetVars

-----------------------------------------------------------------------------
\* The validator accepts a packet of the builder, with padding or a zeroed
\* UDP checksum, and nothing else: no single damaged byte and no missing one,
\* in fields it does not compare (identification, TTL, the checksums) either.
\* The builder never writes the zero checksum that means "none".
AcceptsExactlyIntact ==
    built /= <<>> =>
        LET n == Len(built)
            zeroed == [built EXCEPT ![27] = 0, ![28] = 0]
        IN  /\ read_be16(built, 26) /= 0
            /\ tsvita_validate_ipv4_udp_packet(wire, datagram)
               = (Len(wire) >= n /\ SubSeq(wire, 1, n) \in {built, zeroed})
=============================================================================
