----------------------------- MODULE PeerConfig -----------------------------
(***************************************************************************)
(* load_peer_config, as moonlight/tunnel.c and src/wg_handshake_probe.c    *)
(* both have it, and tsvita_parse_ipv4_literal of src/ipv4_literal.c.  The *)
(* file is a sequence of lines, read up to a limit that may fall inside a  *)
(* line.  A value is the sequence of the character codes between the '='   *)
(* and the newline; a name stands for its text and the '=' for one         *)
(* character each.  The buffers for the key and the address hold more than *)
(* any good value, so a longer value is refused with its end or without.   *)
(***************************************************************************)
EXTENDS Integers, Sequences, FiniteSets

CONSTANTS
    OCTETS,       \* octets of an address, 4 in the code
    READ_SIZE,    \* sizeof(contents) - 1
    PublicKey,    \* the value wireguard_base64_decode accepts
    Lines,        \* lines a file is made of
    MaxLines,     \* bound: lines of a file
    Characters,   \* the alphabet of address texts
    MaxText       \* bound: the length of an address text

\* What trim removes in front, what it removes behind, and what isspace
\* accepts.
Blanks == {9, 32}

LineEnds == {9, 10, 13, 32}

Spaces == (9..13) \cup {32}

\* A file and an argument are text: a NUL would end the string.  A newline
\* ends a line, and a base64 key has no blanks.
ASSUME ConfigAssumption ==
    /\ {OCTETS, READ_SIZE, MaxLines, MaxText} \subseteq Nat /\ OCTETS > 0
    /\ Characters \subseteq Nat /\ 0 \notin Characters
    /\ PublicKey \in Seq(Nat) \ {<<>>}
    /\ \A i \in DOMAIN PublicKey : PublicKey[i] \notin LineEnds
    /\ Lines \subseteq [name : {"blank", "bare", "key", "ip", "port", "other"},
                        value : Seq(Nat)]
    /\ \A line \in Lines : \A i \in DOMAIN line.value :
          line.value[i] \notin {0, 10}

VARIABLES
    file,     \* wg-peer.conf
    loaded,   \* what load_peer_config made of it, or NotLoaded
    text      \* an argument of tsvita_parse_ipv4_literal

configVars == <<file, loaded, text>>

NotLoaded == [code |-> -1]

ConfigInit == file = <<>> /\ loaded = NotLoaded /\ text = <<>>

Dot == 46

Plus == 43

IsDigit(c) == c \in 48..57

Decimal(v) ==
    LET n[i \in 0..Len(v)] == IF i = 0 THEN 0 ELSE n[i - 1] * 10 + (v[i] - 48)
    IN  n[Len(v)]

-----------------------------------------------------------------------------
(* tsvita_parse_ipv4_literal.                                              *)

\* Mutant of EatDigit: the value wraps as the uint8_t it is stored in.
EatDigitWraps(s, c) ==
    IF s.digits = 3 THEN [s EXCEPT !.result = "refused"]
    ELSE [s EXCEPT !.value = (s.value * 10 + (c - 48)) % 256, !.digits = @ + 1]

\* A digit of the current octet: at most three, at most 255.
EatDigit(s, c) ==
    IF s.digits = 3 \/ s.value * 10 + (c - 48) > 255
    THEN [s EXCEPT !.result = "refused"]
    ELSE [s EXCEPT !.value = @ * 10 + (c - 48), !.digits = @ + 1]

\* A dot ends an octet that has digits and is not the last.
EatDot(s) ==
    IF s.digits = 0 \/ Len(s.octets) = OCTETS - 1
    THEN [s EXCEPT !.result = "refused"]
    ELSE [s EXCEPT !.octets = Append(@, s.value), !.value = 0, !.digits = 0]

EatCharacter(s, c) ==
    CASE s.result = "refused" -> s
      [] s.result = "ok" /\ IsDigit(c) -> EatDigit(s, c)
      [] s.result = "ok" /\ c = Dot -> EatDot(s)
      [] OTHER -> [s EXCEPT !.result = "refused"]

\* The cursor after each character of a text.
Cursor(t) ==
    LET s[i \in 0..Len(t)] ==
            IF i = 0
            THEN [result |-> "ok", value |-> 0, digits |-> 0, octets |-> <<>>]
            ELSE EatCharacter(s[i - 1], t[i])
    IN  s

\* The octets, or <<>> when the text is refused.
tsvita_parse_ipv4_literal(t) ==
    LET s == Cursor(t)[Len(t)]
    IN  IF s.result = "ok" /\ s.digits > 0 /\ Len(s.octets) = OCTETS - 1
        THEN Append(s.octets, s.value) ELSE <<>>

-----------------------------------------------------------------------------
(* load_peer_config.                                                       *)

HasValue(line) == line.name \in {"key", "ip", "port", "other"}

\* Bytes of a line, its newline included; other lines are three bytes long.
Width(line) == IF HasValue(line) THEN Len(line.value) + 3 ELSE 4

\* sceIoRead stops after n bytes of a line: before the '=' nothing tells it
\* from a line without one.
Cut(line, n) ==
    IF ~HasValue(line) THEN line
    ELSE IF n < 2 THEN [name |-> "bare", value |-> <<>>]
    ELSE [line EXCEPT !.value = SubSeq(@, 1, n - 2)]

\* How many bytes the first lines have, for each number of lines.
Extent(f) ==
    LET n[i \in 0..Len(f)] == IF i = 0 THEN 0 ELSE n[i - 1] + Width(f[i])
    IN  n

\* A line as it is read: whole, or up to the limit.
LineRead(f, i) ==
    IF Extent(f)[i] <= READ_SIZE THEN f[i]
    ELSE Cut(f[i], READ_SIZE - Extent(f)[i - 1])

\* Where a loop over some characters stops, from the front and from behind.
FirstNot(v, skipped) ==
    CHOOSE i \in 1..(Len(v) + 1) :
        /\ i > Len(v) \/ v[i] \notin skipped
        /\ \A j \in 1..(i - 1) : v[j] \in skipped

LastNot(v, skipped) ==
    CHOOSE i \in 0..Len(v) :
        /\ i = 0 \/ v[i] \notin skipped
        /\ \A j \in (i + 1)..Len(v) : v[j] \in skipped

After(v, skipped) == SubSeq(v, FirstNot(v, skipped), Len(v))

trim(v) ==
    LET w == After(v, Blanks) IN SubSeq(w, 1, LastNot(w, LineEnds))

\* strtol skips white space, which is more than trim has removed, and a plus
\* sign; what has a minus sign is refused anyway.
Unsigned(v) ==
    LET w == After(v, Spaces)
    IN  IF w /= <<>> /\ w[1] = Plus THEN Tail(w) ELSE w

MaxPort == 65535

IsNumber(v) == v /= <<>> /\ \A i \in DOMAIN v : IsDigit(v[i])

\* Mutant of ParsePort: without the upper limit, the cast takes the rest.
ParsePortWraps(v) ==
    LET d == Unsigned(v)
    IN  IF IsNumber(d) /\ Decimal(d) > 0 THEN Decimal(d) % 65536 ELSE 0

\* strtol with the end and range checks; 0 for a refused value.
ParsePort(v) ==
    LET d == Unsigned(v)
    IN  IF IsNumber(d) /\ Decimal(d) \in 1..MaxPort THEN Decimal(d) ELSE 0

\* One turn of the strtok loop; result is the error of an early return.
ParseLine(config, line) ==
    LET value == trim(line.value) IN
    CASE config.result /= "ok" \/ line.name \in {"blank", "other"} -> config
      [] config.result = "ok" /\ line.name = "bare" ->
            [config EXCEPT !.result = "separator"]
      [] config.result = "ok" /\ line.name = "key" ->
            [config EXCEPT !.key = value]
      [] config.result = "ok" /\ line.name = "ip" ->
            [config EXCEPT !.ip = value]
      [] config.result = "ok" /\ line.name = "port" ->
            IF ParsePort(value) = 0
            THEN [config EXCEPT !.result = "port"]
            ELSE [config EXCEPT !.port = ParsePort(value)]

\* The checks after the loop, in their order.
Completed(config) ==
    CASE config.result /= "ok" -> config
      [] config.result = "ok"
         /\ (config.key = <<>> \/ config.ip = <<>> \/ config.port = 0) ->
            [config EXCEPT !.result = "missing"]
      [] OTHER ->
            IF config.key /= PublicKey THEN [config EXCEPT !.result = "key"]
            ELSE IF tsvita_parse_ipv4_literal(config.ip) = <<>>
                 THEN [config EXCEPT !.result = "literal"] ELSE config

\* The settings after each line; what begins behind the limit is not read.
Settings(f) ==
    LET c[i \in 0..Len(f)] ==
            IF i = 0
            THEN [result |-> "ok", key |-> <<>>, ip |-> <<>>, port |-> 0]
            ELSE IF Extent(f)[i - 1] < READ_SIZE
                 THEN ParseLine(c[i - 1], LineRead(f, i)) ELSE c[i - 1]
    IN  c

ParsedFile(f) == Completed(Settings(f)[Len(f)])

\* What the two programs return for a result.
TunnelCode == [ok |-> 0, separator |-> -3, port |-> -4, missing |-> -5,
               key |-> -6, literal |-> -7]

ProbeCode == [ok |-> 0, separator |-> -3, port |-> -4, missing |-> 1,
              key |-> -5, literal |-> -6]

-----------------------------------------------------------------------------
WriteLine(line) ==
    /\ loaded = NotLoaded /\ text = <<>> /\ Len(file) < MaxLines
    /\ file' = Append(file, line)
    /\ UNCHANGED <<loaded, text>>

Loaded(f, codes) ==
    LET config == ParsedFile(f)
    IN  [key |-> config.key, ip |-> config.ip, port |-> config.port,
         code |-> codes[config.result]]

LoadWith(codes) ==
    /\ loaded = NotLoaded /\ text = <<>>
    /\ loaded' = Loaded(file, codes)
    /\ UNCHANGED <<file, text>>

WriteText(c) ==
    /\ file = <<>> /\ loaded = NotLoaded /\ Len(text) < MaxText
    /\ text' = Append(text, c)
    /\ UNCHANGED <<file, loaded>>

ConfigNext ==
    \/ \E line \in Lines : WriteLine(line)
    \/ LoadWith(TunnelCode) \/ LoadWith(ProbeCode)
    \/ \E c \in Characters : WriteText(c)

ConfigSpec == ConfigInit /\ [][ConfigNext]_configVars

-----------------------------------------------------------------------------
(* What a text and a file say, without a parser.                           *)

Dots(t, i) == {j \in 1..i : t[j] = Dot}

\* The number whose last digit is at i, of at most three digits.
Number(t, i) ==
    LET Digit(j) == IF j > 0 /\ IsDigit(t[j]) THEN t[j] - 48 ELSE 0
    IN  Digit(i) + 10 * Digit(i - 1)
        + IF i > 1 /\ IsDigit(t[i - 1]) THEN 100 * Digit(i - 2) ELSE 0

\* What may be at a place: a dot behind a digit, or a digit that makes a
\* number of one to three digits up to 255.
GoodAt(t, i) ==
    \/ t[i] = Dot /\ i > 1 /\ IsDigit(t[i - 1])
    \/ /\ IsDigit(t[i]) /\ Number(t, i) <= 255
       /\ i > 3 => \E j \in (i - 3)..(i - 1) : ~IsDigit(t[j])

Dotted(t) ==
    /\ t /= <<>> /\ IsDigit(t[Len(t)])
    /\ \A i \in DOMAIN t : GoodAt(t, i)
    /\ Cardinality(Dots(t, Len(t))) = OCTETS - 1

\* A part of a value that has only blanks around it.
TextAt(v, i, j) ==
    /\ i <= j
    /\ \A k \in 1..(i - 1) : v[k] \in Blanks
    /\ \A k \in (j + 1)..Len(v) : v[k] \in LineEnds

Holds(v, t) == \E i, j \in DOMAIN v : TextAt(v, i, j) /\ t = SubSeq(v, i, j)

HoldsAddress(v) ==
    \E i, j \in DOMAIN v : TextAt(v, i, j) /\ Dotted(SubSeq(v, i, j))

\* The digits of a port from 1 to 65535: in front of them white space, with or
\* without a plus sign, and behind them blanks.
PortAt(v, i, j) ==
    /\ i <= j /\ \A k \in i..j : IsDigit(v[k])
    /\ \E sign \in {0, 1} :
          /\ sign = 1 => i > 1 /\ v[i - 1] = Plus
          /\ \A k \in 1..(i - 1 - sign) : v[k] \in Spaces
    /\ \A k \in (j + 1)..Len(v) : v[k] \in LineEnds
    /\ Decimal(SubSeq(v, i, j)) \in 1..MaxPort

PortText(v) == \E i, j \in DOMAIN v : PortAt(v, i, j)

\* The value of the last of the first n lines with a name, or <<>>.
Says(f, n, name) ==
    LET given == {i \in 1..n : f[i].name = name}
    IN  IF given = {} THEN <<>>
        ELSE f[CHOOSE i \in given : \A j \in given : j <= i].value

FitsIsJudgedWhole ==
    (loaded /= NotLoaded /\ Extent(file)[Len(file)] <= READ_SIZE) =>
        (loaded.code = 0) =
            /\ \A i \in DOMAIN file :
                  /\ file[i].name /= "bare"
                  /\ file[i].name = "port" => PortText(file[i].value)
            /\ Says(file, Len(file), "port") /= <<>>
            /\ Holds(Says(file, Len(file), "key"), PublicKey)
            /\ HoldsAddress(Says(file, Len(file), "ip"))

\* What a setting may be read as: its last value in the lines that fit, or
\* the beginning of the value in which the reading stops.
Readings(f, name) ==
    LET whole == {i \in 0..Len(f) : Extent(f)[i] <= READ_SIZE}
        k == CHOOSE i \in whole : \A j \in whole : j <= i
    IN  {Says(f, k, name)}
        \cup IF k = Len(f) \/ f[k + 1].name /= name THEN {}
             ELSE {SubSeq(f[k + 1].value, 1, n) : n \in 0..Len(f[k + 1].value)}

AcceptedIsInFile ==
    (loaded /= NotLoaded /\ loaded.code = 0) =>
        /\ loaded.key = PublicKey
        /\ \E v \in Readings(file, "key") : Holds(v, loaded.key)
        /\ Dotted(loaded.ip)
        /\ \E v \in Readings(file, "ip") : Holds(v, loaded.ip)
        /\ \E v \in Readings(file, "port") : \E i, j \in DOMAIN v :
              PortAt(v, i, j) /\ loaded.port = Decimal(SubSeq(v, i, j))

\* A file that fits into the buffer is accepted, by both programs, exactly
\* when no line lacks its separator, every port is one, and the last value of
\* each setting is good but for the blanks around it.  Whatever is accepted
\* is good and stands in the file: as the last value among the lines that were
\* read whole, or as the beginning of the line in which the reading stopped,
\* the one way a long file is misread without an error.
ConfigIsWhatFileSays == FitsIsJudgedWhole /\ AcceptedIsInFile

\* An address is accepted exactly when it is OCTETS numbers of one to three
\* digits up to 255 between dots, and is read as these numbers.
LiteralIsDotted ==
    LET parsed == tsvita_parse_ipv4_literal(text)
    IN  /\ (parsed /= <<>>) = Dotted(text)
        /\ parsed /= <<>> =>
              /\ Len(parsed) = OCTETS
              /\ \A i \in DOMAIN text :
                    (IsDigit(text[i]) /\ (i = Len(text) \/ text[i + 1] = Dot))
                    => parsed[Cardinality(Dots(text, i)) + 1] = Number(text, i)
=============================================================================
