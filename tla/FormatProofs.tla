---------------------------- MODULE FormatProofs ----------------------------
(***************************************************************************)
(* TLAPS proofs about the formats the programs read and write: IPv4        *)
(* addresses in text form and wg-peer.conf (PeerConfig), and IPv4/UDP      *)
(* packets (IpUdpPacket), for inputs of any length.  The loops of the code *)
(* are recursive functions; what they compute is proved by induction,      *)
(* which here starts from the well-foundedness of Nat.                     *)
(***************************************************************************)
EXTENDS PeerConfig, IpUdpPacket, FiniteSetTheorems, SequenceTheorems,
        WellFoundedInduction, TLAPS

-----------------------------------------------------------------------------
(* Induction and loops.                                                   *)

\* A set of numbers that is not empty has a least one: the well-founded
\* order on Nat, without an operator for a parameter.
LEMMA Least ==
    ASSUME NEW S, S \subseteq Nat, S /= {}
    PROVE  \E m \in S : \A n \in S : m <= n
<1> DEFINE R == OpToRel(<, Nat)
<1>1. IsWellFoundedOn(R, Nat)
  BY NatLessThanWellFounded
<1>2. PICK m \in S : \A n \in S : ~(<<n, m>> \in R)
  <2> HIDE DEF R
  <2> QED BY <1>1, WFMin
<1>3. \A n \in S : ~(n < m)
  BY <1>2 DEF OpToRel
<1> QED BY <1>3

\* Induction on a set of numbers, the form in which the loops over the bytes
\* and the lines are followed.
LEMMA Induct ==
    ASSUME NEW S, 0 \in S, \A n \in Nat : n \in S => n + 1 \in S
    PROVE  Nat \subseteq S
<1> DEFINE T == {n \in Nat : n \notin S}
<1> SUFFICES ASSUME T /= {} PROVE FALSE
  OBVIOUS
<1>1. PICK m \in T : \A n \in T : m <= n
  <2>1. T \subseteq Nat
    OBVIOUS
  <2> HIDE DEF T
  <2> QED BY <2>1, Least
<1>2. m /= 0 /\ m - 1 \in Nat /\ m - 1 \notin T
  BY <1>1
<1> QED BY <1>1, <1>2

\* d holds the states of a loop of n turns that starts with base.
Iterates(d, A, base, n, step) ==
    /\ d \in [0..n -> A] /\ d[0] = base
    /\ \A i \in 1..n : d[i] = step[i][d[i - 1]]

\* A loop of n turns has its states, so the recursive functions below that
\* stand for the loops of the C code are defined.
LEMMA Iteration ==
    ASSUME NEW A, NEW base \in A, NEW n \in Nat, NEW step \in [1..n -> [A -> A]]
    PROVE  \E d : Iterates(d, A, base, n, step)
<1> DEFINE P(k) == \E d \in [0..k -> A] :
                       d[0] = base /\ \A i \in 1..k : d[i] = step[i][d[i - 1]]
<1> DEFINE S == {k \in Nat : k <= n => P(k)}
<1>1. P(0)
  <2> DEFINE d == [i \in 0..0 |-> base]
  <2>1. d \in [0..0 -> A] /\ d[0] = base /\ \A i \in 1..0 : d[i] = step[i][d[i-1]]
    OBVIOUS
  <2> HIDE DEF d
  <2> QED BY <2>1
<1>2. ASSUME NEW k \in Nat, k + 1 <= n, P(k) PROVE P(k + 1)
  <2>1. PICK d \in [0..k -> A] : d[0] = base /\ \A i \in 1..k : d[i] = step[i][d[i-1]]
    BY <1>2
  <2> DEFINE e == [i \in 0..k + 1 |-> IF i = k + 1 THEN step[k+1][d[k]] ELSE d[i]]
  <2>2. k + 1 \in 1..n /\ d[k] \in A
    BY <1>2
  <2>3. step[k+1][d[k]] \in A
    BY <2>2
  <2>4. e \in [0..k + 1 -> A]
    BY <2>3
  <2>5. e[0] = base
    BY <2>1
  <2>6. ASSUME NEW i \in 1..k + 1 PROVE e[i] = step[i][e[i-1]]
    <3>1. CASE i = k + 1
      <4>1. i - 1 = k /\ i - 1 \in 0..k + 1 /\ i - 1 /= k + 1
        BY <3>1
      <4>2. e[i - 1] = d[k]
        BY <4>1
      <4> QED BY <3>1, <4>2
    <3>2. CASE i /= k + 1
      <4>1. i \in 1..k /\ i \in 0..k + 1 /\ i - 1 \in 0..k + 1 /\ i - 1 /= k + 1
        BY <3>2
      <4>2. e[i] = d[i] /\ e[i - 1] = d[i - 1]
        BY <3>2, <4>1
      <4> QED BY <2>1, <4>1, <4>2
    <3> QED BY <3>1, <3>2
  <2> HIDE DEF e
  <2> QED BY <2>4, <2>5, <2>6
<1>3. Nat \subseteq S
  <2> HIDE DEF P
  <2>1. 0 \in S /\ \A k \in Nat : k \in S => k + 1 \in S
    BY <1>1, <1>2
  <2> HIDE DEF S
  <2> QED BY <2>1, Induct
<1>4. P(n)
  <2> HIDE DEF P
  <2> QED BY <1>3
<1> QED BY <1>4 DEF Iterates

\* A function that obeys the equations of a loop takes its values where the
\* turns of the loop do.
LEMMA Typed ==
    ASSUME NEW A, NEW base \in A, NEW n \in Nat, NEW step \in [1..n -> [A -> A]],
           NEW f, f = [i \in 0..n |-> f[i]], f[0] = base,
           \A i \in 1..n : f[i - 1] \in A => f[i] = step[i][f[i - 1]]
    PROVE  Iterates(f, A, base, n, step)
<1> DEFINE S == {k \in Nat : k <= n => f[k] \in A}
<1>1. ASSUME NEW k \in Nat, k + 1 <= n, f[k] \in A PROVE f[k + 1] \in A
  <2>1. k + 1 \in 1..n /\ (k + 1) - 1 = k
    BY <1>1
  <2>2. f[k + 1] = step[k + 1][f[k]]
    BY <1>1, <2>1
  <2> QED BY <1>1, <2>1, <2>2
<1>2. 0 \in S /\ \A k \in Nat : k \in S => k + 1 \in S
  BY <1>1
<1>3. Nat \subseteq S
  <2> HIDE DEF S
  <2> QED BY <1>2, Induct
<1>4. \A k \in 0..n : f[k] \in A
  BY <1>3
<1>5. f \in [0..n -> A]
  BY <1>4
<1>6. ASSUME NEW i \in 1..n PROVE f[i] = step[i][f[i - 1]]
  <2>1. i - 1 \in 0..n
    OBVIOUS
  <2> QED BY <1>4, <2>1
<1> QED BY <1>5, <1>6 DEF Iterates

-----------------------------------------------------------------------------
(* tsvita_parse_ipv4_literal.                                              *)

\* What tsvita_parse_ipv4_literal keeps between two characters.
Cursors == [result : {"ok", "refused"}, value : Nat, digits : Nat,
            octets : Seq(Nat)]

\* A character leads from one state of tsvita_parse_ipv4_literal to another.
LEMMA EatTyped ==
    ASSUME NEW s \in Cursors, NEW c \in Nat
    PROVE  EatCharacter(s, c) \in Cursors
<1>1. CASE s.result = "refused"
  BY <1>1 DEF EatCharacter, Cursors
<1>2. CASE s.result = "ok" /\ IsDigit(c)
  <2>1. EatCharacter(s, c) = EatDigit(s, c)
    BY <1>2 DEF EatCharacter, Dot, IsDigit
  <2>2. s.value * 10 + (c - 48) \in Nat /\ s.digits + 1 \in Nat
    BY <1>2 DEF IsDigit, Cursors
  <2> QED BY <2>1, <2>2 DEF EatDigit, Cursors
<1>3. CASE s.result = "ok" /\ c = Dot
  <2>1. EatCharacter(s, c) = EatDot(s)
    BY <1>3 DEF EatCharacter, Dot, IsDigit
  <2>2. Append(s.octets, s.value) \in Seq(Nat)
    BY DEF Cursors
  <2>3. \A o \in Seq(Nat) : [s EXCEPT !.octets = o, !.value = 0, !.digits = 0] \in Cursors
    BY DEF Cursors
  <2>4. [s EXCEPT !.result = "refused"] \in Cursors
    BY DEF Cursors
  <2> QED BY <2>1, <2>2, <2>3, <2>4 DEF EatDot
<1>4. CASE s.result = "ok" /\ ~IsDigit(c) /\ c /= Dot
  BY <1>4 DEF EatCharacter, Cursors
<1> QED BY <1>1, <1>2, <1>3, <1>4 DEF Cursors

\* The parser's loop, one character at a time.
LEMMA CursorUnfolds ==
    ASSUME NEW t \in Seq(Nat)
    PROVE  /\ Cursor(t) \in [0..Len(t) -> Cursors]
           /\ Cursor(t)[0] = [result |-> "ok", value |-> 0, digits |-> 0, octets |-> <<>>]
           /\ \A i \in 1..Len(t) : Cursor(t)[i] = EatCharacter(Cursor(t)[i - 1], t[i])
<1> DEFINE n == Len(t)
           base == [result |-> "ok", value |-> 0, digits |-> 0, octets |-> <<>>]
           step == [i \in 1..n |-> [s \in Cursors |-> EatCharacter(s, t[i])]]
           Q(f) == f = [i \in 0..n |-> IF i = 0 THEN base ELSE EatCharacter(f[i - 1], t[i])]
<1>1. n \in Nat /\ base \in Cursors
  BY DEF Cursors
<1>2. step \in [1..n -> [Cursors -> Cursors]]
  <2>1. \A i \in 1..n : t[i] \in Nat
    OBVIOUS
  <2> QED BY <2>1, EatTyped
<1>3. \A i \in 1..n : \A s \in Cursors : step[i][s] = EatCharacter(s, t[i])
  OBVIOUS
<1> HIDE DEF step
<1>4. PICK d : Iterates(d, Cursors, base, n, step)
  <2> HIDE DEF n, base
  <2> QED BY <1>1, <1>2, Iteration
<1>5. Q(d)
  <2>1. \A i \in 1..n : i - 1 \in 0..n
    BY <1>1
  <2>2. \A i \in 1..n : d[i] = EatCharacter(d[i - 1], t[i])
    <3> HIDE DEF n, base
    <3> QED BY <1>3, <1>4, <2>1 DEF Iterates
  <2> HIDE DEF n, base
  <2> QED BY <1>1, <1>4, <2>2 DEF Iterates
<1>6. Cursor(t) = CHOOSE f : Q(f)
  BY DEF Cursor
<1>7. Q(Cursor(t))
  <2> HIDE DEF Q
  <2> QED BY <1>5, <1>6
<1>8. /\ Cursor(t) = [i \in 0..n |-> Cursor(t)[i]] /\ Cursor(t)[0] = base
      /\ \A i \in 1..n : Cursor(t)[i] = EatCharacter(Cursor(t)[i - 1], t[i])
  <2>1. ASSUME NEW i \in 0..n
        PROVE  Cursor(t)[i] = IF i = 0 THEN base ELSE EatCharacter(Cursor(t)[i - 1], t[i])
    <3> HIDE DEF n, base
    <3> QED BY <1>7
  <2>2. DOMAIN Cursor(t) = 0..n
    <3> HIDE DEF n, base
    <3> QED BY <1>7
  <2>3. Cursor(t) = [i \in 0..n |-> Cursor(t)[i]]
    <3> HIDE DEF n, base
    <3> QED BY <1>7
  <2> HIDE DEF n, base
  <2> QED BY <1>1, <2>1, <2>3
<1>9. Iterates(Cursor(t), Cursors, base, n, step)
  <2> HIDE DEF n, base
  <2>1. \A i \in 1..n : Cursor(t)[i - 1] \in Cursors => Cursor(t)[i] = step[i][Cursor(t)[i - 1]]
    BY <1>3, <1>8
  <2> QED BY <1>1, <1>2, <1>8, <2>1, Typed
<1> QED BY <1>8, <1>9 DEF Iterates

\* The dots so far, counted as the characters are read.
LEMMA DotsCount ==
    ASSUME NEW t, NEW i \in Nat
    PROVE  /\ Cardinality(Dots(t, i)) \in Nat
           /\ Cardinality(Dots(t, 0)) = 0
           /\ t[i + 1] = Dot => Cardinality(Dots(t, i + 1)) = Cardinality(Dots(t, i)) + 1
           /\ t[i + 1] /= Dot => Cardinality(Dots(t, i + 1)) = Cardinality(Dots(t, i))
<1>1. IsFiniteSet(Dots(t, i))
  <2>1. IsFiniteSet(1..i) /\ Dots(t, i) \subseteq 1..i
    BY FS_Interval DEF Dots
  <2> QED BY <2>1, FS_Subset
<1>2. Cardinality(Dots(t, i)) \in Nat
  BY <1>1, FS_CardinalityType
<1>3. Dots(t, 0) = {}
  BY DEF Dots
<1>4. Cardinality(Dots(t, 0)) = 0
  BY <1>3, FS_EmptySet
<1>5. CASE t[i + 1] = Dot
  <2>1. Dots(t, i + 1) = Dots(t, i) \cup {i + 1} /\ i + 1 \notin Dots(t, i)
    BY <1>5 DEF Dots
  <2> QED BY <1>1, <1>2, <1>4, <1>5, <2>1, FS_AddElement
<1>6. CASE t[i + 1] /= Dot
  <2>1. Dots(t, i + 1) = Dots(t, i)
    BY <1>6 DEF Dots
  <2> QED BY <1>2, <1>4, <1>6, <2>1
<1> QED BY <1>5, <1>6

\* The last number of the text: how many digits it has and what they make.
LastNumber(t, i, s) ==
    \/ s.digits = 0 /\ s.value = 0 /\ (i = 0 \/ t[i] = Dot)
    \/ /\ s.digits = 1 /\ i > 0 /\ IsDigit(t[i]) /\ s.value = t[i] - 48
       /\ i = 1 \/ t[i - 1] = Dot
    \/ /\ s.digits = 2 /\ i > 1 /\ IsDigit(t[i]) /\ IsDigit(t[i - 1])
       /\ s.value = 10 * (t[i - 1] - 48) + (t[i] - 48)
       /\ i = 2 \/ t[i - 2] = Dot
    \/ /\ s.digits = 3 /\ i > 2
       /\ IsDigit(t[i]) /\ IsDigit(t[i - 1]) /\ IsDigit(t[i - 2])
       /\ s.value = 100 * (t[i - 2] - 48) + 10 * (t[i - 1] - 48) + (t[i] - 48)

\* The digit that tsvita_parse_ipv4_literal reads is refused exactly when it
\* makes a fourth digit or a number above 255.
LEMMA DigitEaten ==
    ASSUME NEW t \in Seq(Nat), NEW i \in Nat, i < Len(t), NEW s \in Cursors,
           s.result = "ok", LastNumber(t, i, s), IsDigit(t[i + 1])
    PROVE  /\ EatDigit(s, t[i + 1]).result = "ok" <=> GoodAt(t, i + 1)
           /\ EatDigit(s, t[i + 1]).octets = s.octets
           /\ EatDigit(s, t[i + 1]).result = "ok" => LastNumber(t, i + 1, EatDigit(s, t[i + 1]))
<1> DEFINE e == EatDigit(s, t[i + 1])
           D(j) == IF j > 0 /\ IsDigit(t[j]) THEN t[j] - 48 ELSE 0
           v == s.value * 10 + (t[i + 1] - 48)
<1>1. ~IsDigit(Dot) /\ \A x : IsDigit(x) => x \in 48..57
  BY DEF IsDigit, Dot
<1>2. Number(t, i + 1) = (t[i + 1] - 48) + 10 * D(i)
                         + IF i > 0 /\ IsDigit(t[i]) THEN 100 * D(i - 1) ELSE 0
  BY DEF Number
<1>3. /\ e.octets = s.octets
      /\ e.result = "ok" <=> s.digits /= 3 /\ v <= 255
      /\ e.result = "ok" => e.value = v /\ e.digits = s.digits + 1
  <2> HIDE DEF v
  <2> QED BY SMTT(20) DEF EatDigit, Cursors, v
<1>4. GoodAt(t, i + 1) <=> /\ Number(t, i + 1) <= 255
                           /\ i > 2 => \E j \in (i - 2)..i : ~IsDigit(t[j])
  BY <1>1 DEF GoodAt
<1> HIDE DEF e
<1>5. CASE s.digits = 0 /\ s.value = 0 /\ (i = 0 \/ t[i] = Dot)
  <2>1. D(i) = 0 /\ ~(i > 0 /\ IsDigit(t[i]))
    BY <1>1, <1>5
  <2>2. Number(t, i + 1) = v /\ v = t[i + 1] - 48
    <3> HIDE DEF D
    <3> QED BY <1>1, <1>2, <1>5, <2>1
  <2>3. i > 2 => \E j \in (i - 2)..i : ~IsDigit(t[j])
    BY <2>1
  <2>4. e.result = "ok" => LastNumber(t, i + 1, e)
    BY <1>1, <1>3, <1>5, <2>2 DEF LastNumber
  <2> QED BY <1>3, <1>4, <1>5, <2>2, <2>3, <2>4 DEF e
<1>6. CASE /\ s.digits = 1 /\ i > 0 /\ IsDigit(t[i]) /\ s.value = t[i] - 48
           /\ i = 1 \/ t[i - 1] = Dot
  <2>1. D(i) = t[i] - 48 /\ D(i - 1) = 0 /\ t[i] \in 48..57
        /\ (i > 1 => ~IsDigit(t[i - 1]))
    BY <1>1, <1>6
  <2>2. Number(t, i + 1) = v /\ v = 10 * (t[i] - 48) + (t[i + 1] - 48)
    <3> HIDE DEF D
    <3> QED BY <1>1, <1>2, <1>6, <2>1, SMTT(20)
  <2>3. i > 2 => \E j \in (i - 2)..i : ~IsDigit(t[j])
    <3>1. i > 2 => i - 1 \in (i - 2)..i
      OBVIOUS
    <3> QED BY <2>1, <3>1
  <2>4. e.result = "ok" => LastNumber(t, i + 1, e)
    BY <1>1, <1>3, <1>6, <2>2 DEF LastNumber
  <2> QED BY <1>3, <1>4, <1>6, <2>2, <2>3, <2>4 DEF e
<1>7. CASE /\ s.digits = 2 /\ i > 1 /\ IsDigit(t[i]) /\ IsDigit(t[i - 1])
           /\ s.value = 10 * (t[i - 1] - 48) + (t[i] - 48)
           /\ i = 2 \/ t[i - 2] = Dot
  <2> DEFINE x == t[i]
             y == t[i - 1]
             z == t[i + 1]
  <2>1. /\ D(i) = x - 48 /\ D(i - 1) = y - 48
        /\ x \in 48..57 /\ y \in 48..57 /\ z \in 48..57
    <3>1. i > 0 /\ i - 1 > 0
      BY <1>7
    <3>2. x \in 48..57 /\ y \in 48..57 /\ z \in 48..57
      BY <1>1, <1>7
    <3> QED BY <1>7, <3>1, <3>2
  <2>5. i > 2 => ~IsDigit(t[i - 2])
    <3>1. i = 2 \/ t[i - 2] = Dot
      BY <1>7
    <3>2. i > 2 => i /= 2
      OBVIOUS
    <3> QED BY ONLY <1>1, <3>1, <3>2
  <2>2. Number(t, i + 1) = v
        /\ v = 100 * (t[i - 1] - 48) + 10 * (t[i] - 48) + (t[i + 1] - 48)
    <3>1. Number(t, i + 1) = (z - 48) + 10 * D(i) + 100 * D(i - 1)
      <4> HIDE DEF D
      <4> QED BY <1>2, <1>7
    <3>2. v = (10 * (y - 48) + (x - 48)) * 10 + (z - 48)
      BY <1>7
    <3> HIDE DEF D, v, x, y, z
    <3>3. Number(t, i + 1) = v /\ v = 100 * (y - 48) + 10 * (x - 48) + (z - 48)
      BY <2>1, <3>1, <3>2
    <3> QED BY <3>3 DEF x, y, z
  <2>3. i > 2 => \E j \in (i - 2)..i : ~IsDigit(t[j])
    <3>1. i > 2 => i - 2 \in (i - 2)..i
      OBVIOUS
    <3> QED BY <2>5, <3>1
  <2>4. e.result = "ok" => LastNumber(t, i + 1, e)
    BY <1>1, <1>3, <1>7, <2>2 DEF LastNumber
  <2> QED BY <1>3, <1>4, <1>7, <2>2, <2>3, <2>4 DEF e
<1>8. CASE /\ s.digits = 3 /\ i > 2
           /\ IsDigit(t[i]) /\ IsDigit(t[i - 1]) /\ IsDigit(t[i - 2])
  <2>1. \A j \in (i - 2)..i : j = i - 2 \/ j = i - 1 \/ j = i
    OBVIOUS
  <2> QED BY <1>3, <1>4, <1>8, <2>1 DEF e
<1> QED BY <1>5, <1>6, <1>7, <1>8 DEF LastNumber

\* What the parser has of the last octet is the number that stands there.
LEMMA LastNumberIsNumber ==
    ASSUME NEW t \in Seq(Nat), NEW i \in Nat, NEW s, LastNumber(t, i, s)
    PROVE  /\ s.digits /= 0 => s.value = Number(t, i)
           /\ s.digits /= 0 <=> i > 0 /\ IsDigit(t[i])
<1> DEFINE D(j) == IF j > 0 /\ IsDigit(t[j]) THEN t[j] - 48 ELSE 0
<1>1. ~IsDigit(Dot) /\ \A x : IsDigit(x) => x \in 48..57
  BY DEF IsDigit, Dot
<1>2. Number(t, i) = D(i) + 10 * D(i - 1)
                     + IF i > 1 /\ IsDigit(t[i - 1]) THEN 100 * D(i - 2) ELSE 0
  BY DEF Number
<1>3. CASE s.digits = 0 /\ s.value = 0 /\ (i = 0 \/ t[i] = Dot)
  BY <1>1, <1>3
<1>4. CASE /\ s.digits = 1 /\ i > 0 /\ IsDigit(t[i]) /\ s.value = t[i] - 48
           /\ i = 1 \/ t[i - 1] = Dot
  <2>1. D(i) = t[i] - 48 /\ D(i - 1) = 0 /\ t[i] \in 48..57
        /\ ~(i > 1 /\ IsDigit(t[i - 1]))
    BY <1>1, <1>4
  <2> HIDE DEF D
  <2> QED BY <1>2, <1>4, <2>1
<1>5. CASE /\ s.digits = 2 /\ i > 1 /\ IsDigit(t[i]) /\ IsDigit(t[i - 1])
           /\ s.value = 10 * (t[i - 1] - 48) + (t[i] - 48)
           /\ i = 2 \/ t[i - 2] = Dot
  <2>1. t[i] \in 48..57 /\ t[i - 1] \in 48..57 /\ i > 0 /\ i - 1 > 0
    BY <1>1, <1>5
  <2>2. D(i) = t[i] - 48 /\ D(i - 1) = t[i - 1] - 48
    BY <1>5, <2>1
  <2>3. D(i - 2) = 0
    BY <1>1, <1>5
  <2>4. Number(t, i) = D(i) + 10 * D(i - 1) + 100 * D(i - 2)
    <3> HIDE DEF D
    <3> QED BY <1>2, <1>5
  <2>5. Number(t, i) = (t[i] - 48) + 10 * (t[i - 1] - 48) + 100 * 0
    <3> HIDE DEF D
    <3> QED BY <2>2, <2>3, <2>4
  <2>6. s.value = 10 * (t[i - 1] - 48) + (t[i] - 48)
    BY <1>5
  <2>7. s.value = Number(t, i)
    <3> DEFINE x == t[i]
               y == t[i - 1]
    <3>1. x \in 48..57 /\ y \in 48..57 /\ Number(t, i) = (x - 48) + 10 * (y - 48) + 100 * 0
          /\ s.value = 10 * (y - 48) + (x - 48)
      BY <2>1, <2>5, <2>6
    <3> HIDE DEF x, y
    <3> QED BY ONLY <3>1
  <2> QED BY <1>5, <2>7
<1>6. CASE /\ s.digits = 3 /\ i > 2
           /\ IsDigit(t[i]) /\ IsDigit(t[i - 1]) /\ IsDigit(t[i - 2])
           /\ s.value = 100 * (t[i - 2] - 48) + 10 * (t[i - 1] - 48) + (t[i] - 48)
  <2>1. t[i] \in 48..57 /\ t[i - 1] \in 48..57 /\ t[i - 2] \in 48..57
    BY <1>1, <1>6
  <2>2. D(i) = t[i] - 48 /\ D(i - 1) = t[i - 1] - 48 /\ D(i - 2) = t[i - 2] - 48
    <3>1. i > 0 /\ i - 1 > 0 /\ i - 2 > 0
      BY <1>6
    <3> QED BY <1>6, <3>1
  <2>3. Number(t, i) = D(i) + 10 * D(i - 1) + 100 * D(i - 2)
    <3> HIDE DEF D
    <3> QED BY <1>2, <1>6
  <2>4. Number(t, i) = (t[i] - 48) + 10 * (t[i - 1] - 48) + 100 * (t[i - 2] - 48)
    <3> HIDE DEF D
    <3> QED BY <2>2, <2>3
  <2>5. s.value = 100 * (t[i - 2] - 48) + 10 * (t[i - 1] - 48) + (t[i] - 48)
    BY <1>6
  <2>6. s.value = Number(t, i)
    <3> DEFINE x == t[i]
               y == t[i - 1]
               z == t[i - 2]
    <3>1. /\ x \in 48..57 /\ y \in 48..57 /\ z \in 48..57
          /\ Number(t, i) = (x - 48) + 10 * (y - 48) + 100 * (z - 48)
          /\ s.value = 100 * (z - 48) + 10 * (y - 48) + (x - 48)
      BY <2>1, <2>4, <2>5
    <3> HIDE DEF x, y, z
    <3> QED BY ONLY <3>1
  <2> QED BY <1>6, <2>6
<1> QED BY <1>3, <1>4, <1>5, <1>6 DEF LastNumber

\* What the cursor knows after i characters.
Reads(t, i, s) ==
    /\ s.result = "ok" <=> /\ \A j \in 1..i : GoodAt(t, j)
                           /\ Cardinality(Dots(t, i)) < OCTETS
    /\ s.result = "ok" =>
        /\ LastNumber(t, i, s) /\ Len(s.octets) = Cardinality(Dots(t, i))
        /\ \A j \in 1..(i - 1) :
              IsDigit(t[j]) /\ t[j + 1] = Dot =>
                /\ Cardinality(Dots(t, j)) < Len(s.octets)
                /\ s.octets[Cardinality(Dots(t, j)) + 1] = Number(t, j)

\* Every turn of the loop of tsvita_parse_ipv4_literal keeps that.
LEMMA CharacterRead ==
    ASSUME ConfigAssumption, NEW t \in Seq(Nat), NEW i \in Nat, i < Len(t),
           NEW s \in Cursors, Reads(t, i, s)
    PROVE  Reads(t, i + 1, EatCharacter(s, t[i + 1]))
<1> DEFINE e == EatCharacter(s, t[i + 1])
           D(j) == Cardinality(Dots(t, j))
           old == D(i)
           new == D(i + 1)
           good == GoodAt(t, i + 1)
           before == \A j \in 1..i : GoodAt(t, j)
           all == \A j \in 1..(i + 1) : GoodAt(t, j)
           Found(r, j) == /\ D(j) < Len(r.octets)
                          /\ r.octets[D(j) + 1] = Number(t, j)
<1>1. ~IsDigit(Dot) /\ OCTETS \in Nat /\ OCTETS > 0 /\ (i + 1) - 1 = i
  BY DEF IsDigit, Dot, ConfigAssumption
<1>2. /\ \A j \in Nat : D(j) \in Nat
      /\ old \in Nat /\ new \in Nat
      /\ t[i + 1] = Dot => new = old + 1
      /\ t[i + 1] /= Dot => new = old
  BY DotsCount
<1>3. all <=> before /\ good
  <2>1. i + 1 \in 1..(i + 1) /\ \A j \in 1..(i + 1) : j \in 1..i \/ j = i + 1
    BY SMTT(20)
  <2>2. \A j \in 1..i : j \in 1..(i + 1)
    OBVIOUS
  <2> QED BY <2>1, <2>2
<1>4. s.result = "ok" <=> before /\ old < OCTETS
  BY DEF Reads
<1>5. Reads(t, i + 1, e) <=>
          /\ e.result = "ok" <=> all /\ new < OCTETS
          /\ e.result = "ok" =>
                /\ LastNumber(t, i + 1, e) /\ Len(e.octets) = new
                /\ \A j \in 1..i : IsDigit(t[j]) /\ t[j + 1] = Dot => Found(e, j)
  <2> HIDE DEF e
  <2> QED BY <1>1 DEF Reads
<1>6. CASE s.result = "refused"
  <2>1. e = s
    BY <1>6 DEF EatCharacter
  <2> HIDE DEF old, new, good, before, all, e
  <2>2. ~before \/ ~(old < OCTETS)
    BY <1>4, <1>6
  <2>3. new = old \/ new = old + 1
    BY <1>2
  <2>4. old \in Nat /\ OCTETS \in Nat
    BY <1>1, <1>2
  <2>5. ~(old < OCTETS) => ~(new < OCTETS)
    BY ONLY <2>3, <2>4
  <2>6. ~(all /\ new < OCTETS)
    BY <1>3, <2>2, <2>5
  <2> QED BY <1>5, <1>6, <2>1, <2>6 DEF e
<1>7. CASE s.result = "ok"
  <2>1. /\ LastNumber(t, i, s) /\ Len(s.octets) = old
        /\ \A j \in 1..(i - 1) : IsDigit(t[j]) /\ t[j + 1] = Dot => Found(s, j)
    BY <1>7 DEF Reads
  <2>2. before /\ old < OCTETS
    BY <1>4, <1>7
  <2>3. \A j \in 1..i : j \in 1..(i - 1) \/ j = i
    OBVIOUS
  <2>4. CASE IsDigit(t[i + 1])
    <3>1. t[i + 1] /= Dot /\ e = EatDigit(s, t[i + 1])
      BY <1>1, <1>7, <2>4 DEF EatCharacter
    <3>2. /\ e.result = "ok" <=> good
          /\ e.octets = s.octets
          /\ e.result = "ok" => LastNumber(t, i + 1, e)
      <4> HIDE DEF e
      <4> QED BY <1>7, <2>1, <2>4, <3>1, DigitEaten
    <3>3. ASSUME NEW j \in 1..i, IsDigit(t[j]), t[j + 1] = Dot
          PROVE  Found(e, j)
      <4>1. j \in 1..(i - 1)
        BY <2>3, <3>1, <3>3
      <4>2. Found(s, j)
        BY <2>1, <3>3, <4>1
      <4> QED BY <3>2, <4>2
    <3> HIDE DEF old, new, good, before, all, e, Found
    <3>4. e.result = "ok" <=> all /\ new < OCTETS
      BY <1>2, <1>3, <2>2, <3>1, <3>2
    <3>5. Len(e.octets) = new
      BY <1>2, <2>1, <3>1, <3>2
    <3> QED BY <1>5, <3>2, <3>3, <3>4, <3>5 DEF e
  <2>5. CASE t[i + 1] = Dot
    <3>1. e = EatDot(s)
      BY <1>1, <1>7, <2>5 DEF EatCharacter
    <3>2. /\ s.digits /= 0 <=> i > 0 /\ IsDigit(t[i])
          /\ s.digits /= 0 => s.value = Number(t, i)
      BY <2>1, LastNumberIsNumber
    <3>3. good <=> s.digits /= 0
      BY <1>1, <2>5, <3>2 DEF GoodAt
    <3> HIDE DEF old, new, good, before, all
    <3>4. /\ e.result = "ok" <=> s.digits /= 0 /\ old /= OCTETS - 1
          /\ e.result = "ok" => /\ e.octets = Append(s.octets, s.value)
                                /\ e.value = 0 /\ e.digits = 0
      BY <1>7, <2>1, <3>1 DEF EatDot, Cursors
    <3> HIDE DEF e
    <3>5. new = old + 1 /\ (new < OCTETS <=> old /= OCTETS - 1)
      <4>1. new = old + 1
        BY <1>2, <2>5
      <4>2. old \in Nat /\ OCTETS \in Nat /\ old < OCTETS
        BY <1>1, <1>2, <2>2
      <4>3. new < OCTETS <=> old /= OCTETS - 1
        BY ONLY <4>1, <4>2
      <4> QED BY <4>1, <4>3
    <3>6. e.result = "ok" <=> all /\ new < OCTETS
      BY <1>3, <2>2, <3>3, <3>4, <3>5
    <3>7. ASSUME e.result = "ok"
          PROVE  /\ LastNumber(t, i + 1, e) /\ Len(e.octets) = new
                 /\ \A j \in 1..i : IsDigit(t[j]) /\ t[j + 1] = Dot => Found(e, j)
      <4>1. LastNumber(t, i + 1, e)
        BY <2>5, <3>4, <3>7 DEF LastNumber
      <4>2. /\ e.octets = Append(s.octets, s.value)
            /\ s.octets \in Seq(Nat) /\ s.value \in Nat
            /\ s.value = Number(t, i)
        BY <3>2, <3>4, <3>7 DEF Cursors
      <4>3. /\ Len(e.octets) = Len(s.octets) + 1
            /\ e.octets[Len(s.octets) + 1] = s.value
            /\ \A k \in 1..Len(s.octets) : e.octets[k] = s.octets[k]
        BY <4>2
      <4>4. Len(e.octets) = new
        BY <2>1, <3>5, <4>3
      <4>5. ASSUME NEW j \in 1..i, IsDigit(t[j]), t[j + 1] = Dot
            PROVE  Found(e, j)
        <5> DEFINE x == D(j)
        <5> USE DEF Found
        <5>1. CASE j = i
          <6>1. x = Len(s.octets)
            BY <2>1, <5>1 DEF old
          <6> HIDE DEF x, D
          <6>2. x < Len(e.octets) /\ e.octets[x + 1] = Number(t, i)
            BY <4>2, <4>3, <6>1
          <6> QED BY <5>1, <6>2 DEF x
        <5>2. CASE j \in 1..(i - 1)
          <6>1. x < Len(s.octets) /\ s.octets[x + 1] = Number(t, j)
            BY <2>1, <4>5, <5>2
          <6>4. x \in Nat
            BY <1>2
          <6> HIDE DEF x, D
          <6>5. Len(s.octets) \in Nat
            BY <4>2
          <6>2. x + 1 \in 1..Len(s.octets) /\ x < Len(e.octets)
            BY ONLY <4>3, <6>1, <6>4, <6>5
          <6>3. e.octets[x + 1] = Number(t, j)
            BY <4>3, <6>1, <6>2
          <6> QED BY <6>2, <6>3 DEF x
        <5> QED BY <2>3, <5>1, <5>2
      <4> HIDE DEF Found
      <4> QED BY <4>1, <4>4, <4>5
    <3> HIDE DEF Found
    <3> QED BY <1>5, <3>6, <3>7 DEF e
  <2>6. CASE ~IsDigit(t[i + 1]) /\ t[i + 1] /= Dot
    <3>1. e.result = "refused"
      BY <1>7, <2>6 DEF EatCharacter, Cursors
    <3>2. ~good
      BY <2>6 DEF GoodAt
    <3> HIDE DEF old, new, good, before, all, e, Found
    <3> QED BY <1>3, <1>5, <3>1, <3>2 DEF e
  <2> QED BY <2>4, <2>5, <2>6
<1> QED BY <1>6, <1>7 DEF Cursors

\* So it holds of the whole text.
LEMMA CursorReads ==
    ASSUME ConfigAssumption, NEW t \in Seq(Nat)
    PROVE  Reads(t, Len(t), Cursor(t)[Len(t)])
<1> DEFINE P(i) == Reads(t, i, Cursor(t)[i])
           S == {i \in Nat : i <= Len(t) => P(i)}
<1>1. P(0)
  <2>1. /\ Cursor(t)[0].result = "ok" /\ Cursor(t)[0].digits = 0
        /\ Cursor(t)[0].value = 0 /\ Cursor(t)[0].octets = <<>>
    BY CursorUnfolds
  <2>2. Cardinality(Dots(t, 0)) = 0 /\ OCTETS \in Nat /\ OCTETS > 0
    BY DotsCount DEF ConfigAssumption
  <2>3. LastNumber(t, 0, Cursor(t)[0])
    BY <2>1 DEF LastNumber
  <2> QED BY <2>1, <2>2, <2>3 DEF Reads
<1>2. ASSUME NEW i \in Nat, i + 1 <= Len(t), P(i) PROVE P(i + 1)
  <2>1. i \in 0..Len(t) /\ i + 1 \in 1..Len(t) /\ (i + 1) - 1 = i /\ i < Len(t)
    BY <1>2
  <2>2. Cursor(t)[i] \in Cursors /\ Cursor(t)[i + 1] = EatCharacter(Cursor(t)[i], t[i + 1])
    BY <2>1, CursorUnfolds
  <2> QED BY <1>2, <2>1, <2>2, CharacterRead
<1>3. 0 \in S /\ \A i \in Nat : i \in S => i + 1 \in S
  <2> HIDE DEF P
  <2> QED BY <1>1, <1>2
<1>4. Nat \subseteq S
  <2> HIDE DEF S
  <2> QED BY <1>3, Induct
<1> HIDE DEF P
<1>5. P(Len(t))
  BY <1>4
<1> QED BY <1>5 DEF P

\* tsvita_parse_ipv4_literal accepts a text exactly when it is dotted, and
\* reads the numbers between the dots.
LEMMA LiteralRead ==
    ASSUME ConfigAssumption, NEW t \in Seq(Nat)
    PROVE  LET parsed == tsvita_parse_ipv4_literal(t)
           IN  /\ (parsed /= <<>>) = Dotted(t)
               /\ parsed /= <<>> =>
                     /\ Len(parsed) = OCTETS
                     /\ \A i \in DOMAIN t :
                           (IsDigit(t[i]) /\ (i = Len(t) \/ t[i + 1] = Dot))
                           => parsed[Cardinality(Dots(t, i)) + 1] = Number(t, i)
<1> DEFINE parsed == tsvita_parse_ipv4_literal(t)
           n == Len(t)
           s == Cursor(t)[n]
           D(j) == Cardinality(Dots(t, j))
           dots == D(n)
           good == s.result = "ok" /\ s.digits > 0 /\ Len(s.octets) = OCTETS - 1
<1>1. n \in Nat /\ s \in Cursors /\ Reads(t, n, s) /\ dots \in Nat /\ OCTETS \in Nat
  BY CursorUnfolds, CursorReads, DotsCount, SMTT(20) DEF ConfigAssumption
<1>2. parsed = IF good THEN Append(s.octets, s.value) ELSE <<>>
  BY DEF tsvita_parse_ipv4_literal
<1>3. s.octets \in Seq(Nat) /\ s.value \in Nat /\ s.digits \in Nat
  BY <1>1 DEF Cursors
<1>4. /\ s.result = "ok" <=> (\A j \in 1..n : GoodAt(t, j)) /\ dots < OCTETS
      /\ s.result = "ok" =>
            /\ LastNumber(t, n, s) /\ Len(s.octets) = dots
            /\ \A j \in 1..(n - 1) :
                  IsDigit(t[j]) /\ t[j + 1] = Dot =>
                      D(j) < Len(s.octets) /\ s.octets[D(j) + 1] = Number(t, j)
  BY <1>1 DEF Reads
<1>5. good <=> Dotted(t)
  <2>1. s.result = "ok" => /\ s.digits /= 0 => s.value = Number(t, n)
                           /\ s.digits /= 0 <=> n > 0 /\ IsDigit(t[n])
    BY <1>1, <1>4, LastNumberIsNumber
  <2>2. n > 0 <=> t /= <<>>
    OBVIOUS
  <2>3. s.digits > 0 <=> s.digits /= 0
    <3> HIDE DEF s
    <3> QED BY <1>3
  <2>4. dots = OCTETS - 1 => dots < OCTETS
    BY <1>1
  <2>5. Dotted(t) <=> /\ n > 0 /\ IsDigit(t[n]) /\ dots = OCTETS - 1
                      /\ \A j \in 1..n : GoodAt(t, j)
    BY <2>2 DEF Dotted
  <2> HIDE DEF n, s, dots
  <2> QED BY <1>4, <2>1, <2>3, <2>4, <2>5
<1> HIDE DEF s
<1>6. (parsed /= <<>>) <=> good
  <2>1. Append(s.octets, s.value) /= <<>>
    <3>1. Len(Append(s.octets, s.value)) = Len(s.octets) + 1 /\ Len(s.octets) \in Nat
      BY <1>3
    <3>2. Len(Append(s.octets, s.value)) /= 0
      BY <3>1
    <3>3. Len(<<>>) = 0
      OBVIOUS
    <3> QED BY ONLY <3>2, <3>3
  <2> HIDE DEF parsed, good
  <2> QED BY <1>2, <2>1
<1>7. ASSUME good
      PROVE  /\ Len(parsed) = OCTETS
             /\ \A i \in 1..n : (IsDigit(t[i]) /\ (i = n \/ t[i + 1] = Dot))
                                => parsed[D(i) + 1] = Number(t, i)
  <2>1. parsed = Append(s.octets, s.value)
    <3> HIDE DEF parsed, good
    <3> QED BY <1>2, <1>7
  <2> HIDE DEF parsed
  <2>2. /\ Len(parsed) = Len(s.octets) + 1
        /\ parsed[Len(s.octets) + 1] = s.value
        /\ \A k \in 1..Len(s.octets) : parsed[k] = s.octets[k]
    BY <1>3, <2>1
  <2>3. Len(parsed) = OCTETS
    <3>1. Len(s.octets) = OCTETS - 1
      BY <1>7
    <3> QED BY <1>1, <2>2, <3>1
  <2>4. s.value = Number(t, n) /\ Len(s.octets) = dots
    <3>1. s.result = "ok" /\ s.digits /= 0
      BY <1>3, <1>7
    <3> QED BY <1>1, <1>4, <3>1, LastNumberIsNumber
  <2>5. ASSUME NEW i \in 1..n, IsDigit(t[i]), i = n \/ t[i + 1] = Dot
        PROVE  parsed[D(i) + 1] = Number(t, i)
    <3>1. CASE i = n
      BY <2>2, <2>4, <3>1
    <3>2. CASE i /= n
      <4> DEFINE x == D(i)
      <4>1. i \in 1..(n - 1) /\ t[i + 1] = Dot
        BY <2>5, <3>2
      <4>2. x < Len(s.octets) /\ s.octets[x + 1] = Number(t, i)
        BY <1>4, <1>7, <2>5, <4>1
      <4>3. x \in Nat /\ Len(s.octets) \in Nat
        BY <1>3, DotsCount, SMTT(20)
      <4> HIDE DEF x
      <4>4. x + 1 \in 1..Len(s.octets)
        BY ONLY <4>2, <4>3
      <4>5. parsed[x + 1] = Number(t, i)
        BY <2>2, <4>2, <4>4
      <4> QED BY <4>5 DEF x
    <3> QED BY <3>1, <3>2
  <2> QED BY <2>3, <2>5
<1>8. (parsed /= <<>>) = Dotted(t)
  <2>1. Dotted(t) \in BOOLEAN
    BY Zenon DEF Dotted
  <2> HIDE DEF parsed, good
  <2> QED BY <1>5, <1>6, <2>1
<1>9. DOMAIN t = 1..n
  OBVIOUS
<1> HIDE DEF parsed, good, D, n
<1>10. parsed /= <<>> =>
          /\ Len(parsed) = OCTETS
          /\ \A i \in DOMAIN t : (IsDigit(t[i]) /\ (i = n \/ t[i + 1] = Dot))
                             => parsed[D(i) + 1] = Number(t, i)
  BY <1>6, <1>7, <1>9
<1> QED BY <1>8, <1>10 DEF parsed, D, n

\* What the variables of the configuration parser hold.
ConfigTypeOK ==
    /\ file \in Seq(Lines) /\ text \in Seq(Characters)
    /\ \/ loaded = NotLoaded
       \/ loaded = Loaded(file, TunnelCode)
       \/ loaded = Loaded(file, ProbeCode)

\* A file is lines, a text is characters, and what is loaded is what one of
\* the two programs makes of the file.
LEMMA ConfigCodes ==
    ConfigSpec => []ConfigTypeOK
<1>1. ConfigInit => ConfigTypeOK
  BY DEF ConfigInit, ConfigTypeOK
<1>2. ConfigTypeOK /\ [ConfigNext]_configVars => ConfigTypeOK'
  <2> SUFFICES ASSUME ConfigTypeOK, [ConfigNext]_configVars PROVE ConfigTypeOK'
    OBVIOUS
  <2>1. ASSUME NEW line \in Lines, WriteLine(line) PROVE ConfigTypeOK'
    BY <2>1 DEF ConfigTypeOK, WriteLine
  <2>2. CASE LoadWith(TunnelCode) \/ LoadWith(ProbeCode)
    BY <2>2 DEF ConfigTypeOK, LoadWith
  <2>3. ASSUME NEW c \in Characters, WriteText(c) PROVE ConfigTypeOK'
    BY <2>3 DEF ConfigTypeOK, WriteText
  <2>4. CASE UNCHANGED configVars
    BY <2>4 DEF ConfigTypeOK, configVars
  <2> QED BY <2>1, <2>2, <2>3, <2>4 DEF ConfigNext
<1> QED BY <1>1, <1>2, PTL DEF ConfigSpec

\* tsvita_parse_ipv4_literal is right on every text, of any length over any
\* alphabet: it accepts the addresses in dotted form, with no number above 255
\* and no octet too few or too many, and reads their octets.
THEOREM ConfigLiteral == ConfigSpec => []LiteralIsDotted
<1>1. ConfigTypeOK => LiteralIsDotted
  <2> SUFFICES ASSUME ConfigTypeOK PROVE LiteralIsDotted
    OBVIOUS
  <2>1. text \in Seq(Nat)
    <3>1. Characters \subseteq Nat
      BY ConfigAssumption DEF ConfigAssumption
    <3>2. text \in Seq(Characters)
      BY DEF ConfigTypeOK
    <3>3. Len(text) \in Nat /\ text = [i \in 1..Len(text) |-> text[i]]
      BY <3>2
    <3>4. ASSUME NEW i \in 1..Len(text) PROVE text[i] \in Nat
      <4>1. text[i] \in Characters
        BY <3>2
      <4> QED BY <3>1, <4>1
    <3> QED BY <3>3, <3>4
  <2> QED BY <2>1, ConfigAssumption, LiteralRead DEF LiteralIsDotted
<1> QED BY <1>1, ConfigCodes, PTL

-----------------------------------------------------------------------------
(* load_peer_config.                                                       *)

\* Every line there may be.
LineSet == [name : {"blank", "bare", "key", "ip", "port", "other"},
            value : Seq(Nat)]

\* A set of numbers up to n that is not empty has a greatest one.
LEMMA Greatest ==
    ASSUME NEW n \in Nat, NEW S, S \subseteq 0..n, S /= {}
    PROVE  \E m \in S : \A i \in S : i <= m
<1> DEFINE T == {n - i : i \in S}
<1>1. \A i \in S : i \in Nat /\ n - i \in Nat
  OBVIOUS
<1>2. T \subseteq Nat /\ T /= {}
  BY <1>1
<1>3. PICK x \in T : \A y \in T : x <= y
  <2> HIDE DEF T
  <2> QED BY <1>2, Least
<1>4. PICK m \in S : x = n - m
  OBVIOUS
<1>5. ASSUME NEW i \in S PROVE i <= m
  <2>1. n - i \in T
    OBVIOUS
  <2>2. n - m <= n - i
    BY <1>3, <1>4, <2>1
  <2>3. i \in Nat /\ m \in Nat
    BY <1>1
  <2> QED BY <2>2, <2>3
<1> QED BY <1>5

\* A part of a text: its length and its characters.
LEMMA PartOfText ==
    ASSUME NEW v \in Seq(Nat), NEW i \in Nat, i > 0, NEW j \in Nat, j <= Len(v),
           i <= j + 1
    PROVE  /\ SubSeq(v, i, j) \in Seq(Nat) /\ Len(SubSeq(v, i, j)) = j - i + 1
           /\ \A k \in 1..(j - i + 1) : SubSeq(v, i, j)[k] = v[k + i - 1]
<1>1. \A k \in i..j : v[k] \in Nat
  <2>1. \A k \in i..j : k \in 1..Len(v)
    OBVIOUS
  <2> QED BY <2>1, ElementOfSeq
<1>2. /\ SubSeq(v, i, j) \in Seq(Nat)
      /\ Len(SubSeq(v, i, j)) = IF i <= j THEN j - i + 1 ELSE 0
      /\ \A k \in 1..(j - i + 1) : SubSeq(v, i, j)[k] = v[i + k - 1]
  BY <1>1, SubSeqProperties
<1>3. (IF i <= j THEN j - i + 1 ELSE 0) = j - i + 1
  OBVIOUS
<1>4. \A k \in 1..(j - i + 1) : i + k - 1 = k + i - 1
  OBVIOUS
<1> QED BY ONLY <1>2, <1>3, <1>4

\* A part of a part is a part.
LEMMA PartOfPart ==
    ASSUME NEW v \in Seq(Nat), NEW i \in Nat, i > 0, NEW j \in Nat, j <= Len(v),
           i <= j + 1, NEW a \in Nat, a > 0, NEW b \in Nat, b <= j - i + 1, a <= b + 1
    PROVE  SubSeq(SubSeq(v, i, j), a, b) = SubSeq(v, i + a - 1, i + b - 1)
<1>1. PICK s : s = SubSeq(v, i, j)
  OBVIOUS
<1>2. /\ s \in Seq(Nat) /\ Len(s) = j - i + 1
      /\ \A k \in 1..(j - i + 1) : s[k] = v[k + i - 1]
  BY ONLY <1>1, v \in Seq(Nat), i \in Nat, i > 0, j \in Nat, j <= Len(v),
          i <= j + 1, PartOfText
<1>3. PICK t, x, y : t = SubSeq(s, a, b) /\ x = i + a - 1 /\ y = i + b - 1
  OBVIOUS
<1>4. b <= Len(s)
  BY ONLY <1>2, b <= j - i + 1
<1>5. /\ t \in Seq(Nat) /\ Len(t) = b - a + 1
      /\ \A k \in 1..(b - a + 1) : t[k] = s[k + a - 1]
  BY ONLY <1>2, <1>3, <1>4, a \in Nat, a > 0, b \in Nat, a <= b + 1, PartOfText
<1>6. Len(v) \in Nat
  OBVIOUS
<1>7. /\ x \in Nat /\ x > 0 /\ y \in Nat /\ y <= Len(v) /\ x <= y + 1
      /\ y - x + 1 = b - a + 1
  BY ONLY <1>3, <1>6, i \in Nat, i > 0, j \in Nat, j <= Len(v), a \in Nat, a > 0,
          b \in Nat, b <= j - i + 1, a <= b + 1
<1>8. PICK u : u = SubSeq(v, x, y)
  OBVIOUS
<1>9. /\ u \in Seq(Nat) /\ Len(u) = y - x + 1
      /\ \A k \in 1..(y - x + 1) : u[k] = v[k + x - 1]
  BY ONLY <1>7, <1>8, v \in Seq(Nat), PartOfText
<1>10. ASSUME NEW k \in 1..(b - a + 1) PROVE t[k] = u[k]
  <2>1. /\ k + a - 1 \in 1..(j - i + 1) /\ (k + a - 1) + i - 1 = k + x - 1
        /\ k \in 1..(y - x + 1)
    BY ONLY <1>3, <1>7, k \in 1..(b - a + 1), i \in Nat, j \in Nat, a \in Nat, a > 0,
            b \in Nat, b <= j - i + 1
  <2> QED BY ONLY <1>2, <1>5, <1>9, <2>1, k \in 1..(b - a + 1)
<1>11. t = u
  <2>1. Len(t) = Len(u) /\ \A k \in 1..Len(t) : t[k] = u[k]
    BY ONLY <1>5, <1>7, <1>9, <1>10
  <2> QED BY ONLY <1>5, <1>9, <2>1, SeqEqual
<1> QED BY ONLY <1>1, <1>3, <1>8, <1>11

\* A loop over skipped characters stops, and at one place only.
LEMMA FirstNotIs ==
    ASSUME NEW v \in Seq(Nat), NEW skipped
    PROVE  /\ FirstNot(v, skipped) \in 1..(Len(v) + 1)
           /\ FirstNot(v, skipped) > Len(v) \/ v[FirstNot(v, skipped)] \notin skipped
           /\ \A j \in 1..(FirstNot(v, skipped) - 1) : v[j] \in skipped
           /\ \A i \in 1..Len(v) :
                 (v[i] \notin skipped /\ \A j \in 1..(i - 1) : v[j] \in skipped)
                 => FirstNot(v, skipped) = i
<1> DEFINE n == Len(v)
           Q(i) == /\ i > n \/ v[i] \notin skipped
                   /\ \A j \in 1..(i - 1) : v[j] \in skipped
           S == {i \in 1..(n + 1) : i > n \/ v[i] \notin skipped}
           a == FirstNot(v, skipped)
<1>1. n \in Nat
  OBVIOUS
<1> HIDE DEF n
<1>2. PICK m \in S : \A i \in S : m <= i
  <2>1. S \subseteq Nat /\ n + 1 \in S
    BY <1>1
  <2> HIDE DEF S
  <2> QED BY <2>1, Least
<1>3. m \in 1..(n + 1) /\ Q(m)
  <2>1. ASSUME NEW j \in 1..(m - 1) PROVE v[j] \in skipped
    BY <1>1, <1>2
  <2> QED BY <1>2, <2>1
<1>4. a = CHOOSE i \in 1..(n + 1) : Q(i)
  BY DEF FirstNot, n
<1>5. a \in 1..(n + 1) /\ Q(a)
  <2> HIDE DEF Q, a
  <2> QED BY <1>3, <1>4
<1> HIDE DEF a
<1>6. ASSUME NEW i \in 1..n, v[i] \notin skipped, \A j \in 1..(i - 1) : v[j] \in skipped
      PROVE  a = i
  <2>1. ~(a < i)
    <3> SUFFICES ASSUME a < i PROVE FALSE
      OBVIOUS
    <3>1. a \in 1..(i - 1) /\ ~(a > n)
      BY <1>1, <1>5
    <3> QED BY <1>5, <1>6, <3>1
  <2>2. ~(i < a)
    <3> SUFFICES ASSUME i < a PROVE FALSE
      OBVIOUS
    <3>1. i \in 1..(a - 1)
      BY <1>1, <1>5
    <3> QED BY <1>5, <1>6, <3>1
  <2>3. a \in Nat /\ i \in Nat
    BY <1>1, <1>5
  <2> QED BY ONLY <2>1, <2>2, <2>3
<1> QED BY <1>5, <1>6 DEF a, n

\* The same from behind.
LEMMA LastNotIs ==
    ASSUME NEW v \in Seq(Nat), NEW skipped
    PROVE  /\ LastNot(v, skipped) \in 0..Len(v)
           /\ LastNot(v, skipped) = 0 \/ v[LastNot(v, skipped)] \notin skipped
           /\ \A j \in (LastNot(v, skipped) + 1)..Len(v) : v[j] \in skipped
           /\ \A i \in 1..Len(v) :
                 (v[i] \notin skipped /\ \A j \in (i + 1)..Len(v) : v[j] \in skipped)
                 => LastNot(v, skipped) = i
<1> DEFINE n == Len(v)
           Q(i) == /\ i = 0 \/ v[i] \notin skipped
                   /\ \A j \in (i + 1)..n : v[j] \in skipped
           S == {i \in 0..n : i = 0 \/ v[i] \notin skipped}
           a == LastNot(v, skipped)
<1>1. n \in Nat
  OBVIOUS
<1> HIDE DEF n
<1>2. PICK m \in S : \A i \in S : i <= m
  <2>1. S \subseteq 0..n /\ 0 \in S
    BY <1>1
  <2> HIDE DEF S
  <2> QED BY <1>1, <2>1, Greatest
<1>3. m \in 0..n /\ Q(m)
  <2>1. ASSUME NEW j \in (m + 1)..n PROVE v[j] \in skipped
    BY <1>1, <1>2
  <2> QED BY <1>2, <2>1
<1>4. a = CHOOSE i \in 0..n : Q(i)
  BY DEF LastNot, n
<1>5. a \in 0..n /\ Q(a)
  <2> HIDE DEF Q, a
  <2> QED BY <1>3, <1>4
<1> HIDE DEF a
<1>6. ASSUME NEW i \in 1..n, v[i] \notin skipped, \A j \in (i + 1)..n : v[j] \in skipped
      PROVE  a = i
  <2>1. ~(i < a)
    <3> SUFFICES ASSUME i < a PROVE FALSE
      OBVIOUS
    <3>1. a \in (i + 1)..n /\ a /= 0
      BY <1>1, <1>5
    <3> QED BY <1>5, <1>6, <3>1
  <2>2. ~(a < i)
    <3> SUFFICES ASSUME a < i PROVE FALSE
      OBVIOUS
    <3>1. i \in (a + 1)..n
      BY <1>1, <1>5
    <3> QED BY <1>5, <1>6, <3>1
  <2>3. a \in Nat /\ i \in Nat
    BY <1>1, <1>5
  <2> QED BY ONLY <2>1, <2>2, <2>3
<1> QED BY <1>5, <1>6 DEF a, n

\* trim leaves the part of a value that has only blanks around it, and none
\* at its ends.
LEMMA Trimmed ==
    ASSUME NEW v \in Seq(Nat)
    PROVE  /\ trim(v) \in Seq(Nat)
           /\ trim(v) /= <<>> => Holds(v, trim(v))
           /\ \A i, j \in DOMAIN v :
                 (TextAt(v, i, j) /\ v[i] \notin Blanks /\ v[j] \notin LineEnds)
                 => trim(v) = SubSeq(v, i, j)
<1>1. PICK n, a : n = Len(v) /\ a = FirstNot(v, Blanks)
  OBVIOUS
<1>2. /\ n \in Nat /\ DOMAIN v = 1..n
      /\ a \in 1..(n + 1) /\ \A k \in 1..(a - 1) : v[k] \in Blanks
      /\ \A i \in 1..n : (v[i] \notin Blanks /\ \A k \in 1..(i - 1) : v[k] \in Blanks)
                         => a = i
  <2>1. n \in Nat /\ DOMAIN v = 1..n
    BY <1>1
  <2> QED BY ONLY <1>1, <2>1, v \in Seq(Nat), FirstNotIs
<1>3. a \in Nat /\ a > 0 /\ a <= n + 1 /\ n <= Len(v)
  BY ONLY <1>1, <1>2
<1>4. PICK w : w = SubSeq(v, a, n)
  OBVIOUS
<1>5. /\ w \in Seq(Nat) /\ Len(w) = n - a + 1
      /\ \A k \in 1..(n - a + 1) : w[k] = v[k + a - 1]
  BY ONLY <1>2, <1>3, <1>4, v \in Seq(Nat), PartOfText
<1>6. PICK b : b = LastNot(w, LineEnds)
  OBVIOUS
<1>7. /\ b \in 0..Len(w) /\ \A k \in (b + 1)..Len(w) : w[k] \in LineEnds
      /\ \A i \in 1..Len(w) :
            (w[i] \notin LineEnds /\ \A k \in (i + 1)..Len(w) : w[k] \in LineEnds)
            => b = i
  BY ONLY <1>5, <1>6, LastNotIs
<1>8. trim(v) = SubSeq(w, 1, b)
  BY ONLY <1>1, <1>4, <1>6 DEF trim, After
<1>9. PICK one, j : one = 1 /\ j = a + b - 1
  OBVIOUS
<1>10. /\ one \in Nat /\ one > 0 /\ b \in Nat /\ b <= n - a + 1 /\ one <= b + 1
       /\ a + one - 1 = a /\ j \in Nat /\ j <= n /\ a <= j + 1 /\ j - a + 1 = b
  BY ONLY <1>2, <1>3, <1>5, <1>7, <1>9
<1>11. trim(v) = SubSeq(v, a, j)
  <2>1. SubSeq(SubSeq(v, a, n), one, b) = SubSeq(v, a + one - 1, a + b - 1)
    BY ONLY <1>2, <1>3, <1>10, v \in Seq(Nat), PartOfPart
  <2> QED BY ONLY <1>4, <1>8, <1>9, <1>10, <2>1
<1>12. trim(v) \in Seq(Nat) /\ Len(trim(v)) = b
  <2>1. j <= Len(v)
    BY ONLY <1>1, <1>10
  <2> QED BY ONLY <1>3, <1>10, <1>11, <2>1, v \in Seq(Nat), PartOfText
<1>13. ASSUME trim(v) /= <<>> PROVE Holds(v, trim(v))
  <2>1. b /= 0
    BY ONLY <1>12, <1>13, EmptySeq
  <2>2. a \in 1..n /\ j \in 1..n /\ a <= j
    BY ONLY <1>2, <1>3, <1>10, <2>1
  <2>3. ASSUME NEW k \in (j + 1)..n PROVE v[k] \in LineEnds
    <3>1. /\ k - a + 1 \in (b + 1)..Len(w) /\ k - a + 1 \in 1..(n - a + 1)
          /\ (k - a + 1) + a - 1 = k
      BY ONLY <1>2, <1>3, <1>5, <1>9, <1>10, k \in (j + 1)..n
    <3> QED BY ONLY <1>5, <1>7, <3>1
  <2>4. TextAt(v, a, j)
    BY ONLY <1>1, <1>2, <2>2, <2>3 DEF TextAt
  <2> QED BY ONLY <1>2, <1>11, <2>2, <2>4 DEF Holds
<1>14. ASSUME NEW x \in DOMAIN v, NEW y \in DOMAIN v, TextAt(v, x, y),
              v[x] \notin Blanks, v[y] \notin LineEnds
       PROVE  trim(v) = SubSeq(v, x, y)
  <2>1. /\ x \in 1..n /\ y \in 1..n /\ x <= y
        /\ \A k \in 1..(x - 1) : v[k] \in Blanks
        /\ \A k \in (y + 1)..n : v[k] \in LineEnds
    BY ONLY <1>1, <1>2, <1>14 DEF TextAt
  <2>2. a = x
    BY ONLY <1>2, <1>14, <2>1
  <2>3. PICK i : i = y - a + 1
    OBVIOUS
  <2>a. /\ y \in Nat /\ n \in Nat /\ a \in Nat /\ a > 0 /\ a <= y /\ y <= n
        /\ Len(w) = n - a + 1 /\ i = y - a + 1
    BY ONLY <1>2, <1>3, <1>5, <2>1, <2>2, <2>3
  <2>4. i \in 1..Len(w) /\ i \in 1..(n - a + 1) /\ i + a - 1 = y
    BY ONLY <2>a, SMTT(20)
  <2>5. w[i] \notin LineEnds
    BY ONLY <1>5, <1>14, <2>4
  <2>6. ASSUME NEW k \in (i + 1)..Len(w) PROVE w[k] \in LineEnds
    <3>0. k \in (i + 1)..(n - a + 1)
      BY ONLY <2>a, k \in (i + 1)..Len(w), Zenon
    <3>1. k \in 1..(n - a + 1) /\ k + a - 1 \in (y + 1)..n
      <4>1. /\ y \in Nat /\ n \in Nat /\ a \in Nat /\ a > 0 /\ a <= y /\ y <= n
            /\ i = y - a + 1
        BY ONLY <2>a
      <4> QED BY ONLY <3>0, <4>1, SMTT(20)
    <3> QED BY ONLY <1>5, <2>1, <3>1
  <2>7. b = i
    BY ONLY <1>7, <2>4, <2>5, <2>6
  <2>8. j = y
    BY ONLY <1>3, <1>9, <2>1, <2>3, <2>7
  <2> QED BY ONLY <1>11, <2>2, <2>8
<1> QED BY ONLY <1>12, <1>13, <1>14

\* Of nothing trim leaves nothing.
LEMMA NothingTrimmed == trim(<<>>) = <<>>
<1>1. PICK e : e = <<>>
  OBVIOUS
<1>2. e \in Seq(Nat) /\ DOMAIN e = {}
  BY ONLY <1>1
<1>3. ~Holds(e, trim(e))
  BY ONLY <1>2 DEF Holds
<1> QED BY ONLY <1>1, <1>2, <1>3, Trimmed

\* The key and the address are read exactly where a value holds them.
LEMMA TrimmedIsHeld ==
    ASSUME ConfigAssumption, NEW v \in Seq(Nat)
    PROVE  /\ trim(v) = PublicKey <=> Holds(v, PublicKey)
           /\ Dotted(trim(v)) <=> HoldsAddress(v)
           /\ Dotted(trim(v)) => Holds(v, trim(v))
<1>1. /\ PublicKey \in Seq(Nat) /\ PublicKey /= <<>>
      /\ \A i \in DOMAIN PublicKey : PublicKey[i] \notin LineEnds
  BY DEF ConfigAssumption
<1>2. \A c : c \notin LineEnds => c \notin Blanks
  BY DEF LineEnds, Blanks
<1>3. \A c : IsDigit(c) => c \notin LineEnds /\ c \notin Blanks /\ c /= Dot
  BY DEF LineEnds, Blanks, IsDigit, Dot
<1>4. ~Dotted(<<>>)
  BY DEF Dotted
<1>5. trim(v) /= <<>> => Holds(v, trim(v))
  BY Trimmed
<1>6. ASSUME NEW i \in DOMAIN v, NEW j \in DOMAIN v, TextAt(v, i, j)
      PROVE  /\ SubSeq(v, i, j) \in Seq(Nat)
             /\ 1 \in DOMAIN SubSeq(v, i, j) /\ SubSeq(v, i, j)[1] = v[i]
             /\ Len(SubSeq(v, i, j)) \in DOMAIN SubSeq(v, i, j)
             /\ SubSeq(v, i, j)[Len(SubSeq(v, i, j))] = v[j]
  <2>1. PICK n, s : n = Len(v) /\ s = SubSeq(v, i, j)
    OBVIOUS
  <2>2. n \in Nat /\ i \in 1..n /\ j \in 1..n /\ i <= j
    <3>1. n \in Nat /\ DOMAIN v = 1..n
      BY <2>1
    <3> QED BY ONLY <1>6, <3>1, i \in DOMAIN v, j \in DOMAIN v DEF TextAt
  <2>3. i \in Nat /\ i > 0 /\ j \in Nat /\ j <= Len(v) /\ i <= j + 1
    BY ONLY <2>1, <2>2
  <2>4. /\ s \in Seq(Nat) /\ Len(s) = j - i + 1
        /\ \A k \in 1..(j - i + 1) : s[k] = v[k + i - 1]
    BY ONLY <2>1, <2>3, v \in Seq(Nat), PartOfText
  <2>5. DOMAIN s = 1..Len(s)
    BY ONLY <2>4
  <2>6. /\ 1 \in 1..(j - i + 1) /\ 1 + i - 1 = i
        /\ (j - i + 1) \in 1..(j - i + 1) /\ (j - i + 1) + i - 1 = j
    BY ONLY <2>2
  <2>7. 1 \in DOMAIN s /\ Len(s) \in DOMAIN s /\ s[1] = v[i] /\ s[Len(s)] = v[j]
    BY ONLY <2>4, <2>5, <2>6
  <2> QED BY ONLY <2>1, <2>4, <2>7
<1>7. ASSUME Holds(v, PublicKey) PROVE trim(v) = PublicKey
  <2>1. PICK i \in DOMAIN v, j \in DOMAIN v : TextAt(v, i, j) /\ PublicKey = SubSeq(v, i, j)
    BY ONLY <1>7 DEF Holds
  <2>2. v[i] \notin LineEnds /\ v[j] \notin LineEnds
    <3>1. PICK l : l = Len(PublicKey)
      OBVIOUS
    <3>2. /\ 1 \in DOMAIN PublicKey /\ PublicKey[1] = v[i]
          /\ l \in DOMAIN PublicKey /\ PublicKey[l] = v[j]
      BY ONLY <1>6, <2>1, <3>1
    <3>3. \A k \in DOMAIN PublicKey : PublicKey[k] \notin LineEnds
      BY ONLY <1>1
    <3> QED BY ONLY <3>2, <3>3, Zenon
  <2> QED BY ONLY <1>2, <2>1, <2>2, v \in Seq(Nat), Trimmed
<1>8. ASSUME HoldsAddress(v) PROVE Dotted(trim(v))
  <2>1. PICK i \in DOMAIN v, j \in DOMAIN v : TextAt(v, i, j) /\ Dotted(SubSeq(v, i, j))
    BY ONLY <1>8 DEF HoldsAddress
  <2>2. PICK s : s = SubSeq(v, i, j)
    OBVIOUS
  <2>3. 1 \in DOMAIN s /\ s[1] = v[i] /\ s[Len(s)] = v[j]
    BY ONLY <1>6, <2>1, <2>2
  <2>4. IsDigit(s[Len(s)]) /\ GoodAt(s, 1)
    BY ONLY <2>1, <2>2, <2>3 DEF Dotted
  <2>5. IsDigit(s[1])
    BY ONLY <2>4 DEF GoodAt
  <2>6. v[i] \notin Blanks /\ v[j] \notin LineEnds
    BY ONLY <1>3, <2>3, <2>4, <2>5
  <2>7. trim(v) = s
    BY ONLY <2>1, <2>2, <2>6, v \in Seq(Nat), Trimmed
  <2> QED BY ONLY <2>1, <2>2, <2>7
<1>9. ASSUME Dotted(trim(v)) PROVE HoldsAddress(v) /\ Holds(v, trim(v))
  <2>1. Holds(v, trim(v))
    BY ONLY <1>4, <1>5, <1>9
  <2> QED BY ONLY <1>9, <2>1 DEF Holds, HoldsAddress
<1>10. trim(v) = PublicKey => Holds(v, PublicKey)
  BY ONLY <1>1, <1>5
<1> QED BY ONLY <1>7, <1>8, <1>9, <1>10

\* strtol has skipped white space up to a, and then a sign or none.
SignAt(v, n, a, sign) ==
    /\ a + sign <= n + 1
    /\ Unsigned(v) = SubSeq(v, a + sign, n)
    /\ sign = 1 => v[a] = Plus
    /\ \A k \in 1..(a - 1) : v[k] \in Spaces
    /\ sign = 0 => a > n \/ v[a] /= Plus
    /\ \A i \in 1..n :
          (v[i] \notin Spaces /\ \A k \in 1..(i - 1) : v[k] \in Spaces) => a = i

\* What strtol leaves of a value for the digits.
LEMMA UnsignedIs ==
    ASSUME NEW v \in Seq(Nat), NEW n, n = Len(v)
    PROVE  \E a \in 1..(n + 1), sign \in {0, 1} : SignAt(v, n, a, sign)
<1>1. n = Len(v)
  OBVIOUS
<1>a. PICK a : a = FirstNot(v, Spaces)
  OBVIOUS
<1>2. n \in Nat
  BY <1>1
<1>3. /\ a \in 1..(n + 1) /\ \A k \in 1..(a - 1) : v[k] \in Spaces
      /\ \A i \in 1..n : (v[i] \notin Spaces /\ \A k \in 1..(i - 1) : v[k] \in Spaces)
                         => a = i
  BY ONLY <1>1, <1>a, v \in Seq(Nat), FirstNotIs
<1>4. a \in Nat /\ a > 0 /\ a <= n + 1 /\ n <= Len(v)
  BY ONLY <1>1, <1>2, <1>3
<1>5. PICK w : w = SubSeq(v, a, n)
  OBVIOUS
<1>6. /\ w \in Seq(Nat) /\ Len(w) = n - a + 1
      /\ \A k \in 1..(n - a + 1) : w[k] = v[k + a - 1]
  BY ONLY <1>2, <1>4, <1>5, v \in Seq(Nat), PartOfText
<1>7. Unsigned(v) = IF w /= <<>> /\ w[1] = Plus THEN Tail(w) ELSE w
  BY ONLY <1>1, <1>a, <1>5 DEF Unsigned, After
<1>8. (w /= <<>> <=> a <= n) /\ (a <= n => w[1] = v[a])
  <2>1. w /= <<>> <=> Len(w) /= 0
    BY ONLY <1>6, EmptySeq
  <2>2. Len(w) /= 0 <=> a <= n
    BY ONLY <1>2, <1>4, <1>6
  <2>3. a <= n => 1 \in 1..(n - a + 1) /\ 1 + a - 1 = a
    BY ONLY <1>2, <1>4
  <2> QED BY ONLY <1>6, <2>1, <2>2, <2>3
<1>9. CASE a <= n /\ v[a] = Plus
  <2>1. Unsigned(v) = Tail(w) /\ w /= <<>>
    BY ONLY <1>7, <1>8, <1>9
  <2>2. Tail(w) = SubSeq(w, 2, Len(w))
    BY ONLY <1>6, <2>1
  <2>3. PICK two : two = 2
    OBVIOUS
  <2>4. /\ two \in Nat /\ two > 0 /\ Len(w) \in Nat /\ Len(w) <= n - a + 1
        /\ two <= Len(w) + 1 /\ a + two - 1 = a + 1 /\ a + Len(w) - 1 = n
        /\ a + 1 <= n + 1
    BY ONLY <1>2, <1>4, <1>6, <1>9, <2>3
  <2>5. SubSeq(SubSeq(v, a, n), two, Len(w)) = SubSeq(v, a + two - 1, a + Len(w) - 1)
    BY ONLY <1>2, <1>4, <2>4, v \in Seq(Nat), PartOfPart
  <2>6. Unsigned(v) = SubSeq(v, a + 1, n)
    BY ONLY <1>5, <2>1, <2>2, <2>3, <2>4, <2>5
  <2>7. PICK sign : sign = 1
    OBVIOUS
  <2>8. /\ sign \in {0, 1} /\ sign /= 0 /\ a + sign = a + 1 /\ a + sign <= n + 1
        /\ a \in 1..(n + 1)
    BY ONLY <1>3, <2>4, <2>7
  <2>9. Unsigned(v) = SubSeq(v, a + sign, n)
    BY ONLY <2>6, <2>8
  <2>10. SignAt(v, n, a, sign)
    BY ONLY <1>3, <1>9, <2>8, <2>9 DEF SignAt
  <2> QED BY ONLY <2>8, <2>10
<1>10. CASE ~(a <= n /\ v[a] = Plus)
  <2>1. Unsigned(v) = SubSeq(v, a, n)
    BY ONLY <1>5, <1>7, <1>8, <1>10
  <2>2. a + 0 = a /\ (a > n \/ v[a] /= Plus)
    BY ONLY <1>2, <1>4, <1>10
  <2>3. PICK sign : sign = 0
    OBVIOUS
  <2>4. /\ sign \in {0, 1} /\ sign /= 1 /\ a + sign = a /\ a + sign <= n + 1
        /\ a \in 1..(n + 1)
    BY ONLY <1>3, <1>4, <2>3
  <2>5. Unsigned(v) = SubSeq(v, a + sign, n)
    BY ONLY <2>1, <2>4
  <2>6. SignAt(v, n, a, sign)
    BY ONLY <1>3, <2>2, <2>4, <2>5 DEF SignAt
  <2> QED BY ONLY <2>4, <2>6
<1> QED BY ONLY <1>9, <1>10

\* load_peer_config accepts the ports and nothing else, whatever white space
\* trim and strtol skip, and reads their digits.
LEMMA PortRead ==
    ASSUME NEW v \in Seq(Nat)
    PROVE  /\ ParsePort(trim(v)) \in Nat
           /\ ParsePort(trim(v)) /= 0 <=> PortText(v)
           /\ ParsePort(trim(v)) /= 0 =>
                 \E i, j \in DOMAIN v :
                    PortAt(v, i, j) /\ ParsePort(trim(v)) = Decimal(SubSeq(v, i, j))
<1>1. PICK n, t, l : n = Len(v) /\ t = trim(v) /\ l = Len(t)
  OBVIOUS
<1>2. n \in Nat /\ DOMAIN v = 1..n
  BY <1>1
<1>3. t \in Seq(Nat) /\ (t /= <<>> => Holds(v, t))
  BY ONLY <1>1, v \in Seq(Nat), Trimmed
<1>4. l \in Nat
  BY ONLY <1>1, <1>3
<1>a. PICK a \in 1..(l + 1), sign \in {0, 1} : SignAt(t, l, a, sign)
  <2>1. l = Len(t) /\ t \in Seq(Nat)
    BY ONLY <1>1, <1>3
  <2> QED BY ONLY <2>1, UnsignedIs
<1>5. /\ a + sign <= l + 1
      /\ Unsigned(t) = SubSeq(t, a + sign, l)
      /\ sign = 1 => t[a] = Plus
      /\ \A k \in 1..(a - 1) : t[k] \in Spaces
      /\ sign = 0 => a > l \/ t[a] /= Plus
      /\ \A i \in 1..l :
            (t[i] \notin Spaces /\ \A k \in 1..(i - 1) : t[k] \in Spaces) => a = i
      /\ a \in 1..(l + 1) /\ sign \in {0, 1}
  BY ONLY <1>a, a \in 1..(l + 1), sign \in {0, 1} DEF SignAt
<1>6. PICK u, p : u = Unsigned(t) /\ p = ParsePort(t)
  OBVIOUS
<1>7. /\ p = IF IsNumber(u) /\ Decimal(u) \in 1..MaxPort THEN Decimal(u) ELSE 0
      /\ MaxPort \in Nat
  <2>1. p = IF IsNumber(u) /\ Decimal(u) \in 1..MaxPort THEN Decimal(u) ELSE 0
    BY ONLY <1>6, Zenon DEF ParsePort
  <2>2. MaxPort \in Nat
    BY ONLY TRUE DEF MaxPort
  <2> QED BY ONLY <2>1, <2>2
<1>8. /\ p \in Nat /\ (p /= 0 <=> IsNumber(u) /\ Decimal(u) \in 1..MaxPort)
      /\ (p /= 0 => p = Decimal(u))
  <2>1. PICK d : d = Decimal(u)
    OBVIOUS
  <2>2. p = IF IsNumber(u) /\ d \in 1..MaxPort THEN d ELSE 0
    BY ONLY <1>7, <2>1
  <2>3. d \in 1..MaxPort => d \in Nat /\ d /= 0
    BY ONLY <1>7
  <2> QED BY ONLY <2>1, <2>2, <2>3
<1>9. PICK s : s = a + sign
  OBVIOUS
<1>10. /\ a \in Nat /\ a > 0 /\ a <= l + 1 /\ s \in Nat /\ s > 0 /\ s <= l + 1
       /\ l <= Len(t) /\ (sign = 1 => s = a + 1) /\ (sign = 0 => s = a)
       /\ sign \in {0, 1} /\ a = s - sign
  BY ONLY <1>1, <1>4, <1>5, <1>9
<1>11. /\ u = SubSeq(t, s, l) /\ u \in Seq(Nat) /\ Len(u) = l - s + 1
       /\ \A k \in 1..(l - s + 1) : u[k] = t[k + s - 1]
  <2>1. u = SubSeq(t, s, l)
    BY ONLY <1>5, <1>6, <1>9
  <2> QED BY ONLY <1>3, <1>4, <1>10, <2>1, PartOfText, SMTT(20)
<1>12. IsNumber(u) <=> s <= l /\ \A k \in s..l : IsDigit(t[k])
  <2>1. DOMAIN u = 1..(l - s + 1) /\ (u /= <<>> <=> s <= l)
    <3>1. DOMAIN u = 1..Len(u) /\ (u /= <<>> <=> Len(u) /= 0)
      BY ONLY <1>11, EmptySeq, LenProperties
    <3>2. Len(u) /= 0 <=> s <= l
      BY ONLY <1>4, <1>10, <1>11
    <3> QED BY ONLY <1>11, <3>1, <3>2
  <2>2. IsNumber(u) <=> s <= l /\ \A k \in 1..(l - s + 1) : IsDigit(t[k + s - 1])
    BY ONLY <1>11, <2>1 DEF IsNumber
  <2>3. \A k \in s..l : k - s + 1 \in 1..(l - s + 1) /\ (k - s + 1) + s - 1 = k
    BY ONLY <1>4, <1>10
  <2>4. \A k \in 1..(l - s + 1) : k + s - 1 \in s..l
    BY ONLY <1>4, <1>10
  <2> QED BY ONLY <2>2, <2>3, <2>4
<1>13. /\ \A c : IsDigit(c) => c \notin Spaces /\ c \notin LineEnds /\ c \notin Blanks
                               /\ c /= Plus
       /\ Plus \notin Spaces /\ Plus \notin Blanks
       /\ \A c \in Blanks : c \in Spaces
  BY ONLY SMTT(20) DEF IsDigit, Spaces, LineEnds, Blanks, Plus
\* How the places of the trimmed value are places of the value.
<1>14. ASSUME NEW i \in 1..n, NEW j \in 1..n, i <= j, t = SubSeq(v, i, j)
       PROVE  /\ l = j - i + 1 /\ \A k \in 1..l : t[k] = v[k + i - 1]
              /\ u = SubSeq(v, i + s - 1, j)
  <2>1. i \in Nat /\ i > 0 /\ j \in Nat /\ j <= Len(v) /\ i <= j + 1
    BY ONLY <1>1, <1>2, <1>14
  <2>2. /\ Len(SubSeq(v, i, j)) = j - i + 1
        /\ \A k \in 1..(j - i + 1) : SubSeq(v, i, j)[k] = v[k + i - 1]
    BY ONLY <2>1, v \in Seq(Nat), PartOfText
  <2>3. l = j - i + 1 /\ \A k \in 1..l : t[k] = v[k + i - 1]
    BY ONLY <1>1, <1>14, <2>2
  <2>4. l <= j - i + 1 /\ i + l - 1 = j
    BY ONLY <2>1, <2>3
  <2>5. SubSeq(SubSeq(v, i, j), s, l) = SubSeq(v, i + s - 1, i + l - 1)
    BY ONLY <1>4, <1>10, <2>1, <2>4, v \in Seq(Nat), PartOfPart
  <2> QED BY ONLY <1>11, <1>14, <2>3, <2>4, <2>5
<1>15. ASSUME p /= 0
       PROVE  \E x, y \in DOMAIN v : PortAt(v, x, y) /\ p = Decimal(SubSeq(v, x, y))
  <2>1. s <= l /\ (\A k \in s..l : IsDigit(t[k])) /\ Decimal(u) \in 1..MaxPort
        /\ p = Decimal(u)
    BY ONLY <1>8, <1>12, <1>15
  <2>2. t /= <<>>
    <3>1. l /= 0
      BY ONLY <1>4, <1>10, <2>1
    <3> QED BY ONLY <1>1, <1>3, <3>1, EmptySeq
  <2>3. PICK i \in 1..n, j \in 1..n : TextAt(v, i, j) /\ t = SubSeq(v, i, j)
    BY ONLY <1>2, <1>3, <2>2 DEF Holds
  <2>4. /\ i <= j /\ \A k \in 1..(i - 1) : v[k] \in Blanks
        /\ \A k \in (j + 1)..Len(v) : v[k] \in LineEnds
    BY ONLY <2>3 DEF TextAt
  <2>5. /\ l = j - i + 1 /\ \A k \in 1..l : t[k] = v[k + i - 1]
        /\ u = SubSeq(v, i + s - 1, j)
    BY ONLY <1>14, <2>3, <2>4
  <2>6. PICK x : x = i + s - 1
    OBVIOUS
  <2>7. x \in 1..n /\ x <= j /\ x \in Nat
    BY ONLY <1>2, <1>4, <1>10, <2>1, <2>4, <2>5, <2>6, i \in 1..n, j \in 1..n
  <2>8. ASSUME NEW k \in x..j PROVE IsDigit(v[k])
    <3>1. k - i + 1 \in s..l /\ k - i + 1 \in 1..l /\ (k - i + 1) + i - 1 = k
      BY ONLY <1>2, <1>4, <1>10, <2>5, <2>6, <2>7, i \in 1..n, j \in 1..n, k \in x..j
    <3> QED BY ONLY <2>1, <2>5, <3>1
  <2>9. sign = 1 => x > 1 /\ v[x - 1] = Plus
    <3> SUFFICES ASSUME sign = 1 PROVE x > 1 /\ v[x - 1] = Plus
      OBVIOUS
    <3>1. a \in 1..l /\ a + i - 1 = x - 1 /\ x > 1
      BY ONLY sign = 1, <1>2, <1>4, <1>10, <2>1, <2>6, i \in 1..n
    <3>2. t[a] = Plus
      BY ONLY <1>5, sign = 1
    <3> QED BY ONLY <2>5, <3>1, <3>2
  <2>10. ASSUME NEW k \in 1..(x - 1 - sign) PROVE v[k] \in Spaces
    <3>0. k \in Nat /\ k > 0 /\ k <= i + a - 2 /\ i \in Nat
      BY ONLY <1>2, <1>10, <2>6, <2>7, i \in 1..n, k \in 1..(x - 1 - sign)
    <3>1. CASE k <= i - 1
      <4>1. k \in 1..(i - 1)
        BY ONLY <3>0, <3>1
      <4> QED BY ONLY <1>13, <2>4, <4>1
    <3>2. CASE ~(k <= i - 1)
      <4>1. k - i + 1 \in 1..(a - 1) /\ k - i + 1 \in 1..l /\ (k - i + 1) + i - 1 = k
        BY ONLY <1>4, <1>10, <2>1, <3>0, <3>2
      <4> QED BY ONLY <1>5, <2>5, <4>1
    <3> QED BY ONLY <3>1, <3>2
  <2>11. u = SubSeq(v, x, j)
    BY ONLY <2>5, <2>6
  <2>12. Decimal(SubSeq(v, x, j)) \in 1..MaxPort
    BY ONLY <2>1, <2>11
  <2>13. PortAt(v, x, j)
    BY ONLY <1>10, <2>4, <2>7, <2>8, <2>9, <2>10, <2>12 DEF PortAt
  <2> QED BY ONLY <1>2, <2>1, <2>7, <2>11, <2>13, j \in 1..n
<1>16. ASSUME PortText(v) PROVE p /= 0
  <2>1. PICK x \in 1..n, y \in 1..n : PortAt(v, x, y)
    BY ONLY <1>2, <1>16 DEF PortText
  <2>2. PICK plus \in {0, 1} :
            /\ plus = 1 => x > 1 /\ v[x - 1] = Plus
            /\ \A k \in 1..(x - 1 - plus) : v[k] \in Spaces
    BY ONLY <2>1 DEF PortAt
  <2>3. /\ x <= y /\ (\A k \in x..y : IsDigit(v[k]))
        /\ (\A k \in (y + 1)..Len(v) : v[k] \in LineEnds)
        /\ Decimal(SubSeq(v, x, y)) \in 1..MaxPort
    BY ONLY <2>1 DEF PortAt
  \* The sign, or the first digit where there is none.
  <2>4. PICK z : z = x - plus
    OBVIOUS
  <2>5. /\ z \in 1..n /\ z <= y /\ z \in Nat /\ z > 0 /\ x \in x..y /\ y \in x..y
        /\ x - 1 - plus = z - 1 /\ (plus = 0 => z = x) /\ (plus = 1 => z = x - 1)
    BY ONLY <1>2, <2>2, <2>3, <2>4, x \in 1..n, y \in 1..n, plus \in {0, 1}
  <2>6. /\ IsDigit(v[x]) /\ IsDigit(v[y])
        /\ (plus = 1 => v[z] = Plus) /\ (plus = 0 => v[z] /= Plus)
        /\ v[z] \notin Spaces /\ v[z] \notin Blanks /\ v[y] \notin LineEnds
    <3>1. IsDigit(v[x]) /\ IsDigit(v[y])
      BY ONLY <2>3, <2>5
    <3>2. CASE plus = 1
      BY ONLY <1>13, <2>2, <2>5, <3>1, <3>2
    <3>3. CASE plus = 0
      BY ONLY <1>13, <2>5, <3>1, <3>3
    <3> QED BY ONLY <3>2, <3>3, plus \in {0, 1}
  <2>7. PICK i : i = FirstNot(v, Blanks)
    OBVIOUS
  <2>8. /\ i \in 1..(n + 1) /\ (i > n \/ v[i] \notin Blanks)
        /\ \A k \in 1..(i - 1) : v[k] \in Blanks
    BY ONLY <1>1, <2>7, v \in Seq(Nat), FirstNotIs
  <2>9. i <= z
    <3> SUFFICES ASSUME ~(i <= z) PROVE FALSE
      OBVIOUS
    <3>1. z \in 1..(i - 1)
      BY ONLY <1>2, <2>5, <2>8, ~(i <= z)
    <3> QED BY ONLY <2>6, <2>8, <3>1
  <2>10. i \in 1..n /\ i \in Nat /\ i > 0 /\ i <= y /\ v[i] \notin Blanks
    <3>1. i \in 1..n /\ i \in Nat /\ i > 0 /\ i <= y /\ ~(i > n)
      BY ONLY <1>2, <2>5, <2>8, <2>9, y \in 1..n
    <3> QED BY ONLY <2>8, <3>1
  <2>11. t = SubSeq(v, i, y)
    <3>1. TextAt(v, i, y)
      BY ONLY <2>3, <2>8, <2>10 DEF TextAt
    <3> QED BY ONLY <1>1, <1>2, <2>6, <2>10, <3>1, v \in Seq(Nat), y \in 1..n, Trimmed
  <2>12. /\ l = y - i + 1 /\ \A k \in 1..l : t[k] = v[k + i - 1]
         /\ u = SubSeq(v, i + s - 1, y)
    BY ONLY <1>14, <2>10, <2>11, y \in 1..n
  <2>13. PICK b : b = z - i + 1
    OBVIOUS
  <2>14. b \in 1..l /\ b \in Nat /\ b + i - 1 = z /\ b <= l
    <3>1. /\ z \in Nat /\ i \in Nat /\ i > 0 /\ i <= z /\ z <= y /\ y \in Nat
          /\ l = y - i + 1 /\ b = z - i + 1
      BY ONLY <1>2, <2>5, <2>9, <2>10, <2>12, <2>13, y \in 1..n
    <3> QED BY ONLY <3>1
  <2>15. t[b] = v[z]
    BY ONLY <2>12, <2>14
  <2>16. a = b
    <3>1. ASSUME NEW k \in 1..(b - 1) PROVE t[k] \in Spaces
      <4>1. k \in 1..l /\ k + i - 1 \in 1..(z - 1)
        BY ONLY <1>4, <2>5, <2>10, <2>13, <2>14, k \in 1..(b - 1)
      <4> QED BY ONLY <2>2, <2>5, <2>12, <4>1
    <3> QED BY ONLY <1>5, <2>6, <2>14, <2>15, <3>1
  <2>17. sign = plus
    <3>1. ~(a > l)
      BY ONLY <1>4, <2>14, <2>16
    <3> QED BY ONLY <1>5, <2>6, <2>15, <2>16, <3>1, plus \in {0, 1}, sign \in {0, 1}
  <2>18. i + s - 1 = x /\ s <= l
    BY ONLY <1>4, <1>9, <2>3, <2>4, <2>5, <2>10, <2>12, <2>13, <2>16, <2>17,
            x \in 1..n, y \in 1..n, <1>2, plus \in {0, 1}
  <2>19. ASSUME NEW k \in s..l PROVE IsDigit(t[k])
    <3>1. k \in 1..l /\ k + i - 1 \in x..y
      <4>1. /\ s \in Nat /\ s > 0 /\ l \in Nat /\ i \in Nat /\ y \in Nat
            /\ l = y - i + 1 /\ i + s - 1 = x
        BY ONLY <1>2, <1>4, <1>10, <2>10, <2>12, <2>18, y \in 1..n
      <4> QED BY ONLY <4>1, k \in s..l
    <3> QED BY ONLY <2>3, <2>12, <3>1
  <2>20. Decimal(u) \in 1..MaxPort
    BY ONLY <2>3, <2>12, <2>18
  <2> QED BY ONLY <1>8, <1>12, <2>18, <2>19, <2>20
<1>17. p /= 0 <=> PortText(v)
  BY ONLY <1>15, <1>16 DEF PortText
<1> QED BY ONLY <1>1, <1>6, <1>8, <1>15, <1>17

\* No text is no port.
LEMMA NoPort == ParsePort(trim(<<>>)) = 0
<1>1. PICK e : e = <<>>
  OBVIOUS
<1>2. e \in Seq(Nat) /\ DOMAIN e = {}
  BY ONLY <1>1
<1>3. ~PortText(e)
  BY ONLY <1>2 DEF PortText
<1> QED BY ONLY <1>1, <1>2, <1>3, PortRead

\* A line more says what it says, or leaves what was said.
LEMMA SaysLast ==
    ASSUME NEW f \in Seq(LineSet), NEW i \in Nat, i < Len(f), NEW name
    PROVE  Says(f, i + 1, name) =
               IF f[i + 1].name = name THEN f[i + 1].value ELSE Says(f, i, name)
<1> DEFINE G(k) == {j \in 1..k : f[j].name = name}
           Last(g) == CHOOSE j \in g : \A l \in g : l <= j
<1>1. \A k : Says(f, k, name) = IF G(k) = {} THEN <<>> ELSE f[Last(G(k))].value
  BY DEF Says
<1>2. CASE f[i + 1].name = name
  <2> DEFINE g == G(i + 1)
  <2>1. i + 1 \in g /\ \A l \in g : l \in Nat /\ l <= i + 1
    BY <1>2
  <2> HIDE DEF g
  <2>2. \A j \in g : (\A l \in g : l <= j) => j = i + 1
    BY <2>1
  <2>3. Last(g) = i + 1 /\ g /= {}
    BY <2>1, <2>2
  <2>4. Says(f, i + 1, name) = IF g = {} THEN <<>> ELSE f[Last(g)].value
    BY <1>1 DEF g
  <2> HIDE DEF Last
  <2> QED BY <1>2, <2>3, <2>4
<1>3. CASE f[i + 1].name /= name
  <2>1. G(i + 1) = G(i)
    BY <1>3
  <2> HIDE DEF G, Last
  <2> QED BY <1>1, <1>3, <2>1
<1> QED BY <1>2, <1>3

\* No lines say nothing.
LEMMA SaysNothing ==
    ASSUME NEW f, NEW name PROVE Says(f, 0, name) = <<>>
<1>1. {j \in 1..0 : f[j].name = name} = {}
  OBVIOUS
<1> QED BY <1>1 DEF Says

\* What is said stands in a line.
LEMMA SaysOfALine ==
    ASSUME NEW f \in Seq(LineSet), NEW n \in 0..Len(f), NEW name
    PROVE  /\ Says(f, n, name) \in Seq(Nat)
           /\ \/ Says(f, n, name) = <<>>
              \/ \E j \in 1..n : f[j].name = name /\ f[j].value = Says(f, n, name)
<1> DEFINE g == {j \in 1..n : f[j].name = name}
           last == CHOOSE j \in g : \A l \in g : l <= j
<1>1. CASE g = {}
  BY <1>1 DEF Says
<1>2. CASE g /= {}
  <2>1. g \subseteq 0..n /\ n \in Nat
    OBVIOUS
  <2>2. \E m \in g : \A l \in g : l <= m
    <3> HIDE DEF g
    <3> QED BY <1>2, <2>1, Greatest
  <2>3. last \in g
    <3> HIDE DEF g
    <3> QED BY <2>2
  <2>4. Says(f, n, name) = f[last].value
    BY <1>2 DEF Says
  <2> HIDE DEF last
  <2>5. last \in 1..n /\ last \in 1..Len(f) /\ f[last].name = name
    BY <2>3
  <2>6. f[last] \in LineSet
    BY <2>5
  <2>7. f[last].value \in Seq(Nat)
    BY <2>6 DEF LineSet
  <2> QED BY <2>4, <2>5, <2>7
<1> QED BY <1>1, <1>2

\* Every line takes room in the buffer of load_peer_config.
LEMMA WidthPositive ==
    ASSUME NEW line \in LineSet PROVE Width(line) \in Nat /\ Width(line) > 2
<1>1. Len(line.value) \in Nat
  BY DEF LineSet
<1> QED BY <1>1 DEF Width

\* The bytes of the first lines, line by line.
LEMMA ExtentUnfolds ==
    ASSUME NEW f \in Seq(LineSet)
    PROVE  /\ Extent(f) \in [0..Len(f) -> Nat] /\ Extent(f)[0] = 0
           /\ \A i \in 1..Len(f) : Extent(f)[i] = Extent(f)[i - 1] + Width(f[i])
<1> DEFINE n == Len(f)
           step == [i \in 1..n |-> [e \in Nat |-> e + Width(f[i])]]
           Q(g) == g = [i \in 0..n |-> IF i = 0 THEN 0 ELSE g[i - 1] + Width(f[i])]
<1>1. n \in Nat /\ 0 \in Nat
  OBVIOUS
<1>2. step \in [1..n -> [Nat -> Nat]]
  <2>1. \A i \in 1..n : Width(f[i]) \in Nat
    BY WidthPositive
  <2> QED BY <2>1
<1>3. \A i \in 1..n : \A e \in Nat : step[i][e] = e + Width(f[i])
  OBVIOUS
<1> HIDE DEF step
<1>4. PICK d : Iterates(d, Nat, 0, n, step)
  <2> HIDE DEF n
  <2> QED BY <1>1, <1>2, Iteration
<1>5. Q(d)
  <2>1. \A i \in 1..n : i - 1 \in 0..n
    BY <1>1
  <2> HIDE DEF n
  <2>2. \A i \in 1..n : d[i] = d[i - 1] + Width(f[i])
    BY <1>3, <1>4, <2>1 DEF Iterates
  <2> QED BY <1>1, <1>4, <2>2 DEF Iterates
<1>6. Extent(f) = CHOOSE g : Q(g)
  BY DEF Extent
<1>7. Q(Extent(f))
  <2> HIDE DEF Q
  <2> QED BY <1>5, <1>6
<1> HIDE DEF n
<1>8. /\ Extent(f) = [i \in 0..n |-> Extent(f)[i]] /\ Extent(f)[0] = 0
      /\ \A i \in 1..n : Extent(f)[i] = Extent(f)[i - 1] + Width(f[i])
  <2>1. ASSUME NEW i \in 0..n
        PROVE  Extent(f)[i] = IF i = 0 THEN 0 ELSE Extent(f)[i - 1] + Width(f[i])
    BY <1>7
  <2>2. Extent(f) = [i \in 0..n |-> Extent(f)[i]]
    BY <1>7
  <2>3. Extent(f)[0] = 0
    BY <1>1, <2>1
  <2>4. \A i \in 1..n : i \in 0..n /\ i /= 0
    BY <1>1
  <2> QED BY <2>1, <2>2, <2>3, <2>4
<1>9. Iterates(Extent(f), Nat, 0, n, step)
  <2>1. \A i \in 1..n : Extent(f)[i - 1] \in Nat => Extent(f)[i] = step[i][Extent(f)[i - 1]]
    BY <1>3, <1>8
  <2> QED BY <1>1, <1>2, <1>8, <2>1, Typed
<1> QED BY <1>8, <1>9 DEF Iterates, n

\* Each line takes room, so what does not fit is followed by what does not.
LEMMA ExtentGrows ==
    ASSUME NEW f \in Seq(LineSet), NEW i \in 0..Len(f), NEW j \in i..Len(f)
    PROVE  Extent(f)[i] <= Extent(f)[j]
<1> DEFINE x == Extent(f)
           n == Len(f)
           S == {k \in Nat : i + k <= n => x[i] <= x[i + k]}
<1>1. /\ n \in Nat /\ x \in [0..n -> Nat]
      /\ \A l \in 1..n : x[l] = x[l - 1] + Width(f[l]) /\ Width(f[l]) \in Nat
  BY ExtentUnfolds, WidthPositive
<1> HIDE DEF x, n
<1>2. 0 \in S
  <2>1. i \in 0..n
    BY DEF n
  <2>2. x[i] \in Nat /\ i + 0 = i
    BY <1>1, <2>1
  <2> QED BY <2>2
<1>3. ASSUME NEW k \in Nat, k \in S PROVE k + 1 \in S
  <2> SUFFICES ASSUME i + (k + 1) <= n PROVE x[i] <= x[i + (k + 1)]
    OBVIOUS
  <2> DEFINE l == i + (k + 1)
  <2>1. l \in 1..n /\ l - 1 = i + k /\ i + k <= n /\ i + k \in 0..n /\ i \in 0..n
    BY <1>1 DEF n
  <2>2. x[i] <= x[i + k] /\ x[i] \in Nat /\ x[i + k] \in Nat
    BY <1>1, <1>3, <2>1
  <2>3. x[l] = x[i + k] + Width(f[l]) /\ Width(f[l]) \in Nat
    BY <1>1, <2>1
  <2> QED BY <2>2, <2>3
<1>4. Nat \subseteq S
  <2> HIDE DEF S
  <2> QED BY <1>2, <1>3, Induct
<1>5. j - i \in Nat /\ i + (j - i) = j /\ j <= n
  BY DEF n
<1>6. x[i] <= x[i + (j - i)]
  BY <1>4, <1>5
<1> QED BY <1>5, <1>6 DEF x

\* What load_peer_config keeps between two lines.
Configs == [result : {"ok", "separator", "port"}, key : Seq(Nat),
            ip : Seq(Nat), port : Nat]

\* What load_peer_config finds in its buffer of a line: the line, its
\* beginning, or something that is no setting.
LEMMA LineReadIs ==
    ASSUME ConfigAssumption, NEW f \in Seq(LineSet), NEW i \in 1..Len(f),
           Extent(f)[i - 1] < READ_SIZE
    PROVE  /\ LineRead(f, i) \in LineSet
           /\ Extent(f)[i] <= READ_SIZE => LineRead(f, i) = f[i]
           /\ Extent(f)[i] > READ_SIZE =>
                 \/ LineRead(f, i).name \in {"blank", "bare"}
                 \/ /\ LineRead(f, i).name = f[i].name
                    /\ \E n \in 0..Len(f[i].value) :
                          LineRead(f, i).value = SubSeq(f[i].value, 1, n)
<1> DEFINE x == Extent(f)[i - 1]
           y == Extent(f)[i]
           line == f[i]
           m == READ_SIZE - x
<1>1. x \in Nat /\ y = x + Width(line) /\ line \in LineSet /\ READ_SIZE \in Nat
  <2>1. i - 1 \in 0..Len(f)
    OBVIOUS
  <2> QED BY <2>1, ExtentUnfolds DEF ConfigAssumption
<1>2. line.value \in Seq(Nat) /\ line.name \in {"blank", "bare", "key", "ip", "port", "other"}
      /\ Len(line.value) \in Nat
  <2>1. PICK l : l = line
    OBVIOUS
  <2>2. /\ l.value \in Seq(Nat)
        /\ l.name \in {"blank", "bare", "key", "ip", "port", "other"}
    BY ONLY <1>1, <2>1 DEF LineSet
  <2>3. Len(l.value) \in Nat
    BY ONLY <2>2
  <2> QED BY ONLY <2>1, <2>2, <2>3
<1>3. LineRead(f, i) = IF y <= READ_SIZE THEN line ELSE Cut(line, m)
  BY DEF LineRead
<1>4. Width(line) \in Nat
  BY <1>1, WidthPositive
<1> HIDE DEF x, y, line
<1>5. CASE y <= READ_SIZE
  <2>1. LineRead(f, i) = line /\ ~(y > READ_SIZE)
    BY <1>1, <1>3, <1>4, <1>5
  <2> QED BY <1>1, <1>5, <2>1 DEF line, y
<1>6. CASE ~(y <= READ_SIZE)
  <2>1. LineRead(f, i) = Cut(line, m)
    BY <1>3, <1>6
  <2>2. CASE ~HasValue(line)
    <3>1. LineRead(f, i) = line /\ line.name \in {"blank", "bare"}
      BY <1>2, <2>1, <2>2 DEF Cut, HasValue
    <3> QED BY <1>1, <1>6, <3>1 DEF line, y
  <2>3. CASE HasValue(line) /\ m < 2
    <3> DEFINE bare == [name |-> "bare", value |-> <<>>]
    <3>1. LineRead(f, i) = bare
      BY <2>1, <2>3 DEF Cut
    <3>2. bare \in LineSet /\ bare.name = "bare"
      BY DEF LineSet
    <3> HIDE DEF bare
    <3> QED BY <1>6, <3>1, <3>2 DEF y
  <2>4. CASE HasValue(line) /\ ~(m < 2)
    <3>1. m - 2 \in 0..Len(line.value)
      <4>1. Width(line) = Len(line.value) + 3
        BY <2>4 DEF Width
      <4>2. x + (Len(line.value) + 3) > READ_SIZE
        BY <1>1, <1>2, <1>6, <4>1
      <4>3. x < READ_SIZE
        BY DEF x
      <4> QED BY <1>1, <1>2, <2>4, <4>2, <4>3
    <3> DEFINE n == m - 2
               cut == [line EXCEPT !.value = SubSeq(line.value, 1, n)]
    <3>2. LineRead(f, i) = cut
      BY <2>1, <2>4 DEF Cut
    <3>7. n \in 0..Len(line.value)
      BY <3>1
    <3> HIDE DEF n
    <3>3. SubSeq(line.value, 1, n) \in Seq(Nat)
      <4>1. ASSUME NEW k \in 1..n PROVE line.value[k] \in Nat
        <5>1. k \in 1..Len(line.value)
          BY <1>2, <3>7
        <5> QED BY <1>2, <5>1, ElementOfSeq
      <4>2. n \in Int
        BY <1>2, <3>7
      <4> QED BY <4>1, <4>2, SubSeqProperties
    <3>4. \A v \in Seq(Nat) : [line EXCEPT !.value = v] \in LineSet
                              /\ [line EXCEPT !.value = v].name = line.name
                              /\ [line EXCEPT !.value = v].value = v
      BY <1>1 DEF LineSet
    <3>5. cut \in LineSet /\ cut.name = line.name /\ cut.value = SubSeq(line.value, 1, n)
      BY <3>3, <3>4
    <3> HIDE DEF cut
    <3>6. \E k \in 0..Len(line.value) : cut.value = SubSeq(line.value, 1, k)
      BY <3>5, <3>7
    <3> QED BY <1>6, <3>2, <3>5, <3>6 DEF line, y
  <2> QED BY <2>2, <2>3, <2>4
<1> QED BY <1>5, <1>6

\* One turn of the strtok loop of load_peer_config: which lines stop it and
\* which setting a line replaces.
LEMMA LineParsed ==
    ASSUME NEW c \in Configs, NEW line \in LineSet
    PROVE  /\ ParseLine(c, line) \in Configs
           /\ c.result /= "ok" => ParseLine(c, line) = c
           /\ c.result = "ok" =>
                 (ParseLine(c, line).result = "ok" <=>
                     /\ line.name /= "bare"
                     /\ line.name = "port" => ParsePort(trim(line.value)) /= 0)
           /\ ParseLine(c, line).result = "ok" =>
                 /\ ParseLine(c, line).key = IF line.name = "key" THEN trim(line.value) ELSE c.key
                 /\ ParseLine(c, line).ip = IF line.name = "ip" THEN trim(line.value) ELSE c.ip
                 /\ ParseLine(c, line).port =
                       IF line.name = "port" THEN ParsePort(trim(line.value)) ELSE c.port
<1> DEFINE v == trim(line.value)
           e == ParseLine(c, line)
<1>1. /\ v \in Seq(Nat) /\ ParsePort(v) \in Nat
      /\ line.name \in {"blank", "bare", "key", "ip", "port", "other"}
  <2>1. /\ line.value \in Seq(Nat)
        /\ line.name \in {"blank", "bare", "key", "ip", "port", "other"}
    BY DEF LineSet
  <2> QED BY <2>1, Trimmed, PortRead
<1>2. CASE c.result /= "ok" \/ line.name \in {"blank", "other"}
  <2>1. e = c
    BY <1>2 DEF ParseLine
  <2> HIDE DEF e
  <2> QED BY <1>1, <1>2, <2>1 DEF e
<1>3. CASE c.result = "ok" /\ line.name = "bare"
  <2>1. e = [c EXCEPT !.result = "separator"]
    BY <1>3 DEF ParseLine
  <2>2. e \in Configs /\ e.result = "separator"
    BY <2>1 DEF Configs
  <2> HIDE DEF e
  <2> QED BY <1>3, <2>2 DEF e
<1>4. CASE c.result = "ok" /\ line.name = "key"
  <2>1. e = [c EXCEPT !.key = v]
    BY <1>4 DEF ParseLine
  <2>2. e \in Configs /\ e.result = "ok" /\ e.key = v /\ e.ip = c.ip /\ e.port = c.port
    BY <1>1, <1>4, <2>1 DEF Configs
  <2> HIDE DEF e
  <2> QED BY <1>4, <2>2 DEF e
<1>5. CASE c.result = "ok" /\ line.name = "ip"
  <2>1. e = [c EXCEPT !.ip = v]
    BY <1>5 DEF ParseLine
  <2>2. e \in Configs /\ e.result = "ok" /\ e.ip = v /\ e.key = c.key /\ e.port = c.port
    BY <1>1, <1>5, <2>1 DEF Configs
  <2> HIDE DEF e
  <2> QED BY <1>5, <2>2 DEF e
<1>6. CASE c.result = "ok" /\ line.name = "port" /\ ParsePort(v) = 0
  <2>1. e = [c EXCEPT !.result = "port"]
    BY <1>6 DEF ParseLine
  <2>2. e \in Configs /\ e.result = "port"
    BY <2>1 DEF Configs
  <2> HIDE DEF e
  <2> QED BY <1>6, <2>2 DEF e
<1>7. CASE c.result = "ok" /\ line.name = "port" /\ ParsePort(v) /= 0
  <2>1. e = [c EXCEPT !.port = ParsePort(v)]
    BY <1>7 DEF ParseLine
  <2>2. /\ e \in Configs /\ e.result = "ok" /\ e.port = ParsePort(v)
        /\ e.key = c.key /\ e.ip = c.ip
    BY <1>1, <1>7, <2>1 DEF Configs
  <2> HIDE DEF e
  <2> QED BY <1>7, <2>2 DEF e
<1> QED BY <1>1, <1>2, <1>3, <1>4, <1>5, <1>6, <1>7

\* The strtok loop, one line at a time.
LEMMA SettingsUnfold ==
    ASSUME ConfigAssumption, NEW f \in Seq(LineSet)
    PROVE  /\ Settings(f) \in [0..Len(f) -> Configs]
           /\ Settings(f)[0] = [result |-> "ok", key |-> <<>>, ip |-> <<>>, port |-> 0]
           /\ \A i \in 1..Len(f) :
                 Settings(f)[i] = IF Extent(f)[i - 1] < READ_SIZE
                                  THEN ParseLine(Settings(f)[i - 1], LineRead(f, i))
                                  ELSE Settings(f)[i - 1]
<1> DEFINE n == Len(f)
           base == [result |-> "ok", key |-> <<>>, ip |-> <<>>, port |-> 0]
           Turn(c, i) == IF Extent(f)[i - 1] < READ_SIZE
                         THEN ParseLine(c, LineRead(f, i)) ELSE c
           step == [i \in 1..n |-> [c \in Configs |-> Turn(c, i)]]
           Q(g) == g = [i \in 0..n |->
                           IF i = 0 THEN base
                           ELSE IF Extent(f)[i - 1] < READ_SIZE
                                THEN ParseLine(g[i - 1], LineRead(f, i)) ELSE g[i - 1]]
<1>1. n \in Nat /\ base \in Configs
  BY DEF Configs
<1>2. step \in [1..n -> [Configs -> Configs]]
  <2>1. \A i \in 1..n : \A c \in Configs : Turn(c, i) \in Configs
    BY LineReadIs, LineParsed
  <2> HIDE DEF Turn
  <2> QED BY <2>1
<1>3. \A i \in 1..n : \A c \in Configs : step[i][c] = Turn(c, i)
  OBVIOUS
<1> HIDE DEF step
<1>4. PICK d : Iterates(d, Configs, base, n, step)
  <2> HIDE DEF n, base
  <2> QED BY <1>1, <1>2, Iteration
<1>5. Q(d)
  <2>1. \A i \in 1..n : i - 1 \in 0..n
    BY <1>1
  <2> HIDE DEF n, base
  <2>2. \A i \in 1..n : d[i] = Turn(d[i - 1], i)
    <3> HIDE DEF Turn
    <3>1. ASSUME NEW i \in 1..n PROVE d[i] = Turn(d[i - 1], i)
      <4>1. d[i - 1] \in Configs /\ d[i] = step[i][d[i - 1]]
        BY ONLY <1>4, <2>1, i \in 1..n DEF Iterates
      <4> QED BY ONLY <1>3, <4>1, i \in 1..n
    <3> QED BY ONLY <3>1
  <2> QED BY <1>1, <1>4, <2>2 DEF Iterates
<1>6. Settings(f) = CHOOSE g : Q(g)
  BY DEF Settings
<1>7. Q(Settings(f))
  <2> HIDE DEF Q
  <2> QED BY <1>5, <1>6
<1> HIDE DEF n, base
<1>8. /\ Settings(f) = [i \in 0..n |-> Settings(f)[i]] /\ Settings(f)[0] = base
      /\ \A i \in 1..n : Settings(f)[i] = Turn(Settings(f)[i - 1], i)
  <2>1. ASSUME NEW i \in 0..n
        PROVE  Settings(f)[i] = IF i = 0 THEN base ELSE Turn(Settings(f)[i - 1], i)
    BY <1>7
  <2>2. Settings(f) = [i \in 0..n |-> Settings(f)[i]]
    BY <1>7
  <2> HIDE DEF Turn
  <2>3. Settings(f)[0] = base
    BY <1>1, <2>1
  <2>4. \A i \in 1..n : i \in 0..n /\ i /= 0
    BY <1>1
  <2> QED BY <2>1, <2>2, <2>3, <2>4
<1>9. Iterates(Settings(f), Configs, base, n, step)
  <2> HIDE DEF Turn
  <2>1. \A i \in 1..n : Settings(f)[i - 1] \in Configs
                        => Settings(f)[i] = step[i][Settings(f)[i - 1]]
    BY <1>3, <1>8
  <2> QED BY <1>1, <1>2, <1>8, <2>1, Typed
<1> QED BY <1>8, <1>9 DEF Iterates, n, base

\* A line that stops no reading.
GoodLine(line) ==
    line.name /= "bare" /\ (line.name = "port" => PortText(line.value))

\* What is set by the lines that are read whole.
AsSaid(f, i) ==
    LET c == Settings(f)[i] IN
    /\ c.result = "ok" <=> \A j \in 1..i : GoodLine(f[j])
    /\ c.result = "ok" => /\ c.key = trim(Says(f, i, "key"))
                          /\ c.ip = trim(Says(f, i, "ip"))
                          /\ c.port = ParsePort(trim(Says(f, i, "port")))

\* The lines that are read whole set what they say.
LEMMA WholeLines ==
    ASSUME ConfigAssumption, NEW f \in Seq(LineSet), NEW k \in 0..Len(f),
           Extent(f)[k] <= READ_SIZE
    PROVE  AsSaid(f, k)
<1> DEFINE n == Len(f)
           S == {i \in Nat : i <= k => AsSaid(f, i)}
<1>1. AsSaid(f, 0)
  <2>1. Settings(f)[0] = [result |-> "ok", key |-> <<>>, ip |-> <<>>, port |-> 0]
    BY SettingsUnfold
  <2>2. /\ Settings(f)[0].result = "ok" /\ Settings(f)[0].key = <<>>
        /\ Settings(f)[0].ip = <<>> /\ Settings(f)[0].port = 0
    BY <2>1
  <2>3. trim(<<>>) = <<>> /\ ParsePort(trim(<<>>)) = 0
    BY NothingTrimmed, NoPort
  <2>4. /\ Says(f, 0, "key") = <<>> /\ Says(f, 0, "ip") = <<>>
        /\ Says(f, 0, "port") = <<>>
    BY SaysNothing
  <2>5. \A j \in 1..0 : GoodLine(f[j])
    OBVIOUS
  <2> QED BY <2>2, <2>3, <2>4, <2>5 DEF AsSaid
<1>2. ASSUME NEW i \in Nat, i + 1 <= k, AsSaid(f, i) PROVE AsSaid(f, i + 1)
  <2> DEFINE c == Settings(f)[i]
             e == Settings(f)[i + 1]
             line == f[i + 1]
             before == \A j \in 1..i : GoodLine(f[j])
             all == \A j \in 1..(i + 1) : GoodLine(f[j])
  <2>1. /\ i \in 0..n /\ i + 1 \in 0..n /\ i + 1 \in 1..n /\ (i + 1) - 1 = i
        /\ k \in (i + 1)..n /\ i < n /\ k \in Nat /\ READ_SIZE \in Nat
    BY <1>2 DEF ConfigAssumption
  <2>2. Extent(f)[i + 1] <= READ_SIZE /\ Extent(f)[i] < READ_SIZE
    <3>1. Extent(f)[i + 1] <= Extent(f)[k]
      BY <2>1, ExtentGrows
    <3>2. Extent(f)[i + 1] = Extent(f)[i] + Width(line)
      BY <2>1, ExtentUnfolds
    <3>3. Extent(f)[i] \in Nat /\ Extent(f)[k] \in Nat
      BY <2>1, ExtentUnfolds
    <3>4. line \in LineSet
      BY <2>1
    <3>5. Width(line) \in Nat /\ Width(line) > 2
      BY <3>4, WidthPositive
    <3> HIDE DEF line
    <3>6. PICK a, b, w, l : /\ a = Extent(f)[i] /\ b = Extent(f)[i + 1]
                            /\ w = Width(line) /\ l = Extent(f)[k]
      OBVIOUS
    <3>7. /\ a \in Nat /\ l \in Nat /\ w \in Nat /\ w > 2
          /\ b = a + w /\ b <= l /\ l <= READ_SIZE /\ READ_SIZE \in Nat
      BY <2>1, <3>1, <3>2, <3>3, <3>5, <3>6
    <3>8. b <= READ_SIZE /\ a < READ_SIZE
      BY ONLY <3>7
    <3> QED BY ONLY <3>6, <3>8
  <2>3. line \in LineSet /\ LineRead(f, i + 1) = line
    BY <2>1, <2>2, LineReadIs, SMTT(20)
  <2>4. c \in Configs /\ e = ParseLine(c, line)
    BY <2>1, <2>2, <2>3, SettingsUnfold
  <2>5. all <=> before /\ GoodLine(line)
    <3>1. i + 1 \in 1..(i + 1) /\ \A j \in 1..(i + 1) : j \in 1..i \/ j = i + 1
      OBVIOUS
    <3>2. \A j \in 1..i : j \in 1..(i + 1)
      OBVIOUS
    <3> QED BY <3>1, <3>2
  <2>6. GoodLine(line) <=> line.name /= "bare"
                           /\ (line.name = "port" => ParsePort(trim(line.value)) /= 0)
    <3>1. line.value \in Seq(Nat)
      BY <2>3 DEF LineSet
    <3> HIDE DEF line
    <3> QED BY <3>1, PortRead DEF GoodLine
  <2>7. /\ c.result = "ok" <=> before
        /\ c.result = "ok" => /\ c.key = trim(Says(f, i, "key"))
                              /\ c.ip = trim(Says(f, i, "ip"))
                              /\ c.port = ParsePort(trim(Says(f, i, "port")))
    BY <1>2 DEF AsSaid
  <2>8. \A name : Says(f, i + 1, name) = IF line.name = name THEN line.value ELSE Says(f, i, name)
    BY <2>1, SaysLast
  <2>9. /\ c.result /= "ok" => e = c
        /\ c.result = "ok" =>
             (e.result = "ok" <=> line.name /= "bare"
                                  /\ (line.name = "port" => ParsePort(trim(line.value)) /= 0))
        /\ e.result = "ok" =>
             /\ e.key = IF line.name = "key" THEN trim(line.value) ELSE c.key
             /\ e.ip = IF line.name = "ip" THEN trim(line.value) ELSE c.ip
             /\ e.port = IF line.name = "port" THEN ParsePort(trim(line.value)) ELSE c.port
    <3> HIDE DEF c, e, line
    <3> QED BY <2>3, <2>4, LineParsed
  <2> HIDE DEF c, e, line, before, all
  <2>10. e.result = "ok" <=> all
    BY <2>5, <2>6, <2>7, <2>9
  <2>11. ASSUME e.result = "ok"
         PROVE  /\ e.key = trim(Says(f, i + 1, "key"))
                /\ e.ip = trim(Says(f, i + 1, "ip"))
                /\ e.port = ParsePort(trim(Says(f, i + 1, "port")))
    <3>1. c.result = "ok"
      BY <2>9, <2>11
    <3>2. e.key = trim(Says(f, i + 1, "key"))
      BY <2>7, <2>8, <2>9, <2>11, <3>1
    <3>3. e.ip = trim(Says(f, i + 1, "ip"))
      BY <2>7, <2>8, <2>9, <2>11, <3>1
    <3>4. CASE line.name = "port"
      BY <2>8, <2>9, <2>11, <3>2, <3>3, <3>4
    <3>5. CASE line.name /= "port"
      BY <2>7, <2>8, <2>9, <2>11, <3>1, <3>2, <3>3, <3>5
    <3> QED BY <3>4, <3>5
  <2> QED BY <2>10, <2>11 DEF AsSaid, e, all
<1>3. 0 \in S /\ \A i \in Nat : i \in S => i + 1 \in S
  BY <1>1, <1>2
<1>4. Nat \subseteq S
  <2> HIDE DEF S
  <2> QED BY <1>3, Induct
<1> QED BY <1>4

\* Behind the line in which the reading stops nothing is read.
LEMMA NothingMore ==
    ASSUME ConfigAssumption, NEW f \in Seq(LineSet), NEW k \in 0..Len(f), k /= Len(f),
           Extent(f)[k + 1] > READ_SIZE
    PROVE  Settings(f)[Len(f)] = Settings(f)[k + 1]
<1> DEFINE n == Len(f)
           S == {m \in Nat : (k + 1) + m <= n =>
                                 Settings(f)[(k + 1) + m] = Settings(f)[k + 1]}
<1>1. 0 \in S
  <2>1. (k + 1) + 0 = k + 1
    OBVIOUS
  <2> QED BY <2>1
<1>2. ASSUME NEW m \in Nat, m \in S PROVE m + 1 \in S
  <2> SUFFICES ASSUME (k + 1) + (m + 1) <= n
               PROVE  Settings(f)[(k + 1) + (m + 1)] = Settings(f)[k + 1]
    OBVIOUS
  <2> DEFINE i == (k + 1) + (m + 1)
  <2>1. /\ i \in 1..n /\ i - 1 = (k + 1) + m /\ i - 1 <= n
        /\ k + 1 \in 0..n /\ i - 1 \in (k + 1)..n /\ i - 1 \in 0..n
    OBVIOUS
  <2>2. Extent(f)[k + 1] <= Extent(f)[i - 1]
    BY <2>1, ExtentGrows
  <2>3. Extent(f)[k + 1] \in Nat /\ Extent(f)[i - 1] \in Nat /\ READ_SIZE \in Nat
    BY <2>1, ExtentUnfolds DEF ConfigAssumption
  <2>4. ~(Extent(f)[i - 1] < READ_SIZE)
    BY <2>2, <2>3
  <2>5. Settings(f)[i] = Settings(f)[i - 1]
    BY <2>1, <2>4, SettingsUnfold
  <2> QED BY <1>2, <2>1, <2>5
<1>3. Nat \subseteq S
  <2> HIDE DEF S
  <2> QED BY <1>1, <1>2, Induct
<1>4. n - (k + 1) \in Nat /\ (k + 1) + (n - (k + 1)) = n /\ n <= n
  OBVIOUS
<1>5. n - (k + 1) \in S
  <2> HIDE DEF S
  <2> QED BY <1>3, <1>4
<1> QED BY <1>4, <1>5

\* What the checks after the loop add: both programs accept the same files.
LEMMA Judged ==
    ASSUME ConfigAssumption, NEW f \in Seq(LineSet),
           NEW codes \in {TunnelCode, ProbeCode}
    PROVE  LET c == Settings(f)[Len(f)] IN
           /\ Loaded(f, codes).code = 0 <=>
                 /\ c.result = "ok" /\ c.key = PublicKey
                 /\ Dotted(c.ip) /\ c.port /= 0
           /\ Loaded(f, codes).key = c.key /\ Loaded(f, codes).ip = c.ip
           /\ Loaded(f, codes).port = c.port
<1> DEFINE c == Settings(f)[Len(f)]
           e == Completed(c)
<1>1. c \in Configs
  <2>1. Len(f) \in 0..Len(f)
    OBVIOUS
  <2> QED BY <2>1, SettingsUnfold
<1>2. /\ PublicKey /= <<>> /\ ~Dotted(<<>>)
      /\ (tsvita_parse_ipv4_literal(c.ip) /= <<>>) <=> Dotted(c.ip)
  <2>1. c.ip \in Seq(Nat)
    BY <1>1 DEF Configs
  <2>2. PublicKey /= <<>>
    BY DEF ConfigAssumption
  <2>3. ~Dotted(<<>>)
    BY DEF Dotted
  <2> HIDE DEF c
  <2> QED BY <2>1, <2>2, <2>3, LiteralRead
<1> HIDE DEF c
<1>3. /\ e.key = c.key /\ e.ip = c.ip /\ e.port = c.port
      /\ e.result \in {"ok", "separator", "port", "missing", "key", "literal"}
      /\ e.result = "ok" <=> /\ c.result = "ok" /\ c.key = PublicKey
                             /\ Dotted(c.ip) /\ c.port /= 0
  <2>1. CASE c.result /= "ok"
    <3>1. e = c
      BY <2>1 DEF Completed
    <3> QED BY <1>1, <2>1, <3>1 DEF Configs
  <2>2. CASE c.result = "ok" /\ (c.key = <<>> \/ c.ip = <<>> \/ c.port = 0)
    <3>1. e = [c EXCEPT !.result = "missing"]
      BY <2>2 DEF Completed
    <3>2. e.result = "missing" /\ e.key = c.key /\ e.ip = c.ip /\ e.port = c.port
      BY <1>1, <3>1 DEF Configs
    <3> HIDE DEF e
    <3> QED BY <1>2, <2>2, <3>2
  <2>3. CASE c.result = "ok" /\ ~(c.key = <<>> \/ c.ip = <<>> \/ c.port = 0)
    <3>1. e = IF c.key /= PublicKey THEN [c EXCEPT !.result = "key"]
              ELSE IF tsvita_parse_ipv4_literal(c.ip) = <<>>
                   THEN [c EXCEPT !.result = "literal"] ELSE c
      BY <2>3 DEF Completed
    <3>2. CASE c.key /= PublicKey
      <4>1. e.result = "key" /\ e.key = c.key /\ e.ip = c.ip /\ e.port = c.port
        BY <1>1, <3>1, <3>2 DEF Configs
      <4> HIDE DEF e
      <4> QED BY <3>2, <4>1
    <3>3. CASE c.key = PublicKey /\ ~Dotted(c.ip)
      <4>1. e.result = "literal" /\ e.key = c.key /\ e.ip = c.ip /\ e.port = c.port
        BY <1>1, <1>2, <3>1, <3>3 DEF Configs
      <4> HIDE DEF e
      <4> QED BY <3>3, <4>1
    <3>4. CASE c.key = PublicKey /\ Dotted(c.ip)
      <4>1. e = c
        BY <1>2, <3>1, <3>4
      <4> HIDE DEF e
      <4> QED BY <2>3, <3>4, <4>1
    <3> QED BY <3>2, <3>3, <3>4
  <2> QED BY <2>1, <2>2, <2>3
<1> HIDE DEF e
<1>4. codes[e.result] = 0 <=> e.result = "ok"
  BY <1>3 DEF TunnelCode, ProbeCode
<1>5. Loaded(f, codes) = [key |-> e.key, ip |-> e.ip, port |-> e.port,
                          code |-> codes[e.result]]
  BY DEF Loaded, ParsedFile, e, c
<1> QED BY <1>3, <1>4, <1>5 DEF c

\* A file that fits is judged by what all of its lines say.
LEMMA WholeFileJudged ==
    ASSUME ConfigAssumption, NEW f \in Seq(LineSet),
           NEW codes \in {TunnelCode, ProbeCode}, Extent(f)[Len(f)] <= READ_SIZE
    PROVE  Loaded(f, codes).code = 0 <=>
               /\ \A i \in DOMAIN f : GoodLine(f[i])
               /\ Says(f, Len(f), "port") /= <<>>
               /\ Holds(Says(f, Len(f), "key"), PublicKey)
               /\ HoldsAddress(Says(f, Len(f), "ip"))
<1> DEFINE n == Len(f)
           c == Settings(f)[n]
           all == \A i \in 1..n : GoodLine(f[i])
           port == Says(f, n, "port")
           key == Says(f, n, "key")
           ip == Says(f, n, "ip")
<1>1. n \in 0..n /\ DOMAIN f = 1..n
  OBVIOUS
<1>2. /\ c.result = "ok" <=> all
      /\ c.result = "ok" => /\ c.key = trim(key) /\ c.ip = trim(ip)
                            /\ c.port = ParsePort(trim(port))
  BY <1>1, WholeLines DEF AsSaid
<1>3. Loaded(f, codes).code = 0 <=>
          c.result = "ok" /\ c.key = PublicKey /\ Dotted(c.ip) /\ c.port /= 0
  BY Judged
<1>4. ASSUME all PROVE ParsePort(trim(port)) /= 0 <=> port /= <<>>
  <2>1. port \in Seq(Nat) /\ ParsePort(trim(<<>>)) = 0
    BY <1>1, SaysOfALine, NoPort
  <2>2. CASE port = <<>>
    BY <2>1, <2>2
  <2>3. CASE port /= <<>>
    <3>0. \/ port = <<>>
          \/ \E j \in 1..n : f[j].name = "port" /\ f[j].value = port
      BY ONLY f \in Seq(LineSet), <1>1, SaysOfALine
    <3>1. PICK j \in 1..n : f[j].name = "port" /\ f[j].value = port
      BY ONLY <2>3, <3>0
    <3>2. PortText(port)
      BY <1>4, <3>1 DEF GoodLine
    <3> HIDE DEF port
    <3> QED BY <2>1, <2>3, <3>2, PortRead
  <2> QED BY <2>2, <2>3
<1>5. (trim(key) = PublicKey <=> Holds(key, PublicKey)) /\ (Dotted(trim(ip)) <=> HoldsAddress(ip))
  <2>1. key \in Seq(Nat) /\ ip \in Seq(Nat)
    BY <1>1, SaysOfALine
  <2> HIDE DEF key, ip
  <2> QED BY ONLY ConfigAssumption, <2>1, TrimmedIsHeld
<1> HIDE DEF c, all, port, key, ip
<1>6. Loaded(f, codes).code = 0 <=>
          all /\ port /= <<>> /\ Holds(key, PublicKey) /\ HoldsAddress(ip)
  BY <1>2, <1>3, <1>4, <1>5
<1> QED BY <1>1, <1>6 DEF all, port, key, ip

\* A file that is accepted sets only what stands in it.
LEMMA AcceptedIsSaid ==
    ASSUME ConfigAssumption, NEW f \in Seq(LineSet),
           NEW codes \in {TunnelCode, ProbeCode}, Loaded(f, codes).code = 0
    PROVE  /\ Loaded(f, codes).key = PublicKey
           /\ \E v \in Readings(f, "key") : Holds(v, Loaded(f, codes).key)
           /\ Dotted(Loaded(f, codes).ip)
           /\ \E v \in Readings(f, "ip") : Holds(v, Loaded(f, codes).ip)
           /\ \E v \in Readings(f, "port") : \E i, j \in DOMAIN v :
                 PortAt(v, i, j) /\ Loaded(f, codes).port = Decimal(SubSeq(v, i, j))
<1> DEFINE n == Len(f)
           whole == {i \in 0..n : Extent(f)[i] <= READ_SIZE}
           k == CHOOSE i \in whole : \A j \in whole : j <= i
           c == Settings(f)[k]
           e == Settings(f)[n]
           Begun(name) == IF k = n \/ f[k + 1].name /= name THEN {}
                          ELSE {SubSeq(f[k + 1].value, 1, m) : m \in 0..Len(f[k + 1].value)}
<1>1. k \in whole /\ \A j \in whole : j <= k
  <2>1. whole \subseteq 0..n /\ 0 \in whole /\ n \in Nat
    BY ExtentUnfolds DEF ConfigAssumption
  <2>2. \E m \in whole : \A j \in whole : j <= m
    <3> HIDE DEF whole
    <3> QED BY <2>1, Greatest
  <2> HIDE DEF whole
  <2> QED BY <2>2
<1>2. \A name : Readings(f, name) = {Says(f, k, name)} \cup Begun(name)
  BY DEF Readings
<1> HIDE DEF k
<1>3. k \in 0..n /\ Extent(f)[k] <= READ_SIZE
  BY <1>1
<1>4. /\ Loaded(f, codes).key = e.key /\ Loaded(f, codes).ip = e.ip
      /\ Loaded(f, codes).port = e.port
      /\ e.result = "ok" /\ e.port /= 0 /\ e.key = PublicKey /\ Dotted(e.ip)
  BY Judged
<1>5. c.result = "ok" => /\ c.key = trim(Says(f, k, "key"))
                         /\ c.ip = trim(Says(f, k, "ip"))
                         /\ c.port = ParsePort(trim(Says(f, k, "port")))
  BY <1>3, WholeLines DEF AsSaid
<1>6. /\ \E v \in {Says(f, k, "key")} \cup Begun("key") : e.key = trim(v)
      /\ \E v \in {Says(f, k, "ip")} \cup Begun("ip") : e.ip = trim(v)
      /\ \E v \in {Says(f, k, "port")} \cup Begun("port") : e.port = ParsePort(trim(v))
  <2>1. CASE k = n
    BY <1>4, <1>5, <2>1
  <2>2. CASE k /= n
    <3> DEFINE line == LineRead(f, k + 1)
    <3>1. k + 1 \in 0..n /\ k + 1 \in 1..n /\ (k + 1) - 1 = k /\ READ_SIZE \in Nat
      BY <1>3, <2>2 DEF ConfigAssumption
    <3>2. Extent(f)[k + 1] > READ_SIZE
      <4>1. k + 1 \notin whole
        BY <1>1, <1>3
      <4>2. Extent(f)[k + 1] \in Nat
        BY <3>1, ExtentUnfolds
      <4> QED BY <3>1, <4>1, <4>2
    <3>3. e = Settings(f)[k + 1]
      BY <1>3, <2>2, <3>2, NothingMore
    <3>4. c \in Configs
      BY <1>3, SettingsUnfold
    <3>5. CASE ~(Extent(f)[k] < READ_SIZE)
      <4>1. e = c
        BY <3>1, <3>3, <3>5, SettingsUnfold
      <4> QED BY <1>4, <1>5, <4>1
    <3>6. CASE Extent(f)[k] < READ_SIZE
      <4>1. e = ParseLine(c, line)
        BY <3>1, <3>3, <3>6, SettingsUnfold
      <4>2. /\ line \in LineSet
            /\ \/ line.name \in {"blank", "bare"}
               \/ /\ line.name = f[k + 1].name
                  /\ \E m \in 0..Len(f[k + 1].value) :
                        line.value = SubSeq(f[k + 1].value, 1, m)
        BY <3>1, <3>2, <3>6, LineReadIs
      <4>3. \A name : line.name = name /\ name \notin {"blank", "bare"}
                      => line.value \in Begun(name)
        BY <2>2, <4>2
      <4> HIDE DEF line, c, e, Begun
      <4>4. /\ c.result = "ok"
            /\ e.key = IF line.name = "key" THEN trim(line.value) ELSE c.key
            /\ e.ip = IF line.name = "ip" THEN trim(line.value) ELSE c.ip
            /\ e.port = IF line.name = "port" THEN ParsePort(trim(line.value)) ELSE c.port
        <5>1. c.result /= "ok" => e = c
          BY <3>4, <4>1, <4>2, LineParsed
        <5>2. c.result = "ok"
          BY <1>4, <5>1
        <5> QED BY <1>4, <3>4, <4>1, <4>2, <5>2, LineParsed
      <4>5. \E v \in {Says(f, k, "key")} \cup Begun("key") : e.key = trim(v)
        <5>1. CASE line.name = "key"
          BY <4>3, <4>4, <5>1
        <5>2. CASE line.name /= "key"
          BY <1>5, <4>4, <5>2
        <5> QED BY <5>1, <5>2
      <4>6. \E v \in {Says(f, k, "ip")} \cup Begun("ip") : e.ip = trim(v)
        <5>1. CASE line.name = "ip"
          BY <4>3, <4>4, <5>1
        <5>2. CASE line.name /= "ip"
          BY <1>5, <4>4, <5>2
        <5> QED BY <5>1, <5>2
      <4>7. \E v \in {Says(f, k, "port")} \cup Begun("port") : e.port = ParsePort(trim(v))
        <5>1. CASE line.name = "port"
          BY <4>3, <4>4, <5>1
        <5>2. CASE line.name /= "port"
          BY <1>5, <4>4, <5>2
        <5> QED BY <5>1, <5>2
      <4> QED BY <4>5, <4>6, <4>7
    <3> QED BY <3>5, <3>6
  <2> QED BY <2>1, <2>2
<1>7. \A name : \A v \in {Says(f, k, name)} \cup Begun(name) : v \in Seq(Nat)
  <2> SUFFICES ASSUME NEW name
               PROVE  \A v \in {Says(f, k, name)} \cup Begun(name) : v \in Seq(Nat)
    OBVIOUS
  <2>1. Says(f, k, name) \in Seq(Nat)
    BY <1>3, SaysOfALine
  <2>2. ASSUME NEW v \in Begun(name) PROVE v \in Seq(Nat)
    <3> DEFINE w == f[k + 1].value
    <3>1. k /= n /\ \E m \in 0..Len(w) : v = SubSeq(w, 1, m)
      BY <2>2
    <3>2. PICK m \in 0..Len(w) : v = SubSeq(w, 1, m)
      BY <3>1
    <3>3. f[k + 1] \in LineSet
      BY <1>3, <3>1
    <3>4. w \in Seq(Nat) /\ Len(w) \in Nat
      BY <3>3 DEF LineSet
    <3> HIDE DEF w
    <3>5. ASSUME NEW l \in 1..m PROVE w[l] \in Nat
      <4>1. l \in 1..Len(w)
        BY <3>4
      <4> QED BY <3>4, <4>1, ElementOfSeq
    <3>6. m \in Int
      BY <3>4
    <3> QED BY <3>2, <3>5, <3>6, SubSeqProperties
  <2> HIDE DEF Begun
  <2> QED BY <2>1, <2>2
<1> HIDE DEF Begun, e
<1>8. PICK u \in Readings(f, "key"), w \in Readings(f, "ip"), v \in Readings(f, "port") :
          e.key = trim(u) /\ e.ip = trim(w) /\ e.port = ParsePort(trim(v))
  BY <1>2, <1>6
<1>9. u \in Seq(Nat) /\ w \in Seq(Nat) /\ v \in Seq(Nat)
  BY <1>2, <1>7
<1>10. Holds(u, e.key) /\ Holds(w, e.ip)
  <2>1. Holds(u, PublicKey)
    BY ONLY ConfigAssumption, <1>4, <1>8, <1>9, TrimmedIsHeld
  <2>2. Holds(w, trim(w))
    BY ONLY ConfigAssumption, <1>4, <1>8, <1>9, TrimmedIsHeld
  <2> QED BY ONLY <1>4, <1>8, <2>1, <2>2
<1>11. \E i, j \in DOMAIN v : PortAt(v, i, j) /\ e.port = Decimal(SubSeq(v, i, j))
  BY ONLY <1>4, <1>8, <1>9, PortRead
<1> QED BY ONLY <1>4, <1>10, <1>11, u \in Readings(f, "key"), w \in Readings(f, "ip"),
              v \in Readings(f, "port"), Zenon

\* load_peer_config, for every file of any length and every size of the
\* buffer: a file that fits is accepted exactly when each of its lines is good
\* and each setting is there, with what white space trim and strtol skip; what
\* is accepted of a longer one is good and stands in the file, at worst cut
\* off where the reading stopped.
THEOREM ConfigReadTruly == ConfigSpec => []ConfigIsWhatFileSays
<1>1. ConfigTypeOK => ConfigIsWhatFileSays
  <2> SUFFICES ASSUME ConfigTypeOK, loaded /= NotLoaded
               PROVE  FitsIsJudgedWhole /\ AcceptedIsInFile
    BY DEF ConfigIsWhatFileSays, FitsIsJudgedWhole, AcceptedIsInFile
  <2>1. file \in Seq(LineSet)
    <3>1. Lines \subseteq LineSet /\ file \in Seq(Lines)
      BY ConfigAssumption DEF ConfigAssumption, LineSet, ConfigTypeOK
    <3> QED BY <3>1, SeqMonotonic
  <2>2. PICK codes \in {TunnelCode, ProbeCode} : loaded = Loaded(file, codes)
    BY DEF ConfigTypeOK
  <2>3. FitsIsJudgedWhole
    <3> SUFFICES ASSUME Extent(file)[Len(file)] <= READ_SIZE
                 PROVE  (loaded.code = 0) =
                          /\ \A i \in DOMAIN file : GoodLine(file[i])
                          /\ Says(file, Len(file), "port") /= <<>>
                          /\ Holds(Says(file, Len(file), "key"), PublicKey)
                          /\ HoldsAddress(Says(file, Len(file), "ip"))
      BY DEF FitsIsJudgedWhole, GoodLine
    <3>1. /\ Holds(Says(file, Len(file), "key"), PublicKey) \in BOOLEAN
          /\ HoldsAddress(Says(file, Len(file), "ip")) \in BOOLEAN
      BY Zenon DEF Holds, HoldsAddress
    <3> QED BY <2>1, <2>2, <3>1, ConfigAssumption, WholeFileJudged
  <2>4. AcceptedIsInFile
    <3>1. loaded.code = 0 => Loaded(file, codes).code = 0
      BY ONLY <2>2
    <3> SUFFICES ASSUME loaded.code = 0 PROVE AcceptedIsInFile
      BY DEF AcceptedIsInFile
    <3>2. /\ loaded.key = PublicKey
          /\ \E v \in Readings(file, "key") : Holds(v, loaded.key)
          /\ Dotted(loaded.ip)
          /\ \E v \in Readings(file, "ip") : Holds(v, loaded.ip)
          /\ \E v \in Readings(file, "port") : \E i, j \in DOMAIN v :
                PortAt(v, i, j) /\ loaded.port = Decimal(SubSeq(v, i, j))
      BY ONLY ConfigAssumption, loaded.code = 0, codes \in {TunnelCode, ProbeCode},
              <2>1, <2>2, AcceptedIsSaid, Zenon
    <3> QED BY ONLY <3>2, Zenon DEF AcceptedIsInFile
  <2> QED BY <2>3, <2>4
<1> QED BY <1>1, ConfigCodes, PTL

-----------------------------------------------------------------------------
(* The checksum, and sequences of bytes.                                   *)

\* A sum of 32 bits.
Sum32(x) == x \in Nat /\ x < 65536 * 65536

\* What a sum is whose checksum is zero.
Clean(x) == \E k \in Nat : x = 65535 * k

\* Bytes as numbers.
LEMMA ByteIs == \A b : b \in Byte <=> b \in Int /\ 0 <= b /\ b <= 255
<1> DEFINE M == 255
<1>1. M \in Nat /\ Byte = 0..M
  BY DEF Byte
<1>2. \A b : b \in Byte <=> b \in Int /\ 0 <= b /\ b <= M
  <2> HIDE DEF M
  <2> QED BY <1>1
<1> QED BY <1>2

\* Words as numbers.
LEMMA WordIs == \A w : w \in Word <=> w \in Int /\ 0 <= w /\ w <= 65535
<1>1. UINT16_MAX \in Nat
  BY DEF UINT16_MAX
<1>2. \A w : w \in Word <=> w \in Int /\ 0 <= w /\ w <= UINT16_MAX
  BY <1>1 DEF Word
<1> QED BY <1>2 DEF UINT16_MAX

\* write_be16 and read_be16 are inverse: a word is its two bytes.
LEMMA WordOfBytes ==
    ASSUME NEW w \in Word
    PROVE  high(w) \in Byte /\ low(w) \in Byte /\ high(w) * 256 + low(w) = w
<1>1. w \in Int /\ 0 <= w /\ w <= 65535
  BY WordIs
<1> DEFINE q == high(w)
           r == low(w)
<1>2. q \in Int /\ r \in Int /\ w = 256 * q + r /\ 0 <= r /\ r <= 255
  BY <1>1 DEF high, low
<1> HIDE DEF q, r
<1>3. 0 <= q /\ q <= 255 /\ q * 256 + r = w
  BY <1>1, <1>2
<1>4. q \in Byte /\ r \in Byte
  BY <1>2, <1>3, ByteIs
<1> QED BY <1>3, <1>4 DEF q, r

\* One round of carries takes away a multiple of 65535, and leaves zero only
\* of zero.
LEMMA FoldKeeps ==
    ASSUME NEW x, Sum32(x)
    PROVE  \E k \in Nat : fold(x) = x - 65535 * k /\ fold(x) \in Nat
                          /\ fold(x) <= 131070 /\ (fold(x) = 0 <=> x = 0)
                          /\ (x <= 131070 => fold(x) <= 65535)
<1> DEFINE q == x \div 65536
           r == x % 65536
<1>1. x \in Nat /\ x < 65536 * 65536
  BY DEF Sum32
<1>2. q \in Int /\ r \in Int /\ x = 65536 * q + r /\ 0 <= r /\ r <= 65535
  BY <1>1
<1>3. fold(x) = r + q
  BY DEF fold
<1> HIDE DEF q, r
<1>4. 0 <= q /\ q <= 65535
  BY <1>1, <1>2
<1>5. q \in Nat /\ fold(x) = x - 65535 * q /\ fold(x) \in Nat /\ fold(x) <= 131070
      /\ (fold(x) = 0 <=> x = 0)
  BY <1>1, <1>2, <1>3, <1>4
<1>6. x <= 131070 => fold(x) <= 65535
  BY <1>1, <1>2, <1>3, <1>4
<1> QED BY <1>5, <1>6

\* What checksum_finish returns completes the sum, and is zero exactly for a
\* sum that is complete already.
LEMMA FinishIs ==
    ASSUME NEW x, Sum32(x)
    PROVE  /\ checksum_finish(x) \in Word
           /\ Clean(x + checksum_finish(x)) /\ (Clean(x) => Clean(x + UINT16_MAX))
           /\ x > 0 => (checksum_finish(x) = 0 <=> Clean(x))
<1> DEFINE y == fold(x)
           z == fold(y)
           c == checksum_finish(x)
<1>1. PICK k \in Nat : y = x - 65535 * k /\ y \in Nat /\ y <= 131070 /\ (y = 0 <=> x = 0)
  BY FoldKeeps
<1>2. Sum32(y) /\ x \in Nat
  <2> HIDE DEF y
  <2> QED BY <1>1 DEF Sum32
<1>3. PICK l \in Nat : z = y - 65535 * l /\ z \in Nat /\ z <= 65535 /\ (z = 0 <=> y = 0)
  <2> HIDE DEF y
  <2> QED BY <1>1, <1>2, FoldKeeps
<1>4. c = 65535 - z
  BY DEF checksum_finish, UINT16_MAX
<1> HIDE DEF y, z, c
<1>5. c \in Word
  BY <1>3, <1>4, WordIs
<1>6. k + l \in Nat /\ c = 65535 - (x - 65535 * (k + l))
  BY <1>1, <1>2, <1>3, <1>4
<1>7. ASSUME x > 0 PROVE z > 0 /\ c < 65535
  BY <1>1, <1>2, <1>3, <1>4, <1>7
<1>8. Clean(x + c)
  <2> DEFINE m == (k + l) + 1
  <2>1. m \in Nat /\ x + c = 65535 * m
    BY <1>2, <1>6
  <2> HIDE DEF m
  <2> QED BY <2>1 DEF Clean
<1>9. ASSUME x > 0, Clean(x) PROVE c = 0
  <2>0. PICK m \in Nat : x = 65535 * m
    BY <1>9 DEF Clean
  <2>1. z = x - 65535 * (k + l)
    BY <1>1, <1>2, <1>3
  <2>2. m - (k + l) \in Int /\ z = 65535 * (m - (k + l))
    BY <2>0, <2>1
  <2>3. m - (k + l) = 1
    BY <1>3, <1>7, <1>9, <2>2
  <2> QED BY <1>4, <2>2, <2>3
<1>10. c = 0 => Clean(x)
  <2>1. x + 0 = x
    BY <1>2
  <2> QED BY <1>8, <2>1
<1>11. Clean(x) => Clean(x + UINT16_MAX)
  <2> SUFFICES ASSUME NEW m \in Nat, x = 65535 * m PROVE Clean(x + UINT16_MAX)
    BY DEF Clean
  <2> DEFINE j == m + 1
  <2>1. j \in Nat /\ x + UINT16_MAX = 65535 * j
    BY DEF UINT16_MAX
  <2> HIDE DEF j
  <2> QED BY <2>1 DEF Clean
<1> QED BY <1>5, <1>8, <1>9, <1>10, <1>11 DEF c

\* What a byte adds to the sum.
LEMMA SummandIs ==
    ASSUME NEW p \in Seq(Byte), NEW i \in 1..Len(p)
    PROVE  /\ p[i] \in Byte /\ Summand(p, i) \in Nat /\ Summand(p, i) <= 65280
           /\ i % 2 = 1 => Summand(p, i) = 256 * p[i]
           /\ i % 2 /= 1 => Summand(p, i) = p[i]
<1> DEFINE b == p[i]
<1>1. b \in Byte
  BY ElementOfSeq
<1>2. b \in Int /\ 0 <= b /\ b <= 255
  BY <1>1, ByteIs
<1>3. Summand(p, i) = IF i % 2 = 1 THEN b * 256 ELSE b
  BY DEF Summand
<1> HIDE DEF b
<1>4. Summand(p, i) \in Nat /\ Summand(p, i) <= 65280
  BY <1>2, <1>3
<1>5. b * 256 = 256 * b
  BY <1>2
<1> QED BY <1>1, <1>3, <1>4, <1>5 DEF b

\* checksum_add, one byte at a time.
LEMMA SumUnfolds ==
    ASSUME NEW p \in Seq(Byte)
    PROVE  \E s \in [0..Len(p) -> Nat] :
               /\ s[0] = 0 /\ checksum_add(p) = s[Len(p)]
               /\ \A i \in 1..Len(p) : s[i] = s[i - 1] + Summand(p, i)
<1> DEFINE n == Len(p)
           step == [i \in 1..n |-> [a \in Nat |-> a + Summand(p, i)]]
           Q(g) == g = [i \in 0..n |-> IF i = 0 THEN 0 ELSE g[i - 1] + Summand(p, i)]
           sum == CHOOSE g : Q(g)
<1>1. n \in Nat /\ 0 \in Nat
  OBVIOUS
<1>2. step \in [1..n -> [Nat -> Nat]]
  <2>1. \A i \in 1..n : Summand(p, i) \in Nat
    BY SummandIs
  <2> QED BY <2>1
<1>3. \A i \in 1..n : \A a \in Nat : step[i][a] = a + Summand(p, i)
  OBVIOUS
<1> HIDE DEF step
<1>4. PICK d : Iterates(d, Nat, 0, n, step)
  <2> HIDE DEF n
  <2> QED BY <1>1, <1>2, Iteration
<1>5. Q(d)
  <2>1. \A i \in 1..n : i - 1 \in 0..n
    BY <1>1
  <2> HIDE DEF n
  <2>2. \A i \in 1..n : d[i] = d[i - 1] + Summand(p, i)
    BY <1>3, <1>4, <2>1 DEF Iterates
  <2> QED BY <1>1, <1>4, <2>2 DEF Iterates
<1>6. checksum_add(p) = sum[n]
  BY DEF checksum_add
<1>7. Q(sum)
  <2> HIDE DEF Q
  <2> QED BY <1>5
<1> HIDE DEF n, sum
<1>8. /\ sum = [i \in 0..n |-> sum[i]] /\ sum[0] = 0
      /\ \A i \in 1..n : sum[i] = sum[i - 1] + Summand(p, i)
  <2>1. ASSUME NEW i \in 0..n
        PROVE  sum[i] = IF i = 0 THEN 0 ELSE sum[i - 1] + Summand(p, i)
    BY <1>7
  <2>2. sum = [i \in 0..n |-> sum[i]]
    BY <1>7
  <2>3. sum[0] = 0
    BY <1>1, <2>1
  <2>4. \A i \in 1..n : i \in 0..n /\ i /= 0
    BY <1>1
  <2> QED BY <2>1, <2>2, <2>3, <2>4
<1>9. Iterates(sum, Nat, 0, n, step)
  <2>1. \A i \in 1..n : sum[i - 1] \in Nat => sum[i] = step[i][sum[i - 1]]
    BY <1>3, <1>8
  <2> QED BY <1>1, <1>2, <1>8, <2>1, Typed
<1> QED BY <1>6, <1>8, <1>9 DEF Iterates, n

\* The sum of a packet is far from overflowing 32 bits.
LEMMA SumBounded ==
    ASSUME NEW p \in Seq(Byte)
    PROVE  checksum_add(p) \in Nat /\ checksum_add(p) <= 65280 * Len(p)
<1>1. PICK s \in [0..Len(p) -> Nat] :
          /\ s[0] = 0 /\ checksum_add(p) = s[Len(p)]
          /\ \A i \in 1..Len(p) : s[i] = s[i - 1] + Summand(p, i)
  BY SumUnfolds
<1> DEFINE n == Len(p)
           S == {k \in Nat : k <= n => s[k] <= 65280 * k}
<1>2. n \in Nat
  OBVIOUS
<1>3. ASSUME NEW k \in Nat, k \in S PROVE k + 1 \in S
  <2> SUFFICES ASSUME k + 1 <= n PROVE s[k + 1] <= 65280 * (k + 1)
    OBVIOUS
  <2>1. k + 1 \in 1..n /\ (k + 1) - 1 = k /\ k <= n /\ k \in 0..n
    BY <1>2
  <2>2. s[k + 1] = s[k] + Summand(p, k + 1) /\ s[k] \in Nat
    BY <1>1, <2>1
  <2>3. Summand(p, k + 1) \in Nat /\ Summand(p, k + 1) <= 65280
    BY <2>1, SummandIs
  <2>4. s[k] <= 65280 * k
    BY <1>3, <2>1
  <2> QED BY ONLY <2>2, <2>3, <2>4, k \in Nat
<1>4. 0 \in S
  BY <1>1
<1>5. Nat \subseteq S
  <2> HIDE DEF S
  <2> QED BY <1>3, <1>4, Induct
<1>6. s[n] <= 65280 * n /\ s[n] \in Nat
  BY <1>2, <1>5
<1> QED BY <1>1, <1>6

\* A byte that differs changes the sum by what it adds.
LEMMA SumOfOneChange ==
    ASSUME NEW p \in Seq(Byte), NEW q \in Seq(Byte), Len(q) = Len(p),
           NEW i \in 1..Len(p), \A j \in 1..Len(p) : j /= i => q[j] = p[j]
    PROVE  checksum_add(q) + Summand(p, i) = checksum_add(p) + Summand(q, i)
<1> DEFINE n == Len(p)
<1>1. PICK s \in [0..n -> Nat] :
          /\ s[0] = 0 /\ checksum_add(p) = s[n]
          /\ \A j \in 1..n : s[j] = s[j - 1] + Summand(p, j)
  BY SumUnfolds
<1>2. PICK t \in [0..n -> Nat] :
          /\ t[0] = 0 /\ checksum_add(q) = t[n]
          /\ \A j \in 1..n : t[j] = t[j - 1] + Summand(q, j)
  BY SumUnfolds, SMTT(30)
<1> DEFINE P(k) == /\ k < i => t[k] = s[k]
                   /\ k >= i => t[k] + Summand(p, i) = s[k] + Summand(q, i)
           S == {k \in Nat : k <= n => P(k)}
<1>3. n \in Nat /\ i \in Nat /\ i > 0 /\ i <= n
  OBVIOUS
<1>4. \A j \in 1..n : Summand(p, j) \in Nat /\ Summand(q, j) \in Nat
  BY SummandIs
<1>5. \A j \in 1..n : j /= i => Summand(q, j) = Summand(p, j)
  BY DEF Summand
<1>6. ASSUME NEW k \in Nat, k + 1 <= n, P(k) PROVE P(k + 1)
  <2> DEFINE x == Summand(p, k + 1)
             y == Summand(q, k + 1)
             a == Summand(p, i)
             b == Summand(q, i)
  <2>1. k + 1 \in 1..n /\ (k + 1) - 1 = k /\ k \in 0..n
    BY <1>3, <1>6
  <2>2. s[k + 1] = s[k] + x /\ t[k + 1] = t[k] + y /\ s[k] \in Nat /\ t[k] \in Nat
    BY <1>1, <1>2, <2>1
  <2>3. x \in Nat /\ y \in Nat /\ a \in Nat /\ b \in Nat
    BY <1>3, <1>4, <2>1
  <2>4. k + 1 /= i => x = y
    BY <1>5, <2>1
  <2>5. k + 1 = i => x = a /\ y = b
    OBVIOUS
  <2>6. (k < i => t[k] = s[k]) /\ (k >= i => t[k] + a = s[k] + b)
    BY <1>6
  <2> DEFINE s0 == s[k]
             t0 == t[k]
             s1 == s[k + 1]
             t1 == t[k + 1]
  <2> HIDE DEF x, y, a, b, s0, t0, s1, t1
  <2>7. (k + 1 < i => t1 = s1) /\ (k + 1 >= i => t1 + a = s1 + b)
    <3>1. s1 = s0 + x /\ t1 = t0 + y /\ s0 \in Nat /\ t0 \in Nat
      BY <2>2 DEF s0, t0, s1, t1
    <3>2. (k < i => t0 = s0) /\ (k >= i => t0 + a = s0 + b)
      BY <2>6 DEF s0, t0
    <3> QED BY <1>3, <2>3, <2>4, <2>5, <3>1, <3>2
  <2> QED BY <2>7 DEF a, b, s1, t1
<1>7. P(0)
  BY <1>1, <1>2, <1>3
<1>8. 0 \in S /\ \A k \in Nat : k \in S => k + 1 \in S
  <2>1. \A k \in Nat : k + 1 <= n => k <= n
    BY <1>3
  <2> HIDE DEF P
  <2> QED BY <1>6, <1>7, <2>1
<1>9. Nat \subseteq S
  <2> HIDE DEF S
  <2> QED BY <1>8, Induct
<1>10. P(n)
  <2> HIDE DEF P
  <2> QED BY <1>3, <1>9
<1> QED BY <1>1, <1>2, <1>3, <1>10

\* A byte is stored where it is stored, and nowhere else.
LEMMA ByteSet ==
    ASSUME NEW p \in Seq(Byte), NEW i \in 1..Len(p), NEW b \in Byte
    PROVE  /\ [p EXCEPT ![i] = b] \in Seq(Byte)
           /\ Len([p EXCEPT ![i] = b]) = Len(p)
           /\ [p EXCEPT ![i] = b][i] = b
           /\ \A j \in 1..Len(p) : j /= i => [p EXCEPT ![i] = b][j] = p[j]
<1> DEFINE n == Len(p)
           q == [p EXCEPT ![i] = b]
<1>1. n \in Nat /\ p \in [1..n -> Byte]
  BY LenProperties
<1>2. q \in [1..n -> Byte] /\ q[i] = b /\ \A j \in 1..n : j /= i => q[j] = p[j]
  BY <1>1
<1>3. q \in Seq(Byte)
  <2> HIDE DEF q
  <2> QED BY <1>1, <1>2, SeqDef
<1>4. Len(q) = n
  <2>1. Len(q) \in Nat /\ DOMAIN q = 1..Len(q)
    BY <1>3, LenProperties
  <2>2. DOMAIN q = 1..n
    BY <1>2
  <2> HIDE DEF q, n
  <2>3. 1..Len(q) = 1..n
    BY <2>1, <2>2
  <2> DEFINE a == Len(q)
  <2>5. a \in Nat
    BY <2>1
  <2>7. \A j : j \in 1..a <=> j \in 1..n
    BY <2>3
  <2> HIDE DEF a
  <2>6. a = n
    <3>1. ASSUME 1 <= a PROVE a <= n
      <4>1. a \in 1..a
        BY <2>5, <3>1
      <4>2. a \in 1..n
        BY <2>7, <4>1
      <4> QED BY <1>1, <2>5, <4>2
    <3>2. ASSUME 1 <= n PROVE n <= a
      <4>1. n \in 1..n
        BY <1>1, <3>2
      <4>2. n \in 1..a
        BY <2>7, <4>1
      <4> QED BY <1>1, <2>5, <4>2
    <3> QED BY <1>1, <2>5, <3>1, <3>2
  <2> QED BY <2>6 DEF a
<1> QED BY <1>2, <1>3, <1>4

\* A checksum written over two zeroes at an even offset adds itself to the
\* sum.
LEMMA WordWritten ==
    ASSUME NEW p \in Seq(Byte), NEW i \in Nat, i + 2 <= Len(p),
           (i + 1) % 2 = 1, (i + 2) % 2 /= 1, p[i + 1] = 0, p[i + 2] = 0,
           NEW w \in Word
    PROVE  /\ write_be16(p, i, w) \in Seq(Byte)
           /\ Len(write_be16(p, i, w)) = Len(p)
           /\ read_be16(write_be16(p, i, w), i) = w
           /\ \A j \in 1..Len(p) : j /= i + 1 /\ j /= i + 2
                                   => write_be16(p, i, w)[j] = p[j]
           /\ checksum_add(write_be16(p, i, w)) = checksum_add(p) + w
<1> DEFINE h == high(w)
           l == low(w)
           m == [p EXCEPT ![i + 1] = h]
           q == [m EXCEPT ![i + 2] = l]
           n == Len(p)
<1>1. h \in Byte /\ l \in Byte /\ h * 256 + l = w
  BY WordOfBytes
<1>2. i + 1 \in 1..n /\ i + 2 \in 1..n /\ i + 1 /= i + 2
  OBVIOUS
<1>3. write_be16(p, i, w) = q
  BY DEF write_be16
<1> HIDE DEF h, l
<1>4. /\ m \in Seq(Byte) /\ Len(m) = n /\ m[i + 1] = h
      /\ \A j \in 1..n : j /= i + 1 => m[j] = p[j]
  BY <1>1, <1>2, ByteSet
<1> HIDE DEF m
<1>5. /\ q \in Seq(Byte) /\ Len(q) = n /\ q[i + 2] = l
      /\ \A j \in 1..n : j /= i + 2 => q[j] = m[j]
  BY <1>1, <1>2, <1>4, ByteSet
<1> HIDE DEF q
<1>6. checksum_add(m) + Summand(p, i + 1) = checksum_add(p) + Summand(m, i + 1)
  BY <1>2, <1>4, SumOfOneChange
<1>7. checksum_add(q) + Summand(m, i + 2) = checksum_add(m) + Summand(q, i + 2)
  BY <1>2, <1>4, <1>5, SumOfOneChange
<1>8. /\ Summand(p, i + 1) = 256 * 0 /\ Summand(m, i + 1) = 256 * h
      /\ Summand(m, i + 2) = 0 /\ Summand(q, i + 2) = l
  BY <1>2, <1>4, <1>5, SummandIs
<1>9. checksum_add(p) \in Nat /\ checksum_add(m) \in Nat /\ checksum_add(q) \in Nat
      /\ h \in Int /\ l \in Int
  BY <1>1, <1>4, <1>5, SumBounded, ByteIs
<1>10. checksum_add(q) = checksum_add(p) + w
  BY ONLY <1>1, <1>6, <1>7, <1>8, <1>9
<1>11. read_be16(q, i) = w
  BY <1>1, <1>2, <1>4, <1>5 DEF read_be16
<1>12. \A j \in 1..n : j /= i + 1 /\ j /= i + 2 => q[j] = p[j]
  BY <1>4, <1>5
<1> QED BY <1>3, <1>5, <1>10, <1>11, <1>12

\* One wrong byte is always seen by the checksum.
LEMMA OneByteTells ==
    ASSUME NEW p \in Seq(Byte), NEW q \in Seq(Byte), Len(q) = Len(p),
           NEW i \in 1..Len(p), \A j \in 1..Len(p) : j /= i => q[j] = p[j],
           q[i] /= p[i], NEW x \in Nat, Clean(x + checksum_add(p))
    PROVE  ~Clean(x + checksum_add(q))
<1> SUFFICES ASSUME NEW k \in Nat, x + checksum_add(p) = 65535 * k,
                    NEW l \in Nat, x + checksum_add(q) = 65535 * l
             PROVE  FALSE
  BY DEF Clean
<1> DEFINE a == p[i]
           b == q[i]
           s == checksum_add(p)
           t == checksum_add(q)
           y == Summand(p, i)
           z == Summand(q, i)
<1>1. a \in Byte /\ b \in Byte
  BY SummandIs
<1>2. a \in Int /\ 0 <= a /\ a <= 255 /\ b \in Int /\ 0 <= b /\ b <= 255 /\ a /= b
  BY <1>1, ByteIs
<1>3. t + y = s + z /\ s \in Nat /\ t \in Nat /\ y \in Nat /\ z \in Nat
  <2>1. t + y = s + z
    BY SumOfOneChange
  <2>2. s \in Nat /\ t \in Nat
    BY SumBounded
  <2>3. y \in Nat /\ z \in Nat
    BY SummandIs
  <2> QED BY <2>1, <2>2, <2>3
<1>4. (y = 256 * a /\ z = 256 * b) \/ (y = a /\ z = b)
  BY SummandIs
<1>5. x + s = 65535 * k /\ x + t = 65535 * l
  OBVIOUS
<1> HIDE DEF a, b, s, t, y, z
<1>6. t - s = z - y /\ t - s = 65535 * (l - k) /\ l - k \in Int
  BY <1>3, <1>5
<1>7. z - y /= 0 /\ z - y < 65535 /\ z - y > -65535
  BY <1>2, <1>4, SMTT(20)
<1>8. l - k >= 1 \/ l - k <= -1 \/ l - k = 0
  BY <1>6
<1> DEFINE e == l - k
<1> HIDE DEF e
<1>9. z - y = 65535 * e /\ e \in Int /\ z - y \in Int
  BY <1>3, <1>6 DEF e
<1> QED BY ONLY <1>7, <1>9

\* A part of a packet, byte by byte.
LEMMA PartIs ==
    ASSUME NEW p \in Seq(Byte), NEW m \in Nat, NEW k \in Nat, m > 0, m <= k + 1,
           k <= Len(p), NEW q \in Seq(Byte)
    PROVE  /\ SubSeq(p, m, k) \in Seq(Byte) /\ Len(SubSeq(p, m, k)) = k - m + 1
           /\ \A j \in 1..(k - m + 1) : SubSeq(p, m, k)[j] = p[m + j - 1]
           /\ SubSeq(p, m, k) = q <=> /\ Len(q) = k - m + 1
                                      /\ \A j \in 1..Len(q) : q[j] = p[m + j - 1]
<1> DEFINE s == SubSeq(p, m, k)
           n == k - m + 1
<1>1. \A i \in m..k : p[i] \in Byte
  <2>1. \A i \in m..k : i \in 1..Len(p)
    OBVIOUS
  <2> QED BY <2>1, ElementOfSeq
<1>2. /\ s \in Seq(Byte) /\ Len(s) = IF m <= k THEN k - m + 1 ELSE 0
      /\ \A j \in 1..(k - m + 1) : s[j] = p[m + j - 1]
  <2>1. m \in Int /\ k \in Int
    OBVIOUS
  <2> QED BY <1>1, <2>1, SubSeqProperties
<1>3. n \in Nat /\ Len(s) = n
  <2>1. n \in Nat /\ (~(m <= k) => n = 0)
    OBVIOUS
  <2> HIDE DEF s
  <2> QED BY <1>2, <2>1
<1>4. \A j \in 1..n : s[j] = p[m + j - 1]
  BY <1>2
<1> HIDE DEF s, n
<1>5. ASSUME Len(q) = n, \A j \in 1..Len(q) : q[j] = p[m + j - 1] PROVE s = q
  <2>1. \A j \in 1..n : s[j] = q[j]
    BY <1>4, <1>5
  <2>2. s \in [1..n -> Byte]
    BY <1>2, <1>3, LenProperties
  <2>3. q \in [1..n -> Byte]
    BY <1>5, LenProperties
  <2>4. s = [j \in 1..n |-> s[j]] /\ q = [j \in 1..n |-> q[j]]
    BY <2>2, <2>3
  <2>5. [j \in 1..n |-> s[j]] = [j \in 1..n |-> q[j]]
    BY <2>1
  <2> QED BY <2>4, <2>5
<1>6. ASSUME s = q PROVE Len(q) = n /\ \A j \in 1..Len(q) : q[j] = p[m + j - 1]
  BY <1>3, <1>4, <1>6
<1> QED BY <1>2, <1>3, <1>4, <1>5, <1>6 DEF s, n

\* What a packet is built from.
LEMMA DatagramIs ==
    ASSUME PacketAssumption, NEW d \in Datagrams
    PROVE  /\ d.source \in Seq(Byte) /\ Len(d.source) = 4
           /\ d.destination \in Seq(Byte) /\ Len(d.destination) = 4
           /\ d.source_port \in Word /\ d.destination_port \in Word
           /\ d.identification \in Word /\ d.payload \in Seq(Byte)
BY DEF PacketAssumption

\* The constants of the header are bytes.
LEMMA SmallBytes ==
    /\ 0 \in Byte /\ 17 \in Byte /\ 64 \in Byte /\ 69 \in Byte
BY ByteIs

\* Two parts behind one another.
LEMMA Joined ==
    ASSUME NEW p \in Seq(Byte), NEW q \in Seq(Byte), NEW m \in Nat, Len(p) = m
    PROVE  /\ p \o q \in Seq(Byte) /\ Len(p \o q) = m + Len(q)
           /\ \A i \in 1..m : (p \o q)[i] = p[i]
           /\ \A j \in 1..Len(q) : (p \o q)[m + j] = q[j]
<1> DEFINE r == p \o q
           k == Len(q)
<1>1. /\ r \in Seq(Byte) /\ Len(r) = m + k
      /\ \A i \in 1..(m + k) : r[i] = IF i <= m THEN p[i] ELSE q[i - m]
  BY ConcatProperties
<1>2. k \in Nat
  OBVIOUS
<1> HIDE DEF r, k
<1>3. \A i \in 1..m : i \in 1..(m + k) /\ i <= m
  BY <1>2
<1>4. \A j \in 1..k : m + j \in 1..(m + k) /\ ~(m + j <= m) /\ (m + j) - m = j
  BY <1>2
<1>5. \A i \in 1..m : r[i] = p[i]
  BY <1>1, <1>3
<1>6. \A j \in 1..k : r[m + j] = q[j]
  BY <1>1, <1>4
<1> QED BY <1>1, <1>5, <1>6 DEF r, k

-----------------------------------------------------------------------------
(* tsvita_build_ipv4_udp_packet.                                           *)

\* The IPv4 header before its checksum is written into it.
BareHeader(d, size) ==
    <<69, 0, high(size), low(size),
      high(d.identification), low(d.identification),
      high(IPV4_DONT_FRAGMENT), low(IPV4_DONT_FRAGMENT),
      64, 17, 0, 0>> \o d.source \o d.destination

\* The UDP datagram before its checksum is written into it.
BareUdp(d, size) ==
    <<high(d.source_port), low(d.source_port),
      high(d.destination_port), low(d.destination_port),
      high(size), low(size), 0, 0>> \o d.payload

\* The fields that tsvita_build_ipv4_udp_packet stores in the IPv4 header.
LEMMA HeaderFields ==
    ASSUME PacketAssumption, NEW d \in Datagrams, NEW size \in Word, NEW h,
           h = BareHeader(d, size)
    PROVE  /\ h \in Seq(Byte) /\ Len(h) = 20
           /\ h[1] = 69 /\ h[10] = 17 /\ h[11] = 0 /\ h[12] = 0
           /\ read_be16(h, 2) = size /\ read_be16(h, 6) = IPV4_DONT_FRAGMENT
           /\ \A j \in 1..4 : h[12 + j] = d.source[j] /\ h[16 + j] = d.destination[j]
<1> DEFINE f == IPV4_DONT_FRAGMENT
           t == <<69, 0, high(size), low(size),
                  high(d.identification), low(d.identification),
                  high(f), low(f), 64, 17, 0, 0>>
           u == t \o d.source
<1>1. /\ d.source \in Seq(Byte) /\ Len(d.source) = 4
      /\ d.destination \in Seq(Byte) /\ Len(d.destination) = 4
      /\ d.identification \in Word
  BY DatagramIs
<1>2. f \in Word
  BY ONLY WordIs DEF IPV4_DONT_FRAGMENT
<1>3. h = u \o d.destination
  BY DEF BareHeader
<1> HIDE DEF f
<1>4. /\ high(size) \in Byte /\ low(size) \in Byte
      /\ high(size) * 256 + low(size) = size
      /\ high(d.identification) \in Byte /\ low(d.identification) \in Byte
      /\ high(f) \in Byte /\ low(f) \in Byte /\ high(f) * 256 + low(f) = f
  BY <1>1, <1>2, WordOfBytes
<1>5. t \in Seq(Byte) /\ Len(t) = 12
  BY <1>4, SmallBytes
<1>6. /\ t[1] = 69 /\ t[3] = high(size) /\ t[4] = low(size)
      /\ t[7] = high(f) /\ t[8] = low(f)
      /\ t[10] = 17 /\ t[11] = 0 /\ t[12] = 0
  OBVIOUS
<1> HIDE DEF t
<1>7. /\ u \in Seq(Byte) /\ Len(u) = 12 + 4
      /\ \A i \in 1..12 : u[i] = t[i]
      /\ \A j \in 1..4 : u[12 + j] = d.source[j]
  <2>1. 12 \in Nat
    OBVIOUS
  <2>2. /\ u \in Seq(Byte) /\ Len(u) = 12 + Len(d.source)
        /\ \A i \in 1..12 : u[i] = t[i]
        /\ \A j \in 1..Len(d.source) : u[12 + j] = d.source[j]
    BY <1>1, <1>5, <2>1, Joined, Zenon
  <2> QED BY <1>1, <2>2, Zenon
<1> HIDE DEF u
<1>8. /\ h \in Seq(Byte) /\ Len(h) = 16 + 4
      /\ \A i \in 1..16 : h[i] = u[i]
      /\ \A j \in 1..4 : h[16 + j] = d.destination[j]
  <2>1. Len(u) = 16 /\ 16 \in Nat
    BY <1>7
  <2> DEFINE g == u \o d.destination
  <2>2. /\ g \in Seq(Byte) /\ Len(g) = 16 + Len(d.destination)
        /\ \A i \in 1..16 : g[i] = u[i]
        /\ \A j \in 1..Len(d.destination) : g[16 + j] = d.destination[j]
    <3>1. u \in Seq(Byte) /\ d.destination \in Seq(Byte)
      BY ONLY <1>1, <1>7
    <3> QED BY ONLY <2>1, <3>1, Joined, Zenon
  <2>3. h = g
    BY <1>3
  <2> HIDE DEF g
  <2> QED BY ONLY <1>1, <2>2, <2>3, Zenon
<1>9. ASSUME NEW i \in 1..12 PROVE h[i] = t[i]
  <2>1. i \in 1..16
    OBVIOUS
  <2> QED BY <1>7, <1>8, <2>1
<1>10. ASSUME NEW j \in 1..4
       PROVE  h[12 + j] = d.source[j] /\ h[16 + j] = d.destination[j]
  <2>1. 12 + j \in 1..16
    OBVIOUS
  <2> QED BY <1>7, <1>8, <2>1
<1>11. /\ h[1] = 69 /\ h[3] = high(size) /\ h[4] = low(size)
       /\ h[7] = high(f) /\ h[8] = low(f)
       /\ h[10] = 17 /\ h[11] = 0 /\ h[12] = 0
  BY ONLY <1>6, <1>9
<1>12. read_be16(h, 2) = size /\ read_be16(h, 6) = f
  <2>1. read_be16(h, 2) = h[3] * 256 + h[4] /\ read_be16(h, 6) = h[7] * 256 + h[8]
    BY DEF read_be16
  <2> QED BY <1>4, <1>11, <2>1
<1>13. Len(h) = 20
  BY ONLY <1>8
<1>14. \A j \in 1..4 : h[12 + j] = d.source[j] /\ h[16 + j] = d.destination[j]
  BY <1>10
<1> QED BY <1>8, <1>11, <1>12, <1>13, <1>14 DEF f

\* The fields it stores in the UDP header, and the payload.
LEMMA UdpFields ==
    ASSUME PacketAssumption, NEW d \in Datagrams, NEW size \in Word, NEW u,
           u = BareUdp(d, size)
    PROVE  /\ u \in Seq(Byte) /\ Len(u) = 8 + Len(d.payload)
           /\ read_be16(u, 0) = d.source_port
           /\ read_be16(u, 2) = d.destination_port /\ read_be16(u, 4) = size
           /\ u[7] = 0 /\ u[8] = 0
           /\ \A j \in 1..Len(d.payload) : u[8 + j] = d.payload[j]
<1> DEFINE t == <<high(d.source_port), low(d.source_port),
                  high(d.destination_port), low(d.destination_port),
                  high(size), low(size), 0, 0>>
           n == Len(d.payload)
<1>1. /\ d.source_port \in Word /\ d.destination_port \in Word
      /\ d.payload \in Seq(Byte) /\ n \in Nat
  BY DatagramIs
<1>2. /\ high(size) \in Byte /\ low(size) \in Byte
      /\ high(size) * 256 + low(size) = size
      /\ high(d.source_port) \in Byte /\ low(d.source_port) \in Byte
      /\ high(d.source_port) * 256 + low(d.source_port) = d.source_port
      /\ high(d.destination_port) \in Byte /\ low(d.destination_port) \in Byte
      /\ high(d.destination_port) * 256 + low(d.destination_port) = d.destination_port
  BY <1>1, WordOfBytes
<1>3. t \in Seq(Byte) /\ Len(t) = 8
  BY <1>2, SmallBytes
<1>4. /\ t[1] = high(d.source_port) /\ t[2] = low(d.source_port)
      /\ t[3] = high(d.destination_port) /\ t[4] = low(d.destination_port)
      /\ t[5] = high(size) /\ t[6] = low(size) /\ t[7] = 0 /\ t[8] = 0
  OBVIOUS
<1>5. u = t \o d.payload
  BY DEF BareUdp
<1> HIDE DEF t
<1>6. /\ u \in Seq(Byte) /\ Len(u) = 8 + n
      /\ \A i \in 1..8 : u[i] = t[i]
      /\ \A j \in 1..n : u[8 + j] = d.payload[j]
  <2>1. 8 \in Nat
    OBVIOUS
  <2> DEFINE g == t \o d.payload
  <2>2. /\ g \in Seq(Byte) /\ Len(g) = 8 + n
        /\ \A i \in 1..8 : g[i] = t[i]
        /\ \A j \in 1..n : g[8 + j] = d.payload[j]
    BY ONLY <1>1, <1>3, <2>1, Joined, Zenon
  <2>3. u = g
    BY <1>5
  <2> HIDE DEF g
  <2> QED BY ONLY <2>2, <2>3, Zenon
<1> HIDE DEF n
<1>7. /\ u[1] = high(d.source_port) /\ u[2] = low(d.source_port)
      /\ u[3] = high(d.destination_port) /\ u[4] = low(d.destination_port)
      /\ u[5] = high(size) /\ u[6] = low(size) /\ u[7] = 0 /\ u[8] = 0
  BY <1>4, <1>6
<1>8. /\ read_be16(u, 0) = d.source_port
      /\ read_be16(u, 2) = d.destination_port /\ read_be16(u, 4) = size
  <2>1. /\ read_be16(u, 0) = u[1] * 256 + u[2] /\ read_be16(u, 2) = u[3] * 256 + u[4]
        /\ read_be16(u, 4) = u[5] * 256 + u[6]
    BY DEF read_be16
  <2> QED BY <1>2, <1>7, <2>1
<1> QED BY <1>6, <1>7, <1>8 DEF n

\* A packet with a byte set to zero.
LEMMA ByteCleared ==
    ASSUME NEW p \in Seq(Byte), NEW i \in 1..Len(p)
    PROVE  \E q \in Seq(Byte) : /\ Len(q) = Len(p) /\ q[i] = 0
                                /\ \A j \in 1..Len(p) : j /= i => q[j] = p[j]
<1>1. PICK b : b = 0
  OBVIOUS
<1>2. b \in Byte
  BY <1>1, SmallBytes
<1> DEFINE q == [p EXCEPT ![i] = b]
<1>3. /\ q \in Seq(Byte) /\ Len(q) = Len(p) /\ q[i] = b
      /\ \A j \in 1..Len(p) : j /= i => q[j] = p[j]
  BY <1>2, ByteSet
<1> HIDE DEF q
<1> QED BY <1>1, <1>3

\* The sum of an address.
LEMMA FourBytes ==
    ASSUME NEW p \in Seq(Byte), Len(p) = 4
    PROVE  checksum_add(p) \in Nat /\ checksum_add(p) <= 261120
<1>1. checksum_add(p) \in Nat /\ checksum_add(p) <= 65280 * Len(p)
  BY ONLY p \in Seq(Byte), SumBounded
<1> QED BY <1>1

\* The header with its checksum.
Summed(g) == write_be16(g, 10, checksum_finish(checksum_add(g)))

\* What the header is before.
Unsummed(g) ==
    g \in Seq(Byte) /\ Len(g) = 20 /\ g[1] = 69 /\ g[11] = 0 /\ g[12] = 0

\* What the header is then.
SumOf(h, g) ==
    /\ h \in Seq(Byte) /\ Len(h) = 20
    /\ \A j \in 1..20 : j /= 11 /\ j /= 12 => h[j] = g[j]
    /\ Clean(checksum_add(h)) /\ checksum_add(h) > 0

\* The checksum written over the zeroes completes the sum of the header.
LEMMA HeaderSummed ==
    ASSUME NEW g, Unsummed(g) PROVE SumOf(Summed(g), g)
<1>0. PICK h : h = Summed(g)
  OBVIOUS
<1> SUFFICES /\ h \in Seq(Byte) /\ Len(h) = 20
             /\ \A j \in 1..Len(g) : j /= 11 /\ j /= 12 => h[j] = g[j]
             /\ Clean(checksum_add(h)) /\ checksum_add(h) > 0
  BY <1>0 DEF Unsummed, SumOf
<1> USE <1>0
<1>a. g \in Seq(Byte) /\ Len(g) = 20 /\ g[1] = 69 /\ g[11] = 0 /\ g[12] = 0
  BY DEF Unsummed
<1> USE <1>a
<1> DEFINE x == checksum_add(g)
           c == checksum_finish(x)
<1>1. x \in Nat /\ x <= 65280 * 20
  <2>1. x \in Nat /\ x <= 65280 * Len(g)
    BY ONLY g \in Seq(Byte), SumBounded
  <2> HIDE DEF x
  <2> QED BY ONLY <2>1, Len(g) = 20
<1>2. x > 0
  <2>1. 1 \in 1..Len(g) /\ 1 % 2 = 1
    BY ONLY Len(g) = 20
  <2>4. PICK p \in Seq(Byte) : /\ Len(p) = Len(g) /\ p[1] = 0
                               /\ \A j \in 1..Len(g) : j /= 1 => p[j] = g[j]
    BY ONLY g \in Seq(Byte), <2>1, ByteCleared
  <2>5. checksum_add(p) + Summand(g, 1) = x + Summand(p, 1)
    BY ONLY g \in Seq(Byte), <2>1, <2>4, SumOfOneChange
  <2>6. Summand(g, 1) = 256 * g[1]
    BY ONLY g \in Seq(Byte), <2>1, SummandIs
  <2>7. Summand(p, 1) = 256 * p[1]
    <3>1. 1 \in 1..Len(p)
      BY ONLY <2>1, <2>4
    <3> QED BY ONLY <2>1, <2>4, <3>1, SummandIs
  <2>8. checksum_add(p) \in Nat
    BY ONLY <2>4, SumBounded
  <2> HIDE DEF x
  <2> QED BY ONLY g[1] = 69, <1>1, <2>4, <2>5, <2>6, <2>7, <2>8
<1>3. Sum32(x)
  <2> HIDE DEF x
  <2> QED BY ONLY <1>1 DEF Sum32
<1>4. c \in Word /\ Clean(x + c)
  <2> HIDE DEF x
  <2> QED BY ONLY <1>3, FinishIs DEF c
<1> HIDE DEF c
<1>5. 10 \in Nat /\ 10 + 1 = 11 /\ 10 + 2 = 12 /\ 11 % 2 = 1 /\ 12 % 2 /= 1
  OBVIOUS
<1>6. /\ 10 + 2 <= Len(g) /\ (10 + 1) % 2 = 1 /\ (10 + 2) % 2 /= 1
      /\ g[10 + 1] = 0 /\ g[10 + 2] = 0
  BY ONLY <1>5, Len(g) = 20, g[11] = 0, g[12] = 0
<1>7. /\ h \in Seq(Byte) /\ Len(h) = Len(g)
      /\ \A j \in 1..Len(g) : j /= 10 + 1 /\ j /= 10 + 2 => h[j] = g[j]
      /\ checksum_add(h) = x + c
  <2>1. h = write_be16(g, 10, c)
    BY DEF c, Summed
  <2> HIDE DEF x
  <2> DEFINE w == write_be16(g, 10, c)
  <2>2. /\ w \in Seq(Byte) /\ Len(w) = Len(g)
        /\ \A j \in 1..Len(g) : j /= 10 + 1 /\ j /= 10 + 2 => w[j] = g[j]
        /\ checksum_add(w) = x + c
    BY ONLY g \in Seq(Byte), <1>4, <1>5, <1>6, WordWritten, Zenon DEF x
  <2> HIDE DEF w
  <2> QED BY ONLY <2>1, <2>2 DEF w
<1>8. /\ h \in Seq(Byte) /\ Len(h) = 20
      /\ \A j \in 1..Len(g) : j /= 11 /\ j /= 12 => h[j] = g[j]
  BY ONLY <1>5, <1>7, Len(g) = 20
<1>9. c \in Int /\ 0 <= c
  BY ONLY <1>4, WordIs
<1> HIDE DEF x
<1>10. checksum_add(h) > 0
  BY ONLY <1>1, <1>2, <1>7, <1>9
<1> QED BY ONLY <1>4, <1>7, <1>8, <1>10

\* The IPv4 header of a packet that tsvita_build_ipv4_udp_packet writes.
LEMMA HeaderBuilt ==
    ASSUME PacketAssumption, NEW d \in Datagrams, NEW size \in Word,
           NEW h, h = Ipv4Header(d, size)
    PROVE  /\ h \in Seq(Byte) /\ Len(h) = 20 /\ h[1] = 69 /\ h[10] = 17
           /\ read_be16(h, 2) = size /\ read_be16(h, 6) = IPV4_DONT_FRAGMENT
           /\ \A j \in 1..4 : /\ h[12 + j] = d.source[j]
                              /\ h[16 + j] = d.destination[j]
           /\ Clean(checksum_add(h)) /\ checksum_add(h) > 0
<1>1. PICK g : g = BareHeader(d, size)
  OBVIOUS
<1>2. h = Summed(g)
  BY <1>1 DEF Ipv4Header, Summed, BareHeader
<1>3. /\ g \in Seq(Byte) /\ Len(g) = 20
      /\ g[1] = 69 /\ g[10] = 17 /\ g[11] = 0 /\ g[12] = 0
      /\ read_be16(g, 2) = size /\ read_be16(g, 6) = IPV4_DONT_FRAGMENT
      /\ \A j \in 1..4 : g[12 + j] = d.source[j] /\ g[16 + j] = d.destination[j]
  BY <1>1, HeaderFields, SMTT(20)
<1>4. /\ h \in Seq(Byte) /\ Len(h) = 20
      /\ \A j \in 1..20 : j /= 11 /\ j /= 12 => h[j] = g[j]
      /\ Clean(checksum_add(h)) /\ checksum_add(h) > 0
  <2>1. Unsummed(g)
    BY ONLY <1>3 DEF Unsummed
  <2>2. SumOf(h, g)
    BY ONLY <1>2, <2>1, HeaderSummed
  <2> QED BY ONLY <2>2 DEF SumOf
<1>5. /\ h[1] = g[1] /\ h[3] = g[3] /\ h[4] = g[4]
      /\ h[7] = g[7] /\ h[8] = g[8] /\ h[10] = g[10]
  <2>1. \A j \in {1, 3, 4, 7, 8, 10} : j \in 1..20 /\ j /= 11 /\ j /= 12
    OBVIOUS
  <2> QED BY ONLY <1>4, <2>1
<1>6. read_be16(h, 2) = size /\ read_be16(h, 6) = IPV4_DONT_FRAGMENT
  <2>1. /\ read_be16(h, 2) = h[3] * 256 + h[4] /\ read_be16(h, 6) = h[7] * 256 + h[8]
        /\ read_be16(g, 2) = g[3] * 256 + g[4] /\ read_be16(g, 6) = g[7] * 256 + g[8]
    BY DEF read_be16
  <2> QED BY ONLY <1>3, <1>5, <2>1
<1>7. ASSUME NEW j \in 1..4
      PROVE  h[12 + j] = d.source[j] /\ h[16 + j] = d.destination[j]
  <2>1. /\ 12 + j \in 1..20 /\ 12 + j /= 11 /\ 12 + j /= 12
        /\ 16 + j \in 1..20 /\ 16 + j /= 11 /\ 16 + j /= 12
    BY ONLY j \in 1..4
  <2>2. h[12 + j] = g[12 + j] /\ h[16 + j] = g[16 + j]
    BY ONLY <1>4, <2>1
  <2>3. g[12 + j] = d.source[j] /\ g[16 + j] = d.destination[j]
    BY ONLY <1>3, j \in 1..4
  <2> QED BY ONLY <2>2, <2>3
<1> QED BY ONLY <1>3, <1>4, <1>5, <1>6, <1>7

\* The sum that udp_checksum finishes.
UdpSum(d, udp) ==
    checksum_add(d.source) + checksum_add(d.destination) + 17 + Len(udp)
    + checksum_add(udp)

\* udp_checksum never overflows 32 bits, and its sum is never zero.
LEMMA UdpSumIs ==
    ASSUME PacketAssumption, NEW d \in Datagrams, NEW udp \in Seq(Byte),
           Len(udp) <= 65515
    PROVE  Sum32(UdpSum(d, udp)) /\ UdpSum(d, udp) > 0
<1> DEFINE a == checksum_add(d.source)
           b == checksum_add(d.destination)
           s == checksum_add(udp)
           n == Len(udp)
<1>1. a \in Nat /\ a <= 261120
  <2>1. d.source \in Seq(Byte) /\ Len(d.source) = 4
    BY DatagramIs
  <2> QED BY <2>1, FourBytes
<1>2. b \in Nat /\ b <= 261120
  <2>1. d.destination \in Seq(Byte) /\ Len(d.destination) = 4
    BY DatagramIs
  <2> QED BY <2>1, FourBytes
<1>3. s \in Nat /\ s <= 65280 * n /\ n \in Nat /\ n <= 65515
  BY SumBounded
<1> HIDE DEF a, b, s, n
<1>4. a + b + 17 + n + s \in Nat /\ a + b + 17 + n + s > 0
      /\ a + b + 17 + n + s < 65536 * 65536
  BY ONLY <1>1, <1>2, <1>3
<1> QED BY <1>4 DEF UdpSum, Sum32, a, b, s, n

\* The UDP datagram that tsvita_build_ipv4_udp_packet writes: complete, and
\* never with the zero checksum that stands for none.
LEMMA UdpBuilt ==
    ASSUME PacketAssumption, NEW d \in Datagrams, Len(d.payload) <= 65507,
           NEW size, size = 28 + Len(d.payload), NEW u, u = UdpDatagram(d, size)
    PROVE  /\ u \in Seq(Byte) /\ Len(u) = 8 + Len(d.payload)
           /\ read_be16(u, 0) = d.source_port
           /\ read_be16(u, 2) = d.destination_port
           /\ read_be16(u, 4) = size - 20 /\ read_be16(u, 6) /= 0
           /\ \A j \in 1..Len(d.payload) : u[8 + j] = d.payload[j]
           /\ Clean(UdpSum(d, u))
<1> DEFINE n == Len(d.payload)
           g == BareUdp(d, size - 20)
           x == UdpSum(d, g)
           f == checksum_finish(x)
           c == IF f = 0 THEN UINT16_MAX ELSE f
           v == write_be16(g, 6, c)
<1>1. n \in Nat
  BY DatagramIs
<1>2. size - 20 \in Word /\ size - 20 = 8 + n
  <2>1. size = 28 + n /\ n <= 65507
    OBVIOUS
  <2> HIDE DEF n
  <2>2. size - 20 = 8 + n /\ 8 + n \in Int /\ 0 <= 8 + n /\ 8 + n <= 65535
    BY ONLY <1>1, <2>1
  <2> QED BY ONLY <2>2, WordIs
<1>3. udp_checksum(d.source, d.destination, g) = f
  BY DEF udp_checksum, UdpSum
<1>4. u = v
  <2> HIDE DEF f
  <2> QED BY <1>3 DEF UdpDatagram, BareUdp
<1> HIDE DEF n, g
<1>5. /\ g \in Seq(Byte) /\ Len(g) = 8 + n
      /\ read_be16(g, 0) = d.source_port
      /\ read_be16(g, 2) = d.destination_port /\ read_be16(g, 4) = size - 20
      /\ g[7] = 0 /\ g[8] = 0
      /\ \A j \in 1..n : g[8 + j] = d.payload[j]
  <2>1. PICK e : e = g
    OBVIOUS
  <2>2. /\ e \in Seq(Byte) /\ Len(e) = 8 + Len(d.payload)
        /\ read_be16(e, 0) = d.source_port
        /\ read_be16(e, 2) = d.destination_port /\ read_be16(e, 4) = size - 20
        /\ e[7] = 0 /\ e[8] = 0
        /\ \A j \in 1..Len(d.payload) : e[8 + j] = d.payload[j]
    <3>1. PICK z : z = size - 20
      OBVIOUS
    <3>2. z \in Word
      BY ONLY <1>2, <3>1
    <3>3. e = BareUdp(d, z)
      BY ONLY <2>1, <3>1 DEF g
    <3>4. /\ e \in Seq(Byte) /\ Len(e) = 8 + Len(d.payload)
          /\ read_be16(e, 0) = d.source_port
          /\ read_be16(e, 2) = d.destination_port /\ read_be16(e, 4) = z
          /\ e[7] = 0 /\ e[8] = 0
          /\ \A j \in 1..Len(d.payload) : e[8 + j] = d.payload[j]
      BY ONLY PacketAssumption, d \in Datagrams, <3>2, <3>3, UdpFields
    <3> QED BY ONLY <3>1, <3>4
  <2> QED BY ONLY <2>1, <2>2 DEF n
<1>6. Sum32(x) /\ x > 0 /\ x \in Nat
  <2>1. n <= 65507
    BY DEF n
  <2>2. Len(g) <= 65515
    BY ONLY <1>1, <1>5, <2>1
  <2>3. Sum32(x) /\ x > 0
    BY <1>5, <2>2, UdpSumIs
  <2> QED BY <2>3 DEF Sum32
<1> HIDE DEF x
<1>7. /\ f \in Word /\ Clean(x + f) /\ (f = 0 => Clean(x))
      /\ (Clean(x) => Clean(x + UINT16_MAX))
  BY ONLY <1>6, FinishIs DEF f
<1> HIDE DEF f
<1>8. c \in Word /\ c /= 0 /\ Clean(x + c)
  <2>1. UINT16_MAX \in Word /\ UINT16_MAX /= 0
    BY ONLY WordIs DEF UINT16_MAX
  <2> QED BY ONLY <1>7, <2>1
<1> HIDE DEF c
<1>9. 6 \in Nat /\ 6 + 1 = 7 /\ 6 + 2 = 8 /\ 7 % 2 = 1 /\ 8 % 2 /= 1 /\ 8 <= 8 + n
  BY ONLY <1>1
<1>10. /\ v \in Seq(Byte) /\ Len(v) = 8 + n /\ read_be16(v, 6) = c
       /\ \A j \in 1..(8 + n) : j /= 7 /\ j /= 8 => v[j] = g[j]
       /\ checksum_add(v) = checksum_add(g) + c
  <2>1. /\ 6 + 2 <= Len(g) /\ (6 + 1) % 2 = 1 /\ (6 + 2) % 2 /= 1
        /\ g[6 + 1] = 0 /\ g[6 + 2] = 0
    BY ONLY <1>5, <1>9
  <2>2. /\ v \in Seq(Byte) /\ Len(v) = Len(g) /\ read_be16(v, 6) = c
        /\ \A j \in 1..Len(g) : j /= 6 + 1 /\ j /= 6 + 2 => v[j] = g[j]
        /\ checksum_add(v) = checksum_add(g) + c
    BY ONLY <1>5, <1>8, <1>9, <2>1, WordWritten, Zenon
  <2> HIDE DEF v
  <2> QED BY ONLY <1>5, <1>9, <2>2, Zenon
<1> HIDE DEF v
<1>11. Clean(UdpSum(d, v))
  <2> DEFINE a == checksum_add(d.source) + checksum_add(d.destination) + 17
  <2>1. d.source \in Seq(Byte) /\ d.destination \in Seq(Byte)
    BY DatagramIs
  <2>2. checksum_add(g) \in Nat /\ checksum_add(d.source) \in Nat
        /\ checksum_add(d.destination) \in Nat
    BY ONLY <1>5, <2>1, SumBounded, SMTT(20)
  <2>3. a \in Nat
    BY ONLY <2>2
  <2>4. c \in Int
    BY ONLY <1>8, WordIs
  <2>5. UdpSum(d, v) = a + Len(v) + checksum_add(v) /\ x = a + Len(g) + checksum_add(g)
    BY DEF UdpSum, x
  <2> HIDE DEF a
  <2>6. UdpSum(d, v) = x + c
    BY ONLY <1>1, <1>5, <1>10, <2>2, <2>3, <2>4, <2>5
  <2> QED BY ONLY <1>8, <2>6
<1>12. \A j \in 1..6 : v[j] = g[j]
  <2>1. \A j \in 1..6 : j \in 1..(8 + n) /\ j /= 7 /\ j /= 8
    BY ONLY <1>1
  <2> QED BY ONLY <1>10, <2>1
<1>13. /\ read_be16(v, 0) = d.source_port
       /\ read_be16(v, 2) = d.destination_port /\ read_be16(v, 4) = size - 20
  <2>1. \A p : /\ read_be16(p, 0) = p[1] * 256 + p[2]
               /\ read_be16(p, 2) = p[3] * 256 + p[4]
               /\ read_be16(p, 4) = p[5] * 256 + p[6]
    BY DEF read_be16
  <2>2. /\ v[1] = g[1] /\ v[2] = g[2] /\ v[3] = g[3] /\ v[4] = g[4]
        /\ v[5] = g[5] /\ v[6] = g[6]
    BY ONLY <1>12
  <2> QED BY ONLY <1>5, <2>1, <2>2
<1>14. \A j \in 1..n : v[8 + j] = d.payload[j]
  <2>1. \A j \in 1..n : 8 + j \in 1..(8 + n) /\ 8 + j /= 7 /\ 8 + j /= 8
    BY ONLY <1>1
  <2> QED BY ONLY <1>5, <1>10, <2>1
<1>15. read_be16(v, 6) /= 0
  BY ONLY <1>8, <1>10
<1> QED BY ONLY <1>4, <1>10, <1>11, <1>13, <1>14, <1>15, Zenon DEF n

\* Equal bytes make equal parts.
LEMMA SameParts ==
    ASSUME NEW p \in Seq(Byte), NEW q \in Seq(Byte), NEW m \in Nat, NEW k \in Nat,
           m > 0, m <= k + 1, k <= Len(p), k <= Len(q),
           \A j \in m..k : p[j] = q[j]
    PROVE  SubSeq(p, m, k) = SubSeq(q, m, k)
<1>1. PICK s : s = SubSeq(q, m, k)
  OBVIOUS
<1>2. /\ s \in Seq(Byte) /\ Len(s) = k - m + 1
      /\ \A j \in 1..(k - m + 1) : s[j] = q[m + j - 1]
  BY <1>1, PartIs
<1>3. \A j \in 1..Len(s) : m + j - 1 \in m..k
  BY <1>2
<1>4. \A j \in 1..Len(s) : s[j] = p[m + j - 1]
  BY <1>2, <1>3
<1>5. SubSeq(p, m, k) = s
  BY <1>2, <1>4, PartIs
<1> QED BY <1>1, <1>5

\* One byte of p is not the byte of b.
OneWrong(p, b, i) ==
    /\ p \in Seq(Byte) /\ b \in Seq(Byte) /\ Len(p) = Len(b)
    /\ i \in 1..Len(b) /\ p[i] /= b[i]
    /\ \A j \in 1..Len(b) : j /= i => p[j] = b[j]

\* A wrong byte is a wrong byte of the part it lies in.
LEMMA PartDiffers ==
    ASSUME NEW p, NEW b, NEW i, OneWrong(p, b, i), NEW m \in Nat, NEW k \in Nat,
           m > 0, k <= Len(b), i \in m..k
    PROVE  /\ OneWrong(SubSeq(p, m, k), SubSeq(b, m, k), i - m + 1)
           /\ Len(SubSeq(b, m, k)) = k - m + 1
<1>0. /\ p \in Seq(Byte) /\ b \in Seq(Byte) /\ Len(p) = Len(b)
      /\ i \in 1..Len(b) /\ p[i] /= b[i]
      /\ \A j \in 1..Len(b) : j /= i => p[j] = b[j]
  BY DEF OneWrong
<1>a. PICK s, t : s = SubSeq(b, m, k) /\ t = SubSeq(p, m, k)
  OBVIOUS
<1>b. m <= k + 1 /\ k <= Len(p) /\ i \in Nat
  BY <1>0
<1>1. /\ s \in Seq(Byte) /\ Len(s) = k - m + 1
      /\ \A j \in 1..(k - m + 1) : s[j] = b[m + j - 1]
  BY <1>0, <1>a, <1>b, PartIs
<1>2. /\ t \in Seq(Byte) /\ Len(t) = k - m + 1
      /\ \A j \in 1..(k - m + 1) : t[j] = p[m + j - 1]
  BY <1>0, <1>a, <1>b, PartIs
<1>3. i - m + 1 \in 1..(k - m + 1) /\ m + (i - m + 1) - 1 = i
  BY <1>b
<1>4. t[i - m + 1] = p[i] /\ s[i - m + 1] = b[i]
  BY <1>1, <1>2, <1>3
<1>5. ASSUME NEW j \in 1..(k - m + 1), j /= i - m + 1 PROVE t[j] = s[j]
  <2>1. m + j - 1 \in 1..Len(b) /\ m + j - 1 /= i
    BY <1>0, <1>b, <1>5
  <2>2. t[j] = p[m + j - 1] /\ s[j] = b[m + j - 1]
    BY ONLY <1>1, <1>2, <1>5
  <2> QED BY ONLY <1>0, <2>1, <2>2
<1>6. OneWrong(t, s, i - m + 1)
  BY <1>0, <1>1, <1>2, <1>3, <1>4, <1>5 DEF OneWrong
<1> QED BY ONLY <1>a, <1>1, <1>6

\* One wrong byte is always seen by the checksum.
LEMMA WrongByteTells ==
    ASSUME NEW p, NEW b, NEW i, OneWrong(p, b, i), NEW x \in Nat,
           Clean(x + checksum_add(b))
    PROVE  ~Clean(x + checksum_add(p))
BY OneByteTells DEF OneWrong

\* Which headers the validator takes for correct.
LEMMA HeaderChecks ==
    ASSUME NEW h \in Seq(Byte), Len(h) = 20
    PROVE  /\ (Clean(checksum_add(h)) /\ checksum_add(h) > 0)
                  => checksum_finish(checksum_add(h)) = 0
           /\ ~Clean(checksum_add(h)) => checksum_finish(checksum_add(h)) /= 0
<1>1. PICK x : x = checksum_add(h)
  OBVIOUS
<1>2. x \in Nat /\ x <= 65280 * Len(h)
  BY ONLY <1>1, h \in Seq(Byte), SumBounded
<1>3. Sum32(x)
  BY ONLY <1>2, Len(h) = 20 DEF Sum32
<1>4. x = 0 => Clean(x)
  BY DEF Clean
<1>5. x > 0 => (checksum_finish(x) = 0 <=> Clean(x))
  BY ONLY <1>3, FinishIs
<1>6. x = 0 \/ x > 0
  BY ONLY <1>2
<1> QED BY ONLY <1>1, <1>4, <1>5, <1>6

\* Which UDP datagrams it takes for correct.
LEMMA UdpChecks ==
    ASSUME PacketAssumption, NEW d \in Datagrams, NEW u \in Seq(Byte), Len(u) <= 65515
    PROVE  udp_checksum(d.source, d.destination, u) = 0 <=> Clean(UdpSum(d, u))
<1>1. PICK x : x = UdpSum(d, u)
  OBVIOUS
<1>2. Sum32(x) /\ x > 0
  BY <1>1, UdpSumIs
<1>3. udp_checksum(d.source, d.destination, u) = checksum_finish(x)
  BY <1>1 DEF udp_checksum, UdpSum
<1>4. checksum_finish(x) = 0 <=> Clean(x)
  BY ONLY <1>2, FinishIs
<1> QED BY ONLY <1>1, <1>3, <1>4

\* What a built packet is.
Sound(b, d) ==
    /\ b \in Seq(Byte) /\ Len(b) = 28 + Len(d.payload)
    /\ Len(d.payload) \in Nat /\ Len(b) <= UINT16_MAX
    /\ b[1] = 69 /\ b[10] = 17
    /\ read_be16(b, 2) = Len(b) /\ read_be16(b, 6) = IPV4_DONT_FRAGMENT
    /\ SubSeq(b, 13, 16) = d.source /\ SubSeq(b, 17, 20) = d.destination
    /\ Clean(checksum_add(SubSeq(b, 1, 20))) /\ checksum_add(SubSeq(b, 1, 20)) > 0
    /\ read_be16(b, 20) = d.source_port /\ read_be16(b, 22) = d.destination_port
    /\ read_be16(b, 24) = Len(b) - 20 /\ read_be16(b, 26) /= 0
    /\ SubSeq(b, 29, Len(b)) = d.payload
    /\ Clean(UdpSum(d, SubSeq(b, 21, Len(b))))

\* So is whatever tsvita_build_ipv4_udp_packet writes.
LEMMA PacketBuilt ==
    ASSUME PacketAssumption, NEW d \in Datagrams, NEW b,
           b = tsvita_build_ipv4_udp_packet(d), b /= <<>>
    PROVE  Sound(b, d)
<1> DEFINE n == Len(d.payload)
<1>1. PICK size : size = 28 + n
  OBVIOUS
<1>2. ~(size > UINT16_MAX) /\ b = Ipv4Header(d, size) \o UdpDatagram(d, size)
  BY <1>1 DEF tsvita_build_ipv4_udp_packet
<1>3. /\ d.source \in Seq(Byte) /\ Len(d.source) = 4
      /\ d.destination \in Seq(Byte) /\ Len(d.destination) = 4
      /\ d.payload \in Seq(Byte) /\ n \in Nat
  BY DatagramIs
<1>4. size \in Word /\ n <= 65507 /\ size <= 65535
  <2> HIDE DEF n
  <2>1. size \in Int /\ 0 <= size /\ size <= 65535 /\ n <= 65507
    BY ONLY <1>1, <1>2, <1>3 DEF UINT16_MAX
  <2> QED BY ONLY <2>1, WordIs
<1>5. PICK h : h = Ipv4Header(d, size)
  OBVIOUS
<1>6. PICK u : u = UdpDatagram(d, size)
  OBVIOUS
<1>7. /\ h \in Seq(Byte) /\ Len(h) = 20 /\ h[1] = 69 /\ h[10] = 17
      /\ read_be16(h, 2) = size /\ read_be16(h, 6) = IPV4_DONT_FRAGMENT
      /\ \A j \in 1..4 : /\ h[12 + j] = d.source[j]
                         /\ h[16 + j] = d.destination[j]
      /\ Clean(checksum_add(h)) /\ checksum_add(h) > 0
  BY ONLY PacketAssumption, d \in Datagrams, <1>4, <1>5, HeaderBuilt, SMTT(20)
<1>8. /\ u \in Seq(Byte) /\ Len(u) = 8 + n
      /\ read_be16(u, 0) = d.source_port
      /\ read_be16(u, 2) = d.destination_port
      /\ read_be16(u, 4) = size - 20 /\ read_be16(u, 6) /= 0
      /\ \A j \in 1..n : u[8 + j] = d.payload[j]
      /\ Clean(UdpSum(d, u))
  <2>1. Len(d.payload) <= 65507 /\ size = 28 + Len(d.payload)
    BY ONLY <1>1, <1>4
  <2>2. /\ u \in Seq(Byte) /\ Len(u) = 8 + Len(d.payload)
        /\ read_be16(u, 0) = d.source_port
        /\ read_be16(u, 2) = d.destination_port
        /\ read_be16(u, 4) = size - 20 /\ read_be16(u, 6) /= 0
        /\ \A j \in 1..Len(d.payload) : u[8 + j] = d.payload[j]
        /\ Clean(UdpSum(d, u))
    BY ONLY PacketAssumption, d \in Datagrams, <1>6, <2>1, UdpBuilt, SMTT(20)
  <2> QED BY ONLY <2>2
<1> HIDE DEF n
<1>9. /\ b \in Seq(Byte) /\ Len(b) = 20 + Len(u)
      /\ \A i \in 1..20 : b[i] = h[i]
      /\ \A j \in 1..Len(u) : b[20 + j] = u[j]
  <2>1. PICK m : m = 20
    OBVIOUS
  <2>2. m \in Nat /\ Len(h) = m /\ b = h \o u
    BY ONLY <1>2, <1>5, <1>6, <1>7, <2>1
  <2>3. /\ b \in Seq(Byte) /\ Len(b) = m + Len(u)
        /\ \A i \in 1..m : b[i] = h[i]
        /\ \A j \in 1..Len(u) : b[m + j] = u[j]
    <3>1. h \in Seq(Byte) /\ u \in Seq(Byte)
      BY ONLY <1>7, <1>8
    <3> QED BY ONLY <2>2, <3>1, Joined
  <2> QED BY ONLY <2>1, <2>3
<1>10. Len(b) = size /\ Len(b) = 28 + n
  BY ONLY <1>1, <1>3, <1>8, <1>9
<1>11. SubSeq(b, 1, 20) = h
  <2>1. 20 <= Len(b)
    BY ONLY <1>3, <1>10
  <2>2. Len(h) = 20 - 1 + 1 /\ \A j \in 1..Len(h) : h[j] = b[1 + j - 1]
    <3>1. \A j \in 1..20 : 1 + j - 1 = j
      OBVIOUS
    <3>2. \A j \in 1..20 : h[j] = b[1 + j - 1]
      BY ONLY <1>9, <3>1
    <3>3. Len(h) = 20
      BY ONLY <1>7
    <3> QED BY ONLY <3>2, <3>3
  <2>3. h \in Seq(Byte) /\ b \in Seq(Byte) /\ 1 \in Nat /\ 20 \in Nat /\ 1 > 0 /\ 1 <= 20 + 1
    BY ONLY <1>7, <1>9
  <2> QED BY ONLY <2>1, <2>2, <2>3, PartIs
<1>12. SubSeq(b, 21, Len(b)) = u
  <2>1. PICK k : k = Len(b)
    OBVIOUS
  <2>2. k \in Nat /\ 21 \in Nat /\ 21 > 0 /\ 21 <= k + 1 /\ k <= Len(b)
        /\ Len(u) = k - 21 + 1
    BY ONLY <1>3, <1>8, <1>9, <2>1
  <2>3. \A j \in 1..Len(u) : 21 + j - 1 = 20 + j
    BY ONLY <2>2
  <2>4. \A j \in 1..Len(u) : u[j] = b[21 + j - 1]
    BY ONLY <1>9, <2>3
  <2>5. u \in Seq(Byte) /\ b \in Seq(Byte)
    BY ONLY <1>8, <1>9
  <2> QED BY ONLY <2>1, <2>2, <2>4, <2>5, PartIs
<1>13. SubSeq(b, 29, Len(b)) = d.payload
  <2>1. PICK k : k = Len(b)
    OBVIOUS
  <2>0. PICK q : q = d.payload
    OBVIOUS
  <2>2. k \in Nat /\ 29 \in Nat /\ 29 > 0 /\ 29 <= k + 1 /\ k <= Len(b)
        /\ Len(q) = k - 29 + 1
    BY ONLY <1>3, <1>10, <2>1, <2>0 DEF n
  <2>3. \A j \in 1..n : 29 + j - 1 = 20 + (8 + j) /\ 8 + j \in 1..Len(u)
    BY ONLY <1>3, <1>8
  <2>4. \A j \in 1..n : q[j] = b[29 + j - 1]
    BY ONLY <1>8, <1>9, <2>3, <2>0
  <2>5. q \in Seq(Byte) /\ b \in Seq(Byte) /\ Len(q) = n
    BY ONLY <1>3, <1>9, <2>0 DEF n
  <2>6. \A j \in 1..Len(q) : q[j] = b[29 + j - 1]
    BY ONLY <2>4, <2>5
  <2> QED BY ONLY <2>0, <2>1, <2>2, <2>5, <2>6, PartIs
<1>14. SubSeq(b, 13, 16) = d.source /\ SubSeq(b, 17, 20) = d.destination
  <2>1. 16 <= Len(b) /\ 20 <= Len(b)
    BY ONLY <1>3, <1>10
  <2>2. PICK q, r : q = d.source /\ r = d.destination
    OBVIOUS
  <2>3. /\ q \in Seq(Byte) /\ Len(q) = 4 /\ r \in Seq(Byte) /\ Len(r) = 4
        /\ b \in Seq(Byte)
    BY ONLY <1>3, <1>9, <2>2
  <2>4. /\ \A j \in 1..4 : h[12 + j] = q[j] /\ h[16 + j] = r[j]
    BY ONLY <1>7, <2>2
  <2>5. /\ \A j \in 1..Len(q) : q[j] = b[13 + j - 1]
        /\ \A j \in 1..Len(r) : r[j] = b[17 + j - 1]
    <3>1. \A j \in 1..4 : /\ 13 + j - 1 = 12 + j /\ 17 + j - 1 = 16 + j
                          /\ 12 + j \in 1..20 /\ 16 + j \in 1..20
      OBVIOUS
    <3>2. \A j \in 1..4 : b[12 + j] = h[12 + j] /\ b[16 + j] = h[16 + j]
      BY ONLY <1>9, <3>1
    <3>3. \A j \in 1..4 : q[j] = b[13 + j - 1] /\ r[j] = b[17 + j - 1]
      BY ONLY <2>4, <3>1, <3>2
    <3> QED BY ONLY <2>3, <3>3
  <2>6. SubSeq(b, 13, 16) = q
    <3>1. 13 \in Nat /\ 16 \in Nat /\ 13 > 0 /\ 13 <= 16 + 1 /\ Len(q) = 16 - 13 + 1
      BY ONLY <2>3
    <3> QED BY ONLY <2>1, <2>3, <2>5, <3>1, PartIs
  <2>7. SubSeq(b, 17, 20) = r
    <3>1. 17 \in Nat /\ 20 \in Nat /\ 17 > 0 /\ 17 <= 20 + 1 /\ Len(r) = 20 - 17 + 1
      BY ONLY <2>3
    <3> QED BY ONLY <2>1, <2>3, <2>5, <3>1, PartIs
  <2> QED BY ONLY <2>2, <2>6, <2>7
<1>15. /\ b[1] = 69 /\ b[10] = 17
       /\ read_be16(b, 2) = Len(b) /\ read_be16(b, 6) = IPV4_DONT_FRAGMENT
  <2>1. /\ b[1] = h[1] /\ b[10] = h[10]
        /\ b[3] = h[3] /\ b[4] = h[4] /\ b[7] = h[7] /\ b[8] = h[8]
    BY ONLY <1>9
  <2>2. read_be16(b, 2) = read_be16(h, 2) /\ read_be16(b, 6) = read_be16(h, 6)
    BY ONLY <2>1 DEF read_be16
  <2>3. /\ h[1] = 69 /\ h[10] = 17
        /\ read_be16(h, 2) = size /\ read_be16(h, 6) = IPV4_DONT_FRAGMENT
    BY ONLY <1>7
  <2> QED BY ONLY <1>10, <2>1, <2>2, <2>3
<1>16. /\ read_be16(b, 20) = d.source_port /\ read_be16(b, 22) = d.destination_port
       /\ read_be16(b, 24) = Len(b) - 20 /\ read_be16(b, 26) /= 0
  <2>0. \A j \in 1..8 : j \in 1..Len(u)
    BY ONLY <1>3, <1>8
  <2>1. /\ b[21] = u[1] /\ b[22] = u[2] /\ b[23] = u[3] /\ b[24] = u[4]
        /\ b[25] = u[5] /\ b[26] = u[6] /\ b[27] = u[7] /\ b[28] = u[8]
    <3>1. \A j \in 1..8 : b[20 + j] = u[j]
      BY ONLY <1>9, <2>0
    <3>2. /\ b[20 + 1] = u[1] /\ b[20 + 2] = u[2] /\ b[20 + 3] = u[3]
          /\ b[20 + 4] = u[4] /\ b[20 + 5] = u[5] /\ b[20 + 6] = u[6]
          /\ b[20 + 7] = u[7] /\ b[20 + 8] = u[8]
      BY ONLY <3>1
    <3> QED BY ONLY <3>2
  <2>2. /\ read_be16(b, 20) = b[21] * 256 + b[22] /\ read_be16(b, 22) = b[23] * 256 + b[24]
        /\ read_be16(b, 24) = b[25] * 256 + b[26] /\ read_be16(b, 26) = b[27] * 256 + b[28]
        /\ read_be16(u, 0) = u[1] * 256 + u[2] /\ read_be16(u, 2) = u[3] * 256 + u[4]
        /\ read_be16(u, 4) = u[5] * 256 + u[6] /\ read_be16(u, 6) = u[7] * 256 + u[8]
    BY DEF read_be16
  <2> QED BY ONLY <1>8, <1>10, <2>1, <2>2
<1>17. Len(b) = 28 + Len(d.payload) /\ Len(d.payload) \in Nat /\ Len(b) <= UINT16_MAX
  BY ONLY <1>3, <1>4, <1>10 DEF n, UINT16_MAX
<1>18. /\ Clean(checksum_add(SubSeq(b, 1, 20))) /\ checksum_add(SubSeq(b, 1, 20)) > 0
       /\ Clean(UdpSum(d, SubSeq(b, 21, Len(b))))
  BY ONLY <1>7, <1>8, <1>11, <1>12
<1>19. b \in Seq(Byte)
  BY ONLY <1>9
<1> QED BY ONLY <1>13, <1>14, <1>15, <1>16, <1>17, <1>18, <1>19, Zenon DEF Sound

-----------------------------------------------------------------------------
(* tsvita_validate_ipv4_udp_packet.                                        *)

\* tsvita_validate_ipv4_udp_packet accepts a built packet, whatever follows it
\* and with a zeroed UDP checksum too.
LEMMA Intact ==
    ASSUME PacketAssumption, NEW d \in Datagrams, NEW b, Sound(b, d),
           NEW p \in Seq(Byte), Len(p) >= Len(b),
           \A j \in 1..Len(b) : j /= 27 /\ j /= 28 => p[j] = b[j],
           (p[27] = 0 /\ p[28] = 0) \/ (p[27] = b[27] /\ p[28] = b[28])
    PROVE  tsvita_validate_ipv4_udp_packet(p, d)
<1>1. PICK n : n = Len(b)
  OBVIOUS
<1>2. /\ b \in Seq(Byte) /\ n = 28 + Len(d.payload) /\ Len(d.payload) \in Nat
      /\ n <= UINT16_MAX
  BY ONLY Sound(b, d), <1>1 DEF Sound
<1>3. n \in Nat /\ n >= 28 /\ n <= 65535 /\ n <= Len(b) /\ n <= Len(p)
  BY <1>1, <1>2 DEF UINT16_MAX
<1>4. \A j \in 1..n : j /= 27 /\ j /= 28 => p[j] = b[j]
  BY ONLY <1>1, \A j \in 1..Len(b) : j /= 27 /\ j /= 28 => p[j] = b[j]
<1>5. ASSUME NEW j \in 1..26 PROVE p[j] = b[j]
  <2>1. j \in 1..n /\ j /= 27 /\ j /= 28
    BY ONLY <1>3, j \in 1..26
  <2> QED BY ONLY <1>4, <2>1
<1>6. /\ p[1] = b[1] /\ p[10] = b[10]
      /\ read_be16(p, 2) = read_be16(b, 2) /\ read_be16(p, 6) = read_be16(b, 6)
      /\ read_be16(p, 20) = read_be16(b, 20) /\ read_be16(p, 22) = read_be16(b, 22)
      /\ read_be16(p, 24) = read_be16(b, 24)
  <2>1. /\ p[1] = b[1] /\ p[10] = b[10] /\ p[3] = b[3] /\ p[4] = b[4]
        /\ p[7] = b[7] /\ p[8] = b[8] /\ p[21] = b[21] /\ p[22] = b[22]
        /\ p[23] = b[23] /\ p[24] = b[24] /\ p[25] = b[25] /\ p[26] = b[26]
    BY ONLY <1>5
  <2>2. read_be16(p, 2) = read_be16(b, 2) /\ read_be16(p, 6) = read_be16(b, 6)
    BY ONLY <2>1 DEF read_be16
  <2>3. /\ read_be16(p, 20) = read_be16(b, 20) /\ read_be16(p, 22) = read_be16(b, 22)
        /\ read_be16(p, 24) = read_be16(b, 24)
    BY ONLY <2>1 DEF read_be16
  <2> QED BY ONLY <2>1, <2>2, <2>3
<1>7. ASSUME NEW m \in Nat, NEW k \in Nat, m > 0, m <= k + 1, k <= 26
      PROVE  SubSeq(p, m, k) = SubSeq(b, m, k)
  <2>1. \A j \in m..k : p[j] = b[j]
    <3>1. \A j \in m..k : j \in 1..26
      BY ONLY <1>7, m \in Nat, k \in Nat
    <3> QED BY ONLY <1>5, <3>1
  <2>2. k <= Len(p) /\ k <= Len(b)
    BY ONLY <1>3, <1>7, k \in Nat, p \in Seq(Byte), <1>2
  <2> QED BY ONLY <1>2, <1>7, <2>1, <2>2, p \in Seq(Byte), m \in Nat, k \in Nat, SameParts
<1>8. /\ SubSeq(p, 1, 20) = SubSeq(b, 1, 20) /\ SubSeq(p, 13, 16) = SubSeq(b, 13, 16)
      /\ SubSeq(p, 17, 20) = SubSeq(b, 17, 20)
  <2>1. 1 \in Nat /\ 20 \in Nat /\ 1 > 0 /\ 1 <= 20 + 1 /\ 20 <= 26
    OBVIOUS
  <2>2. 13 \in Nat /\ 16 \in Nat /\ 13 > 0 /\ 13 <= 16 + 1 /\ 16 <= 26
    OBVIOUS
  <2>3. 17 \in Nat /\ 20 \in Nat /\ 17 > 0 /\ 17 <= 20 + 1 /\ 20 <= 26
    OBVIOUS
  <2>4. SubSeq(p, 1, 20) = SubSeq(b, 1, 20)
    BY ONLY <1>7, <2>1, Zenon
  <2>5. SubSeq(p, 13, 16) = SubSeq(b, 13, 16)
    BY ONLY <1>7, <2>2, Zenon
  <2>6. SubSeq(p, 17, 20) = SubSeq(b, 17, 20)
    BY ONLY <1>7, <2>3, Zenon
  <2> QED BY ONLY <2>4, <2>5, <2>6
<1>9. SubSeq(p, 29, n) = SubSeq(b, 29, n)
  <2>1. \A j \in 29..n : j \in 1..n /\ j /= 27 /\ j /= 28
    BY ONLY <1>3
  <2>2. \A j \in 29..n : p[j] = b[j]
    BY ONLY <1>4, <2>1
  <2>3. PICK m : m = 29
    OBVIOUS
  <2>4. m \in Nat /\ m > 0 /\ m <= n + 1
    BY ONLY <1>3, <2>3
  <2>5. \A j \in m..n : p[j] = b[j]
    BY ONLY <2>2, <2>3
  <2>6. SubSeq(p, m, n) = SubSeq(b, m, n)
    BY ONLY <1>2, <1>3, <2>4, <2>5, p \in Seq(Byte), SameParts
  <2> QED BY ONLY <2>3, <2>6
<1>10. \/ read_be16(p, 26) = 0
       \/ SubSeq(p, 21, n) = SubSeq(b, 21, n)
  <2>1. CASE p[27] = 0 /\ p[28] = 0
    BY ONLY <2>1 DEF read_be16
  <2>2. CASE p[27] = b[27] /\ p[28] = b[28]
    <3>1. \A j \in 1..n : p[j] = b[j]
      BY ONLY <1>4, <2>2
    <3>2. PICK m : m = 21
      OBVIOUS
    <3>3. m \in Nat /\ m > 0 /\ m <= n + 1 /\ \A j \in m..n : j \in 1..n
      BY ONLY <1>3, <3>2
    <3>4. \A j \in m..n : p[j] = b[j]
      BY ONLY <3>1, <3>3
    <3>5. SubSeq(p, m, n) = SubSeq(b, m, n)
      BY ONLY <1>2, <1>3, <3>3, <3>4, p \in Seq(Byte), SameParts
    <3> QED BY ONLY <3>2, <3>5
  <2> QED BY <2>1, <2>2
<1>11. checksum_finish(checksum_add(SubSeq(p, 1, 20))) = 0
  <2>1. PICK h : h = SubSeq(b, 1, 20)
    OBVIOUS
  <2>2. Clean(checksum_add(h)) /\ checksum_add(h) > 0
    BY ONLY <2>1, Sound(b, d), Zenon DEF Sound
  <2>3. h \in Seq(Byte) /\ Len(h) = 20
    <3>1. 1 \in Nat /\ 20 \in Nat /\ 1 > 0 /\ 1 <= 20 + 1 /\ 20 <= Len(b)
      BY ONLY <1>3, <1>1
    <3>2. Len(h) = 20 - 1 + 1 /\ h \in Seq(Byte)
      BY ONLY <1>2, <2>1, <3>1, PartIs, ZenonT(20)
    <3> QED BY ONLY <3>2
  <2>4. checksum_finish(checksum_add(h)) = 0
    BY ONLY <2>2, <2>3, HeaderChecks
  <2> QED BY ONLY <1>8, <2>1, <2>4
<1>12. udp_checksum(d.source, d.destination, SubSeq(b, 21, n)) = 0
  <2>1. PICK u : u = SubSeq(b, 21, n)
    OBVIOUS
  <2>2. Clean(UdpSum(d, u))
    BY ONLY <1>1, <2>1, Sound(b, d), Zenon DEF Sound
  <2>3. u \in Seq(Byte) /\ Len(u) <= 65515
    <3>0. PICK m : m = 21
      OBVIOUS
    <3>1. m \in Nat /\ m > 0 /\ m <= n + 1
      BY ONLY <1>3, <3>0
    <3>2. Len(u) = n - m + 1 /\ u \in Seq(Byte)
      BY ONLY <1>2, <1>3, <2>1, <3>0, <3>1, PartIs
    <3> QED BY ONLY <1>3, <3>0, <3>2
  <2>4. udp_checksum(d.source, d.destination, u) = 0
    BY ONLY PacketAssumption, d \in Datagrams, <2>2, <2>3, UdpChecks
  <2> QED BY ONLY <2>1, <2>4
<1>13. /\ read_be16(p, 2) = n /\ p[1] = 69 /\ p[10] = 17
       /\ read_be16(p, 6) = IPV4_DONT_FRAGMENT
       /\ SubSeq(p, 13, 16) = d.source /\ SubSeq(p, 17, 20) = d.destination
       /\ read_be16(p, 20) = d.source_port /\ read_be16(p, 22) = d.destination_port
       /\ read_be16(p, 24) = n - 20 /\ SubSeq(p, 29, n) = d.payload
  BY ONLY <1>1, <1>6, <1>8, <1>9, Sound(b, d), Zenon DEF Sound
<1>14. IPV4_DONT_FRAGMENT % 16384 = 0
  BY DEF IPV4_DONT_FRAGMENT
<1>15. HeaderValid(p, d)
  <2>1. n >= 28 /\ n <= Len(p) /\ read_be16(p, 6) % 16384 = 0
    BY ONLY <1>3, <1>13, <1>14
  <2>2. PICK total : total = read_be16(p, 2)
    OBVIOUS
  <2>3. total >= 28 /\ total <= Len(p)
    BY ONLY <1>13, <2>1, <2>2
  <2>4. /\ p[1] = 69 /\ p[10] = 17
        /\ SubSeq(p, 13, 16) = d.source /\ SubSeq(p, 17, 20) = d.destination
    BY ONLY <1>13
  <2> QED BY ONLY <1>11, <2>1, <2>2, <2>3, <2>4, SMTT(30) DEF HeaderValid
<1>16. UdpValid(p, d)
  <2>1. n - 20 = 8 + Len(d.payload) /\ 20 + (n - 20) = n
    BY ONLY <1>2, <1>3
  <2>2. \/ read_be16(p, 26) = 0
        \/ udp_checksum(d.source, d.destination, SubSeq(p, 21, n)) = 0
    BY ONLY <1>10, <1>12
  <2>3. PICK size : size = read_be16(p, 24)
    OBVIOUS
  <2>4. size = n - 20 /\ 20 + size = n /\ size = 8 + Len(d.payload)
    BY ONLY <1>13, <2>1, <2>3
  <2> QED BY ONLY <1>13, <2>1, <2>2, <2>3, <2>4 DEF UdpValid
<1>17. Len(p) >= 28
  BY ONLY <1>3, p \in Seq(Byte)
<1> QED BY ONLY <1>15, <1>16, <1>17 DEF tsvita_validate_ipv4_udp_packet

\* It refuses a packet whose end is missing.
LEMMA CutRefused ==
    ASSUME NEW d, NEW b, Sound(b, d), NEW p \in Seq(Byte), Len(p) < Len(b),
           \A j \in 1..Len(p) : p[j] = b[j]
    PROVE  ~tsvita_validate_ipv4_udp_packet(p, d)
<1> SUFFICES ASSUME Len(p) >= 28, HeaderValid(p, d) PROVE FALSE
  BY DEF tsvita_validate_ipv4_udp_packet
<1>1. read_be16(p, 2) <= Len(p)
  BY DEF HeaderValid
<1>2. p[3] = b[3] /\ p[4] = b[4]
  <2>1. 3 \in 1..Len(p) /\ 4 \in 1..Len(p)
    BY ONLY Len(p) >= 28, p \in Seq(Byte)
  <2> QED BY <2>1
<1>3. read_be16(p, 2) = read_be16(b, 2)
  BY ONLY <1>2 DEF read_be16
<1>4. read_be16(b, 2) = Len(b) /\ Len(b) \in Nat
  BY ONLY Sound(b, d) DEF Sound
<1>5. Len(p) \in Nat
  OBVIOUS
<1> QED BY ONLY <1>1, <1>3, <1>4, <1>5, Len(p) < Len(b)

\* A wrong byte makes another word.
LEMMA WordDiffers ==
    ASSUME NEW p \in Seq(Byte), NEW q \in Seq(Byte), Len(q) = Len(p),
           NEW i \in 1..Len(p), q[i] /= p[i],
           \A j \in 1..Len(p) : j /= i => q[j] = p[j],
           NEW k \in Nat, k + 2 <= Len(p), i = k + 1 \/ i = k + 2
    PROVE  read_be16(q, k) /= read_be16(p, k)
<1>1. k + 1 \in 1..Len(p) /\ k + 2 \in 1..Len(p) /\ k + 1 /= k + 2
  OBVIOUS
<1>2. PICK p1, p2, q1, q2 : p1 = p[k + 1] /\ p2 = p[k + 2] /\ q1 = q[k + 1] /\ q2 = q[k + 2]
  OBVIOUS
<1>3. p1 \in Byte /\ p2 \in Byte /\ q1 \in Byte /\ q2 \in Byte
  BY <1>1, <1>2, SummandIs
<1>4. /\ p1 \in Int /\ p2 \in Int /\ q1 \in Int /\ q2 \in Int
      /\ 0 <= p2 /\ p2 <= 255 /\ 0 <= q2 /\ q2 <= 255
  BY ONLY <1>3, ByteIs
<1>5. (q1 /= p1 /\ q2 = p2) \/ (q1 = p1 /\ q2 /= p2)
  BY <1>1, <1>2
<1>6. q1 * 256 + q2 /= p1 * 256 + p2
  BY ONLY <1>4, <1>5
<1> QED BY ONLY <1>2, <1>6 DEF read_be16

\* It refuses a packet with one wrong byte, wherever that is, unless this
\* zeroes the UDP checksum.
LEMMA Damaged ==
    ASSUME PacketAssumption, NEW d \in Datagrams, NEW b, Sound(b, d),
           NEW p \in Seq(Byte), NEW i, OneWrong(p, b, i),
           ~(p[27] = 0 /\ p[28] = 0)  \/ i \notin {27, 28}
    PROVE  ~tsvita_validate_ipv4_udp_packet(p, d)
<1> SUFFICES ASSUME HeaderValid(p, d), UdpValid(p, d) PROVE FALSE
  BY DEF tsvita_validate_ipv4_udp_packet
<1>1. PICK n : n = Len(b)
  OBVIOUS
<1>2. /\ b \in Seq(Byte) /\ n = 28 + Len(d.payload) /\ Len(d.payload) \in Nat
      /\ n <= UINT16_MAX
  BY ONLY Sound(b, d), <1>1 DEF Sound
<1>3. n \in Nat /\ n >= 28 /\ n <= 65535
  BY ONLY <1>2 DEF UINT16_MAX
<1>4. /\ Len(p) = n /\ Len(b) = n /\ i \in 1..n /\ p[i] /= b[i]
      /\ \A j \in 1..n : j /= i => p[j] = b[j]
  BY ONLY <1>1, OneWrong(p, b, i) DEF OneWrong
<1>5. ASSUME NEW k \in Nat, k + 2 <= n, i = k + 1 \/ i = k + 2
      PROVE  read_be16(p, k) /= read_be16(b, k)
  <2>1. PICK m : m = Len(b)
    OBVIOUS
  <2>2. /\ Len(p) = Len(b) /\ i \in 1..Len(b) /\ p[i] /= b[i] /\ k + 2 <= Len(b)
        /\ \A j \in 1..Len(b) : j /= i => p[j] = b[j]
    BY ONLY <1>4, <1>5
  <2> QED BY ONLY <1>2, <1>5, <2>2, p \in Seq(Byte), k \in Nat, WordDiffers
<1>6. /\ read_be16(b, 20) = d.source_port /\ read_be16(b, 22) = d.destination_port
      /\ read_be16(b, 24) = n - 20 /\ SubSeq(b, 29, n) = d.payload
  BY ONLY <1>1, Sound(b, d), Zenon DEF Sound
<1>7. PICK size : size = read_be16(p, 24)
  OBVIOUS
<1>8. /\ read_be16(p, 20) = d.source_port /\ read_be16(p, 22) = d.destination_port
      /\ size = 8 + Len(d.payload)
      /\ \/ read_be16(p, 26) = 0
         \/ udp_checksum(d.source, d.destination, SubSeq(p, 21, 20 + size)) = 0
      /\ SubSeq(p, 29, 20 + size) = d.payload
  BY ONLY <1>7, UdpValid(p, d) DEF UdpValid
<1>9. size = n - 20 /\ 20 + size = n
  BY ONLY <1>2, <1>3, <1>8
<1>10. ASSUME NEW m \in Nat, m > 0, NEW k \in Nat, k <= n, i \in m..k
       PROVE  /\ OneWrong(SubSeq(p, m, k), SubSeq(b, m, k), i - m + 1)
              /\ Len(SubSeq(b, m, k)) = k - m + 1
  <2>1. k <= Len(b)
    BY ONLY <1>4, <1>10
  <2> QED BY ONLY OneWrong(p, b, i), <1>10, <2>1, m \in Nat, k \in Nat, PartDiffers
<1>11. CASE i \in 1..20
  <2>1. PICK s, t, m, k : s = SubSeq(b, 1, 20) /\ t = SubSeq(p, 1, 20) /\ m = 1 /\ k = 20
    OBVIOUS
  <2>2. m \in Nat /\ k \in Nat /\ m > 0 /\ m <= k + 1 /\ k <= n /\ i \in m..k
    BY ONLY <1>3, <1>11, <2>1
  <2>3. s = SubSeq(b, m, k) /\ t = SubSeq(p, m, k)
    BY ONLY <2>1
  <2>4. OneWrong(t, s, i - m + 1) /\ Len(s) = k - m + 1
    BY ONLY <1>10, <2>2, <2>3
  <2>5. Clean(checksum_add(s))
    BY ONLY <2>1, Sound(b, d), Zenon DEF Sound
  <2>a. s \in Seq(Byte) /\ t \in Seq(Byte) /\ Len(t) = Len(s)
    BY ONLY <2>4 DEF OneWrong
  <2>6. checksum_add(s) \in Nat /\ checksum_add(t) \in Nat
    BY ONLY <2>a, SumBounded
  <2>7. PICK x : x = 0
    OBVIOUS
  <2>8. x \in Nat /\ x + checksum_add(s) = checksum_add(s) /\ x + checksum_add(t) = checksum_add(t)
    BY ONLY <2>6, <2>7
  <2>9. Clean(x + checksum_add(s))
    BY ONLY <2>5, <2>8
  <2>12. ~Clean(x + checksum_add(t))
    BY ONLY <2>4, <2>8, <2>9, WrongByteTells
  <2>13. Len(t) = 20
    BY ONLY <2>1, <2>4, <2>a
  <2>14. checksum_finish(checksum_add(t)) /= 0
    BY ONLY <2>a, <2>8, <2>12, <2>13, HeaderChecks
  <2>15. checksum_finish(checksum_add(t)) = 0
    BY ONLY <2>1, HeaderValid(p, d) DEF HeaderValid
  <2> QED BY ONLY <2>14, <2>15
<1>12. CASE i \in 21..26
  <2>1. /\ 20 \in Nat /\ 20 + 2 <= n /\ 22 \in Nat /\ 22 + 2 <= n
        /\ 24 \in Nat /\ 24 + 2 <= n
    BY ONLY <1>3
  <2>2. \/ i = 20 + 1 \/ i = 20 + 2 \/ i = 22 + 1 \/ i = 22 + 2
        \/ i = 24 + 1 \/ i = 24 + 2
    BY ONLY <1>12
  <2>3. \/ read_be16(p, 20) /= read_be16(b, 20) \/ read_be16(p, 22) /= read_be16(b, 22)
        \/ read_be16(p, 24) /= read_be16(b, 24)
    BY ONLY <1>5, <2>1, <2>2
  <2> QED BY ONLY <1>6, <1>7, <1>8, <1>9, <2>3
<1>13. CASE i \in {27, 28}
  <2>1. PICK s, t, m : s = SubSeq(b, 21, n) /\ t = SubSeq(p, 21, n) /\ m = 21
    OBVIOUS
  <2>2. m \in Nat /\ m > 0 /\ m <= n + 1 /\ n <= n /\ i \in m..n
    BY ONLY <1>3, <1>13, <2>1
  <2>3. s = SubSeq(b, m, n) /\ t = SubSeq(p, m, n)
    BY ONLY <2>1
  <2>4. OneWrong(t, s, i - m + 1) /\ Len(s) = n - m + 1
    BY ONLY <1>3, <1>10, <2>2, <2>3
  <2>a. s \in Seq(Byte) /\ t \in Seq(Byte) /\ Len(t) = Len(s)
    BY ONLY <2>4 DEF OneWrong
  <2>5. Clean(UdpSum(d, s))
    BY ONLY <1>1, <2>1, Sound(b, d), Zenon DEF Sound
  <2>6. PICK x : x = checksum_add(d.source) + checksum_add(d.destination) + 17 + Len(s)
    OBVIOUS
  <2>7. x \in Nat
    <3>1. PICK v, w : v = d.source /\ w = d.destination
      OBVIOUS
    <3>2. v \in Seq(Byte) /\ w \in Seq(Byte)
      BY <3>1, DatagramIs
    <3>3. checksum_add(v) \in Nat /\ checksum_add(w) \in Nat /\ Len(s) \in Nat
      BY ONLY <2>a, <3>2, SumBounded
    <3> QED BY ONLY <2>6, <3>1, <3>3
  <2>8. UdpSum(d, s) = x + checksum_add(s) /\ UdpSum(d, t) = x + checksum_add(t)
    BY ONLY <2>a, <2>6 DEF UdpSum
  <2>11. Clean(x + checksum_add(s))
    BY ONLY <2>5, <2>8
  <2>12. ~Clean(x + checksum_add(t))
    BY ONLY <2>4, <2>7, <2>11, WrongByteTells
  <2>13. Len(t) <= 65515
    BY ONLY <1>3, <2>1, <2>4, <2>a
  <2>14. udp_checksum(d.source, d.destination, t) /= 0
    BY ONLY PacketAssumption, d \in Datagrams, <2>a, <2>8, <2>12, <2>13, UdpChecks
  <2>15. read_be16(p, 26) = 0
    BY ONLY <1>8, <1>9, <2>1, <2>14
  <2>16. PICK y, z : y = p[27] /\ z = p[28]
    OBVIOUS
  <2>17. y \in Byte /\ z \in Byte
    <3>1. 27 \in 1..Len(p) /\ 28 \in 1..Len(p)
      BY ONLY <1>3, <1>4
    <3> QED BY ONLY <2>16, <3>1, p \in Seq(Byte), ElementOfSeq
  <2>18. y * 256 + z = 0
    BY ONLY <2>15, <2>16 DEF read_be16
  <2>19. y = 0 /\ z = 0
    <3>1. y \in Int /\ 0 <= y /\ z \in Int /\ 0 <= z
      BY ONLY <2>17, ByteIs
    <3> QED BY ONLY <2>18, <3>1
  <2> QED BY <1>13, <2>16, <2>19
<1>14. CASE i \in 29..n
  <2>1. PICK s, t, m : s = SubSeq(b, 29, n) /\ t = SubSeq(p, 29, n) /\ m = 29
    OBVIOUS
  <2>2. m \in Nat /\ m > 0 /\ m <= n + 1 /\ n <= n /\ i \in m..n
    BY ONLY <1>3, <1>14, <2>1
  <2>3. s = SubSeq(b, m, n) /\ t = SubSeq(p, m, n)
    BY ONLY <2>1
  <2>a. OneWrong(t, s, i - m + 1)
    BY ONLY <1>3, <1>10, <2>2, <2>3
  <2>4. t[i - m + 1] /= s[i - m + 1]
    BY ONLY <2>a DEF OneWrong
  <2>5. t = s
    BY ONLY <1>6, <1>8, <1>9, <2>1
  <2> QED BY ONLY <2>4, <2>5
<1>15. i \in 1..20 \/ i \in 21..26 \/ i \in {27, 28} \/ i \in 29..n
  BY ONLY <1>3, <1>4
<1> QED BY ONLY <1>11, <1>12, <1>13, <1>14, <1>15

\* A packet begins with another one.
LEMMA PrefixIs ==
    ASSUME NEW w \in Seq(Byte), NEW q \in Seq(Byte), NEW n \in Nat, Len(q) = n,
           n <= Len(w)
    PROVE  SubSeq(w, 1, n) = q <=> \A j \in 1..n : w[j] = q[j]
<1>1. PICK m : m = 1
  OBVIOUS
<1>2. m \in Nat /\ m > 0 /\ m <= n + 1 /\ n - m + 1 = n
  BY ONLY <1>1, n \in Nat
<1>3. SubSeq(w, m, n) = q <=> /\ Len(q) = n - m + 1
                              /\ \A j \in 1..Len(q) : q[j] = w[m + j - 1]
  BY <1>2, PartIs
<1>4. \A j \in 1..n : m + j - 1 = j
  BY ONLY <1>1, n \in Nat
<1> QED BY <1>1, <1>2, <1>3, <1>4

\* A packet without a UDP checksum.
Zeroed(b) == [b EXCEPT ![27] = 0, ![28] = 0]

\* Zeroing the checksum changes nothing else.
LEMMA ZeroedIs ==
    ASSUME NEW b \in Seq(Byte), NEW n, n = Len(b), n >= 28, NEW z, z = Zeroed(b)
    PROVE  /\ z \in Seq(Byte) /\ Len(z) = n /\ z[27] = 0 /\ z[28] = 0
           /\ \A j \in 1..n : j /= 27 /\ j /= 28 => z[j] = b[j]
<1>1. PICK k, l, o : k = 27 /\ l = 28 /\ o = 0
  OBVIOUS
<1> DEFINE m == [b EXCEPT ![k] = o]
           q == [m EXCEPT ![l] = o]
<1>2. k \in 1..Len(b) /\ l \in 1..Len(b) /\ k /= l
  BY <1>1
<1>3. o \in Byte
  BY <1>1, SmallBytes
<1>4. z = q
  BY <1>1 DEF Zeroed
<1>5. /\ m \in Seq(Byte) /\ Len(m) = Len(b) /\ m[k] = o
      /\ \A j \in 1..Len(b) : j /= k => m[j] = b[j]
  BY ONLY b \in Seq(Byte), <1>2, <1>3, ByteSet
<1> HIDE DEF m
<1>6. /\ q \in Seq(Byte) /\ Len(q) = Len(m) /\ q[l] = o
      /\ \A j \in 1..Len(m) : j /= l => q[j] = m[j]
  <2>1. l \in 1..Len(m)
    BY ONLY <1>2, <1>5
  <2> QED BY ONLY <1>3, <1>5, <2>1, ByteSet
<1> HIDE DEF q
<1>7. /\ q \in Seq(Byte) /\ Len(q) = n /\ q[k] = o /\ q[l] = o
      /\ \A j \in 1..n : j /= k /\ j /= l => q[j] = b[j]
  BY ONLY <1>2, <1>5, <1>6, n = Len(b)
<1> QED BY ONLY <1>1, <1>4, <1>7

\* What may have happened to a packet on its way.
WireOf(w, b) ==
    /\ w \in Seq(Byte)
    /\ \/ Len(w) >= Len(b) /\ \A j \in 1..Len(b) : w[j] = b[j]
       \/ /\ Len(w) = Len(b) /\ w[27] = 0 /\ w[28] = 0
          /\ \A j \in 1..Len(b) : j /= 27 /\ j /= 28 => w[j] = b[j]
       \/ \E i : OneWrong(w, b, i)
       \/ Len(w) < Len(b) /\ \A j \in 1..Len(w) : w[j] = b[j]

\* What the validator says of anything that may arrive.
LEMMA Verdict ==
    ASSUME PacketAssumption, NEW d \in Datagrams, NEW b, Sound(b, d),
           NEW w, WireOf(w, b)
    PROVE  tsvita_validate_ipv4_udp_packet(w, d)
           <=> Len(w) >= Len(b) /\ SubSeq(w, 1, Len(b)) \in {b, Zeroed(b)}
<1> DEFINE V == tsvita_validate_ipv4_udp_packet(w, d)
<1>1. PICK n, z : n = Len(b) /\ z = Zeroed(b)
  OBVIOUS
<1>2. /\ b \in Seq(Byte) /\ Len(b) = 28 + Len(d.payload) /\ Len(d.payload) \in Nat
  BY ONLY Sound(b, d) DEF Sound
<1>3. n \in Nat /\ n >= 28
  BY ONLY <1>1, <1>2
<1>4. /\ z \in Seq(Byte) /\ Len(z) = n /\ z[27] = 0 /\ z[28] = 0
      /\ \A j \in 1..n : j /= 27 /\ j /= 28 => z[j] = b[j]
  BY ONLY <1>1, <1>2, <1>3, ZeroedIs
<1>5. w \in Seq(Byte) /\ Len(w) \in Nat
  <2>1. w \in Seq(Byte)
    BY ONLY WireOf(w, b) DEF WireOf
  <2> QED BY <2>1
<1>6. ASSUME Len(w) >= n
      PROVE  /\ SubSeq(w, 1, n) = b <=> \A j \in 1..n : w[j] = b[j]
             /\ SubSeq(w, 1, n) = z <=> \A j \in 1..n : w[j] = z[j]
  <2>1. n <= Len(w) /\ Len(b) = n
    BY ONLY <1>1, <1>3, <1>5, <1>6
  <2>2. SubSeq(w, 1, n) = b <=> \A j \in 1..n : w[j] = b[j]
    BY ONLY <1>2, <1>3, <1>5, <2>1, PrefixIs
  <2>3. SubSeq(w, 1, n) = z <=> \A j \in 1..n : w[j] = z[j]
    BY ONLY <1>3, <1>4, <1>5, <2>1, PrefixIs
  <2> QED BY ONLY <2>2, <2>3
<1>7. 27 \in 1..n /\ 28 \in 1..n
  BY ONLY <1>3
<1>8. ASSUME Len(w) >= n, \A j \in 1..n : j /= 27 /\ j /= 28 => w[j] = b[j],
             (w[27] = 0 /\ w[28] = 0) \/ (w[27] = b[27] /\ w[28] = b[28])
      PROVE  V
  <2>1. Len(w) >= Len(b) /\ \A j \in 1..Len(b) : j /= 27 /\ j /= 28 => w[j] = b[j]
    BY ONLY <1>1, <1>8
  <2> QED BY ONLY PacketAssumption, d \in Datagrams, Sound(b, d), <1>5, <1>8, <2>1, Intact
<1>9. ASSUME Len(w) >= n, \A j \in 1..n : j /= 27 /\ j /= 28 => w[j] = b[j],
             w[27] = 0, w[28] = 0
      PROVE  SubSeq(w, 1, n) = z
  <2>1. \A j \in 1..n : w[j] = z[j]
    BY ONLY <1>4, <1>9
  <2> QED BY ONLY <1>6, <1>9, <2>1
<1> DEFINE R == Len(w) >= n /\ (SubSeq(w, 1, n) = b \/ SubSeq(w, 1, n) = z)
<1>a. R <=> Len(w) >= Len(b) /\ SubSeq(w, 1, Len(b)) \in {b, Zeroed(b)}
  BY ONLY <1>1
<1> SUFFICES V <=> R
  BY <1>a, Zenon
<1>10. CASE Len(w) >= n /\ \A j \in 1..n : w[j] = b[j]
  <2>1. w[27] = b[27] /\ w[28] = b[28]
    BY ONLY <1>7, <1>10
  <2>2. V
    BY ONLY <1>8, <1>10, <2>1
  <2>3. SubSeq(w, 1, n) = b
    BY ONLY <1>6, <1>10
  <2> QED BY ONLY <1>10, <2>2, <2>3
<1>11. CASE /\ Len(w) = n /\ w[27] = 0 /\ w[28] = 0
            /\ \A j \in 1..n : j /= 27 /\ j /= 28 => w[j] = b[j]
  <2>1. Len(w) >= n
    BY ONLY <1>3, <1>11
  <2>2. V
    BY ONLY <1>8, <1>11, <2>1
  <2>3. SubSeq(w, 1, n) = z
    BY ONLY <1>9, <1>11, <2>1
  <2> QED BY ONLY <2>1, <2>2, <2>3
<1>12. ASSUME NEW i, OneWrong(w, b, i) PROVE V <=> R
  <2>1. /\ Len(w) = n /\ i \in 1..n /\ w[i] /= b[i]
        /\ \A j \in 1..n : j /= i => w[j] = b[j]
    BY ONLY <1>1, <1>12 DEF OneWrong
  <2>2. Len(w) >= n
    BY ONLY <1>3, <2>1
  <2>3. CASE w[27] = 0 /\ w[28] = 0 /\ i \in {27, 28}
    <3>1. \A j \in 1..n : j /= 27 /\ j /= 28 => w[j] = b[j]
      BY ONLY <2>1, <2>3
    <3>2. V
      BY ONLY <1>8, <2>2, <2>3, <3>1
    <3>3. SubSeq(w, 1, n) = z
      BY ONLY <1>9, <2>2, <2>3, <3>1
    <3> QED BY ONLY <2>2, <3>2, <3>3
  <2>4. CASE ~(w[27] = 0 /\ w[28] = 0) \/ i \notin {27, 28}
    <3>1. ~V
      BY ONLY PacketAssumption, d \in Datagrams, Sound(b, d), <1>5, <1>12, <2>4, Damaged
    <3>2. SubSeq(w, 1, n) /= b
      BY ONLY <1>6, <2>1, <2>2
    <3>3. SubSeq(w, 1, n) /= z
      <4>0. SubSeq(w, 1, n) = z <=> \A j \in 1..n : w[j] = z[j]
        BY ONLY <1>6, <2>2
      <4> SUFFICES ASSUME \A j \in 1..n : w[j] = z[j] PROVE FALSE
        BY <4>0, Zenon
      <4>1. w[27] = 0 /\ w[28] = 0
        BY ONLY <1>4, <1>7, \A j \in 1..n : w[j] = z[j]
      <4>2. i /= 27 /\ i /= 28
        BY ONLY <2>4, <4>1
      <4>3. w[i] = z[i] /\ z[i] = b[i]
        BY ONLY <1>4, <2>1, <4>2, \A j \in 1..n : w[j] = z[j]
      <4> QED BY ONLY <2>1, <4>3
    <3> QED BY ONLY <3>1, <3>2, <3>3
  <2> QED BY <2>3, <2>4
<1>13. CASE Len(w) < n /\ \A j \in 1..Len(w) : w[j] = b[j]
  <2>1. Len(w) < Len(b)
    BY ONLY <1>1, <1>13
  <2>2. ~V
    BY ONLY Sound(b, d), <1>5, <1>13, <2>1, CutRefused
  <2>3. ~(Len(w) >= n)
    BY ONLY <1>3, <1>5, <1>13
  <2> QED BY ONLY <2>2, <2>3
<1>14. \/ Len(w) >= n /\ \A j \in 1..n : w[j] = b[j]
       \/ /\ Len(w) = n /\ w[27] = 0 /\ w[28] = 0
          /\ \A j \in 1..n : j /= 27 /\ j /= 28 => w[j] = b[j]
       \/ \E i : OneWrong(w, b, i)
       \/ Len(w) < n /\ \A j \in 1..Len(w) : w[j] = b[j]
  BY ONLY <1>1, WireOf(w, b) DEF WireOf
<1> HIDE DEF V, R
<1> QED BY ONLY <1>10, <1>11, <1>12, <1>13, <1>14

\* The packet was built from the datagram, and what arrives comes from it.
PacketInv ==
    built /= <<>> => /\ datagram \in Datagrams
                     /\ built = tsvita_build_ipv4_udp_packet(datagram)
                     /\ WireOf(wire, built)

\* Building a packet and whatever happens to it on its way keep that.
LEMMA PacketStep ==
    ASSUME PacketAssumption, PacketInv, [PacketNext]_packetVars PROVE PacketInv'
<1> SUFFICES ASSUME built' /= <<>>
             PROVE  /\ datagram' \in Datagrams
                    /\ built' = tsvita_build_ipv4_udp_packet(datagram')
                    /\ WireOf(wire', built')
  BY DEF PacketInv
<1>1. ASSUME NEW d \in Datagrams, Build(d)
      PROVE  /\ datagram' \in Datagrams
             /\ built' = tsvita_build_ipv4_udp_packet(datagram')
             /\ WireOf(wire', built')
  <2>1. datagram' = d /\ built' = tsvita_build_ipv4_udp_packet(d) /\ wire' = built'
    BY ONLY <1>1 DEF Build
  <2>2. PICK b : b = built'
    OBVIOUS
  <2>3. Sound(b, d)
    BY ONLY PacketAssumption, d \in Datagrams, built' /= <<>>, <2>1, <2>2, PacketBuilt
  <2>4. b \in Seq(Byte)
    BY ONLY <2>3 DEF Sound
  <2>5. WireOf(b, b)
    <3>1. Len(b) >= Len(b)
      BY ONLY <2>4
    <3> QED BY ONLY <2>4, <3>1 DEF WireOf
  <2> QED BY ONLY <2>1, <2>2, <2>5, d \in Datagrams
<1>2. ASSUME UNCHANGED <<datagram, built>>, wire = built => WireOf(wire', built),
             wire = built \/ UNCHANGED wire
      PROVE  /\ datagram' \in Datagrams
             /\ built' = tsvita_build_ipv4_udp_packet(datagram')
             /\ WireOf(wire', built')
  BY <1>2 DEF PacketInv
<1>3. ASSUME UNCHANGED built PROVE built \in Seq(Byte) /\ Len(built) >= 28 /\ Len(built) \in Nat
  <2>1. PICK b, d : b = built /\ d = datagram
    OBVIOUS
  <2>2. b /= <<>> /\ d \in Datagrams /\ b = tsvita_build_ipv4_udp_packet(d)
    BY <1>3, <2>1 DEF PacketInv
  <2>3. Sound(b, d)
    BY ONLY PacketAssumption, <2>2, PacketBuilt
  <2>4. b \in Seq(Byte) /\ Len(b) = 28 + Len(d.payload) /\ Len(d.payload) \in Nat
    BY ONLY <2>3 DEF Sound
  <2>5. Len(b) >= 28 /\ Len(b) \in Nat
    BY ONLY <2>4
  <2> QED BY ONLY <2>1, <2>4, <2>5
<1>4. ASSUME NEW i \in DOMAIN wire, NEW v \in Damages, DamageByte(i, v)
      PROVE  UNCHANGED <<datagram, built>> /\ wire = built /\ WireOf(wire', built)
  <2>1. /\ wire = built /\ v /= wire[i] /\ wire' = [wire EXCEPT ![i] = v]
        /\ UNCHANGED <<datagram, built>>
    BY ONLY <1>4 DEF DamageByte
  <2>2. PICK b, w : b = built /\ w = [b EXCEPT ![i] = v]
    OBVIOUS
  <2>3. wire' = w
    BY ONLY <2>1, <2>2
  <2>4. b \in Seq(Byte)
    BY ONLY <1>3, <2>1, <2>2
  <2>5. i \in 1..Len(b) /\ v \in Byte /\ v /= b[i]
    BY <2>1, <2>2, <2>4 DEF PacketAssumption
  <2>6. /\ w \in Seq(Byte) /\ Len(w) = Len(b) /\ w[i] = v
        /\ \A j \in 1..Len(b) : j /= i => w[j] = b[j]
    BY ONLY <2>2, <2>4, <2>5, ByteSet
  <2>7. OneWrong(w, b, i)
    BY ONLY <2>4, <2>5, <2>6 DEF OneWrong
  <2>8. WireOf(w, b)
    BY ONLY <2>6, <2>7 DEF WireOf
  <2> QED BY ONLY <2>1, <2>2, <2>3, <2>8
<1>5. ASSUME ZeroChecksum
      PROVE  UNCHANGED <<datagram, built>> /\ wire = built /\ WireOf(wire', built)
  <2>1. wire = built /\ wire' = Zeroed(wire) /\ UNCHANGED <<datagram, built>>
    BY ONLY <1>5 DEF ZeroChecksum, Zeroed
  <2>2. PICK b, w, n : b = built /\ w = Zeroed(b) /\ n = Len(b)
    OBVIOUS
  <2>3. b \in Seq(Byte) /\ n >= 28
    BY ONLY <1>3, <2>1, <2>2
  <2>4. /\ w \in Seq(Byte) /\ Len(w) = n /\ w[27] = 0 /\ w[28] = 0
        /\ \A j \in 1..n : j /= 27 /\ j /= 28 => w[j] = b[j]
    BY ONLY <2>2, <2>3, ZeroedIs
  <2>5. WireOf(w, b)
    BY ONLY <2>2, <2>4 DEF WireOf
  <2> QED BY ONLY <2>1, <2>2, <2>5
<1>6. ASSUME NEW n \in 0..(CAPACITY + 2), Resize(n)
      PROVE  UNCHANGED <<datagram, built>> /\ wire = built /\ WireOf(wire', built)
  <2>1. /\ wire = built /\ UNCHANGED <<datagram, built>>
        /\ wire' = IF n <= Len(built) THEN SubSeq(built, 1, n)
                   ELSE built \o [i \in 1..(n - Len(built)) |-> 165]
    BY ONLY <1>6 DEF Resize
  <2>2. PICK b, w, l : b = built /\ w = wire' /\ l = Len(b)
    OBVIOUS
  <2>3. b \in Seq(Byte) /\ l >= 28 /\ l \in Nat
    BY ONLY <1>3, <2>1, <2>2
  <2>4. n \in Nat
    BY DEF PacketAssumption
  <2>5. ASSUME n <= l PROVE WireOf(w, b)
    <3>1. w = SubSeq(b, 1, n)
      BY ONLY <2>1, <2>2, <2>5
    <3>2. PICK m : m = 1
      OBVIOUS
    <3>3. m \in Nat /\ m > 0 /\ m <= n + 1 /\ n <= Len(b) /\ n - m + 1 = n
      BY ONLY <2>2, <2>3, <2>4, <2>5, <3>2
    <3>4. /\ w \in Seq(Byte) /\ Len(w) = n - m + 1
          /\ \A j \in 1..(n - m + 1) : w[j] = b[m + j - 1]
      BY ONLY <2>3, <2>4, <3>1, <3>2, <3>3, PartIs
    <3>5. \A j \in 1..n : m + j - 1 = j
      BY ONLY <2>4, <3>2
    <3>6. w \in Seq(Byte) /\ Len(w) = n /\ \A j \in 1..n : w[j] = b[j]
      BY ONLY <3>3, <3>4, <3>5
    <3>7. n = l => n >= l
      BY ONLY <2>4
    <3>8. n = l \/ n < l
      BY ONLY <2>3, <2>4, <2>5
    <3> QED BY ONLY <2>2, <3>6, <3>7, <3>8 DEF WireOf
  <2>6. ASSUME ~(n <= l) PROVE WireOf(w, b)
    <3>1. PICK k, e : k = n - l /\ e = [i \in 1..k |-> 165]
      OBVIOUS
    <3>2. w = b \o e
      BY ONLY <2>1, <2>2, <2>6, <3>1
    <3>3. k \in Nat
      BY ONLY <2>3, <2>4, <2>6, <3>1
    <3>4. e \in Seq(Byte)
      <4>1. 165 \in Byte
        BY ByteIs
      <4>2. e \in [1..k -> Byte]
        BY ONLY <3>1, <4>1
      <4> QED BY ONLY <3>3, <4>2, SeqDef
    <3>5. /\ w \in Seq(Byte) /\ Len(w) = l + Len(e)
          /\ \A i \in 1..l : w[i] = b[i]
      <4>1. Len(b) = l
        BY ONLY <2>2
      <4> QED BY ONLY <2>3, <3>2, <3>4, <4>1, Joined
    <3>6. Len(w) >= l
      <4>1. Len(e) \in Nat
        BY ONLY <3>4
      <4> QED BY ONLY <2>3, <3>5, <4>1
    <3> QED BY ONLY <2>2, <3>5, <3>6 DEF WireOf
  <2>7. WireOf(w, b)
    BY ONLY <2>5, <2>6
  <2> QED BY ONLY <2>1, <2>2, <2>7
<1>7. CASE UNCHANGED packetVars
  <2>1. UNCHANGED <<datagram, built, wire>>
    BY ONLY <1>7 DEF packetVars
  <2> QED BY <2>1 DEF PacketInv
<1> QED BY <1>1, <1>2, <1>4, <1>5, <1>6, <1>7 DEF PacketNext

\* tsvita_validate_ipv4_udp_packet accepts exactly the intact packets of
\* tsvita_build_ipv4_udp_packet, for every datagram, every capacity of the
\* buffer and every value a damaged byte may take; and the builder never writes
\* a zero checksum.
THEOREM PacketsIntact == PacketSpec => []AcceptsExactlyIntact
<1>1. PacketInit => PacketInv
  BY DEF PacketInit, PacketInv
<1>2. PacketInv => AcceptsExactlyIntact
  <2> SUFFICES ASSUME PacketInv, built /= <<>>
               PROVE  /\ read_be16(built, 26) /= 0
                      /\ tsvita_validate_ipv4_udp_packet(wire, datagram)
                         = (Len(wire) >= Len(built)
                            /\ SubSeq(wire, 1, Len(built)) \in {built, Zeroed(built)})
    BY DEF AcceptsExactlyIntact, Zeroed
  <2>1. /\ datagram \in Datagrams /\ built = tsvita_build_ipv4_udp_packet(datagram)
        /\ WireOf(wire, built)
    BY DEF PacketInv
  <2>2. Sound(built, datagram)
    BY ONLY PacketAssumption, built /= <<>>, <2>1, PacketBuilt
  <2>3. tsvita_validate_ipv4_udp_packet(wire, datagram)
        <=> Len(wire) >= Len(built) /\ SubSeq(wire, 1, Len(built)) \in {built, Zeroed(built)}
    BY ONLY PacketAssumption, <2>1, <2>2, Verdict
  <2>4. read_be16(built, 26) /= 0
    BY ONLY <2>2 DEF Sound
  <2>5. tsvita_validate_ipv4_udp_packet(wire, datagram) \in BOOLEAN
    BY DEF tsvita_validate_ipv4_udp_packet
  <2> QED BY ONLY <2>3, <2>4, <2>5
<1> QED BY <1>1, <1>2, PacketStep, PacketAssumption, PTL DEF PacketSpec
=============================================================================
