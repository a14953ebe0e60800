---------------------------- MODULE ReplayProofs ----------------------------
(***************************************************************************)
(* TLAPS proofs about wireguard_check_replay, for every word size, every   *)
(* number of words and every protocol limit: the ring never admits a       *)
(* packet number twice and implements ReplaySpec.                          *)
(***************************************************************************)
EXTENDS ReplayWindow, TLAPS

-----------------------------------------------------------------------------
(* Arithmetic of words, bits and slots.                                    *)

\* A number is its word times WORD_BITS plus its bit.
LEMMA WordBit ==
    ASSUME NEW a \in Nat
    PROVE  /\ Word(a) \in Nat /\ Bit(a) \in 0..(WORD_BITS - 1)
           /\ a = WORD_BITS * Word(a) + Bit(a)
  BY SizesAssumption DEF Word, Bit

\* Multiplication by WORD_BITS is monotone.
LEMMA TimesMonotone ==
    ASSUME NEW p \in Int, NEW q \in Int, p <= q
    PROVE  WORD_BITS * p <= WORD_BITS * q
  BY SizesAssumption

\* A larger number lies in the same word or in a later one.
LEMMA WordMonotone ==
    ASSUME NEW a \in Nat, NEW b \in Nat, a <= b
    PROVE  Word(a) <= Word(b)
<1> SUFFICES ASSUME Word(b) < Word(a) PROVE FALSE
  BY WordBit
<1>1. Word(b) + 1 <= Word(a)
  BY WordBit
<1>2. WORD_BITS * (Word(b) + 1) <= WORD_BITS * Word(a)
  BY <1>1, TimesMonotone, WordBit
<1>3. WORD_BITS * (Word(b) + 1) = WORD_BITS * Word(b) + WORD_BITS
  BY WordBit, SizesAssumption
<1> QED
  BY <1>2, <1>3, WordBit, SizesAssumption

\* Two numbers with the same word and the same bit are the same number.
LEMMA WordBitInjective ==
    ASSUME NEW a \in Nat, NEW b \in Nat, Word(a) = Word(b), Bit(a) = Bit(b)
    PROVE  a = b
  BY WordBit

\* WINDOW_SIZE leaves one word of slack: a number that is not behind the
\* window lies in one of the WORDS words that end with the newest one.
LEMMA WindowWords ==
    ASSUME NEW a \in Nat, NEW c \in Nat, WINDOW_SIZE + a >= c
    PROVE  Word(c) - WORDS < Word(a)
<1> SUFFICES ASSUME Word(a) <= Word(c) - WORDS PROVE FALSE
  BY WordBit, SizesAssumption
<1>1. Word(a) + WORDS <= Word(c)
  BY WordBit, SizesAssumption
<1>2. WORD_BITS * (Word(a) + WORDS) <= WORD_BITS * Word(c)
  BY <1>1, TimesMonotone, WordBit, SizesAssumption
<1>3. WORD_BITS * (Word(a) + WORDS) = WORD_BITS * Word(a) + WORDS * WORD_BITS
  BY WordBit, SizesAssumption
<1>4. WORDS * WORD_BITS \in Int
  BY SizesAssumption
<1> QED
  BY <1>2, <1>3, <1>4, WordBit, SizesAssumption DEF WINDOW_SIZE, BITS_TOTAL

\* A slot is the remainder of its word number.
LEMMA SlotRemainder ==
    ASSUME NEW v \in Nat
    PROVE  /\ Slot(v) \in 0..(WORDS - 1)
           /\ v \div WORDS \in Nat
           /\ v = WORDS * (v \div WORDS) + Slot(v)
  BY SizesAssumption DEF Slot

\* Fewer than WORDS words apart means different slots.
LEMMA SlotInjective ==
    ASSUME NEW v \in Nat, NEW w \in Nat, v < w, w < v + WORDS
    PROVE  Slot(v) /= Slot(w)
<1> SUFFICES ASSUME Slot(v) = Slot(w) PROVE FALSE
  OBVIOUS
<1> DEFINE p == v \div WORDS
           q == w \div WORDS
<1>1. p \in Nat /\ v = WORDS * p + Slot(v)
  BY SlotRemainder
<1>2. q \in Nat /\ w = WORDS * q + Slot(w)
  BY SlotRemainder
<1> HIDE DEF p, q
<1>a. WORDS * (q - p) = WORDS * q - WORDS * p
  BY <1>1, <1>2, SizesAssumption
<1>b. WORDS * q \in Int /\ WORDS * p \in Int /\ Slot(v) \in Int
  BY <1>1, <1>2, SizesAssumption, SlotRemainder
<1>3. WORDS * (q - p) = w - v
  BY <1>1, <1>2, <1>a, <1>b
<1>4. CASE q <= p
  <2>1. WORDS * (q - p) <= 0
    BY <1>1, <1>2, <1>4, SizesAssumption
  <2> QED BY <2>1, <1>3
<1>5. CASE q >= p + 1
  <2>1. WORDS * (q - p) >= WORDS
    BY <1>1, <1>2, <1>5, SizesAssumption
  <2> QED BY <2>1, <1>3, SizesAssumption
<1> QED BY <1>1, <1>2, <1>4, <1>5

\* The WORDS words after any word fill every slot.
LEMMA SlotSurjective ==
    ASSUME NEW v \in Nat, NEW s \in 0..(WORDS - 1)
    PROVE  \E w \in 1..WORDS : Slot(v + w) = s
<1> DEFINE q == v \div WORDS
           r == Slot(v)
<1>1. q \in Nat /\ r \in 0..(WORDS - 1) /\ v = WORDS * q + r
  BY SlotRemainder
<1> HIDE DEF q, r
<1>2. CASE s > r
  <2>1. v + (s - r) = WORDS * q + s
    BY <1>1, SizesAssumption
  <2>2. Slot(v + (s - r)) = s
    BY <2>1, <1>1, SizesAssumption DEF Slot
  <2>3. s - r \in 1..WORDS
    BY <1>1, <1>2, SizesAssumption
  <2> QED BY <2>2, <2>3
<1>3. CASE s <= r
  <2>1. v + (s - r + WORDS) = WORDS * (q + 1) + s
    BY <1>1, SizesAssumption
  <2>2. Slot(v + (s - r + WORDS)) = s
    BY <2>1, <1>1, SizesAssumption DEF Slot
  <2>3. s - r + WORDS \in 1..WORDS
    BY <1>1, <1>3, SizesAssumption
  <2> QED BY <2>2, <2>3
<1> QED BY <1>1, <1>2, <1>3

-----------------------------------------------------------------------------
(* The inductive invariant.                                                *)

\* The words the ring holds: the newest one and the WORDS - 1 before it.
InRing(number, newest) ==
    /\ Word(newest) - WORDS < Word(number)
    /\ Word(number) <= Word(newest)

\* RingRemembersWindow says nothing of the numbers of the newest word that
\* are still to come; the ring must hold no bit for them either.
RingExact ==
    \A number \in Nat :
        InRing(number, replay_counter) =>
            (Bit(number) \in replay_bitmap[Slot(Word(number))]
                <=> number \in accepted)

AcceptedBelow ==
    /\ accepted \subseteq 1..replay_counter
    /\ replay_counter <= REJECT_AFTER_MESSAGES

ReplayInv == TypeOK /\ AcceptedBelow /\ RingExact

\* Below the protocol limit no uint64_t operation of the function wraps.
LEMMA NoWrap ==
    ASSUME NEW seq \in Counters, ~TooLarge(seq)
    PROVE  /\ (seq + 1) % UINT64 = seq + 1
           /\ (WINDOW_SIZE + (seq + 1)) % UINT64 = WINDOW_SIZE + (seq + 1)
           /\ seq + 1 \in Counters /\ seq + 1 \in 1..REJECT_AFTER_MESSAGES
           /\ WINDOW_SIZE \in Nat
<1>1. BITS_TOTAL \in Nat /\ BITS_TOTAL >= WORD_BITS
  BY SizesAssumption DEF BITS_TOTAL
<1>2. WINDOW_SIZE \in Nat /\ WINDOW_SIZE < BITS_TOTAL
  BY <1>1, SizesAssumption DEF WINDOW_SIZE
<1>3. seq + 1 \in 1..REJECT_AFTER_MESSAGES /\ seq \in Nat
  BY LimitAssumption DEF Counters, TooLarge
<1>4. WINDOW_SIZE + (seq + 1) < UINT64
  BY <1>1, <1>2, <1>3, LimitAssumption
<1> QED
  BY <1>2, <1>3, <1>4, LimitAssumption DEF Counters

\* A number that is not behind the window has its word in the ring when its
\* bit is tested.
LEMMA TestedInRing ==
    ASSUME NEW n \in Nat, NEW c \in Nat, WINDOW_SIZE + n >= c
    PROVE  InRing(n, IF n > c THEN n ELSE c)
<1>1. CASE n > c
  BY <1>1, WordBit, SizesAssumption DEF InRing
<1>2. CASE n <= c
  BY <1>2, WindowWords, WordMonotone DEF InRing
<1> QED BY <1>1, <1>2

\* The clearing loop empties the slots of the words the ring moves to and
\* keeps the others: whatever number the ring is advanced to, it still holds
\* exactly the accepted numbers of its words.
LEMMA AdvancedExact ==
    ASSUME ReplayInv, NEW n \in Nat, WINDOW_SIZE + n >= replay_counter,
           NEW newest \in Nat,
           newest = (IF n > replay_counter THEN n ELSE replay_counter),
           NEW m \in Nat, InRing(m, newest)
    PROVE  Bit(m) \in Advanced(n)[Slot(Word(m))] <=> m \in accepted
<1>a. replay_counter \in Nat /\ Word(m) \in Nat
  BY WordBit, LimitAssumption DEF ReplayInv, TypeOK, Counters
<1>b. Slot(Word(m)) \in 0..(WORDS - 1)
  BY <1>a, SlotRemainder
<1>0. replay_counter \in Nat /\ Word(m) \in Nat /\ Slot(Word(m)) \in 0..(WORDS - 1)
  BY <1>a, <1>b
<1>1. CASE ~(n > replay_counter)
  BY <1>0, <1>1 DEF Advanced, ReplayInv, RingExact
<1>2. CASE n > replay_counter
  <2> DEFINE c == Word(replay_counter)
             slots == {Slot(c + w) : w \in 1..WordsToClear(n)}
  <2>1. newest = n /\ Advanced(n) = Cleared(n)
    BY <1>2 DEF Advanced
  <2>2. c \in Nat /\ Word(n) \in Nat /\ c <= Word(n)
    BY <1>0, <1>2, WordBit, WordMonotone
  <2>3. Cleared(n)[Slot(Word(m))] =
            IF Slot(Word(m)) \in slots THEN {} ELSE replay_bitmap[Slot(Word(m))]
    BY <1>0 DEF Cleared
  <2>4. /\ WordsToClear(n) \in 0..WORDS
        /\ WordsToClear(n) <= Word(n) - c
        /\ WordsToClear(n) = WORDS \/ WordsToClear(n) = Word(n) - c
    BY <2>2, SizesAssumption DEF WordsToClear
  <2>5. CASE Word(m) > c
    <3>1. m \notin accepted
      <4>1. ~(m <= replay_counter)
        BY <1>0, <2>2, <2>5, WordMonotone
      <4> QED BY <1>0, <4>1 DEF ReplayInv, AcceptedBelow
    <3>2. Slot(Word(m)) \in slots
      <4>1. CASE WordsToClear(n) = WORDS
        BY <1>0, <2>2, <4>1, SlotSurjective
      <4>2. CASE WordsToClear(n) = Word(n) - c
        <5>1. Word(m) - c \in 1..WordsToClear(n) /\ c + (Word(m) - c) = Word(m)
          BY <1>0, <2>1, <2>2, <2>5, <4>2 DEF InRing
        <5> QED BY <5>1
      <4> QED BY <2>4, <4>1, <4>2
    <3> QED BY <2>1, <2>3, <3>1, <3>2
  <2>6. CASE Word(m) <= c
    <3>1. InRing(m, replay_counter)
      BY <1>0, <2>1, <2>2, <2>6, SizesAssumption DEF InRing
    <3>2. Slot(Word(m)) \notin slots
      <4> SUFFICES ASSUME NEW w \in 1..WordsToClear(n), Slot(c + w) = Slot(Word(m))
                   PROVE  FALSE
        OBVIOUS
      <4>1. c + w \in Nat /\ Word(m) < c + w /\ c + w < Word(m) + WORDS
        BY <1>0, <2>1, <2>2, <2>4, <2>6, SizesAssumption DEF InRing
      <4> QED BY <1>0, <4>1, SlotInjective
    <3> QED BY <2>1, <2>3, <3>1, <3>2 DEF ReplayInv, RingExact
  <2> QED BY <1>0, <2>2, <2>5, <2>6
<1> QED BY <1>1, <1>2


-----------------------------------------------------------------------------
(* Safety.                                                                 *)

\* A fresh keypair satisfies the invariant.
LEMMA InitReplayInv == Init => ReplayInv
<1> SUFFICES ASSUME Init PROVE ReplayInv
  OBVIOUS
<1>1. TypeOK
  BY SizesAssumption, LimitAssumption DEF Init, TypeOK, Counters
<1>2. AcceptedBelow
  BY LimitAssumption DEF Init, AcceptedBelow
<1>3. RingExact
  <2> SUFFICES ASSUME NEW number \in Nat
               PROVE  Bit(number) \notin replay_bitmap[Slot(Word(number))]
    BY DEF RingExact, Init
  <2> QED BY WordBit, SlotRemainder DEF Init
<1> QED BY <1>1, <1>2, <1>3 DEF ReplayInv

\* The conjuncts of ReplayInv after the bit of a number has been tested.
LEMMA TestAndSetReplayInv ==
    ASSUME ReplayInv, NEW seq \in Counters, TestAndSet(seq)
    PROVE  ReplayInv'
<1> DEFINE n == seq + 1
           newest == IF n > replay_counter THEN n ELSE replay_counter
           slot == Slot(Word(n))
<1>1. /\ (seq + 1) % UINT64 = n
      /\ (WINDOW_SIZE + n) % UINT64 = WINDOW_SIZE + n
      /\ n \in Counters /\ n \in 1..REJECT_AFTER_MESSAGES
      /\ WINDOW_SIZE \in Nat
  BY NoWrap DEF TestAndSet
<1>2. WINDOW_SIZE + n >= replay_counter
  BY <1>1, LimitAssumption DEF TestAndSet, TooOld, ReplayInv, TypeOK, Counters
<1>3. n \in Nat /\ newest \in Nat /\ replay_counter \in Nat
  BY <1>1, LimitAssumption DEF ReplayInv, TypeOK, Counters
<1>4. Word(n) \in Nat /\ Bit(n) \in 0..(WORD_BITS - 1)
  BY <1>3, WordBit
<1>5. slot \in 0..(WORDS - 1)
  BY <1>4, SlotRemainder
<1>6. /\ replay_counter' = newest
      /\ replay_bitmap' = [Advanced(n) EXCEPT ![slot] = @ \cup {Bit(n)}]
      /\ accepted' = IF Seen(n) THEN accepted ELSE accepted \cup {n}
      /\ verdict' = [seq |-> seq, ok |-> ~Seen(n)]
  BY <1>1 DEF TestAndSet, Answer
<1>7. Advanced(n) \in [0..(WORDS - 1) -> SUBSET (0..(WORD_BITS - 1))]
  BY DEF Advanced, Cleared, ReplayInv, TypeOK
<1>8. InRing(n, newest)
  BY <1>2, <1>3, TestedInRing
<1>9. Seen(n) <=> n \in accepted
  BY <1>2, <1>3, <1>8, AdvancedExact DEF Seen
<1>10. accepted' = accepted \cup {n}
  BY <1>6, <1>9
<1>11. TypeOK'
  <2>1. replay_counter' \in Counters
    BY <1>1, <1>6 DEF ReplayInv, TypeOK
  <2>2. replay_bitmap' \in [0..(WORDS - 1) -> SUBSET (0..(WORD_BITS - 1))]
    BY <1>4, <1>5, <1>6, <1>7
  <2>3. accepted' \subseteq Counters
    BY <1>1, <1>10 DEF ReplayInv, TypeOK
  <2>4. verdict' \in [seq : Counters, ok : BOOLEAN]
    BY <1>6 DEF Seen
  <2> QED BY <2>1, <2>2, <2>3, <2>4 DEF TypeOK
<1>12. AcceptedBelow'
  <2>1. newest <= REJECT_AFTER_MESSAGES /\ n <= newest /\ replay_counter <= newest
    BY <1>1, <1>3, LimitAssumption DEF ReplayInv, AcceptedBelow
  <2>2. accepted' \subseteq 1..newest
    <3> HIDE DEF newest
    <3> SUFFICES ASSUME NEW x \in accepted' PROVE x \in 1..newest
      OBVIOUS
    <3>1. CASE x = n
      BY <3>1, <1>1, <1>3, <2>1
    <3>2. CASE x \in accepted
      BY <3>2, <1>3, <2>1 DEF ReplayInv, AcceptedBelow
    <3> QED BY <3>1, <3>2, <1>10
  <2> QED BY <1>6, <2>1, <2>2 DEF AcceptedBelow
<1>13. RingExact'
  <2> SUFFICES ASSUME NEW m \in Nat, InRing(m, newest)
               PROVE  Bit(m) \in replay_bitmap'[Slot(Word(m))]
                         <=> m \in accepted'
    BY <1>6 DEF RingExact, InRing
  <2>1. Word(m) \in Nat
    BY WordBit
  <2>2. Slot(Word(m)) \in 0..(WORDS - 1)
    BY <2>1, SlotRemainder
  <2>3. Bit(m) \in Advanced(n)[Slot(Word(m))] <=> m \in accepted
    BY <1>2, <1>3, AdvancedExact
  <2>4. CASE Slot(Word(m)) = slot
    <3>1. Word(m) = Word(n)
      <4>1. Word(newest) \in Nat
        BY <1>3, WordBit
      <4>2. ~(Word(m) < Word(n)) /\ ~(Word(n) < Word(m))
        BY <4>1, <2>4, <2>1, <1>4, <1>8, SlotInjective, SizesAssumption DEF InRing
      <4> QED BY <4>2, <2>1, <1>4
    <3>2. Bit(m) = Bit(n) <=> m = n
      BY <3>1, <1>3, WordBitInjective
    <3>3. replay_bitmap'[slot] = Advanced(n)[slot] \cup {Bit(n)}
      BY <1>5, <1>6, <1>7
    <3> QED BY <2>3, <2>4, <3>2, <3>3, <1>10
  <2>5. CASE Slot(Word(m)) /= slot
    <3>1. replay_bitmap'[Slot(Word(m))] = Advanced(n)[Slot(Word(m))]
      BY <2>2, <2>5, <1>6, <1>7
    <3>2. m /= n
      BY <2>5
    <3> QED BY <2>3, <3>1, <3>2, <1>10
  <2> QED BY <2>4, <2>5
<1> QED BY <1>11, <1>12, <1>13 DEF ReplayInv

\* Every call of wireguard_check_replay preserves the invariant.
LEMMA NextReplayInv == ReplayInv /\ [Next]_vars => ReplayInv'
<1> SUFFICES ASSUME ReplayInv, [Next]_vars PROVE ReplayInv'
  OBVIOUS
<1>1. CASE UNCHANGED vars
  BY <1>1 DEF vars, ReplayInv, TypeOK, AcceptedBelow, RingExact, InRing
<1>2. ASSUME NEW seq \in Counters, RefuseEarly(seq)
      PROVE  ReplayInv'
  BY <1>2 DEF RefuseEarly, Answer, ReplayInv, TypeOK, AcceptedBelow, RingExact,
              InRing
<1>3. ASSUME NEW seq \in Counters, TestAndSet(seq)
      PROVE  ReplayInv'
  BY <1>3, TestAndSetReplayInv
<1> QED BY <1>1, <1>2, <1>3 DEF Next, wireguard_check_replay

\* The inductive invariant holds in every reachable state.
THEOREM ReplayInvariant == Spec => []ReplayInv
  BY InitReplayInv, NextReplayInv, PTL DEF Spec

\* Every counter, bitmap word and history value keeps its type.
THEOREM ReplayTypeCorrect == Spec => []TypeOK
  BY ReplayInvariant, PTL DEF ReplayInv

\* The ring holds exactly the accepted numbers of the window: no bit of an
\* earlier lap survives the clearing loop and no bit of the window is lost.
THEOREM RingCorrect == Spec => []RingRemembersWindow
<1>1. ReplayInv => RingRemembersWindow
  <2> SUFFICES ASSUME ReplayInv, NEW number \in 1..replay_counter,
                      number + WINDOW_SIZE >= replay_counter
               PROVE  Bit(number) \in replay_bitmap[Slot(Word(number))]
                         <=> number \in accepted
    BY DEF RingRemembersWindow
  <2>1. number \in Nat /\ replay_counter \in Nat /\ number <= replay_counter
    BY LimitAssumption DEF ReplayInv, TypeOK, Counters
  <2>2. WINDOW_SIZE \in Int
    BY SizesAssumption DEF WINDOW_SIZE, BITS_TOTAL
  <2>3. InRing(number, replay_counter)
    BY <2>1, <2>2, WindowWords, WordMonotone DEF InRing
  <2> QED BY <2>1, <2>3 DEF ReplayInv, RingExact
<1> QED BY <1>1, ReplayInvariant, PTL

\* The answer for a counter below the limit, in terms of what was accepted.
LEMMA AcceptsMeaning ==
    ASSUME ReplayInv, NEW seq \in Counters
    PROVE  Accepts(seq) <=> /\ seq < REJECT_AFTER_MESSAGES
                            /\ seq + 1 + WINDOW_SIZE >= replay_counter
                            /\ seq + 1 \notin accepted
<1>0. /\ seq \in Nat /\ REJECT_AFTER_MESSAGES \in Nat /\ replay_counter \in Nat
      /\ WINDOW_SIZE \in Int
  BY LimitAssumption, SizesAssumption
     DEF Counters, ReplayInv, TypeOK, WINDOW_SIZE, BITS_TOTAL
<1>1. CASE TooLarge(seq)
  BY <1>0, <1>1 DEF Accepts, TooLarge
<1>2. CASE ~TooLarge(seq)
  <2> DEFINE n == seq + 1
             newest == IF n > replay_counter THEN n ELSE replay_counter
  <2>1. /\ (seq + 1) % UINT64 = n
        /\ (WINDOW_SIZE + n) % UINT64 = WINDOW_SIZE + n
    BY <1>2, NoWrap
  <2>2. Accepts(seq) <=> WINDOW_SIZE + n >= replay_counter /\ ~Seen(n)
    BY <2>1, <1>0, <1>2 DEF Accepts, TooOld
  <2>3. ASSUME WINDOW_SIZE + n >= replay_counter
        PROVE  Seen(n) <=> n \in accepted
    <3>1. InRing(n, newest)
      BY <1>0, <2>3, TestedInRing
    <3> QED BY <1>0, <2>3, <3>1, AdvancedExact DEF Seen
  <2> QED BY <1>0, <1>2, <2>2, <2>3 DEF TooLarge
<1> QED BY <1>1, <1>2

\* A counter that was accepted once is refused for ever.
THEOREM NoReplayHolds == Spec => []NoReplay
<1>1. ReplayInv => NoReplay
  BY AcceptsMeaning DEF NoReplay
<1> QED BY <1>1, ReplayInvariant, PTL

\* The ring, its words and its modular arithmetic implement the set-based
\* contract, refusals included.
THEOREM RingImplementsContract == Spec => ImplementsContract
<1>1. Init => Contract!SpecInit
  BY DEF Init, Contract!SpecInit
<1>2. ReplayInv /\ [Next]_vars => [Contract!SpecNext]_(Contract!specVars)
  <2> SUFFICES ASSUME ReplayInv, [Next]_vars
               PROVE  Contract!SpecNext \/ UNCHANGED Contract!specVars
    OBVIOUS
  <2>1. CASE UNCHANGED vars
    BY <2>1 DEF vars, Contract!specVars
  <2>2. ASSUME NEW seq \in Counters, RefuseEarly(seq)
        PROVE  Contract!Refuse(seq)
    <3>1. ~Accepts(seq)
      BY <2>2 DEF RefuseEarly, Accepts
    <3>2. ~Contract!Admissible(seq)
      BY <3>1, AcceptsMeaning DEF Contract!Admissible
    <3> QED BY <2>2, <3>2 DEF RefuseEarly, Answer, Contract!Refuse
  <2>3. ASSUME NEW seq \in Counters, TestAndSet(seq)
        PROVE  Contract!Admit(seq) \/ Contract!Refuse(seq)
    <3> DEFINE n == seq + 1
    <3>1. (seq + 1) % UINT64 = n
      BY <2>3, NoWrap DEF TestAndSet
    <3>2. Accepts(seq) <=> ~Seen(n)
      BY <2>3, <3>1 DEF TestAndSet, Accepts
    <3>3. Contract!Admissible(seq) <=> ~Seen(n)
      BY <3>2, AcceptsMeaning DEF Contract!Admissible
    <3>4. CASE ~Seen(n)
      BY <2>3, <3>1, <3>3, <3>4 DEF TestAndSet, Answer, Contract!Admit
    <3>5. CASE Seen(n)
      <4>1. replay_counter' = replay_counter /\ accepted' = accepted
            /\ verdict' = [seq |-> seq, ok |-> FALSE]
        <5>1. n \in accepted
          <6>1. /\ (WINDOW_SIZE + n) % UINT64 = WINDOW_SIZE + n
                /\ WINDOW_SIZE \in Nat /\ n \in Nat
            BY <2>3, NoWrap DEF TestAndSet
          <6>2. WINDOW_SIZE + n >= replay_counter
            BY <2>3, <3>1, <6>1, LimitAssumption
               DEF TestAndSet, TooOld, ReplayInv, TypeOK, Counters
          <6>3. seq < REJECT_AFTER_MESSAGES
            BY <2>3, LimitAssumption DEF TestAndSet, TooLarge, Counters
          <6> QED BY <3>2, <3>5, <6>1, <6>2, <6>3, AcceptsMeaning
        <5>2. ~(n > replay_counter)
          BY <5>1, LimitAssumption DEF ReplayInv, AcceptedBelow, TypeOK, Counters
        <5> QED BY <2>3, <3>1, <3>5, <5>2 DEF TestAndSet, Answer
      <4> QED BY <3>3, <3>5, <4>1 DEF Contract!Refuse
    <3> QED BY <3>4, <3>5
  <2> QED BY <2>1, <2>2, <2>3 DEF Next, wireguard_check_replay, Contract!SpecNext
<1> QED BY <1>1, <1>2, ReplayInvariant, PTL
        DEF Spec, ImplementsContract, Contract!ReplayContract
=============================================================================
