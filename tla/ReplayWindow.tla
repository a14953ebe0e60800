---------------------------- MODULE ReplayWindow ----------------------------
(***************************************************************************)
(* wireguard_check_replay as patches/wireguard-lwip-replay-window.patch    *)
(* rewrites it: a ring of WORDS words of WORD_BITS bits, the largest       *)
(* number seen (replay_counter), and the clearing of the words the ring    *)
(* moves over when a larger number arrives.  A word is the set of its set  *)
(* bits.  One keypair; counters arrive in any order and any number of      *)
(* times, as the network delivers them.                                    *)
(***************************************************************************)
EXTENDS Integers

CONSTANTS
    WORD_BITS,               \* WIREGUARD_REPLAY_WORD_BITS (32)
    WORDS,                   \* WIREGUARD_REPLAY_WORDS (256)
    REJECT_AFTER_MESSAGES,   \* protocol limit on a counter
    UINT64                   \* the modulus of uint64_t arithmetic

BITS_TOTAL == WORDS * WORD_BITS

WINDOW_SIZE == BITS_TOTAL - WORD_BITS

ASSUME SizesAssumption == WORD_BITS \in Nat \ {0} /\ WORDS \in Nat \ {0}

\* The masks "& (WORDS - 1)" and "& (WORD_BITS - 1)" are remainders only
\* because both sizes are powers of two.
ASSUME MasksAssumption ==
    /\ \E k \in 0..WORDS : WORDS = 2^k
    /\ \E k \in 0..WORD_BITS : WORD_BITS = 2^k

\* The protocol limit leaves room for the window below 2^64.
ASSUME LimitAssumption ==
    /\ REJECT_AFTER_MESSAGES \in Nat /\ UINT64 \in Nat \ {0}
    /\ REJECT_AFTER_MESSAGES + BITS_TOTAL < UINT64

VARIABLES
    replay_counter,
    replay_bitmap,
    accepted,     \* history: the numbers wireguard_check_replay said yes to
    verdict       \* history: the last call and its result

vars == <<replay_counter, replay_bitmap, accepted, verdict>>

Counters == 0..(UINT64 - 1)

Word(number) == number \div WORD_BITS

Bit(number) == number % WORD_BITS

Slot(word) == word % WORDS

\* The counter is a uint64_t and a bitmap word holds WORD_BITS bits.
TypeOK ==
    /\ replay_counter \in Counters
    /\ replay_bitmap \in [0..(WORDS - 1) -> SUBSET (0..(WORD_BITS - 1))]
    /\ accepted \subseteq Counters
    /\ verdict \in [seq : Counters, ok : BOOLEAN]

\* wireguard_start_session: a fresh keypair has an all-zero window.
Init ==
    /\ replay_counter = 0
    /\ replay_bitmap = [s \in 0..(WORDS - 1) |-> {}]
    /\ accepted = {}
    /\ verdict = [seq |-> 0, ok |-> FALSE]

-----------------------------------------------------------------------------
\* The early returns: a counter beyond the limit, a number behind the window.
TooLarge(seq) == seq >= REJECT_AFTER_MESSAGES

\* Mutant of TooOld: refuses the last number of the window.
TooOldByOne(number) ==
    (WINDOW_SIZE + number) % UINT64 <= replay_counter

TooOld(number) == (WINDOW_SIZE + number) % UINT64 < replay_counter

\* Mutant of WordsToClear: leaves the word of the new number as it was.
WordsToClearTooFew(number) ==
    LET moved == Word(number) - Word(replay_counter)
    IN  IF moved > WORDS THEN WORDS ELSE moved - 1

\* How many words the ring moves over, at most all of them.
WordsToClear(number) ==
    LET moved == Word(number) - Word(replay_counter)
    IN  IF moved > WORDS THEN WORDS ELSE moved

\* The bitmap after the clearing loop, when number is the new largest.
Cleared(number) ==
    LET slots == {Slot(Word(replay_counter) + w) : w \in 1..WordsToClear(number)}
    IN  [s \in 0..(WORDS - 1) |-> IF s \in slots THEN {} ELSE replay_bitmap[s]]

\* The state of the ring when the bit is tested.
Advanced(number) ==
    IF number > replay_counter THEN Cleared(number) ELSE replay_bitmap

Seen(number) == Bit(number) \in Advanced(number)[Slot(Word(number))]

\* The function's answer for a counter.
Accepts(seq) ==
    LET number == (seq + 1) % UINT64
    IN  ~TooLarge(seq) /\ ~TooOld(number) /\ ~Seen(number)

Answer(seq, ok) == verdict' = [seq |-> seq, ok |-> ok]

\* Both early returns leave the keypair alone.
RefuseEarly(seq) ==
    /\ TooLarge(seq) \/ TooOld((seq + 1) % UINT64)
    /\ Answer(seq, FALSE)
    /\ UNCHANGED <<replay_counter, replay_bitmap, accepted>>

\* The rest of the function: advance the ring, test the bit, set it.
TestAndSet(seq) ==
    LET number == (seq + 1) % UINT64
        ring   == Advanced(number)
    IN  /\ ~TooLarge(seq) /\ ~TooOld(number)
        /\ replay_counter' = IF number > replay_counter THEN number
                                                        ELSE replay_counter
        /\ replay_bitmap' = [ring EXCEPT ![Slot(Word(number))] =
                                 @ \cup {Bit(number)}]
        /\ accepted' = IF Seen(number) THEN accepted ELSE accepted \cup {number}
        /\ Answer(seq, ~Seen(number))

wireguard_check_replay(seq) == RefuseEarly(seq) \/ TestAndSet(seq)

Next == \E seq \in Counters : wireguard_check_replay(seq)

Spec == Init /\ [][Next]_vars

-----------------------------------------------------------------------------
\* The bits of the ring say exactly which numbers of the window were
\* accepted: a bit left behind by an older lap of the ring would make
\* wireguard_check_replay drop a fresh packet, a bit lost by the clearing
\* loop would make it admit a packet twice.
RingRemembersWindow ==
    \A number \in 1..replay_counter :
        number + WINDOW_SIZE >= replay_counter =>
            (Bit(number) \in replay_bitmap[Slot(Word(number))]
                <=> number \in accepted)

\* A packet number that wireguard_check_replay accepted once is refused from
\* then on, however far the window has moved in between.
NoReplay ==
    \A seq \in Counters : seq + 1 \in accepted => ~Accepts(seq)

\* README.md promises "an 8,192-packet replay window for traffic reordered
\* under streaming load": a fresh packet at most BITS_TOTAL - 1 behind the
\* newest is accepted.
FullWindowIsUsable ==
    \A seq \in 0..(REJECT_AFTER_MESSAGES - 1) :
        (seq + 1 \notin accepted /\ replay_counter < seq + 1 + BITS_TOTAL)
            => Accepts(seq)

\* The ring implements the set-based contract: it refuses a packet only for
\* a reason the contract names.
Contract == INSTANCE ReplaySpec WITH
    Window <- WINDOW_SIZE, Limit <- REJECT_AFTER_MESSAGES,
    newest <- replay_counter, admitted <- accepted

ImplementsContract == Contract!ReplayContract
=============================================================================
