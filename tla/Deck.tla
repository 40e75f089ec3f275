-------------------------------- MODULE Deck --------------------------------
(***************************************************************************)
(* The deck of packages/crypto-cards: the Fisher-Yates shuffle with        *)
(* rejection sampling (shuffle.ts), the commitment to every position       *)
(* (deck.ts) and the reveals that open them, honest or not, as the         *)
(* deck-simulator makes them.                                              *)
(*                                                                         *)
(* The words of the generator are inputs: SHA-256 in counter mode may      *)
(* yield any word next.  Hashes are ideal: the hash of a tuple is the      *)
(* tuple.  The deck is indexed from 0, as in the code.                     *)
(***************************************************************************)
EXTENDS Integers, Sequences, FiniteSets

CONSTANTS DeckSize,     \* 52 or 54 in the code
          WordRange     \* the number of words, 2^32 in the code

ASSUME DeckAssumption ==
    /\ DeckSize \in Nat \ {0}
    /\ WordRange \in Nat
    /\ WordRange >= DeckSize

VARIABLES pc,           \* "shuffle", "commit" or "open"
          deck, i,      \* the deck and the position the loop is at
          perPosition,  \* the commitments made so far
          opened        \* position and ordinal of the reveals that verified

dvars == <<pc, deck, i, perPosition, opened>>

Positions == 0 .. DeckSize - 1
Words == 0 .. WordRange - 1

-----------------------------------------------------------------------------
(* Fault: every word is taken, so that small remainders come up more often. *)
limitNone(max) == WordRange

limit(max) == (WordRange \div (max + 1)) * (max + 1)

drawUniform(max, word) == word % (max + 1)

(* Fault: the card at j is copied, not exchanged. *)
SwapHalf(d, a, b) == [d EXCEPT ![a] = d[b]]

Swap(d, a, b) == [d EXCEPT ![a] = d[b], ![b] = d[a]]

deriveDeckNonce == <<"deck-nonce">>
deriveCardNonce(position) == <<"card-nonce", position>>
commitCard(ordinal, cardNonce, deckNonce) == <<ordinal, cardNonce, deckNonce>>

(* Fault: the proof's ordinal is not hashed. *)
verifyNonces(expected, proof) ==
    expected[2] = proof.cardNonce /\ expected[3] = proof.deckNonce

verifyRevealProof(expected, proof) ==
    commitCard(proof.ordinal, proof.cardNonce, proof.deckNonce) = expected

-----------------------------------------------------------------------------
DeckInit ==
    /\ pc = "shuffle"
    /\ deck = [k \in Positions |-> k]
    /\ i = DeckSize - 1
    /\ perPosition = << >>
    /\ opened = {}

(* One turn of the loop that draws a word: above the limit it is rejected  *)
(* and the next one is drawn.                                              *)
DrawRejected(word) ==
    /\ pc = "shuffle" /\ i >= 1
    /\ word >= limit(i)
    /\ UNCHANGED dvars

(* Fault: the loop goes down by two. *)
DrawAcceptedSkips(word) ==
    /\ pc = "shuffle" /\ i >= 1
    /\ word < limit(i)
    /\ deck' = Swap(deck, i, drawUniform(i, word))
    /\ i' = IF i = 1 THEN 0 ELSE i - 2
    /\ UNCHANGED <<pc, perPosition, opened>>

DrawAccepted(word) ==
    /\ pc = "shuffle" /\ i >= 1
    /\ word < limit(i)
    /\ deck' = Swap(deck, i, drawUniform(i, word))
    /\ i' = i - 1
    /\ UNCHANGED <<pc, perPosition, opened>>

ShuffleDone ==
    /\ pc = "shuffle" /\ i = 0
    /\ pc' = "commit"
    /\ UNCHANGED <<deck, i, perPosition, opened>>

Commit ==
    /\ pc = "commit" /\ Len(perPosition) < DeckSize
    /\ perPosition' = Append(perPosition,
           [position |-> Len(perPosition), ordinal |-> deck[Len(perPosition)],
            commitment |-> commitCard(deck[Len(perPosition)],
                                      deriveCardNonce(Len(perPosition)), deriveDeckNonce)])
    /\ UNCHANGED <<pc, deck, i, opened>>

CommitDone ==
    /\ pc = "commit" /\ Len(perPosition) = DeckSize
    /\ pc' = "open"
    /\ UNCHANGED <<deck, i, perPosition, opened>>

(* A reveal of any ordinal at any position, with the nonces of any         *)
(* position: honestReveal and forgeReveal are two of them.                 *)
Reveal(position, ordinal, nonceOf) ==
    /\ pc = "open"
    /\ verifyRevealProof(perPosition[position + 1].commitment,
           [ordinal |-> ordinal, cardNonce |-> deriveCardNonce(nonceOf),
            deckNonce |-> deriveDeckNonce])
    /\ opened' = opened \cup {<<position, ordinal>>}
    /\ UNCHANGED <<pc, deck, i, perPosition>>

DeckNext ==
    \/ \E word \in Words : DrawRejected(word)
    \/ \E word \in Words : DrawAccepted(word)
    \/ ShuffleDone
    \/ Commit
    \/ CommitDone
    \/ \E position, ordinal, nonceOf \in Positions : Reveal(position, ordinal, nonceOf)

DeckSpec == DeckInit /\ [][DeckNext]_dvars

-----------------------------------------------------------------------------
Injective(d) == \A a, b \in Positions : d[a] = d[b] => a = b

(* Shuffling loses no card and makes none: at every turn of the loop the   *)
(* deck is a permutation of the canonical one.                             *)
IsPermutation ==
    /\ pc \in {"shuffle", "commit", "open"}
    /\ deck \in [Positions -> Positions]
    /\ i \in Positions
    /\ Injective(deck)

(* drawUniform: the words that are not rejected fall on every position     *)
(* equally often, and there are such words.                                *)
DrawIsUnbiased ==
    LET accepted == {w \in Words : w < limit(i)}
        Hits(j) == Cardinality({w \in accepted : drawUniform(i, w) = j})
        share == Hits(0)
    IN  share > 0 /\ \A j \in 1 .. i : Hits(j) = share

(* verifyRevealProof: whoever reveals, and with whatever nonces, a         *)
(* position opens to one card only and a card at one position only.        *)
RevealsAreBinding ==
    \A r, s \in opened : r[1] = s[1] <=> r[2] = s[2]

(* The shuffle as a fair deal: the positions behind i are the cards drawn, *)
(* the last one first, and those up to i are still in the urn.             *)
FixedFrom == IF pc = "shuffle" THEN i + 1 ELSE 0
Deal == INSTANCE Urn WITH
            Cards <- Positions,
            urn <- {deck[k] : k \in 0 .. FixedFrom - 1},
            drawn <- [n \in 1 .. DeckSize - FixedFrom |-> deck[DeckSize - n]]

(* shuffleCanonicalDeck draws the cards without replacement. *)
ImplementsUrn == Deal!Spec
=============================================================================
