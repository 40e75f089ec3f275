------------------------------ MODULE Session ------------------------------
(***************************************************************************)
(* The relay's session, internal/session/session.go: one table of Engine   *)
(* behind a lock, with what the pure engine leaves out: a nonce is used    *)
(* once, reveals are checked against commitments, the deck is fixed when   *)
(* the last entropy is opened, and every accepted action is recorded.      *)
(*                                                                         *)
(* Submit holds the session's mutex throughout, so it is one step; a       *)
(* rejected call returns the state unchanged and is no step at all.        *)
(*                                                                         *)
(* Hashes are assumed collision-free: a commitment is the pair it was made *)
(* from, and the combined entropy is the list it digests.                  *)
(***************************************************************************)
EXTENDS Engine, Replay

CONSTANTS
    PlayerId,        \* a key's player id: the key without its sign byte
    Malformed,       \* hashes, entropies and keys that do not decode
    Shuffle,         \* the deck each combined entropy shuffles to
    MaxActions       \* bound on the transcript

ASSUME SessionAssumption ==
    /\ Null \notin Entropies
    /\ Null \notin Hashes
    /\ MaxActions \in Nat

VARIABLES
    combined,        \* state.CombinedEntropy, Null before S5
    seenNonces,
    transcript       \* accepted actions, each with its nonce and height

sessionVars == <<st, combined, seenNonces, transcript>>

-----------------------------------------------------------------------------
(* Cryptographic checks and the deck. *)

CommitEntropy(entropy, key) == <<entropy, PlayerId[key]>>

OpensCommitment(a) ==
    \E i \in DOMAIN st.players :
        /\ st.players[i].seat = a.acting_player_seat
        /\ st.players[i].commitment = CommitEntropy(a.entropy, st.players[i].pubkey)
        /\ {a.entropy, st.players[i].pubkey} \cap Malformed = {}

(* A reveal proof opens one position of the committed deck.  The deck has  *)
(* no card twice, so the card determines the position.                     *)
InDeck(a) == combined # Null /\ a.card \in Range(Shuffle[combined])

(* Fault: reveals are taken on trust. *)
verifyCryptoShape(a) ==
    /\ a.action_type = "EntropyCommit" => a.commitment_hash \notin Malformed
    /\ a.action_type = "CardReveal" => InDeck(a)

(* Fault: any card may be shown once there is a deck. *)
verifyCryptoAnyCard(a) ==
    /\ a.action_type = "EntropyCommit" => a.commitment_hash \notin Malformed
    /\ a.action_type = "EntropyReveal" => OpensCommitment(a)
    /\ a.action_type = "CardReveal" => combined # Null

verifyCrypto(a) ==
    /\ a.action_type = "EntropyCommit" => a.commitment_hash \notin Malformed
    /\ a.action_type = "EntropyReveal" => OpensCommitment(a)
    /\ a.action_type = "CardReveal" => InDeck(a)

(* Fault: the entropies are combined in the order of joining. *)
CombineAsJoined(players) == [i \in DOMAIN players |-> players[i].entropy]

(* The insertion sort's result: who comes when in ascending seat order. *)
SeatOrder(players) ==
    CHOOSE order \in Bijection(DOMAIN players, DOMAIN players) :
        \A i, j \in DOMAIN players :
            i < j => players[order[i]].seat <= players[order[j]].seat

CombineEntropy(players) ==
    [i \in DOMAIN players |-> players[SeatOrder(players)[i]].entropy]

(* materialiseDeckCommitment runs on the step from S4 to S5 only. *)
Materialise(s, t) ==
    IF /\ s.state_class = "S4_ENTROPY_REVEAL_WINDOW"
       /\ t.state_class = "S5_DECK_COMMITTED"
       /\ combined = Null
    THEN CombineEntropy(t.players)
    ELSE combined

-----------------------------------------------------------------------------
SessionInit ==
    /\ Init
    /\ combined = Null
    /\ seenNonces = {}
    /\ transcript = << >>

(* Nonces are only compared: a fresh one is as good as any other. *)
Nonces == 1 .. Cardinality(seenNonces) + 1

(* Fault: a nonce is not remembered. *)
RememberNothing(nonce) == UNCHANGED seenNonces

Remember(nonce) == seenNonces' = seenNonces \cup {nonce}

Record(a, nonce, height) ==
    transcript' = Append(transcript, [action |-> a, nonce |-> nonce, height |-> height])

(* Fault: the class's list of actions is taken for the engine's verdict. *)
SubmitByList(a, nonce, height) ==
    /\ nonce \notin seenNonces
    /\ verifyCrypto(a)
    /\ Binds(st, a)
    /\ st' = Successor(st, a)
    /\ combined' = Materialise(st, Successor(st, a))
    /\ Remember(nonce)
    /\ Record(a, nonce, height)

Submit(a, nonce, height) ==
    /\ nonce \notin seenNonces
    /\ verifyCrypto(a)
    /\ Accepts(st, a, height)
    /\ st' = Successor(st, a)
    /\ combined' = Materialise(st, Successor(st, a))
    /\ Remember(nonce)
    /\ Record(a, nonce, height)

SessionNext ==
    \E a \in AllActions, nonce \in Nonces, height \in Heights :
        Len(transcript) < MaxActions /\ Submit(a, nonce, height)

SessionSpec == SessionInit /\ [][SessionNext]_sessionVars

(* Session.Replay folds the transcript through the bare engine, from a     *)
(* fresh state.  No handler of the engine writes CombinedEntropy, so what  *)
(* Replay returns never has one.                                           *)
Replayed == ReplayFrom(initialState, transcript)

-----------------------------------------------------------------------------
(* Properties. *)

(* No two accepted actions carry the same nonce: a resent action, or two   *)
(* clients that count their nonces from the same start, change the table   *)
(* once.                                                                   *)
NonceAcceptedOnce ==
    \A i, j \in DOMAIN transcript :
        transcript[i].nonce = transcript[j].nonce => i = j

(* Every opened entropy is the one its seat committed to, under its own    *)
(* key: a player cannot choose its entropy after seeing the others', nor   *)
(* open the copy of another player's commitment.                           *)
RevealsOpenCommitments ==
    \A i \in DOMAIN st.players :
        st.players[i].revealed =>
            st.players[i].commitment
              = CommitEntropy(st.players[i].entropy, st.players[i].pubkey)

(* The deck's seed depends on who sits where and not on the order of       *)
(* joining, committing or revealing: an entropy's place is the number of   *)
(* lower seats.                                                            *)
SeedIsBySeat ==
    combined # Null =>
        /\ Len(combined) = Len(st.players)
        /\ \A i \in DOMAIN st.players :
              combined[1 + Cardinality({x \in Seats(st) : x < st.players[i].seat})]
                = st.players[i].entropy

(* Every open card comes from the deck the players' entropies fixed, and   *)
(* no card is open before that deck is.                                    *)
OpenCardsFromDeck ==
    st.visible_cards # << >> =>
        combined # Null /\ Range(st.visible_cards) \subseteq Range(Shuffle[combined])

(* The session takes only steps of Engine: all the engine's properties     *)
(* hold of it.                                                             *)
RefinesEngine == Spec
=============================================================================
