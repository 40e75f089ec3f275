----------------------------- MODULE MCFallback -----------------------------
(* A small instance of Fallback for TLC: two players, one card, one bet;   *)
(* the chain starts when the table is locked or when a decision is due.    *)
EXTENDS Fallback

CONSTANTS k1, k2, h1, e1

Common(type, seat) ==
    [action_type |-> type, game_id |-> Game, round_number |-> 0, acting_player_seat |-> seat]
Seated(type, field, values) == [i \in 1 .. 2 |-> Common(type, i - 1) @@ (field :> values[i])]
Card == Common("CardReveal", 0) @@ ("card" :> 0)

ToLock ==
    [i \in 1 .. 2 |-> Seated("Join", "player_pubkey", <<k1, k2>>)[i] @@ ("stake_amount" :> StakeAmount)]
      \o <<Common("TableLock", 0)>>
ToDecision ==
    ToLock \o Seated("EntropyCommit", "commitment_hash", <<h1, h1>>)
      \o Seated("EntropyReveal", "entropy", <<e1, e1>>) \o <<Card, Card>>

Played(actions) == [i \in DOMAIN actions |-> [action |-> actions[i], height |-> 1]]

MCOpenings == {Played(ToLock), Played(ToDecision)}
=============================================================================
