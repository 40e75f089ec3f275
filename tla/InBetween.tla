----------------------------- MODULE InBetween -----------------------------
(***************************************************************************)
(* The settlement arithmetic of an In-Between round, penalties.ts and      *)
(* pot.ts of packages/state-engine: the classification of three visible    *)
(* cards and the value it moves between the acting player and the pot.     *)
(*                                                                         *)
(* A card is its ordinal.  Amounts are integers; MaxSafe stands for        *)
(* Number.MAX_SAFE_INTEGER, past which the code throws.                    *)
(***************************************************************************)
EXTENDS Integers, Sequences

CONSTANTS WinMultiplier, LossMultiplier,          \* rules.in_between_*
          ConsecutivePenalty, EqualPenalty,       \* rules.*_cards_penalty
          MaxSafe                                 \* Number.MAX_SAFE_INTEGER

ASSUME RulesAssumption ==
    /\ WinMultiplier \in Nat
    /\ LossMultiplier \in Nat
    /\ ConsecutivePenalty \in Nat
    /\ EqualPenalty \in Nat
    /\ MaxSafe \in Nat

IsSafeInteger(n) == n \in -MaxSafe .. MaxSafe

(* The range asSatoshis accepts. *)
Satoshis == 0 .. MaxSafe

Outcomes == {"win", "loss", "consecutive_penalty", "equal_penalty"}

Rank(ordinal) == ordinal % 13

(* c lies strictly between a and b, whichever of the two is the lower. *)
StrictlyBetween(c, a, b) == (a < c /\ c < b) \/ (b < c /\ c < a)

(* The penalties are decided by the first two cards alone. *)
classifyInBetweenRound(cards) ==
    LET a == Rank(cards[1])
        b == Rank(cards[2])
        c == Rank(cards[3])
    IN  CASE a = b                                 -> "equal_penalty"
          [] a # b /\ a - b \in {-1, 1}            -> "consecutive_penalty"
          [] a # b /\ a - b \notin {-1, 1}
             /\ StrictlyBetween(c, a, b)           -> "win"
          [] OTHER                                 -> "loss"

(* What the acting player gains (negative: pays); the pot moves by the     *)
(* opposite amount.                                                        *)
playerDelta(outcome, bet) ==
    CASE outcome = "win"                 -> bet * WinMultiplier
      [] outcome = "loss"                -> -(bet * LossMultiplier)
      [] outcome = "consecutive_penalty" -> -ConsecutivePenalty
      [] outcome = "equal_penalty"       -> -EqualPenalty

potDelta(outcome, bet) ==
    CASE outcome = "win"                 -> -(bet * WinMultiplier)
      [] outcome = "loss"                -> bet * LossMultiplier
      [] outcome = "consecutive_penalty" -> ConsecutivePenalty
      [] outcome = "equal_penalty"       -> EqualPenalty
=============================================================================
