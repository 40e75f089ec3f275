------------------------------- MODULE Engine -------------------------------
(***************************************************************************)
(* A table driven through applyAction: the state machine whose steps are   *)
(* the actions the engine accepts.  EngineOps holds the handlers; here     *)
(* they act on st, the RoundState a caller keeps.  Every field of an       *)
(* action, and the block height it is evaluated at, is an input: the       *)
(* engine has no clock and does not know who sent what.                    *)
(***************************************************************************)
EXTENDS EngineOps

CONSTANTS SeatArgs,             \* acting_player_seat of actions, Null included
          RoundArgs,            \* round_number of actions
          StakeArgs, BetArgs,   \* stake_amount, bet_amount
          Deals,                \* concealed_cards of DealConcealed
          Heights,              \* currentHeight
          DecisionDeadlines     \* deadlines a caller may stamp on a state; the
                                \* shipped relay and client stamp none

ASSUME InputAssumption ==
    /\ SeatArgs \subseteq Nat \cup {Null}
    /\ BetArgs \subseteq Nat
    /\ Deals \subseteq Seq(ConcealedCards)
    /\ Heights \subseteq Nat
    /\ DecisionDeadlines \subseteq Nat

VARIABLE st

Plain(type) ==
    [action_type : {type}, game_id : Games, round_number : RoundArgs,
     acting_player_seat : SeatArgs]

JoinActions ==
    [action_type : {"Join"}, game_id : Games, round_number : RoundArgs,
     acting_player_seat : SeatArgs, player_pubkey : Pubkeys, stake_amount : StakeArgs]

EntropyCommitActions ==
    [action_type : {"EntropyCommit"}, game_id : Games, round_number : RoundArgs,
     acting_player_seat : SeatArgs, commitment_hash : Hashes]

EntropyRevealActions ==
    [action_type : {"EntropyReveal"}, game_id : Games, round_number : RoundArgs,
     acting_player_seat : SeatArgs, entropy : Entropies]

CardRevealActions ==
    [action_type : {"CardReveal"}, game_id : Games, round_number : RoundArgs,
     acting_player_seat : SeatArgs, card : Ordinals]

DealConcealedActions ==
    [action_type : {"DealConcealed"}, game_id : Games, round_number : RoundArgs,
     acting_player_seat : SeatArgs, concealed_cards : Deals]

BetActions ==
    [action_type : {"BetAction"}, game_id : Games, round_number : RoundArgs,
     acting_player_seat : SeatArgs, bet_amount : BetArgs]

AllActions ==
    UNION {JoinActions, EntropyCommitActions, EntropyRevealActions, CardRevealActions,
           DealConcealedActions, BetActions,
           UNION {Plain(type) : type \in {"TableLock", "Pass", "Fold", "Settle",
                                          "RotateTurn", "TableClose", "Timeout", "Recovery"}}}

-----------------------------------------------------------------------------
Init == st = initialState

Join(a) == Binds(st, a) /\ CanJoin(st, a) /\ st' = applyJoin(st, a)

TableLock(a) == Binds(st, a) /\ CanTableLock(st) /\ st' = applyTableLock(st)

EntropyCommit(a) ==
    Binds(st, a) /\ CanEntropyCommit(st, a) /\ st' = applyEntropyCommit(st, a)

EntropyReveal(a) ==
    Binds(st, a) /\ CanEntropyReveal(st, a) /\ st' = applyEntropyReveal(st, a)

CardReveal(a) == Binds(st, a) /\ CanCardReveal(st) /\ st' = applyCardReveal(st, a)

DealConcealed(a) ==
    Binds(st, a) /\ CanDealConcealed(st, a) /\ st' = applyDealConcealed(st, a)

Bet(a) == Binds(st, a) /\ CanBet(st, a) /\ st' = applyBet(st, a)

Pass(a) == Binds(st, a) /\ CanPass(st) /\ st' = applyPass(st)

Fold(a) == Binds(st, a) /\ CanFold(st, a) /\ st' = applyFold(st, a)

Settle(a) == Binds(st, a) /\ CanSettle(st) /\ st' = applySettle(st)

RotateTurn(a) == Binds(st, a) /\ CanRotateTurn(st) /\ st' = applyRotateTurn(st)

TableClose(a) == Binds(st, a) /\ CanTableClose(st) /\ st' = applyTableClose(st)

Timeout(a, height) == Binds(st, a) /\ CanTimeout(st, height) /\ st' = applyTimeout(st)

Recovery(a, height) == Binds(st, a) /\ CanRecovery(st, height) /\ st' = applyRecovery(st)

(* A caller may stamp a decision deadline on the state it passes in, as    *)
(* the engine's tests do; no handler does.                                 *)
StampDeadline(d) ==
    /\ st.state_class = "S8_BET_DECISION"
    /\ st.decision_deadline = Null
    /\ st' = [st EXCEPT !.decision_deadline = d]

Next ==
    \/ \E a \in JoinActions : Join(a)
    \/ \E a \in Plain("TableLock") : TableLock(a)
    \/ \E a \in EntropyCommitActions : EntropyCommit(a)
    \/ \E a \in EntropyRevealActions : EntropyReveal(a)
    \/ \E a \in CardRevealActions : CardReveal(a)
    \/ \E a \in DealConcealedActions : DealConcealed(a)
    \/ \E a \in BetActions : Bet(a)
    \/ \E a \in Plain("Pass") : Pass(a)
    \/ \E a \in Plain("Fold") : Fold(a)
    \/ \E a \in Plain("Settle") : Settle(a)
    \/ \E a \in Plain("RotateTurn") : RotateTurn(a)
    \/ \E a \in Plain("TableClose") : TableClose(a)
    \/ \E a \in Plain("Timeout"), height \in Heights : Timeout(a, height)
    \/ \E a \in Plain("Recovery"), height \in Heights : Recovery(a, height)
    \/ \E d \in DecisionDeadlines : StampDeadline(d)

Spec == Init /\ [][Next]_st

-----------------------------------------------------------------------------
(* Invariants. *)

(* The state is a RoundState: in particular amounts never leave the range  *)
(* asSatoshis accepts, whatever cards, bets and penalties settle a round.  *)
TypeOK == st \in RoundStates

(* No two players share a seat: applySettle credits every player of the    *)
(* acting seat and findIndex takes the first, so both rely on it.          *)
SeatsDistinct ==
    \A i, j \in DOMAIN st.players :
        st.players[i].seat = st.players[j].seat => i = j

(* Nobody opens its entropy before every seat has committed, and the deck  *)
(* is not touched before every seat has opened.                            *)
CommitBeforeReveal ==
    /\ (\E i \in DOMAIN st.players : st.players[i].revealed)
         => \A i \in DOMAIN st.players : st.players[i].committed
    /\ (st.visible_cards # << >> \/ st.concealed_deck # Null \/ st.acting # Null)
         => \A i \in DOMAIN st.players : st.players[i].revealed

(* No card is open before its time: none while entropy is gathered, no     *)
(* third card before the bet it decides.  A round that kept the cards of   *)
(* the round before it would show its player the outcome.                  *)
NoCardTooEarly ==
    LET count == Len(st.visible_cards)
    IN  /\ st.state_class \in {"S1_SEAT_OPEN", "S3_ENTROPY_COMMIT_WINDOW",
                               "S4_ENTROPY_REVEAL_WINDOW", "S5_DECK_COMMITTED"} => count = 0
        /\ st.state_class = "S6_CARD_REVEAL_FIRST" => count <= 1
        /\ st.state_class \in {"S8_BET_DECISION", "S9_CARD_REVEAL_THIRD"} => count <= 2
        /\ st.state_class = "S10_SETTLED_ROUND" => count <= 3

(* spec/card-protocol.md:14: "In-Between exposes all three cards of a      *)
(* round"; a round is complete at S10 (spec/state-machine.md:76-79).       *)
RoundsExposeThreeCards ==
    st.state_class = "S10_SETTLED_ROUND" => Len(st.visible_cards) = 3

(* The turn moves up through the seats, one per round, from the seat that  *)
(* joined first: the round number counts the seats passed.  Rounds are     *)
(* therefore fewer than players.                                           *)
RotationPosition ==
    st.acting # Null =>
        /\ st.acting \in Seats(st)
        /\ st.players[1].seat <= st.acting
        /\ st.round_number =
             Cardinality({x \in Seats(st) : st.players[1].seat <= x /\ x < st.acting})

(* When a round can be settled its pot is exactly one legal bet, as the    *)
(* comment in applySettle presumes when it takes the pot for the bet.      *)
PotIsOneBet == CanSettle(st) => st.pot_value \in MinBet .. MaxBet

(* computeSettlement is "the SettlementResult that applySettle would       *)
(* produce": there is one exactly if Settle is accepted, with its pot and  *)
(* its balances, so no client is shown a settlement it will not get.       *)
PreviewIsSettlement ==
    LET shown == computeSettlement(st)
    IN  /\ (shown # Null) = CanSettle(st)
        /\ CanSettle(st) =>
              /\ shown.resulting_pot_value = applySettle(st).pot_value
              /\ \A i \in DOMAIN st.players :
                    shown.resulting_balances[i] = applySettle(st).players[i].stake

(* A player who folded holds no concealed card any more.                   *)
FoldedHoldNothing ==
    st.concealed_deck # Null =>
        \A i \in DOMAIN st.players :
            st.players[i].status = "folded" => Held(st, st.players[i].seat) = {}

-----------------------------------------------------------------------------
(* Action properties. *)

(* Value moves in two ways only: a bet enters the pot at S8, and Settle    *)
(* moves an amount between the pot and the acting seat, nobody else's      *)
(* stake and not one satoshi more on either side.                          *)
ValueStep(s, t) ==
    LET moved == {i \in DOMAIN s.players : t.players[i].stake # s.players[i].stake}
    IN  \/ moved = {} /\ t.pot_value = s.pot_value
        \/ /\ moved = {}
           /\ s.state_class = "S8_BET_DECISION"
           /\ t.pot_value - s.pot_value \in MinBet .. MaxBet
        \/ /\ s.state_class = "S10_SETTLED_ROUND"
           /\ \E i \in DOMAIN s.players :
                /\ moved \subseteq {i}
                /\ s.players[i].seat = s.acting
                /\ t.players[i].stake - s.players[i].stake = s.pot_value - t.pot_value

ValueMovesAgainstPot == [][ValueStep(st, st')]_st

ClassRank(class) ==
    CASE class = "S1_SEAT_OPEN" -> 1
      [] class = "S3_ENTROPY_COMMIT_WINDOW" -> 3
      [] class = "S4_ENTROPY_REVEAL_WINDOW" -> 4
      [] class = "S5_DECK_COMMITTED" -> 5
      [] class = "S6_CARD_REVEAL_FIRST" -> 6
      [] class = "S8_BET_DECISION" -> 8
      [] class = "S9_CARD_REVEAL_THIRD" -> 9
      [] class = "S10_SETTLED_ROUND" -> 10
      [] class = "S11_ROTATE_TURN" -> 11
      [] class = "S12_TABLE_CLOSE" -> 12
      [] class = "RECOVERED" -> 13

(* What has been done inside the present class. *)
Milestones(s) ==
    {<<"seated", i>> : i \in DOMAIN s.players}
      \cup {<<"committed", i>> : i \in {j \in DOMAIN s.players : s.players[j].committed}}
      \cup {<<"revealed", i>> : i \in {j \in DOMAIN s.players : s.players[j].revealed}}
      \cup {<<"dealt", 0>> : x \in {s.concealed_deck} \ {Null}}
      \cup {<<"stamped", 0>> : x \in {s.decision_deadline} \ {Null}}
      \cup {<<"closed", 0>> : x \in {y \in {s.allowed_actions} : y = {}}}

(* Every accepted action takes the table strictly forward: to a later      *)
(* round, to a later class of the round, or to one more milestone of the   *)
(* class.  Nothing is ever undone, so a table takes finitely many steps,   *)
(* and a recovered table takes none.                                       *)
Forward(s, t) ==
    /\ s.state_class # "RECOVERED"
    /\ \/ t.round_number > s.round_number
       \/ /\ t.round_number = s.round_number
          /\ \/ ClassRank(t.state_class) > ClassRank(s.state_class)
             \/ /\ t.state_class = s.state_class
                /\ Milestones(s) \subseteq Milestones(t)
                /\ Milestones(s) # Milestones(t)

AlwaysForward == [][Forward(st, st')]_st
=============================================================================
