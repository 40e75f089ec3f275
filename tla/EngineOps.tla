----------------------------- MODULE EngineOps -----------------------------
(***************************************************************************)
(* The pure state engine of packages/state-engine/src/engine.ts.           *)
(*                                                                         *)
(* applyAction(state, action, ruleSet, currentHeight) is a pure function   *)
(* with one handler per action type.  Each handler is here a pair of       *)
(* operators: CanX(s, a, ...), the conjunction of the checks the handler   *)
(* makes, and applyX(s, a), the successor it returns when they pass.  A    *)
(* rejected action leaves the state alone, whatever its error code.        *)
(*                                                                         *)
(* The rule set is a record of constants.  Public keys, hashes and entropy *)
(* are opaque here: the engine only stores them.  The fields of RoundState *)
(* that no handler reads or writes (template hashes, commitment            *)
(* references, the never-computed state hashes) are left out.              *)
(***************************************************************************)
EXTENDS InBetween, FiniteSets, FiniteSetsExt

CONSTANTS
    Null,                               \* JavaScript null
    Game, Games,                        \* this table's game_id; the ids actions carry
    Pubkeys, Hashes, Entropies,         \* opaque values carried by actions
    Ordinals,                           \* card ordinals a reveal may show
    StakeAmount, MinBet, MaxBet,        \* rule set
    PlayerCountMin, PlayerCountMax,
    DeckFormat,
    RecoveryDeadline                    \* fixed when the session is created

ASSUME EngineAssumption ==
    /\ Null \notin Nat
    /\ Game \in Games
    /\ Ordinals \subseteq Nat
    /\ StakeAmount \in Satoshis
    /\ MinBet \in Satoshis
    /\ MaxBet \in Satoshis
    /\ PlayerCountMin \in Nat \ {0}
    /\ PlayerCountMax \in Nat
    /\ DeckFormat \in Nat
    /\ RecoveryDeadline \in Nat

StateClasses ==
    {"S1_SEAT_OPEN", "S3_ENTROPY_COMMIT_WINDOW", "S4_ENTROPY_REVEAL_WINDOW",
     "S5_DECK_COMMITTED", "S6_CARD_REVEAL_FIRST", "S8_BET_DECISION",
     "S9_CARD_REVEAL_THIRD", "S10_SETTLED_ROUND", "S11_ROTATE_TURN",
     "S12_TABLE_CLOSE", "RECOVERED"}

ActionTypes ==
    {"Join", "TableLock", "EntropyCommit", "EntropyReveal", "CardReveal",
     "DealConcealed", "BetAction", "Pass", "Fold", "Settle", "RotateTurn",
     "TableClose", "Timeout", "Recovery"}

Lifecycles == {"UNDEALT", "ASSIGNED_CONCEALED", "REVEALED", "SURRENDERED", "RETIRED"}

(* A card of the extended model: its ciphertext and commitment are opaque. *)
ConcealedCards == [position : Int, holder : Pubkeys, lifecycle : Lifecycles]

SettlementResults ==
    [outcome : Outcomes, amount_won_or_lost : Nat,
     resulting_pot_value : Satoshis, resulting_balances : Seq(Satoshis)]

Players ==
    [seat : Nat,
     pubkey : Pubkeys,
     status : {"joined", "active", "folded"},
     stake : Satoshis,
     committed : BOOLEAN,
     commitment : Hashes \cup {Null},
     revealed : BOOLEAN,
     entropy : Entropies \cup {Null}]

RoundStates ==
    [state_class : StateClasses,
     game_id : Games,
     round_number : Nat,
     acting : Nat \cup {Null},
     players : Seq(Players),
     pot_value : Satoshis,
     visible_cards : Seq(Ordinals),
     allowed_actions : SUBSET ActionTypes,
     decision_deadline : Nat \cup {Null},
     recovery_deadline : Nat,
     concealed_deck : Seq(ConcealedCards) \cup {Null}]

(* null is neither an array nor an object. *)
ASSUME NullAssumption ==
    /\ Null \notin Seq(ConcealedCards)
    /\ Null \notin SettlementResults
    /\ Null \notin RoundStates

-----------------------------------------------------------------------------
(* Initial state and the table of legal action types. *)

getLegalActions(class) ==
    CASE class = "S1_SEAT_OPEN"             -> {"Join", "TableLock"}
      [] class = "S3_ENTROPY_COMMIT_WINDOW" -> {"EntropyCommit"}
      [] class = "S4_ENTROPY_REVEAL_WINDOW" -> {"EntropyReveal"}
      [] class = "S5_DECK_COMMITTED"        -> {"CardReveal", "DealConcealed"}
      [] class = "S6_CARD_REVEAL_FIRST"     -> {"CardReveal"}
      [] class = "S8_BET_DECISION"          -> {"BetAction", "Pass", "Timeout", "Fold"}
      [] class = "S9_CARD_REVEAL_THIRD"     -> {"CardReveal"}
      [] class = "S10_SETTLED_ROUND"        -> {"Settle"}
      [] class = "S11_ROTATE_TURN"          -> {"RotateTurn"}
      [] class = "S12_TABLE_CLOSE"          -> {"TableClose"}
      [] class = "RECOVERED"                -> {}

initialState ==
    [state_class |-> "S1_SEAT_OPEN",
     game_id |-> Game,
     round_number |-> 0,
     acting |-> Null,
     players |-> << >>,
     pot_value |-> 0,
     visible_cards |-> << >>,
     allowed_actions |-> {"Join", "TableLock"},
     decision_deadline |-> Null,
     recovery_deadline |-> RecoveryDeadline,
     concealed_deck |-> Null]

(* The binding checks of applyAction, before it dispatches on the type:    *)
(* Recovery alone bypasses the table of legal actions.                     *)
Binds(s, a) ==
    /\ a.game_id = s.game_id
    /\ a.action_type # "Recovery" => a.action_type \in getLegalActions(s.state_class)

(* Every handler but Join, DealConcealed and TableClose moves to a class   *)
(* and refreshes allowed_actions from it.                                  *)
MoveTo(s, class) ==
    [s EXCEPT !.state_class = class, !.allowed_actions = getLegalActions(class)]

Seats(s) == {s.players[i].seat : i \in DOMAIN s.players}

(* players.findIndex: seats are distinct, so the first match is the only one. *)
SeatIndex(s, seat) == CHOOSE i \in DOMAIN s.players : s.players[i].seat = seat

-----------------------------------------------------------------------------
(* Seating. *)

JoinSeat(s, a) ==
    IF a.acting_player_seat = Null THEN Len(s.players) ELSE a.acting_player_seat

CanJoin(s, a) ==
    /\ s.state_class = "S1_SEAT_OPEN"
    /\ a.stake_amount = StakeAmount
    /\ Len(s.players) < PlayerCountMax
    /\ JoinSeat(s, a) \notin Seats(s)

applyJoin(s, a) ==
    [s EXCEPT !.players =
        Append(@, [seat |-> JoinSeat(s, a),
                   pubkey |-> a.player_pubkey,
                   status |-> "joined",
                   stake |-> a.stake_amount,
                   committed |-> FALSE,
                   commitment |-> Null,
                   revealed |-> FALSE,
                   entropy |-> Null])]

CanTableLock(s) ==
    /\ s.state_class = "S1_SEAT_OPEN"
    /\ Len(s.players) >= PlayerCountMin

applyTableLock(s) == MoveTo(s, "S3_ENTROPY_COMMIT_WINDOW")

-----------------------------------------------------------------------------
(* Joint entropy: commit, then reveal. *)

CanEntropyCommit(s, a) ==
    /\ s.state_class = "S3_ENTROPY_COMMIT_WINDOW"
    /\ a.acting_player_seat \in Seats(s)
    /\ ~s.players[SeatIndex(s, a.acting_player_seat)].committed

(* Fault: one commitment is enough to open the reveal window. *)
AnyCommitted(players) == \E i \in DOMAIN players : players[i].committed

AllCommitted(players) == \A i \in DOMAIN players : players[i].committed

applyEntropyCommit(s, a) ==
    LET i == SeatIndex(s, a.acting_player_seat)
        players == [s.players EXCEPT ![i] =
                      [@ EXCEPT !.committed = TRUE, !.commitment = a.commitment_hash]]
    IN  MoveTo([s EXCEPT !.players = players],
               IF AllCommitted(players) THEN "S4_ENTROPY_REVEAL_WINDOW"
                                        ELSE "S3_ENTROPY_COMMIT_WINDOW")

CanEntropyReveal(s, a) ==
    /\ s.state_class = "S4_ENTROPY_REVEAL_WINDOW"
    /\ a.acting_player_seat \in Seats(s)
    /\ s.players[SeatIndex(s, a.acting_player_seat)].committed
    /\ ~s.players[SeatIndex(s, a.acting_player_seat)].revealed

AllRevealed(players) == \A i \in DOMAIN players : players[i].revealed

applyEntropyReveal(s, a) ==
    LET i == SeatIndex(s, a.acting_player_seat)
        players == [s.players EXCEPT ![i] =
                      [@ EXCEPT !.revealed = TRUE, !.entropy = a.entropy,
                                !.status = "active"]]
    IN  MoveTo([s EXCEPT !.players = players],
               IF AllRevealed(players) THEN "S5_DECK_COMMITTED"
                                       ELSE "S4_ENTROPY_REVEAL_WINDOW")

-----------------------------------------------------------------------------
(* Cards. *)

CanCardReveal(s) ==
    s.state_class \in {"S5_DECK_COMMITTED", "S6_CARD_REVEAL_FIRST", "S9_CARD_REVEAL_THIRD"}

(* The second card passes through S7 to S8, and names the first player to  *)
(* have joined when nobody is acting yet.                                  *)
applyCardReveal(s, a) ==
    LET shown == [s EXCEPT !.visible_cards = Append(@, a.card)]
        first == IF s.acting = Null THEN s.players[1].seat ELSE s.acting
    IN  CASE s.state_class = "S5_DECK_COMMITTED" ->
               MoveTo(shown, "S6_CARD_REVEAL_FIRST")
          [] s.state_class = "S6_CARD_REVEAL_FIRST" ->
               MoveTo([shown EXCEPT !.acting = first], "S8_BET_DECISION")
          [] s.state_class = "S9_CARD_REVEAL_THIRD" ->
               MoveTo(shown, "S10_SETTLED_ROUND")

CanDealConcealed(s, a) ==
    /\ s.state_class = "S5_DECK_COMMITTED"
    /\ s.concealed_deck = Null
    /\ Len(a.concealed_cards) = DeckFormat
    /\ \A i \in DOMAIN a.concealed_cards :
          /\ a.concealed_cards[i].position \in 0 .. DeckFormat - 1
          /\ \A j \in 1 .. i - 1 :
                a.concealed_cards[j].position # a.concealed_cards[i].position

applyDealConcealed(s, a) == [s EXCEPT !.concealed_deck = a.concealed_cards]

-----------------------------------------------------------------------------
(* The bet decision. *)

CanBet(s, a) ==
    /\ s.state_class = "S8_BET_DECISION"
    /\ a.bet_amount \in MinBet .. MaxBet
    /\ IsSafeInteger(s.pot_value + a.bet_amount)

(* The bet goes into the pot; the stake it comes from is not debited. *)
applyBet(s, a) ==
    MoveTo([s EXCEPT !.pot_value = @ + a.bet_amount], "S9_CARD_REVEAL_THIRD")

CanPass(s) == s.state_class = "S8_BET_DECISION"

applyPass(s) == MoveTo(s, "S11_ROTATE_TURN")

(* The cards a folding seat gives up: those its key holds, still concealed. *)
Held(s, seat) ==
    {k \in DOMAIN s.concealed_deck :
        /\ s.concealed_deck[k].holder = s.players[SeatIndex(s, seat)].pubkey
        /\ s.concealed_deck[k].lifecycle = "ASSIGNED_CONCEALED"}

CanFold(s, a) ==
    /\ s.state_class = "S8_BET_DECISION"
    /\ s.concealed_deck # Null
    /\ a.acting_player_seat \in Seats(s)
    /\ Held(s, a.acting_player_seat) # {}

(* Fault: the player is marked folded but keeps its cards. *)
applyFoldKeepingCards(s, a) ==
    MoveTo([s EXCEPT !.players[SeatIndex(s, a.acting_player_seat)].status = "folded"],
           "S11_ROTATE_TURN")

applyFold(s, a) ==
    LET seat == a.acting_player_seat
        deck == [k \in DOMAIN s.concealed_deck |->
                    IF k \in Held(s, seat)
                    THEN [s.concealed_deck[k] EXCEPT !.lifecycle = "SURRENDERED"]
                    ELSE s.concealed_deck[k]]
    IN  MoveTo([s EXCEPT !.players[SeatIndex(s, seat)].status = "folded",
                         !.concealed_deck = deck],
               "S11_ROTATE_TURN")

CanTimeout(s, height) ==
    /\ s.state_class = "S8_BET_DECISION"
    /\ s.decision_deadline # Null
    /\ height >= s.decision_deadline

applyTimeout(s) == MoveTo(s, "S11_ROTATE_TURN")

-----------------------------------------------------------------------------
(* Settlement.  The bet is taken to be the whole pot. *)

SettlePot(s) ==
    s.pot_value + potDelta(classifyInBetweenRound(s.visible_cards), s.pot_value)

(* Fault: the transfer is applied to every player. *)
SettleStakeOfAll(s, i) ==
    s.players[i].stake + playerDelta(classifyInBetweenRound(s.visible_cards), s.pot_value)

SettleStake(s, i) ==
    IF s.players[i].seat # s.acting THEN s.players[i].stake
    ELSE s.players[i].stake + playerDelta(classifyInBetweenRound(s.visible_cards), s.pot_value)

(* The checks that return a typed error ... *)
SettleChecks(s) ==
    /\ s.state_class = "S10_SETTLED_ROUND"
    /\ Len(s.visible_cards) = 3
    /\ s.acting # Null
    /\ SettlePot(s) \in Satoshis

(* ... and the one that throws: a balance below zero or past MaxSafe. *)
SettleThrows(s) ==
    /\ SettleChecks(s)
    /\ \E i \in DOMAIN s.players : SettleStake(s, i) \notin Satoshis

(* Fault: a balance below zero goes unnoticed. *)
CanSettleUnchecked(s) == SettleChecks(s)

CanSettle(s) == SettleChecks(s) /\ ~SettleThrows(s)

applySettle(s) ==
    MoveTo([s EXCEPT !.pot_value = SettlePot(s),
                     !.players = [i \in DOMAIN s.players |->
                                    [s.players[i] EXCEPT !.stake = SettleStake(s, i)]]],
           "S11_ROTATE_TURN")

(* The settlement a client shows beforehand, worked out by code of its own. *)
Preview(s) ==
    LET outcome == classifyInBetweenRound(s.visible_cards)
        delta == playerDelta(outcome, s.pot_value)
    IN  [outcome |-> outcome,
         amount_won_or_lost |-> IF delta < 0 THEN -delta ELSE delta,
         resulting_pot_value |-> s.pot_value + potDelta(outcome, s.pot_value),
         resulting_balances |->
             [i \in DOMAIN s.players |-> s.players[i].stake
                + IF s.players[i].seat = s.acting THEN delta ELSE 0]]

(* Fault: a negative balance is shown. *)
computeSettlementUnclamped(s) ==
    IF s.state_class = "S10_SETTLED_ROUND" /\ Len(s.visible_cards) = 3 /\ s.acting # Null
    THEN Preview(s) ELSE Null

(* clampSat throws where a result is not a satoshi amount. *)
computeSettlement(s) ==
    IF /\ s.state_class = "S10_SETTLED_ROUND"
       /\ Len(s.visible_cards) = 3
       /\ s.acting # Null
       /\ Preview(s).resulting_pot_value \in Satoshis
       /\ \A i \in DOMAIN s.players : Preview(s).resulting_balances[i] \in Satoshis
    THEN Preview(s) ELSE Null

-----------------------------------------------------------------------------
(* Rotation and the end of the table. *)

(* Fault: the acting seat counts among the later ones. *)
NextSeatInclusive(s) ==
    LET later == {x \in Seats(s) : s.acting # Null /\ x >= s.acting}
    IN  IF later = {} THEN Min(Seats(s)) ELSE Min(later)

(* The seat after the acting one in ascending order, cyclically; the       *)
(* lowest when nobody is acting.                                           *)
NextSeat(s) ==
    LET later == {x \in Seats(s) : s.acting # Null /\ x > s.acting}
    IN  IF later = {} THEN Min(Seats(s)) ELSE Min(later)

WrappedToStart(s) == s.acting # Null /\ NextSeat(s) = Min(Seats(s))

CanRotateTurn(s) ==
    /\ s.state_class = "S11_ROTATE_TURN"
    /\ Len(s.players) > 0

(* Faults: the open cards stay on the table; the round is not counted; the *)
(* new round starts from the committed deck, with the old pot still there. *)
applyRotateTurnKeepingCards(s) ==
    IF WrappedToStart(s)
    THEN MoveTo(s, "S12_TABLE_CLOSE")
    ELSE MoveTo([s EXCEPT !.round_number = @ + 1, !.acting = NextSeat(s)],
                "S6_CARD_REVEAL_FIRST")

applyRotateTurnUncounted(s) ==
    IF WrappedToStart(s)
    THEN MoveTo(s, "S12_TABLE_CLOSE")
    ELSE MoveTo([s EXCEPT !.acting = NextSeat(s), !.visible_cards = << >>],
                "S6_CARD_REVEAL_FIRST")

applyRotateTurnToDeck(s) ==
    IF WrappedToStart(s)
    THEN MoveTo(s, "S12_TABLE_CLOSE")
    ELSE MoveTo([s EXCEPT !.round_number = @ + 1, !.acting = NextSeat(s),
                          !.visible_cards = << >>],
                "S5_DECK_COMMITTED")

applyRotateTurn(s) ==
    IF WrappedToStart(s)
    THEN MoveTo(s, "S12_TABLE_CLOSE")
    ELSE MoveTo([s EXCEPT !.round_number = @ + 1,
                          !.acting = NextSeat(s),
                          !.visible_cards = << >>],
                "S6_CARD_REVEAL_FIRST")

CanTableClose(s) == s.state_class = "S12_TABLE_CLOSE"

(* The class stays S12: only the list of allowed actions is emptied. *)
applyTableClose(s) == [s EXCEPT !.allowed_actions = {}]

CanRecovery(s, height) == height >= s.recovery_deadline

applyRecovery(s) == [s EXCEPT !.state_class = "RECOVERED", !.allowed_actions = {}]

-----------------------------------------------------------------------------
(* applyAction: what it accepts and what it returns. *)

Accepts(s, a, height) ==
    /\ Binds(s, a)
    /\ CASE a.action_type = "Join"          -> CanJoin(s, a)
         [] a.action_type = "TableLock"     -> CanTableLock(s)
         [] a.action_type = "EntropyCommit" -> CanEntropyCommit(s, a)
         [] a.action_type = "EntropyReveal" -> CanEntropyReveal(s, a)
         [] a.action_type = "CardReveal"    -> CanCardReveal(s)
         [] a.action_type = "DealConcealed" -> CanDealConcealed(s, a)
         [] a.action_type = "BetAction"     -> CanBet(s, a)
         [] a.action_type = "Pass"          -> CanPass(s)
         [] a.action_type = "Fold"          -> CanFold(s, a)
         [] a.action_type = "Settle"        -> CanSettle(s)
         [] a.action_type = "RotateTurn"    -> CanRotateTurn(s)
         [] a.action_type = "TableClose"    -> CanTableClose(s)
         [] a.action_type = "Timeout"       -> CanTimeout(s, height)
         [] a.action_type = "Recovery"      -> CanRecovery(s, height)

Successor(s, a) ==
    CASE a.action_type = "Join"          -> applyJoin(s, a)
      [] a.action_type = "TableLock"     -> applyTableLock(s)
      [] a.action_type = "EntropyCommit" -> applyEntropyCommit(s, a)
      [] a.action_type = "EntropyReveal" -> applyEntropyReveal(s, a)
      [] a.action_type = "CardReveal"    -> applyCardReveal(s, a)
      [] a.action_type = "DealConcealed" -> applyDealConcealed(s, a)
      [] a.action_type = "BetAction"     -> applyBet(s, a)
      [] a.action_type = "Pass"          -> applyPass(s)
      [] a.action_type = "Fold"          -> applyFold(s, a)
      [] a.action_type = "Settle"        -> applySettle(s)
      [] a.action_type = "RotateTurn"    -> applyRotateTurn(s)
      [] a.action_type = "TableClose"    -> applyTableClose(s)
      [] a.action_type = "Timeout"       -> applyTimeout(s)
      [] a.action_type = "Recovery"      -> applyRecovery(s)
=============================================================================
