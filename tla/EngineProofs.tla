---------------------------- MODULE EngineProofs ----------------------------
EXTENDS Engine, Replay, TLAPS, SequenceTheorems, WellFoundedInduction, NaturalsInduction, FiniteSetTheorems

(* A non-empty set of naturals has a least element, the one Min chooses. *)
LEMMA MinExists ==
    ASSUME NEW S \in SUBSET Nat, S # {}
    PROVE  /\ Min(S) \in S
           /\ \A x \in S : Min(S) <= x
<1>1. PICK m \in S : \A x \in S : m <= x
  <2> DEFINE R == {ss \in Nat \X Nat : ss[1] < ss[2]}
  <2>1. IsWellFoundedOn(R, Nat)
    BY NatLessThanWellFounded, Zenon DEF OpToRel
  <2>2. PICK x \in S : \A y \in S : ~(<<y, x>> \in R)
    <3> HIDE DEF R
    <3> QED BY <2>1, WFMin
  <2>3. \A y \in S : ~(y < x)
    BY <2>2
  <2>4. \A y \in S : x <= y
    BY <2>3
  <2> HIDE DEF R
  <2> QED BY <2>4
<1> QED BY <1>1 DEF Min

(* Every handler's common tail, a new class with its legal actions, keeps  *)
(* a RoundState.                                                           *)
LEMMA MoveToType ==
    ASSUME NEW s \in RoundStates, NEW class \in StateClasses
    PROVE  MoveTo(s, class) \in RoundStates
<1>1. getLegalActions(class) \in SUBSET ActionTypes
  BY DEF getLegalActions, ActionTypes, StateClasses
<1> QED BY <1>1 DEF MoveTo, RoundStates

(* findIndex finds an index of that seat when there is one. *)
LEMMA SeatIndexIn ==
    ASSUME NEW s, NEW seat \in Seats(s)
    PROVE  /\ SeatIndex(s, seat) \in DOMAIN s.players
           /\ s.players[SeatIndex(s, seat)].seat = seat
<1>1. \E i \in DOMAIN s.players : s.players[i].seat = seat
  BY DEF Seats
<1> QED BY <1>1 DEF SeatIndex

(* Seats are naturals, and a table with players has one. *)
LEMMA SeatsAreNat ==
    ASSUME NEW s \in RoundStates
    PROVE  /\ Seats(s) \subseteq Nat
           /\ Len(s.players) > 0 => Seats(s) # {}
<1>1. s.players \in Seq(Players)
  BY DEF RoundStates
<1>2. \A i \in DOMAIN s.players : s.players[i] \in Players
  BY <1>1
<1>3. Seats(s) \subseteq Nat
  BY <1>2 DEF Seats, Players
<1>4. ASSUME Len(s.players) > 0 PROVE Seats(s) # {}
  <2>1. 1 \in DOMAIN s.players
    BY <1>1, <1>4
  <2> QED BY <2>1 DEF Seats
<1> QED BY <1>3, <1>4

(* RotateTurn gives the turn to a seat of the table. *)
LEMMA NextSeatIn ==
    ASSUME NEW s \in RoundStates, Len(s.players) > 0
    PROVE  NextSeat(s) \in Seats(s)
<1> DEFINE later == {x \in Seats(s) : s.acting # Null /\ x > s.acting}
<1>1. Seats(s) \in SUBSET Nat /\ Seats(s) # {}
  BY SeatsAreNat
<1>2. CASE later = {}
  BY <1>1, <1>2, MinExists DEF NextSeat
<1>3. CASE later # {}
  <2>1. later \in SUBSET Nat
    BY <1>1
  <2>2. Min(later) \in later
    BY <1>3, <2>1, MinExists
  <2>3. NextSeat(s) = Min(later)
    BY <1>3 DEF NextSeat
  <2> QED BY <2>2, <2>3
<1> QED BY <1>2, <1>3

(* The record of one player may be replaced by another player record. *)
LEMMA ReplacePlayer ==
    ASSUME NEW s \in RoundStates, NEW i \in DOMAIN s.players, NEW p \in Players
    PROVE  /\ [s.players EXCEPT ![i] = p] \in Seq(Players)
           /\ Len([s.players EXCEPT ![i] = p]) = Len(s.players)
           /\ [s EXCEPT !.players = [s.players EXCEPT ![i] = p]] \in RoundStates
<1>1. s.players \in Seq(Players) /\ i \in 1 .. Len(s.players)
  BY DEF RoundStates
<1>2. /\ [s.players EXCEPT ![i] = p] \in Seq(Players)
      /\ Len([s.players EXCEPT ![i] = p]) = Len(s.players)
  BY <1>1, ExceptSeq
<1> QED BY <1>2 DEF RoundStates

-----------------------------------------------------------------------------
(* Each handler returns a RoundState with the players it was given. *)

(* applyJoin appends a well-formed player record. *)
LEMMA JoinType ==
    ASSUME NEW s \in RoundStates, NEW a, CanJoin(s, a),
           a.acting_player_seat \in Nat \cup {Null}, a.player_pubkey \in Pubkeys
    PROVE  applyJoin(s, a) \in RoundStates /\ Len(applyJoin(s, a).players) > 0
<1> USE EngineAssumption
<1>0. s.players \in Seq(Players) /\ Len(s.players) \in Nat
  BY DEF RoundStates
<1> DEFINE p == [seat |-> JoinSeat(s, a), pubkey |-> a.player_pubkey,
                 status |-> "joined", stake |-> a.stake_amount,
                 committed |-> FALSE, commitment |-> Null,
                 revealed |-> FALSE, entropy |-> Null]
<1>1. JoinSeat(s, a) \in Nat
  BY <1>0 DEF JoinSeat
<1>2. p \in Players
  BY <1>1 DEF Players, CanJoin
<1>3. applyJoin(s, a) = [s EXCEPT !.players = Append(s.players, p)]
  BY DEF applyJoin
<1> HIDE DEF p
<1>4. /\ Append(s.players, p) \in Seq(Players)
      /\ Len(Append(s.players, p)) > 0
  BY <1>0, <1>2
<1> QED BY <1>3, <1>4 DEF RoundStates

(* applyEntropyCommit rewrites the record of the committing seat. *)
LEMMA EntropyCommitType ==
    ASSUME NEW s \in RoundStates, NEW a, CanEntropyCommit(s, a),
           a.commitment_hash \in Hashes
    PROVE  /\ applyEntropyCommit(s, a) \in RoundStates
           /\ Len(applyEntropyCommit(s, a).players) = Len(s.players)
<1> DEFINE i == SeatIndex(s, a.acting_player_seat)
           p == [s.players[i] EXCEPT !.committed = TRUE, !.commitment = a.commitment_hash]
           players == [s.players EXCEPT ![i] = p]
           class == IF AllCommitted(players) THEN "S4_ENTROPY_REVEAL_WINDOW"
                                             ELSE "S3_ENTROPY_COMMIT_WINDOW"
<1>1. i \in DOMAIN s.players
  BY SeatIndexIn DEF CanEntropyCommit
<1>2. s.players[i] \in Players
  BY <1>1 DEF RoundStates
<1>3. p \in Players
  BY <1>2 DEF Players
<1>4. applyEntropyCommit(s, a) = MoveTo([s EXCEPT !.players = players], class)
  BY DEF applyEntropyCommit
<1>5. class \in StateClasses
  BY DEF StateClasses
<1> HIDE DEF i, p, class
<1>6. [s EXCEPT !.players = players] \in RoundStates /\ Len(players) = Len(s.players)
  BY <1>1, <1>3, ReplacePlayer
<1>7. MoveTo([s EXCEPT !.players = players], class) \in RoundStates
  BY <1>5, <1>6, MoveToType
<1> QED BY <1>4, <1>6, <1>7 DEF MoveTo, RoundStates

(* applyEntropyReveal rewrites the record of the revealing seat. *)
LEMMA EntropyRevealType ==
    ASSUME NEW s \in RoundStates, NEW a, CanEntropyReveal(s, a), a.entropy \in Entropies
    PROVE  /\ applyEntropyReveal(s, a) \in RoundStates
           /\ Len(applyEntropyReveal(s, a).players) = Len(s.players)
<1> DEFINE i == SeatIndex(s, a.acting_player_seat)
           p == [s.players[i] EXCEPT !.revealed = TRUE, !.entropy = a.entropy,
                                     !.status = "active"]
           players == [s.players EXCEPT ![i] = p]
           class == IF AllRevealed(players) THEN "S5_DECK_COMMITTED"
                                            ELSE "S4_ENTROPY_REVEAL_WINDOW"
<1>1. i \in DOMAIN s.players
  BY SeatIndexIn DEF CanEntropyReveal
<1>2. s.players[i] \in Players
  BY <1>1 DEF RoundStates
<1>3. p \in Players
  BY <1>2 DEF Players
<1>4. applyEntropyReveal(s, a) = MoveTo([s EXCEPT !.players = players], class)
  BY DEF applyEntropyReveal
<1>5. class \in StateClasses
  BY DEF StateClasses
<1> HIDE DEF i, p, class
<1>6. [s EXCEPT !.players = players] \in RoundStates /\ Len(players) = Len(s.players)
  BY <1>1, <1>3, ReplacePlayer
<1>7. MoveTo([s EXCEPT !.players = players], class) \in RoundStates
  BY <1>5, <1>6, MoveToType
<1> QED BY <1>4, <1>6, <1>7 DEF MoveTo, RoundStates

(* applyCardReveal adds an open card, and may make the first player act. *)
LEMMA CardRevealType ==
    ASSUME NEW s \in RoundStates, NEW a, CanCardReveal(s), Len(s.players) > 0,
           a.card \in Ordinals
    PROVE  /\ applyCardReveal(s, a) \in RoundStates
           /\ applyCardReveal(s, a).players = s.players
<1> DEFINE shown == [s EXCEPT !.visible_cards = Append(@, a.card)]
           first == IF s.acting = Null THEN s.players[1].seat ELSE s.acting
<1>0. Append(s.visible_cards, a.card) \in Seq(Ordinals)
  BY DEF RoundStates
<1>1. shown \in RoundStates /\ shown.players = s.players
  BY <1>0 DEF RoundStates
<1>2. s.players[1] \in Players
  BY DEF RoundStates
<1>3. [shown EXCEPT !.acting = first] \in RoundStates
  BY <1>1, <1>2 DEF RoundStates, Players
<1>4. \/ applyCardReveal(s, a) = MoveTo(shown, "S6_CARD_REVEAL_FIRST")
      \/ applyCardReveal(s, a) = MoveTo([shown EXCEPT !.acting = first], "S8_BET_DECISION")
      \/ applyCardReveal(s, a) = MoveTo(shown, "S10_SETTLED_ROUND")
  BY DEF applyCardReveal, CanCardReveal
<1>5. \A c \in StateClasses, x \in RoundStates :
         MoveTo(x, c) \in RoundStates /\ MoveTo(x, c).players = x.players
  BY MoveToType DEF MoveTo, RoundStates
<1>6. [shown EXCEPT !.acting = first].players = s.players
  BY <1>1 DEF RoundStates
<1>7. {"S6_CARD_REVEAL_FIRST", "S8_BET_DECISION", "S10_SETTLED_ROUND"} \subseteq StateClasses
  BY DEF StateClasses
<1> DEFINE acted == [shown EXCEPT !.acting = first]
<1>8. acted \in RoundStates /\ acted.players = s.players
  BY <1>3, <1>6
<1>9. CASE applyCardReveal(s, a) = MoveTo(shown, "S6_CARD_REVEAL_FIRST")
  <2> HIDE DEF shown
  <2> QED BY <1>1, <1>5, <1>7, <1>9
<1>10. CASE applyCardReveal(s, a) = MoveTo(acted, "S8_BET_DECISION")
  <2> HIDE DEF acted
  <2> QED BY <1>5, <1>7, <1>8, <1>10
<1>11. CASE applyCardReveal(s, a) = MoveTo(shown, "S10_SETTLED_ROUND")
  <2> HIDE DEF shown
  <2> QED BY <1>1, <1>5, <1>7, <1>11
<1> QED BY <1>4, <1>9, <1>10, <1>11

(* applyFold rewrites the record of the folding seat and its cards. *)
LEMMA FoldType ==
    ASSUME NEW s \in RoundStates, NEW a, CanFold(s, a)
    PROVE  /\ applyFold(s, a) \in RoundStates
           /\ Len(applyFold(s, a).players) = Len(s.players)
<1> DEFINE seat == a.acting_player_seat
           i == SeatIndex(s, seat)
           p == [s.players[i] EXCEPT !.status = "folded"]
           players == [s.players EXCEPT ![i] = p]
           deck == [k \in DOMAIN s.concealed_deck |->
                       IF k \in Held(s, seat)
                       THEN [s.concealed_deck[k] EXCEPT !.lifecycle = "SURRENDERED"]
                       ELSE s.concealed_deck[k]]
<1>1. i \in DOMAIN s.players
  BY SeatIndexIn DEF CanFold
<1>2. s.players[i] \in Players
  BY <1>1 DEF RoundStates
<1>3. p \in Players
  BY <1>2 DEF Players
<1>4. s.concealed_deck \in Seq(ConcealedCards)
  BY DEF CanFold, RoundStates
<1>5. deck \in Seq(ConcealedCards)
  <2>1. \A k \in DOMAIN s.concealed_deck : s.concealed_deck[k] \in ConcealedCards
    BY <1>4
  <2>2. \A k \in DOMAIN s.concealed_deck : deck[k] \in ConcealedCards
    BY <2>1 DEF ConcealedCards, Lifecycles
  <2>3. DOMAIN s.concealed_deck = 1 .. Len(s.concealed_deck) /\ Len(s.concealed_deck) \in Nat
    BY <1>4
  <2> HIDE DEF deck
  <2>4. deck = [k \in 1 .. Len(s.concealed_deck) |-> deck[k]]
    BY <2>3 DEF deck
  <2> QED BY <2>2, <2>3, <2>4
<1>6. applyFold(s, a) = MoveTo([s EXCEPT !.players = players, !.concealed_deck = deck],
                               "S11_ROTATE_TURN")
  BY DEF applyFold
<1> HIDE DEF i, p, deck
<1>7. [s EXCEPT !.players = players] \in RoundStates /\ Len(players) = Len(s.players)
  BY <1>1, <1>3, ReplacePlayer
<1>8. [s EXCEPT !.players = players, !.concealed_deck = deck] \in RoundStates
  BY <1>5, <1>7 DEF RoundStates
<1>9. MoveTo([s EXCEPT !.players = players, !.concealed_deck = deck], "S11_ROTATE_TURN")
        \in RoundStates
  BY <1>8, MoveToType DEF StateClasses
<1> QED BY <1>6, <1>7, <1>9 DEF MoveTo, RoundStates

(* applySettle: the range checks it makes keep the pot and every stake     *)
(* amounts of satoshis.                                                    *)
LEMMA SettleType ==
    ASSUME NEW s \in RoundStates, CanSettle(s)
    PROVE  /\ applySettle(s) \in RoundStates
           /\ Len(applySettle(s).players) = Len(s.players)
<1> DEFINE players == [i \in DOMAIN s.players |->
                          [s.players[i] EXCEPT !.stake = SettleStake(s, i)]]
<1>1. SettlePot(s) \in Satoshis /\ \A i \in DOMAIN s.players : SettleStake(s, i) \in Satoshis
  BY DEF CanSettle, SettleThrows, SettleChecks
<1>2. \A i \in DOMAIN s.players : s.players[i] \in Players
  BY DEF RoundStates
<1>3. \A i \in DOMAIN s.players : players[i] \in Players
  BY <1>1, <1>2 DEF Players
<1>4. DOMAIN s.players = 1 .. Len(s.players) /\ Len(s.players) \in Nat
  BY DEF RoundStates
<1>5. players \in Seq(Players) /\ Len(players) = Len(s.players)
  <2>1. players = [i \in 1 .. Len(s.players) |-> players[i]]
    BY <1>4
  <2> HIDE DEF players
  <2>2. players \in Seq(Players)
    BY <1>3, <1>4, <2>1
  <2> QED BY <1>4, <2>1, <2>2
<1>6. applySettle(s) = MoveTo([s EXCEPT !.pot_value = SettlePot(s), !.players = players],
                              "S11_ROTATE_TURN")
  BY DEF applySettle
<1> HIDE DEF players
<1>7. [s EXCEPT !.pot_value = SettlePot(s), !.players = players] \in RoundStates
  BY <1>1, <1>5 DEF RoundStates
<1>8. MoveTo([s EXCEPT !.pot_value = SettlePot(s), !.players = players], "S11_ROTATE_TURN")
        \in RoundStates
  BY <1>7, MoveToType DEF StateClasses
<1> QED BY <1>5, <1>6, <1>8 DEF MoveTo, RoundStates

(* applyRotateTurn closes the table or opens a round; the players stay. *)
LEMMA RotateTurnType ==
    ASSUME NEW s \in RoundStates, CanRotateTurn(s)
    PROVE  /\ applyRotateTurn(s) \in RoundStates
           /\ applyRotateTurn(s).players = s.players
<1>1. NextSeat(s) \in Nat
  BY NextSeatIn, SeatsAreNat DEF CanRotateTurn
<1> DEFINE turned == [s EXCEPT !.round_number = @ + 1, !.acting = NextSeat(s),
                               !.visible_cards = << >>]
<1>2. turned \in RoundStates /\ turned.players = s.players
  <2>1. << >> \in Seq(Ordinals) /\ s.round_number + 1 \in Nat
    BY DEF RoundStates
  <2> QED BY <1>1, <2>1 DEF RoundStates
<1>3. \/ applyRotateTurn(s) = MoveTo(s, "S12_TABLE_CLOSE")
      \/ applyRotateTurn(s) = MoveTo(turned, "S6_CARD_REVEAL_FIRST")
  BY DEF applyRotateTurn
<1> HIDE DEF turned
<1>4. \A c \in StateClasses, x \in RoundStates :
         MoveTo(x, c) \in RoundStates /\ MoveTo(x, c).players = x.players
  BY MoveToType DEF MoveTo, RoundStates
<1> QED BY <1>2, <1>3, <1>4 DEF StateClasses
-----------------------------------------------------------------------------
(* Type correctness. *)

(* A table past S1 has a player: TableLock demands PlayerCountMin of them. *)
(* Only Recovery, which is accepted at S1 too, ends a table without one.   *)
Populated ==
    st.state_class \notin {"S1_SEAT_OPEN", "RECOVERED"} => Len(st.players) > 0

TypeInv == TypeOK /\ Populated

(* Whatever cards, bets and heights it is given, and whatever the rule set *)
(* pays or charges, the engine keeps a RoundState: amounts stay in the     *)
(* range asSatoshis accepts and the acting seat stays a seat.              *)
THEOREM TypeCorrect == Spec => [](TypeOK /\ Populated)
<1> USE EngineAssumption, RulesAssumption, InputAssumption
<1>1. Init => TypeInv
  BY DEF Init, initialState, TypeInv, TypeOK, Populated, RoundStates, StateClasses,
         ActionTypes, Satoshis
<1>2. TypeInv /\ [Next]_st => TypeInv'
  <2> SUFFICES ASSUME TypeInv, [Next]_st PROVE TypeInv'
    OBVIOUS
  <2> USE DEF TypeInv, TypeOK, Populated
  <2>0. /\ st \in RoundStates
        /\ Len(st.players) \in Nat
        /\ st.state_class \notin {"S1_SEAT_OPEN", "RECOVERED"} => Len(st.players) > 0
    BY DEF RoundStates
  <2>m. \A class \in StateClasses :
           /\ MoveTo(st, class) \in RoundStates
           /\ MoveTo(st, class).players = st.players
    BY <2>0, MoveToType DEF MoveTo, RoundStates
  <2>c. {"S3_ENTROPY_COMMIT_WINDOW", "S9_CARD_REVEAL_THIRD", "S11_ROTATE_TURN"}
           \subseteq StateClasses
    BY DEF StateClasses
  <2>1. CASE \E a \in JoinActions : Join(a)
    BY <2>0, <2>1, JoinType DEF Join, JoinActions
  <2>2. CASE \E a \in Plain("TableLock") : TableLock(a)
    BY <2>0, <2>2, <2>m, <2>c DEF TableLock, applyTableLock, CanTableLock
  <2>3. CASE \E a \in EntropyCommitActions : EntropyCommit(a)
    BY <2>0, <2>3, EntropyCommitType DEF EntropyCommit, EntropyCommitActions, CanEntropyCommit
  <2>4. CASE \E a \in EntropyRevealActions : EntropyReveal(a)
    BY <2>0, <2>4, EntropyRevealType DEF EntropyReveal, EntropyRevealActions, CanEntropyReveal
  <2>5. CASE \E a \in CardRevealActions : CardReveal(a)
    BY <2>0, <2>5, CardRevealType DEF CardReveal, CardRevealActions, CanCardReveal
  <2>6. CASE \E a \in DealConcealedActions : DealConcealed(a)
    BY <2>0, <2>6 DEF DealConcealed, DealConcealedActions, applyDealConcealed, RoundStates
  <2>7. CASE \E a \in BetActions : Bet(a)
    <3>1. PICK a \in BetActions : Bet(a)
      BY <2>7
    <3>2. st.pot_value + a.bet_amount \in Satoshis
      BY <2>0, <3>1 DEF Bet, CanBet, IsSafeInteger, Satoshis, RoundStates, BetActions
    <3> DEFINE x == [st EXCEPT !.pot_value = @ + a.bet_amount]
    <3>3. x \in RoundStates /\ x.players = st.players
      BY <2>0, <3>2 DEF RoundStates
    <3>4. st' = MoveTo(x, "S9_CARD_REVEAL_THIRD") /\ Len(st.players) > 0
      BY <2>0, <3>1 DEF Bet, applyBet, CanBet
    <3> HIDE DEF x
    <3>5. st' \in RoundStates /\ st'.players = x.players
      BY <2>c, <3>3, <3>4, MoveToType DEF MoveTo, RoundStates
    <3> QED BY <3>3, <3>4, <3>5
  <2>8. CASE \E a \in Plain("Pass") : Pass(a)
    BY <2>0, <2>8, <2>m, <2>c DEF Pass, applyPass, CanPass
  <2>9. CASE \E a \in Plain("Fold") : Fold(a)
    BY <2>0, <2>9, FoldType, SMTT(30) DEF Fold, CanFold
  <2>10. CASE \E a \in Plain("Settle") : Settle(a)
    BY <2>0, <2>10, SettleType DEF Settle, CanSettle, SettleChecks
  <2>11. CASE \E a \in Plain("RotateTurn") : RotateTurn(a)
    BY <2>0, <2>11, RotateTurnType DEF RotateTurn, CanRotateTurn
  <2>12. CASE \E a \in Plain("TableClose") : TableClose(a)
    BY <2>0, <2>12 DEF TableClose, applyTableClose, CanTableClose, RoundStates
  <2>13. CASE \E a \in Plain("Timeout"), height \in Heights : Timeout(a, height)
    BY <2>0, <2>13, <2>m, <2>c DEF Timeout, applyTimeout, CanTimeout
  <2>14. CASE \E a \in Plain("Recovery"), height \in Heights : Recovery(a, height)
    BY <2>0, <2>14 DEF Recovery, applyRecovery, RoundStates, StateClasses
  <2>15. CASE \E d \in DecisionDeadlines : StampDeadline(d)
    BY <2>0, <2>15 DEF StampDeadline, RoundStates
  <2>16. CASE UNCHANGED st
    BY <2>0, <2>16
  <2> QED BY <2>1, <2>2, <2>3, <2>4, <2>5, <2>6, <2>7, <2>8, <2>9, <2>10, <2>11, <2>12,
             <2>13, <2>14, <2>15, <2>16 DEF Next
<1> QED BY <1>1, <1>2, PTL DEF Spec, TypeInv
-----------------------------------------------------------------------------
(* Seats and the order of commitments and openings. *)

OpeningClasses == {"S1_SEAT_OPEN", "S3_ENTROPY_COMMIT_WINDOW", "S4_ENTROPY_REVEAL_WINDOW"}

(* CommitBeforeReveal is not inductive: it must be known which windows have *)
(* closed in which class, and that no card is out while one is open.        *)
EntropyInv ==
    /\ SeatsDistinct
    /\ CommitBeforeReveal
    /\ st.state_class \in {"S1_SEAT_OPEN", "S3_ENTROPY_COMMIT_WINDOW"} =>
          \A i \in DOMAIN st.players : ~st.players[i].revealed
    /\ st.state_class \notin {"S1_SEAT_OPEN", "S3_ENTROPY_COMMIT_WINDOW", "RECOVERED"} =>
          \A i \in DOMAIN st.players : st.players[i].committed
    /\ st.state_class \notin OpeningClasses \cup {"RECOVERED"} =>
          \A i \in DOMAIN st.players : st.players[i].revealed
    /\ st.state_class \in OpeningClasses =>
          st.visible_cards = << >> /\ st.concealed_deck = Null /\ st.acting = Null

(* A step after the entropy phase that leaves the players alone keeps      *)
(* EntropyInv.                                                             *)
LEMMA EntropyInvSame ==
    ASSUME st \in RoundStates, st' \in RoundStates, EntropyInv,
           st'.players = st.players,
           st.state_class \notin OpeningClasses,
           st'.state_class \notin OpeningClasses,
           st.state_class = "RECOVERED" => st' = st
    PROVE  EntropyInv'
<1> QED BY DEF EntropyInv, SeatsDistinct, CommitBeforeReveal, OpeningClasses

(* TypeInv and EntropyInv together are inductive: every handler keeps the  *)
(* order of commitments and reveals.                                       *)
LEMMA SpecInductive == Spec => [](TypeInv /\ EntropyInv)
<1> USE EngineAssumption, RulesAssumption, InputAssumption
<1>1. Init => EntropyInv
  BY DEF Init, initialState, EntropyInv, SeatsDistinct, CommitBeforeReveal, OpeningClasses
<1>2. TypeInv /\ TypeInv' /\ EntropyInv /\ [Next]_st => EntropyInv'
  <2> SUFFICES ASSUME TypeInv, TypeInv', EntropyInv, [Next]_st PROVE EntropyInv'
    OBVIOUS
  <2>0. st \in RoundStates /\ st' \in RoundStates /\ st.players \in Seq(Players)
    BY DEF TypeInv, TypeOK, RoundStates
  <2> USE DEF OpeningClasses
  <2>1. CASE \E a \in JoinActions : Join(a)
    <3>1. PICK a \in JoinActions : Join(a)
      BY <2>1
    <3> DEFINE n == Len(st.players)
               p == [seat |-> JoinSeat(st, a), pubkey |-> a.player_pubkey,
                     status |-> "joined", stake |-> a.stake_amount,
                     committed |-> FALSE, commitment |-> Null,
                     revealed |-> FALSE, entropy |-> Null]
    <3>2. st' = [st EXCEPT !.players = Append(st.players, p)]
      BY <3>1 DEF Join, applyJoin
    <3>3. p.seat = JoinSeat(st, a) /\ ~p.revealed
      OBVIOUS
    <3>4. JoinSeat(st, a) \notin Seats(st) /\ st.state_class = "S1_SEAT_OPEN"
      BY <3>1 DEF Join, CanJoin
    <3>p. p \in Players
      <4>0. Len(st.players) \in Nat
        BY <2>0
      <4>a. a.acting_player_seat \in Nat \cup {Null}
        BY DEF JoinActions
      <4>1. JoinSeat(st, a) \in Nat
        BY <4>0, <4>a DEF JoinSeat
      <4> QED BY <3>1, <4>1 DEF Players, Join, CanJoin, JoinActions
    <3> HIDE DEF p
    <3>a. st'.players = Append(st.players, p)
      BY <2>0, <3>2 DEF RoundStates
    <3>5. /\ DOMAIN st'.players = 1 .. n + 1
          /\ DOMAIN st.players = 1 .. n
          /\ n \in Nat
          /\ st'.players[n + 1] = p
          /\ \A i \in 1 .. n : st'.players[i] = st.players[i]
      BY <2>0, <3>p, <3>a
    <3>6. \A i \in 1 .. n : st.players[i].seat # p.seat
      BY <3>3, <3>4, <3>5 DEF Seats
    <3> HIDE DEF n
    <3>7. SeatsDistinct'
      <4>1. \A i, j \in 1 .. n : st.players[i].seat = st.players[j].seat => i = j
        BY <3>5 DEF EntropyInv, SeatsDistinct
      <4>2. \A i \in 1 .. n + 1 : i \in 1 .. n \/ i = n + 1
        BY <3>5
      <4>3. ASSUME NEW i \in 1 .. n + 1, NEW j \in 1 .. n + 1,
                   st'.players[i].seat = st'.players[j].seat
            PROVE  i = j
        BY <3>5, <3>6, <4>1, <4>2, <4>3
      <4> QED BY <3>5, <4>3 DEF SeatsDistinct
    <3>8. \A i \in DOMAIN st'.players : ~st'.players[i].revealed
      BY <3>3, <3>4, <3>5 DEF EntropyInv
    <3>9. /\ st'.state_class = "S1_SEAT_OPEN"
          /\ st'.visible_cards = << >> /\ st'.concealed_deck = Null /\ st'.acting = Null
      BY <2>0, <3>2, <3>4 DEF RoundStates, EntropyInv
    <3> QED BY <3>7, <3>8, <3>9 DEF EntropyInv, CommitBeforeReveal
  <2>2. CASE \E a \in Plain("TableLock") : TableLock(a)
    <3>1. /\ st.state_class = "S1_SEAT_OPEN"
          /\ st'.state_class = "S3_ENTROPY_COMMIT_WINDOW"
          /\ st'.players = st.players /\ st'.visible_cards = st.visible_cards
          /\ st'.concealed_deck = st.concealed_deck /\ st'.acting = st.acting
      BY <2>0, <2>2 DEF TableLock, CanTableLock, applyTableLock, MoveTo, RoundStates
    <3> QED BY <3>1 DEF EntropyInv, SeatsDistinct, CommitBeforeReveal
  <2>3. CASE \E a \in EntropyCommitActions : EntropyCommit(a)
    <3>1. PICK a \in EntropyCommitActions : EntropyCommit(a)
      BY <2>3
    <3> DEFINE i == SeatIndex(st, a.acting_player_seat)
               p == [st.players[i] EXCEPT !.committed = TRUE, !.commitment = a.commitment_hash]
               players == [st.players EXCEPT ![i] = p]
    <3>2. i \in DOMAIN st.players /\ st.state_class = "S3_ENTROPY_COMMIT_WINDOW"
      BY <3>1, SeatIndexIn DEF EntropyCommit, CanEntropyCommit
    <3>3. st.players[i] \in Players
      BY <2>0, <3>2
    <3>4. p.seat = st.players[i].seat /\ p.revealed = st.players[i].revealed
      BY <3>3 DEF Players
    <3>5. st' = MoveTo([st EXCEPT !.players = players],
                       IF AllCommitted(players) THEN "S4_ENTROPY_REVEAL_WINDOW"
                                                ELSE "S3_ENTROPY_COMMIT_WINDOW")
      BY <3>1 DEF EntropyCommit, applyEntropyCommit
    <3> HIDE DEF i, p
    <3>6. /\ st'.players = players /\ st'.visible_cards = st.visible_cards
          /\ st'.concealed_deck = st.concealed_deck /\ st'.acting = st.acting
          /\ \/ st'.state_class = "S3_ENTROPY_COMMIT_WINDOW"
             \/ st'.state_class = "S4_ENTROPY_REVEAL_WINDOW" /\ AllCommitted(players)
      BY <2>0, <3>5 DEF MoveTo, RoundStates
    <3>7. /\ DOMAIN players = DOMAIN st.players
          /\ \A j \in DOMAIN players : /\ players[j].seat = st.players[j].seat
                                       /\ players[j].revealed = st.players[j].revealed
      BY <2>0, <3>2, <3>4
    <3> HIDE DEF players
    <3> QED BY <3>2, <3>6, <3>7 DEF EntropyInv, SeatsDistinct, CommitBeforeReveal, AllCommitted
  <2>4. CASE \E a \in EntropyRevealActions : EntropyReveal(a)
    <3>1. PICK a \in EntropyRevealActions : EntropyReveal(a)
      BY <2>4
    <3> DEFINE i == SeatIndex(st, a.acting_player_seat)
               p == [st.players[i] EXCEPT !.revealed = TRUE, !.entropy = a.entropy,
                                          !.status = "active"]
               players == [st.players EXCEPT ![i] = p]
    <3>2. i \in DOMAIN st.players /\ st.state_class = "S4_ENTROPY_REVEAL_WINDOW"
      BY <3>1, SeatIndexIn DEF EntropyReveal, CanEntropyReveal
    <3>3. st.players[i] \in Players
      BY <2>0, <3>2
    <3>4. p.seat = st.players[i].seat /\ p.committed = st.players[i].committed
      BY <3>3 DEF Players
    <3>5. st' = MoveTo([st EXCEPT !.players = players],
                       IF AllRevealed(players) THEN "S5_DECK_COMMITTED"
                                               ELSE "S4_ENTROPY_REVEAL_WINDOW")
      BY <3>1 DEF EntropyReveal, applyEntropyReveal
    <3> HIDE DEF i, p
    <3>6. /\ st'.players = players /\ st'.visible_cards = st.visible_cards
          /\ st'.concealed_deck = st.concealed_deck /\ st'.acting = st.acting
          /\ \/ st'.state_class = "S4_ENTROPY_REVEAL_WINDOW"
             \/ st'.state_class = "S5_DECK_COMMITTED" /\ AllRevealed(players)
      BY <2>0, <3>5 DEF MoveTo, RoundStates
    <3>7. /\ DOMAIN players = DOMAIN st.players
          /\ \A j \in DOMAIN players : /\ players[j].seat = st.players[j].seat
                                       /\ players[j].committed = st.players[j].committed
      BY <2>0, <3>2, <3>4
    <3> HIDE DEF players
    <3> QED BY <3>2, <3>6, <3>7 DEF EntropyInv, SeatsDistinct, CommitBeforeReveal, AllRevealed
  <2>5. CASE \E a \in CardRevealActions : CardReveal(a)
    <3>1. /\ st.state_class \in {"S5_DECK_COMMITTED", "S6_CARD_REVEAL_FIRST",
                                 "S9_CARD_REVEAL_THIRD"}
          /\ st'.players = st.players
          /\ st'.state_class \in {"S6_CARD_REVEAL_FIRST", "S8_BET_DECISION",
                                  "S10_SETTLED_ROUND"}
      BY <2>0, <2>5 DEF CardReveal, CanCardReveal, applyCardReveal, MoveTo, RoundStates
    <3> QED BY <2>0, <3>1, EntropyInvSame
  <2>6. CASE \E a \in DealConcealedActions : DealConcealed(a)
    <3>1. /\ st.state_class = "S5_DECK_COMMITTED" /\ st'.state_class = "S5_DECK_COMMITTED"
          /\ st'.players = st.players
      BY <2>0, <2>6 DEF DealConcealed, CanDealConcealed, applyDealConcealed, RoundStates
    <3> QED BY <2>0, <3>1, EntropyInvSame
  <2>7. CASE \E a \in BetActions : Bet(a)
    <3>1. /\ st.state_class = "S8_BET_DECISION" /\ st'.state_class = "S9_CARD_REVEAL_THIRD"
          /\ st'.players = st.players
      BY <2>0, <2>7 DEF Bet, CanBet, applyBet, MoveTo, RoundStates
    <3> QED BY <2>0, <3>1, EntropyInvSame
  <2>8. CASE \E a \in Plain("Pass") : Pass(a)
    <3>1. /\ st.state_class = "S8_BET_DECISION" /\ st'.state_class = "S11_ROTATE_TURN"
          /\ st'.players = st.players
      BY <2>0, <2>8 DEF Pass, CanPass, applyPass, MoveTo, RoundStates
    <3> QED BY <2>0, <3>1, EntropyInvSame
  <2>9. CASE \E a \in Plain("Fold") : Fold(a)
    <3>1. PICK a \in Plain("Fold") : Fold(a)
      BY <2>9
    <3> DEFINE i == SeatIndex(st, a.acting_player_seat)
               p == [st.players[i] EXCEPT !.status = "folded"]
               players == [st.players EXCEPT ![i] = p]
    <3>2. i \in DOMAIN st.players /\ st.state_class = "S8_BET_DECISION"
      BY <3>1, SeatIndexIn DEF Fold, CanFold
    <3>3. st.players[i] \in Players
      BY <2>0, <3>2
    <3>4. /\ p.seat = st.players[i].seat /\ p.committed = st.players[i].committed
          /\ p.revealed = st.players[i].revealed
      BY <3>3 DEF Players
    <3>5. st'.players = players /\ st'.state_class = "S11_ROTATE_TURN"
      BY <2>0, <3>1 DEF Fold, applyFold, MoveTo, RoundStates
    <3> HIDE DEF i, p
    <3>6. /\ DOMAIN players = DOMAIN st.players
          /\ \A j \in DOMAIN players : /\ players[j].seat = st.players[j].seat
                                       /\ players[j].committed = st.players[j].committed
                                       /\ players[j].revealed = st.players[j].revealed
      BY <2>0, <3>2, <3>4
    <3> HIDE DEF players
    <3> QED BY <3>2, <3>5, <3>6 DEF EntropyInv, SeatsDistinct, CommitBeforeReveal
  <2>10. CASE \E a \in Plain("Settle") : Settle(a)
    <3>1. /\ st.state_class = "S10_SETTLED_ROUND" /\ st'.state_class = "S11_ROTATE_TURN"
          /\ st'.players = [i \in DOMAIN st.players |->
                               [st.players[i] EXCEPT !.stake = SettleStake(st, i)]]
      BY <2>0, <2>10 DEF Settle, CanSettle, SettleChecks, applySettle, MoveTo, RoundStates
    <3>2. \A i \in DOMAIN st.players : st.players[i] \in Players
      BY <2>0
    <3>3. /\ DOMAIN st'.players = DOMAIN st.players
          /\ \A j \in DOMAIN st.players :
                /\ st'.players[j].seat = st.players[j].seat
                /\ st'.players[j].committed = st.players[j].committed
                /\ st'.players[j].revealed = st.players[j].revealed
      BY <3>1, <3>2 DEF Players
    <3> QED BY <3>1, <3>3 DEF EntropyInv, SeatsDistinct, CommitBeforeReveal
  <2>11. CASE \E a \in Plain("RotateTurn") : RotateTurn(a)
    <3>1. /\ st.state_class = "S11_ROTATE_TURN"
          /\ st'.state_class \in {"S6_CARD_REVEAL_FIRST", "S12_TABLE_CLOSE"}
          /\ st'.players = st.players
      BY <2>0, <2>11 DEF RotateTurn, CanRotateTurn, applyRotateTurn, MoveTo, RoundStates
    <3> QED BY <2>0, <3>1, EntropyInvSame
  <2>12. CASE \E a \in Plain("TableClose") : TableClose(a)
    <3>1. /\ st.state_class = "S12_TABLE_CLOSE" /\ st'.state_class = "S12_TABLE_CLOSE"
          /\ st'.players = st.players
      BY <2>0, <2>12 DEF TableClose, CanTableClose, applyTableClose, RoundStates
    <3> QED BY <2>0, <3>1, EntropyInvSame
  <2>13. CASE \E a \in Plain("Timeout"), height \in Heights : Timeout(a, height)
    <3>1. /\ st.state_class = "S8_BET_DECISION" /\ st'.state_class = "S11_ROTATE_TURN"
          /\ st'.players = st.players
      BY <2>0, <2>13 DEF Timeout, CanTimeout, applyTimeout, MoveTo, RoundStates
    <3> QED BY <2>0, <3>1, EntropyInvSame
  <2>14. CASE \E a \in Plain("Recovery"), height \in Heights : Recovery(a, height)
    <3>1. /\ st'.state_class = "RECOVERED"
          /\ st'.players = st.players /\ st'.visible_cards = st.visible_cards
          /\ st'.concealed_deck = st.concealed_deck /\ st'.acting = st.acting
      BY <2>0, <2>14 DEF Recovery, applyRecovery, RoundStates
    <3> QED BY <3>1 DEF EntropyInv, SeatsDistinct, CommitBeforeReveal
  <2>15. CASE \E d \in DecisionDeadlines : StampDeadline(d)
    <3>1. /\ st.state_class = "S8_BET_DECISION" /\ st'.state_class = "S8_BET_DECISION"
          /\ st'.players = st.players
      BY <2>0, <2>15 DEF StampDeadline, RoundStates
    <3> QED BY <2>0, <3>1, EntropyInvSame
  <2>16. CASE UNCHANGED st
    BY <2>16 DEF EntropyInv, SeatsDistinct, CommitBeforeReveal
  <2> QED BY <2>1, <2>2, <2>3, <2>4, <2>5, <2>6, <2>7, <2>8, <2>9, <2>10, <2>11, <2>12,
             <2>13, <2>14, <2>15, <2>16 DEF Next
<1>3. Spec => []TypeInv
  BY TypeCorrect DEF TypeInv
<1> QED BY <1>1, <1>2, <1>3, PTL DEF Spec

(* No two players share a seat, nobody opens its entropy before every seat *)
(* has committed, and no card is out before every seat has opened.         *)
THEOREM EntropyOrder == Spec => [](SeatsDistinct /\ CommitBeforeReveal)
<1>1. EntropyInv => SeatsDistinct /\ CommitBeforeReveal
  BY DEF EntropyInv
<1> QED BY <1>1, SpecInductive, PTL

-----------------------------------------------------------------------------
(* Rounds: open cards, the acting seat and the pot. *)

(* computeValueTransfer gives the pot what it takes from the player. *)
LEMMA TransferBalanced ==
    ASSUME NEW outcome \in Outcomes, NEW bet \in Int
    PROVE  /\ playerDelta(outcome, bet) \in Int
           /\ potDelta(outcome, bet) \in Int
           /\ playerDelta(outcome, bet) + potDelta(outcome, bet) = 0
<1>1. bet * WinMultiplier \in Int /\ bet * LossMultiplier \in Int
  BY RulesAssumption
<1> DEFINE w == bet * WinMultiplier
           l == bet * LossMultiplier
<1>2. w \in Int /\ l \in Int
  BY <1>1
<1>3. /\ playerDelta(outcome, bet) =
           CASE outcome = "win" -> w [] outcome = "loss" -> -l
             [] outcome = "consecutive_penalty" -> -ConsecutivePenalty
             [] outcome = "equal_penalty" -> -EqualPenalty
      /\ potDelta(outcome, bet) =
           CASE outcome = "win" -> -w [] outcome = "loss" -> l
             [] outcome = "consecutive_penalty" -> ConsecutivePenalty
             [] outcome = "equal_penalty" -> EqualPenalty
  BY DEF playerDelta, potDelta
<1> HIDE DEF w, l
<1> QED BY <1>2, <1>3, RulesAssumption DEF Outcomes

(* classifyInBetweenRound returns one of the four outcomes. *)
LEMMA ClassifyIsOutcome ==
    \A cards : classifyInBetweenRound(cards) \in Outcomes
BY DEF classifyInBetweenRound, Outcomes

ActingSeated == st.acting # Null => st.acting \in Seats(st)

(* The number of open cards in each class, as the code has it: the first   *)
(* round opens its first card at S5, a later one starts at S6 with none.   *)
VisibleCards(s) ==
    LET count == Len(s.visible_cards)
        first == s.round_number = 0
    IN  /\ s.state_class \in {"S1_SEAT_OPEN", "S3_ENTROPY_COMMIT_WINDOW",
                              "S4_ENTROPY_REVEAL_WINDOW", "S5_DECK_COMMITTED"}
             => count = 0 /\ first
        /\ s.state_class = "S6_CARD_REVEAL_FIRST" => count = IF first THEN 1 ELSE 0
        /\ s.state_class \in {"S8_BET_DECISION", "S9_CARD_REVEAL_THIRD"}
             => count = IF first THEN 2 ELSE 1
        /\ s.state_class = "S10_SETTLED_ROUND" => count = IF first THEN 3 ELSE 2

CardsInStep == VisibleCards(st)

(* PotIsOneBet needs to know that the pot is empty until the first bet and *)
(* that a later round reaches S10 with two cards only.                     *)
RoundInv ==
    /\ CardsInStep
    /\ ActingSeated
    /\ st.round_number = 0 /\ st.state_class \in OpeningClasses \cup
          {"S5_DECK_COMMITTED", "S6_CARD_REVEAL_FIRST", "S8_BET_DECISION"}
         => st.pot_value = 0
    /\ st.round_number = 0 /\ st.state_class \in {"S9_CARD_REVEAL_THIRD", "S10_SETTLED_ROUND"}
         => st.pot_value \in MinBet .. MaxBet

(* Records that keep their seats leave the set of seats alone. *)
LEMMA SeatsUnchanged ==
    ASSUME NEW s, NEW t, DOMAIN t.players = DOMAIN s.players,
           \A i \in DOMAIN s.players : t.players[i].seat = s.players[i].seat
    PROVE  Seats(t) = Seats(s)
BY DEF Seats

(* Handlers that rewrite player records keep their seats. *)
LEMMA RewritesKeepSeats ==
    ASSUME NEW s \in RoundStates, NEW a
    PROVE  /\ CanEntropyCommit(s, a) => Seats(applyEntropyCommit(s, a)) = Seats(s)
           /\ CanEntropyReveal(s, a) => Seats(applyEntropyReveal(s, a)) = Seats(s)
           /\ CanFold(s, a) => Seats(applyFold(s, a)) = Seats(s)
           /\ Seats(applySettle(s)) = Seats(s)
<1> DEFINE i == SeatIndex(s, a.acting_player_seat)
<1>0. s.players \in Seq(Players) /\ \A j \in DOMAIN s.players : s.players[j] \in Players
  BY DEF RoundStates
<1>1. a.acting_player_seat \in Seats(s) => i \in DOMAIN s.players
  BY SeatIndexIn
<1>2. \A p : LET t == [s.players EXCEPT ![i] = p]
             IN  a.acting_player_seat \in Seats(s) /\ p.seat = s.players[i].seat =>
                   /\ DOMAIN t = DOMAIN s.players
                   /\ \A j \in DOMAIN s.players : t[j].seat = s.players[j].seat
  BY <1>0, <1>1
<1>3. ASSUME CanEntropyCommit(s, a) PROVE Seats(applyEntropyCommit(s, a)) = Seats(s)
  <2> DEFINE p == [s.players[i] EXCEPT !.committed = TRUE, !.commitment = a.commitment_hash]
  <2>1. applyEntropyCommit(s, a).players = [s.players EXCEPT ![i] = p]
    BY DEF applyEntropyCommit, MoveTo, RoundStates
  <2>2. p.seat = s.players[i].seat /\ a.acting_player_seat \in Seats(s)
    BY <1>0, <1>1, <1>3 DEF CanEntropyCommit, Players
  <2> HIDE DEF i, p
  <2> QED BY <1>2, <2>1, <2>2, SeatsUnchanged
<1>4. ASSUME CanEntropyReveal(s, a) PROVE Seats(applyEntropyReveal(s, a)) = Seats(s)
  <2> DEFINE p == [s.players[i] EXCEPT !.revealed = TRUE, !.entropy = a.entropy,
                                       !.status = "active"]
  <2>1. applyEntropyReveal(s, a).players = [s.players EXCEPT ![i] = p]
    BY DEF applyEntropyReveal, MoveTo, RoundStates
  <2>2. p.seat = s.players[i].seat /\ a.acting_player_seat \in Seats(s)
    BY <1>0, <1>1, <1>4 DEF CanEntropyReveal, Players
  <2> HIDE DEF i, p
  <2> QED BY <1>2, <2>1, <2>2, SeatsUnchanged
<1>5. ASSUME CanFold(s, a) PROVE Seats(applyFold(s, a)) = Seats(s)
  <2> DEFINE p == [s.players[i] EXCEPT !.status = "folded"]
  <2>1. applyFold(s, a).players = [s.players EXCEPT ![i] = p]
    BY DEF applyFold, MoveTo, RoundStates
  <2>2. p.seat = s.players[i].seat /\ a.acting_player_seat \in Seats(s)
    BY <1>0, <1>1, <1>5 DEF CanFold, Players
  <2> HIDE DEF i, p
  <2> QED BY <1>2, <2>1, <2>2, SeatsUnchanged
<1>6. Seats(applySettle(s)) = Seats(s)
  <2>1. applySettle(s).players = [j \in DOMAIN s.players |->
                                    [s.players[j] EXCEPT !.stake = SettleStake(s, j)]]
    BY DEF applySettle, MoveTo, RoundStates
  <2>2. \A j \in DOMAIN s.players : applySettle(s).players[j].seat = s.players[j].seat
    BY <1>0, <2>1 DEF Players
  <2> QED BY <2>1, <2>2, SeatsUnchanged
<1> QED BY <1>3, <1>4, <1>5, <1>6

(* A fresh table satisfies RoundInv. *)
LEMMA RoundInvInit == Init => RoundInv
BY EngineAssumption
   DEF Init, initialState, RoundInv, CardsInStep, VisibleCards, ActingSeated,
       OpeningClasses

(* Every step of the engine keeps RoundInv. *)
LEMMA RoundInvNext == TypeInv /\ TypeInv' /\ EntropyInv /\ RoundInv /\ [Next]_st => RoundInv'
<1> USE EngineAssumption, RulesAssumption, InputAssumption
<1> SUFFICES ASSUME TypeInv, TypeInv', EntropyInv, RoundInv, [Next]_st PROVE RoundInv'
  OBVIOUS
<1>0. /\ st \in RoundStates /\ st' \in RoundStates
      /\ st.players \in Seq(Players)
      /\ st.round_number \in Nat
      /\ Len(st.visible_cards) \in Nat
      /\ st.visible_cards \in Seq(Ordinals)
  BY DEF TypeInv, TypeOK, RoundStates
<1> USE DEF OpeningClasses
<1> DEFINE Same == /\ st'.acting = st.acting
                   /\ st'.visible_cards = st.visible_cards
                   /\ st'.round_number = st.round_number
<1>1. CASE \E a \in JoinActions : Join(a)
  <2>1. /\ Same /\ st'.pot_value = st.pot_value
        /\ st.state_class = "S1_SEAT_OPEN" /\ st'.state_class = "S1_SEAT_OPEN"
    BY <1>0, <1>1 DEF Join, CanJoin, applyJoin, RoundStates
  <2>2. st'.acting = Null
    BY <2>1 DEF EntropyInv
  <2> QED BY <2>1, <2>2 DEF RoundInv, CardsInStep, VisibleCards, ActingSeated
<1>2. CASE \E a \in Plain("TableLock") : TableLock(a)
  <2>1. /\ Same /\ st'.pot_value = st.pot_value /\ st'.players = st.players
        /\ st.state_class = "S1_SEAT_OPEN" /\ st'.state_class = "S3_ENTROPY_COMMIT_WINDOW"
    BY <1>0, <1>2 DEF TableLock, CanTableLock, applyTableLock, MoveTo, RoundStates
  <2> QED BY <2>1 DEF RoundInv, CardsInStep, VisibleCards, ActingSeated, Seats
<1>3. CASE \E a \in EntropyCommitActions : EntropyCommit(a)
  <2>1. PICK a \in EntropyCommitActions : EntropyCommit(a)
    BY <1>3
  <2>2. /\ Same /\ st'.pot_value = st.pot_value
        /\ st.state_class = "S3_ENTROPY_COMMIT_WINDOW"
        /\ st'.state_class \in {"S3_ENTROPY_COMMIT_WINDOW", "S4_ENTROPY_REVEAL_WINDOW"}
    BY <1>0, <2>1 DEF EntropyCommit, CanEntropyCommit, applyEntropyCommit, MoveTo, RoundStates
  <2>3. Seats(st') = Seats(st)
    BY <1>0, <2>1, RewritesKeepSeats DEF EntropyCommit
  <2> QED BY <2>2, <2>3 DEF RoundInv, CardsInStep, VisibleCards, ActingSeated
<1>4. CASE \E a \in EntropyRevealActions : EntropyReveal(a)
  <2>1. PICK a \in EntropyRevealActions : EntropyReveal(a)
    BY <1>4
  <2>2. /\ Same /\ st'.pot_value = st.pot_value
        /\ st.state_class = "S4_ENTROPY_REVEAL_WINDOW"
        /\ st'.state_class \in {"S4_ENTROPY_REVEAL_WINDOW", "S5_DECK_COMMITTED"}
    BY <1>0, <2>1 DEF EntropyReveal, CanEntropyReveal, applyEntropyReveal, MoveTo, RoundStates
  <2>3. Seats(st') = Seats(st)
    BY <1>0, <2>1, RewritesKeepSeats DEF EntropyReveal
  <2> QED BY <2>2, <2>3 DEF RoundInv, CardsInStep, VisibleCards, ActingSeated
<1>5. CASE \E a \in CardRevealActions : CardReveal(a)
  <2>1. PICK a \in CardRevealActions : CardReveal(a)
    BY <1>5
  <2>2. /\ st'.pot_value = st.pot_value /\ st'.players = st.players
        /\ st'.round_number = st.round_number
        /\ st'.visible_cards = Append(st.visible_cards, a.card)
        /\ \/ /\ st.state_class = "S5_DECK_COMMITTED"
              /\ st'.state_class = "S6_CARD_REVEAL_FIRST"
              /\ st'.acting = st.acting
           \/ /\ st.state_class = "S6_CARD_REVEAL_FIRST"
              /\ st'.state_class = "S8_BET_DECISION"
              /\ st'.acting = IF st.acting = Null THEN st.players[1].seat ELSE st.acting
           \/ /\ st.state_class = "S9_CARD_REVEAL_THIRD"
              /\ st'.state_class = "S10_SETTLED_ROUND"
              /\ st'.acting = st.acting
    BY <1>0, <2>1 DEF CardReveal, CanCardReveal, applyCardReveal, MoveTo, RoundStates
  <2>3. Len(st'.visible_cards) = Len(st.visible_cards) + 1
    BY <1>0, <2>1, <2>2 DEF CardRevealActions
  <2>4. Len(st.players) > 0 /\ 1 \in DOMAIN st.players
    BY <1>0, <2>2 DEF TypeInv, Populated
  <2>5. Seats(st') = Seats(st) /\ st.players[1].seat \in Seats(st)
    BY <2>2, <2>4 DEF Seats
  <2>6. VisibleCards(st')
    BY <1>0, <2>2, <2>3 DEF RoundInv, CardsInStep, VisibleCards
  <2>7. ActingSeated'
    BY <2>2, <2>5 DEF RoundInv, ActingSeated
  <2> QED BY <2>2, <2>6, <2>7 DEF RoundInv, CardsInStep
<1>6. CASE \E a \in DealConcealedActions : DealConcealed(a)
  <2>1. /\ Same /\ st'.pot_value = st.pot_value /\ st'.players = st.players
        /\ st'.state_class = st.state_class
    BY <1>0, <1>6 DEF DealConcealed, applyDealConcealed, RoundStates
  <2> QED BY <2>1 DEF RoundInv, CardsInStep, VisibleCards, ActingSeated, Seats
<1>7. CASE \E a \in BetActions : Bet(a)
  <2>1. PICK a \in BetActions : Bet(a)
    BY <1>7
  <2>2. /\ Same /\ st'.players = st.players
        /\ st'.pot_value = st.pot_value + a.bet_amount
        /\ a.bet_amount \in MinBet .. MaxBet
        /\ st.state_class = "S8_BET_DECISION" /\ st'.state_class = "S9_CARD_REVEAL_THIRD"
    BY <1>0, <2>1 DEF Bet, CanBet, applyBet, MoveTo, RoundStates
  <2>3. st.round_number = 0 => st'.pot_value \in MinBet .. MaxBet
    BY <2>2 DEF RoundInv, Satoshis
  <2> QED BY <2>2, <2>3 DEF RoundInv, CardsInStep, VisibleCards, ActingSeated, Seats
<1>8. CASE \E a \in Plain("Pass") : Pass(a)
  <2>1. Same /\ st'.players = st.players /\ st'.state_class = "S11_ROTATE_TURN"
    BY <1>0, <1>8 DEF Pass, applyPass, MoveTo, RoundStates
  <2> QED BY <2>1 DEF RoundInv, CardsInStep, VisibleCards, ActingSeated, Seats
<1>9. CASE \E a \in Plain("Fold") : Fold(a)
  <2>1. PICK a \in Plain("Fold") : Fold(a)
    BY <1>9
  <2>2. Same /\ st'.state_class = "S11_ROTATE_TURN"
    BY <1>0, <2>1 DEF Fold, applyFold, MoveTo, RoundStates
  <2>3. Seats(st') = Seats(st)
    BY <1>0, <2>1, RewritesKeepSeats DEF Fold
  <2> QED BY <2>2, <2>3 DEF RoundInv, CardsInStep, VisibleCards, ActingSeated
<1>10. CASE \E a \in Plain("Settle") : Settle(a)
  <2>1. Same /\ st'.state_class = "S11_ROTATE_TURN"
    BY <1>0, <1>10 DEF Settle, applySettle, MoveTo, RoundStates
  <2>2. Seats(st') = Seats(st)
    BY <1>0, <1>10, RewritesKeepSeats DEF Settle
  <2> QED BY <2>1, <2>2 DEF RoundInv, CardsInStep, VisibleCards, ActingSeated
<1>11. CASE \E a \in Plain("RotateTurn") : RotateTurn(a)
  <2>1. /\ st'.players = st.players
        /\ \/ Same /\ st'.state_class = "S12_TABLE_CLOSE"
           \/ /\ st'.state_class = "S6_CARD_REVEAL_FIRST"
              /\ st'.acting = NextSeat(st)
              /\ st'.visible_cards = << >>
              /\ st'.round_number = st.round_number + 1
    BY <1>0, <1>11 DEF RotateTurn, applyRotateTurn, MoveTo, RoundStates
  <2>2. NextSeat(st) \in Seats(st) /\ Seats(st') = Seats(st)
    BY <1>0, <1>11, <2>1, NextSeatIn DEF RotateTurn, CanRotateTurn, Seats
  <2>3. CASE Same /\ st'.state_class = "S12_TABLE_CLOSE"
    BY <2>2, <2>3 DEF RoundInv, CardsInStep, VisibleCards, ActingSeated
  <2>4. CASE st'.state_class = "S6_CARD_REVEAL_FIRST"
    <3>1. /\ st'.round_number # 0 /\ Len(st'.visible_cards) = 0
          /\ st'.acting \in Seats(st)
      BY <1>0, <2>1, <2>2, <2>4
    <3>2. VisibleCards(st')
      BY <2>4, <3>1 DEF VisibleCards
    <3> QED BY <2>2, <2>4, <3>1, <3>2 DEF RoundInv, CardsInStep, ActingSeated
  <2> QED BY <2>1, <2>3, <2>4
<1>12. CASE \E a \in Plain("TableClose") : TableClose(a)
  <2>1. Same /\ st'.players = st.players /\ st'.state_class = "S12_TABLE_CLOSE"
    BY <1>0, <1>12 DEF TableClose, CanTableClose, applyTableClose, RoundStates
  <2> QED BY <2>1 DEF RoundInv, CardsInStep, VisibleCards, ActingSeated, Seats
<1>13. CASE \E a \in Plain("Timeout"), height \in Heights : Timeout(a, height)
  <2>1. Same /\ st'.players = st.players /\ st'.state_class = "S11_ROTATE_TURN"
    BY <1>0, <1>13 DEF Timeout, applyTimeout, MoveTo, RoundStates
  <2> QED BY <2>1 DEF RoundInv, CardsInStep, VisibleCards, ActingSeated, Seats
<1>14. CASE \E a \in Plain("Recovery"), height \in Heights : Recovery(a, height)
  <2>1. Same /\ st'.players = st.players /\ st'.state_class = "RECOVERED"
    BY <1>0, <1>14 DEF Recovery, applyRecovery, RoundStates
  <2> QED BY <2>1 DEF RoundInv, CardsInStep, VisibleCards, ActingSeated, Seats
<1>15. CASE \E d \in DecisionDeadlines : StampDeadline(d)
  <2>1. /\ Same /\ st'.pot_value = st.pot_value /\ st'.players = st.players
        /\ st'.state_class = st.state_class
    BY <1>0, <1>15 DEF StampDeadline, RoundStates
  <2> QED BY <2>1 DEF RoundInv, CardsInStep, VisibleCards, ActingSeated, Seats
<1>16. CASE UNCHANGED st
  BY <1>16 DEF RoundInv, CardsInStep, VisibleCards, ActingSeated, Seats
<1> QED BY <1>1, <1>2, <1>3, <1>4, <1>5, <1>6, <1>7, <1>8, <1>9, <1>10, <1>11, <1>12,
           <1>13, <1>14, <1>15, <1>16 DEF Next

LEMMA SpecRoundInv == Spec => []RoundInv
BY SpecInductive, RoundInvInit, RoundInvNext, PTL DEF Spec

(* Whenever Settle is accepted, the pot it takes for the bet is exactly    *)
(* one legal bet.                                                          *)
THEOREM OneBetPerSettlement == Spec => []PotIsOneBet
<1>1. RoundInv => PotIsOneBet
  <2> SUFFICES ASSUME RoundInv, CanSettle(st) PROVE st.pot_value \in MinBet .. MaxBet
    BY DEF PotIsOneBet
  <2>1. st.state_class = "S10_SETTLED_ROUND" /\ Len(st.visible_cards) = 3
    BY DEF CanSettle, SettleChecks
  <2>2. st.round_number = 0
    BY <2>1 DEF RoundInv, CardsInStep, VisibleCards
  <2> QED BY <2>1, <2>2 DEF RoundInv
<1> QED BY <1>1, SpecRoundInv, PTL

(* applyCardReveal and applyRotateTurn: no card is open before its class,  *)
(* whatever was open in the round before.                                  *)
THEOREM CardsByClass == Spec => []NoCardTooEarly
<1>1. RoundInv => NoCardTooEarly
  BY DEF RoundInv, CardsInStep, VisibleCards, NoCardTooEarly
<1> QED BY <1>1, SpecRoundInv, PTL
-----------------------------------------------------------------------------
(* Where value moves. *)

(* A step that leaves the pot and the stakes alone moves no value. *)
LEMMA ValueUntouched ==
    ASSUME NEW s, NEW t, t.pot_value = s.pot_value,
           \A i \in DOMAIN s.players : t.players[i].stake = s.players[i].stake
    PROVE  ValueStep(s, t)
BY DEF ValueStep

(* Settle moves what it takes from the pot to the acting seat's stake,     *)
(* and touches no other stake.                                             *)
LEMMA SettleMovesValue ==
    ASSUME NEW s \in RoundStates, CanSettle(s), s.acting \in Seats(s),
           \A i, j \in DOMAIN s.players : s.players[i].seat = s.players[j].seat => i = j
    PROVE  ValueStep(s, applySettle(s))
<1> DEFINE o == classifyInBetweenRound(s.visible_cards)
           d == playerDelta(o, s.pot_value)
           e == potDelta(o, s.pot_value)
           t == applySettle(s)
<1>0. /\ s.players \in Seq(Players)
      /\ \A j \in DOMAIN s.players : s.players[j] \in Players /\ s.players[j].stake \in Int
      /\ s.pot_value \in Int
  <2>1. Satoshis \subseteq Int
    BY RulesAssumption DEF Satoshis
  <2>2. s.players \in Seq(Players) /\ s.pot_value \in Int
    BY <2>1 DEF RoundStates
  <2>3. \A j \in DOMAIN s.players : s.players[j] \in Players
    BY <2>2
  <2> QED BY <2>1, <2>2, <2>3 DEF Players
<1>1. d \in Int /\ e \in Int /\ d + e = 0
  BY <1>0, TransferBalanced, ClassifyIsOutcome
<1>2. PICK i \in DOMAIN s.players : s.players[i].seat = s.acting
  BY DEF Seats
<1>3. /\ t.pot_value = s.pot_value + e
      /\ t.players = [j \in DOMAIN s.players |->
                        [s.players[j] EXCEPT !.stake = SettleStake(s, j)]]
  BY DEF applySettle, SettlePot, MoveTo, RoundStates
<1>4. \A j \in DOMAIN s.players : t.players[j].stake = SettleStake(s, j)
  BY <1>0, <1>3 DEF Players
<1>5. /\ SettleStake(s, i) = s.players[i].stake + d
      /\ \A j \in DOMAIN s.players : j # i => SettleStake(s, j) = s.players[j].stake
  BY <1>2 DEF SettleStake
<1> HIDE DEF t, o, d, e
<1>6. t.players[i].stake - s.players[i].stake = s.pot_value - t.pot_value
  BY <1>0, <1>1, <1>3, <1>4, <1>5
<1>7. {j \in DOMAIN s.players : t.players[j].stake # s.players[j].stake} \subseteq {i}
  BY <1>4, <1>5
<1>8. s.state_class = "S10_SETTLED_ROUND"
  BY DEF CanSettle, SettleChecks
<1>9. ValueStep(s, t)
  BY <1>2, <1>6, <1>7, <1>8 DEF ValueStep
<1> QED BY <1>9 DEF t

(* A bet enters the pot at S8 and Settle moves an amount between the pot   *)
(* and the acting seat; no other step touches a stake or the pot.          *)
THEOREM ValueConserved == Spec => ValueMovesAgainstPot
<1> USE EngineAssumption, RulesAssumption, InputAssumption
<1>1. TypeInv /\ EntropyInv /\ RoundInv /\ [Next]_st => [ValueStep(st, st')]_st
  <2> SUFFICES ASSUME TypeInv, EntropyInv, RoundInv, Next PROVE ValueStep(st, st')
    OBVIOUS
  <2>0. /\ st \in RoundStates /\ st.players \in Seq(Players)
        /\ \A j \in DOMAIN st.players : st.players[j] \in Players
    BY DEF TypeInv, TypeOK, RoundStates
  <2>1. CASE \E a \in JoinActions : Join(a)
    <3>1. PICK p : st'.players = Append(st.players, p) /\ st'.pot_value = st.pot_value
      BY <2>0, <2>1 DEF Join, applyJoin, RoundStates
    <3>2. \A i \in DOMAIN st.players : st'.players[i] = st.players[i]
      BY <2>0, <3>1
    <3> QED BY <3>1, <3>2, ValueUntouched
  <2>2. CASE \E a \in Plain("TableLock") : TableLock(a)
    <3>1. st'.pot_value = st.pot_value /\ st'.players = st.players
      BY <2>0, <2>2 DEF TableLock, applyTableLock, MoveTo, RoundStates
    <3> QED BY <3>1, ValueUntouched
  <2>3. CASE \E a \in EntropyCommitActions : EntropyCommit(a)
    <3>1. PICK a \in EntropyCommitActions : EntropyCommit(a)
      BY <2>3
    <3> DEFINE i == SeatIndex(st, a.acting_player_seat)
    <3>2. /\ st'.pot_value = st.pot_value
          /\ st'.players = [st.players EXCEPT ![i] =
                [st.players[i] EXCEPT !.committed = TRUE, !.commitment = a.commitment_hash]]
      BY <2>0, <3>1 DEF EntropyCommit, applyEntropyCommit, MoveTo, RoundStates
    <3> HIDE DEF i
    <3>3. \A j \in DOMAIN st.players : st'.players[j].stake = st.players[j].stake
      BY <2>0, <3>2, SMTT(30) DEF Players
    <3> QED BY <3>2, <3>3, ValueUntouched
  <2>4. CASE \E a \in EntropyRevealActions : EntropyReveal(a)
    <3>1. PICK a \in EntropyRevealActions : EntropyReveal(a)
      BY <2>4
    <3> DEFINE i == SeatIndex(st, a.acting_player_seat)
    <3>2. /\ st'.pot_value = st.pot_value
          /\ st'.players = [st.players EXCEPT ![i] =
                [st.players[i] EXCEPT !.revealed = TRUE, !.entropy = a.entropy,
                                      !.status = "active"]]
      BY <2>0, <3>1 DEF EntropyReveal, applyEntropyReveal, MoveTo, RoundStates
    <3> HIDE DEF i
    <3>3. \A j \in DOMAIN st.players : st'.players[j].stake = st.players[j].stake
      BY <2>0, <3>2, SMTT(30) DEF Players
    <3> QED BY <3>2, <3>3, ValueUntouched
  <2>5. CASE \E a \in CardRevealActions : CardReveal(a)
    <3>1. st'.pot_value = st.pot_value /\ st'.players = st.players
      BY <2>0, <2>5 DEF CardReveal, CanCardReveal, applyCardReveal, MoveTo, RoundStates
    <3> QED BY <3>1, ValueUntouched
  <2>6. CASE \E a \in DealConcealedActions : DealConcealed(a)
    <3>1. st'.pot_value = st.pot_value /\ st'.players = st.players
      BY <2>0, <2>6 DEF DealConcealed, applyDealConcealed, RoundStates
    <3> QED BY <3>1, ValueUntouched
  <2>7. CASE \E a \in BetActions : Bet(a)
    <3>1. PICK a \in BetActions : Bet(a)
      BY <2>7
    <3>2. /\ st'.pot_value = st.pot_value + a.bet_amount /\ st'.players = st.players
          /\ a.bet_amount \in MinBet .. MaxBet /\ st.state_class = "S8_BET_DECISION"
      BY <2>0, <3>1 DEF Bet, CanBet, applyBet, MoveTo, RoundStates
    <3>3. st'.pot_value - st.pot_value \in MinBet .. MaxBet
      BY <2>0, <3>2 DEF RoundStates, Satoshis
    <3> QED BY <3>2, <3>3 DEF ValueStep
  <2>8. CASE \E a \in Plain("Pass") : Pass(a)
    <3>1. st'.pot_value = st.pot_value /\ st'.players = st.players
      BY <2>0, <2>8 DEF Pass, applyPass, MoveTo, RoundStates
    <3> QED BY <3>1, ValueUntouched
  <2>9. CASE \E a \in Plain("Fold") : Fold(a)
    <3>1. PICK a \in Plain("Fold") : Fold(a)
      BY <2>9
    <3> DEFINE i == SeatIndex(st, a.acting_player_seat)
    <3>2. /\ st'.pot_value = st.pot_value
          /\ st'.players = [st.players EXCEPT ![i] =
                               [st.players[i] EXCEPT !.status = "folded"]]
      BY <2>0, <3>1 DEF Fold, applyFold, MoveTo, RoundStates
    <3> HIDE DEF i
    <3>3. \A j \in DOMAIN st.players : st'.players[j].stake = st.players[j].stake
      BY <2>0, <3>2, SMTT(30) DEF Players
    <3> QED BY <3>2, <3>3, ValueUntouched
  <2>10. CASE \E a \in Plain("Settle") : Settle(a)
    <3>1. CanSettle(st) /\ st' = applySettle(st) /\ st.acting # Null
      BY <2>10 DEF Settle, CanSettle, SettleChecks
    <3>2. st.acting \in Seats(st)
      BY <3>1 DEF RoundInv, ActingSeated
    <3> QED BY <2>0, <3>1, <3>2, SettleMovesValue DEF EntropyInv, SeatsDistinct
  <2>11. CASE \E a \in Plain("RotateTurn") : RotateTurn(a)
    <3>1. st'.pot_value = st.pot_value /\ st'.players = st.players
      BY <2>0, <2>11 DEF RotateTurn, applyRotateTurn, MoveTo, RoundStates
    <3> QED BY <3>1, ValueUntouched
  <2>12. CASE \E a \in Plain("TableClose") : TableClose(a)
    <3>1. st'.pot_value = st.pot_value /\ st'.players = st.players
      BY <2>0, <2>12 DEF TableClose, applyTableClose, RoundStates
    <3> QED BY <3>1, ValueUntouched
  <2>13. CASE \E a \in Plain("Timeout"), height \in Heights : Timeout(a, height)
    <3>1. st'.pot_value = st.pot_value /\ st'.players = st.players
      BY <2>0, <2>13 DEF Timeout, applyTimeout, MoveTo, RoundStates
    <3> QED BY <3>1, ValueUntouched
  <2>14. CASE \E a \in Plain("Recovery"), height \in Heights : Recovery(a, height)
    <3>1. st'.pot_value = st.pot_value /\ st'.players = st.players
      BY <2>0, <2>14 DEF Recovery, applyRecovery, RoundStates
    <3> QED BY <3>1, ValueUntouched
  <2>15. CASE \E d \in DecisionDeadlines : StampDeadline(d)
    <3>1. st'.pot_value = st.pot_value /\ st'.players = st.players
      BY <2>0, <2>15 DEF StampDeadline, RoundStates
    <3> QED BY <3>1, ValueUntouched
  <2> QED BY <2>1, <2>2, <2>3, <2>4, <2>5, <2>6, <2>7, <2>8, <2>9, <2>10, <2>11, <2>12,
             <2>13, <2>14, <2>15 DEF Next
<1>2. Spec => []RoundInv
  BY SpecInductive, RoundInvInit, RoundInvNext, PTL DEF Spec
<1> QED BY <1>1, <1>2, SpecInductive, PTL DEF Spec, ValueMovesAgainstPot

-----------------------------------------------------------------------------
(* Turns, previews, folds and the order of classes. *)

(* A step that changes the class, the pot or a deadline and nothing that   *)
(* seats, turns and concealed cards depend on.                             *)
Quiet ==
    /\ st'.players = st.players
    /\ st'.acting = st.acting
    /\ st'.round_number = st.round_number
    /\ st'.concealed_deck = st.concealed_deck
    /\ \/ st.state_class = "S1_SEAT_OPEN" /\ st'.state_class = "S3_ENTROPY_COMMIT_WINDOW"
       \/ st.state_class = "S8_BET_DECISION"
            /\ st'.state_class \in {"S8_BET_DECISION", "S9_CARD_REVEAL_THIRD", "S11_ROTATE_TURN"}
       \/ st.state_class = "S12_TABLE_CLOSE" /\ st'.state_class = "S12_TABLE_CLOSE"
       \/ st'.state_class = "RECOVERED"

(* TableLock, Bet, Pass, TableClose, Timeout, Recovery and StampDeadline   *)
(* are quiet; the other handlers are left to be looked at one by one.      *)
LEMMA StepKinds ==
    ASSUME TypeInv, Next
    PROVE  \/ \E a \in JoinActions : Join(a)
           \/ \E a \in EntropyCommitActions : EntropyCommit(a)
           \/ \E a \in EntropyRevealActions : EntropyReveal(a)
           \/ \E a \in CardRevealActions : CardReveal(a)
           \/ \E a \in DealConcealedActions : DealConcealed(a)
           \/ \E a \in Plain("Fold") : Fold(a)
           \/ \E a \in Plain("Settle") : Settle(a)
           \/ \E a \in Plain("RotateTurn") : RotateTurn(a)
           \/ Quiet
<1>0. st \in RoundStates
  BY DEF TypeInv, TypeOK
<1>1. CASE \E a \in Plain("TableLock") : TableLock(a)
  BY <1>0, <1>1 DEF TableLock, CanTableLock, applyTableLock, MoveTo, RoundStates, Quiet
<1>2. CASE \E a \in BetActions : Bet(a)
  BY <1>0, <1>2 DEF Bet, CanBet, applyBet, MoveTo, RoundStates, Quiet
<1>3. CASE \E a \in Plain("Pass") : Pass(a)
  BY <1>0, <1>3 DEF Pass, CanPass, applyPass, MoveTo, RoundStates, Quiet
<1>4. CASE \E a \in Plain("TableClose") : TableClose(a)
  BY <1>0, <1>4 DEF TableClose, CanTableClose, applyTableClose, RoundStates, Quiet
<1>5. CASE \E a \in Plain("Timeout"), height \in Heights : Timeout(a, height)
  BY <1>0, <1>5 DEF Timeout, CanTimeout, applyTimeout, MoveTo, RoundStates, Quiet
<1>6. CASE \E a \in Plain("Recovery"), height \in Heights : Recovery(a, height)
  BY <1>0, <1>6 DEF Recovery, applyRecovery, RoundStates, Quiet
<1>7. CASE \E d \in DecisionDeadlines : StampDeadline(d)
  BY <1>0, <1>7 DEF StampDeadline, RoundStates, Quiet
<1> QED BY <1>1, <1>2, <1>3, <1>4, <1>5, <1>6, <1>7 DEF Next

-----------------------------------------------------------------------------
(* The turn. *)

(* The seats the turn has passed. *)
Passed(s) == {x \in Seats(s) : s.players[1].seat <= x /\ x < s.acting}

(* RotationPosition is not inductive: nobody acts before the first round   *)
(* has opened its second card, and somebody does from then on.             *)
TurnInv ==
    /\ RotationPosition
    /\ st.acting = Null => st.round_number = 0
    /\ st.state_class \in {"S8_BET_DECISION", "S9_CARD_REVEAL_THIRD", "S10_SETTLED_ROUND",
                           "S11_ROTATE_TURN", "S12_TABLE_CLOSE"} => st.acting # Null

(* A table has finitely many seats. *)
LEMMA SeatsFinite ==
    ASSUME NEW s \in RoundStates
    PROVE  IsFiniteSet(Seats(s))
<1>1. Len(s.players) \in Nat /\ DOMAIN s.players = 1 .. Len(s.players)
  BY DEF RoundStates
<1>2. IsFiniteSet(1 .. Len(s.players))
  BY <1>1, FS_Interval
<1> DEFINE seat == [i \in 1 .. Len(s.players) |-> s.players[i].seat]
<1>3. seat \in Surjection(1 .. Len(s.players), Seats(s))
  BY <1>1 DEF Surjection, Seats
<1> HIDE DEF seat
<1> QED BY <1>2, <1>3, FS_Surjection

(* A step that keeps the seats, the turn and the round keeps the count.    *)
LEMMA RotationKept ==
    ASSUME RotationPosition, DOMAIN st'.players = DOMAIN st.players,
           \A i \in DOMAIN st.players : st'.players[i].seat = st.players[i].seat,
           st'.acting = st.acting, st'.round_number = st.round_number,
           st \in RoundStates
    PROVE  RotationPosition'
<1>1. Seats(st') = Seats(st)
  BY SeatsUnchanged
<1>2. CASE st.acting = Null
  BY <1>2 DEF RotationPosition
<1>3. CASE st.acting # Null
  <2>1. st.acting \in Seats(st)
    BY <1>3 DEF RotationPosition
  <2>2. 1 \in DOMAIN st.players
    BY <2>1 DEF Seats, RoundStates
  <2>3. st'.players[1].seat = st.players[1].seat
    BY <2>2
  <2> QED BY <1>1, <1>3, <2>3 DEF RotationPosition
<1> QED BY <1>2, <1>3

(* RotateTurn either closes the table or passes exactly one seat: there is *)
(* no seat between the acting one and the next.                            *)
LEMMA RotateTurnPasses ==
    ASSUME NEW s \in RoundStates, CanRotateTurn(s), ~WrappedToStart(s),
           s.acting \in Seats(s), s.players[1].seat <= s.acting, s.acting # Null,
           NEW t, t.players = s.players, t.acting = NextSeat(s)
    PROVE  /\ t.acting \in Seats(t)
           /\ t.players[1].seat <= t.acting
           /\ Cardinality(Passed(t)) = Cardinality(Passed(s)) + 1
<1> DEFINE later == {x \in Seats(s) : s.acting # Null /\ x > s.acting}
           first == s.players[1].seat
<1>1. Seats(s) \in SUBSET Nat /\ Seats(s) # {} /\ Seats(t) = Seats(s)
  BY SeatsAreNat DEF CanRotateTurn, Seats
<1>2. first \in Nat
  <2>1. s.players[1] \in Players
    BY DEF RoundStates, CanRotateTurn
  <2> QED BY <2>1 DEF Players
<1>3. later # {}
  BY DEF WrappedToStart, NextSeat
<1>4. /\ NextSeat(s) \in later
      /\ \A x \in later : NextSeat(s) <= x
  <2>1. later \in SUBSET Nat /\ NextSeat(s) = Min(later)
    BY <1>1, <1>3 DEF NextSeat
  <2> HIDE DEF later
  <2> QED BY <1>3, <2>1, MinExists
<1>5. Passed(t) = Passed(s) \cup {s.acting}
  BY <1>1, <1>2, <1>4 DEF Passed
<1>6. s.acting \notin Passed(s)
  BY <1>1 DEF Passed
<1>7. IsFiniteSet(Passed(s))
  BY SeatsFinite, FS_Subset DEF Passed
<1>8. Cardinality(Passed(t)) = Cardinality(Passed(s)) + 1
  BY <1>5, <1>6, <1>7, FS_AddElement
<1>9. t.players[1].seat <= t.acting
  BY <1>1, <1>2, <1>4
<1> QED BY <1>1, <1>4, <1>8, <1>9

(* The turn goes up through the seats from the first to have joined, one   *)
(* seat a round, and stops at the highest: however the seats were taken,   *)
(* the round number is the number of seats passed.                         *)
THEOREM TurnsInSeatOrder == Spec => []RotationPosition
<1> USE EngineAssumption, RulesAssumption, InputAssumption
<1>1. Init => TurnInv
  BY DEF Init, initialState, TurnInv, RotationPosition
<1>2. TypeInv /\ EntropyInv /\ TurnInv /\ [Next]_st => TurnInv'
  <2> SUFFICES ASSUME TypeInv, EntropyInv, TurnInv, Next PROVE TurnInv'
    BY DEF TurnInv, RotationPosition, Seats
  <2>0. st \in RoundStates /\ st.players \in Seq(Players) /\ Null \notin Nat
    BY DEF TypeInv, TypeOK, RoundStates
  <2>1. CASE \E a \in JoinActions : Join(a)
    <3>1. st'.acting = st.acting /\ st'.round_number = st.round_number
            /\ st.state_class = "S1_SEAT_OPEN" /\ st'.state_class = st.state_class
      BY <2>0, <2>1 DEF Join, CanJoin, applyJoin, RoundStates
    <3>2. st.acting = Null
      BY <3>1 DEF EntropyInv, OpeningClasses
    <3> QED BY <3>1, <3>2 DEF TurnInv, RotationPosition
  <2>2. CASE \E a \in EntropyCommitActions : EntropyCommit(a)
    <3>1. st'.acting = st.acting /\ st'.round_number = st.round_number
            /\ st.state_class = "S3_ENTROPY_COMMIT_WINDOW"
            /\ st'.state_class \in {"S3_ENTROPY_COMMIT_WINDOW", "S4_ENTROPY_REVEAL_WINDOW"}
      BY <2>0, <2>2 DEF EntropyCommit, CanEntropyCommit, applyEntropyCommit, MoveTo, RoundStates
    <3>2. st.acting = Null
      BY <3>1 DEF EntropyInv, OpeningClasses
    <3> QED BY <3>1, <3>2 DEF TurnInv, RotationPosition
  <2>3. CASE \E a \in EntropyRevealActions : EntropyReveal(a)
    <3>1. st'.acting = st.acting /\ st'.round_number = st.round_number
            /\ st.state_class = "S4_ENTROPY_REVEAL_WINDOW"
            /\ st'.state_class \in {"S4_ENTROPY_REVEAL_WINDOW", "S5_DECK_COMMITTED"}
      BY <2>0, <2>3 DEF EntropyReveal, CanEntropyReveal, applyEntropyReveal, MoveTo, RoundStates
    <3>2. st.acting = Null
      BY <3>1 DEF EntropyInv, OpeningClasses
    <3> QED BY <3>1, <3>2 DEF TurnInv, RotationPosition
  <2>4. CASE \E a \in CardRevealActions : CardReveal(a)
    <3>1. /\ st'.players = st.players /\ st'.round_number = st.round_number
          /\ \/ /\ st.state_class = "S5_DECK_COMMITTED"
                /\ st'.state_class = "S6_CARD_REVEAL_FIRST"
                /\ st'.acting = st.acting
             \/ /\ st.state_class = "S6_CARD_REVEAL_FIRST"
                /\ st'.state_class = "S8_BET_DECISION"
                /\ st'.acting = IF st.acting = Null THEN st.players[1].seat ELSE st.acting
             \/ /\ st.state_class = "S9_CARD_REVEAL_THIRD"
                /\ st'.state_class = "S10_SETTLED_ROUND"
                /\ st'.acting = st.acting
      BY <2>0, <2>4 DEF CardReveal, CanCardReveal, applyCardReveal, MoveTo, RoundStates
    <3>p. 1 \in DOMAIN st.players /\ st.players[1] \in Players
      <4>1. Len(st.players) > 0
        BY <3>1 DEF TypeInv, Populated
      <4> QED BY <2>0, <4>1
    <3>q. st.players[1].seat \in Nat /\ st.players[1].seat \in Seats(st)
      BY <3>p DEF Players, Seats
    <3>2. CASE st'.acting = st.acting
      <4>1. RotationPosition'
        BY <2>0, <3>1, <3>2, RotationKept DEF TurnInv
      <4>2. st'.state_class = "S8_BET_DECISION" => st'.acting # Null
        BY <2>0, <3>1, <3>q
      <4> QED BY <3>1, <3>2, <4>1, <4>2 DEF TurnInv
    <3>3. CASE st'.acting # st.acting
      <4>1. /\ st.acting = Null /\ st'.acting = st.players[1].seat
            /\ st.state_class = "S6_CARD_REVEAL_FIRST" /\ st'.state_class = "S8_BET_DECISION"
        BY <3>1, <3>3
      <4>3. st'.acting \in Seats(st') /\ st'.acting \in Nat
        BY <3>1, <3>q, <4>1 DEF Seats
      <4>4. {x \in Seats(st') : st'.players[1].seat <= x /\ x < st'.acting} = {}
        <5>1. Seats(st') \subseteq Nat
          BY <2>0, <3>1, SeatsAreNat DEF Seats
        <5> QED BY <3>1, <4>1, <4>3, <5>1
      <4>5. st'.round_number = 0
        BY <3>1, <4>1 DEF TurnInv
      <4>6. RotationPosition'
        <5>1. st'.players[1].seat <= st'.acting
          BY <3>1, <3>q, <4>1
        <5>2. Cardinality({}) = 0
          BY FS_EmptySet
        <5> QED BY <4>3, <4>4, <4>5, <5>1, <5>2 DEF RotationPosition
      <4> QED BY <2>0, <4>1, <4>3, <4>5, <4>6 DEF TurnInv
    <3> QED BY <3>2, <3>3
  <2>5. CASE \E a \in DealConcealedActions : DealConcealed(a)
    <3>1. /\ st'.players = st.players /\ st'.round_number = st.round_number
          /\ st'.acting = st.acting /\ st'.state_class = st.state_class
      BY <2>0, <2>5 DEF DealConcealed, applyDealConcealed, RoundStates
    <3>2. RotationPosition'
      BY <2>0, <3>1, RotationKept DEF TurnInv
    <3> QED BY <3>1, <3>2 DEF TurnInv
  <2>6. CASE \E a \in Plain("Fold") : Fold(a)
    <3>1. PICK a \in Plain("Fold") : Fold(a)
      BY <2>6
    <3> DEFINE i == SeatIndex(st, a.acting_player_seat)
               p == [st.players[i] EXCEPT !.status = "folded"]
    <3>2. i \in DOMAIN st.players /\ st.state_class = "S8_BET_DECISION"
      BY <3>1, SeatIndexIn DEF Fold, CanFold
    <3>3. st'.players = [st.players EXCEPT ![i] = p] /\ st'.state_class = "S11_ROTATE_TURN"
            /\ st'.acting = st.acting /\ st'.round_number = st.round_number
      BY <2>0, <3>1 DEF Fold, applyFold, MoveTo, RoundStates
    <3>4. p.seat = st.players[i].seat
      BY <2>0, <3>2 DEF Players
    <3> HIDE DEF i, p
    <3>5. DOMAIN st'.players = DOMAIN st.players
            /\ \A j \in DOMAIN st.players : st'.players[j].seat = st.players[j].seat
      BY <2>0, <3>2, <3>3, <3>4
    <3>6. RotationPosition'
      BY <2>0, <3>3, <3>5, RotationKept DEF TurnInv
    <3> QED BY <3>2, <3>3, <3>6 DEF TurnInv
  <2>7. CASE \E a \in Plain("Settle") : Settle(a)
    <3>1. /\ st'.players = [j \in DOMAIN st.players |->
                              [st.players[j] EXCEPT !.stake = SettleStake(st, j)]]
          /\ st.state_class = "S10_SETTLED_ROUND" /\ st'.state_class = "S11_ROTATE_TURN"
          /\ st'.acting = st.acting /\ st'.round_number = st.round_number
      BY <2>0, <2>7 DEF Settle, CanSettle, SettleChecks, applySettle, MoveTo, RoundStates
    <3>2. DOMAIN st'.players = DOMAIN st.players
            /\ \A j \in DOMAIN st.players : st'.players[j].seat = st.players[j].seat
      BY <2>0, <3>1 DEF Players
    <3>3. RotationPosition'
      BY <2>0, <3>1, <3>2, RotationKept DEF TurnInv
    <3> QED BY <3>1, <3>3 DEF TurnInv
  <2>8. CASE \E a \in Plain("RotateTurn") : RotateTurn(a)
    <3>1. /\ CanRotateTurn(st) /\ st.state_class = "S11_ROTATE_TURN" /\ st'.players = st.players
          /\ \/ /\ WrappedToStart(st) /\ st'.state_class = "S12_TABLE_CLOSE"
                /\ st'.acting = st.acting /\ st'.round_number = st.round_number
             \/ /\ ~WrappedToStart(st) /\ st'.state_class = "S6_CARD_REVEAL_FIRST"
                /\ st'.acting = NextSeat(st) /\ st'.round_number = st.round_number + 1
      BY <2>0, <2>8 DEF RotateTurn, CanRotateTurn, applyRotateTurn, MoveTo, RoundStates
    <3>2. CASE WrappedToStart(st)
      <4>1. RotationPosition'
        BY <2>0, <3>1, <3>2, RotationKept DEF TurnInv
      <4> QED BY <3>1, <3>2, <4>1 DEF TurnInv
    <3>3. CASE ~WrappedToStart(st)
      <4>1. /\ st.acting # Null /\ st.acting \in Seats(st) /\ st.players[1].seat <= st.acting
            /\ st.round_number = Cardinality(Passed(st))
        BY <3>1 DEF TurnInv, RotationPosition, Passed
      <4>2. /\ st'.acting \in Seats(st')
            /\ st'.players[1].seat <= st'.acting
            /\ Cardinality(Passed(st')) = Cardinality(Passed(st)) + 1
        BY <2>0, <3>1, <3>3, <4>1, RotateTurnPasses
      <4>3. RotationPosition'
        BY <3>1, <3>3, <4>1, <4>2 DEF RotationPosition, Passed
      <4>4. st'.acting # Null
        BY <2>0, <3>1, <4>2, SeatsAreNat DEF Seats
      <4> QED BY <4>3, <4>4 DEF TurnInv
    <3> QED BY <3>2, <3>3
  <2>9. CASE Quiet
    <3>1. RotationPosition'
      BY <2>0, <2>9, RotationKept DEF TurnInv, Quiet
    <3> QED BY <2>9, <3>1 DEF TurnInv, Quiet
  <2> QED BY <2>1, <2>2, <2>3, <2>4, <2>5, <2>6, <2>7, <2>8, <2>9, StepKinds
<1>3. TurnInv => RotationPosition
  BY DEF TurnInv
<1> QED BY <1>1, <1>2, <1>3, SpecInductive, PTL DEF Spec
-----------------------------------------------------------------------------
(* The settlement shown beforehand. *)

(* The preview works out the same amounts as Settle, by code of its own.   *)
LEMMA PreviewAmounts ==
    ASSUME NEW s \in RoundStates
    PROVE  /\ Preview(s).resulting_pot_value = SettlePot(s)
           /\ \A i \in DOMAIN s.players :
                 Preview(s).resulting_balances[i] = SettleStake(s, i)
           /\ Preview(s).outcome \in Outcomes
           /\ Preview(s).amount_won_or_lost \in Nat
<1> DEFINE o == classifyInBetweenRound(s.visible_cards)
           d == playerDelta(o, s.pot_value)
<1>0. /\ s.pot_value \in Int
      /\ \A j \in DOMAIN s.players : s.players[j].stake \in Int
  <2>1. Satoshis \subseteq Int
    BY RulesAssumption DEF Satoshis
  <2>2. s.players \in Seq(Players) /\ s.pot_value \in Int
    BY <2>1 DEF RoundStates
  <2>3. \A j \in DOMAIN s.players : s.players[j] \in Players
    BY <2>2
  <2> QED BY <2>1, <2>2, <2>3 DEF Players
<1>1. o \in Outcomes /\ d \in Int
  BY <1>0, TransferBalanced, ClassifyIsOutcome
<1>2. /\ Preview(s).resulting_pot_value = SettlePot(s)
      /\ Preview(s).outcome = o
      /\ Preview(s).amount_won_or_lost = IF d < 0 THEN -d ELSE d
      /\ \A i \in DOMAIN s.players :
            Preview(s).resulting_balances[i]
              = s.players[i].stake + IF s.players[i].seat = s.acting THEN d ELSE 0
  BY DEF Preview, SettlePot
<1>3. \A i \in DOMAIN s.players :
         SettleStake(s, i) = IF s.players[i].seat # s.acting THEN s.players[i].stake
                             ELSE s.players[i].stake + d
  BY DEF SettleStake
<1> HIDE DEF o, d
<1> QED BY <1>0, <1>1, <1>2, <1>3

(* A client is shown a settlement exactly when Settle is accepted, and it  *)
(* is the one it gets: for any stakes, bets, cards and rule set.           *)
THEOREM PreviewIsHonest == Spec => []PreviewIsSettlement
<1>1. TypeInv => PreviewIsSettlement
  <2> SUFFICES ASSUME st \in RoundStates PROVE PreviewIsSettlement
    BY DEF TypeInv, TypeOK
  <2>0. /\ st.players \in Seq(Players)
        /\ \A j \in DOMAIN st.players : st.players[j] \in Players
    BY DEF RoundStates
  <2> DEFINE shown == computeSettlement(st)
             view == Preview(st)
  <2>1. CanSettle(st) <=> /\ st.state_class = "S10_SETTLED_ROUND"
                          /\ Len(st.visible_cards) = 3
                          /\ st.acting # Null
                          /\ view.resulting_pot_value \in Satoshis
                          /\ \A i \in DOMAIN st.players : view.resulting_balances[i] \in Satoshis
    BY PreviewAmounts DEF CanSettle, SettleChecks, SettleThrows
  <2>2. shown = IF CanSettle(st) THEN view ELSE Null
    BY <2>1 DEF computeSettlement
  <2>3. ASSUME CanSettle(st) PROVE view # Null
    <3>1. view = [outcome |-> view.outcome, amount_won_or_lost |-> view.amount_won_or_lost,
                  resulting_pot_value |-> view.resulting_pot_value,
                  resulting_balances |-> view.resulting_balances]
      BY DEF Preview
    <3>2. view.resulting_balances \in Seq(Satoshis)
      <4>1. view.resulting_balances = [i \in 1 .. Len(st.players) |-> view.resulting_balances[i]]
        BY <2>0 DEF Preview
      <4>2. \A i \in 1 .. Len(st.players) : view.resulting_balances[i] \in Satoshis
        BY <2>0, <2>1, <2>3
      <4>3. Len(st.players) \in Nat
        BY <2>0
      <4> HIDE DEF view
      <4> QED BY <4>1, <4>2, <4>3
    <3>3. /\ view.resulting_pot_value \in Satoshis
          /\ view.outcome \in Outcomes
          /\ view.amount_won_or_lost \in Nat
      BY <2>1, <2>3, PreviewAmounts
    <3> HIDE DEF view
    <3>4. view \in SettlementResults
      BY <3>1, <3>2, <3>3 DEF SettlementResults
    <3> QED BY <3>4, NullAssumption
  <2>4. /\ applySettle(st).pot_value = SettlePot(st)
        /\ \A i \in DOMAIN st.players : applySettle(st).players[i].stake = SettleStake(st, i)
    <3>1. /\ applySettle(st).pot_value = SettlePot(st)
          /\ applySettle(st).players = [j \in DOMAIN st.players |->
                                          [st.players[j] EXCEPT !.stake = SettleStake(st, j)]]
      BY DEF applySettle, MoveTo, RoundStates
    <3> QED BY <2>0, <3>1 DEF Players
  <2>5. /\ view.resulting_pot_value = SettlePot(st)
        /\ \A i \in DOMAIN st.players : view.resulting_balances[i] = SettleStake(st, i)
    BY PreviewAmounts
  <2> HIDE DEF view
  <2>6. (shown # Null) = CanSettle(st)
    BY <2>2, <2>3 DEF CanSettle, SettleChecks
  <2>7. CanSettle(st) =>
           /\ shown.resulting_pot_value = applySettle(st).pot_value
           /\ \A i \in DOMAIN st.players :
                 shown.resulting_balances[i] = applySettle(st).players[i].stake
    BY <2>2, <2>4, <2>5
  <2> QED BY <2>6, <2>7 DEF PreviewIsSettlement
<1> QED BY <1>1, SpecInductive, PTL

-----------------------------------------------------------------------------
(* Folding. *)

(* FoldedHoldNothing is not inductive: a deck dealt after somebody folded  *)
(* could give it cards again, so nobody has folded while one can be dealt. *)
FoldInv ==
    /\ FoldedHoldNothing
    /\ st.state_class \in OpeningClasses \cup {"S5_DECK_COMMITTED"} =>
          \A i \in DOMAIN st.players : st.players[i].status # "folded"

(* A seat holds what its player's key holds: seats are distinct. *)
LEMMA HeldByKey ==
    ASSUME NEW s, NEW i \in DOMAIN s.players,
           \A j, k \in DOMAIN s.players : s.players[j].seat = s.players[k].seat => j = k
    PROVE  Held(s, s.players[i].seat) =
             {k \in DOMAIN s.concealed_deck :
                 /\ s.concealed_deck[k].holder = s.players[i].pubkey
                 /\ s.concealed_deck[k].lifecycle = "ASSIGNED_CONCEALED"}
<1>1. SeatIndex(s, s.players[i].seat) = i
  BY DEF SeatIndex
<1> QED BY <1>1 DEF Held

(* A step that deals nothing, folds nobody and leaves seats and keys alone *)
(* leaves everybody's cards alone.                                         *)
LEMMA HoldingsKept ==
    ASSUME FoldedHoldNothing, SeatsDistinct, SeatsDistinct',
           st'.concealed_deck = st.concealed_deck,
           DOMAIN st'.players = DOMAIN st.players,
           \A i \in DOMAIN st.players :
              /\ st'.players[i].pubkey = st.players[i].pubkey
              /\ st'.players[i].status = "folded" => st.players[i].status = "folded"
    PROVE  FoldedHoldNothing'
<1> SUFFICES ASSUME st.concealed_deck # Null, NEW i \in DOMAIN st.players,
                    st'.players[i].status = "folded"
             PROVE  Held(st', st'.players[i].seat) = {}
  BY DEF FoldedHoldNothing
<1>1. Held(st, st.players[i].seat) = {}
  BY DEF FoldedHoldNothing
<1>2. Held(st, st.players[i].seat) =
        {k \in DOMAIN st.concealed_deck :
            /\ st.concealed_deck[k].holder = st.players[i].pubkey
            /\ st.concealed_deck[k].lifecycle = "ASSIGNED_CONCEALED"}
  BY HeldByKey DEF SeatsDistinct
<1>3. Held(st', st'.players[i].seat) =
        {k \in DOMAIN st'.concealed_deck :
            /\ st'.concealed_deck[k].holder = st'.players[i].pubkey
            /\ st'.concealed_deck[k].lifecycle = "ASSIGNED_CONCEALED"}
  BY HeldByKey DEF SeatsDistinct
<1> QED BY <1>1, <1>2, <1>3

(* Whoever folds loses its cards and gets none back, whatever was dealt:   *)
(* two seats with one key included.                                        *)
THEOREM FoldIsSurrender == Spec => []FoldedHoldNothing
<1> USE EngineAssumption, RulesAssumption, InputAssumption
<1>1. Init => FoldInv
  BY DEF Init, initialState, FoldInv, FoldedHoldNothing
<1>2. TypeInv /\ EntropyInv /\ EntropyInv' /\ FoldInv /\ [Next]_st => FoldInv'
  <2> SUFFICES ASSUME TypeInv, EntropyInv, EntropyInv', FoldInv, Next PROVE FoldInv'
    <3>1. UNCHANGED st /\ FoldInv => FoldInv'
      BY DEF FoldInv, FoldedHoldNothing
    <3> QED BY <3>1
  <2>0. /\ st \in RoundStates /\ st.players \in Seq(Players)
        /\ \A j \in DOMAIN st.players : st.players[j] \in Players
        /\ SeatsDistinct /\ SeatsDistinct'
    BY DEF TypeInv, TypeOK, RoundStates, EntropyInv
  <2> USE DEF OpeningClasses
  <2>1. CASE \E a \in JoinActions : Join(a)
    <3>1. PICK a \in JoinActions : Join(a)
      BY <2>1
    <3> DEFINE p == [seat |-> JoinSeat(st, a), pubkey |-> a.player_pubkey,
                     status |-> "joined", stake |-> a.stake_amount,
                     committed |-> FALSE, commitment |-> Null,
                     revealed |-> FALSE, entropy |-> Null]
               n == Len(st.players)
    <3>2. /\ st'.players = Append(st.players, p) /\ p.status = "joined"
          /\ st.state_class = "S1_SEAT_OPEN" /\ st'.state_class = "S1_SEAT_OPEN"
          /\ st'.concealed_deck = st.concealed_deck
      BY <2>0, <3>1 DEF Join, CanJoin, applyJoin, RoundStates
    <3> HIDE DEF p
    <3>3. /\ DOMAIN st'.players = 1 .. n + 1 /\ DOMAIN st.players = 1 .. n /\ n \in Nat
          /\ st'.players[n + 1] = p
          /\ \A i \in 1 .. n : st'.players[i] = st.players[i]
      BY <2>0, <3>2
    <3>4. \A i \in DOMAIN st'.players : st'.players[i].status # "folded"
      BY <3>2, <3>3 DEF FoldInv
    <3> QED BY <3>4 DEF FoldInv, FoldedHoldNothing
  <2>2. CASE \E a \in EntropyCommitActions : EntropyCommit(a)
    <3>1. PICK a \in EntropyCommitActions : EntropyCommit(a)
      BY <2>2
    <3> DEFINE i == SeatIndex(st, a.acting_player_seat)
               p == [st.players[i] EXCEPT !.committed = TRUE, !.commitment = a.commitment_hash]
    <3>2. /\ st'.players = [st.players EXCEPT ![i] = p]
          /\ st.state_class = "S3_ENTROPY_COMMIT_WINDOW"
      BY <2>0, <3>1 DEF EntropyCommit, CanEntropyCommit, applyEntropyCommit, MoveTo, RoundStates
    <3>3. i \in DOMAIN st.players
      BY <3>1, SeatIndexIn DEF EntropyCommit, CanEntropyCommit
    <3>4. p.status = st.players[i].status
      BY <2>0, <3>3 DEF Players
    <3> HIDE DEF i, p
    <3>5. \A j \in DOMAIN st'.players : st'.players[j].status # "folded"
      BY <2>0, <3>2, <3>3, <3>4 DEF FoldInv
    <3> QED BY <3>5 DEF FoldInv, FoldedHoldNothing
  <2>3. CASE \E a \in EntropyRevealActions : EntropyReveal(a)
    <3>1. PICK a \in EntropyRevealActions : EntropyReveal(a)
      BY <2>3
    <3> DEFINE i == SeatIndex(st, a.acting_player_seat)
               p == [st.players[i] EXCEPT !.revealed = TRUE, !.entropy = a.entropy,
                                          !.status = "active"]
    <3>2. /\ st'.players = [st.players EXCEPT ![i] = p]
          /\ st.state_class = "S4_ENTROPY_REVEAL_WINDOW"
      BY <2>0, <3>1 DEF EntropyReveal, CanEntropyReveal, applyEntropyReveal, MoveTo, RoundStates
    <3>3. i \in DOMAIN st.players
      BY <3>1, SeatIndexIn DEF EntropyReveal, CanEntropyReveal
    <3>4. p.status = "active"
      BY <2>0, <3>3 DEF Players
    <3> HIDE DEF i, p
    <3>5. \A j \in DOMAIN st'.players : st'.players[j].status # "folded"
      BY <2>0, <3>2, <3>3, <3>4 DEF FoldInv
    <3> QED BY <3>5 DEF FoldInv, FoldedHoldNothing
  <2>4. CASE \E a \in CardRevealActions : CardReveal(a)
    <3>1. /\ st'.players = st.players /\ st'.concealed_deck = st.concealed_deck
          /\ st'.state_class \in {"S6_CARD_REVEAL_FIRST", "S8_BET_DECISION", "S10_SETTLED_ROUND"}
      BY <2>0, <2>4 DEF CardReveal, CanCardReveal, applyCardReveal, MoveTo, RoundStates
    <3>2. FoldedHoldNothing'
      BY <2>0, <3>1, HoldingsKept DEF FoldInv
    <3> QED BY <3>1, <3>2 DEF FoldInv
  <2>5. CASE \E a \in DealConcealedActions : DealConcealed(a)
    <3>1. /\ st'.players = st.players
          /\ st.state_class = "S5_DECK_COMMITTED" /\ st'.state_class = "S5_DECK_COMMITTED"
      BY <2>0, <2>5 DEF DealConcealed, CanDealConcealed, applyDealConcealed, RoundStates
    <3> QED BY <3>1 DEF FoldInv, FoldedHoldNothing
  <2>6. CASE \E a \in Plain("Fold") : Fold(a)
    <3>1. PICK a \in Plain("Fold") : Fold(a)
      BY <2>6
    <3> DEFINE seat == a.acting_player_seat
               i == SeatIndex(st, seat)
               p == [st.players[i] EXCEPT !.status = "folded"]
               deck == [k \in DOMAIN st.concealed_deck |->
                           IF k \in Held(st, seat)
                           THEN [st.concealed_deck[k] EXCEPT !.lifecycle = "SURRENDERED"]
                           ELSE st.concealed_deck[k]]
    <3>2. /\ i \in DOMAIN st.players /\ st.players[i].seat = seat
          /\ st.state_class = "S8_BET_DECISION" /\ st.concealed_deck # Null
      BY <3>1, SeatIndexIn DEF Fold, CanFold
    <3>3. st'.players = [st.players EXCEPT ![i] = p] /\ st'.concealed_deck = deck
            /\ st'.state_class = "S11_ROTATE_TURN"
      BY <2>0, <3>1 DEF Fold, applyFold, MoveTo, RoundStates
    <3>4. p.pubkey = st.players[i].pubkey
      BY <2>0, <3>2 DEF Players
    <3>5. \A k \in DOMAIN st.concealed_deck : st.concealed_deck[k] \in ConcealedCards
      <4>1. st.concealed_deck \in Seq(ConcealedCards)
        BY <2>0, <3>2 DEF RoundStates
      <4> QED BY <4>1
    <3>6. /\ DOMAIN deck = DOMAIN st.concealed_deck
          /\ \A k \in DOMAIN deck :
                /\ deck[k].holder = st.concealed_deck[k].holder
                /\ deck[k].lifecycle = IF k \in Held(st, seat) THEN "SURRENDERED"
                                       ELSE st.concealed_deck[k].lifecycle
      BY <3>5 DEF ConcealedCards
    <3>7. \A j \in DOMAIN st.players :
             Held(st, st.players[j].seat) =
               {k \in DOMAIN st.concealed_deck :
                   /\ st.concealed_deck[k].holder = st.players[j].pubkey
                   /\ st.concealed_deck[k].lifecycle = "ASSIGNED_CONCEALED"}
      BY <2>0, HeldByKey DEF SeatsDistinct
    <3> HIDE DEF i, p, deck
    <3>8. /\ DOMAIN st'.players = DOMAIN st.players
          /\ \A j \in DOMAIN st.players : st'.players[j].pubkey = st.players[j].pubkey
          /\ \A j \in DOMAIN st.players : j # i => st'.players[j] = st.players[j]
      BY <2>0, <3>2, <3>3, <3>4
    <3>9. \A j \in DOMAIN st.players :
             Held(st', st'.players[j].seat) =
               {k \in DOMAIN deck :
                   /\ deck[k].holder = st.players[j].pubkey
                   /\ deck[k].lifecycle = "ASSIGNED_CONCEALED"}
      <4>1. \A j \in DOMAIN st'.players :
               Held(st', st'.players[j].seat) =
                 {k \in DOMAIN st'.concealed_deck :
                     /\ st'.concealed_deck[k].holder = st'.players[j].pubkey
                     /\ st'.concealed_deck[k].lifecycle = "ASSIGNED_CONCEALED"}
        BY <2>0, HeldByKey DEF SeatsDistinct
      <4> QED BY <3>3, <3>8, <4>1
    <3>10. ASSUME NEW j \in DOMAIN st.players, st'.players[j].status = "folded"
           PROVE  Held(st', st'.players[j].seat) = {}
      <4>1. CASE j = i
        <5>1. Held(st, seat) = {k \in DOMAIN st.concealed_deck :
                   /\ st.concealed_deck[k].holder = st.players[i].pubkey
                   /\ st.concealed_deck[k].lifecycle = "ASSIGNED_CONCEALED"}
          BY <3>2, <3>7
        <5>2. ASSUME NEW k \in DOMAIN deck, deck[k].holder = st.players[i].pubkey
              PROVE  deck[k].lifecycle # "ASSIGNED_CONCEALED"
          <6>1. CASE k \in Held(st, seat)
            BY <3>6, <6>1
          <6>2. CASE k \notin Held(st, seat)
            BY <3>6, <5>1, <5>2, <6>2
          <6> QED BY <6>1, <6>2
        <5> QED BY <3>9, <4>1, <5>2
      <4>2. CASE j # i
        <5>1. Held(st, st.players[j].seat) = {}
          BY <3>2, <3>8, <3>10, <4>2 DEF FoldInv, FoldedHoldNothing
        <5> QED BY <3>6, <3>7, <3>9, <5>1
      <4> QED BY <4>1, <4>2
    <3> QED BY <3>3, <3>8, <3>10 DEF FoldInv, FoldedHoldNothing
  <2>7. CASE \E a \in Plain("Settle") : Settle(a)
    <3>1. /\ st'.players = [j \in DOMAIN st.players |->
                              [st.players[j] EXCEPT !.stake = SettleStake(st, j)]]
          /\ st'.state_class = "S11_ROTATE_TURN" /\ st'.concealed_deck = st.concealed_deck
      BY <2>0, <2>7 DEF Settle, applySettle, MoveTo, RoundStates
    <3>2. /\ DOMAIN st'.players = DOMAIN st.players
          /\ \A j \in DOMAIN st.players : /\ st'.players[j].pubkey = st.players[j].pubkey
                                          /\ st'.players[j].status = st.players[j].status
      BY <2>0, <3>1 DEF Players
    <3>3. FoldedHoldNothing'
      BY <2>0, <3>1, <3>2, HoldingsKept DEF FoldInv
    <3> QED BY <3>1, <3>3 DEF FoldInv
  <2>8. CASE \E a \in Plain("RotateTurn") : RotateTurn(a)
    <3>1. /\ st'.players = st.players /\ st'.concealed_deck = st.concealed_deck
          /\ st'.state_class \in {"S6_CARD_REVEAL_FIRST", "S12_TABLE_CLOSE"}
      BY <2>0, <2>8 DEF RotateTurn, applyRotateTurn, MoveTo, RoundStates
    <3>2. FoldedHoldNothing'
      BY <2>0, <3>1, HoldingsKept DEF FoldInv
    <3> QED BY <3>1, <3>2 DEF FoldInv
  <2>9. CASE Quiet
    <3>1. FoldedHoldNothing'
      BY <2>0, <2>9, HoldingsKept DEF FoldInv, Quiet
    <3> QED BY <2>9, <3>1 DEF FoldInv, Quiet
  <2> QED BY <2>1, <2>2, <2>3, <2>4, <2>5, <2>6, <2>7, <2>8, <2>9, StepKinds
<1>3. FoldInv => FoldedHoldNothing
  BY DEF FoldInv
<1> QED BY <1>1, <1>2, <1>3, SpecInductive, PTL DEF Spec

-----------------------------------------------------------------------------
(* Progress. *)

(* The list of allowed actions is empty only once the table is closed or   *)
(* recovered; and it is empty when it is recovered.                        *)
ListInv ==
    /\ st.state_class \notin {"S12_TABLE_CLOSE", "RECOVERED"} => st.allowed_actions # {}
    /\ st.state_class = "RECOVERED" => st.allowed_actions = {}

(* What counts as a milestone. *)
LEMMA MilestoneIn ==
    ASSUME NEW s
    PROVE  /\ \A i : <<"seated", i>> \in Milestones(s) <=> i \in DOMAIN s.players
           /\ \A i : <<"committed", i>> \in Milestones(s)
                        <=> i \in DOMAIN s.players /\ s.players[i].committed
           /\ \A i : <<"revealed", i>> \in Milestones(s)
                        <=> i \in DOMAIN s.players /\ s.players[i].revealed
           /\ <<"dealt", 0>> \in Milestones(s) <=> s.concealed_deck # Null
           /\ <<"stamped", 0>> \in Milestones(s) <=> s.decision_deadline # Null
           /\ <<"closed", 0>> \in Milestones(s) <=> s.allowed_actions = {}
BY DEF Milestones

(* A step that undoes nothing keeps every milestone. *)
LEMMA MilestonesKept ==
    ASSUME NEW s, NEW t, DOMAIN s.players \subseteq DOMAIN t.players,
           \A i \in DOMAIN s.players : s.players[i].committed => t.players[i].committed,
           \A i \in DOMAIN s.players : s.players[i].revealed => t.players[i].revealed,
           s.concealed_deck # Null => t.concealed_deck # Null,
           s.decision_deadline # Null => t.decision_deadline # Null,
           s.allowed_actions = {} => t.allowed_actions = {}
    PROVE  Milestones(s) \subseteq Milestones(t)
BY DEF Milestones

(* A later class of the same round is a step forward. *)
LEMMA LaterClass ==
    ASSUME NEW s, NEW t, s.state_class # "RECOVERED", t.round_number = s.round_number,
           ClassRank(t.state_class) > ClassRank(s.state_class)
    PROVE  Forward(s, t)
BY DEF Forward

(* One more milestone in the same class is a step forward. *)
LEMMA OneMoreMilestone ==
    ASSUME NEW s, NEW t, NEW m, s.state_class # "RECOVERED",
           t.round_number = s.round_number, t.state_class = s.state_class,
           Milestones(s) \subseteq Milestones(t), m \in Milestones(t), m \notin Milestones(s)
    PROVE  Forward(s, t)
BY DEF Forward

(* ListInv holds throughout: a handler that moves on refreshes the list.   *)
LEMMA ListInvNext == TypeInv /\ ListInv /\ [Next]_st => ListInv'
<1> SUFFICES ASSUME st \in RoundStates, ListInv, [Next]_st PROVE ListInv'
  BY DEF TypeInv, TypeOK
<1> USE DEF ListInv
<1>m. /\ getLegalActions("RECOVERED") = {}
      /\ \A class \in StateClasses \ {"RECOVERED"} : getLegalActions(class) # {}
  BY DEF getLegalActions, StateClasses
<1>t. \A s, class : s \in RoundStates /\ class \in StateClasses \ {"RECOVERED"} =>
         /\ MoveTo(s, class).allowed_actions # {}
         /\ MoveTo(s, class).state_class = class
  BY <1>m DEF MoveTo, RoundStates
<1>s. /\ {"S3_ENTROPY_COMMIT_WINDOW", "S4_ENTROPY_REVEAL_WINDOW", "S5_DECK_COMMITTED",
          "S6_CARD_REVEAL_FIRST", "S8_BET_DECISION", "S9_CARD_REVEAL_THIRD",
          "S10_SETTLED_ROUND", "S11_ROTATE_TURN", "S12_TABLE_CLOSE"}
            \subseteq StateClasses \ {"RECOVERED"}
  BY DEF StateClasses
<1>q. ASSUME st'.state_class \in StateClasses \ {"RECOVERED"},
             st'.allowed_actions = getLegalActions(st'.state_class)
      PROVE  ListInv'
  BY <1>m, <1>q
<1>1. CASE \E a \in JoinActions : Join(a)
  BY <1>1 DEF Join, CanJoin, applyJoin, RoundStates
<1>2. CASE \E a \in DealConcealedActions : DealConcealed(a)
  BY <1>2 DEF DealConcealed, CanDealConcealed, applyDealConcealed, RoundStates
<1>3. CASE \E a \in Plain("TableClose") : TableClose(a)
  BY <1>3 DEF TableClose, CanTableClose, applyTableClose, RoundStates
<1>4. CASE \E a \in Plain("Recovery"), height \in Heights : Recovery(a, height)
  BY <1>4 DEF Recovery, applyRecovery, RoundStates
<1>5. CASE \E d \in DecisionDeadlines : StampDeadline(d)
  BY <1>5 DEF StampDeadline, RoundStates
<1>6. CASE \/ \E a \in Plain("TableLock") : TableLock(a)
           \/ \E a \in BetActions : Bet(a)
           \/ \E a \in Plain("Pass") : Pass(a)
           \/ \E a \in Plain("Timeout"), height \in Heights : Timeout(a, height)
  <2>1. /\ st'.state_class \in {"S3_ENTROPY_COMMIT_WINDOW", "S9_CARD_REVEAL_THIRD",
                               "S11_ROTATE_TURN"}
        /\ st'.allowed_actions = getLegalActions(st'.state_class)
    BY <1>6 DEF TableLock, applyTableLock, Bet, applyBet, Pass, applyPass,
                Timeout, applyTimeout, MoveTo, RoundStates
  <2> QED BY <2>1, <1>s, <1>q
<1>7. CASE \E a \in EntropyCommitActions : EntropyCommit(a)
  BY <1>7, <1>s, <1>q DEF EntropyCommit, applyEntropyCommit, MoveTo, RoundStates
<1>8. CASE \E a \in EntropyRevealActions : EntropyReveal(a)
  BY <1>8, <1>s, <1>q DEF EntropyReveal, applyEntropyReveal, MoveTo, RoundStates
<1>9. CASE \E a \in CardRevealActions : CardReveal(a)
  BY <1>9, <1>s, <1>q DEF CardReveal, CanCardReveal, applyCardReveal, MoveTo, RoundStates
<1>10. CASE \E a \in Plain("Fold") : Fold(a)
  BY <1>10, <1>s, <1>q DEF Fold, applyFold, MoveTo, RoundStates
<1>11. CASE \E a \in Plain("Settle") : Settle(a)
  BY <1>11, <1>s, <1>q DEF Settle, applySettle, MoveTo, RoundStates
<1>12. CASE \E a \in Plain("RotateTurn") : RotateTurn(a)
  BY <1>12, <1>s, <1>q DEF RotateTurn, applyRotateTurn, MoveTo, RoundStates
<1>13. CASE UNCHANGED st
  BY <1>13
<1> QED BY <1>1, <1>2, <1>3, <1>4, <1>5, <1>6, <1>7, <1>8, <1>9, <1>10, <1>11, <1>12,
           <1>13 DEF Next

(* Whatever is submitted and in whatever order, an accepted action that    *)
(* changes the table takes it to a later round, a later class or one more  *)
(* milestone; nothing is undone and a recovered table stays as it is.      *)
THEOREM TablesGoForward == Spec => AlwaysForward
<1> USE EngineAssumption, RulesAssumption, InputAssumption, NullAssumption
<1>1. Init => ListInv
  BY DEF Init, initialState, ListInv
<1>2. TypeInv /\ ListInv /\ [Next]_st => [Forward(st, st')]_st
  <2> SUFFICES ASSUME TypeInv, ListInv, Next, st' # st PROVE Forward(st, st')
    OBVIOUS
  <2>0. /\ st \in RoundStates /\ st.players \in Seq(Players) /\ st.round_number \in Nat
        /\ \A j \in DOMAIN st.players : st.players[j] \in Players
    BY DEF TypeInv, TypeOK, RoundStates
  <2>1. CASE \E a \in JoinActions : Join(a)
    <3>1. PICK p : /\ st'.players = Append(st.players, p)
                   /\ st'.concealed_deck = st.concealed_deck
                   /\ st'.decision_deadline = st.decision_deadline
                   /\ st'.allowed_actions = st.allowed_actions
                   /\ st'.round_number = st.round_number
                   /\ st.state_class = "S1_SEAT_OPEN" /\ st'.state_class = st.state_class
      BY <2>0, <2>1, SMTT(30) DEF Join, CanJoin, applyJoin, RoundStates
    <3> DEFINE n == Len(st.players)
    <3>2. /\ DOMAIN st'.players = 1 .. n + 1 /\ DOMAIN st.players = 1 .. n /\ n \in Nat
          /\ \A i \in 1 .. n : st'.players[i] = st.players[i]
      BY <2>0, <3>1
    <3> HIDE DEF n
    <3>k. /\ DOMAIN st.players \subseteq DOMAIN st'.players
          /\ \A i \in DOMAIN st.players : st'.players[i] = st.players[i]
      BY <3>2
    <3>3. Milestones(st) \subseteq Milestones(st')
      BY <3>1, <3>k, MilestonesKept
    <3>4. n + 1 \in DOMAIN st'.players /\ n + 1 \notin DOMAIN st.players
      BY <3>2
    <3>5. <<"seated", n + 1>> \in Milestones(st') /\ <<"seated", n + 1>> \notin Milestones(st)
      BY <3>4, MilestoneIn
    <3> QED BY <3>1, <3>3, <3>5, OneMoreMilestone
  <2>2. CASE \E a \in EntropyCommitActions : EntropyCommit(a)
    <3>1. PICK a \in EntropyCommitActions : EntropyCommit(a)
      BY <2>2
    <3> DEFINE i == SeatIndex(st, a.acting_player_seat)
               p == [st.players[i] EXCEPT !.committed = TRUE, !.commitment = a.commitment_hash]
    <3>2. /\ st'.players = [st.players EXCEPT ![i] = p]
          /\ st'.concealed_deck = st.concealed_deck
          /\ st'.decision_deadline = st.decision_deadline
          /\ st'.round_number = st.round_number
          /\ st.state_class = "S3_ENTROPY_COMMIT_WINDOW"
          /\ st'.state_class \in {"S3_ENTROPY_COMMIT_WINDOW", "S4_ENTROPY_REVEAL_WINDOW"}
          /\ ~st.players[i].committed
      BY <2>0, <3>1 DEF EntropyCommit, CanEntropyCommit, applyEntropyCommit, MoveTo, RoundStates
    <3>3. i \in DOMAIN st.players
      BY <3>1, SeatIndexIn DEF EntropyCommit, CanEntropyCommit
    <3>4. p.committed /\ p.revealed = st.players[i].revealed
      BY <2>0, <3>3 DEF Players
    <3> HIDE DEF i, p
    <3>5. CASE st'.state_class = "S4_ENTROPY_REVEAL_WINDOW"
      BY <3>2, <3>5, LaterClass, SMTT(30) DEF ClassRank
    <3>6. CASE st'.state_class = "S3_ENTROPY_COMMIT_WINDOW"
      <4>1. /\ DOMAIN st'.players = DOMAIN st.players
            /\ st'.players[i] = p
            /\ \A j \in DOMAIN st.players : j # i => st'.players[j] = st.players[j]
        BY <2>0, <3>2, <3>3
      <4>2. st.allowed_actions # {}
        BY <3>2 DEF ListInv
      <4>3. Milestones(st) \subseteq Milestones(st')
        BY <3>2, <3>4, <4>1, <4>2, MilestonesKept
      <4>4. <<"committed", i>> \in Milestones(st') /\ <<"committed", i>> \notin Milestones(st)
        BY <3>2, <3>3, <3>4, <4>1, MilestoneIn
      <4> QED BY <3>2, <3>6, <4>3, <4>4, OneMoreMilestone
    <3> QED BY <3>2, <3>5, <3>6
  <2>3. CASE \E a \in EntropyRevealActions : EntropyReveal(a)
    <3>1. PICK a \in EntropyRevealActions : EntropyReveal(a)
      BY <2>3
    <3> DEFINE i == SeatIndex(st, a.acting_player_seat)
               p == [st.players[i] EXCEPT !.revealed = TRUE, !.entropy = a.entropy,
                                          !.status = "active"]
    <3>2. /\ st'.players = [st.players EXCEPT ![i] = p]
          /\ st'.concealed_deck = st.concealed_deck
          /\ st'.decision_deadline = st.decision_deadline
          /\ st'.round_number = st.round_number
          /\ st.state_class = "S4_ENTROPY_REVEAL_WINDOW"
          /\ st'.state_class \in {"S4_ENTROPY_REVEAL_WINDOW", "S5_DECK_COMMITTED"}
          /\ ~st.players[i].revealed
      BY <2>0, <3>1 DEF EntropyReveal, CanEntropyReveal, applyEntropyReveal, MoveTo, RoundStates
    <3>3. i \in DOMAIN st.players
      BY <3>1, SeatIndexIn DEF EntropyReveal, CanEntropyReveal
    <3>4. p.revealed /\ p.committed = st.players[i].committed
      BY <2>0, <3>3 DEF Players
    <3> HIDE DEF i, p
    <3>5. CASE st'.state_class = "S5_DECK_COMMITTED"
      BY <3>2, <3>5, LaterClass, SMTT(30) DEF ClassRank
    <3>6. CASE st'.state_class = "S4_ENTROPY_REVEAL_WINDOW"
      <4>1. /\ DOMAIN st'.players = DOMAIN st.players
            /\ st'.players[i] = p
            /\ \A j \in DOMAIN st.players : j # i => st'.players[j] = st.players[j]
        BY <2>0, <3>2, <3>3
      <4>2. st.allowed_actions # {}
        BY <3>2 DEF ListInv
      <4>3. Milestones(st) \subseteq Milestones(st')
        BY <3>2, <3>4, <4>1, <4>2, MilestonesKept
      <4>4. <<"revealed", i>> \in Milestones(st') /\ <<"revealed", i>> \notin Milestones(st)
        BY <3>2, <3>3, <3>4, <4>1, MilestoneIn
      <4> QED BY <3>2, <3>6, <4>3, <4>4, OneMoreMilestone
    <3> QED BY <3>2, <3>5, <3>6
  <2>4. CASE \E a \in CardRevealActions : CardReveal(a)
    <3>1. /\ st'.round_number = st.round_number
          /\ <<st.state_class, st'.state_class>> \in
                {<<"S5_DECK_COMMITTED", "S6_CARD_REVEAL_FIRST">>,
                 <<"S6_CARD_REVEAL_FIRST", "S8_BET_DECISION">>,
                 <<"S9_CARD_REVEAL_THIRD", "S10_SETTLED_ROUND">>}
      BY <2>0, <2>4 DEF CardReveal, CanCardReveal, applyCardReveal, MoveTo, RoundStates
    <3> QED BY <3>1, LaterClass, SMTT(30) DEF ClassRank
  <2>5. CASE \E a \in DealConcealedActions : DealConcealed(a)
    <3>1. PICK a \in DealConcealedActions : DealConcealed(a)
      BY <2>5
    <3>2. /\ st' = [st EXCEPT !.concealed_deck = a.concealed_cards]
          /\ st.state_class = "S5_DECK_COMMITTED" /\ st.concealed_deck = Null
      BY <3>1 DEF DealConcealed, CanDealConcealed, applyDealConcealed
    <3>3. a.concealed_cards # Null
      BY DEF DealConcealedActions
    <3>4. /\ st'.players = st.players /\ st'.concealed_deck = a.concealed_cards
          /\ st'.decision_deadline = st.decision_deadline
          /\ st'.allowed_actions = st.allowed_actions
          /\ st'.round_number = st.round_number /\ st'.state_class = st.state_class
      BY <2>0, <3>2 DEF RoundStates
    <3>5. Milestones(st) \subseteq Milestones(st')
      BY <3>2, <3>4 DEF Milestones
    <3>6. <<"dealt", 0>> \in Milestones(st') /\ <<"dealt", 0>> \notin Milestones(st)
      BY <3>2, <3>3, <3>4, MilestoneIn
    <3> QED BY <3>2, <3>4, <3>5, <3>6, OneMoreMilestone
  <2>6. CASE \/ \E a \in Plain("TableLock") : TableLock(a)
             \/ \E a \in BetActions : Bet(a)
             \/ \E a \in Plain("Pass") : Pass(a)
             \/ \E a \in Plain("Timeout"), height \in Heights : Timeout(a, height)
    <3>1. /\ st'.round_number = st.round_number
          /\ <<st.state_class, st'.state_class>> \in
                {<<"S1_SEAT_OPEN", "S3_ENTROPY_COMMIT_WINDOW">>,
                 <<"S8_BET_DECISION", "S9_CARD_REVEAL_THIRD">>,
                 <<"S8_BET_DECISION", "S11_ROTATE_TURN">>}
      BY <2>0, <2>6 DEF TableLock, CanTableLock, applyTableLock, Bet, CanBet, applyBet, Pass,
                        CanPass, applyPass, Timeout, CanTimeout, applyTimeout, MoveTo, RoundStates
    <3> QED BY <3>1, LaterClass, SMTT(30) DEF ClassRank
  <2>7. CASE \/ \E a \in Plain("Fold") : Fold(a)
             \/ \E a \in Plain("Settle") : Settle(a)
    <3>1. /\ st'.round_number = st.round_number
          /\ st.state_class \in {"S8_BET_DECISION", "S10_SETTLED_ROUND"}
          /\ st'.state_class = "S11_ROTATE_TURN"
      BY <2>0, <2>7 DEF Fold, CanFold, applyFold, Settle, CanSettle, SettleChecks, applySettle,
                        MoveTo, RoundStates
    <3> QED BY <3>1, LaterClass, SMTT(30) DEF ClassRank
  <2>8. CASE \E a \in Plain("RotateTurn") : RotateTurn(a)
    <3>1. /\ st.state_class = "S11_ROTATE_TURN"
          /\ \/ st'.round_number = st.round_number /\ st'.state_class = "S12_TABLE_CLOSE"
             \/ st'.round_number = st.round_number + 1
      BY <2>0, <2>8 DEF RotateTurn, CanRotateTurn, applyRotateTurn, MoveTo, RoundStates
    <3>2. CASE st'.state_class = "S12_TABLE_CLOSE" /\ st'.round_number = st.round_number
      BY <3>1, <3>2, LaterClass, SMTT(30) DEF ClassRank
    <3>3. CASE st'.round_number = st.round_number + 1
      BY <2>0, <3>1, <3>3 DEF Forward
    <3> QED BY <3>1, <3>2, <3>3
  <2>9. CASE \E a \in Plain("TableClose") : TableClose(a)
    <3>1. st' = [st EXCEPT !.allowed_actions = {}] /\ st.state_class = "S12_TABLE_CLOSE"
      BY <2>9 DEF TableClose, CanTableClose, applyTableClose
    <3>2. /\ st'.players = st.players /\ st'.concealed_deck = st.concealed_deck
          /\ st'.decision_deadline = st.decision_deadline /\ st'.allowed_actions = {}
          /\ st'.round_number = st.round_number /\ st'.state_class = st.state_class
      BY <2>0, <3>1 DEF RoundStates
    <3>3. st.allowed_actions # {}
      BY <2>0, <3>1 DEF RoundStates
    <3>4. Milestones(st) \subseteq Milestones(st')
      BY <3>2, MilestonesKept
    <3>5. <<"closed", 0>> \in Milestones(st') /\ <<"closed", 0>> \notin Milestones(st)
      BY <3>2, <3>3, MilestoneIn
    <3> QED BY <3>1, <3>2, <3>4, <3>5, OneMoreMilestone
  <2>10. CASE \E a \in Plain("Recovery"), height \in Heights : Recovery(a, height)
    <3>1. st' = [st EXCEPT !.state_class = "RECOVERED", !.allowed_actions = {}]
      BY <2>10 DEF Recovery, applyRecovery
    <3>2. st.state_class # "RECOVERED"
      BY <2>0, <3>1 DEF RoundStates, ListInv
    <3>3. st'.state_class = "RECOVERED" /\ st'.round_number = st.round_number
            /\ st.state_class \in StateClasses
      BY <2>0, <3>1 DEF RoundStates
    <3>4. ClassRank("RECOVERED") > ClassRank(st.state_class)
      BY <3>2, <3>3 DEF ClassRank, StateClasses
    <3> QED BY <3>2, <3>3, <3>4, LaterClass
  <2>11. CASE \E d \in DecisionDeadlines : StampDeadline(d)
    <3>1. PICK d \in DecisionDeadlines : StampDeadline(d)
      BY <2>11
    <3>2. /\ st' = [st EXCEPT !.decision_deadline = d] /\ d # Null
          /\ st.state_class = "S8_BET_DECISION" /\ st.decision_deadline = Null
      BY <3>1 DEF StampDeadline
    <3>3. /\ st'.players = st.players /\ st'.concealed_deck = st.concealed_deck
          /\ st'.decision_deadline = d /\ st'.allowed_actions = st.allowed_actions
          /\ st'.round_number = st.round_number /\ st'.state_class = st.state_class
      BY <2>0, <3>2 DEF RoundStates
    <3>4. Milestones(st) \subseteq Milestones(st')
      BY <3>2, <3>3, MilestonesKept
    <3>5. <<"stamped", 0>> \in Milestones(st') /\ <<"stamped", 0>> \notin Milestones(st)
      BY <3>2, <3>3, MilestoneIn
    <3> QED BY <3>2, <3>3, <3>4, <3>5, OneMoreMilestone
  <2> QED BY <2>1, <2>2, <2>3, <2>4, <2>5, <2>6, <2>7, <2>8, <2>9, <2>10, <2>11 DEF Next
<1> QED BY <1>1, <1>2, ListInvNext, SpecInductive, PTL DEF Spec, AlwaysForward

-----------------------------------------------------------------------------
(* applyAction by itself, on any state and any action. *)

(* A RoundState with somebody at the table once it is locked. *)
Sound(s) ==
    /\ s \in RoundStates
    /\ s.state_class \notin {"S1_SEAT_OPEN", "RECOVERED"} => Len(s.players) > 0

(* What an action must carry for the engine to stay within its types. *)
WellFormed(a) ==
    /\ a.action_type \in ActionTypes
    /\ a.action_type = "Join" =>
          a.acting_player_seat \in Nat \cup {Null} /\ a.player_pubkey \in Pubkeys
    /\ a.action_type = "EntropyCommit" => a.commitment_hash \in Hashes
    /\ a.action_type = "EntropyReveal" => a.entropy \in Entropies
    /\ a.action_type = "CardReveal" => a.card \in Ordinals
    /\ a.action_type = "DealConcealed" => a.concealed_cards \in Seq(ConcealedCards)
    /\ a.action_type = "BetAction" => a.bet_amount \in Nat

LEMMA AllActionsWellFormed == \A a \in AllActions : WellFormed(a)
<1> SUFFICES ASSUME NEW a \in AllActions PROVE WellFormed(a)
  OBVIOUS
<1> USE InputAssumption DEF WellFormed, ActionTypes
<1>1. CASE a \in JoinActions
  BY <1>1 DEF JoinActions
<1>2. CASE a \in EntropyCommitActions
  BY <1>2 DEF EntropyCommitActions
<1>3. CASE a \in EntropyRevealActions
  BY <1>3 DEF EntropyRevealActions
<1>4. CASE a \in CardRevealActions
  BY <1>4 DEF CardRevealActions
<1>5. CASE a \in DealConcealedActions
  BY <1>5 DEF DealConcealedActions
<1>6. CASE a \in BetActions
  BY <1>6 DEF BetActions
<1>7. ASSUME NEW type \in {"TableLock", "Pass", "Fold", "Settle", "RotateTurn", "TableClose",
                          "Timeout", "Recovery"},
             a \in Plain(type)
      PROVE  WellFormed(a)
  BY <1>7 DEF Plain
<1> QED BY <1>1, <1>2, <1>3, <1>4, <1>5, <1>6, <1>7 DEF AllActions

(* An accepted action leaves a RoundState, wherever it comes from. *)
LEMMA AcceptedType ==
    ASSUME NEW s, Sound(s), NEW a, WellFormed(a), NEW height, Accepts(s, a, height)
    PROVE  Sound(Successor(s, a))
<1> USE EngineAssumption, RulesAssumption
<1> USE DEF Sound
<1> DEFINE t == Successor(s, a)
<1>0. /\ s \in RoundStates
      /\ Len(s.players) \in Nat
      /\ s.state_class \notin {"S1_SEAT_OPEN", "RECOVERED"} => Len(s.players) > 0
  BY DEF RoundStates
<1>m. \A class \in StateClasses :
         /\ MoveTo(s, class) \in RoundStates
         /\ MoveTo(s, class).players = s.players
  BY <1>0, MoveToType DEF MoveTo, RoundStates
<1>c. {"S3_ENTROPY_COMMIT_WINDOW", "S9_CARD_REVEAL_THIRD", "S11_ROTATE_TURN"}
         \subseteq StateClasses
  BY DEF StateClasses
<1>1. CASE a.action_type = "Join"
  <2>1. CanJoin(s, a) /\ t = applyJoin(s, a)
    BY <1>1 DEF Accepts, Successor
  <2> QED BY <1>0, <1>1, <2>1, JoinType DEF WellFormed
<1>2. CASE a.action_type = "TableLock"
  <2>1. CanTableLock(s) /\ t = applyTableLock(s)
    BY <1>2 DEF Accepts, Successor
  <2> QED BY <1>0, <1>m, <1>c, <2>1 DEF applyTableLock, CanTableLock
<1>3. CASE a.action_type = "EntropyCommit"
  <2>1. CanEntropyCommit(s, a) /\ t = applyEntropyCommit(s, a)
    BY <1>3 DEF Accepts, Successor
  <2> QED BY <1>0, <1>3, <2>1, EntropyCommitType DEF WellFormed, CanEntropyCommit
<1>4. CASE a.action_type = "EntropyReveal"
  <2>1. CanEntropyReveal(s, a) /\ t = applyEntropyReveal(s, a)
    BY <1>4 DEF Accepts, Successor
  <2> QED BY <1>0, <1>4, <2>1, EntropyRevealType DEF WellFormed, CanEntropyReveal
<1>5. CASE a.action_type = "CardReveal"
  <2>1. CanCardReveal(s) /\ t = applyCardReveal(s, a)
    BY <1>5 DEF Accepts, Successor
  <2> QED BY <1>0, <1>5, <2>1, CardRevealType DEF WellFormed, CanCardReveal
<1>6. CASE a.action_type = "DealConcealed"
  <2>1. CanDealConcealed(s, a) /\ t = applyDealConcealed(s, a)
    BY <1>6 DEF Accepts, Successor
  <2> QED BY <1>0, <1>6, <2>1 DEF WellFormed, applyDealConcealed, RoundStates
<1>7. CASE a.action_type = "BetAction"
  <2>1. CanBet(s, a) /\ t = applyBet(s, a)
    BY <1>7 DEF Accepts, Successor
  <2>2. s.pot_value + a.bet_amount \in Satoshis
    BY <1>0, <1>7, <2>1 DEF CanBet, IsSafeInteger, Satoshis, RoundStates, WellFormed
  <2> DEFINE x == [s EXCEPT !.pot_value = @ + a.bet_amount]
  <2>3. x \in RoundStates /\ x.players = s.players
    BY <1>0, <2>2 DEF RoundStates
  <2>4. t = MoveTo(x, "S9_CARD_REVEAL_THIRD") /\ Len(s.players) > 0
    BY <1>0, <2>1 DEF applyBet, CanBet
  <2> HIDE DEF x
  <2>5. t \in RoundStates /\ t.players = x.players
    BY <1>c, <2>3, <2>4, MoveToType, ZenonT(30) DEF MoveTo, RoundStates
  <2> QED BY <2>3, <2>4, <2>5
<1>8. CASE a.action_type = "Pass"
  <2>1. CanPass(s) /\ t = applyPass(s)
    BY <1>8 DEF Accepts, Successor
  <2> QED BY <1>0, <1>m, <1>c, <2>1 DEF applyPass, CanPass
<1>9. CASE a.action_type = "Fold"
  <2>1. CanFold(s, a) /\ t = applyFold(s, a)
    BY <1>9 DEF Accepts, Successor
  <2> QED BY <1>0, <2>1, FoldType DEF CanFold
<1>10. CASE a.action_type = "Settle"
  <2>1. CanSettle(s) /\ t = applySettle(s)
    BY <1>10 DEF Accepts, Successor
  <2> QED BY <1>0, <2>1, SettleType DEF CanSettle, SettleChecks
<1>11. CASE a.action_type = "RotateTurn"
  <2>1. CanRotateTurn(s) /\ t = applyRotateTurn(s)
    BY <1>11 DEF Accepts, Successor
  <2> QED BY <1>0, <2>1, RotateTurnType DEF CanRotateTurn
<1>12. CASE a.action_type = "TableClose"
  <2>1. CanTableClose(s) /\ t = applyTableClose(s)
    BY <1>12 DEF Accepts, Successor
  <2> QED BY <1>0, <2>1 DEF applyTableClose, CanTableClose, RoundStates
<1>13. CASE a.action_type = "Timeout"
  <2>1. CanTimeout(s, height) /\ t = applyTimeout(s)
    BY <1>13 DEF Accepts, Successor
  <2> QED BY <1>0, <1>m, <1>c, <2>1 DEF applyTimeout, CanTimeout
<1>14. CASE a.action_type = "Recovery"
  <2>1. t = applyRecovery(s)
    BY <1>14 DEF Successor
  <2> QED BY <1>0, <2>1 DEF applyRecovery, RoundStates, StateClasses
<1> QED
  BY <1>1, <1>2, <1>3, <1>4, <1>5, <1>6, <1>7, <1>8, <1>9, <1>10, <1>11, <1>12, <1>13, <1>14
     DEF WellFormed, ActionTypes

-----------------------------------------------------------------------------
(* What a replay computes, for every list of entries.  The provers have no *)
(* induction; its place is taken by the least counterexample, which the    *)
(* well-foundedness of < on the naturals provides.                         *)

(* Every nonempty set of naturals has a least element. *)
LEMMA LeastNat ==
    ASSUME NEW T, T \subseteq Nat, T # {}
    PROVE  \E x \in T : \A y \in T : x <= y
<1> DEFINE R == OpToRel(<, Nat)
<1>1. IsWellFoundedOn(R, Nat)
    BY NatLessThanWellFounded, Zenon
<1>2. PICK x \in T : \A y \in T : <<y, x>> \notin R
    <2> HIDE DEF R
    <2> QED BY <1>1, WFMin
<1>3. \A y \in T : ~(y < x)
    BY <1>2 DEF OpToRel
<1> QED BY <1>3

(* f is the list of states that n entries lead through from s. *)
IsRun(f, s, entries, n) ==
    f = [k \in 0 .. n |-> IF k = 0 THEN s ELSE ReplayStep(f[k - 1], entries[k])]

LEMMA RunExists ==
    ASSUME NEW s, NEW entries, NEW n \in Nat
    PROVE  \E f : IsRun(f, s, entries, n)
<1> DEFINE T == {m \in Nat : ~\E f : IsRun(f, s, entries, m)}
<1> SUFFICES ASSUME T # {} PROVE FALSE
    OBVIOUS
<1>1. PICK m \in T : \A y \in T : m <= y
    <2> HIDE DEF T
    <2>1. T \subseteq Nat BY DEF T
    <2> QED BY <2>1, LeastNat
<1>2. m # 0
    <2> DEFINE f == [k \in 0 .. 0 |-> s]
    <2>1. IsRun(f, s, entries, 0)
        BY DEF IsRun
    <2> QED BY <2>1
<1>3. m - 1 \in Nat /\ m - 1 \notin T
    BY <1>1, <1>2
<1>4. PICK f : IsRun(f, s, entries, m - 1)
    BY <1>3
<1> DEFINE g == [k \in 0 .. m |-> IF k = m THEN ReplayStep(f[m - 1], entries[m]) ELSE f[k]]
<1>5. \A k \in 0 .. m - 1 : g[k] = f[k]
    BY <1>3
<1>6. \A k \in 0 .. m : g[k] = IF k = 0 THEN s ELSE ReplayStep(g[k - 1], entries[k])
    <2> SUFFICES ASSUME NEW k \in 0 .. m
                 PROVE  g[k] = IF k = 0 THEN s ELSE ReplayStep(g[k - 1], entries[k])
        OBVIOUS
    <2>1. CASE k = m
        <3>1. g[k] = ReplayStep(f[m - 1], entries[m])
            BY <2>1
        <3> QED BY <1>2, <1>3, <1>5, <2>1, <3>1
    <2>2. CASE k # m
        <3>1. k \in 0 .. m - 1 /\ (k # 0 => k - 1 \in 0 .. m - 1)
            BY <1>3, <2>2
        <3>2. f[k] = IF k = 0 THEN s ELSE ReplayStep(f[k - 1], entries[k])
            BY <1>4, <3>1 DEF IsRun
        <3> HIDE DEF g
        <3> QED BY <1>5, <3>1, <3>2
    <2> QED BY <2>1, <2>2
<1>7. IsRun(g, s, entries, m)
    <2>1. g = [k \in 0 .. m |-> g[k]]
        OBVIOUS
    <2> HIDE DEF g
    <2> QED BY <1>6, <2>1 DEF IsRun
<1> QED BY <1>7

(* Two runs from the same state over the same first n entries agree on     *)
(* them.                                                                   *)
LEMMA RunsAgree ==
    ASSUME NEW s, NEW a, NEW b, NEW n \in Nat, NEW m \in Nat, n <= m,
           \A k \in 1 .. n : a[k] = b[k],
           NEW f, IsRun(f, s, a, n), NEW g, IsRun(g, s, b, m)
    PROVE  \A k \in 0 .. n : f[k] = g[k]
<1> DEFINE T == {k \in 0 .. n : f[k] # g[k]}
<1> SUFFICES ASSUME T # {} PROVE FALSE
    OBVIOUS
<1>1. PICK k \in T : \A y \in T : k <= y
    <2>1. T \subseteq Nat OBVIOUS
    <2> HIDE DEF T
    <2> QED BY <2>1, LeastNat
<1>2. k \in 0 .. n /\ k \in 0 .. m /\ f[k] # g[k]
    OBVIOUS
<1>3. f[k] = IF k = 0 THEN s ELSE ReplayStep(f[k - 1], a[k])
    BY <1>2 DEF IsRun
<1>4. g[k] = IF k = 0 THEN s ELSE ReplayStep(g[k - 1], b[k])
    BY <1>2 DEF IsRun
<1>5. k # 0
    BY <1>2, <1>3, <1>4
<1>6. k - 1 \in 0 .. n /\ k - 1 \notin T /\ k \in 1 .. n
    BY <1>1, <1>2, <1>5
<1>7. f[k - 1] = g[k - 1] /\ a[k] = b[k]
    BY <1>6
<1> QED BY <1>2, <1>3, <1>4, <1>5, <1>7

(* A replay's result is where any run over its entries ends. *)
LEMMA ReplayEnds ==
    ASSUME NEW s, NEW entries, NEW f, Len(entries) \in Nat,
           IsRun(f, s, entries, Len(entries))
    PROVE  ReplayFrom(s, entries) = f[Len(entries)]
<1> DEFINE n == Len(entries)
           after == CHOOSE g : IsRun(g, s, entries, n)
<1>1. IsRun(after, s, entries, n)
    OBVIOUS
<1>2. ReplayFrom(s, entries) = after[n]
    BY DEF ReplayFrom, IsRun
<1> HIDE DEF after, n
<1>3. after[n] = f[n]
    BY <1>1, RunsAgree DEF n
<1> QED BY <1>2, <1>3 DEF n

-----------------------------------------------------------------------------
(* Replaying no entries changes nothing. *)
LEMMA ReplayNothing == ASSUME NEW s PROVE ReplayFrom(s, << >>) = s
<1>1. PICK f : IsRun(f, s, << >>, 0)
    BY RunExists
<1>2. f[0] = s
    BY <1>1 DEF IsRun
<1> QED BY <1>1, <1>2, ReplayEnds

(* A replay may be interrupted and resumed anywhere: replaying one list    *)
(* and then another is replaying the two in a row.                         *)
LEMMA ReplayConcat ==
    ASSUME NEW X, NEW a \in Seq(X), NEW b \in Seq(X), NEW s
    PROVE  ReplayFrom(s, a \o b) = ReplayFrom(ReplayFrom(s, a), b)
<1> DEFINE m == Len(a)
           n == Len(b)
           c == a \o b
           t == ReplayFrom(s, a)
<1>1. /\ m \in Nat /\ n \in Nat /\ Len(c) = m + n
      /\ \A k \in 1 .. m : c[k] = a[k]
      /\ \A k \in 1 .. n : c[m + k] = b[k]
    OBVIOUS
<1>2. PICK f : IsRun(f, s, a, m)
    BY <1>1, RunExists
<1>3. f[m] = t
    BY <1>1, <1>2, ReplayEnds
<1>4. PICK g : IsRun(g, t, b, n)
    BY <1>1, RunExists
<1>5. g[n] = ReplayFrom(t, b)
    BY <1>1, <1>4, ReplayEnds
<1> DEFINE h == [k \in 0 .. m + n |-> IF k <= m THEN f[k] ELSE g[k - m]]
<1> HIDE DEF c, t, m, n
<1>6. g[0] = t
    BY <1>1, <1>4 DEF IsRun
<1>7. \A k \in 0 .. m + n : h[k] = IF k = 0 THEN s ELSE ReplayStep(h[k - 1], c[k])
    <2> SUFFICES ASSUME NEW k \in 0 .. m + n
                 PROVE  h[k] = IF k = 0 THEN s ELSE ReplayStep(h[k - 1], c[k])
        OBVIOUS
    <2>1. CASE k <= m
        <3>1. k \in 0 .. m /\ h[k] = f[k] /\ (k # 0 => h[k - 1] = f[k - 1] /\ k \in 1 .. m)
            BY <1>1, <2>1
        <3>2. f[k] = IF k = 0 THEN s ELSE ReplayStep(f[k - 1], a[k])
            BY <1>2, <3>1 DEF IsRun
        <3> HIDE DEF h
        <3> QED BY <1>1, <3>1, <3>2
    <2>2. CASE ~(k <= m)
        <3> DEFINE j == k - m
        <3>1. j \in 1 .. n /\ k = m + j /\ k # 0 /\ h[k] = g[j]
            BY <1>1, <2>2
        <3>2. h[k - 1] = g[j - 1]
            <4>1. CASE j = 1
                <5>1. k - 1 = m /\ h[m] = f[m]
                    BY <1>1, <4>1
                <5> QED BY <1>3, <1>6, <4>1, <5>1
            <4>2. CASE j # 1
                BY <1>1, <3>1, <4>2
            <4> QED BY <4>1, <4>2
        <3>3. g[j] = ReplayStep(g[j - 1], b[j])
            BY <1>1, <1>4, <3>1 DEF IsRun
        <3> HIDE DEF h, j
        <3> QED BY <1>1, <3>1, <3>2, <3>3
    <2> QED BY <2>1, <2>2
<1>8. IsRun(h, s, c, m + n)
    <2>1. h = [k \in 0 .. m + n |-> h[k]]
        OBVIOUS
    <2> HIDE DEF h
    <2> QED BY <1>7, <2>1 DEF IsRun
<1>9. ReplayFrom(s, c) = h[m + n]
    <2> HIDE DEF h
    <2> QED BY <1>1, <1>8, ReplayEnds
<1>10. h[m + n] = g[n]
    <2>1. CASE n = 0
        BY <1>1, <1>3, <1>6, <2>1
    <2>2. CASE n # 0
        BY <1>1, <2>2
    <2> QED BY <2>1, <2>2
<1> QED BY <1>5, <1>9, <1>10 DEF c, t

(* One entry more is one step more. *)
LEMMA ReplayAppend ==
    ASSUME NEW X, NEW a \in Seq(X), NEW e \in X, NEW s
    PROVE  ReplayFrom(s, Append(a, e)) = ReplayStep(ReplayFrom(s, a), e)
<1> DEFINE t == ReplayFrom(s, a)
           b == <<e>>
<1>1. b \in Seq(X) /\ Append(a, e) = a \o b /\ Len(b) = 1 /\ b[1] = e
    OBVIOUS
<1>2. ReplayFrom(s, a \o b) = ReplayFrom(t, b)
    BY <1>1, ReplayConcat
<1> HIDE DEF t, b
<1>3. PICK f : IsRun(f, t, b, 1)
    BY RunExists
<1>4. f[0] = t /\ f[1] = ReplayStep(f[0], b[1])
    BY <1>3 DEF IsRun
<1>5. ReplayFrom(t, b) = f[1]
    BY <1>1, <1>3, ReplayEnds
<1> QED BY <1>1, <1>2, <1>4, <1>5 DEF t

-----------------------------------------------------------------------------
(* Lists of whatever: sequences whose elements need no type. *)

IsList(f) == Len(f) \in Nat /\ f = [g \in 1 .. Len(f) |-> f[g]]

LEMMA ListIsSeq ==
    ASSUME NEW f, NEW n \in Nat, f = [g \in 1 .. n |-> f[g]]
    PROVE  f \in Seq({f[g] : g \in 1 .. n}) /\ Len(f) = n /\ IsList(f)
<1> DEFINE S == {f[g] : g \in 1 .. n}
<1>1. \A g \in 1 .. n : f[g] \in S
  OBVIOUS
<1> HIDE DEF S
<1>2. f \in [1 .. n -> S]
  BY <1>1
<1>3. f \in Seq(S) /\ Len(f) = n
  BY <1>2
<1> QED BY <1>3 DEF S, IsList

LEMMA ListAppend ==
    ASSUME NEW u, IsList(u), NEW e
    PROVE  /\ IsList(Append(u, e)) /\ Len(Append(u, e)) = Len(u) + 1
           /\ \A i \in 1 .. Len(u) : Append(u, e)[i] = u[i]
           /\ Append(u, e)[Len(u) + 1] = e
<1> DEFINE n == Len(u)
           X == {u[i] : i \in 1 .. n} \cup {e}
           v == Append(u, e)
<1>1. n \in Nat /\ u = [i \in 1 .. n |-> u[i]]
  BY DEF IsList
<1> HIDE DEF n
<1>2. u \in Seq({u[i] : i \in 1 .. n}) /\ Len(u) = n
  BY <1>1, ListIsSeq
<1>3. u \in Seq(X) /\ e \in X
  BY <1>2
<1> HIDE DEF X
<1>4. /\ v \in Seq(X) /\ Len(v) = n + 1 /\ v[n + 1] = e
      /\ \A i \in 1 .. n : v[i] = u[i]
  BY <1>1, <1>2, <1>3
<1> HIDE DEF v
<1>5. v \in [1 .. Len(v) -> X] /\ Len(v) \in Nat
  BY <1>4
<1>6. IsList(v)
  BY <1>5 DEF IsList
<1> QED BY <1>4, <1>6 DEF v, n
=============================================================================
