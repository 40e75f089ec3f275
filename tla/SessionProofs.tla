--------------------------- MODULE SessionProofs ---------------------------
(* The session keeps every promise of the engine, for any rule set, any    *)
(* shuffle and any number of actions, and adds its own; whoever replays    *)
(* its transcript arrives where it did.                                    *)
EXTENDS Audit, EngineProofs

(* An action applyAction accepts is a step of Engine. *)
LEMMA AcceptedStep ==
    ASSUME NEW a \in AllActions, NEW height \in Heights,
           Accepts(st, a, height), st' = Successor(st, a)
    PROVE  Next
<1>1. CASE a \in JoinActions
    <2>1. a.action_type = "Join"
        BY <1>1 DEF JoinActions
    <2> QED BY <1>1, <2>1 DEF Accepts, Successor, Next, Join
<1>2. CASE a \in EntropyCommitActions
    <2>1. a.action_type = "EntropyCommit"
        BY <1>2 DEF EntropyCommitActions
    <2> QED BY <1>2, <2>1 DEF Accepts, Successor, Next, EntropyCommit
<1>3. CASE a \in EntropyRevealActions
    <2>1. a.action_type = "EntropyReveal"
        BY <1>3 DEF EntropyRevealActions
    <2> QED BY <1>3, <2>1 DEF Accepts, Successor, Next, EntropyReveal
<1>4. CASE a \in CardRevealActions
    <2>1. a.action_type = "CardReveal"
        BY <1>4 DEF CardRevealActions
    <2> QED BY <1>4, <2>1 DEF Accepts, Successor, Next, CardReveal
<1>5. CASE a \in DealConcealedActions
    <2>1. a.action_type = "DealConcealed"
        BY <1>5 DEF DealConcealedActions
    <2> QED BY <1>5, <2>1 DEF Accepts, Successor, Next, DealConcealed
<1>6. CASE a \in BetActions
    <2>1. a.action_type = "BetAction"
        BY <1>6 DEF BetActions
    <2> QED BY <1>6, <2>1 DEF Accepts, Successor, Next, Bet
<1>7. \A type : a \in Plain(type) => a.action_type = type
    BY DEF Plain
<1>8. CASE a \in Plain("TableLock") \/ a \in Plain("Pass") \/ a \in Plain("Fold")
    BY <1>7, <1>8 DEF Accepts, Successor, Next, TableLock, Pass, Fold
<1>9. CASE a \in Plain("Settle") \/ a \in Plain("RotateTurn") \/ a \in Plain("TableClose")
    BY <1>7, <1>9 DEF Accepts, Successor, Next, Settle, RotateTurn, TableClose
<1>10. CASE a \in Plain("Timeout") \/ a \in Plain("Recovery")
    BY <1>7, <1>10 DEF Accepts, Successor, Next, Timeout, Recovery
<1> QED
    BY <1>1, <1>2, <1>3, <1>4, <1>5, <1>6, <1>8, <1>9, <1>10 DEF AllActions

(* Submit changes the table only by steps of the engine: what TLC checks   *)
(* as a refinement holds for every instance, and every theorem about the   *)
(* engine is one about the session.                                        *)
THEOREM SessionImplementsEngine == SessionSpec => RefinesEngine
<1>1. SessionInit => Init
    BY DEF SessionInit
<1>2. [SessionNext]_sessionVars => [Next]_st
    BY AcceptedStep DEF SessionNext, Submit, sessionVars
<1> QED
    BY <1>1, <1>2, PTL DEF SessionSpec, Spec, RefinesEngine

-----------------------------------------------------------------------------
(* Nonces. *)

Entry == [action : AllActions, nonce : Nat, height : Heights]

(* NonceAcceptedOnce needs to know that the set remembers the transcript.  *)
NonceInv ==
    /\ IsFiniteSet(seenNonces)
    /\ transcript \in Seq(Entry)
    /\ \A i \in DOMAIN transcript : transcript[i].nonce \in seenNonces
    /\ NonceAcceptedOnce

LEMMA NonceInvNext == ASSUME NonceInv, SessionNext PROVE NonceInv'
<1>1. PICK a \in AllActions, nonce \in Nonces, height \in Heights : Submit(a, nonce, height)
    BY DEF SessionNext
<1> DEFINE e == [action |-> a, nonce |-> nonce, height |-> height]
           n == Len(transcript)
<1>2. nonce \in Nat
    BY FS_CardinalityType DEF Nonces, NonceInv
<1>3. e \in Entry /\ e.nonce = nonce
    BY <1>2 DEF Entry
<1>4. /\ transcript' = Append(transcript, e)
      /\ seenNonces' = seenNonces \cup {nonce}
      /\ nonce \notin seenNonces
    BY <1>1 DEF Submit, Record, Remember
<1> HIDE DEF e
<1>5. /\ transcript' \in Seq(Entry)
      /\ n \in Nat /\ DOMAIN transcript = 1 .. n /\ DOMAIN transcript' = 1 .. n + 1
      /\ transcript'[n + 1] = e
      /\ \A i \in 1 .. n : transcript'[i] = transcript[i]
    BY <1>3, <1>4 DEF NonceInv
<1>6. IsFiniteSet(seenNonces')
    BY <1>4, FS_AddElement DEF NonceInv
<1>7. \A i \in 1 .. n : transcript'[i].nonce \in seenNonces /\ transcript'[i].nonce # nonce
    BY <1>4, <1>5 DEF NonceInv
<1>8. NonceAcceptedOnce'
    <2> SUFFICES ASSUME NEW i \in 1 .. n + 1, NEW j \in 1 .. n + 1,
                        transcript'[i].nonce = transcript'[j].nonce
                 PROVE  i = j
        BY <1>5 DEF NonceAcceptedOnce
    <2> HIDE DEF n
    <2>1. transcript'[n + 1].nonce = nonce
        BY <1>3, <1>5
    <2>2. CASE i \in 1 .. n /\ j \in 1 .. n
        <3>1. transcript[i].nonce = transcript[j].nonce
            BY <1>5, <2>2
        <3> QED BY <1>5, <2>2, <3>1 DEF NonceInv, NonceAcceptedOnce
    <2>3. CASE i = n + 1 \/ j = n + 1
        BY <1>5, <1>7, <2>1, <2>3
    <2> QED BY <1>5, <2>2, <2>3
<1> QED
    BY <1>3, <1>4, <1>5, <1>6, <1>7, <1>8 DEF NonceInv

(* Whatever clients resend, and however their counters collide, Submit     *)
(* accepts a nonce once.                                                   *)
THEOREM NonceUsedOnce == SessionSpec => []NonceAcceptedOnce
<1>1. SessionInit => NonceInv
    BY FS_EmptySet DEF SessionInit, NonceInv, NonceAcceptedOnce
<1>2. NonceInv /\ [SessionNext]_sessionVars => NonceInv'
    BY NonceInvNext DEF NonceInv, NonceAcceptedOnce, sessionVars
<1>3. NonceInv => NonceAcceptedOnce
    BY DEF NonceInv
<1> QED
    BY <1>1, <1>2, <1>3, PTL DEF SessionSpec

-----------------------------------------------------------------------------
(* Openings. *)

(* What a handler may do to a player without touching its commitment.      *)
SameOpening(p, q) ==
    /\ q.revealed = p.revealed
    /\ q.pubkey = p.pubkey
    /\ q.commitment = p.commitment
    /\ q.entropy = p.entropy

(* A step that keeps what every seat committed to and opened keeps the     *)
(* reveals matched.                                                        *)
LEMMA OpeningsKept ==
    ASSUME RevealsOpenCommitments, DOMAIN st'.players = DOMAIN st.players,
           \A i \in DOMAIN st.players : SameOpening(st.players[i], st'.players[i])
    PROVE  RevealsOpenCommitments'
BY DEF RevealsOpenCommitments, SameOpening, CommitEntropy

(* One accepted action. *)
LEMMA OpeningsStep ==
    ASSUME TypeInv, EntropyInv, RevealsOpenCommitments,
           NEW a \in AllActions, NEW height \in Heights, verifyCrypto(a),
           Accepts(st, a, height), st' = Successor(st, a)
    PROVE  RevealsOpenCommitments'
<1>0. /\ st \in RoundStates
      /\ st.players \in Seq(Players)
      /\ \A j \in DOMAIN st.players : st.players[j] \in Players
    BY DEF TypeInv, TypeOK, RoundStates
<1> DEFINE i == SeatIndex(st, a.acting_player_seat)
<1>i. a.acting_player_seat \in Seats(st) =>
         i \in DOMAIN st.players /\ st.players[i].seat = a.acting_player_seat
    BY DEF Seats, SeatIndex
<1>1. CASE a \in JoinActions
    <2>1. a.action_type = "Join"
        BY <1>1 DEF JoinActions
    <2> DEFINE p == [seat |-> JoinSeat(st, a), pubkey |-> a.player_pubkey,
                     status |-> "joined", stake |-> a.stake_amount,
                     committed |-> FALSE, commitment |-> Null,
                     revealed |-> FALSE, entropy |-> Null]
               n == Len(st.players)
    <2>2. st'.players = Append(st.players, p)
        BY <1>0, <2>1 DEF Successor, applyJoin, RoundStates
    <2>3. ~p.revealed
        OBVIOUS
    <2> HIDE DEF p
    <2>4. /\ n \in Nat /\ DOMAIN st.players = 1 .. n /\ DOMAIN st'.players = 1 .. n + 1
          /\ st'.players[n + 1] = p
          /\ \A j \in 1 .. n : st'.players[j] = st.players[j]
        BY <1>0, <2>2
    <2> QED
        BY <2>3, <2>4, SMTT(30) DEF RevealsOpenCommitments, CommitEntropy
<1>2. CASE a \in EntropyCommitActions
    <2>1. a.action_type = "EntropyCommit"
        BY <1>2 DEF EntropyCommitActions
    <2>2. CanEntropyCommit(st, a) /\ st' = applyEntropyCommit(st, a)
        BY <2>1 DEF Accepts, Successor
    <2> DEFINE p == [st.players[i] EXCEPT !.committed = TRUE, !.commitment = a.commitment_hash]
    <2>3. st'.players = [st.players EXCEPT ![i] = p]
        BY <1>0, <2>2 DEF applyEntropyCommit, MoveTo, RoundStates
    <2>4. i \in DOMAIN st.players /\ \A j \in DOMAIN st.players : ~st.players[j].revealed
        BY <1>i, <2>2 DEF CanEntropyCommit, EntropyInv
    <2>5. ~p.revealed
        BY <1>0, <2>4 DEF Players
    <2> HIDE DEF i, p
    <2>6. DOMAIN st'.players = DOMAIN st.players /\ \A j \in DOMAIN st.players : ~st'.players[j].revealed
        BY <1>0, <2>3, <2>4, <2>5
    <2> QED
        BY <2>6 DEF RevealsOpenCommitments
<1>3. CASE a \in EntropyRevealActions
    <2>1. a.action_type = "EntropyReveal"
        BY <1>3 DEF EntropyRevealActions
    <2>2. CanEntropyReveal(st, a) /\ st' = applyEntropyReveal(st, a) /\ OpensCommitment(a)
        BY <2>1 DEF Accepts, Successor, verifyCrypto
    <2> DEFINE p == [st.players[i] EXCEPT !.revealed = TRUE, !.entropy = a.entropy,
                                          !.status = "active"]
    <2>3. st'.players = [st.players EXCEPT ![i] = p]
        BY <1>0, <2>2 DEF applyEntropyReveal, MoveTo, RoundStates
    <2>4. i \in DOMAIN st.players /\ st.players[i].seat = a.acting_player_seat
        BY <1>i, <2>2 DEF CanEntropyReveal
    <2>5. st.players[i].commitment = CommitEntropy(a.entropy, st.players[i].pubkey)
        BY <2>2, <2>4 DEF OpensCommitment, EntropyInv, SeatsDistinct
    <2>6. /\ p.commitment = st.players[i].commitment
          /\ p.entropy = a.entropy
          /\ p.pubkey = st.players[i].pubkey
        BY <1>0, <2>4 DEF Players
    <2>7. p.commitment = CommitEntropy(p.entropy, p.pubkey)
        BY <2>5, <2>6
    <2> HIDE DEF i, p
    <2>8. /\ DOMAIN st'.players = DOMAIN st.players
          /\ st'.players[i] = p
          /\ \A j \in DOMAIN st.players \ {i} : st'.players[j] = st.players[j]
        BY <1>0, <2>3, <2>4
    <2> QED
        BY <2>7, <2>8 DEF RevealsOpenCommitments, CommitEntropy
<1>7. \A type : a \in Plain(type) => a.action_type = type
    BY DEF Plain
<1>4. CASE a \in Plain("Fold")
    <2>1. CanFold(st, a) /\ st' = applyFold(st, a)
        BY <1>4, <1>7 DEF Accepts, Successor
    <2> DEFINE p == [st.players[i] EXCEPT !.status = "folded"]
    <2>2. st'.players = [st.players EXCEPT ![i] = p]
        BY <1>0, <2>1 DEF applyFold, MoveTo, RoundStates
    <2>3. i \in DOMAIN st.players
        BY <1>i, <2>1 DEF CanFold
    <2>4. SameOpening(st.players[i], p)
        BY <1>0, <2>3 DEF SameOpening, Players
    <2> HIDE DEF i, p
    <2>5. \A j \in DOMAIN st.players : SameOpening(st.players[j], st'.players[j])
        BY <1>0, <2>2, <2>3, <2>4 DEF SameOpening
    <2> QED
        BY <1>0, <2>2, <2>5, OpeningsKept
<1>5. CASE a \in Plain("Settle")
    <2>1. st' = applySettle(st)
        BY <1>5, <1>7 DEF Successor
    <2>2. st'.players = [j \in DOMAIN st.players |->
                           [st.players[j] EXCEPT !.stake = SettleStake(st, j)]]
        BY <1>0, <2>1 DEF applySettle, MoveTo, RoundStates
    <2>3. \A j \in DOMAIN st.players : SameOpening(st.players[j], st'.players[j])
        BY <1>0, <2>2 DEF SameOpening, Players
    <2> QED
        BY <2>2, <2>3, OpeningsKept
<1>6. CASE \/ a \in CardRevealActions \cup DealConcealedActions \cup BetActions
           \/ \E type \in {"TableLock", "Pass", "RotateTurn", "TableClose", "Timeout", "Recovery"} :
                 a \in Plain(type)
    <2>1. a.action_type \in {"CardReveal", "DealConcealed", "BetAction", "TableLock", "Pass",
                             "RotateTurn", "TableClose", "Timeout", "Recovery"}
        BY <1>6, <1>7 DEF CardRevealActions, DealConcealedActions, BetActions
    <2>2. CASE a.action_type = "CardReveal"
        <3>1. st' = applyCardReveal(st, a) /\ CanCardReveal(st)
            BY <2>2 DEF Successor, Accepts
        <3> QED
            BY <1>0, <3>1 DEF applyCardReveal, CanCardReveal, MoveTo, RoundStates,
                              RevealsOpenCommitments, CommitEntropy
    <2>3. CASE a.action_type \in {"DealConcealed", "BetAction", "TableLock", "Pass"}
        <3>1. st'.players = st.players
            BY <1>0, <2>3 DEF Successor, applyDealConcealed, applyBet, applyTableLock,
                              applyPass, MoveTo, RoundStates
        <3> QED
            BY <3>1 DEF RevealsOpenCommitments, CommitEntropy
    <2>4. CASE a.action_type \in {"RotateTurn", "TableClose", "Timeout", "Recovery"}
        <3>1. st'.players = st.players
            BY <1>0, <2>4 DEF Successor, applyRotateTurn, applyTableClose, applyTimeout,
                              applyRecovery, MoveTo, RoundStates
        <3> QED
            BY <3>1 DEF RevealsOpenCommitments, CommitEntropy
    <2> QED
        BY <2>1, <2>2, <2>3, <2>4
<1> QED
    BY <1>1, <1>2, <1>3, <1>4, <1>5, <1>6 DEF AllActions

(* No entropy that verifyCrypto let through differs from the one committed *)
(* before anybody else's was known: for any number of players and keys.    *)
THEOREM RevealsAreCommitted == SessionSpec => []RevealsOpenCommitments
<1>1. SessionSpec => [](TypeInv /\ EntropyInv)
    BY SessionImplementsEngine, SpecInductive, PTL DEF RefinesEngine
<1>2. SessionInit => RevealsOpenCommitments
    BY DEF SessionInit, Init, initialState, RevealsOpenCommitments
<1>3. TypeInv /\ EntropyInv /\ RevealsOpenCommitments /\ [SessionNext]_sessionVars
        => RevealsOpenCommitments'
    <2> SUFFICES ASSUME TypeInv, EntropyInv, RevealsOpenCommitments, [SessionNext]_sessionVars
                 PROVE  RevealsOpenCommitments'
        OBVIOUS
    <2>1. CASE UNCHANGED sessionVars
        BY <2>1 DEF sessionVars, RevealsOpenCommitments, CommitEntropy
    <2>2. CASE SessionNext
        BY <2>2, OpeningsStep DEF SessionNext, Submit
    <2> QED
        BY <2>1, <2>2
<1> QED
    BY <1>1, <1>2, <1>3, PTL DEF SessionSpec
-----------------------------------------------------------------------------
(* Open cards. *)

(* A fixed seed stays fixed. *)
LEMMA SeedKept == ASSUME NEW t, combined # Null PROVE Materialise(st, t) = combined
BY DEF Materialise

(* Every card verifyCrypto let onto the table belongs to the deck that the *)
(* players' entropies fixed before the first card was opened.              *)
THEOREM CardsAreFromDeck == SessionSpec => []OpenCardsFromDeck
<1>1. SessionSpec => [](TypeInv /\ EntropyInv)
    BY SessionImplementsEngine, SpecInductive, PTL DEF RefinesEngine
<1>2. SessionInit => OpenCardsFromDeck
    BY DEF SessionInit, Init, initialState, OpenCardsFromDeck
<1>3. TypeInv /\ OpenCardsFromDeck /\ [SessionNext]_sessionVars => OpenCardsFromDeck'
    <2> SUFFICES ASSUME TypeInv, OpenCardsFromDeck, [SessionNext]_sessionVars
                 PROVE  OpenCardsFromDeck'
        OBVIOUS
    <2>1. CASE UNCHANGED sessionVars
        BY <2>1 DEF sessionVars, OpenCardsFromDeck
    <2>2. CASE SessionNext
        <3>1. PICK a \in AllActions, nonce \in Nonces, height \in Heights :
                      Submit(a, nonce, height)
            BY <2>2 DEF SessionNext
        <3>2. /\ st \in RoundStates
              /\ st.visible_cards \in Seq(Ordinals)
              /\ combined # Null => combined' = combined
              /\ Accepts(st, a, height) /\ st' = Successor(st, a) /\ verifyCrypto(a)
            BY <3>1, SeedKept DEF Submit, TypeInv, TypeOK, RoundStates
        <3>3. CASE a.action_type = "CardReveal"
            <4>1. /\ InDeck(a)
                  /\ CanCardReveal(st)
                  /\ st' = applyCardReveal(st, a)
                BY <3>2, <3>3 DEF verifyCrypto, Accepts, Successor
            <4>2. st'.visible_cards = Append(st.visible_cards, a.card)
                BY <3>2, <4>1 DEF applyCardReveal, CanCardReveal, MoveTo, RoundStates
            <4>3. a \in CardRevealActions
                BY <3>3 DEF AllActions, CardRevealActions, JoinActions, EntropyCommitActions,
                            EntropyRevealActions, DealConcealedActions, BetActions, Plain
            <4>4. a.card \in Ordinals
                BY <4>3 DEF CardRevealActions
            <4>5. Range(st'.visible_cards) \subseteq Range(st.visible_cards) \cup {a.card}
                BY <3>2, <4>2, <4>4 DEF Range
            <4>6. Range(st.visible_cards) \subseteq Range(Shuffle[combined])
                BY <3>2, <4>1, SMTT(30) DEF OpenCardsFromDeck, InDeck, Range
            <4> QED
                BY <3>2, <4>1, <4>5, <4>6 DEF OpenCardsFromDeck, InDeck
        <3>4. CASE a.action_type # "CardReveal"
            <4>1. st'.visible_cards \in {st.visible_cards, << >>}
                <5>1. a.action_type \in {"Join", "TableLock", "EntropyCommit", "EntropyReveal",
                         "DealConcealed", "BetAction", "Pass", "Fold", "Settle", "RotateTurn",
                         "TableClose", "Timeout", "Recovery"}
                    BY <3>4 DEF AllActions, CardRevealActions, JoinActions, EntropyCommitActions,
                            EntropyRevealActions, DealConcealedActions, BetActions, Plain
                <5>2. CASE a.action_type \in {"Join", "TableLock", "EntropyCommit", "EntropyReveal"}
                    BY <3>2, <5>2 DEF Successor, applyJoin, applyTableLock, applyEntropyCommit,
                                      applyEntropyReveal, MoveTo, RoundStates
                <5>3. CASE a.action_type \in {"DealConcealed", "BetAction", "Pass", "Fold", "Settle"}
                    BY <3>2, <5>3 DEF Successor, applyDealConcealed, applyBet, applyPass,
                                      applyFold, applySettle, MoveTo, RoundStates
                <5>4. CASE a.action_type \in {"RotateTurn", "TableClose", "Timeout", "Recovery"}
                    BY <3>2, <5>4 DEF Successor, applyRotateTurn, applyTableClose, applyTimeout,
                                      applyRecovery, MoveTo, RoundStates
                <5> QED
                    BY <5>1, <5>2, <5>3, <5>4
            <4> QED
                BY <3>2, <4>1 DEF OpenCardsFromDeck
        <3> QED
            BY <3>3, <3>4
    <2> QED
        BY <2>1, <2>2
<1> QED
    BY <1>1, <1>2, <1>3, PTL DEF SessionSpec
-----------------------------------------------------------------------------
(* The seed. *)

(* How many players sit below player i. *)
Below(players, i) == {j \in DOMAIN players : players[j].seat < players[i].seat}

(* A seat order exists, so the one SeatOrder chooses sorts: send a player  *)
(* to the number of players below it, plus one; no two players meet, and   *)
(* the inverse lists them by seat.                                         *)
LEMMA SeatOrderSorts ==
    ASSUME NEW players, NEW n \in Nat, DOMAIN players = 1 .. n,
           \A i \in 1 .. n : players[i].seat \in Nat,
           \A i, j \in 1 .. n : players[i].seat = players[j].seat => i = j
    PROVE  /\ SeatOrder(players) \in Bijection(1 .. n, 1 .. n)
           /\ \A i, j \in 1 .. n :
                 i < j => players[SeatOrder(players)[i]].seat <= players[SeatOrder(players)[j]].seat
<1> DEFINE D == 1 .. n
           card(i) == Cardinality(Below(players, i))
           rank == [i \in D |-> 1 + card(i)]
<1>1. IsFiniteSet(D) /\ Cardinality(D) = n
  BY FS_Interval
<1>2. \A i \in D : /\ Below(players, i) \in SUBSET D /\ Below(players, i) # D
                   /\ IsFiniteSet(Below(players, i)) /\ card(i) \in Nat /\ card(i) < n
  <2> SUFFICES ASSUME NEW i \in D
               PROVE  /\ Below(players, i) \in SUBSET D /\ Below(players, i) # D
                      /\ IsFiniteSet(Below(players, i)) /\ card(i) \in Nat /\ card(i) < n
    OBVIOUS
  <2>1. Below(players, i) \in SUBSET D /\ i \notin Below(players, i)
    BY DEF Below
  <2>2. /\ IsFiniteSet(Below(players, i)) /\ card(i) <= n
        /\ n = card(i) => D = Below(players, i)
    BY <1>1, <2>1, FS_Subset
  <2>3. card(i) \in Nat
    BY <2>2, FS_CardinalityType
  <2> QED BY <2>1, <2>2, <2>3
<1>3. \A i, j \in D : players[i].seat < players[j].seat => card(i) < card(j)
  <2> SUFFICES ASSUME NEW i \in D, NEW j \in D, players[i].seat < players[j].seat
               PROVE  card(i) < card(j)
    OBVIOUS
  <2>1. /\ Below(players, i) \in SUBSET Below(players, j)
        /\ i \in Below(players, j) /\ i \notin Below(players, i)
    BY DEF Below
  <2>2. card(i) <= card(j) /\ (card(j) = card(i) => Below(players, j) = Below(players, i))
    BY <1>2, <2>1, FS_Subset
  <2>3. card(i) \in Nat /\ card(j) \in Nat
    BY <1>2
  <2> HIDE DEF card
  <2> QED BY <2>1, <2>2, <2>3
<1> HIDE DEF card
<1>4. rank \in Injection(D, D)
  <2>1. rank \in [D -> D]
    BY <1>2
  <2>2. ASSUME NEW i \in D, NEW j \in D, rank[i] = rank[j] PROVE i = j
    <3>1. card(i) \in Nat /\ card(j) \in Nat /\ card(i) = card(j)
      BY <1>2, <2>2
    <3>2. ~(players[i].seat < players[j].seat) /\ ~(players[j].seat < players[i].seat)
      BY <1>3, <3>1
    <3>3. players[i].seat = players[j].seat
      BY <3>2
    <3> QED BY <3>3
  <2> QED BY <2>1, <2>2 DEF Injection, IsInjective
<1>5. rank \in Surjection(D, D)
  BY <1>1, <1>4, FS_Injection
<1>6. /\ rank \in [D -> D]
      /\ \A i, j \in D : rank[i] = rank[j] => i = j
      /\ \A k \in D : \E i \in D : rank[i] = k
  BY <1>4, <1>5 DEF Injection, IsInjective, Surjection
<1>7. \A i, j \in D : rank[i] < rank[j] => players[i].seat <= players[j].seat
  <2> SUFFICES ASSUME NEW i \in D, NEW j \in D, rank[i] < rank[j]
               PROVE  players[i].seat <= players[j].seat
    OBVIOUS
  <2>1. card(i) \in Nat /\ card(j) \in Nat /\ rank[i] = 1 + card(i) /\ rank[j] = 1 + card(j)
    BY <1>2
  <2> HIDE DEF rank
  <2>2. ~(card(j) < card(i))
    BY <2>1
  <2>3. ~(players[j].seat < players[i].seat)
    BY <1>3, <2>2
  <2>4. players[i].seat \in Nat /\ players[j].seat \in Nat
    OBVIOUS
  <2> QED BY <2>3, <2>4
<1> HIDE DEF rank
<1> DEFINE order == [k \in D |-> CHOOSE i \in D : rank[i] = k]
<1>8. \A k \in D : order[k] \in D /\ rank[order[k]] = k
  BY <1>6
<1> HIDE DEF order
<1>9. order \in [D -> D]
  BY <1>8 DEF order
<1>10. order \in Bijection(D, D)
  <2>1. order \in Injection(D, D)
    BY <1>8, <1>9 DEF Injection, IsInjective
  <2>2. order \in Surjection(D, D)
    BY <1>1, <2>1, FS_Injection
  <2> QED BY <2>1, <2>2 DEF Bijection
<1>11. \A i, j \in D : i < j => players[order[i]].seat <= players[order[j]].seat
  BY <1>7, <1>8, SMTT(30)
<1> HIDE DEF D
<1>12. \E o \in Bijection(D, D) :
          \A i, j \in D : i < j => players[o[i]].seat <= players[o[j]].seat
  BY <1>10, <1>11
<1>13. DOMAIN players = D
  BY DEF D
<1> QED BY <1>12, <1>13 DEF SeatOrder, D

(* In the seat order, a player's place is the number of seats below. *)
LEMMA PlaceIsRank ==
    ASSUME NEW players, NEW n \in Nat, DOMAIN players = 1 .. n,
           \A i \in 1 .. n : players[i].seat \in Nat,
           \A i, j \in 1 .. n : players[i].seat = players[j].seat => i = j,
           NEW k \in 1 .. n
    PROVE  /\ SeatOrder(players)[k] \in 1 .. n
           /\ Cardinality({x \in {players[j].seat : j \in 1 .. n} :
                              x < players[SeatOrder(players)[k]].seat}) = k - 1
<1> DEFINE o == SeatOrder(players)
           i == o[k]
<1>1. /\ o \in Bijection(1 .. n, 1 .. n)
      /\ \A a, b \in 1 .. n : a < b => players[o[a]].seat <= players[o[b]].seat
  BY SeatOrderSorts
<1> HIDE DEF o
<1>2. /\ o \in [1 .. n -> 1 .. n]
      /\ \A a, b \in 1 .. n : o[a] = o[b] => a = b
      /\ \A b \in 1 .. n : \E a \in 1 .. n : o[a] = b
  BY <1>1 DEF Bijection, Injection, IsInjective, Surjection
<1>3. o[k] = i /\ i \in 1 .. n
  BY <1>2
<1> HIDE DEF i
<1> DEFINE lower == {x \in {players[j].seat : j \in 1 .. n} : x < players[i].seat}
           place == [a \in 1 .. k - 1 |-> players[o[a]].seat]
<1>4. ASSUME NEW a \in 1 .. n PROVE players[o[a]].seat < players[i].seat <=> a < k
  <2>0. o[a] \in 1 .. n /\ (a # k => o[a] # i)
    BY <1>2, <1>3
  <2>1. /\ players[o[a]].seat \in Nat /\ players[i].seat \in Nat
        /\ a # k => players[o[a]].seat # players[i].seat
    BY <1>3, <2>0
  <2>2. /\ a < k => players[o[a]].seat <= players[i].seat
        /\ k < a => players[i].seat <= players[o[a]].seat
    BY <1>1, <1>3
  <2> QED BY <2>1, <2>2, <1>3
<1>5. place \in Bijection(1 .. k - 1, lower)
  <2>a. \A a \in 1 .. k - 1 : a \in 1 .. n /\ a < k
    OBVIOUS
  <2>b. \A a \in 1 .. n : o[a] \in 1 .. n
    BY <1>2
  <2>0. \A a \in 1 .. k - 1 : a \in 1 .. n /\ o[a] \in 1 .. n /\ players[o[a]].seat < players[i].seat
    BY <1>4, <2>a, <2>b
  <2>1. place \in [1 .. k - 1 -> lower]
    BY <2>0
  <2>2. \A a, b \in 1 .. k - 1 : place[a] = place[b] => a = b
    <3> SUFFICES ASSUME NEW a \in 1 .. k - 1, NEW b \in 1 .. k - 1, place[a] = place[b]
                 PROVE  a = b
      OBVIOUS
    <3>1. players[o[a]].seat = players[o[b]].seat
      OBVIOUS
    <3>2. o[a] = o[b]
      BY <2>0, <3>1
    <3> QED BY <1>2, <2>0, <3>2
  <2>3. \A x \in lower : \E a \in 1 .. k - 1 : place[a] = x
    <3> SUFFICES ASSUME NEW j \in 1 .. n, players[j].seat < players[i].seat
                 PROVE  \E a \in 1 .. k - 1 : place[a] = players[j].seat
      OBVIOUS
    <3>1. PICK a \in 1 .. n : o[a] = j
      BY <1>2
    <3>2. a < k
      BY <1>4, <3>1
    <3> QED BY <3>1, <3>2
  <2> HIDE DEF place, lower
  <2> QED BY <2>1, <2>2, <2>3 DEF Bijection, Injection, IsInjective, Surjection
<1>6. IsFiniteSet(1 .. k - 1) /\ Cardinality(1 .. k - 1) = k - 1
  <2> DEFINE h == k - 1
  <2>1. h \in Nat /\ 1 \in Int /\ h \in Int
    OBVIOUS
  <2> HIDE DEF h
  <2>2. IsFiniteSet(1 .. h) /\ Cardinality(1 .. h) = IF 1 > h THEN 0 ELSE h - 1 + 1
    BY <2>1, FS_Interval
  <2>3. IsFiniteSet(1 .. h) /\ Cardinality(1 .. h) = h
    BY <2>1, <2>2
  <2> QED BY <2>3 DEF h
<1> HIDE DEF lower, place
<1>7. Cardinality(lower) = k - 1
  <2>1. ExistsBijection(1 .. k - 1, lower)
    BY <1>5 DEF ExistsBijection
  <2> QED BY <1>6, <2>1, FS_Bijection
<1> QED BY <1>3, <1>7 DEF lower, i, o

(* An entropy comes after those of the seats below. *)
LEMMA CombinedBySeat ==
    ASSUME NEW players, NEW n \in Nat, DOMAIN players = 1 .. n,
           \A i \in 1 .. n : players[i].seat \in Nat,
           \A i, j \in 1 .. n : players[i].seat = players[j].seat => i = j,
           NEW i \in 1 .. n
    PROVE  CombineEntropy(players)[1 + Cardinality({x \in {players[j].seat : j \in 1 .. n} :
                                                        x < players[i].seat})]
             = players[i].entropy
<1> DEFINE o == SeatOrder(players)
<1>1. o \in Bijection(1 .. n, 1 .. n)
  BY SeatOrderSorts
<1> HIDE DEF o
<1>2. PICK k \in 1 .. n : o[k] = i
  BY <1>1 DEF Bijection, Surjection
<1>3. Cardinality({x \in {players[j].seat : j \in 1 .. n} : x < players[o[k]].seat}) = k - 1
  BY PlaceIsRank DEF o
<1>4. CombineEntropy(players)[k] = players[i].entropy
  BY <1>2 DEF CombineEntropy, o
<1> QED BY <1>2, <1>3, <1>4

(* There is no seed before every entropy is open. *)
SeedInv ==
    /\ SeedIsBySeat
    /\ combined # Null => st.state_class \notin OpeningClasses

(* What a step after the entropy phase keeps of a player. *)
SameSeed(p, q) == q.seat = p.seat /\ q.entropy = p.entropy

(* Once the windows are closed a step keeps who sits where with which      *)
(* entropy, and opens no window again.                                     *)
LEMMA SeatedForGood ==
    ASSUME TypeInv, Next, st.state_class \notin OpeningClasses
    PROVE  /\ DOMAIN st'.players = DOMAIN st.players
           /\ \A j \in DOMAIN st.players : SameSeed(st.players[j], st'.players[j])
           /\ st'.state_class \notin OpeningClasses
<1>0. /\ st \in RoundStates /\ st.players \in Seq(Players)
      /\ \A j \in DOMAIN st.players : st.players[j] \in Players
  BY DEF TypeInv, TypeOK, RoundStates
<1>1. CASE \/ \E a \in JoinActions : Join(a)
           \/ \E a \in EntropyCommitActions : EntropyCommit(a)
           \/ \E a \in EntropyRevealActions : EntropyReveal(a)
  BY <1>1 DEF Join, CanJoin, EntropyCommit, CanEntropyCommit, EntropyReveal, CanEntropyReveal,
              OpeningClasses
<1>2. CASE \E a \in CardRevealActions : CardReveal(a)
  BY <1>0, <1>2 DEF CardReveal, CanCardReveal, applyCardReveal, MoveTo, RoundStates,
                    OpeningClasses, SameSeed
<1>3. CASE \E a \in DealConcealedActions : DealConcealed(a)
  BY <1>0, <1>3 DEF DealConcealed, applyDealConcealed, RoundStates, SameSeed
<1>4. CASE \E a \in Plain("Fold") : Fold(a)
  <2>1. PICK a \in Plain("Fold") : Fold(a)
    BY <1>4
  <2> DEFINE i == SeatIndex(st, a.acting_player_seat)
             p == [st.players[i] EXCEPT !.status = "folded"]
  <2>2. st'.players = [st.players EXCEPT ![i] = p] /\ st'.state_class = "S11_ROTATE_TURN"
    BY <1>0, <2>1 DEF Fold, applyFold, MoveTo, RoundStates
  <2>3. i \in DOMAIN st.players
    BY <2>1, SeatIndexIn DEF Fold, CanFold
  <2>4. SameSeed(st.players[i], p)
    BY <1>0, <2>3 DEF SameSeed, Players
  <2> HIDE DEF i, p
  <2>5. \A j \in DOMAIN st.players : SameSeed(st.players[j], st'.players[j])
    BY <1>0, <2>2, <2>3, <2>4 DEF SameSeed
  <2> QED BY <1>0, <2>2, <2>5 DEF OpeningClasses
<1>5. CASE \E a \in Plain("Settle") : Settle(a)
  <2>1. /\ st'.players = [j \in DOMAIN st.players |->
                            [st.players[j] EXCEPT !.stake = SettleStake(st, j)]]
        /\ st'.state_class = "S11_ROTATE_TURN"
    BY <1>0, <1>5 DEF Settle, applySettle, MoveTo, RoundStates
  <2> QED BY <1>0, <2>1 DEF SameSeed, Players, OpeningClasses
<1>6. CASE \E a \in Plain("RotateTurn") : RotateTurn(a)
  BY <1>0, <1>6 DEF RotateTurn, applyRotateTurn, MoveTo, RoundStates, SameSeed, OpeningClasses
<1>7. CASE Quiet
  BY <1>7 DEF Quiet, SameSeed, OpeningClasses
<1> QED BY <1>1, <1>2, <1>3, <1>4, <1>5, <1>6, <1>7, StepKinds

(* Whoever joins, commits and reveals in whatever order, the deck is drawn *)
(* from the entropies in ascending seat order, and stays drawn from them   *)
(* for the rest of the table's life: for any number of players.            *)
THEOREM SeedFollowsSeats == SessionSpec => []SeedIsBySeat
<1>1. SessionSpec => [](TypeInv /\ EntropyInv)
  BY SessionImplementsEngine, SpecInductive, PTL DEF RefinesEngine
<1>2. SessionInit => SeedInv
  BY DEF SessionInit, SeedInv, SeedIsBySeat
<1>3. TypeInv /\ EntropyInv /\ TypeInv' /\ EntropyInv' /\ SeedInv /\ [SessionNext]_sessionVars
        => SeedInv'
  <2> SUFFICES ASSUME TypeInv, EntropyInv, TypeInv', EntropyInv', SeedInv,
                      [SessionNext]_sessionVars
               PROVE  SeedInv'
    OBVIOUS
  <2>1. CASE UNCHANGED sessionVars
    BY <2>1 DEF sessionVars, SeedInv, SeedIsBySeat, Seats
  <2>2. CASE SessionNext
    <3>1. PICK a \in AllActions, nonce \in Nonces, height \in Heights :
                  Submit(a, nonce, height)
      BY <2>2 DEF SessionNext
    <3>2. Next /\ combined' = Materialise(st, st')
      BY <3>1, AcceptedStep DEF Submit
    <3>3. CASE combined # Null
      <4>1. combined' = combined /\ st.state_class \notin OpeningClasses
        BY <3>2, <3>3, SeedKept DEF SeedInv
      <4>2. /\ DOMAIN st'.players = DOMAIN st.players
            /\ \A j \in DOMAIN st.players : SameSeed(st.players[j], st'.players[j])
            /\ st'.state_class \notin OpeningClasses
        BY <3>2, <4>1, SeatedForGood
      <4>3. Len(st'.players) = Len(st.players)
        BY <4>2 DEF TypeInv, TypeOK, RoundStates
      <4>4. Seats(st') = Seats(st)
        BY <4>2 DEF Seats, SameSeed
      <4> QED BY <3>3, <4>1, <4>2, <4>3, <4>4 DEF SeedInv, SeedIsBySeat, SameSeed
    <3>4. CASE combined = Null /\ combined' # Null
      <4>1. st'.state_class = "S5_DECK_COMMITTED" /\ combined' = CombineEntropy(st'.players)
        BY <3>2, <3>4 DEF Materialise
      <4> DEFINE n == Len(st'.players)
      <4>2. /\ n \in Nat /\ DOMAIN st'.players = 1 .. n
            /\ \A i \in 1 .. n : st'.players[i] \in Players
        BY DEF TypeInv, TypeOK, RoundStates
      <4>3. \A i \in 1 .. n : st'.players[i].seat \in Nat
        BY <4>2 DEF Players
      <4>4. \A i, j \in 1 .. n : st'.players[i].seat = st'.players[j].seat => i = j
        BY <4>2 DEF EntropyInv, SeatsDistinct
      <4> HIDE DEF n
      <4>5. Seats(st') = {st'.players[j].seat : j \in 1 .. n}
        BY <4>2 DEF Seats
      <4>6. combined' = [i \in 1 .. n |-> st'.players[SeatOrder(st'.players)[i]].entropy]
        BY <4>1, <4>2 DEF CombineEntropy
      <4>7. \A i \in 1 .. n :
               combined'[1 + Cardinality({x \in Seats(st') : x < st'.players[i].seat})]
                 = st'.players[i].entropy
        BY <4>1, <4>2, <4>3, <4>4, <4>5, CombinedBySeat, SMTT(30)
      <4>8. Len(combined') = n
        BY <4>2, <4>6
      <4> QED BY <4>1, <4>2, <4>7, <4>8 DEF n, SeedInv, SeedIsBySeat, OpeningClasses
    <3>5. CASE combined' = Null
      BY <3>5 DEF SeedInv, SeedIsBySeat
    <3> QED BY <3>3, <3>4, <3>5
  <2> QED BY <2>1, <2>2
<1>4. SeedInv => SeedIsBySeat
  BY DEF SeedInv
<1> QED BY <1>1, <1>2, <1>3, <1>4, PTL DEF SessionSpec
-----------------------------------------------------------------------------
(* Replay. *)

(* The session's own Replay ends in its state. *)
ReplayInv ==
    /\ transcript \in Seq(Entry)
    /\ Replayed = st

LEMMA ReplayInvNext ==
    ASSUME TypeInv, NonceInv, NonceInv', ReplayInv, SessionNext
    PROVE  ReplayInv'
<1>1. PICK a \in AllActions, nonce \in Nonces, height \in Heights : Submit(a, nonce, height)
  BY DEF SessionNext
<1> DEFINE e == [action |-> a, nonce |-> nonce, height |-> height]
<1>2. /\ Accepts(st, a, height) /\ st' = Successor(st, a)
      /\ transcript' = Append(transcript, e)
  BY <1>1 DEF Submit, Record
<1>3. e \in Entry
  BY FS_CardinalityType DEF Nonces, NonceInv, Entry
<1>4. e.action = a /\ e.height = height
  OBVIOUS
<1> HIDE DEF e
<1>5. ReplayFrom(initialState, transcript') = ReplayStep(ReplayFrom(initialState, transcript), e)
  BY <1>2, <1>3, ReplayAppend DEF ReplayInv
<1>6. st # Null
  BY NullAssumption DEF TypeInv, TypeOK
<1>7. ReplayFrom(initialState, transcript) = st
  BY DEF ReplayInv, Replayed
<1>8. ReplayStep(st, e) = st'
  BY <1>2, <1>4, <1>6 DEF ReplayStep
<1>9. Replayed' = st'
  BY <1>5, <1>7, <1>8 DEF Replayed
<1> QED BY <1>9 DEF ReplayInv, NonceInv

-----------------------------------------------------------------------------
(* Replay with verification. *)

(* f is the list of verified states that n actions lead through, each      *)
(* evaluated at its height.                                                *)
IsAudit(f, actions, heights, n) ==
    f = [i \in 0 .. n |-> IF i = 0 THEN Start ELSE AuditStep(f[i - 1], actions[i], heights[i])]

LEMMA AuditsAgree ==
    ASSUME NEW a, NEW h, NEW n \in Nat, NEW f, IsAudit(f, a, h, n), NEW g, IsAudit(g, a, h, n)
    PROVE  f[n] = g[n]
<1> DEFINE T == {k \in 0 .. n : f[k] # g[k]}
<1> SUFFICES ASSUME T # {} PROVE FALSE
  OBVIOUS
<1>1. PICK k \in T : \A y \in T : k <= y
  <2>1. T \subseteq Nat
    OBVIOUS
  <2> HIDE DEF T
  <2> QED BY <2>1, LeastNat
<1>2. k \in 0 .. n /\ f[k] # g[k]
  OBVIOUS
<1>3. f[k] = IF k = 0 THEN Start ELSE AuditStep(f[k - 1], a[k], h[k])
  BY <1>2 DEF IsAudit
<1>4. g[k] = IF k = 0 THEN Start ELSE AuditStep(g[k - 1], a[k], h[k])
  BY <1>2 DEF IsAudit
<1>5. k # 0
  BY <1>2, <1>3, <1>4
<1>6. k - 1 \in 0 .. n /\ k - 1 \notin T
  BY <1>1, <1>2, <1>5
<1>7. f[k - 1] = g[k - 1]
  BY <1>6
<1> QED BY <1>2, <1>3, <1>4, <1>5, <1>7

(* One more action is one more step. *)
LEMMA AuditGrows ==
    ASSUME NEW a, NEW h, NEW n \in Nat, NEW f, IsAudit(f, a, h, n)
    PROVE  \E g : /\ IsAudit(g, a, h, n + 1)
                  /\ g[n + 1] = AuditStep(f[n], a[n + 1], h[n + 1])
<1> DEFINE m == n + 1
           last == AuditStep(f[n], a[m], h[m])
           g == [k \in 0 .. m |-> IF k = m THEN last ELSE f[k]]
<1>1. /\ m \in Nat \ {0} /\ m \in 0 .. m /\ m - 1 = n
      /\ \A k \in 0 .. m : k # m => k \in 0 .. n
      /\ \A k \in 0 .. n : k # m /\ k \in 0 .. m /\ (k # 0 => k - 1 \in 0 .. n)
  OBVIOUS
<1> HIDE DEF m, last
<1>2. g[m] = last /\ \A k \in 0 .. n : g[k] = f[k]
  BY <1>1
<1>3. \A k \in 0 .. m : g[k] = IF k = 0 THEN Start ELSE AuditStep(g[k - 1], a[k], h[k])
  <2> SUFFICES ASSUME NEW k \in 0 .. m
               PROVE  g[k] = IF k = 0 THEN Start ELSE AuditStep(g[k - 1], a[k], h[k])
    OBVIOUS
  <2>1. CASE k = m
    <3>1. g[m - 1] = f[n] /\ m # 0
      BY <1>1, <1>2
    <3> HIDE DEF g
    <3> QED BY <1>2, <2>1, <3>1 DEF last
  <2>2. CASE k # m
    <3>1. k \in 0 .. n
      BY <1>1, <2>2
    <3>2. f[k] = IF k = 0 THEN Start ELSE AuditStep(f[k - 1], a[k], h[k])
      BY <3>1 DEF IsAudit
    <3> HIDE DEF g
    <3> QED BY <1>1, <1>2, <3>1, <3>2
  <2> QED BY <2>1, <2>2
<1>4. IsAudit(g, a, h, m)
  <2>1. g = [k \in 0 .. m |-> g[k]]
    OBVIOUS
  <2> HIDE DEF g
  <2> QED BY <1>3, <2>1 DEF IsAudit
<1> HIDE DEF g
<1> QED BY <1>2, <1>4 DEF m, last

(* A replay with verification ends where any such list ends. *)
LEMMA AuditEnds ==
    ASSUME NEW actions, NEW heights, NEW h, NEW n \in Nat, Len(actions) = n,
           \A i \in 1 .. n : HeightAt(heights, i) = h[i],
           NEW f, IsAudit(f, actions, h, n)
    PROVE  replayWithVerification(actions, heights) = f[n]
<1> DEFINE IsAfter(g) ==
             g = [i \in 0 .. Len(actions) |->
                    IF i = 0 THEN Start
                    ELSE AuditStep(g[i - 1], actions[i], HeightAt(heights, i))]
           after == CHOOSE g : IsAfter(g)
           j == [i \in 1 .. n |-> HeightAt(heights, i)]
<1>1. ASSUME NEW g PROVE IsAfter(g) <=> IsAudit(g, actions, j, n)
  <2>1. \A i \in 0 .. n : i # 0 => j[i] = HeightAt(heights, i)
    OBVIOUS
  <2> HIDE DEF j
  <2> QED BY <2>1 DEF IsAudit
<1>2. \A k \in 1 .. n : h[k] = j[k]
  OBVIOUS
<1>3. IsAudit(f, actions, j, n)
  <2> HIDE DEF j
  <2> QED BY <1>2 DEF IsAudit
<1>4. IsAudit(after, actions, j, n)
  <2>1. IsAfter(f)
    BY <1>1, <1>3
  <2> HIDE DEF IsAfter, j
  <2>2. IsAfter(after)
    BY <2>1
  <2> QED BY <1>1, <2>2
<1>5. replayWithVerification(actions, heights) = after[Len(actions)]
  BY DEF replayWithVerification
<1> HIDE DEF after, j
<1> HIDE DEF IsAfter
<1>6. after[n] = f[n]
  BY <1>3, <1>4, AuditsAgree
<1> QED BY <1>5, <1>6

-----------------------------------------------------------------------------
(* The gate and the session, action by action. *)

(* Sorting the players and combining the entropies by seat is the same. *)
LEMMA SortedIsCombined ==
    ASSUME NEW players, NEW n \in Nat, DOMAIN players = 1 .. n,
           \A i \in 1 .. n : players[i].seat \in Nat,
           \A i, j \in 1 .. n : players[i].seat = players[j].seat => i = j
    PROVE  [i \in DOMAIN players |-> SortedBySeat(players)[i].entropy] = CombineEntropy(players)
<1> DEFINE S == {players[j].seat : j \in 1 .. n}
           o == SeatOrder(players)
           Place(p) == Cardinality({x \in S : x < p.seat})
<1>1. S = {q.seat : q \in Range(players)}
  BY DEF Range
<1>2. ASSUME NEW k \in 1 .. n
      PROVE  SortedBySeat(players)[k].entropy = CombineEntropy(players)[k]
  <2> DEFINE p == CHOOSE p \in Range(players) : Place(p) = k - 1
  <2>1. o[k] \in 1 .. n /\ Place(players[o[k]]) = k - 1
    BY PlaceIsRank
  <2>2. players[o[k]] \in Range(players)
    BY <2>1 DEF Range
  <2>3. SortedBySeat(players)[k] = p
    BY <1>1 DEF SortedBySeat
  <2>4. p \in Range(players) /\ Place(p) = k - 1
    <3> HIDE DEF o, Place
    <3> QED BY <2>1, <2>2
  <2> HIDE DEF p
  <2>5. PICK j \in 1 .. n : p = players[j]
    BY <2>4 DEF Range
  <2>6. CombineEntropy(players)[1 + Place(players[j])] = players[j].entropy
    BY CombinedBySeat
  <2>7. 1 + (k - 1) = k
    OBVIOUS
  <2> HIDE DEF Place
  <2> QED BY <2>3, <2>4, <2>5, <2>6, <2>7
<1> QED BY <1>2 DEF CombineEntropy

(* What verifyCrypto let through, the gate lets through, unless it is in   *)
(* capitals.                                                               *)
LEMMA GatesAgree ==
    ASSUME NEW a, verifyCrypto(a)
    PROVE  cryptoGate([state |-> st, combined |-> combined], a) <=> ~InCapitals(a)
<1> DEFINE v == [state |-> st, combined |-> combined]
<1>1. v.state = st /\ v.combined = combined
  OBVIOUS
<1> HIDE DEF v
<1>2. CASE a.action_type = "EntropyCommit"
  BY <1>2 DEF verifyCrypto, cryptoGate, InCapitals, IsHex
<1>3. CASE a.action_type = "EntropyReveal"
  <2>1. PICK i \in DOMAIN st.players :
          /\ st.players[i].seat = a.acting_player_seat
          /\ st.players[i].commitment = CommitEntropy(a.entropy, st.players[i].pubkey)
          /\ {a.entropy, st.players[i].pubkey} \cap Malformed = {}
    BY <1>3 DEF verifyCrypto, OpensCommitment
  <2>2. a.entropy \notin Malformed /\ st.players[i].pubkey \notin Malformed
    BY <2>1
  <2>3. OpensAs(st, a) <=> a.entropy \notin Capitals
    BY <2>1, <2>2 DEF OpensAs, IsHex, commitEntropy, CommitEntropy
  <2> QED BY <1>1, <1>3, <2>3 DEF cryptoGate, InCapitals
<1>4. CASE a.action_type = "CardReveal"
  BY <1>1, <1>4 DEF verifyCrypto, cryptoGate, InCapitals, InDeck
<1>5. CASE a.action_type \notin {"EntropyCommit", "EntropyReveal", "CardReveal"}
  BY <1>5 DEF cryptoGate, InCapitals
<1> QED BY <1>2, <1>3, <1>4, <1>5 DEF v

(* The verified state that stands for the session's. *)
Verified == [state |-> st, combined |-> combined]

(* The auditor follows an accepted action, if it is not in capitals and    *)
(* the engine accepts it at the auditor's height as well.                  *)
LEMMA VerifiedStep ==
    ASSUME TypeInv, TypeInv', EntropyInv', Verified \in VerifiedStates,
           NEW a \in AllActions, NEW nonce, NEW height, Submit(a, nonce, height), NEW h \in Nat
    PROVE  AuditStep(Verified, a, h)
             = IF InCapitals(a) \/ ~Accepts(st, a, h) THEN Null ELSE Verified'
<1>1. Verified # Null /\ h # Null
  BY AuditAssumption, EngineAssumption
<1>2. Verified.state = st /\ Verified.combined = combined
  BY DEF Verified
<1>3. cryptoGate(Verified, a) <=> ~InCapitals(a)
  BY GatesAgree DEF Submit, Verified
<1>4. st' = Successor(st, a) /\ combined' = Materialise(st, st')
  BY DEF Submit
<1>5. materialiseDeckCommitment(Verified, st') = combined'
  <2> DEFINE n == Len(st'.players)
  <2>1. /\ n \in Nat /\ DOMAIN st'.players = 1 .. n
        /\ \A i \in 1 .. n : st'.players[i] \in Players
    BY DEF TypeInv, TypeOK, RoundStates
  <2>2. \A i \in 1 .. n : st'.players[i].seat \in Nat
    BY <2>1 DEF Players
  <2>3. \A i, j \in 1 .. n : st'.players[i].seat = st'.players[j].seat => i = j
    BY <2>1 DEF EntropyInv, SeatsDistinct
  <2> HIDE DEF n
  <2>4. [i \in DOMAIN st'.players |-> SortedBySeat(st'.players)[i].entropy]
          = CombineEntropy(st'.players)
    BY <2>1, <2>2, <2>3, SortedIsCombined
  <2> QED BY <1>2, <1>4, <2>4 DEF materialiseDeckCommitment, Materialise, combineEntropy
<1>6. verifyAndApply(Verified, a, h)
        = IF InCapitals(a) \/ ~Accepts(st, a, h) THEN Null ELSE Verified'
  <2>1. CASE InCapitals(a) \/ ~Accepts(st, a, h)
    BY <1>2, <1>3, <2>1 DEF verifyAndApply
  <2>2. CASE ~InCapitals(a) /\ Accepts(st, a, h)
    <3>1. verifyAndApply(Verified, a, h) =
            [state |-> st', combined |-> materialiseDeckCommitment(Verified, st')]
      BY <1>2, <1>3, <1>4, <2>2 DEF verifyAndApply
    <3> QED BY <1>5, <2>2, <3>1 DEF Verified
  <2> QED BY <2>1, <2>2
<1> QED BY <1>1, <1>6 DEF AuditStep

(* The seed is a list of entropies. *)
LEMMA SeedType ==
    ASSUME TypeInv', EntropyInv', Verified \in VerifiedStates,
           combined' = Materialise(st, st')
    PROVE  Verified' \in VerifiedStates
<1>1. CASE combined' = combined
  BY <1>1 DEF Verified, VerifiedStates, TypeInv, TypeOK
<1>2. CASE combined' = CombineEntropy(st'.players)
  <2> DEFINE n == Len(st'.players)
             E == Entropies \cup {Null}
  <2>1. /\ n \in Nat /\ DOMAIN st'.players = 1 .. n
        /\ \A i \in 1 .. n : st'.players[i] \in Players
    BY DEF TypeInv, TypeOK, RoundStates
  <2>2. \A i \in 1 .. n : st'.players[i].seat \in Nat /\ st'.players[i].entropy \in E
    BY <2>1 DEF Players
  <2>3. \A i, j \in 1 .. n : st'.players[i].seat = st'.players[j].seat => i = j
    BY <2>1 DEF EntropyInv, SeatsDistinct
  <2> HIDE DEF n
  <2>4. \A k \in 1 .. n : SeatOrder(st'.players)[k] \in 1 .. n
    BY <2>1, <2>2, <2>3, PlaceIsRank
  <2>5. combined' \in [1 .. n -> E]
    BY <1>2, <2>1, <2>2, <2>4 DEF CombineEntropy
  <2>6. combined' \in Seq(E)
    BY <2>1, <2>5
  <2> QED BY <2>6 DEF Verified, VerifiedStates, TypeInv, TypeOK
<1> QED BY <1>1, <1>2 DEF Materialise

-----------------------------------------------------------------------------
(* The transcript, whole. *)

(* An accepted action is appended: what was recorded stays. *)
LEMMA TranscriptGrows ==
    ASSUME NonceInv, NonceInv', NEW a \in AllActions, NEW nonce, NEW height \in Heights,
           Submit(a, nonce, height), NEW n, n = Len(transcript)
    PROVE  /\ n \in Nat /\ Len(transcript') = n + 1
           /\ DOMAIN Actions = 1 .. n /\ DOMAIN Actions' = 1 .. n + 1
           /\ \A k \in 1 .. n : Actions[k] = Actions'[k]
                                 /\ RecordedHeights[k] = RecordedHeights'[k]
           /\ Actions'[n + 1] = a /\ RecordedHeights'[n + 1] = height
<1> DEFINE e == [action |-> a, nonce |-> nonce, height |-> height]
<1>1. transcript' = Append(transcript, e) /\ e.action = a /\ e.height = height
  BY DEF Submit, Record
<1> HIDE DEF e
<1>2. transcript \in Seq(Entry) /\ transcript' \in Seq(Entry)
  BY DEF NonceInv
<1>3. /\ n \in Nat /\ Len(transcript') = n + 1
      /\ DOMAIN transcript = 1 .. n /\ DOMAIN transcript' = 1 .. n + 1
      /\ \A k \in 1 .. n : transcript'[k] = transcript[k]
      /\ transcript'[n + 1] = e
  BY <1>1, <1>2
<1> QED BY <1>1, <1>3 DEF Actions, RecordedHeights

Spelled == \E i \in DOMAIN Actions : InCapitals(Actions[i])

(* The auditor, given the recorded heights, keeps up with the session, or  *)
(* has stopped at an action in capitals.                                   *)
AuditInv ==
    /\ Verified \in VerifiedStates
    /\ \E f : /\ IsAudit(f, Actions, RecordedHeights, Len(transcript))
              /\ f[Len(transcript)] = IF Spelled THEN Null ELSE Verified

LEMMA NoAudit ==
    ASSUME SessionInit, NEW h
    PROVE  /\ Verified \in VerifiedStates
           /\ \E f : IsAudit(f, Actions, h, Len(transcript)) /\ f[Len(transcript)] = Verified
<1> DEFINE f == [i \in 0 .. 0 |-> Start]
<1>1. IsAudit(f, Actions, h, 0) /\ f[0] = Start
  BY DEF IsAudit
<1>2. Len(transcript) = 0 /\ Verified = Start
  BY DEF SessionInit, Init, Verified, Start
<1>3. initialState \in RoundStates
  BY EngineAssumption, RulesAssumption
     DEF initialState, RoundStates, StateClasses, ActionTypes, Satoshis
<1>4. Verified \in VerifiedStates
  BY <1>2, <1>3 DEF VerifiedStates, Start
<1> HIDE DEF f
<1> QED BY <1>1, <1>2, <1>4

LEMMA AuditInvNext ==
    ASSUME TypeInv, TypeInv', EntropyInv', NonceInv, NonceInv', AuditInv, SessionNext
    PROVE  AuditInv'
<1>1. PICK a \in AllActions, nonce \in Nonces, height \in Heights : Submit(a, nonce, height)
  BY DEF SessionNext
<1> DEFINE n == Len(transcript)
<1>2. /\ n \in Nat /\ Len(transcript') = n + 1
      /\ DOMAIN Actions = 1 .. n /\ DOMAIN Actions' = 1 .. n + 1
      /\ \A k \in 1 .. n : Actions[k] = Actions'[k] /\ RecordedHeights[k] = RecordedHeights'[k]
      /\ Actions'[n + 1] = a /\ RecordedHeights'[n + 1] = height
  BY <1>1, TranscriptGrows
<1>3. PICK f : IsAudit(f, Actions, RecordedHeights, n) /\ f[n] = IF Spelled THEN Null ELSE Verified
  BY DEF AuditInv
<1> HIDE DEF n
<1>4. PICK g : /\ IsAudit(g, Actions', RecordedHeights', n + 1)
               /\ g[n + 1] = AuditStep(f[n], a, height)
  <2> DEFINE b == Actions'
             j == RecordedHeights'
  <2>1. /\ n \in Nat /\ IsAudit(f, Actions, RecordedHeights, n)
        /\ \A k \in 1 .. n : Actions[k] = b[k] /\ RecordedHeights[k] = j[k]
        /\ b[n + 1] = a /\ j[n + 1] = height
    BY <1>2, <1>3
  <2> HIDE DEF b, j
  <2>2. IsAudit(f, b, j, n)
    <3>1. \A k \in 0 .. n : k # 0 => k \in 1 .. n
      BY <2>1
    <3>2. \A k \in 0 .. n : k # 0 => AuditStep(f[k - 1], Actions[k], RecordedHeights[k])
                                       = AuditStep(f[k - 1], b[k], j[k])
      BY <2>1, <3>1
    <3>3. f = [k \in 0 .. n |->
                 IF k = 0 THEN Start ELSE AuditStep(f[k - 1], Actions[k], RecordedHeights[k])]
      BY <2>1 DEF IsAudit
    <3>4. [k \in 0 .. n |-> IF k = 0 THEN Start ELSE AuditStep(f[k - 1], Actions[k], RecordedHeights[k])]
            = [k \in 0 .. n |-> IF k = 0 THEN Start ELSE AuditStep(f[k - 1], b[k], j[k])]
      BY <3>2
    <3> QED BY <3>3, <3>4, Zenon DEF IsAudit
  <2>3. \E g : IsAudit(g, b, j, n + 1) /\ g[n + 1] = AuditStep(f[n], b[n + 1], j[n + 1])
    BY <2>1, <2>2, AuditGrows
  <2> QED BY <2>1, <2>3 DEF b, j
<1>5. Spelled' <=> Spelled \/ InCapitals(a)
  <2>1. Spelled' <=> \E i \in 1 .. n + 1 : InCapitals(Actions'[i])
    BY <1>2 DEF Spelled, InCapitals
  <2>2. \A i \in 1 .. n + 1 : i \in 1 .. n \/ i = n + 1
    BY <1>2
  <2>3. n + 1 \in 1 .. n + 1 /\ \A i \in 1 .. n : i \in 1 .. n + 1
    BY <1>2
  <2> QED BY <1>2, <2>1, <2>2, <2>3 DEF Spelled
<1>6. g[n + 1] = IF Spelled' THEN Null ELSE Verified'
  <2>1. CASE Spelled
    BY <1>3, <1>4, <1>5, <2>1 DEF AuditStep
  <2>2. CASE ~Spelled
    <3>1. height \in Nat /\ Accepts(st, a, height)
      BY <1>1, InputAssumption DEF Submit
    <3>2. AuditStep(Verified, a, height) =
            IF InCapitals(a) \/ ~Accepts(st, a, height) THEN Null ELSE Verified'
      BY <1>1, <3>1, VerifiedStep DEF AuditInv
    <3> QED BY <1>3, <1>4, <1>5, <2>2, <3>1, <3>2
  <2> QED BY <2>1, <2>2
<1>7. Verified' \in VerifiedStates
  <2>1. combined' = Materialise(st, st')
    BY <1>1 DEF Submit
  <2> QED BY <2>1, SeedType DEF AuditInv
<1>8. IsAudit(g, Actions', RecordedHeights', Len(transcript')) /\
      g[Len(transcript')] = IF Spelled' THEN Null ELSE Verified'
  BY <1>2, <1>4, <1>6
<1> QED BY <1>7, <1>8 DEF AuditInv, IsAudit

(* The recorded heights, cut off where they no longer change, give every   *)
(* action the height it was accepted at.                                   *)
LEMMA HeightsRestored ==
    ASSUME transcript \in Seq(Entry), NEW k \in DOMAIN transcript, LastHeightFrom(k),
           NEW i \in 1 .. Len(transcript)
    PROVE  HeightAt(SubSeq(RecordedHeights, 1, k), i) = RecordedHeights[i]
<1> DEFINE n == Len(transcript)
           hs == SubSeq(RecordedHeights, 1, k)
<1>1. n \in Nat /\ DOMAIN transcript = 1 .. n /\ k \in 1 .. n
  OBVIOUS
<1>2. /\ \A j \in 1 .. n : transcript[j].height \in Heights
      /\ RecordedHeights = [j \in 1 .. n |-> transcript[j].height]
  <2>1. \A j \in 1 .. n : transcript[j] \in Entry
    BY <1>1
  <2> QED BY <1>1, <2>1 DEF Entry, RecordedHeights
<1>3. RecordedHeights \in Seq(Heights) /\ Len(RecordedHeights) = n
  BY <1>1, <1>2
<1>4. /\ hs \in Seq(Heights) /\ Len(hs) = k /\ DOMAIN hs = 1 .. k
      /\ \A j \in 1 .. k : hs[j] = RecordedHeights[j]
  BY <1>1, <1>3
<1> HIDE DEF hs, n
<1>5. CASE i \in 1 .. k
  BY <1>4, <1>5 DEF HeightAt, hs
<1>6. CASE i \notin 1 .. k
  <2>1. hs # << >> /\ Last(hs) = hs[k] /\ k \in 1 .. k
    BY <1>1, <1>4 DEF Last
  <2>2. i \in k .. Len(transcript) /\ i \in 1 .. n
    BY <1>1, <1>6 DEF n
  <2>3. transcript[i].height = transcript[k].height
    BY <2>2 DEF LastHeightFrom
  <2> QED BY <1>1, <1>2, <1>4, <1>6, <2>1, <2>2, <2>3 DEF HeightAt, hs
<1> QED BY <1>5, <1>6

(* The transcript of any session, of any length, rebuilds its state by the *)
(* relay's Replay and, if no hex is in capitals, by the auditor's          *)
(* replayWithVerification: gates, engine and deck of the two               *)
(* implementations do not part.                                            *)
THEOREM TranscriptsVerify == SessionSpec => []TranscriptVerifies
<1> DEFINE Inv == NonceInv /\ ReplayInv /\ AuditInv
<1>1. SessionSpec => [](TypeInv /\ EntropyInv)
  BY SessionImplementsEngine, SpecInductive, PTL DEF RefinesEngine
<1>2. SessionInit => Inv
  <2> SUFFICES ASSUME SessionInit PROVE Inv
    OBVIOUS
  <2>1. NonceInv
    BY FS_EmptySet DEF SessionInit, NonceInv, NonceAcceptedOnce
  <2>2. ReplayInv
    BY ReplayNothing DEF SessionInit, Init, ReplayInv, Replayed
  <2>3. ~Spelled
    BY DEF SessionInit, Spelled, Actions
  <2> QED BY <2>1, <2>2, <2>3, NoAudit DEF AuditInv
<1>3. TypeInv /\ EntropyInv /\ TypeInv' /\ EntropyInv' /\ Inv /\ [SessionNext]_sessionVars => Inv'
  <2> SUFFICES ASSUME TypeInv, EntropyInv, TypeInv', EntropyInv', Inv, [SessionNext]_sessionVars
               PROVE  Inv'
    OBVIOUS
  <2>1. CASE UNCHANGED sessionVars
    <3>1. NonceInv' /\ ReplayInv'
      BY <2>1 DEF sessionVars, NonceInv, NonceAcceptedOnce, ReplayInv, Replayed
    <3>2. /\ Verified' = Verified /\ Actions' = Actions /\ RecordedHeights' = RecordedHeights
          /\ transcript' = transcript
      BY <2>1 DEF sessionVars, Verified, Actions, RecordedHeights
    <3>3. Spelled' <=> Spelled
      BY <3>2 DEF Spelled, InCapitals
    <3>4. AuditInv'
      BY <3>2, <3>3 DEF AuditInv, IsAudit
    <3> QED BY <3>1, <3>4
  <2>2. CASE SessionNext
    <3>1. NonceInv'
      BY <2>2, NonceInvNext
    <3> QED BY <2>2, <3>1, ReplayInvNext, AuditInvNext
  <2> QED BY <2>1, <2>2
<1>4. Inv => TranscriptVerifies
  <2> SUFFICES ASSUME Inv PROVE TranscriptVerifies
    OBVIOUS
  <2>1. PICK f : /\ IsAudit(f, Actions, RecordedHeights, Len(transcript))
                 /\ f[Len(transcript)] = IF Spelled THEN Null ELSE Verified
    BY DEF AuditInv
  <2>2. transcript \in Seq(Entry)
    BY DEF NonceInv
  <2>3. Len(Actions) = Len(transcript) /\ Len(transcript) \in Nat
    BY <2>2 DEF Actions
  <2>4. ASSUME NEW k \in DOMAIN transcript, LastHeightFrom(k)
        PROVE  replayWithVerification(Actions, SubSeq(RecordedHeights, 1, k))
                 = IF Spelled THEN Null ELSE Verified
    <3>1. \A i \in 1 .. Len(transcript) :
             HeightAt(SubSeq(RecordedHeights, 1, k), i) = RecordedHeights[i]
      BY <2>2, <2>4, HeightsRestored
    <3> QED BY <2>1, <2>3, <3>1, AuditEnds
  <2> QED BY <2>4 DEF TranscriptVerifies, ReplayInv, Spelled, Verified
<1> QED BY <1>1, <1>2, <1>3, <1>4, PTL DEF SessionSpec

-----------------------------------------------------------------------------
(* The command-line verifier. *)

LEMMA ActionTyped == ASSUME NEW a \in AllActions PROVE a.action_type \in ActionTypes
<1>1. \A type : a \in Plain(type) => a.action_type = type
  BY DEF Plain
<1> QED
  BY <1>1 DEF AllActions, JoinActions, EntropyCommitActions, EntropyRevealActions,
              CardRevealActions, DealConcealedActions, BetActions, ActionTypes

(* No action moves a deadline. *)
LEMMA DeadlinesKept ==
    ASSUME TypeInv, NEW a \in AllActions, NEW height, Accepts(st, a, height), st' = Successor(st, a)
    PROVE  /\ st'.decision_deadline = st.decision_deadline
           /\ st'.recovery_deadline = st.recovery_deadline
<1>1. st \in RoundStates
  BY DEF TypeInv, TypeOK
<1>2. CASE a.action_type \in {"Join", "TableLock", "EntropyCommit", "EntropyReveal"}
  BY <1>1, <1>2 DEF Successor, applyJoin, applyTableLock, applyEntropyCommit,
                    applyEntropyReveal, MoveTo, RoundStates
<1>3. CASE a.action_type = "CardReveal"
  <2>1. CanCardReveal(st)
    BY <1>3 DEF Accepts
  <2> QED BY <1>1, <1>3, <2>1 DEF Successor, CanCardReveal, applyCardReveal, MoveTo, RoundStates
<1>4. CASE a.action_type \in {"DealConcealed", "BetAction", "Pass", "Fold", "Settle"}
  BY <1>1, <1>4 DEF Successor, applyDealConcealed, applyBet, applyPass, applyFold, applySettle,
                    MoveTo, RoundStates
<1>5. CASE a.action_type \in {"RotateTurn", "TableClose", "Timeout", "Recovery"}
  BY <1>1, <1>5 DEF Successor, applyRotateTurn, applyTableClose, applyTimeout, applyRecovery,
                    MoveTo, RoundStates
<1> QED BY <1>2, <1>3, <1>4, <1>5, ActionTyped DEF ActionTypes

(* An action accepted at some height is accepted at the verifier's, unless *)
(* it is a recovery; a timeout needs a deadline, which nobody stamps.      *)
LEMMA AtToolHeight ==
    ASSUME NEW a \in AllActions, NEW height, Accepts(st, a, height),
           st.decision_deadline = Null, st.recovery_deadline = RecoveryDeadline,
           ToolHeight < RecoveryDeadline
    PROVE  Accepts(st, a, ToolHeight) <=> a.action_type # "Recovery"
<1>1. CASE a.action_type = "Recovery"
  <2>1. ~CanRecovery(st, ToolHeight)
    BY AuditAssumption, EngineAssumption DEF CanRecovery
  <2> QED BY <1>1, <2>1 DEF Accepts
<1>2. a.action_type # "Timeout"
  BY DEF Accepts, CanTimeout
<1>3. CASE a.action_type \notin {"Recovery", "Timeout"}
  BY <1>3, ActionTyped DEF Accepts, ActionTypes
<1> QED BY <1>1, <1>2, <1>3

Refused ==
    \E i \in DOMAIN Actions : Actions[i].action_type = "Recovery" \/ InCapitals(Actions[i])

(* The verifier, at its one height, keeps up with the session too, or has  *)
(* stopped at a recovery or at an action in capitals.                      *)
ToolInv ==
    /\ Verified \in VerifiedStates
    /\ st.decision_deadline = Null
    /\ st.recovery_deadline = RecoveryDeadline
    /\ \E f : /\ IsAudit(f, Actions, ToolHeights(Actions), Len(transcript))
              /\ f[Len(transcript)] = IF Refused THEN Null ELSE Verified

LEMMA ToolInvNext ==
    ASSUME TypeInv, TypeInv', EntropyInv', NonceInv, NonceInv', ToolInv, SessionNext,
           ToolHeight < RecoveryDeadline
    PROVE  ToolInv'
<1>1. PICK a \in AllActions, nonce \in Nonces, height \in Heights : Submit(a, nonce, height)
  BY DEF SessionNext
<1> DEFINE n == Len(transcript)
<1>2. /\ n \in Nat /\ Len(transcript') = n + 1
      /\ DOMAIN Actions = 1 .. n /\ DOMAIN Actions' = 1 .. n + 1
      /\ \A k \in 1 .. n : Actions[k] = Actions'[k]
      /\ Actions'[n + 1] = a
  BY <1>1, TranscriptGrows
<1>3. PICK f : /\ IsAudit(f, Actions, ToolHeights(Actions), n)
               /\ f[n] = IF Refused THEN Null ELSE Verified
  BY DEF ToolInv
<1> HIDE DEF n
<1>4. PICK g : /\ IsAudit(g, Actions', ToolHeights(Actions'), n + 1)
               /\ g[n + 1] = AuditStep(f[n], a, ToolHeight)
  <2> DEFINE b == Actions'
             h == ToolHeights(Actions)
             j == ToolHeights(b)
  <2>1. /\ n \in Nat /\ IsAudit(f, Actions, h, n)
        /\ \A k \in 1 .. n : Actions[k] = b[k] /\ h[k] = j[k]
        /\ b[n + 1] = a /\ j[n + 1] = ToolHeight
    BY <1>2, <1>3 DEF ToolHeights
  <2> HIDE DEF b, h, j
  <2>2. IsAudit(f, b, j, n)
    <3>1. \A k \in 0 .. n : k # 0 => k \in 1 .. n
      BY <2>1
    <3>2. \A k \in 0 .. n : k # 0 => AuditStep(f[k - 1], Actions[k], h[k])
                                       = AuditStep(f[k - 1], b[k], j[k])
      BY <2>1, <3>1
    <3>3. f = [k \in 0 .. n |->
                 IF k = 0 THEN Start ELSE AuditStep(f[k - 1], Actions[k], h[k])]
      BY <2>1 DEF IsAudit
    <3>4. [k \in 0 .. n |-> IF k = 0 THEN Start ELSE AuditStep(f[k - 1], Actions[k], h[k])]
            = [k \in 0 .. n |-> IF k = 0 THEN Start ELSE AuditStep(f[k - 1], b[k], j[k])]
      BY <3>2
    <3> QED BY <3>3, <3>4, Zenon DEF IsAudit
  <2>3. \E g : IsAudit(g, b, j, n + 1) /\ g[n + 1] = AuditStep(f[n], b[n + 1], j[n + 1])
    BY <2>1, <2>2, AuditGrows
  <2> QED BY <2>1, <2>3 DEF b, j
<1>5. Refused' <=> Refused \/ a.action_type = "Recovery" \/ InCapitals(a)
  <2>1. Refused' <=> \E i \in 1 .. n + 1 :
                        Actions'[i].action_type = "Recovery" \/ InCapitals(Actions'[i])
    BY <1>2 DEF Refused, InCapitals
  <2>2. \A i \in 1 .. n + 1 : i \in 1 .. n \/ i = n + 1
    BY <1>2
  <2>3. n + 1 \in 1 .. n + 1 /\ \A i \in 1 .. n : i \in 1 .. n + 1
    BY <1>2
  <2> QED BY <1>2, <2>1, <2>2, <2>3 DEF Refused
<1>6. Accepts(st, a, height) /\ st' = Successor(st, a) /\ combined' = Materialise(st, st')
  BY <1>1 DEF Submit
<1>7. Accepts(st, a, ToolHeight) <=> a.action_type # "Recovery"
  BY <1>6, AtToolHeight DEF ToolInv
<1>8. g[n + 1] = IF Refused' THEN Null ELSE Verified'
  <2>1. CASE Refused
    BY <1>3, <1>4, <1>5, <2>1 DEF AuditStep
  <2>2. CASE ~Refused
    <3>1. AuditStep(Verified, a, ToolHeight) =
            IF InCapitals(a) \/ ~Accepts(st, a, ToolHeight) THEN Null ELSE Verified'
      BY <1>1, AuditAssumption, VerifiedStep DEF ToolInv
    <3> QED BY <1>3, <1>4, <1>5, <1>7, <2>2, <3>1
  <2> QED BY <2>1, <2>2
<1>9. Verified' \in VerifiedStates
  BY <1>6, SeedType DEF ToolInv
<1>10. st'.decision_deadline = Null /\ st'.recovery_deadline = RecoveryDeadline
  BY <1>6, DeadlinesKept DEF ToolInv
<1>11. ToolHeights(Actions)' = ToolHeights(Actions')
  BY DEF ToolHeights
<1>12. /\ IsAudit(g, Actions', ToolHeights(Actions'), Len(transcript'))
       /\ g[Len(transcript')] = IF Refused' THEN Null ELSE Verified'
  BY <1>2, <1>4, <1>8
<1> QED BY <1>9, <1>10, <1>11, <1>12 DEF ToolInv, IsAudit

(* The verifier's fixed height of 100 lies before the deadline it assumes, *)
(* 244 by default.  Then it refuses no session, however long, but the      *)
(* recovered ones and those in capitals, and ends in the relay's state.    *)
THEOREM AuditRefusals ==
    ASSUME ToolHeight < RecoveryDeadline
    PROVE  SessionSpec => []VerifierFollowsRelay
<1> DEFINE Inv == NonceInv /\ ToolInv
<1>1. SessionSpec => [](TypeInv /\ EntropyInv)
  BY SessionImplementsEngine, SpecInductive, PTL DEF RefinesEngine
<1>2. SessionInit => Inv
  <2> SUFFICES ASSUME SessionInit PROVE Inv
    OBVIOUS
  <2>1. NonceInv
    BY FS_EmptySet DEF SessionInit, NonceInv, NonceAcceptedOnce
  <2>2. st.decision_deadline = Null /\ st.recovery_deadline = RecoveryDeadline
    BY DEF SessionInit, Init, initialState
  <2>3. ~Refused
    BY DEF SessionInit, Refused, Actions
  <2> QED BY <2>1, <2>2, <2>3, NoAudit DEF ToolInv
<1>3. TypeInv /\ EntropyInv /\ TypeInv' /\ EntropyInv' /\ Inv /\ [SessionNext]_sessionVars => Inv'
  <2> SUFFICES ASSUME TypeInv, EntropyInv, TypeInv', EntropyInv', Inv, [SessionNext]_sessionVars
               PROVE  Inv'
    OBVIOUS
  <2>1. CASE UNCHANGED sessionVars
    <3>1. NonceInv'
      BY <2>1 DEF sessionVars, NonceInv, NonceAcceptedOnce
    <3>2. /\ Verified' = Verified /\ Actions' = Actions /\ st' = st /\ transcript' = transcript
          /\ ToolHeights(Actions)' = ToolHeights(Actions)
      BY <2>1 DEF sessionVars, Verified, Actions, ToolHeights
    <3>3. Refused' <=> Refused
      BY <3>2 DEF Refused, InCapitals
    <3>4. ToolInv'
      BY <3>2, <3>3 DEF ToolInv, IsAudit
    <3> QED BY <3>1, <3>4
  <2>2. CASE SessionNext
    <3>1. NonceInv'
      BY <2>2, NonceInvNext
    <3> QED BY <2>2, <3>1, ToolInvNext
  <2> QED BY <2>1, <2>2
<1>4. Inv => VerifierFollowsRelay
  <2> SUFFICES ASSUME Inv PROVE VerifierFollowsRelay
    OBVIOUS
  <2> DEFINE n == Len(transcript)
             h == ToolHeights(Actions)
             v == replayWithVerification(Actions, h)
  <2>1. PICK f : IsAudit(f, Actions, h, n) /\ f[n] = IF Refused THEN Null ELSE Verified
    BY DEF ToolInv
  <2>2. transcript \in Seq(Entry)
    BY DEF NonceInv
  <2>3. /\ n \in Nat /\ Len(Actions) = n /\ DOMAIN Actions = 1 .. n
        /\ \A i \in 1 .. n : HeightAt(h, i) = h[i]
    BY <2>2 DEF Actions, ToolHeights, HeightAt
  <2> HIDE DEF n, h
  <2>4. v = IF Refused THEN Null ELSE Verified
    BY <2>1, <2>3, AuditEnds
  <2>5. v = Null <=> Refused
    BY <2>4, AuditAssumption DEF ToolInv
  <2> HIDE DEF v
  <2>6. AuditVerdict(Actions) = CASE v = Null -> "rejected"
                                  [] v # Null /\ StateHashThrows(v.state) -> "fatal"
                                  [] OTHER -> "summary"
    BY DEF AuditVerdict, v, h
  <2>7. AuditVerdict(Actions) = "rejected" <=> v = Null
    BY <2>6
  <2>8. CASE Refused
    BY <2>5, <2>7, <2>8 DEF VerifierFollowsRelay, Refused
  <2>9. CASE ~Refused
    <3>1. v = Verified /\ AuditVerdict(Actions) # "rejected"
      BY <2>4, <2>5, <2>7, <2>9
    <3> QED BY <3>1 DEF VerifierFollowsRelay, Verified, v, h
  <2> QED BY <2>8, <2>9
<1> QED BY <1>1, <1>2, <1>3, <1>4, PTL DEF SessionSpec
=============================================================================
