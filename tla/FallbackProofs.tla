--------------------------- MODULE FallbackProofs ---------------------------
(* The gates of the pre-signed transactions, for any opening, any decision *)
(* delta and any number of players, transactions and blocks.               *)
EXTENDS Fallback, ScriptProofs

-----------------------------------------------------------------------------
(* Every player of s is among those who signed. *)
SignedByAll(s, signed) == signed = Range([i \in DOMAIN s.players |-> s.players[i].pubkey])

(* What holds of a transaction that competes for the output of s: the      *)
(* successor is one the engine accepts, whatever the height; a fallback    *)
(* transaction was sent with every signature and carries the gate of s.    *)
Standing(s, delta, signed, tx) ==
    /\ tx.kind \in {"cooperative", "timeout", "recovery"}
    /\ tx.kind = "cooperative" =>
          /\ WellFormed(tx.action)
          /\ tx.action.action_type \notin {"Timeout", "Recovery"}
          /\ Accepts(s, tx.action, 0)
    /\ tx.kind = "timeout" =>
          /\ SignedByAll(s, signed)
          /\ tx.sequence = delta
          /\ tx.action = FallbackAction("Timeout")
    /\ tx.kind = "recovery" =>
          /\ SignedByAll(s, signed)
          /\ tx.sequence = SEQUENCE_FINAL - 1
          /\ tx.lockTime = s.recovery_deadline
          /\ ~(tx.lockTime >= UnixTimestamps)

IsCandidate(c) == DOMAIN c = {"tx", "observed_by_quorum", "confirmed_in_block"}

ChainInv ==
    /\ Sound(st)
    /\ decision \in Nat /\ base \in Nat /\ tip \in Nat /\ base <= tip

(* Whatever was seen is of this output, and none of it confirmed yet, or   *)
(* all of it is of an earlier output.                                      *)
SeenInv ==
    /\ IsList(seen)
    /\ \A i \in 1 .. Len(seen) :
          /\ IsCandidate(seen[i])
          /\ seen[i].tx.prev \in Nat /\ seen[i].tx.prev <= base
          /\ seen[i].tx.prev = base =>
                /\ seen[i].confirmed_in_block = FALSE
                /\ Standing(st, decision, presigned, seen[i].tx)
    /\ \/ \A i \in 1 .. Len(seen) : seen[i].tx.prev = base
       \/ \A i \in 1 .. Len(seen) : seen[i].tx.prev < base

MempoolInv ==
    \A tx \in mempool : tx.prev = base /\ \E i \in 1 .. Len(seen) : seen[i].tx = tx

GateInv == ~ended => ChainInv /\ SeenInv /\ MempoolInv

(* A state has one timeout and one recovery transaction. *)
Prescribed(s, delta, output, tx) ==
    /\ tx.kind = "timeout" =>
          tx = [version |-> TX_VERSION, prev |-> output, kind |-> "timeout",
                action |-> FallbackAction("Timeout"), sequence |-> delta, lockTime |-> 0]
    /\ tx.kind = "recovery" =>
          tx = [version |-> TX_VERSION, prev |-> output, kind |-> "recovery",
                action |-> FallbackAction("Recovery"), sequence |-> SEQUENCE_FINAL - 1,
                lockTime |-> s.recovery_deadline]

PrescribedInv ==
    ~ended => \A i \in 1 .. Len(seen) :
                 seen[i].tx.prev = base => Prescribed(st, decision, base, seen[i].tx)

IsSnapshot(c) ==
    /\ IsCandidate(c)
    /\ c.observed_by_quorum \in BOOLEAN
    /\ c.confirmed_in_block \in BOOLEAN

(* No two of the transactions have the same id. *)
Distinct(list) ==
    /\ IsList(list)
    /\ \A i \in 1 .. Len(list) : IsSnapshot(list[i])
    /\ \A i, j \in 1 .. Len(list) : TxId(list[i].tx) = TxId(list[j].tx) => i = j

(* What competes for an output, also once it is spent: one transaction of  *)
(* a kind, at most one of them confirmed.                                  *)
ConflictInv ==
    /\ Distinct(seen)
    /\ \A i, j \in 1 .. Len(seen) :
          seen[i].confirmed_in_block /\ seen[j].confirmed_in_block => i = j

(* Nothing happens to an output that a fallback transaction has spent. *)
FallbackInv ==
    /\ GateInv /\ PrescribedInv /\ ConflictInv
    /\ ChainInv
    /\ ended => mempool = {}

-----------------------------------------------------------------------------
(* The opening. *)

(* A replay from a RoundState is refused or ends in a RoundState. *)
LEMMA ReplaySound ==
    ASSUME NEW s, Sound(s), NEW entries \in Seq([action : AllActions, height : Nat])
    PROVE  ReplayFrom(s, entries) = Null \/ Sound(ReplayFrom(s, entries))
<1> DEFINE n == Len(entries)
<1>0. n \in Nat /\ \A k \in 1 .. n : entries[k] \in [action : AllActions, height : Nat]
  <2> DEFINE X == [action : AllActions, height : Nat]
  <2>1. entries \in Seq(X)
    OBVIOUS
  <2> HIDE DEF X
  <2>2. Len(entries) \in Nat /\ \A k \in 1 .. Len(entries) : entries[k] \in X
    BY <2>1
  <2> QED BY <2>2 DEF X
<1>1. n \in Nat /\ \A k \in 1 .. n : entries[k].action \in AllActions
  BY <1>0
<1> HIDE DEF n
<1>2. PICK f : IsRun(f, s, entries, n)
  BY <1>1, RunExists
<1> DEFINE T == {k \in 0 .. n : ~(f[k] = Null \/ Sound(f[k]))}
<1>3. T = {}
  <2> SUFFICES ASSUME T # {} PROVE FALSE
    OBVIOUS
  <2>1. T \subseteq Nat
    BY <1>1
  <2>2. PICK k \in T : \A y \in T : k <= y
    <3> HIDE DEF T
    <3> QED BY <2>1, LeastNat
  <2>3. k \in 0 .. n /\ f[k] # Null /\ ~Sound(f[k])
    OBVIOUS
  <2>4. f[k] = IF k = 0 THEN s ELSE ReplayStep(f[k - 1], entries[k])
    BY <1>2, <2>3 DEF IsRun
  <2>5. k # 0 /\ k \in 1 .. n /\ k - 1 \in 0 .. n
    BY <1>1, <2>3, <2>4
  <2>6. f[k - 1] = Null \/ Sound(f[k - 1])
    BY <2>2, <2>5
  <2> DEFINE r == f[k - 1]
             e == entries[k]
  <2>7. f[k] = ReplayStep(r, e) /\ WellFormed(e.action)
    BY <1>1, <2>4, <2>5, AllActionsWellFormed
  <2> HIDE DEF r, e
  <2>8. r # Null /\ Accepts(r, e.action, e.height) /\ f[k] = Successor(r, e.action)
    BY <2>3, <2>7 DEF ReplayStep
  <2>9. Sound(Successor(r, e.action))
    BY <2>6, <2>7, <2>8, AcceptedType DEF r
  <2> QED BY <2>3, <2>8, <2>9
<1>4. n \in 0 .. n
  BY <1>1
<1>5. f[n] = Null \/ Sound(f[n])
  BY <1>3, <1>4
<1> HIDE DEF T
<1>6. ReplayFrom(s, entries) = f[n]
  BY <1>1, <1>2, ReplayEnds DEF n
<1> QED BY <1>5, <1>6

LEMMA GateInvInit == FallbackInit => GateInv
<1> SUFFICES ASSUME FallbackInit PROVE ChainInv /\ SeenInv /\ MempoolInv
  BY DEF GateInv
<1> USE FallbackAssumption
<1>1. PICK h \in RecoveryChoices, opening \in Openings :
         st = ReplayFrom([initialState EXCEPT !.recovery_deadline = h], opening)
  BY DEF FallbackInit
<1> DEFINE s == [initialState EXCEPT !.recovery_deadline = h]
<1>2. Sound(s)
  <2>1. h \in Nat
    OBVIOUS
  <2>2. initialState \in RoundStates /\ initialState.state_class = "S1_SEAT_OPEN"
    BY EngineAssumption, RulesAssumption
       DEF initialState, RoundStates, StateClasses, ActionTypes, Satoshis
  <2> QED BY <2>1, <2>2 DEF Sound, RoundStates
<1> HIDE DEF s
<1>3. opening \in Seq([action : AllActions, height : Nat])
  OBVIOUS
<1>4. st = Null \/ Sound(st)
  BY <1>1, <1>2, <1>3, ReplaySound DEF s
<1>5. ChainInv
  BY <1>4 DEF ChainInv, FallbackInit
<1>6. SeenInv /\ MempoolInv
  <2>1. seen = << >> /\ mempool = {}
    BY DEF FallbackInit
  <2> QED BY <2>1 DEF SeenInv, MempoolInv, IsList
<1> QED BY <1>5, <1>6

-----------------------------------------------------------------------------
(* What keeps a transaction's standing. *)

(* Only the timeout and the recovery look at the height. *)
LEMMA HeightFree ==
    ASSUME NEW s, NEW a, WellFormed(a), a.action_type \notin {"Timeout", "Recovery"},
           NEW g, NEW h, Accepts(s, a, g)
    PROVE  Accepts(s, a, h)
BY DEF Accepts, WellFormed, ActionTypes

(* A stamped deadline concerns the timeout alone. *)
LEMMA StampFree ==
    ASSUME NEW a, WellFormed(a), a.action_type \notin {"Timeout", "Recovery"},
           Sound(st), NEW d, StampDeadline(d), Accepts(st, a, 0)
    PROVE  Accepts(st', a, 0)
<1>1. /\ st' = [st EXCEPT !.decision_deadline = d]
      /\ st.state_class = "S8_BET_DECISION"
  BY DEF StampDeadline
<1>2. /\ st'.state_class = st.state_class /\ st'.game_id = st.game_id
      /\ st'.pot_value = st.pot_value /\ st'.players = st.players
      /\ st'.concealed_deck = st.concealed_deck
  BY <1>1 DEF Sound, RoundStates
<1>3. a.action_type \in {"BetAction", "Pass", "Fold"} /\ Binds(st, a)
  BY <1>1 DEF Accepts, Binds, getLegalActions
<1>4. Binds(st', a)
  BY <1>2, <1>3 DEF Binds
<1>5. CASE a.action_type = "BetAction"
  BY <1>2, <1>4, <1>5 DEF Accepts, CanBet
<1>6. CASE a.action_type = "Pass"
  BY <1>2, <1>4, <1>6 DEF Accepts, CanPass
<1>7. CASE a.action_type = "Fold"
  <2>1. CanFold(st, a)
    BY <1>7 DEF Accepts
  <2>2. Seats(st') = Seats(st) /\ Held(st', a.acting_player_seat) = Held(st, a.acting_player_seat)
    BY <1>2 DEF Seats, Held, SeatIndex
  <2>3. CanFold(st', a)
    BY <1>2, <2>1, <2>2 DEF CanFold
  <2> QED BY <1>4, <1>7, <2>3 DEF Accepts
<1> QED BY <1>3, <1>5, <1>6, <1>7

(* What sees nothing new leaves the candidates as they are. *)
LEMMA SeenKept ==
    ASSUME SeenInv, UNCHANGED <<seen, base>>,
           \A i \in 1 .. Len(seen) : Standing(st, decision, presigned, seen[i].tx)
                                        => Standing(st', decision', presigned', seen[i].tx)
    PROVE  SeenInv'
BY DEF SeenInv

(* A stamp changes nothing a competing transaction depends on. *)
LEMMA StampKeeps ==
    ASSUME Sound(st), NEW d \in Nat, StampDeadline(d), NEW tx,
           Standing(st, decision, presigned, tx)
    PROVE  Standing(st', decision, presigned, tx) /\ Sound(st')
<1>1. st' = [st EXCEPT !.decision_deadline = d]
  BY DEF StampDeadline
<1>2. /\ st' \in RoundStates
      /\ st'.players = st.players /\ st'.recovery_deadline = st.recovery_deadline
      /\ st'.state_class = st.state_class
  BY <1>1 DEF Sound, RoundStates
<1>3. Sound(st')
  BY <1>2 DEF Sound
<1>4. tx.kind = "cooperative" => Accepts(st', tx.action, 0)
  BY StampFree DEF Standing
<1>5. SignedByAll(st, presigned) => SignedByAll(st', presigned)
  BY <1>2 DEF SignedByAll
<1> QED BY <1>2, <1>3, <1>4, <1>5 DEF Standing

(* A new transaction comes after those that compete for the same output;   *)
(* any others are gone.                                                    *)
LEMMA AddAppends ==
    ASSUME SeenInv, NEW tx, Add(tx)
    PROVE  \E n \in Nat :
              /\ IsList(seen') /\ Len(seen') = n + 1
              /\ \A i \in 1 .. n :
                    i \in 1 .. Len(seen) /\ seen'[i] = seen[i] /\ seen[i].tx.prev = base
              /\ seen'[n + 1] = Candidate(tx)
              /\ n = Len(seen) \/ \A i \in 1 .. Len(seen) : seen[i].tx.prev < base
<1> DEFINE q == Competing
           c == Candidate(tx)
           n == Len(q)
           r == seen'
<1>1. r = Append(q, c)
  BY DEF Add
<1>2. /\ IsList(q) /\ n \in Nat
      /\ \A i \in 1 .. n : i \in 1 .. Len(seen) /\ q[i] = seen[i] /\ q[i].tx.prev = base
      /\ q = seen \/ \A i \in 1 .. Len(seen) : seen[i].tx.prev < base
  <2>0. IsList(seen) /\ DOMAIN seen = 1 .. Len(seen) /\ Len(seen) \in Nat
    BY DEF SeenInv, IsList
  <2>1. CASE \E i \in DOMAIN seen : seen[i].tx.prev # base
    <3>1. q = << >>
      BY <2>1 DEF Competing
    <3>2. \A i \in 1 .. Len(seen) : seen[i].tx.prev < base
      BY <2>0, <2>1 DEF SeenInv
    <3> HIDE DEF q
    <3> QED BY <3>1, <3>2 DEF IsList
  <2>2. CASE ~\E i \in DOMAIN seen : seen[i].tx.prev # base
    <3>1. q = seen
      BY <2>2 DEF Competing
    <3> HIDE DEF q
    <3> QED BY <2>0, <2>2, <3>1
  <2> QED BY <2>1, <2>2
<1> HIDE DEF q, c, r, n
<1>3. /\ IsList(r) /\ Len(r) = n + 1
      /\ \A i \in 1 .. n : r[i] = seen[i]
      /\ r[n + 1] = c
  BY <1>1, <1>2, ListAppend DEF n
<1>4. \A i \in 1 .. n : i \in 1 .. Len(seen) /\ r[i] = seen[i] /\ seen[i].tx.prev = base
  BY <1>2, <1>3
<1>5. n = Len(seen) \/ \A i \in 1 .. Len(seen) : seen[i].tx.prev < base
  BY <1>2 DEF n
<1>6. n \in Nat
  BY <1>2
<1> QED BY <1>3, <1>4, <1>5, <1>6 DEF r, c

(* A transaction with standing is added. *)
LEMMA AddKeeps ==
    ASSUME ChainInv, SeenInv, MempoolInv, NEW tx, Add(tx), tx.prev = base,
           Standing(st, decision, presigned, tx)
    PROVE  ChainInv' /\ SeenInv' /\ MempoolInv'
<1> DEFINE c == Candidate(tx)
           r == seen'
<1>1. UNCHANGED <<st, decision, tip, base, presigned>> /\ mempool' = mempool \cup {tx}
  BY DEF Add
<1>2. PICK n \in Nat :
         /\ IsList(r) /\ Len(r) = n + 1
         /\ \A i \in 1 .. n : i \in 1 .. Len(seen) /\ r[i] = seen[i] /\ seen[i].tx.prev = base
         /\ r[n + 1] = c
         /\ n = Len(seen) \/ \A i \in 1 .. Len(seen) : seen[i].tx.prev < base
  BY AddAppends
<1>3. IsCandidate(c) /\ c.tx = tx /\ c.confirmed_in_block = FALSE
  BY DEF Candidate, IsCandidate
<1> HIDE DEF c, r
<1>5. ChainInv'
  BY <1>1 DEF ChainInv
<1>6. ASSUME NEW i \in 1 .. n + 1
      PROVE  /\ IsCandidate(r[i])
             /\ r[i].tx.prev \in Nat /\ r[i].tx.prev = base
             /\ r[i].confirmed_in_block = FALSE
             /\ Standing(st, decision, presigned, r[i].tx)
  <2>1. CASE i \in 1 .. n
    <3>1. i \in 1 .. Len(seen) /\ r[i] = seen[i] /\ seen[i].tx.prev = base
      BY <1>2, <2>1
    <3> QED BY <3>1 DEF SeenInv
  <2>2. CASE i = n + 1
    BY <1>2, <1>3, <2>2 DEF ChainInv
  <2>3. i \in 1 .. n \/ i = n + 1
    BY <1>2
  <2> QED BY <2>1, <2>2, <2>3
<1>7. SeenInv'
  <2>1. \A i \in 1 .. Len(r) :
           /\ IsCandidate(r[i])
           /\ r[i].tx.prev \in Nat /\ r[i].tx.prev = base /\ r[i].tx.prev <= base
           /\ r[i].confirmed_in_block = FALSE
           /\ Standing(st, decision, presigned, r[i].tx)
    <3>1. base <= base
      BY DEF ChainInv
    <3>2. 1 .. Len(r) = 1 .. n + 1
      BY <1>2
    <3> QED BY <1>6, <3>1, <3>2, Zenon
  <2>2. /\ \A i \in 1 .. Len(seen') :
              /\ IsCandidate(seen'[i])
              /\ seen'[i].tx.prev \in Nat /\ seen'[i].tx.prev = base /\ seen'[i].tx.prev <= base
              /\ seen'[i].confirmed_in_block = FALSE
              /\ Standing(st, decision, presigned, seen'[i].tx)
        /\ IsList(seen')
    BY <1>2, <2>1 DEF r
  <2> QED BY <1>1, <2>2 DEF SeenInv
<1>8. MempoolInv'
  <2> SUFFICES ASSUME NEW u \in mempool \cup {tx}
               PROVE  u.prev = base /\ \E i \in 1 .. Len(r) : r[i].tx = u
    BY <1>1 DEF MempoolInv, r
  <2>1. CASE u = tx
    <3>1. n + 1 \in 1 .. Len(r)
      BY <1>2
    <3> QED BY <1>2, <1>3, <2>1, <3>1
  <2>2. CASE u \in mempool
    <3>1. PICK i \in 1 .. Len(seen) : seen[i].tx = u /\ u.prev = base
      BY <2>2 DEF MempoolInv
    <3>2. n = Len(seen)
      BY <1>2, <3>1 DEF ChainInv
    <3>3. i \in 1 .. n /\ i \in 1 .. Len(r) /\ r[i].tx = u
      BY <1>2, <3>1, <3>2
    <3> QED BY <3>1, <3>3
  <2> QED BY <2>1, <2>2
<1> QED BY <1>5, <1>7, <1>8

(* The low bits of a number that fits are the number. *)
LEMMA LowBits ==
    ASSUME NEW top \in Nat, NEW x \in 0 .. top
    PROVE  x % (top + 1) = x
OBVIOUS

(* A fallback transaction is built with the gate of the state it spends;   *)
(* a delta or a deadline that does not fit is refused.                     *)
LEMMA PresignedStanding ==
    ASSUME decision \in Nat, AllPresigned, NEW tx \in PresignedGraph(st)
    PROVE  /\ tx.prev = base /\ tx.kind # "cooperative"
           /\ Standing(st, decision, presigned, tx)
           /\ Prescribed(st, decision, base, tx)
<1>0. SignedByAll(st, presigned)
  BY DEF AllPresigned, SignedByAll, Keys
<1>1. PICK b \in enumerateFallbackGraph(st) :
         /\ b.kind # "cooperative"
         /\ tx = IF b.kind = "timeout" THEN buildTimeoutTx(b) ELSE buildRecoveryTx(b)
         /\ tx # Null
  BY DEF PresignedGraph
<1>2. b.kind \in {"timeout", "recovery"}
  BY <1>1 DEF enumerateFallbackGraph
<1>3. CASE b.kind = "timeout"
  <2>1. tx = buildTimeoutTx(b) /\ BranchLock(b) = relativeBlocks(decision)
    BY <1>1, <1>3 DEF BranchLock
  <2>2. BranchLock(b) # Null /\ BranchLock(b).blocks_since_input_confirmation = decision
    BY <1>1, <2>1 DEF buildTimeoutTx, relativeBlocks
  <2>3. nSequenceForBlocks(decision) # Null
    BY <1>1, <2>1, <2>2 DEF buildTimeoutTx
  <2>4. nSequenceForBlocks(decision) = decision
    <3> DEFINE top == 65535
               width == 65536
    <3>1. nSequenceForBlocks(decision) = IF decision \in 0 .. top THEN decision % width ELSE Null
      BY DEF nSequenceForBlocks
    <3>2. top \in Nat /\ width = top + 1
      OBVIOUS
    <3> HIDE DEF top, width
    <3>3. decision \in 0 .. top
      BY <2>3, <3>1
    <3>4. decision % width = decision
      BY <3>2, <3>3, LowBits
    <3> QED BY <3>1, <3>3, <3>4
  <2>5. b.action_type = "Timeout"
    BY <1>3 DEF enumerateFallbackGraph, timeoutDefaultFor
  <2>6. tx = Tx("timeout", FallbackAction("Timeout"), decision, 0)
    BY <2>1, <2>2, <2>3, <2>4, <2>5 DEF buildTimeoutTx
  <2>7. tx.prev = base /\ tx.kind = "timeout" /\ tx.sequence = decision
    BY <2>6 DEF Tx
  <2> QED BY <1>0, <2>6, <2>7 DEF Standing, Prescribed, Tx
<1>4. CASE b.kind = "recovery"
  <2>1. tx = buildRecoveryTx(b) /\ BranchLock(b).not_before_height = st.recovery_deadline
    BY <1>1, <1>4 DEF BranchLock, absoluteHeight
  <2>2. /\ ~(st.recovery_deadline >= UnixTimestamps)
        /\ tx = Tx("recovery", FallbackAction("Recovery"), SEQUENCE_FINAL - 1, st.recovery_deadline)
    <3>1. b.action_type = "Recovery"
      BY <1>4 DEF enumerateFallbackGraph
    <3> QED BY <1>1, <2>1, <3>1 DEF buildRecoveryTx
  <2>3. /\ tx.prev = base /\ tx.kind = "recovery"
        /\ tx.sequence = SEQUENCE_FINAL - 1 /\ tx.lockTime = st.recovery_deadline
    BY <2>2 DEF Tx
  <2> QED BY <1>0, <2>2, <2>3 DEF Standing, Prescribed, Tx
<1> QED BY <1>2, <1>3, <1>4

(* A block with a transaction that competes marks it and no other. *)
LEMMA OneConfirmed ==
    ASSUME SeenInv, MempoolInv, NEW tx \in mempool, NEW u,
           MarkConfirmed(u) = MarkConfirmed(tx)
    PROVE  u = tx
<1>1. PICK i \in 1 .. Len(seen) : seen[i].tx = tx /\ tx.prev = base
  BY DEF MempoolInv
<1>2. IsCandidate(seen[i]) /\ seen[i].confirmed_in_block = FALSE /\ i \in DOMAIN seen
  BY <1>1 DEF SeenInv, IsList
<1>3. MarkConfirmed(tx)[i].confirmed_in_block = TRUE
  BY <1>1, <1>2 DEF MarkConfirmed, IsCandidate
<1>4. seen[i].tx # u => MarkConfirmed(u)[i] = seen[i]
  BY <1>2 DEF MarkConfirmed
<1> QED BY <1>1, <1>2, <1>3, <1>4

(* The successor's block makes a new output: nothing that was seen spends it. *)
LEMMA SuccessorKeeps ==
    ASSUME ChainInv, SeenInv, MempoolInv, NEW tx \in mempool, ConfirmSuccessor(tx)
    PROVE  ChainInv' /\ SeenInv' /\ MempoolInv'
<1>1. /\ Follows(tx) /\ st' = Successor(st, tx.action)
      /\ tip' = tip + 1 /\ base' = tip + 1 /\ decision' = decision
      /\ mempool' = {} /\ seen' = MarkConfirmed(tx)
  BY DEF ConfirmSuccessor
<1>2. PICK k \in 1 .. Len(seen) : seen[k].tx = tx /\ tx.prev = base
  BY DEF MempoolInv
<1>3. Standing(st, decision, presigned, tx)
  BY <1>2 DEF SeenInv
<1>4. \E h \in {0, tip} : WellFormed(tx.action) /\ Accepts(st, tx.action, h)
  <2>1. WellFormed(FallbackAction("Timeout"))
    BY DEF WellFormed, FallbackAction, ActionTypes
  <2>2. CASE tx.kind = "cooperative"
    BY <1>3, <2>2 DEF Standing
  <2>3. CASE tx.kind = "timeout" /\ Accepts(st, tx.action, tip)
    BY <1>3, <2>1, <2>3 DEF Standing
  <2> QED BY <1>1, <2>2, <2>3 DEF Follows
<1>5. Sound(Successor(st, tx.action))
  BY <1>4, AcceptedType DEF ChainInv
<1>6. ChainInv'
  BY <1>1, <1>5 DEF ChainInv
<1> DEFINE n == Len(seen)
           r == MarkConfirmed(tx)
<1>7. n \in Nat /\ DOMAIN seen = 1 .. n
  BY DEF SeenInv, IsList
<1>8. r = [i \in 1 .. n |-> r[i]]
  BY <1>7 DEF MarkConfirmed
<1>9. ASSUME NEW i \in 1 .. n
      PROVE  /\ IsCandidate(r[i])
             /\ r[i].tx.prev \in Nat /\ r[i].tx.prev < tip + 1
  <2>1. /\ IsCandidate(seen[i])
        /\ seen[i].tx.prev \in Nat /\ seen[i].tx.prev < tip + 1
    BY DEF SeenInv, ChainInv
  <2>2. r[i] = seen[i] \/ r[i] = [seen[i] EXCEPT !.confirmed_in_block = TRUE]
    BY <1>7 DEF MarkConfirmed
  <2> HIDE DEF r
  <2>3. IsCandidate(r[i]) /\ r[i].tx = seen[i].tx
    BY <2>1, <2>2 DEF IsCandidate
  <2> QED BY <2>1, <2>3
<1> HIDE DEF n, r
<1>10. IsList(r) /\ Len(r) = n
  BY <1>7, <1>8, ListIsSeq
<1>11. /\ IsList(seen')
       /\ \A i \in 1 .. Len(seen') :
             /\ IsCandidate(seen'[i])
             /\ seen'[i].tx.prev \in Nat /\ seen'[i].tx.prev < base'
  BY <1>1, <1>9, <1>10 DEF r
<1>12. SeenInv'
  <2>1. base' \in Nat
    BY <1>6 DEF ChainInv
  <2>2. \A i \in 1 .. Len(seen') : seen'[i].tx.prev <= base' /\ seen'[i].tx.prev # base'
    BY <1>11, <2>1
  <2> QED BY <1>11, <2>2 DEF SeenInv
<1>13. MempoolInv'
  BY <1>1 DEF MempoolInv
<1> QED BY <1>6, <1>12, <1>13

-----------------------------------------------------------------------------
(* GateInv is inductive. *)

LEMMA GateInvNext == GateInv /\ [FallbackNext]_fvars => GateInv'
<1> SUFFICES ASSUME GateInv, [FallbackNext]_fvars, ~ended'
             PROVE  ChainInv' /\ SeenInv' /\ MempoolInv'
  BY DEF GateInv
<1>0. ~ended
  BY DEF FallbackNext, fvars, Presign, Stamp, Propose, BroadcastFallback, Add, ObserveQuorum,
         Evict, rebroadcastIfEvicted, Tick, ConfirmSuccessor, ConfirmFallback
<1>i. ChainInv /\ SeenInv /\ MempoolInv
  BY <1>0 DEF GateInv
<1>l. IsList(seen) /\ DOMAIN seen = 1 .. Len(seen) /\ Len(seen) \in Nat
  BY <1>i DEF SeenInv, IsList
<1>1. ASSUME NEW key \in Pubkeys, Presign(key) PROVE ChainInv' /\ SeenInv' /\ MempoolInv'
  <2>1. UNCHANGED <<st, decision, tip, base, mempool, seen>>
    BY <1>1 DEF Presign
  <2>2. ~SignedByAll(st, presigned)
    BY <1>1 DEF Presign, SignedByAll, Keys
  <2>3. \A i \in 1 .. Len(seen) : Standing(st, decision, presigned, seen[i].tx)
                                     => Standing(st', decision', presigned', seen[i].tx)
    BY <2>1, <2>2 DEF Standing
  <2>4. SeenInv'
    BY <1>i, <2>1, <2>3, SeenKept
  <2> QED BY <1>i, <2>1, <2>4 DEF ChainInv, MempoolInv
<1>2. ASSUME Stamp PROVE ChainInv' /\ SeenInv' /\ MempoolInv'
  <2>1. /\ UNCHANGED <<decision, tip, base, presigned, mempool, seen>>
        /\ StampDeadline(base + decision) /\ base + decision \in Nat
    BY <1>2, <1>i DEF Stamp, ChainInv
  <2>2. Sound(st')
    <3>1. st' = [st EXCEPT !.decision_deadline = base + decision]
      BY <2>1 DEF StampDeadline
    <3> QED BY <1>i, <2>1, <3>1 DEF ChainInv, Sound, RoundStates
  <2>3. \A i \in 1 .. Len(seen) : Standing(st, decision, presigned, seen[i].tx)
                                     => Standing(st', decision', presigned', seen[i].tx)
    <3> SUFFICES ASSUME NEW i \in 1 .. Len(seen), Standing(st, decision, presigned, seen[i].tx)
                 PROVE  Standing(st', decision, presigned, seen[i].tx)
      BY <2>1
    <3>1. Sound(st)
      BY <1>i DEF ChainInv
    <3> QED BY <2>1, <3>1, StampKeeps
  <2>4. SeenInv'
    BY <1>i, <2>1, <2>3, SeenKept
  <2> QED BY <1>i, <2>1, <2>2, <2>4 DEF ChainInv, MempoolInv
<1>3. ASSUME NEW a \in AllActions, Propose(a) PROVE ChainInv' /\ SeenInv' /\ MempoolInv'
  <2> DEFINE tx == buildCooperativeTx(a)
  <2>1. Add(tx) /\ Accepts(st, a, tip) /\ a.action_type \notin {"Timeout", "Recovery"}
    BY <1>3 DEF Propose
  <2>2. WellFormed(a)
    BY AllActionsWellFormed
  <2>3. Accepts(st, a, 0)
    BY <2>1, <2>2, HeightFree
  <2>4. tx.kind = "cooperative" /\ tx.action = a /\ tx.prev = base
    BY DEF buildCooperativeTx, Tx
  <2> HIDE DEF tx
  <2>5. Standing(st, decision, presigned, tx)
    BY <2>1, <2>2, <2>3, <2>4 DEF Standing
  <2> QED BY <1>i, <2>1, <2>4, <2>5, AddKeeps
<1>4. ASSUME NEW tx \in PresignedGraph(st), BroadcastFallback(tx)
      PROVE  ChainInv' /\ SeenInv' /\ MempoolInv'
  <2>1. Add(tx) /\ AllPresigned
    BY <1>4 DEF BroadcastFallback
  <2>2. tx.prev = base /\ Standing(st, decision, presigned, tx)
    BY <1>i, <2>1, PresignedStanding DEF ChainInv
  <2> QED BY <1>i, <2>1, <2>2, AddKeeps
<1>5. ASSUME NEW k \in DOMAIN seen, ObserveQuorum(k) PROVE ChainInv' /\ SeenInv' /\ MempoolInv'
  <2> DEFINE n == Len(seen)
             r == seen'
  <2>1. /\ UNCHANGED <<st, decision, tip, base, presigned, mempool>>
        /\ r = [seen EXCEPT ![k] = [seen[k] EXCEPT !.observed_by_quorum = TRUE]]
    BY <1>5 DEF ObserveQuorum
  <2>2. n \in Nat /\ r = [i \in 1 .. n |-> r[i]]
    BY <1>l, <2>1
  <2>3. ASSUME NEW i \in 1 .. n
        PROVE  /\ r[i].tx = seen[i].tx /\ IsCandidate(r[i])
               /\ r[i].confirmed_in_block = seen[i].confirmed_in_block
    <3>1. IsCandidate(seen[i])
      BY <1>i DEF SeenInv
    <3>2. r[i] = seen[i] \/ r[i] = [seen[i] EXCEPT !.observed_by_quorum = TRUE]
      BY <1>l, <2>1
    <3> HIDE DEF r
    <3> QED BY <3>1, <3>2 DEF IsCandidate
  <2> HIDE DEF n, r
  <2>4. IsList(r) /\ Len(r) = n
    BY <2>2, ListIsSeq
  <2>5. SeenInv'
    <3>1. \A i \in 1 .. n :
             /\ IsCandidate(r[i])
             /\ r[i].tx.prev \in Nat /\ r[i].tx.prev <= base
             /\ r[i].tx.prev = base =>
                   /\ r[i].confirmed_in_block = FALSE
                   /\ Standing(st, decision, presigned, r[i].tx)
      BY <1>i, <2>3 DEF SeenInv, n
    <3>2. \/ \A i \in 1 .. n : r[i].tx.prev = base
          \/ \A i \in 1 .. n : r[i].tx.prev < base
      BY <1>i, <2>3 DEF SeenInv, n
    <3> QED BY <2>1, <2>4, <3>1, <3>2 DEF SeenInv, r
  <2>6. MempoolInv'
    <3>1. \A tx \in mempool : tx.prev = base /\ \E i \in 1 .. n : r[i].tx = tx
      BY <1>i, <2>3 DEF MempoolInv, n
    <3> QED BY <2>1, <2>4, <3>1 DEF MempoolInv, r
  <2> QED BY <1>i, <2>1, <2>5, <2>6 DEF ChainInv
<1>6. ASSUME NEW tx \in mempool, Evict(tx) PROVE ChainInv' /\ SeenInv' /\ MempoolInv'
  <2>1. UNCHANGED <<st, decision, tip, base, presigned, seen>> /\ mempool' \subseteq mempool
    BY <1>6 DEF Evict
  <2>2. SeenInv'
    BY <1>i, <2>1, SeenKept
  <2> QED BY <1>i, <2>1, <2>2 DEF ChainInv, MempoolInv
<1>7. ASSUME NEW k \in DOMAIN seen, rebroadcastIfEvicted(seen[k])
      PROVE  ChainInv' /\ SeenInv' /\ MempoolInv'
  <2>1. /\ UNCHANGED <<st, decision, tip, base, presigned, seen>>
        /\ mempool' = mempool \cup {seen[k].tx} /\ seen[k].tx.prev = base
    BY <1>7 DEF rebroadcastIfEvicted
  <2>2. SeenInv'
    BY <1>i, <2>1, SeenKept
  <2> QED BY <1>i, <1>l, <2>1, <2>2 DEF ChainInv, MempoolInv
<1>8. ASSUME Tick PROVE ChainInv' /\ SeenInv' /\ MempoolInv'
  <2>1. UNCHANGED <<st, decision, base, presigned, mempool, seen>> /\ tip' = tip + 1
    BY <1>8 DEF Tick
  <2>2. SeenInv'
    BY <1>i, <2>1, SeenKept
  <2> QED BY <1>i, <2>1, <2>2 DEF ChainInv, MempoolInv
<1>9. ASSUME NEW tx \in mempool, ConfirmSuccessor(tx) PROVE ChainInv' /\ SeenInv' /\ MempoolInv'
  BY <1>i, <1>9, SuccessorKeeps
<1>10. ASSUME NEW tx \in mempool, ConfirmFallback(tx) PROVE ChainInv' /\ SeenInv' /\ MempoolInv'
  BY <1>10 DEF ConfirmFallback
<1>11. CASE UNCHANGED fvars
  <2>1. UNCHANGED <<st, decision, tip, base, presigned, mempool, seen>>
    BY <1>11 DEF fvars
  <2>2. SeenInv'
    BY <1>i, <2>1, SeenKept
  <2> QED BY <1>i, <2>1, <2>2 DEF ChainInv, MempoolInv
<1> QED
  BY <1>1, <1>2, <1>3, <1>4, <1>5, <1>6, <1>7, <1>8, <1>9, <1>10, <1>11 DEF FallbackNext

-----------------------------------------------------------------------------
(* pickConflictWinner decides by a strict order: the block, the quorum,    *)
(* the id.  Folding it over a list therefore yields the one candidate that *)
(* beats every other, in whatever order they come.                         *)

Beats(a, b) ==
    \/ a.confirmed_in_block /\ ~b.confirmed_in_block
    \/ /\ a.confirmed_in_block = b.confirmed_in_block
       /\ a.observed_by_quorum /\ ~b.observed_by_quorum
    \/ /\ a.confirmed_in_block = b.confirmed_in_block
       /\ a.observed_by_quorum = b.observed_by_quorum
       /\ TxId(a.tx) < TxId(b.tx)

LEMMA TxIdIn == ASSUME NEW tx PROVE TxId(tx) \in Nat
BY DEF TxId

LEMMA BeatsOrder ==
    ASSUME NEW a, NEW b, NEW c, IsSnapshot(a), IsSnapshot(b), IsSnapshot(c)
    PROVE  /\ ~(Beats(a, b) /\ Beats(b, a))
           /\ Beats(a, b) /\ Beats(b, c) => Beats(a, c)
           /\ TxId(a.tx) # TxId(b.tx) => Beats(a, b) \/ Beats(b, a)
           /\ pickConflictWinner(a, b) = IF Beats(a, b) THEN a ELSE b
<1>1. TxId(a.tx) \in Nat /\ TxId(b.tx) \in Nat /\ TxId(c.tx) \in Nat
  BY TxIdIn
<1> QED BY <1>1 DEF Beats, IsSnapshot, pickConflictWinner

(* best is the list of winners among the first k candidates. *)
IsContest(best, list, n) ==
    best = [k \in 1 .. n |-> IF k = 1 THEN list[1] ELSE pickConflictWinner(best[k - 1], list[k])]

LEMMA ContestExists ==
    ASSUME NEW list, NEW n \in Nat
    PROVE  \E best : IsContest(best, list, n)
<1> DEFINE T == {m \in Nat : ~\E best : IsContest(best, list, m)}
<1> SUFFICES ASSUME T # {} PROVE FALSE
  OBVIOUS
<1>1. PICK m \in T : \A y \in T : m <= y
  <2> HIDE DEF T
  <2>1. T \subseteq Nat
    BY DEF T
  <2> QED BY <2>1, LeastNat
<1>2. m # 0
  <2>1. IsContest([k \in 1 .. 0 |-> list[1]], list, 0)
    BY DEF IsContest
  <2> QED BY <2>1
<1>3. m \in Nat /\ m - 1 \in Nat /\ m - 1 \notin T
  BY <1>1, <1>2
<1>4. PICK f : IsContest(f, list, m - 1)
  BY <1>3
<1> DEFINE g == [k \in 1 .. m |-> IF k = 1 THEN list[1]
                                  ELSE IF k = m THEN pickConflictWinner(f[m - 1], list[m])
                                  ELSE f[k]]
<1>5. \A k \in 1 .. m - 1 : g[k] = f[k]
  BY <1>3, <1>4 DEF IsContest
<1>6. \A k \in 1 .. m : g[k] = IF k = 1 THEN list[1] ELSE pickConflictWinner(g[k - 1], list[k])
  <2> SUFFICES ASSUME NEW k \in 1 .. m, k # 1
               PROVE  g[k] = pickConflictWinner(g[k - 1], list[k])
    OBVIOUS
  <2>1. k - 1 \in 1 .. m - 1 /\ g[k - 1] = f[k - 1]
    <3>1. k - 1 \in 1 .. m - 1
      BY <1>3
    <3> QED BY <1>5, <3>1
  <2>2. CASE k = m
    <3>1. g[k] = pickConflictWinner(f[m - 1], list[m])
      BY <2>2
    <3> QED BY <2>1, <2>2, <3>1
  <2>3. CASE k # m
    <3>1. k \in 1 .. m - 1
      BY <1>3, <2>3
    <3>2. f[k] = pickConflictWinner(f[k - 1], list[k])
      BY <1>4, <3>1 DEF IsContest
    <3> HIDE DEF g
    <3> QED BY <1>5, <2>1, <3>1, <3>2
  <2> QED BY <2>2, <2>3
<1>7. IsContest(g, list, m)
  <2>1. g = [k \in 1 .. m |-> g[k]]
    OBVIOUS
  <2> HIDE DEF g
  <2> QED BY <1>6, <2>1 DEF IsContest
<1> QED BY <1>7

(* resolveConflict answers with a candidate that beats every other. *)
LEMMA WinnerBeatsAll ==
    ASSUME NEW list, Distinct(list), Len(list) > 0
    PROVE  \E w \in 1 .. Len(list) :
              /\ resolveConflict(list) = list[w]
              /\ \A j \in 1 .. Len(list) : j # w => Beats(list[w], list[j])
<1> DEFINE n == Len(list)
           best == CHOOSE f : IsContest(f, list, n)
           Leads(k, w) == /\ best[k] = list[w]
                          /\ \A j \in 1 .. k : j # w => Beats(list[w], list[j])
           T == {k \in 1 .. n : ~\E w \in 1 .. k : Leads(k, w)}
<1>1. /\ n \in Nat /\ n > 0
      /\ \A i \in 1 .. n : IsSnapshot(list[i])
      /\ \A i, j \in 1 .. n : TxId(list[i].tx) = TxId(list[j].tx) => i = j
  BY DEF Distinct, IsList
<1>2. IsContest(best, list, n)
  BY <1>1, ContestExists
<1>3. resolveConflict(list) = list[Min({i \in 1 .. n : TxId(list[i].tx) = TxId(best[n].tx)})]
  BY DEF resolveConflict, IsContest
<1> HIDE DEF n, best
<1>4. T = {}
  <2> SUFFICES ASSUME T # {} PROVE FALSE
    OBVIOUS
  <2>1. T \subseteq Nat
    BY <1>1
  <2>2. PICK k \in T : \A y \in T : k <= y
    <3> HIDE DEF T
    <3> QED BY <2>1, LeastNat
  <2>3. k \in 1 .. n /\ k \in Nat /\ ~\E w \in 1 .. k : Leads(k, w)
    BY <1>1
  <2>4. best[k] = IF k = 1 THEN list[1] ELSE pickConflictWinner(best[k - 1], list[k])
    BY <1>2, <2>3 DEF IsContest
  <2>5. k # 1
    <3> SUFFICES ASSUME k = 1 PROVE FALSE
      OBVIOUS
    <3>1. Leads(k, 1)
      BY <2>4
    <3> QED BY <2>3, <3>1
  <2>6. k - 1 \in 1 .. n /\ k - 1 \notin T
    BY <1>1, <2>2, <2>3, <2>5
  <2>7. PICK w \in 1 .. k - 1 : Leads(k - 1, w)
    BY <2>6
  <2>8. w \in 1 .. n /\ w \in 1 .. k /\ k \in 1 .. k /\ w # k
    BY <1>1, <2>3, <2>5
  <2>9. \A j \in 1 .. k : j \in 1 .. k - 1 \/ j = k
    BY <2>3
  <2>10. /\ IsSnapshot(list[w]) /\ IsSnapshot(list[k])
         /\ TxId(list[w].tx) # TxId(list[k].tx)
    BY <1>1, <2>3, <2>8
  <2>11. best[k] = IF Beats(list[w], list[k]) THEN list[w] ELSE list[k]
    BY <2>4, <2>5, <2>7, <2>10, BeatsOrder
  <2>12. CASE Beats(list[w], list[k])
    <3>1. Leads(k, w)
      BY <2>7, <2>9, <2>11, <2>12
    <3> QED BY <2>3, <2>8, <3>1
  <2>13. CASE ~Beats(list[w], list[k])
    <3>1. Beats(list[k], list[w])
      BY <2>10, <2>13, BeatsOrder
    <3>2. ASSUME NEW j \in 1 .. k, j # k PROVE Beats(list[k], list[j])
      <4>1. CASE j = w
        BY <3>1, <4>1
      <4>2. CASE j # w
        <5>1. j \in 1 .. k - 1 /\ j \in 1 .. n
          BY <1>1, <2>3, <3>2
        <5>2. Beats(list[w], list[j]) /\ IsSnapshot(list[j])
          BY <1>1, <2>7, <4>2, <5>1
        <5> QED BY <2>10, <3>1, <5>2, BeatsOrder
      <4> QED BY <4>1, <4>2
    <3>3. Leads(k, k)
      BY <2>11, <2>13, <3>2
    <3> QED BY <2>3, <2>8, <3>3
  <2> QED BY <2>12, <2>13
<1>5. n \in 1 .. n
  BY <1>1
<1>6. PICK w \in 1 .. n : Leads(n, w)
  BY <1>4, <1>5
<1>7. {i \in 1 .. n : TxId(list[i].tx) = TxId(best[n].tx)} = {w}
  BY <1>1, <1>6
<1>8. Min({w}) = w
  <2>1. {w} \in SUBSET Nat /\ {w} # {}
    BY <1>1
  <2> QED BY <2>1, MinExists
<1>9. resolveConflict(list) = list[w]
  BY <1>3, <1>7, <1>8
<1> QED BY <1>6, <1>9 DEF n

(* Two observers who saw the same transactions follow the same one. *)
LEMMA SameCandidates ==
    ASSUME NEW a, NEW b, Distinct(a), Distinct(b), Len(a) > 0, Len(b) > 0,
           \A i \in 1 .. Len(a) : \E j \in 1 .. Len(b) : a[i] = b[j],
           \A j \in 1 .. Len(b) : \E i \in 1 .. Len(a) : b[j] = a[i]
    PROVE  resolveConflict(a) = resolveConflict(b)
<1>1. PICK w \in 1 .. Len(a) : /\ resolveConflict(a) = a[w]
                               /\ \A i \in 1 .. Len(a) : i # w => Beats(a[w], a[i])
  BY WinnerBeatsAll
<1>2. PICK v \in 1 .. Len(b) : /\ resolveConflict(b) = b[v]
                               /\ \A j \in 1 .. Len(b) : j # v => Beats(b[v], b[j])
  BY WinnerBeatsAll
<1>3. PICK j \in 1 .. Len(b) : a[w] = b[j]
  OBVIOUS
<1>4. PICK i \in 1 .. Len(a) : b[v] = a[i]
  OBVIOUS
<1>5. IsSnapshot(a[w]) /\ IsSnapshot(b[v])
  BY DEF Distinct
<1>6. ~(Beats(a[w], b[v]) /\ Beats(b[v], a[w]))
  BY <1>5, BeatsOrder
<1> QED BY <1>1, <1>2, <1>3, <1>4, <1>6

(* Every order of the candidates is a list of the same candidates. *)
LEMMA OrdersAreLists ==
    ASSUME NEW list, Distinct(list), Len(list) > 0, NEW order \in SetToSeqs(Range(list))
    PROVE  /\ Distinct(order) /\ Len(order) > 0
           /\ \A i \in 1 .. Len(list) : \E j \in 1 .. Len(order) : list[i] = order[j]
           /\ \A j \in 1 .. Len(order) : \E i \in 1 .. Len(list) : order[j] = list[i]
<1> DEFINE n == Len(list)
           S == Range(list)
           m == Cardinality(S)
<1>1. /\ n \in Nat /\ n > 0 /\ DOMAIN list = 1 .. n
      /\ \A i \in 1 .. n : IsSnapshot(list[i])
      /\ \A i, j \in 1 .. n : TxId(list[i].tx) = TxId(list[j].tx) => i = j
  BY DEF Distinct, IsList
<1>2. S = {list[i] : i \in 1 .. n}
  BY <1>1 DEF Range
<1> HIDE DEF n, S
<1>3. IsFiniteSet(S) /\ m \in Nat
  <2>1. IsFiniteSet(1 .. n)
    BY <1>1, FS_Interval
  <2>2. list \in Surjection(1 .. n, S)
    <3>1. list = [i \in 1 .. n |-> list[i]]
      BY DEF Distinct, IsList, n
    <3> QED BY <1>2, <3>1 DEF Surjection
  <2>3. IsFiniteSet(S)
    BY <2>1, <2>2, FS_Surjection
  <2> QED BY <2>3, FS_CardinalityType
<1>4. order \in [1 .. m -> S] /\ \A i, j \in 1 .. m : i # j => order[i] # order[j]
  BY DEF SetToSeqs, S
<1> DEFINE R == {order[j] : j \in 1 .. m}
<1>5. R \subseteq S
  BY <1>4
<1>6. R = S
  <2>1. order \in Surjection(1 .. m, R) /\ order \in Injection(1 .. m, R)
    BY <1>4 DEF Injection, Surjection, IsInjective
  <2>2. IsFiniteSet(1 .. m) /\ Cardinality(1 .. m) = m
    BY <1>3, FS_Interval
  <2> HIDE DEF R
  <2>3. Cardinality(R) = m
    BY <2>1, <2>2, FS_Surjection
  <2> QED BY <1>3, <1>5, <2>3, FS_Subset
<1>7. IsList(order) /\ Len(order) = m
  BY <1>3, <1>4, ListIsSeq
<1>8. \A j \in 1 .. m : \E i \in 1 .. n : order[j] = list[i]
  BY <1>2, <1>4
<1>9. \A i \in 1 .. n : \E j \in 1 .. m : list[i] = order[j]
  BY <1>2, <1>6
<1>10. m > 0
  <2>1. 1 \in 1 .. n
    BY <1>1
  <2>2. PICK j \in 1 .. m : list[1] = order[j]
    BY <1>9, <2>1
  <2> QED BY <1>3, <2>2
<1> HIDE DEF m
<1>11. \A j \in 1 .. m : IsSnapshot(order[j])
  BY <1>1, <1>8
<1>12. ASSUME NEW i \in 1 .. m, NEW j \in 1 .. m, TxId(order[i].tx) = TxId(order[j].tx)
       PROVE  i = j
  <2>1. PICK p \in 1 .. n : order[i] = list[p]
    BY <1>8
  <2>2. PICK q \in 1 .. n : order[j] = list[q]
    BY <1>8
  <2>3. p = q
    BY <1>1, <1>12, <2>1, <2>2
  <2> QED BY <1>4, <2>1, <2>2, <2>3
<1>13. Distinct(order)
  BY <1>7, <1>11, <1>12 DEF Distinct
<1> QED BY <1>7, <1>8, <1>9, <1>10, <1>13 DEF n

(* resolveConflict among the competing transactions of an output. *)
LEMMA ConflictsResolve == ConflictInv => ObserversAgree
<1> SUFFICES ASSUME ConflictInv, seen # << >>
             PROVE  /\ \A order \in SetToSeqs(Range(seen)) :
                          resolveConflict(order) = resolveConflict(seen)
                    /\ \A i \in DOMAIN seen :
                          seen[i].confirmed_in_block => resolveConflict(seen) = seen[i]
  BY DEF ObserversAgree
<1>1. Distinct(seen) /\ IsList(seen) /\ Len(seen) \in Nat /\ DOMAIN seen = 1 .. Len(seen)
  BY DEF ConflictInv, Distinct, IsList
<1>2. Len(seen) > 0
  <2> SUFFICES ASSUME Len(seen) = 0 PROVE FALSE
    BY <1>1
  <2>1. seen = [g \in 1 .. 0 |-> seen[g]]
    BY <1>1 DEF IsList
  <2> QED BY <2>1
<1>3. ASSUME NEW order \in SetToSeqs(Range(seen))
      PROVE  resolveConflict(order) = resolveConflict(seen)
  <2>1. /\ Distinct(order) /\ Len(order) > 0
        /\ \A i \in 1 .. Len(seen) : \E j \in 1 .. Len(order) : seen[i] = order[j]
        /\ \A j \in 1 .. Len(order) : \E i \in 1 .. Len(seen) : order[j] = seen[i]
    BY <1>1, <1>2, OrdersAreLists, ZenonT(30)
  <2> QED BY <1>1, <1>2, <2>1, SameCandidates, ZenonT(30)
<1>4. ASSUME NEW i \in DOMAIN seen, seen[i].confirmed_in_block
      PROVE  resolveConflict(seen) = seen[i]
  <2>1. PICK w \in 1 .. Len(seen) :
           /\ resolveConflict(seen) = seen[w]
           /\ \A j \in 1 .. Len(seen) : j # w => Beats(seen[w], seen[j])
    BY <1>1, <1>2, WinnerBeatsAll
  <2>2. CASE i = w
    BY <2>1, <2>2
  <2>3. CASE i # w
    <3>1. i \in 1 .. Len(seen) /\ Beats(seen[w], seen[i])
      BY <1>1, <2>1, <2>3
    <3>2. seen[w].confirmed_in_block
      BY <1>4, <3>1 DEF Beats
    <3> QED BY <1>4, <2>3, <3>1, <3>2 DEF ConflictInv
  <2> QED BY <2>2, <2>3
<1> QED BY <1>3, <1>4

-----------------------------------------------------------------------------
(* What the steps do to the competing transactions. *)

LEMMA AddKeepsConflicts ==
    ASSUME ~ended, SeenInv, PrescribedInv, ConflictInv, NEW tx, Add(tx), tx.prev = base,
           Standing(st, decision, presigned, tx), Prescribed(st, decision, base, tx),
           tx.kind = "cooperative" =>
              \A i \in DOMAIN seen : seen[i].tx.prev = base => seen[i].tx.kind # "cooperative"
    PROVE  ConflictInv' /\ PrescribedInv'
<1> DEFINE c == Candidate(tx)
           r == seen'
<1>1. /\ UNCHANGED <<st, decision, base>>
      /\ \A i \in DOMAIN seen : seen[i].tx.prev = base => seen[i].tx # tx
  BY DEF Add
<1>2. PICK n \in Nat :
         /\ IsList(r) /\ Len(r) = n + 1
         /\ \A i \in 1 .. n : i \in 1 .. Len(seen) /\ r[i] = seen[i] /\ seen[i].tx.prev = base
         /\ r[n + 1] = c
  BY AddAppends
<1>3. IsSnapshot(c) /\ c.tx = tx /\ c.confirmed_in_block = FALSE
  BY DEF Candidate, IsSnapshot, IsCandidate
<1> HIDE DEF c, r
<1>4. \A i \in 1 .. n + 1 : i \in 1 .. n \/ i = n + 1
  OBVIOUS
<1>5. ASSUME NEW i \in 1 .. n
      PROVE  /\ IsSnapshot(r[i]) /\ r[i].confirmed_in_block = FALSE
             /\ Prescribed(st, decision, base, r[i].tx)
             /\ TxId(r[i].tx) # TxId(tx)
  <2>1. /\ i \in 1 .. Len(seen) /\ i \in DOMAIN seen /\ r[i] = seen[i] /\ seen[i].tx.prev = base
        /\ IsSnapshot(seen[i])
    BY <1>2 DEF ConflictInv, Distinct, IsList
  <2>2. /\ seen[i].confirmed_in_block = FALSE
        /\ Standing(st, decision, presigned, seen[i].tx)
        /\ Prescribed(st, decision, base, seen[i].tx)
    BY <2>1 DEF SeenInv, PrescribedInv
  <2>3. /\ seen[i].tx.kind \in {"cooperative", "timeout", "recovery"}
        /\ tx.kind \in {"cooperative", "timeout", "recovery"}
    BY <2>2 DEF Standing
  <2>4. seen[i].tx # tx /\ ~(tx.kind = "cooperative" /\ seen[i].tx.kind = "cooperative")
    BY <1>1, <2>1
  <2>5. seen[i].tx.kind # tx.kind
    BY <2>2, <2>3, <2>4 DEF Prescribed
  <2>6. TxId(seen[i].tx) # TxId(tx)
    BY <2>3, <2>5 DEF TxId
  <2> QED BY <2>1, <2>2, <2>6
<1>6. \A i \in 1 .. n + 1 : IsSnapshot(r[i]) /\ Prescribed(st, decision, base, r[i].tx)
  BY <1>2, <1>3, <1>4, <1>5
<1>7. ASSUME NEW i \in 1 .. n + 1, NEW j \in 1 .. n + 1, TxId(r[i].tx) = TxId(r[j].tx)
      PROVE  i = j
  <2>1. CASE i \in 1 .. n /\ j \in 1 .. n
    <3>1. /\ i \in 1 .. Len(seen) /\ j \in 1 .. Len(seen)
          /\ r[i] = seen[i] /\ r[j] = seen[j]
      BY <1>2, <2>1
    <3> QED BY <1>7, <3>1 DEF ConflictInv, Distinct
  <2>2. CASE i \in 1 .. n /\ j = n + 1
    BY <1>2, <1>3, <1>5, <1>7, <2>2
  <2>3. CASE i = n + 1 /\ j \in 1 .. n
    BY <1>2, <1>3, <1>5, <1>7, <2>3
  <2> QED BY <1>4, <2>1, <2>2, <2>3
<1>8. \A i \in 1 .. n + 1 : ~r[i].confirmed_in_block
  BY <1>2, <1>3, <1>4, <1>5
<1>9. 1 .. Len(r) = 1 .. n + 1
  BY <1>2
<1>10. ConflictInv'
  <2>1. Distinct(r)
    BY <1>2, <1>6, <1>7, <1>9, Zenon DEF Distinct
  <2>2. \A i, j \in 1 .. Len(r) : r[i].confirmed_in_block /\ r[j].confirmed_in_block => i = j
    BY <1>8, <1>9, Zenon
  <2> QED BY <2>1, <2>2 DEF ConflictInv, r
<1>11. PrescribedInv'
  <2>1. \A i \in 1 .. Len(r) : Prescribed(st, decision, base, r[i].tx)
    BY <1>6, <1>9, Zenon
  <2> QED BY <1>1, <2>1 DEF PrescribedInv, r
<1> QED BY <1>10, <1>11

(* Candidates change their flags and nothing else. *)
LEMMA FlagsKeep ==
    ASSUME ConflictInv, NEW r, IsList(r), Len(r) = Len(seen),
           \A i \in 1 .. Len(seen) : IsSnapshot(r[i]) /\ r[i].tx = seen[i].tx
    PROVE  Distinct(r)
BY DEF ConflictInv, Distinct

LEMMA QuorumKeepsConflicts ==
    ASSUME ConflictInv, PrescribedInv, NEW k \in DOMAIN seen, ObserveQuorum(k)
    PROVE  ConflictInv' /\ PrescribedInv'
<1> DEFINE n == Len(seen)
           r == seen'
<1>0. /\ UNCHANGED <<st, decision, base, ended>>
      /\ r = [seen EXCEPT ![k] = [seen[k] EXCEPT !.observed_by_quorum = TRUE]]
  BY DEF ObserveQuorum
<1>1. n \in Nat /\ DOMAIN seen = 1 .. n /\ r = [i \in 1 .. n |-> r[i]]
  BY <1>0 DEF ConflictInv, Distinct, IsList
<1>2. ASSUME NEW i \in 1 .. n
      PROVE  /\ IsSnapshot(r[i]) /\ r[i].tx = seen[i].tx
             /\ r[i].confirmed_in_block = seen[i].confirmed_in_block
  <2>1. IsSnapshot(seen[i])
    BY DEF ConflictInv, Distinct
  <2>2. r[i] = seen[i] \/ r[i] = [seen[i] EXCEPT !.observed_by_quorum = TRUE]
    BY <1>0, <1>1
  <2> HIDE DEF r
  <2> QED BY <2>1, <2>2 DEF IsSnapshot, IsCandidate
<1> HIDE DEF n, r
<1>3. IsList(r) /\ Len(r) = n
  BY <1>1, ListIsSeq
<1>4. Distinct(r)
  BY <1>2, <1>3, FlagsKeep DEF n
<1>5. \A i, j \in 1 .. n : r[i].confirmed_in_block /\ r[j].confirmed_in_block => i = j
  BY <1>2 DEF ConflictInv, n
<1>6. ConflictInv'
  BY <1>3, <1>4, <1>5 DEF ConflictInv, r
<1>7. ~ended => \A i \in 1 .. n : r[i].tx.prev = base => Prescribed(st, decision, base, r[i].tx)
  BY <1>2 DEF PrescribedInv, n
<1>8. PrescribedInv'
  BY <1>0, <1>3, <1>7 DEF PrescribedInv, r
<1> QED BY <1>6, <1>8

(* A block includes one of those that compete, and none was included yet. *)
LEMMA BlockKeepsConflicts ==
    ASSUME SeenInv, MempoolInv, ChainInv, ConflictInv, NEW tx \in mempool,
           seen' = MarkConfirmed(tx)
    PROVE  /\ ConflictInv'
           /\ \A i \in 1 .. Len(seen') : seen'[i].tx.prev \in Nat /\ seen'[i].tx.prev <= base
<1> DEFINE n == Len(seen)
           r == MarkConfirmed(tx)
<1>1. n \in Nat /\ DOMAIN seen = 1 .. n
  BY DEF SeenInv, IsList
<1>2. r = [i \in 1 .. n |-> r[i]]
  BY <1>1 DEF MarkConfirmed
<1>3. \A i \in 1 .. n : seen[i].confirmed_in_block = FALSE
  <2>1. PICK k \in 1 .. n : seen[k].tx.prev = base
    BY DEF MempoolInv
  <2>2. \A i \in 1 .. n : seen[i].tx.prev = base
    BY <2>1 DEF SeenInv, ChainInv
  <2> QED BY <2>2 DEF SeenInv
<1>4. ASSUME NEW i \in 1 .. n
      PROVE  /\ IsSnapshot(r[i]) /\ r[i].tx = seen[i].tx
             /\ r[i].confirmed_in_block => seen[i].tx = tx
  <2>1. IsSnapshot(seen[i])
    BY DEF ConflictInv, Distinct
  <2>2. r[i] = IF seen[i].tx = tx THEN [seen[i] EXCEPT !.confirmed_in_block = TRUE] ELSE seen[i]
    BY <1>1 DEF MarkConfirmed
  <2> HIDE DEF r
  <2> QED BY <1>3, <2>1, <2>2 DEF IsSnapshot, IsCandidate
<1> HIDE DEF n, r
<1>5. IsList(r) /\ Len(r) = n
  BY <1>1, <1>2, ListIsSeq
<1>6. Distinct(r)
  BY <1>4, <1>5, FlagsKeep DEF n
<1>7. ASSUME NEW i \in 1 .. n, NEW j \in 1 .. n, r[i].confirmed_in_block, r[j].confirmed_in_block
      PROVE  i = j
  <2>1. seen[i].tx = seen[j].tx
    BY <1>4, <1>7
  <2> QED BY <2>1 DEF ConflictInv, Distinct, n
<1>8. ConflictInv'
  BY <1>5, <1>6, <1>7 DEF ConflictInv, r
<1>9. \A i \in 1 .. n : r[i].tx.prev \in Nat /\ r[i].tx.prev <= base
  BY <1>4 DEF SeenInv, n
<1> QED BY <1>5, <1>8, <1>9 DEF r

(* A fallback transaction leads to a RoundState, if the engine accepts it. *)
LEMMA ReleaseSound ==
    ASSUME Sound(st), NEW tx, Prescribed(st, decision, base, tx),
           tx.kind \in {"timeout", "recovery"}, NEW height, Accepts(st, tx.action, height)
    PROVE  Sound(Successor(st, tx.action))
<1>1. tx.action \in {FallbackAction("Timeout"), FallbackAction("Recovery")}
  BY DEF Prescribed
<1>2. WellFormed(tx.action)
  BY <1>1 DEF WellFormed, FallbackAction, ActionTypes
<1> QED BY <1>2, AcceptedType

LEMMA FallbackInvInit == FallbackInit => FallbackInv
<1> SUFFICES ASSUME FallbackInit PROVE FallbackInv
  OBVIOUS
<1>1. ~ended /\ mempool = {} /\ seen = << >>
  BY DEF FallbackInit
<1>2. GateInv /\ ChainInv
  BY <1>1, GateInvInit DEF GateInv
<1>3. PrescribedInv
  BY <1>1 DEF PrescribedInv
<1>4. ConflictInv
  BY <1>1 DEF ConflictInv, Distinct, IsList
<1> QED BY <1>1, <1>2, <1>3, <1>4 DEF FallbackInv

(* While the output is unspent. *)
LEMMA CompetitionNext ==
    ASSUME FallbackInv, FallbackNext, ~ended
    PROVE  ConflictInv' /\ PrescribedInv'
<1>i. ChainInv /\ SeenInv /\ MempoolInv /\ PrescribedInv /\ ConflictInv
  BY DEF FallbackInv, GateInv
<1>l. DOMAIN seen = 1 .. Len(seen)
  BY <1>i DEF SeenInv, IsList
<1>1. CASE UNCHANGED <<seen, base, decision, ended>> /\ st'.recovery_deadline = st.recovery_deadline
  BY <1>i, <1>1 DEF ConflictInv, PrescribedInv, Prescribed
<1>2. ASSUME Stamp PROVE st'.recovery_deadline = st.recovery_deadline
  BY <1>i, <1>2 DEF Stamp, StampDeadline, ChainInv, Sound, RoundStates
<1>3. ASSUME NEW a \in AllActions, Propose(a) PROVE ConflictInv' /\ PrescribedInv'
  <2> DEFINE tx == buildCooperativeTx(a)
  <2>1. /\ Add(tx) /\ Accepts(st, a, tip) /\ a.action_type \notin {"Timeout", "Recovery"}
        /\ \A i \in DOMAIN seen : seen[i].tx.prev = base => seen[i].tx.kind # "cooperative"
    BY <1>3 DEF Propose
  <2>2. WellFormed(a)
    BY AllActionsWellFormed
  <2>3. Accepts(st, a, 0)
    BY <2>1, <2>2, HeightFree
  <2>4. tx.kind = "cooperative" /\ tx.action = a /\ tx.prev = base
    BY DEF buildCooperativeTx, Tx
  <2> HIDE DEF tx
  <2>5. Standing(st, decision, presigned, tx) /\ Prescribed(st, decision, base, tx)
    BY <2>1, <2>2, <2>3, <2>4 DEF Standing, Prescribed
  <2> QED BY <1>i, <2>1, <2>4, <2>5, AddKeepsConflicts
<1>4. ASSUME NEW tx \in PresignedGraph(st), BroadcastFallback(tx)
      PROVE  ConflictInv' /\ PrescribedInv'
  <2>1. Add(tx) /\ AllPresigned
    BY <1>4 DEF BroadcastFallback
  <2>2. /\ tx.prev = base /\ tx.kind # "cooperative"
        /\ Standing(st, decision, presigned, tx) /\ Prescribed(st, decision, base, tx)
    BY <1>i, <2>1, PresignedStanding DEF ChainInv
  <2> QED BY <1>i, <2>1, <2>2, AddKeepsConflicts
<1>5. ASSUME NEW tx \in mempool, ConfirmSuccessor(tx) PROVE ConflictInv' /\ PrescribedInv'
  <2>1. base' = tip + 1 /\ seen' = MarkConfirmed(tx)
    BY <1>5 DEF ConfirmSuccessor
  <2>2. /\ ConflictInv'
        /\ \A i \in 1 .. Len(seen') : seen'[i].tx.prev \in Nat /\ seen'[i].tx.prev <= base
    BY <1>i, <2>1, BlockKeepsConflicts
  <2>3. \A i \in 1 .. Len(seen') : seen'[i].tx.prev # base'
    BY <1>i, <2>1, <2>2 DEF ChainInv
  <2> QED BY <2>2, <2>3 DEF PrescribedInv
<1>6. ASSUME NEW tx \in mempool, ConfirmFallback(tx) PROVE ConflictInv' /\ PrescribedInv'
  <2>1. ended' /\ seen' = MarkConfirmed(tx)
    BY <1>6 DEF ConfirmFallback
  <2> QED BY <1>i, <2>1, BlockKeepsConflicts DEF PrescribedInv
<1>7. ASSUME NEW k \in DOMAIN seen, ObserveQuorum(k) PROVE ConflictInv' /\ PrescribedInv'
  BY <1>i, <1>7, QuorumKeepsConflicts
<1>8. ASSUME \/ \E key \in Pubkeys : Presign(key)
             \/ \E tx \in mempool : Evict(tx)
             \/ \E i \in DOMAIN seen : rebroadcastIfEvicted(seen[i])
             \/ Tick
      PROVE  UNCHANGED <<seen, base, decision, ended, st>>
  BY <1>8 DEF Presign, Evict, rebroadcastIfEvicted, Tick
<1>9. ASSUME Stamp PROVE UNCHANGED <<seen, base, decision, ended>>
  BY <1>9 DEF Stamp
<1> QED
  BY <1>1, <1>2, <1>3, <1>4, <1>5, <1>6, <1>7, <1>8, <1>9 DEF FallbackNext

LEMMA FallbackInvNext == FallbackInv /\ [FallbackNext]_fvars => FallbackInv'
<1> SUFFICES ASSUME FallbackInv, [FallbackNext]_fvars PROVE FallbackInv'
  OBVIOUS
<1>0. GateInv' /\ GateInv /\ ConflictInv /\ PrescribedInv /\ ChainInv /\ (ended => mempool = {})
  BY GateInvNext DEF FallbackInv
<1>1. CASE UNCHANGED fvars
  BY <1>0, <1>1 DEF FallbackInv, fvars, ConflictInv, PrescribedInv, ChainInv
<1>2. CASE FallbackNext /\ ended
  <2>1. mempool = {}
    BY <1>0, <1>2
  <2>2. FALSE
    BY <1>2, <2>1 DEF FallbackNext, Presign, Stamp, Propose, BroadcastFallback, Add,
           ObserveQuorum, rebroadcastIfEvicted, Tick
  <2> QED BY <2>2
<1>3. CASE FallbackNext /\ ~ended
  <2>1. ConflictInv' /\ PrescribedInv'
    BY <1>3, CompetitionNext
  <2>2. CASE ~ended'
    BY <1>0, <2>1, <2>2 DEF FallbackInv, GateInv
  <2>3. CASE ended'
    <3>1. PICK tx \in mempool : ConfirmFallback(tx)
      BY <1>3, <2>3 DEF FallbackNext, Presign, Stamp, Propose, BroadcastFallback, Add,
         ObserveQuorum, Evict, rebroadcastIfEvicted, Tick, ConfirmSuccessor
    <3>2. /\ tx.kind # "cooperative"
          /\ st' = IF Accepts(st, tx.action, tip) THEN Successor(st, tx.action) ELSE st
          /\ tip' = tip + 1 /\ mempool' = {} /\ UNCHANGED <<decision, base>>
      BY <3>1 DEF ConfirmFallback, Follows
    <3>3. /\ Prescribed(st, decision, base, tx)
          /\ Standing(st, decision, presigned, tx)
      <4>1. PICK i \in 1 .. Len(seen) : seen[i].tx = tx /\ tx.prev = base
        BY <1>0, <1>3 DEF GateInv, MempoolInv
      <4> QED BY <1>0, <1>3, <4>1 DEF GateInv, SeenInv, PrescribedInv
    <3>4. tx.kind \in {"timeout", "recovery"}
      BY <3>2, <3>3 DEF Standing
    <3>5. Sound(st')
      BY <1>0, <3>2, <3>3, <3>4, ReleaseSound DEF ChainInv
    <3>6. ChainInv'
      BY <1>0, <3>2, <3>5 DEF ChainInv
    <3> QED BY <1>0, <2>1, <3>2, <3>6 DEF FallbackInv
  <2> QED BY <2>2, <2>3
<1> QED BY <1>1, <1>2, <1>3

(* NoEarlyFallback: buildTimeoutTx and buildRecoveryTx put the gate of the *)
(* state into the transaction, and whatever is proposed, sent, evicted,    *)
(* sent again or stamped meanwhile, a block that includes it comes after   *)
(* that gate and with the signature of every seated player.                *)
THEOREM FallbackWaits == FallbackSpec => NoEarlyFallback
<1>1. FallbackInv /\ [FallbackNext]_fvars =>
        [\A tx \in mempool : tip' # tip /\ seen' # seen /\ seen' = MarkConfirmed(tx) =>
            /\ tx.kind = "timeout" => AllPresigned /\ tip' >= base + decision
            /\ tx.kind = "recovery" => AllPresigned /\ tip' > st.recovery_deadline]_fvars
  <2> SUFFICES ASSUME FallbackInv, FallbackNext, NEW u \in mempool, tip' # tip, seen' # seen,
                      seen' = MarkConfirmed(u)
               PROVE  /\ u.kind = "timeout" => AllPresigned /\ tip' >= base + decision
                      /\ u.kind = "recovery" => AllPresigned /\ tip' > st.recovery_deadline
    OBVIOUS
  <2>1. ChainInv /\ SeenInv /\ MempoolInv
    BY DEF FallbackInv, GateInv
  <2>2. PICK tx \in mempool : ConfirmSuccessor(tx) \/ ConfirmFallback(tx)
    BY DEF FallbackNext, Presign, Stamp, Propose, BroadcastFallback, Add, ObserveQuorum,
           Evict, rebroadcastIfEvicted, Tick
  <2>3. Final(tx, tip + 1) /\ tip' = tip + 1 /\ seen' = MarkConfirmed(tx)
    BY <2>2 DEF ConfirmSuccessor, ConfirmFallback, Mineable
  <2>4. u = tx
    BY <2>1, <2>3, OneConfirmed
  <2>5. Standing(st, decision, presigned, tx)
    BY <2>1 DEF MempoolInv, SeenInv
  <2>6. SignedByAll(st, presigned) <=> AllPresigned
    BY DEF SignedByAll, AllPresigned, Keys
  <2>7. CASE tx.kind = "timeout"
    <3>1. tx.sequence = decision /\ AllPresigned
      BY <2>5, <2>6, <2>7 DEF Standing
    <3>2. tip + 1 >= base + decision
      BY <2>1, <2>3, <3>1 DEF Final, ChainInv
    <3> QED BY <2>3, <2>4, <2>7, <3>1, <3>2
  <2>8. CASE tx.kind = "recovery"
    <3>1. /\ AllPresigned /\ tx.sequence = SEQUENCE_FINAL - 1
          /\ tx.lockTime = st.recovery_deadline /\ ~(tx.lockTime >= UnixTimestamps)
      BY <2>5, <2>6, <2>8 DEF Standing
    <3>2. st.recovery_deadline \in Nat /\ tip \in Nat
      BY <2>1 DEF ChainInv, Sound, RoundStates
    <3>3. tx.lockTime < tip + 1
      BY <2>3, <3>1, <3>2 DEF Final, SEQUENCE_FINAL
    <3>4. tip' > st.recovery_deadline
      BY <2>3, <3>1, <3>2, <3>3
    <3> QED BY <2>4, <2>8, <3>1, <3>4
  <2> QED BY <2>4, <2>7, <2>8
<1> QED BY <1>1, FallbackInvInit, FallbackInvNext, PTL DEF FallbackSpec, NoEarlyFallback

(* ObserversAgree: resolveConflict follows, among the transactions that    *)
(* compete for an output, the same one whatever order they were seen in,   *)
(* and the confirmed one once a block has it; for any number of blocks,    *)
(* evictions and rebroadcasts.                                             *)
THEOREM ObserversFollowOne == FallbackSpec => []ObserversAgree
<1>1. FallbackInv => ObserversAgree
  BY ConflictsResolve DEF FallbackInv
<1> QED BY <1>1, FallbackInvInit, FallbackInvNext, PTL DEF FallbackSpec

-----------------------------------------------------------------------------
(* What the engine calls eligible the chain can include. *)

(* With every signature the output of the state can be spent. *)
LEMMA PresignedSpends ==
    ASSUME Sound(st), AllPresigned, NEW tx, tx.kind # "cooperative"
    PROVE  Spends(buildTableRoot(Keys), [i \in 1 .. Len(Keys) + 1 |-> Witness(tx)[i - 1]], tx)
<1> DEFINE n == Len(st.players)
           keys == Keys
           l == n + 1
           w == [i \in 1 .. l |-> Witness(tx)[i - 1]]
<1>1. n \in Nat /\ DOMAIN st.players = 1 .. n
  <2>1. st.players \in Seq(Players)
    BY DEF Sound, RoundStates
  <2> QED BY <2>1
<1>2. keys = [i \in 1 .. n |-> keys[i]]
  BY <1>1 DEF Keys
<1> HIDE DEF n, keys
<1>3. IsList(keys) /\ Len(keys) = n
  BY <1>1, <1>2, ListIsSeq
<1>4. SignersOf(tx) = Range(keys)
  BY DEF SignersOf, AllPresigned, keys
<1>5. \A i \in 1 .. n : keys[i] \in SignersOf(tx)
  BY <1>2, <1>4 DEF Range
<1>6. \A i \in 1 .. n : Witness(tx)[i] = Sig(keys[i], tx)
  <2> SUFFICES ASSUME NEW i \in 1 .. n PROVE Witness(tx)[i] = Sig(keys[i], tx)
    OBVIOUS
  <2>1. i \in 0 .. n /\ i # 0
    BY <1>1
  <2>2. Witness(tx) = [j \in 0 .. n |-> IF j = 0 \/ keys[j] \notin SignersOf(tx)
                                        THEN Bool(FALSE) ELSE Sig(keys[j], tx)]
    BY <1>3 DEF Witness, keys
  <2>3. Witness(tx)[i] = IF i = 0 \/ keys[i] \notin SignersOf(tx)
                         THEN Bool(FALSE) ELSE Sig(keys[i], tx)
    BY <2>1, <2>2
  <2> QED BY <1>5, <2>1, <2>3
<1>7. l \in Nat /\ w = [i \in 1 .. l |-> w[i]]
  BY <1>1
<1>8. \A i \in 1 .. n : w[l - n + i] = Witness(tx)[i]
  <2> SUFFICES ASSUME NEW i \in 1 .. n PROVE w[l - n + i] = Witness(tx)[i]
    OBVIOUS
  <2> DEFINE j == l - n + i
  <2>1. j \in 1 .. l /\ j - 1 = i
    BY <1>1
  <2> HIDE DEF j, l
  <2>2. w[j] = Witness(tx)[j - 1]
    BY <2>1
  <2> QED BY <2>1, <2>2 DEF j
<1> HIDE DEF w
<1>9. IsList(w) /\ Len(w) = l
  <2> HIDE DEF l
  <2> QED BY <1>7, ListIsSeq
<1>10. Spends(MultisigBody(keys), w, tx) <=>
          /\ Len(w) >= n + 1
          /\ \A i \in 1 .. n : Same(w[Len(w) - n + i], Sig(keys[i], tx))
  <2>1. IsList(w)
    BY <1>9
  <2> HIDE DEF l
  <2> QED BY <1>1, <1>3, <2>1, SpendsMultisig
<1>11. \A i \in 1 .. n : Same(w[Len(w) - n + i], Sig(keys[i], tx))
  <2> HIDE DEF l
  <2> QED BY <1>6, <1>8, <1>9 DEF Same
<1>12. Len(w) >= n + 1
  BY <1>1, <1>9
<1>13. Spends(MultisigBody(keys), w, tx)
  BY <1>10, <1>11, <1>12
<1> QED BY <1>3, <1>13 DEF w, keys, buildTableRoot

LEMMA EligibleSpends == ChainInv => EligibleIsSpendable
<1> SUFFICES ASSUME ChainInv, AllPresigned, NEW tx \in PresignedGraph(st)
             PROVE  /\ tx.kind = "recovery" =>
                          (eligibility(st, tip).canRecover <=> Mineable(tx, tip + 1))
                    /\ tx.kind = "timeout" /\ st.decision_deadline = base + decision =>
                          (eligibility(st, tip).canTimeout => Mineable(tx, tip + 1))
  BY DEF EligibleIsSpendable
<1> DEFINE deadline == st.recovery_deadline
<1>1. Sound(st) /\ decision \in Nat /\ base \in Nat /\ tip \in Nat
  BY DEF ChainInv
<1>2. deadline \in Nat
  BY <1>1 DEF Sound, RoundStates
<1>3. /\ tx.kind # "cooperative"
      /\ Standing(st, decision, presigned, tx)
      /\ Prescribed(st, decision, base, tx)
  BY <1>1, PresignedStanding
<1>4. Spends(buildTableRoot(Keys), [i \in 1 .. Len(Keys) + 1 |-> Witness(tx)[i - 1]], tx)
  BY <1>1, <1>3, PresignedSpends
<1>5. Mineable(tx, tip + 1) <=> Final(tx, tip + 1)
  BY <1>4 DEF Mineable
<1>6. ASSUME tx.kind = "recovery"
      PROVE  eligibility(st, tip).canRecover <=> Final(tx, tip + 1)
  <2>1. tx.sequence = -2 /\ tx.lockTime = deadline /\ ~(deadline >= UnixTimestamps)
    <3>1. /\ tx.lockTime = deadline /\ tx.sequence = SEQUENCE_FINAL - 1
          /\ ~(deadline >= UnixTimestamps)
      BY <1>3, <1>6 DEF Standing
    <3> QED BY <3>1 DEF SEQUENCE_FINAL
  <2>2. eligibility(st, tip).canRecover <=> tip >= deadline
    BY DEF eligibility
  <2>3. UnixTimestamps \in Nat
    BY DEF UnixTimestamps
  <2> HIDE DEF deadline
  <2>4. Final(tx, tip + 1) <=> deadline < tip + 1
    BY <1>1, <1>2, <2>1, <2>3 DEF Final, SEQUENCE_FINAL
  <2> QED BY <1>1, <1>2, <2>2, <2>4
<1>7. ASSUME tx.kind = "timeout", st.decision_deadline = base + decision,
             eligibility(st, tip).canTimeout
      PROVE  Final(tx, tip + 1)
  <2>1. tx.sequence = decision /\ tx.lockTime = 0
    BY <1>3, <1>7 DEF Prescribed
  <2>2. tip >= base + decision
    BY <1>7 DEF eligibility
  <2>3. 0 < UnixTimestamps
    BY DEF UnixTimestamps
  <2> QED BY <1>1, <2>1, <2>2, <2>3 DEF Final
<1> QED BY <1>5, <1>6, <1>7

(* Deadlines against lock times: where every player has signed, the        *)
(* recovery transaction fits into the next block exactly when the engine   *)
(* accepts a Recovery at the tip, and the timeout transaction whenever the *)
(* engine accepts a Timeout; the script of the table root does not stand   *)
(* in the way, for any number of players.                                  *)
THEOREM EligibleFallbacksSpend == FallbackSpec => []EligibleIsSpendable
<1>1. FallbackInv => EligibleIsSpendable
  BY EligibleSpends DEF FallbackInv
<1> QED BY <1>1, FallbackInvInit, FallbackInvNext, PTL DEF FallbackSpec
=============================================================================
