------------------------------ MODULE Fallback ------------------------------
(***************************************************************************)
(* The pre-signed fallback graph of a session on the chain.  Every state   *)
(* of a locked table is an output that three kinds of transaction compete  *)
(* to spend: the cooperative successor, the timeout and the recovery       *)
(* (state-engine's fallback.ts, fallback-build.ts, tx-orchestrator.ts).    *)
(* The seated players sign the two fallback transactions beforehand and    *)
(* may then fall silent; whoever holds them broadcasts them, a node may    *)
(* evict them again, and a block includes one transaction per output.      *)
(* ordering.ts and the tx-simulator say which of several competing         *)
(* transactions an observer has to follow.                                 *)
(*                                                                         *)
(* External: the chain.  A transaction may be in a block when its lock     *)
(* time and its input's sequence allow it and its witness satisfies the    *)
(* output's script.  The digest that is signed is the transaction itself.  *)
(***************************************************************************)
EXTENDS Engine, Replay, Script

CONSTANTS DecisionChoices, RecoveryChoices,  \* the rule set's two timeouts
          MaxTip, MaxEvictions,              \* bounds on ticks and evictions
          Openings                           \* the play before the first output, as entries

ASSUME FallbackAssumption ==
    /\ DecisionChoices \subseteq Nat
    /\ RecoveryChoices \subseteq Nat
    /\ \A opening \in Openings : opening \in Seq([action : AllActions, height : Nat])

VARIABLES decision,     \* decision_timeout_blocks
          tip, base,    \* height of the chain; height of the state's output
          presigned,    \* keys that have signed the fallback transactions
          mempool,      \* the transactions a block may include
          seen,         \* the competing transactions in order of arrival
          evictions,
          ended         \* a fallback transaction that no state follows was confirmed

fvars == <<st, decision, tip, base, presigned, mempool, seen, evictions, ended>>

SEQUENCE_FINAL == -1            \* 0xffffffff, read as a signed 32-bit word
UnixTimestamps == 500000000     \* a lock time from here on is a time
TX_VERSION == 2

-----------------------------------------------------------------------------
(* fallback.ts: the branches of a state. *)

cooperativeFor(class) ==
    CASE class = "S1_SEAT_OPEN" -> "Join"
      [] class = "S3_ENTROPY_COMMIT_WINDOW" -> "EntropyCommit"
      [] class = "S4_ENTROPY_REVEAL_WINDOW" -> "EntropyReveal"
      [] class \in {"S5_DECK_COMMITTED", "S6_CARD_REVEAL_FIRST", "S9_CARD_REVEAL_THIRD"}
           -> "CardReveal"
      [] class = "S8_BET_DECISION" -> "BetAction"
      [] class = "S10_SETTLED_ROUND" -> "Settle"
      [] class = "S11_ROTATE_TURN" -> "RotateTurn"
      [] class = "S12_TABLE_CLOSE" -> "TableClose"
      [] class = "RECOVERED" -> Null

timeoutDefaultFor(class) ==
    IF class \in {"S3_ENTROPY_COMMIT_WINDOW", "S4_ENTROPY_REVEAL_WINDOW",
                  "S8_BET_DECISION", "S9_CARD_REVEAL_THIRD"}
    THEN "Timeout" ELSE Null

immediate == [kind |-> "immediate"]
relativeBlocks(n) ==
    IF n < 1 THEN Null ELSE [kind |-> "relative_blocks", blocks_since_input_confirmation |-> n]
absoluteHeight(h) == [kind |-> "absolute_height", not_before_height |-> h]

enumerateFallbackGraph(s) ==
    {b \in {[kind |-> "cooperative", action_type |-> cooperativeFor(s.state_class)],
            [kind |-> "timeout", action_type |-> timeoutDefaultFor(s.state_class)],
            [kind |-> "recovery", action_type |-> "Recovery"]} :
        b.action_type # Null}

(* fallback-build.ts: the timing of a branch, from the context the caller  *)
(* passes along: the rule set's delta and the session's deadline.          *)
BranchLock(branch) ==
    CASE branch.kind = "timeout" -> relativeBlocks(decision)
      [] branch.kind = "recovery" -> absoluteHeight(st.recovery_deadline)
      [] branch.kind = "cooperative" -> Null

-----------------------------------------------------------------------------
(* tx-orchestrator.ts: a branch as an unsigned transaction, or Null where  *)
(* the builder throws.                                                     *)

Tx(kind, action, sequence, lockTime) ==
    [version |-> TX_VERSION, prev |-> base, kind |-> kind, action |-> action,
     sequence |-> sequence, lockTime |-> lockTime]

(* The action a fallback transaction stands for. *)
FallbackAction(type) ==
    [action_type |-> type, game_id |-> Game, round_number |-> 0, acting_player_seat |-> Null]

(* Fault: the low sixteen bits are taken without a check. *)
nSequenceWrapped(blocks) == blocks % 65536

nSequenceForBlocks(blocks) == IF blocks \in 0 .. 65535 THEN blocks % 65536 ELSE Null

buildCooperativeTx(action) == Tx("cooperative", action, SEQUENCE_FINAL, 0)

buildTimeoutTx(branch) ==
    LET lock == BranchLock(branch)
    IN  IF lock = Null THEN Null
        ELSE IF nSequenceForBlocks(lock.blocks_since_input_confirmation) = Null THEN Null
        ELSE Tx("timeout", FallbackAction(branch.action_type),
                nSequenceForBlocks(lock.blocks_since_input_confirmation), 0)

buildRecoveryTx(branch) ==
    LET height == BranchLock(branch).not_before_height
    IN  IF height >= UnixTimestamps THEN Null
        ELSE Tx("recovery", FallbackAction(branch.action_type), SEQUENCE_FINAL - 1, height)

(* The transactions the seated players sign beforehand. *)
PresignedGraph(s) ==
    {IF b.kind = "timeout" THEN buildTimeoutTx(b) ELSE buildRecoveryTx(b) :
        b \in {b \in enumerateFallbackGraph(s) : b.kind # "cooperative"}} \ {Null}

(* timeout.ts. *)

(* Fault: a deadline counts only once it is over. *)
eligibilityLate(s, height) ==
    [canCooperate |-> s.allowed_actions # {},
     canTimeout |-> s.decision_deadline # Null /\ height > s.decision_deadline,
     canRecover |-> height > s.recovery_deadline]

eligibility(s, height) ==
    [canCooperate |-> s.allowed_actions # {},
     canTimeout |-> s.decision_deadline # Null /\ height >= s.decision_deadline,
     canRecover |-> height >= s.recovery_deadline]

-----------------------------------------------------------------------------
(* ordering.ts and tools/tx-simulator: which of the competing transactions *)
(* an observer follows.  Transaction ids are compared as strings: the rank *)
(* of the kind stands for the order of the ids.                            *)

TxId(tx) == CASE tx.kind = "timeout" -> 1 [] tx.kind = "cooperative" -> 2 [] OTHER -> 3

(* Fault: the quorum before the block. *)
pickQuorumFirst(a, b) ==
    IF a.observed_by_quorum # b.observed_by_quorum
    THEN IF a.observed_by_quorum THEN a ELSE b
    ELSE IF a.confirmed_in_block # b.confirmed_in_block
    THEN IF a.confirmed_in_block THEN a ELSE b
    ELSE IF TxId(a.tx) < TxId(b.tx) THEN a ELSE b

pickConflictWinner(a, b) ==
    IF a.confirmed_in_block # b.confirmed_in_block
    THEN IF a.confirmed_in_block THEN a ELSE b
    ELSE IF a.observed_by_quorum # b.observed_by_quorum
    THEN IF a.observed_by_quorum THEN a ELSE b
    ELSE IF TxId(a.tx) < TxId(b.tx) THEN a ELSE b

(* best[k] is the winner among the first k; the first candidate with its   *)
(* id is the answer.                                                       *)
resolveConflict(candidates) ==
    LET n == Len(candidates)
        best[k \in 1 .. n] ==
            IF k = 1 THEN candidates[1] ELSE pickConflictWinner(best[k - 1], candidates[k])
    IN  candidates[Min({i \in 1 .. n : TxId(candidates[i].tx) = TxId(best[n].tx)})]

-----------------------------------------------------------------------------
(* The chain. *)

Keys == [i \in DOMAIN st.players |-> st.players[i].pubkey]
AllPresigned == presigned = Range(Keys)

(* A block of this height may include the transaction: its lock time is    *)
(* past unless its input is final, and its input is old enough unless the  *)
(* sequence has the disable flag, its sign.                                *)
Final(tx, height) ==
    /\ \/ tx.sequence = SEQUENCE_FINAL
       \/ tx.lockTime < UnixTimestamps /\ tx.lockTime < height
       \/ tx.lockTime >= UnixTimestamps
    /\ tx.sequence >= 0 => height >= base + tx.sequence

(* The state's output is locked by the table-root template; the witness is *)
(* the signature of every key that signed this transaction.                *)
SignersOf(tx) == IF tx.kind = "cooperative" THEN Range(Keys) ELSE presigned
Witness(tx) == [i \in 0 .. Len(Keys) |->
                  IF i = 0 \/ Keys[i] \notin SignersOf(tx) THEN Bool(FALSE) ELSE Sig(Keys[i], tx)]
Mineable(tx, height) ==
    /\ Final(tx, height)
    /\ Spends(buildTableRoot(Keys), [i \in 1 .. Len(Keys) + 1 |-> Witness(tx)[i - 1]], tx)

-----------------------------------------------------------------------------
FallbackInit ==
    /\ \E h \in RecoveryChoices, opening \in Openings :
          st = ReplayFrom([initialState EXCEPT !.recovery_deadline = h], opening)
    /\ st # Null
    /\ decision \in DecisionChoices
    /\ tip = 1 /\ base = 1
    /\ presigned = {} /\ mempool = {} /\ seen = << >>
    /\ evictions = 0 /\ ended = FALSE

Presign(key) ==
    /\ ~ended
    /\ key \in Range(Keys) \ presigned
    /\ presigned' = presigned \cup {key}
    /\ UNCHANGED <<st, decision, tip, base, mempool, seen, evictions, ended>>

(* A caller may stamp the deadline that the timeout transaction has. *)
Stamp ==
    /\ StampDeadline(base + decision)
    /\ ~ended
    /\ UNCHANGED <<decision, tip, base, presigned, mempool, seen, evictions, ended>>

Candidate(tx) == [tx |-> tx, observed_by_quorum |-> FALSE, confirmed_in_block |-> FALSE]

(* Mempool.add: the candidates of an output that is already spent go.      *)
(* Those seen all compete for the same output.                             *)
Competing == IF \E i \in DOMAIN seen : seen[i].tx.prev # base THEN << >> ELSE seen

Add(tx) ==
    /\ ~ended
    /\ tx \notin mempool
    /\ \A i \in DOMAIN seen : seen[i].tx.prev = base => seen[i].tx # tx
    /\ mempool' = mempool \cup {tx}
    /\ seen' = Append(Competing, Candidate(tx))
    /\ UNCHANGED <<st, decision, tip, base, presigned, evictions, ended>>

(* The players agree on one successor of a state and all sign it; that the *)
(* seats sign two different successors of one state is left out.           *)
Propose(a) ==
    /\ a.action_type \notin {"Timeout", "Recovery"}
    /\ Accepts(st, a, tip)
    /\ st.allowed_actions # {}
    /\ \A i \in DOMAIN seen : seen[i].tx.prev = base => seen[i].tx.kind # "cooperative"
    /\ Add(buildCooperativeTx(a))

BroadcastFallback(tx) == AllPresigned /\ tx \in PresignedGraph(st) /\ Add(tx)

ObserveQuorum(i) ==
    /\ seen[i].tx \in mempool
    /\ ~seen[i].observed_by_quorum
    /\ seen' = [seen EXCEPT ![i].observed_by_quorum = TRUE]
    /\ UNCHANGED <<st, decision, tip, base, presigned, mempool, evictions, ended>>

(* Mempool.evict. *)
Evict(tx) ==
    /\ evictions < MaxEvictions
    /\ mempool' = mempool \ {tx}
    /\ evictions' = evictions + 1
    /\ UNCHANGED <<st, decision, tip, base, presigned, seen, ended>>

(* Fault: only what the quorum has seen is sent again. *)
rebroadcastObserved(c) ==
    /\ ~ended
    /\ c.tx.prev = base
    /\ c.observed_by_quorum
    /\ c.tx \notin mempool
    /\ mempool' = mempool \cup {c.tx}
    /\ UNCHANGED <<st, decision, tip, base, presigned, seen, evictions, ended>>

rebroadcastIfEvicted(c) ==
    /\ ~ended
    /\ c.tx.prev = base
    /\ c.tx \notin mempool
    /\ mempool' = mempool \cup {c.tx}
    /\ UNCHANGED <<st, decision, tip, base, presigned, seen, evictions, ended>>

(* A block without a transaction of this table. *)
Tick ==
    /\ ~ended
    /\ tip < MaxTip
    /\ tip' = tip + 1
    /\ UNCHANGED <<st, decision, base, presigned, mempool, seen, evictions, ended>>

MarkConfirmed(tx) ==
    [i \in DOMAIN seen |-> IF seen[i].tx = tx THEN [seen[i] EXCEPT !.confirmed_in_block = TRUE]
                           ELSE seen[i]]

(* A transaction leads to a next state if it is the cooperative successor, *)
(* or a timeout that the engine, told of it at the height of the chain it  *)
(* extends, accepts.                                                       *)
Follows(tx) ==
    \/ tx.kind = "cooperative"
    \/ tx.kind = "timeout" /\ Accepts(st, tx.action, tip)

(* A block with such a transaction: the next state's output replaces this  *)
(* one, and has fallback transactions of its own.                          *)
ConfirmSuccessor(tx) ==
    /\ Follows(tx)
    /\ tip < MaxTip
    /\ Mineable(tx, tip + 1)
    /\ st' = Successor(st, tx.action)
    /\ tip' = tip + 1
    /\ base' = tip + 1
    /\ presigned' = {} /\ mempool' = {}
    /\ seen' = MarkConfirmed(tx)
    /\ UNCHANGED <<decision, evictions, ended>>

(* A block with a recovery ends the session; so does one with a timeout    *)
(* that the engine does not accept, in a state in which only the graph has *)
(* one or before the deadline that was stamped: no state follows it.       *)
ConfirmFallback(tx) ==
    /\ ~Follows(tx)
    /\ Mineable(tx, tip + 1)
    /\ st' = IF Accepts(st, tx.action, tip) THEN Successor(st, tx.action) ELSE st
    /\ tip' = tip + 1
    /\ mempool' = {} /\ seen' = MarkConfirmed(tx)
    /\ ended' = TRUE
    /\ UNCHANGED <<decision, base, presigned, evictions>>

FallbackNext ==
    \/ \E key \in Pubkeys : Presign(key)
    \/ Stamp
    \/ \E a \in AllActions : Propose(a)
    \/ \E tx \in PresignedGraph(st) : BroadcastFallback(tx)
    \/ \E i \in DOMAIN seen : ObserveQuorum(i)
    \/ \E tx \in mempool : Evict(tx)
    \/ \E i \in DOMAIN seen : rebroadcastIfEvicted(seen[i])
    \/ Tick
    \/ \E tx \in mempool : ConfirmSuccessor(tx) \/ ConfirmFallback(tx)

(* Blocks keep coming, a holder of a signed fallback transaction sends it  *)
(* and sends it again (rebroadcastIfEvicted), and a miner includes it.     *)
(* Nothing is assumed of players: who has signed may stay silent.          *)
FallbackFairness ==
    /\ WF_fvars(Tick)
    /\ WF_fvars(\E tx \in PresignedGraph(st) : BroadcastFallback(tx))
    /\ WF_fvars(\E i \in DOMAIN seen : rebroadcastIfEvicted(seen[i]))
    /\ WF_fvars(\E tx \in mempool : ConfirmFallback(tx))

FallbackSpec == FallbackInit /\ [][FallbackNext]_fvars /\ FallbackFairness

-----------------------------------------------------------------------------
(* buildTimeoutTx, buildRecoveryTx: no fallback transaction is confirmed   *)
(* before its gate nor without the signature of every seated player,       *)
(* whether the session ends with it or a next state follows; in            *)
(* particular a delta that does not fit nSequence, or a height that reads  *)
(* as a time, does not mature early.                                       *)
NoEarlyFallback ==
    [][\A tx \in mempool : tip' # tip /\ seen' # seen /\ seen' = MarkConfirmed(tx) =>
          /\ tx.kind = "timeout" => AllPresigned /\ tip' >= base + decision
          /\ tx.kind = "recovery" => AllPresigned /\ tip' > st.recovery_deadline]_fvars

(* eligibility, applyTimeout and applyRecovery against the chain: what the *)
(* engine calls eligible at the tip a signed transaction can do in the     *)
(* next block, and for the recovery the converse holds as well.  A         *)
(* timeout's deadline must be the one stamped on this very state: no       *)
(* handler takes it off when the state is left.                            *)
EligibleIsSpendable ==
    \A tx \in PresignedGraph(st) : AllPresigned =>
        /\ tx.kind = "recovery" =>
              (eligibility(st, tip).canRecover <=> Mineable(tx, tip + 1))
        /\ tx.kind = "timeout" /\ st.decision_deadline = base + decision =>
              (eligibility(st, tip).canTimeout => Mineable(tx, tip + 1))

(* resolveConflict: whatever order an observer saw the transactions in,    *)
(* it follows the same one, and the confirmed one once there is one.       *)
ObserversAgree ==
    seen # << >> =>
        /\ \A order \in SetToSeqs(Range(seen)) : resolveConflict(order) = resolveConflict(seen)
        /\ \A i \in DOMAIN seen : seen[i].confirmed_in_block => resolveConflict(seen) = seen[i]

(* Dead-man rule: once every seated player has signed the fallback         *)
(* transactions of a state, a recovery among them, its output is spent,    *)
(* whoever falls silent and whatever the mempool drops.                    *)
SignedIsReleased ==
    (AllPresigned /\ \E tx \in PresignedGraph(st) : tx.kind = "recovery")
        ~> (presigned = {} \/ ended)
=============================================================================
