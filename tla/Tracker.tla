------------------------------ MODULE Tracker ------------------------------
(***************************************************************************)
(* The mempool-eviction policy of internal/chain/mempool.go: a relayed     *)
(* transaction that is neither confirmed nor in the mempool is broadcast   *)
(* again, RebroadcastMax times at most; then a recovery is recommended.    *)
(*                                                                         *)
(* Around the tracker stands the chain it polls (external): transactions   *)
(* are mined, evicted, and thrown out of the chain by a reorganisation.    *)
(* The relay's single poll loop carries out each event before it polls     *)
(* again; a broadcast may or may not get into the mempool.                 *)
(***************************************************************************)
EXTENDS Naturals

CONSTANTS TxIds,
          RebroadcastMax    \* relay_rebroadcast_max; NewTracker replaces one below 1

ASSUME TrackerAssumption == RebroadcastMax \in Nat \ {0}

VARIABLES
    status,         \* status[tx]: where the transaction really is
    tracked,        \* the transactions in Tracker.txs
    confirmed,      \* the fields of tracked, per transaction
    rebroadcasts,
    exhausted,
    recommended     \* how often a recovery was recommended for it

trackerVars == <<status, tracked, confirmed, rebroadcasts, exhausted, recommended>>

Statuses == {"InMempool", "Confirmed", "NotInMempool"}

TrackerTypeOK ==
    /\ status \in [TxIds -> Statuses]
    /\ tracked \subseteq TxIds
    /\ confirmed \subseteq tracked
    /\ rebroadcasts \in [TxIds -> 0 .. RebroadcastMax]
    /\ exhausted \subseteq tracked
    /\ recommended \in [TxIds -> 0 .. 1]

TrackerInit ==
    /\ status = [tx \in TxIds |-> "NotInMempool"]
    /\ tracked = {}
    /\ confirmed = {}
    /\ rebroadcasts = [tx \in TxIds |-> 0]
    /\ exhausted = {}
    /\ recommended = [tx \in TxIds |-> 0]

(* What a broadcast does to a transaction that is nowhere. *)
Sent(tx) == \E s \in {"InMempool", "NotInMempool"} : status' = [status EXCEPT ![tx] = s]

-----------------------------------------------------------------------------
(* Relay broadcasts and starts to track; relaying a tracked transaction    *)
(* again leaves its record alone.                                          *)
Relay(tx) ==
    /\ IF status[tx] = "NotInMempool" THEN Sent(tx) ELSE UNCHANGED status
    /\ tracked' = tracked \cup {tx}
    /\ UNCHANGED <<confirmed, rebroadcasts, exhausted, recommended>>

ObserveConfirmed(tx) ==
    /\ tx \in tracked
    /\ status[tx] = "Confirmed"
    /\ confirmed' = confirmed \cup {tx}
    /\ UNCHANGED <<status, tracked, rebroadcasts, exhausted, recommended>>

(* Fault: a transaction that was given up is taken up again. *)
MissingUnlessConfirmed(tx) ==
    /\ tx \in tracked
    /\ status[tx] = "NotInMempool"
    /\ tx \notin confirmed

(* An eviction is acted on unless the transaction was once confirmed or    *)
(* has already been given up.                                              *)
Missing(tx) ==
    /\ tx \in tracked
    /\ status[tx] = "NotInMempool"
    /\ tx \notin confirmed \cup exhausted

ObserveEvicted(tx) ==
    /\ Missing(tx)
    /\ rebroadcasts[tx] < RebroadcastMax
    /\ rebroadcasts' = [rebroadcasts EXCEPT ![tx] = @ + 1]
    /\ Sent(tx)
    /\ UNCHANGED <<tracked, confirmed, exhausted, recommended>>

(* Fault: a recommendation is not remembered. *)
ObserveLostForgetful(tx) ==
    /\ Missing(tx)
    /\ rebroadcasts[tx] >= RebroadcastMax
    /\ recommended' = [recommended EXCEPT ![tx] = @ + 1]
    /\ UNCHANGED <<status, tracked, confirmed, rebroadcasts, exhausted>>

(* Fault: one attempt more than are ever made is waited for. *)
ObserveLostLate(tx) ==
    /\ Missing(tx)
    /\ rebroadcasts[tx] > RebroadcastMax
    /\ exhausted' = exhausted \cup {tx}
    /\ recommended' = [recommended EXCEPT ![tx] = @ + 1]
    /\ UNCHANGED <<status, tracked, confirmed, rebroadcasts>>

ObserveLost(tx) ==
    /\ Missing(tx)
    /\ rebroadcasts[tx] >= RebroadcastMax
    /\ exhausted' = exhausted \cup {tx}
    /\ recommended' = [recommended EXCEPT ![tx] = @ + 1]
    /\ UNCHANGED <<status, tracked, confirmed, rebroadcasts>>

(* Observe.  In the mempool, untracked, or settled: nothing to do. *)
Observe(tx) == ObserveConfirmed(tx) \/ ObserveEvicted(tx) \/ ObserveLost(tx)

-----------------------------------------------------------------------------
(* The chain. *)

Mine(tx) == status[tx] = "InMempool" /\ status' = [status EXCEPT ![tx] = "Confirmed"]
Evict(tx) == status[tx] = "InMempool" /\ status' = [status EXCEPT ![tx] = "NotInMempool"]
Dropped(tx) ==
    /\ status[tx] = "Confirmed"
    /\ \E s \in {"InMempool", "NotInMempool"} : status' = [status EXCEPT ![tx] = s]

Chain ==
    /\ \E tx \in TxIds : Mine(tx) \/ Evict(tx) \/ Dropped(tx)
    /\ UNCHANGED <<tracked, confirmed, rebroadcasts, exhausted, recommended>>

TrackerNext == (\E tx \in TxIds : Relay(tx) \/ Observe(tx)) \/ Chain

TrackerSpec == TrackerInit /\ [][TrackerNext]_trackerVars

(* The poll loop comes back to every transaction. *)
TrackerFairness == \A tx \in TxIds : WF_trackerVars(Observe(tx))

TrackerFairSpec == TrackerSpec /\ TrackerFairness

-----------------------------------------------------------------------------
(* Properties. *)

(* A recovery is recommended once, and only after all rebroadcasts have    *)
(* been spent on that transaction: relaying it again, confirmations,       *)
(* evictions and reorganisations in between notwithstanding.               *)
RecommendedWhenExhausted ==
    \A tx \in TxIds :
        /\ recommended[tx] = 1 <=> tx \in exhausted
        /\ tx \in exhausted => rebroadcasts[tx] = RebroadcastMax

(* A transaction that was given up stays given up: relaying it again, or   *)
(* its coming back to the mempool, costs no further broadcast and no       *)
(* second recommendation.                                                  *)
GivenUp(tx) ==
    tx \in exhausted =>
        /\ tx \in exhausted'
        /\ rebroadcasts'[tx] = rebroadcasts[tx]
        /\ recommended'[tx] = recommended[tx]

GivenUpIsFinal == [][\A tx \in TxIds : GivenUp(tx)]_trackerVars

(* A relayed transaction that is missing for good is followed up to the    *)
(* end: the poll loop either sees it confirmed or recommends a recovery.   *)
MissingIsFollowedUp ==
    \A tx \in TxIds :
        <>[](tx \in tracked /\ status[tx] = "NotInMempool")
            => <>(tx \in confirmed \/ recommended[tx] = 1)

(* spec/ordering-rules.md:84-85: "On detecting eviction (e.g. via          *)
(* tx_status -> not_in_mempool without a confirmation), re-broadcasting    *)
(* from its persistent store."  A relayed transaction that is missing for  *)
(* good is broadcast again at least once.                                  *)
EvictedIsRebroadcast ==
    \A tx \in TxIds :
        <>[](tx \in tracked /\ status[tx] = "NotInMempool") => <>(rebroadcasts[tx] > 0)
=============================================================================
