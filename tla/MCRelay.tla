------------------------------ MODULE MCRelay ------------------------------
(* Small instances of the relay daemon's Relay, Tracker and Reindex.  They *)
(* share no state, so each is explored on its own: the others stay in      *)
(* their initial states, where nothing of theirs is due.                   *)
EXTENDS Relay, Tracker, Reindex

VARIABLE part

mcVars == <<vars, trackerVars, reindexVars, part>>

MCInit ==
    /\ part \in {"connections", "tracker", "reindex"}
    /\ Init /\ TrackerInit /\ ReindexInit

MCNext ==
    \/ part = "connections" /\ Next /\ UNCHANGED <<trackerVars, reindexVars, part>>
    \/ part = "tracker" /\ TrackerNext /\ UNCHANGED <<vars, reindexVars, part>>
    \/ part = "reindex" /\ ReindexNext /\ UNCHANGED <<vars, trackerVars, part>>

MCFairSpec == MCInit /\ [][MCNext]_mcVars /\ Fairness /\ TrackerFairness

-----------------------------------------------------------------------------
(* Two seats; the blocks hold their joins, the lock and, from the second   *)
(* block on, the recovery of the table.                                    *)
CONSTANT k1

JoinOf(seat) ==
    [action_type |-> "Join", game_id |-> Game, round_number |-> 0,
     acting_player_seat |-> seat, player_pubkey |-> k1, stake_amount |-> StakeAmount]
PlainOf(type) ==
    [action_type |-> type, game_id |-> Game, round_number |-> 0, acting_player_seat |-> 0]

MCBlockActions == {JoinOf(0), JoinOf(1), PlainOf("TableLock"), PlainOf("Recovery")}
=============================================================================
