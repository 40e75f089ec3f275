------------------------------ MODULE Reindex ------------------------------
(***************************************************************************)
(* Reorganisation handling, internal/chain/reorg.go.  The indexer holds    *)
(* the chain it has indexed and the state that chain leads to; a new       *)
(* canonical chain is reindexed from the deepest common ancestor.          *)
(*                                                                         *)
(* A chain is a sequence of blocks, a block the sequence of table actions  *)
(* confirmed in it.  A block's hash stands for its content and all its     *)
(* ancestors, so it is the chain up to the block; its height is its place. *)
(***************************************************************************)
EXTENDS Replay

CONSTANTS BlockActions,     \* the actions that may be confirmed
          MaxBlocks,        \* bound: length of a chain
          MaxPerBlock       \* bound: actions in a block

ASSUME ReindexAssumption == MaxBlocks \in Nat /\ MaxPerBlock \in Nat

VARIABLES chain, indexed, orphaned

reindexVars == <<chain, indexed, orphaned>>

Blocks == UNION {[1 .. n -> BlockActions] : n \in 0 .. MaxPerBlock}
Chains == UNION {[1 .. n -> Blocks] : n \in 0 .. MaxBlocks}

Hash(c, i) == SubSeq(c, 1, i)

(* The number of blocks two chains share. *)
DeepestCommonAncestor(old, new) ==
    Max({i \in 0 .. Len(old) : i <= Len(new)
            /\ \A j \in 1 .. i : Hash(old, j) = Hash(new, j)})

(* The actions of blocks first .. last, with the heights of their blocks. *)
EntriesOf(c, height) ==
    [i \in DOMAIN c[height] |-> [action |-> c[height][i], height |-> height]]

flatten(c, first, last) ==
    LET upTo[height \in 0 .. last] ==
            IF height < first THEN << >> ELSE upTo[height - 1] \o EntriesOf(c, height)
    IN  upTo[last]

(* Fault: the new suffix is applied on top of the old state. *)
ReindexedOnTop(old, new) ==
    LET anc == DeepestCommonAncestor(old, new)
    IN  ReplayFrom(indexed, flatten(new, anc + 1, Len(new)))

(* Rewind to the ancestor, then forward-apply the rest. *)
Reindexed(old, new) ==
    LET anc == DeepestCommonAncestor(old, new)
    IN  ReplayFrom(ReplayFrom(initialState, flatten(new, 1, anc)),
                   flatten(new, anc + 1, Len(new)))

(* Fault: the first abandoned block is skipped. *)
OrphansAfterNext(old, new) ==
    flatten(old, DeepestCommonAncestor(old, new) + 2, Len(old))

Orphans(old, new) == flatten(old, DeepestCommonAncestor(old, new) + 1, Len(old))

ReindexInit == chain = << >> /\ indexed = initialState /\ orphaned = << >>

(* A chain with an action the engine rejects is refused as a whole. *)
Reorg(new) ==
    /\ Reindexed(chain, new) # Null
    /\ chain' = new
    /\ indexed' = Reindexed(chain, new)
    /\ orphaned' = Orphans(chain, new)

ReindexNext == \E new \in Chains : Reorg(new)

ReindexSpec == ReindexInit /\ [][ReindexNext]_reindexVars

-----------------------------------------------------------------------------
(* Properties. *)

Confirmed(c) == {e.action : e \in Range(flatten(c, 1, Len(c)))}

(* Whatever chains came before, the indexed state is the one a fresh       *)
(* indexer computes from the present chain: reorganisations leave no trace.*)
StateIsOfChain == indexed = ReplayFrom(initialState, flatten(chain, 1, Len(chain)))

(* No action gets lost in a reorganisation: what the old chain confirmed   *)
(* is confirmed in the new one or handed back for rebroadcast.             *)
NoActionLost ==
    [][Confirmed(chain) \subseteq Confirmed(chain') \cup {e.action : e \in Range(orphaned')}]_reindexVars

=============================================================================
