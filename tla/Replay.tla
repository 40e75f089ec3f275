------------------------------- MODULE Replay -------------------------------
(***************************************************************************)
(* Deterministic replay, pkg/engine/replay.go: a list of entries, each an  *)
(* action and the height it is evaluated at, folded through the engine.    *)
(* The first rejected action ends the replay with an error, here Null.     *)
(***************************************************************************)
EXTENDS EngineOps, SequencesExt

ReplayStep(s, entry) ==
    IF s # Null /\ Accepts(s, entry.action, entry.height)
    THEN Successor(s, entry.action)
    ELSE Null

(* after[k] is the state once k entries are applied. *)
ReplayFrom(s, entries) ==
    LET after[k \in 0 .. Len(entries)] ==
            IF k = 0 THEN s ELSE ReplayStep(after[k - 1], entries[k])
    IN  after[Len(entries)]
=============================================================================
