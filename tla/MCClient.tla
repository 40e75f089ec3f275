------------------------------ MODULE MCClient ------------------------------
(* A small instance of Client for TLC: a table for one or two seats. *)
EXTENDS Client

CONSTANTS k1, e1, h1

MCPageKey == [seat \in {0} |-> k1]
MCPlayerId == [k \in {k1} |-> 1]
MCShuffle == [seed \in UNION {[1 .. n -> {e1}] : n \in 1 .. 2} |-> <<0, 2, 4>>]
=============================================================================
