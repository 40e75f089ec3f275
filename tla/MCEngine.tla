------------------------------ MODULE MCEngine ------------------------------
(* Small instances of Engine for TLC. *)
EXTENDS Engine

CONSTANTS k1, k2

(* Two-card decks: one card each; both with one key, one of them already   *)
(* out of play; and two malformed deals, a duplicate and a wrong position. *)
Card(p, k, l) == [position |-> p, holder |-> k, lifecycle |-> l]
MCDeals ==
    {<<Card(0, k1, "ASSIGNED_CONCEALED"), Card(1, k2, "ASSIGNED_CONCEALED")>>,
     <<Card(1, k2, "ASSIGNED_CONCEALED"), Card(0, k2, "REVEALED")>>,
     <<Card(0, k1, "ASSIGNED_CONCEALED"), Card(0, k2, "ASSIGNED_CONCEALED")>>,
     <<Card(0, k1, "ASSIGNED_CONCEALED"), Card(2, k2, "ASSIGNED_CONCEALED")>>,
     <<Card(0, k1, "ASSIGNED_CONCEALED")>>}

(* Ranks 0, 1 (the 14th card) and 2: equal, consecutive, between, outside. *)
MCOrdinals == {0, 2, 14}

MCSeatArgs == {Null, 0, 1, 2}
=============================================================================
