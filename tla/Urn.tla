-------------------------------- MODULE Urn --------------------------------
(***************************************************************************)
(* What a fair deal promises, without saying how it is computed: the cards *)
(* are drawn one after the other from an urn that holds each of them once. *)
(***************************************************************************)
EXTENDS Sequences

CONSTANT Cards

VARIABLES urn, drawn

Init == urn = Cards /\ drawn = << >>

Draw(card) ==
    /\ card \in urn
    /\ urn' = urn \ {card}
    /\ drawn' = Append(drawn, card)

Next == \E card \in urn : Draw(card)

Spec == Init /\ [][Next]_<<urn, drawn>>
=============================================================================
