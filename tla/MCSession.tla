----------------------------- MODULE MCSession -----------------------------
(* A small instance of Session and Audit for TLC: two seats, joined in     *)
(* either order and with either key.                                       *)
EXTENDS Audit

CONSTANTS k1, k2, e1, e2, bad

MCPlayerId == [k \in {k1, k2} |-> IF k = k1 THEN 1 ELSE 2]

(* A compressed public key has 33 bytes. *)
MCKeyDigits == [k \in {k1, k2} |-> 66]

(* One commitment of each key, which the other key may copy, one that does *)
(* not decode and one whose text is in capital digits.                     *)
MCCapitals == {<<e1, 2>>}
MCHashes == {<<e1, 1>>, <<e2, 2>>, bad} \cup MCCapitals

(* The deck depends on the order of the seed. *)
Seeds == UNION {[1 .. n -> {e1, e2}] : n \in 1 .. PlayerCountMax}
MCShuffle == [seed \in Seeds |-> IF seed[1] = e1 THEN <<0, 1>> ELSE <<1, 2>>]
=============================================================================
