----------------------------- MODULE Templates -----------------------------
(***************************************************************************)
(* Who can spend an output of the script templates.  A spender who holds   *)
(* some signatures and preimages puts a witness together, element by       *)
(* element and in any order; the state is the output's template and the    *)
(* witness so far.  Two keys: P is the player (acting player, holder,      *)
(* winner), O the other party (operator, counterparty, funder).            *)
(***************************************************************************)
EXTENDS Script

CONSTANT MaxWitness     \* the longest witness tried

ASSUME TemplatesAssumption == MaxWitness \in Nat

VARIABLES template, witness

Locks ==
    [table_root |-> buildTableRoot(<<"P", "O">>),
     stake_lock |-> buildStakeLock("P", "O", "H"),
     pot_lock |-> buildPotLock(<<"P", "O">>, "H", "P", "O"),
     entropy_commit |-> buildEntropyCommit("H", "P", <<"O">>),
     entropy_commit_alone |-> buildEntropyCommit("H", "P", << >>),
     card_custody |-> buildCardCustody("H", "P", "O"),
     round_state |-> buildRoundState("H", "T", "P", <<"P", "O">>),
     timeout_branch |-> buildTimeoutBranch("T", <<"P", "O">>),
     recovery |-> buildRecoveryBranchTemplate("P"),
     fold_surrender |-> buildFoldSurrender("O"),
     settle_claim |-> buildSettleClaimScript("H", "P"),
     reveal_proof |-> buildRevealProofScript("H", "P")]

(* What a spender may push; signatures are over this transaction, or one   *)
(* over another transaction is replayed.                                   *)
Elements == {Sig("P", "tx"), Sig("O", "tx"), Sig("O", "other"), Preimage("H"), Preimage("T"),
             Bool(TRUE), Bool(FALSE)}

TemplatesInit == template \in DOMAIN Locks /\ witness = << >>

(* What an exit asks for: the body its branch is given, and the selectors  *)
(* on top of it that lead the script's IFs into that branch.               *)
Exit(body, selectors) == [body |-> body, selectors |-> selectors]

Quorum == <<Bool(FALSE), Sig("P", "tx"), Sig("O", "tx")>>
Alone(key) == <<Sig(key, "tx")>>
First == <<Bool(TRUE)>>
Second == <<Bool(TRUE), Bool(FALSE)>>
Third == <<Bool(FALSE), Bool(FALSE)>>

(* The exits of each template, branch by branch as the file headers and    *)
(* the branch tables list them.  The tables also give a lock time to each  *)
(* branch: that is a field of the spending transaction, which no script    *)
(* reads, so that it is no part of what a script asks for.  table_root's   *)
(* two listed exits differ in it alone.  The fallback of entropy_commit    *)
(* is listed but cannot be taken where there are no counterparties.        *)
Branches ==
    [table_root |-> {Exit(Quorum, << >>)},
     stake_lock |-> {Exit(Quorum, First), Exit(Alone("P") \o <<Preimage("H")>>, Second),
                     Exit(Alone("P"), Third)},
     pot_lock |-> {Exit(Quorum, First), Exit(Alone("P") \o <<Preimage("H")>>, Second),
                   Exit(Alone("O"), Third)},
     entropy_commit |-> {Exit(Alone("P") \o <<Preimage("H")>>, First),
                         Exit(<<Bool(FALSE)>> \o Alone("O"), Second), Exit(Alone("P"), Third)},
     entropy_commit_alone |-> {Exit(Alone("P") \o <<Preimage("H")>>, First),
                               Exit(Alone("P"), Third)},
     card_custody |-> {Exit(Alone("P") \o <<Preimage("H")>>, First), Exit(Alone("P"), Second),
                       Exit(Alone("O"), Third)},
     round_state |-> {Exit(Alone("P") \o <<Preimage("H")>>, First),
                      Exit(Quorum \o <<Preimage("T")>>, Second), Exit(Quorum, Third)},
     timeout_branch |-> {Exit(Quorum \o <<Preimage("T")>>, << >>)},
     recovery |-> {Exit(Alone("P"), << >>)},
     fold_surrender |-> {Exit(Alone("O"), << >>)},
     settle_claim |-> {Exit(Alone("P") \o <<Preimage("H")>>, << >>)},
     reveal_proof |-> {Exit(Alone("P") \o <<Preimage("H")>>, << >>)}]

(* Longer witnesses only add elements below those a branch reaches. *)
Longest(t) == Max({Len(e.body) + Len(e.selectors) : e \in Branches[t]}) + 1

PushElement(x) ==
    /\ Len(witness) < MaxWitness /\ Len(witness) < Longest(template)
    /\ witness' = Append(witness, x)
    /\ UNCHANGED template

TemplatesNext == \E x \in Elements : PushElement(x)

TemplatesSpec == TemplatesInit /\ [][TemplatesNext]_<<template, witness>>

-----------------------------------------------------------------------------
(* The witness takes this exit's branch: its topmost elements lead the IFs *)
(* where the selectors do.  A signature or a preimage also counts as true. *)
Takes(e) ==
    LET n == Len(e.selectors)
    IN  /\ Len(witness) >= n
        /\ \A i \in 1 .. n : Truthy(Top(witness, n - i)) <=> Truthy(e.selectors[i])

(* Below the selectors it holds every signature and preimage of the exit.  *)
Holds(e) ==
    \A i \in DOMAIN e.body :
        e.body[i] = Bool(FALSE) \/ e.body[i] \in Range(Pop(witness, Len(e.selectors)))

(* Whoever spends an output takes the branch of a listed exit and holds    *)
(* what that very exit asks for: no order of the elements, and no mix of   *)
(* two branches, gets past the nested IFs of the templates.  A claim needs *)
(* its preimage even where the same key could take the refund instead.     *)
OnlyDocumentedExits ==
    Spends(Locks[template], witness, "tx") =>
        \E e \in Branches[template] : Takes(e) /\ Holds(e)

(* Every exit a template lists is open: with the selectors its script asks *)
(* for, signatures and preimages spend the output, so that no fallback of  *)
(* a session is locked in.                                                 *)
ExitsAreOpen ==
    \A e \in Branches[template] :
        witness = e.body \o e.selectors => Spends(Locks[template], witness, "tx")

(* The witnesses that spec/script-templates.md spells out, top last.       *)
DocumentedWitnesses ==
    [table_root |-> {Quorum},
     stake_lock |-> {Quorum \o <<Bool(TRUE)>>,
                     Alone("P") \o <<Preimage("H"), Bool(FALSE), Bool(TRUE)>>,
                     Alone("P") \o <<Bool(FALSE), Bool(FALSE)>>}]

(* spec/script-templates.md:72 gives the witness of stake-lock's winner    *)
(* claim as "<player_sig> <settlement_preimage> OP_0 OP_1".                *)
DocumentedWitnessesSpend ==
    template \in DOMAIN DocumentedWitnesses /\ witness \in DocumentedWitnesses[template]
        => Spends(Locks[template], witness, "tx")
=============================================================================
