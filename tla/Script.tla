------------------------------- MODULE Script -------------------------------
(***************************************************************************)
(* The locking scripts of packages/script-templates and what it takes to   *)
(* satisfy them.  A script is the sequence of tokens a builder writes;     *)
(* their byte encoding (writer.ts) is left out.  Spends evaluates a script *)
(* the way the chain does, on the stack a spender provides.                *)
(*                                                                         *)
(* Tokens and stack elements are tagged pairs: an opcode, a number, a key, *)
(* a hash, a preimage (named by its hash) or a signature, which is the key *)
(* that made it and the transaction digest it is over.                     *)
(***************************************************************************)
EXTENDS Integers, Sequences, SequencesExt

op(name) == <<"op", name>>
pushNumber(n) == <<"num", n>>
pushPubkey(key) == <<"key", key>>
pushHash32(hash) == <<"hash", hash>>
Sig(key, digest) == <<"sig", <<key, digest>>>>
Preimage(hash) == <<"pre", hash>>
Bool(b) == <<"num", IF b THEN 1 ELSE 0>>

MaxKeys == 16

-----------------------------------------------------------------------------
(* The bodies the templates are put together from. *)

(* n-of-n. *)
MultisigBody(keys) ==
    <<pushNumber(Len(keys))>> \o [i \in DOMAIN keys |-> pushPubkey(keys[i])]
      \o <<pushNumber(Len(keys)), op("CHECKMULTISIG")>>

SigBody(key) == <<pushPubkey(key), op("CHECKSIG")>>

PreimageBody(hash, body) == <<op("HASH"), pushHash32(hash), op("EQUALVERIFY")>> \o body

Either(body, other) == <<op("IF")>> \o body \o <<op("ELSE")>> \o other \o <<op("ENDIF")>>

-----------------------------------------------------------------------------
(* The templates.  A builder with no key, or too many, throws. *)

Buildable(keys) == Len(keys) \in 1 .. MaxKeys

buildTableRoot(seated) == MultisigBody(seated)

(* Fault: the winner claim does not check its preimage. *)
buildStakeLockUnproved(player, operator, settlement) ==
    Either(MultisigBody(<<player, operator>>), Either(SigBody(player), SigBody(player)))

buildStakeLock(player, operator, settlement) ==
    Either(MultisigBody(<<player, operator>>),
           Either(PreimageBody(settlement, SigBody(player)), SigBody(player)))

buildPotLock(seated, proof, winner, refund) ==
    Either(MultisigBody(seated), Either(PreimageBody(proof, SigBody(winner)), SigBody(refund)))

(* Without counterparties the fallback branch cannot be satisfied. *)
buildEntropyCommit(commitment, player, others) ==
    Either(PreimageBody(commitment, SigBody(player)),
           Either(IF others = << >> THEN <<op("RETURN")>> ELSE MultisigBody(others),
                  SigBody(player)))

buildCardCustody(face, holder, funder) ==
    Either(PreimageBody(face, SigBody(holder)), Either(SigBody(holder), SigBody(funder)))

(* Fault: the inner IF is left out, so that the two bodies run in a row.   *)
buildRoundStateLoose(successor, timeout, acting, seated) ==
    Either(PreimageBody(successor, SigBody(acting)),
           PreimageBody(timeout, MultisigBody(seated)) \o SigBody(acting))

buildRoundState(successor, timeout, acting, seated) ==
    Either(PreimageBody(successor, SigBody(acting)),
           Either(PreimageBody(timeout, MultisigBody(seated)), MultisigBody(seated)))

buildTimeoutBranch(timeout, authorisers) == PreimageBody(timeout, MultisigBody(authorisers))

buildRecoveryBranchTemplate(signer) == SigBody(signer)

buildFoldSurrender(funder) == SigBody(funder)

buildSettleClaimScript(settlement, winner) == PreimageBody(settlement, SigBody(winner))

buildRevealProofScript(card, signer) == PreimageBody(card, SigBody(signer))

-----------------------------------------------------------------------------
(* Evaluation.  A stack has its top last; a token leads to one stack, or   *)
(* to none where the chain fails the script.                               *)

Top(s, n) == s[Len(s) - n]
Pop(s, n) == SubSeq(s, 1, Len(s) - n)
Replace(s, n, x) == Append(Pop(s, n), x)
Truthy(x) == x[1] # "num" \/ x[2] # 0
Same(x, y) == x[1] = y[1] /\ x[2] = y[2]
HashOf(x) == IF x[1] = "pre" THEN pushHash32(x[2]) ELSE <<"image", x>>

(* From the top: the number of keys, the keys, the number of signatures,   *)
(* the signatures and an element that is not used.  Signatures are in the  *)
(* order of their keys.                                                    *)
CheckMultisig(s, digest) ==
    LET n == Top(s, 0)[2]
        k == Top(s, n + 1)[2]
        key(i) == Top(s, n + 1 - i)[2]
        sig(i) == Top(s, n + k + 2 - i)
        Ascending == {f \in [1 .. k -> 1 .. n] : \A i \in 2 .. k : f[i - 1] < f[i]}
    IN  IF Len(s) < n + k + 3 THEN {}
        ELSE {Replace(s, n + k + 3,
                Bool(\E f \in Ascending : \A i \in 1 .. k : Same(sig(i), Sig(key(f[i]), digest))))}

Apply(s, token, digest) ==
    CASE token[1] # "op" -> {Append(s, token)}
      [] token = op("RETURN") -> {}
      [] token = op("HASH") -> IF Len(s) < 1 THEN {} ELSE {Replace(s, 1, HashOf(Top(s, 0)))}
      [] token = op("EQUALVERIFY") ->
           IF Len(s) < 2 \/ ~Same(Top(s, 0), Top(s, 1)) THEN {} ELSE {Pop(s, 2)}
      [] token = op("CHECKSIG") ->
           IF Len(s) < 2 THEN {}
           ELSE {Replace(s, 2, Bool(Same(Top(s, 1), Sig(Top(s, 0)[2], digest))))}
      [] token = op("CHECKMULTISIG") -> CheckMultisig(s, digest)

(* An evaluation also holds the conditions of the IFs it is inside of; it  *)
(* skips what is in a branch not taken.                                    *)
Evaluation(stack, conds) == [stack |-> stack, conds |-> conds]
Runs(m) == \A i \in DOMAIN m.conds : m.conds[i]

Exec(m, token, digest) ==
    CASE token = op("IF") ->
           IF ~Runs(m) THEN {Evaluation(m.stack, Append(m.conds, FALSE))}
           ELSE IF Len(m.stack) < 1 THEN {}
           ELSE {Evaluation(Pop(m.stack, 1), Append(m.conds, Truthy(Top(m.stack, 0))))}
      [] token = op("ELSE") -> {Evaluation(m.stack, Append(Pop(m.conds, 1), ~Top(m.conds, 0)))}
      [] token = op("ENDIF") -> {Evaluation(m.stack, Pop(m.conds, 1))}
      [] token \notin {op("IF"), op("ELSE"), op("ENDIF")} ->
           IF Runs(m) THEN {Evaluation(s, m.conds) : s \in Apply(m.stack, token, digest)} ELSE {m}

(* after[k] holds the evaluations once k tokens are executed. *)
Evaluate(script, starts, digest) ==
    LET after[k \in 0 .. Len(script)] ==
            IF k = 0 THEN starts ELSE UNION {Exec(m, script[k], digest) : m \in after[k - 1]}
    IN  after[Len(script)]

(* A witness satisfies a script for a transaction. *)
Spends(script, witness, digest) ==
    \E m \in Evaluate(script, {Evaluation(witness, << >>)}, digest) :
        Len(m.stack) >= 1 /\ Truthy(Top(m.stack, 0))
=============================================================================
