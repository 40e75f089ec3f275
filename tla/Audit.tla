------------------------------- MODULE Audit -------------------------------
(***************************************************************************)
(* Auditing a session from its transcript, in TypeScript: the gate         *)
(* verifyAndApply and the replay with verification of                      *)
(* packages/state-engine (verify.ts, replay.ts), and the command-line      *)
(* verifier of tools/transcript-verifier.  The transcript is the one the   *)
(* Go relay's Session has recorded so far, so the gate is held against an  *)
(* independent one: what the relay accepted, the auditor must accept.      *)
(*                                                                         *)
(* A verified state is a RoundState together with its combined_entropy.    *)
(***************************************************************************)
EXTENDS Session

CONSTANTS
    Capitals,       \* hashes and entropies spelled with capital hex digits,
                    \* which Go's decoder reads and the gate does not
    KeyDigits,      \* the number of hex digits of a public key
    ToolHeight      \* the height the verifier evaluates every action at

VerifiedStates ==
    [state : RoundStates, combined : Seq(Entropies \cup {Null}) \cup {Null}]

ASSUME AuditAssumption ==
    /\ ToolHeight \in Nat
    /\ Null \notin VerifiedStates

-----------------------------------------------------------------------------
(* The gate. *)

IsHex(text) == text \notin Malformed /\ text \notin Capitals

commitEntropy(entropy, playerId) == <<entropy, playerId>>

OpensAs(s, a) ==
    /\ IsHex(a.entropy)
    /\ \E i \in DOMAIN s.players :
          /\ s.players[i].seat = a.acting_player_seat
          /\ s.players[i].pubkey \notin Malformed
          /\ s.players[i].commitment = commitEntropy(a.entropy, PlayerId[s.players[i].pubkey])

cryptoGate(v, a) ==
    /\ a.action_type = "EntropyCommit" => IsHex(a.commitment_hash)
    /\ a.action_type = "EntropyReveal" => OpensAs(v.state, a)
    /\ a.action_type = "CardReveal" =>
          v.combined # Null /\ a.card \in Range(Shuffle[v.combined])

(* Fault: the deck is left to the caller. *)
materialiseNothing(v, next) == v.combined

(* The entropies are hashed one after the other. *)
combineEntropy(contributions) == contributions

(* Seats are distinct: the player with k - 1 seats below it comes k-th. *)
SortedBySeat(players) ==
    [k \in DOMAIN players |->
        CHOOSE p \in Range(players) :
            Cardinality({x \in {q.seat : q \in Range(players)} : x < p.seat}) = k - 1]

materialiseDeckCommitment(v, next) ==
    IF /\ v.state.state_class = "S4_ENTROPY_REVEAL_WINDOW"
       /\ next.state_class = "S5_DECK_COMMITTED"
       /\ v.combined = Null
    THEN combineEntropy([i \in DOMAIN next.players |-> SortedBySeat(next.players)[i].entropy])
    ELSE v.combined

verifyAndApply(v, a, height) ==
    IF cryptoGate(v, a) /\ Accepts(v.state, a, height)
    THEN LET next == Successor(v.state, a)
         IN  [state |-> next, combined |-> materialiseDeckCommitment(v, next)]
    ELSE Null

-----------------------------------------------------------------------------
(* Replay over a list of heights, which may be shorter than the actions. *)

(* Fault: the first height is reused. *)
HeightAtFirst(heights, i) ==
    IF i \in DOMAIN heights THEN heights[i]
    ELSE IF heights = << >> THEN Null ELSE heights[1]

HeightAt(heights, i) ==
    IF i \in DOMAIN heights THEN heights[i]
    ELSE IF heights = << >> THEN Null ELSE Last(heights)

Start == [state |-> initialState, combined |-> Null]

AuditStep(v, a, height) ==
    IF v = Null \/ height = Null THEN Null ELSE verifyAndApply(v, a, height)

replayWithVerification(actions, heights) ==
    LET after[i \in 0 .. Len(actions)] ==
            IF i = 0 THEN Start
            ELSE AuditStep(after[i - 1], actions[i], HeightAt(heights, i))
    IN  after[Len(actions)]

-----------------------------------------------------------------------------
(* The command-line verifier: every action at one height, then a summary   *)
(* with the hash of the final state.  Hashing encodes each player's id,    *)
(* which Join copied from the public key, as 32 bytes of 64 digits.        *)
(*                                                                         *)
(* The verifier brings a rule set of its own, the defaults; here it is the *)
(* relay's, so what is shown holds of relays run with these defaults.  One *)
(* started with another --stake, --min-bet or --max-bet accepts sessions   *)
(* the verifier refuses for that alone.                                    *)

StateHashThrows(s) == \E i \in DOMAIN s.players : KeyDigits[s.players[i].pubkey] # 64

ToolHeights(actions) == [i \in DOMAIN actions |-> ToolHeight]

AuditVerdict(actions) ==
    LET v == replayWithVerification(actions, ToolHeights(actions))
    IN  CASE v = Null -> "rejected"
          [] v # Null /\ StateHashThrows(v.state) -> "fatal"
          [] OTHER -> "summary"

-----------------------------------------------------------------------------
Actions == [i \in DOMAIN transcript |-> transcript[i].action]
RecordedHeights == [i \in DOMAIN transcript |-> transcript[i].height]

(* From here on all heights are the same: the rest need not be given. *)
LastHeightFrom(k) ==
    /\ \A i \in k .. Len(transcript) : transcript[i].height = transcript[k].height
    /\ \/ k \in {1, Len(transcript)}
       \/ transcript[k - 1].height # transcript[k].height

InCapitals(a) ==
    \/ a.action_type = "EntropyCommit" /\ a.commitment_hash \in Capitals
    \/ a.action_type = "EntropyReveal" /\ a.entropy \in Capitals

(* The transcript is enough to rebuild the session.  The session's own     *)
(* Replay ends in the engine's state; the comment there also has it check  *)
(* for "the same final state", but it compares nothing and returns no      *)
(* CombinedEntropy, which is why only st is claimed.                       *)
(* replayWithVerification ends in the relay's state and deck seed, at the  *)
(* recorded heights and also when a tail of equal heights is left off; of  *)
(* a transcript with hex in capitals nothing is claimed here.              *)
TranscriptVerifies ==
    /\ Replayed = st
    /\ ~(\E i \in DOMAIN Actions : InCapitals(Actions[i])) =>
          \A k \in DOMAIN transcript :
              LastHeightFrom(k) =>
                  replayWithVerification(Actions, SubSeq(RecordedHeights, 1, k))
                    = [state |-> st, combined |-> combined]

(* replay.ts:88: "A transcript that an honest relay accepted MUST replay   *)
(* cleanly here too".                                                      *)
AcceptedTranscriptsReplay == replayWithVerification(Actions, RecordedHeights) # Null

(* The verifier, which knows no heights, refuses no session but those in   *)
(* which a Recovery was taken or hex is in capitals, and of every other it *)
(* ends in the relay's state and deck seed.                                *)
VerifierFollowsRelay ==
    IF AuditVerdict(Actions) = "rejected"
    THEN \E i \in DOMAIN Actions :
            Actions[i].action_type = "Recovery" \/ InCapitals(Actions[i])
    ELSE replayWithVerification(Actions, ToolHeights(Actions))
            = [state |-> st, combined |-> combined]

(* docs/runbooks/auditing-a-session.md:77-78: "The audit halts at the      *)
(* first invalid action; the relay would have done the same".  So it does  *)
(* not halt on what the relay has accepted.                                *)
AuditHaltsOnlyWithRelay == AuditVerdict(Actions) # "rejected"

(* The verifier's header: "On success, prints a JSON summary of the final  *)
(* state".  A session that replays and was not recovered gets one.         *)
HonestSessionIsSummarised ==
    replayWithVerification(Actions, ToolHeights(Actions)) # Null
        => AuditVerdict(Actions) = "summary"
=============================================================================
