# cardtable: a TLA+ verification project

This directory models cardtable: the pure state engine every node runs, the
relay's session around it and the auditor of its transcripts, the relay server,
the web client, the pre-signed transactions and script templates that release
the stakes when players fall silent, the shuffle and its commitments, the binary
encodings, the mempool tracker and the reorganisation indexer. TLC checks the
models on small instances; TLAPS proves the most important properties for every
value of the constants.

## 1. Inventory

Paths are relative to `src/`.

| part | state it keeps | operations | interacts with |
|---|---|---|---|
| state engine, `packages/state-engine/src/engine.ts` (and its Go port, `apps/relay-go/pkg/engine`) | none of its own: a `RoundState` goes in and one comes out | `applyAction` with 14 handlers; `computeSettlement`; replay | called by the session, the client, the auditor and the indexer |
| session, `apps/relay-go/internal/session/session.go` | the table, the nonces seen, the transcript with heights, under one mutex | `Submit`, `Transcript`, `Replay` | calls the engine; called by every connection |
| auditor, `packages/state-engine/src/verify.ts`, `replay.ts`, `tools/transcript-verifier` | none | `verifyAndApply`, `replayWithVerification`, the command-line verdict | reads the session's transcripts |
| hub, `apps/relay-go/internal/broadcast/hub.go` | a bounded queue per subscriber, under one mutex | `Subscribe`, `Unsubscribe`, `Publish`, `PublishAll`, `SendTo` | filled by dispatchers, drained by writers |
| relay server, `internal/relay/server.go`; WebSocket adapter, `internal/wsadapter` | per connection a reader and a writer goroutine | accept, dispatch, write, shut down | session and hub |
| web client, `apps/client-web/src` | the table shown, the connection's status, a nonce counter, every socket ever opened | connect, disconnect, reset, act, receive | relay; the engine when offline |
| transactions, `packages/state-engine/src/fallback*.ts`, `tx-orchestrator.ts`, `timeout.ts`, `ordering.ts`; `tools/tx-simulator` | the mempool of the simulator | enumerate and build fallbacks, eligibility, conflicts, rebroadcast | engine, script templates, chain |
| script templates, `packages/script-templates/src` | none | one builder per template | the chain's interpreter |
| cards, `packages/crypto-cards/src`, `apps/relay-go/pkg/cryptocards`; `tools/deck-simulator` | the generator's counter | commit, combine, shuffle, commit to a deck, reveal | called by session and auditor |
| encodings, `packages/protocol-types/src`, `packages/tx-builder/src/encode.ts`, `packages/wire-ts/src/frame.ts` | a writer's buffer, a reader's position | encode, decode | everything that hashes, signs or sends |
| mempool tracker, `apps/relay-go/internal/chain/mempool.go` | per transaction: confirmed, exhausted, rebroadcasts | `Relay`, `Observe` | polls the chain |
| indexer, `internal/chain/reorg.go` | none: the old and the new chain go in | `Reindex` | replays the engine |
| SPV, `internal/spv` | the cached tip and headers | poll, `Tip`, `HeaderAt` | feeds the session its height |

What is hard in it. Connections dispatch concurrently, and one accepted action
is committed, acknowledged, fanned out and announced under separate locks.
Queues are bounded and drop. Connections end in several ways, in any order
between reader and writer, and a page hears of sockets it has given up. Frames
are encoded and decoded asynchronously and overtake one another. Clients
resend. A commit-reveal protocol must not let anyone choose its entropy late.
Settlement moves value with penalties that do not depend on the bet. Pre-signed
transactions must neither mature early nor be lost. Heights and chains may go
back. The same rules are implemented twice, in Go and in TypeScript. The
line-by-line list is `hazards` in `PROJECT.json`, with the properties that cover
each.

What makes each part correct. Engine: value is conserved, commitments precede
reveals, cards, turns and pot agree with the class, the settlement shown is the
settlement made, nothing is undone. Session: a nonce counts once, reveals open
commitments, the seed depends on seats alone, the transcript replays, every step
is one of the engine. Auditor: it accepts what the relay accepted, to the same
state. Relay: each peer's stream is ordered and free of duplicates, every
accepted action is announced, connections are dismantled. Client: it says online
only when it is, and shows its own table or one the relay has had. Transactions:
nothing matures early, the engine's idea of eligibility is the chain's, observers
agree, a signed output is released. Templates: exactly the listed exits are
open. Cards: the shuffle is a fair deal, a position opens to one card. Encodings:
what is read is what was written, or it is refused. Tracker: bounded
rebroadcasts, at most one escalation, nothing missing is forgotten. Indexer: the
state is that of the present chain and no action is lost.

## 2. Modules

| module | models | how |
|---|---|---|
| `InBetween` | `penalties.ts`, `pot.ts` | the classification of three cards and the value transfer, as operators |
| `EngineOps` | `engine.ts` | one pair of operators per handler: `CanX` is the conjunction of its checks, `applyX` the state it returns. `Accepts` and `Successor` are `applyAction` |
| `Engine` | a table driven through `applyAction` | variable `st`, the `RoundState`; one action per handler; the fields of an action and the height are inputs |
| `Replay` | `replay.go` | the states after 0, 1, 2... entries as a recursive function, `Null` once an action is rejected |
| `Session` | `session.go` | extends `Engine` with `combined`, `seenNonces`, `transcript`; `Submit` holds the mutex throughout and is one action |
| `Audit` | `verify.ts`, `replay.ts`, `transcript-verifier` | extends `Session`: the auditor is a function of the transcript the session has recorded so far |
| `Hub` | `hub.go` | a function from subscribers to queues; each method is an operator |
| `Relay` | `relay/server.go`, `wsadapter/server.go` | per connection a reader with a program counter through `dispatch`, and a writer; the session is the number of accepted actions, the nth action and the nth state are `n` |
| `Client` | `store.ts`, `relay-client.ts`, the actions of `App.tsx` | extends `Session`: `page` is the store, `relay` the RelayClient in use, `socks` every socket with the frames in each direction; a JavaScript task is one step |
| `Script` | the eleven template builders and the opcodes they use | a script is a sequence of opcodes and pushes; `Spends` runs it on a witness |
| `Templates` | who can spend an output of each template | the state is the witness a spender has put together so far; `Branches` lists the exits of each template, each with what it asks for and the selectors that lead there |
| `Fallback` | `fallback.ts`, `fallback-build.ts`, `tx-orchestrator.ts`, `timeout.ts`, `ordering.ts`, `tx-simulator` | extends `Engine`, `Replay` and `Script`: the chain starts where the engine's replay of an opening ends; the output of the present state, the keys that have signed its fallbacks, a mempool, the tip |
| `Urn` | what a fair deal promises | drawing cards from a set, one after the other |
| `Deck` | `shuffle.ts`, `deck.ts`, `deck-simulator` | the shuffle one draw per step, the commitments one position per step, then reveals of any kind; implements `Urn` |
| `Codec` | `serialisation.ts`, `serialise.ts`, `rule-set-codec.ts`, `encode.ts`, `frame.ts` | a format is a sequence of fields; the writer and the reader take one field per step, and in between the bytes may be cut or joined |
| `Tracker` | `mempool.go` | one action per outcome of `Observe`; mining, eviction and reorganisation are the environment |
| `Reindex` | `reorg.go` | a chain is a sequence of blocks of actions; a block's hash is the chain up to it; `indexed` is the state the indexer ends in |
| `MCEngine`, `MCSession`, `MCClient`, `MCFallback` | | constants for TLC |
| `MCRelay` | the relay daemon: `Relay`, `Tracker`, `Reindex` | one run for three components that share no state: `part` says which one moves, the others stay in their initial states |
| `MCArtefacts` | what a session produces: `MCFallback`, `Templates`, `Deck`, `Codec` | in the same way |
| `EngineProofs`, `SessionProofs` (with the auditor's), `ClientProofs`, `ReindexProofs`, `ScriptProofs` (the templates'), `FallbackProofs`, `RelayProofs` (with the tracker's), `CodecProofs` (with the deck's) | | theorems |

`map` in `PROJECT.json` gives the source lines of every definition. Definitions
whose comment begins with "Fault:" are mutated forms of the definition that
follows them: each breaks a property of a run, which shows that the property
depends on that code.

Abstractions. The engine stores keys, hashes and entropies without looking into
them, so they are model values. Fields of `RoundState` that no handler reads
(template hashes, commitment references, state hashes that are never computed)
are left out; error codes too: a rejected action changes nothing. Hashes are
collision-free: a commitment is the pair it was made from, the combined entropy
the list it digests, a block hash the chain, a signature the pair of key and
transaction. In `Session` the shuffle is a constant function from seeds to decks
without repetition, so the proof for a card is the proof for its position; that
`shuffle.ts` yields such decks is `IsPermutation` of `Deck`. Safe integers are kept: `MaxSafe` is `MAX_SAFE_INTEGER`,
small in the runs so that the limit is reached, arbitrary in the proofs.

The Go port. The session calls the Go engine, the client the TypeScript one.
Handler by handler they make the same checks and the same assignments; the port
uses 64-bit integers where TypeScript checks for safe integers, and returns an
error where `applySettle` throws. The session model uses the operators taken
from the TypeScript source, with which the port agrees below `MaxSafe`.

Further abstractions. `Client` leaves out the page's height, which no action of
the page is evaluated against, and the texts of errors. `Script` pushes an
element as one, whatever its length. `Codec` has bytes of base 4 in place of
256, so that every limit of a number or a length is reached by short messages;
tags, versions and magic numbers are one byte. `encodeRoundState` has no decoder
in the repository; that its output can be read back unambiguously is what makes
the state hash binding, so `Codec` reads it with the reader of the others.
A rule set's multipliers are not negative (comment at `rule-set-codec.ts:54`):
the writer would take a negative one and the reader return another number. Nor
are values offered that do not fit their unsigned field: `encU32LE`, the
`DataView` of `serialise.ts:37-44` and the header of `frame.ts:57-58` wrap those
silently, so that the round trip does not hold of them.

Templates and time. No script reads a lock time: which transaction may spend
when is in the spending transaction (`spec/script-templates.md:7-11`), and
`Templates` says who may spend, not when. Where an exit is a single key, as the
refunds of `stake_lock`, `entropy_commit` and `card_custody` and all of
`fold_surrender` are (`stake-lock.ts:41-43` and 77, `fold-surrender.ts:5-8`), the
lock time listed for it therefore binds nobody but the holder: that key alone
can sign a transaction without one and spend at once, with no preimage. Where
every seat has to sign, what was signed carries the time, and that is
`Fallback`'s `NoEarlyFallback`.

Competing transactions. In `Fallback` the seats sign one cooperative transaction
per output, and the id of a transaction is given by its output and kind; two
cooperative successors of the same state are left out. A confirmed timeout leads
to the next state, with an output and fallbacks of its own, when the engine
accepts it; where it does not (a state of the graph in which `Timeout` is no
action, or a deadline that was stamped later) no state follows, and the session
ends in the model.

## 3. Runs

| run | instance | shows |
|---|---|---|
| `engine_play` | up to 3 seats joined in any order, 2 keys, 3 card ranks, 2-card concealed decks (two legal, three malformed), bets on and next to both limits, heights on both sides of a stamped decision deadline and at the recovery deadline | the invariants and action properties of `Engine` |
| `session` | 2 seats in either order and with either key, a commitment that does not decode, one in capital digits and copied ones, heights on both sides of the recovery deadline, 8 actions | nonces count once; reveals, seed and cards are bound to the commitments; the transcript replays and verifies; the session implements `Engine` |
| `relay` | connections: one TCP and one WebSocket, 2 actions, 1 other request, queues of 1. Tracker: 2 transactions, limit 3. Indexer: chains of up to 2 blocks of up to 2 of 4 actions, the recovery deadline at the second block | streams and announcements stay consistent, every accepted action is announced, connections end; the rebroadcast policy, and that nothing missing is forgotten; reindexing leaves no trace of older chains |
| `client` | one page with 2 clicks and 2 connections, another client of the relay, 2 accepted actions | the status is honest, the table is the page's own or one of the relay's, connecting ends |
| `artefacts` | fallbacks: 2 players, the table just locked or a decision due, timeouts of 2 and 65537 blocks, recovery at height 3 or at 500000000, one eviction. Templates: one output of each, every witness of up to 6 elements out of 7. Deck: 5 cards, 16 words. Codec: 5 formats, up to 2 fields that are not 0 or empty, each at its limits, every cut | nothing matures early, engine and chain agree, observers agree, a signed output is released; exactly the listed exits are open; the shuffle is an unbiased draw from an urn, reveals are binding; what is read was written and what is cut is refused |

The components of `relay` and of `artefacts` share no state, so a product of
them would only multiply the states. Each run explores them side by side: an
initial state says which one moves, and the others rest in a state in which
nothing of theirs is due, so that their invariants hold trivially there and their
fairness asks for nothing.

Bounds. Three seats are the fewest for which joining order, seat order and
rotation order differ in all ways, and for which a folded seat lies between two
others; the rank set gives every outcome of a round; stakes of 2 and bets up to
3 make a loss exceed the stake. Eight actions take two players through joining,
locking, committing and revealing to the first card. Two connections and two
accepted actions are the fewest that can overtake each other, and a queue of one
is full at every second frame. A second connection of the page makes the first
one's late events possible, and two announcements can be decoded in the wrong
order. 65537 blocks wrap to 1 in sixteen bits, and 500000000 is the first lock
time that is a time. The longest exit of a template takes six elements (quorum,
preimage and two selectors). Sixteen words are a multiple of 2 and 4 and not of
3 and 5, so two turns of the loop reject and two do not. With bytes of base 4 a
varint changes its form at 1, 16 and 256. `MaxActions`, `MaxVersion`,
`MaxReplies`, `MaxClicks`, `MaxConnects`, `MaxTip`, `MaxWitness`, `MaxOdd`,
`MaxBlocks` and `MaxPerBlock` stop counters only; `MaxTip` stops ticks and
successors but no transaction that ends the session. `MaxEvictions` is more than
that: `SignedIsReleased` rests on evictions ending, since a mempool that evicts a
transaction whenever it arrives never has it mined. Deadlock is checked in
`engine_play`, where a recovered table accepts `Recovery` again, and not in the
other runs, where a bound, the end of all connections or a finished session stops
the system.

Fairness. `Relay`: goroutines that can run do run (dispatch continues, the
writer takes its next frame, the handler finishes once its writer has stopped,
a read on a closed connection returns). Nothing is assumed of peers: they may
stay silent and connected for ever, and no read deadline is counted on, because
`ReadTimeout` may be zero and a peer that sends in time is never cut off.
`Client`: the browser ends every attempt to connect, one way or the other; users
and relay may do nothing. `Fallback`: blocks keep coming, whoever holds a signed
fallback sends it, a miner includes a valid transaction; players may stay silent
once they have signed. That an evicted fallback is sent again
(`rebroadcastIfEvicted`) is an assumption about the environment: the simulator
offers the operation and no code of the repository schedules it, and the relay's
tracker gives up after three attempts. `Tracker`: the poll loop comes back to
every transaction; the chain is not fair.

Refinement. `Deck`'s `DeckSpec` implements `Urn!Spec` under the mapping `Deal` (the
cards behind the loop's position are drawn, the others are in the urn), and
`SessionSpec` implements `Engine`'s `Spec`; both are checked by TLC and proved.

### Disagreements with comments and documents

Seven runs are expected to be violated; each states a sentence of the repository.

| run | sentence | what the code does |
|---|---|---|
| `doc_HonestSessionIsSummarised` | "On success, prints a JSON summary of the final state." (`tools/transcript-verifier/src/index.ts:20`) | `applyJoin` makes the 66-digit key the `player_id`, `encBytes32Hex` throws on anything but 64 digits, so the verifier fails while it hashes the final state of any table somebody joined |
| `doc_TableStatesAreCurrent` | `TABLE_STATE` is the "current round state" (`spec/wire-protocol.md:86`) | two connections can publish in the opposite order of their commits |
| `doc_RoundsExposeThreeCards` | "In-Between exposes all three cards of a round" (`spec/card-protocol.md:13-14`) | rounds after the first start at S6 without the card the first round opened at S5 (`applyRotateTurn`), reach S10 with two cards and cannot be settled |
| `doc_DocumentedWitnessesSpend` | the witness of stake-lock's winner claim is "`<player_sig> <settlement_preimage> OP_0 OP_1`" (`spec/script-templates.md:72`) | the outer `OP_IF` takes the topmost element: `OP_1` on top leads into the cooperative branch, which this witness does not satisfy; the claim needs `OP_1 OP_0` (`stake-lock.ts:47-63`). The other witnesses written out there do spend |
| `doc_EvictedIsRebroadcast` | "On detecting eviction (e.g. via `tx_status -> not_in_mempool` without a confirmation), re-broadcasting from its persistent store." (`spec/ordering-rules.md:84-85`) | `Observe` ignores a missing transaction it once saw confirmed, so one that a reorganisation took out of the chain is never sent again |
| `doc_AcceptedTranscriptsReplay` | "A transcript that an honest relay accepted MUST replay cleanly here too" (`replay.ts:87-88`) | the Go session reads hex with capital digits, the gate of `verify.ts` does not |
| `doc_AuditHaltsOnlyWithRelay` | "The audit halts at the first invalid action; the relay would have done the same." (`docs/runbooks/auditing-a-session.md:77-78`) | the verifier evaluates every action at one height and refuses a `Recovery` the relay accepted at its deadline |

The passing properties next to them claim nothing of the disputed case.
`NoCardTooEarly` bounds the open cards from above; `ExitsAreOpen` uses the
selectors the scripts ask for; `GivenUpIsFinal` is about exhausted transactions,
not confirmed ones, and `MissingIsFollowedUp` is satisfied by a transaction that
was confirmed; `TranscriptVerifies` is silent about hex in capitals, and
`VerifierFollowsRelay` allows, but does not ask for, the refusal of recovered
transcripts and of those in capitals.

Others were met and are modelled as the code has them, without a run of their own:

* the rotation starts at the first to join and stops at the lowest seat, so the
  table may close before all have acted (comment at `engine.ts:630`);
  `RotationPosition` says where the turn stands for any joining order, which
  this does not contradict;
* `applyAction` compares the game but not the round (comment at `engine.ts:144`);
  bets, passes and folds of any seat are accepted at S8 (`spec/state-machine.md:43`);
  `applySettle` throws on a negative balance (`state-machine.md:131`);
* a folded seat is given the turn again (comment at `engine.ts:609`).
  `FoldedHoldNothing` is about its cards, not about its turns;
* `Recovery` is accepted after S12 (`state-machine.md:50`, against its own table
  at 47), so a closed table can become a recovered one; `AlwaysForward` counts
  that as forward, and excludes the way back and the second `Recovery`;
* no handler sets a decision deadline, so silence at S8 is never turned into a
  pass (`state-machine.md:75`), and none takes a stamped one off, so it stays
  in force at later decisions; `EligibleIsSpendable` holds only of the deadline
  stamped on the present state;
* `Session.Replay` returns a state without the combined entropy and compares
  nothing, where its comment says that it checks for the same final state
  (`session.go:226`); `TranscriptVerifies` compares the engine's state alone for
  it, and the deck seed for `replayWithVerification`;
* the runbook has the two auditors agree on any transcript a relay accepted
  (`auditing-a-session.md:56-58`). `cmd/indexer` replays at height 100 through
  the bare engine: of a recovered session both auditors say no where the relay
  said yes, and of one with hex in capitals the indexer says yes and the verifier
  no. The indexer's command line is not modelled;
* verifier and indexer bring the default rule set with them (`index.ts:73-106`)
  while the relay takes `--stake`, `--min-bet` and `--max-bet`
  (`cmd/relay/main.go:34-36`). In the model the two are the same rule set, so
  `VerifierFollowsRelay` speaks of relays run with the defaults; with others the
  verifier may refuse a session for its amounts alone;
* the Go `ComputeSettlement` clamps at zero and does not check the range of what
  it computes, where the TypeScript one throws (`clampSat`, `asSatoshis`);
  `PreviewIsSettlement` is about the TypeScript pair;
* after a reader has closed the connection the handler waits for a writer blocked
  on an empty queue (comment "make sure the writer loop notices",
  `relay/server.go:168`); `NextFrameFreesConnection` says what does free it.
  Cancelling the context does not end a reader (comment at line 97);
* `Reindex` reports actions as orphaned that the new chain confirms again
  (comment at `reorg.go:58`);
* a page whose socket has closed keeps its RelayClient: its buttons then fail
  until the user disconnects, although the status reads offline; and a page shows
  whatever `TABLE_STATE` is decoded last, an older one too;
* `writeUtf8` writes strings `readUtf8` refuses (more than 4096 bytes).

## 4. Proofs

The assumptions are the named `ASSUME`s of the modules: amounts of the rule set
are satoshis, seats, heights and counts are naturals, `Null` is not a natural
nor an array, a settlement, a state or an auditor's result (`EngineAssumption`,
`NullAssumption`, `AuditAssumption`), multipliers and penalties are naturals, at
least one player is required to lock, a deck has a card and the generator at
least as many words as there are cards, what a page sends and what an opening
holds are actions of the engine's types (`ClientAssumption`,
`FallbackAssumption`), a byte has at least four values, safe integers fit eight
bytes and payloads' lengths four (`CodecAssumption`). TLC evaluates them on every run. One theorem has a
hypothesis of its own: `AuditRefusals` supposes that the verifier's height lies
before the recovery deadline, as 100 does before the default of 244.

Induction. The library's induction theorems cannot be applied by the installed
provers. Where a theorem is about a list of any length its place is taken by the
least counterexample: `LeastNat` gives a set of naturals its least element, from
the well-foundedness of `<`. `Replay`, `flatten` and `replayWithVerification` are
recursive functions on `0 .. n` for that purpose: `RunExists` and `RunsAgree` say
that there is one list of states that n entries lead through, `ReplayEnds` that a
replay ends where it ends, `ReplayConcat` that it may be interrupted and resumed
anywhere. The script interpreter (`Evaluate`) and the search for the winner among
competing transactions (`resolveConflict`) are written and treated the same way,
and so are the digits of a number, the checksum and the loop of `ensure`
(`Recursion`: a function defined step by step on `0 .. n` exists).

`EngineProofs`:

* `TypeCorrect`. `TypeOK` is not inductive by itself: `applyRotateTurn` and
  `applyCardReveal` take a seat from the players, so `TypeInv` adds that there
  is a player from S3 on (`Populated`). One lemma per handler shows that it
  returns a `RoundState`; `AcceptedType` says so of `applyAction` on any state
  and action, for the auditor, the client and the openings.
* `EntropyOrder`. `EntropyInv` strengthens `CommitBeforeReveal` with what each
  class knows: nobody has revealed before S4, all have committed from S4 on, all
  have revealed from S5 on, and no card, deck or acting seat exists before. A
  recovered table may come from any class and keeps only the property itself.
* `CardsByClass` and `OneBetPerSettlement`. `RoundInv`: the open cards are fixed
  by class and round, from which `NoCardTooEarly` follows, and the pot is empty
  until the first round's bet and is then that bet; later rounds never have three
  open cards, so the pot they inherit is never taken for a bet. Here the
  disagreement on three cards is what keeps the engine safe: a correction of one
  must correct the other.
* `ValueConserved`, from `TransferBalanced` (what the player gains the pot
  loses) and `SeatsDistinct` (one record is rewritten, not two), which
  `EntropyOrder` establishes.
* `TurnsInSeatOrder`. `TurnInv` adds to `RotationPosition` that no round is
  counted while nobody is acting and that somebody is in the
  classes S8 to S12. `RotateTurnPasses`: the next seat is the least
  above the acting one, so exactly one more seat is passed, and a rotation that
  wraps ends the table before it would count.
* `PreviewIsHonest`. The preview rejects where a result is not a satoshi amount,
  `applySettle` where a stake or the pot is not: `PreviewAmounts` shows that the
  two sets of checks and the two computations agree, for distinct seats.
* `FoldIsSurrender`. `FoldInv`: cards are dealt at S5 only, where nobody has
  folded yet. Two seats may share a key, and a fold of either takes the cards of
  both (`HeldByKey`).
* `TablesGoForward`. `ListInv`: `allowed_actions` is empty only at S12 and on a
  recovered table, so that `TableClose`, which empties it, reaches a milestone
  once; a repeated `Recovery` changes nothing.

`SessionProofs`: `SessionImplementsEngine` (an accepted action is a disjunct of
`Engine`'s `Next`; all of the above carries over), `NonceUsedOnce` (every nonce
of the transcript is in `seenNonces`), `RevealsAreCommitted` (no handler rewrites
a commitment once its seat has revealed, and the one that opens it was checked
against it), `CardsAreFromDeck` (the seed is set once and cards are opened under
it only), and

* `SeedFollowsSeats`. `SeedInv`: there is a seed only when all have revealed, so
  no step changes seats or entropies under it. The sort is described by what it
  returns; that there is such an order is a lemma on distinct seats.
* `TranscriptsVerify`. `ReplayInv` (the recorded entries replay to the state the
  session holds) is inductive by `ReplayAppend`. `AuditInv` says the same of the
  auditor: after the recorded actions it holds the session's state and seed,
  or, once one of them was in capitals, nothing for ever. That a list of heights
  may stop early is a property of `HeightAt` alone.
* `AuditRefusals` (`VerifierFollowsRelay`). `ToolInv`: as long as no `Recovery` was
  recorded the auditor at a fixed height agrees with the session, because no
  other action that occurs in a session depends on the height (no handler sets a
  decision deadline); with a `Recovery` before the assumed deadline, which is the
  theorem's hypothesis, it refuses from there on.

`ClientProofs`: `OnlineMeansOpen` from `SocketInv` (every socket but the one in
use was given up: closed or never to open, not heard, with nothing left to
decode; whoever gives one up also takes it out of use). `LocalTableIsOwn` needs
the same invariant: a frame is decoded from the socket in use only.
`RelayTableIsRelays` from `FrameInv` and `TableInv` (every `TABLE_STATE` on its
way was the session's state after some beginning of the transcript, and stays so
when the transcript grows, by `ReplayAppend`).

`ReindexProofs`: `IndexFollowsChain` (up to the common ancestor both chains have
the same entries, and `flatten` of a chain is that of its two parts in a row, so
`ReplayConcat` makes rewinding and applying one replay), `ReorgsLoseNothing` (an
entry of the old chain lies at or before the ancestor, which the new chain
shares, or is among the orphans).

`RelayProofs`: `StreamsAreOrdered`. `StreamInv` bounds what a queue may hold by
what its sender's reader has still to send: where the reader stands in `dispatch`
fixes a `Ceiling`, below every frame that is still to come, and everything queued
for a peer or received by it about that reader's actions ranks at or below it. The run has queues of
one; the theorem holds for every depth. Of the tracker, `PolicyCorrect` and
`GivingUpIsFinal`, from the inductive invariant
`TrackerTypeOK /\ RecommendedWhenExhausted`.

`ScriptProofs`: what a script asks of its witness. The run has witnesses of up to
six elements; the theorems are about witnesses of any length.

* `EvaluateConcat`: the parts of a script run one after the other. With it
  `PushAll` puts any number of pushes on the stack, and `QuorumStack` says what
  lies there when `OP_CHECKMULTISIG` is reached.
* `SpendsMultisig`: n of n signatures are accepted exactly when the last n
  elements are the signatures of the n keys, in the keys' order, on one more
  element below. The interpreter only asks for signatures in the order of some keys; an
  ascending map of n signatures to n keys is the identity
  (`AscendingIsIdentity`). The number of players is arbitrary.
* `Block` and `EitherBlock`: a body without branches runs as a whole or is
  skipped as a whole, so `IF a ELSE b ENDIF` takes the top of the stack and is
  then a or b (`SpendsEither`); nested choices take one selector each.
* `NoOtherExit` and `EveryExitOpens`. `Opens` collects the elements a witness
  shows; one lemma per body says what must be among them, and one per template
  combines the lemmas: whoever spends takes the branch of an exit in `Branches`
  and holds what that very exit asks for. In the other direction each exit is
  shown open by its body under the selectors of its branch, which for stake-lock's
  winner claim are not the documented ones.
  `TemplatesInv` says that a witness is a list of elements a spender can have.

`FallbackProofs`: `FallbackWaits`. `GateInv`: what was seen is all of the present
output or all of earlier ones (the height of an output only grows); of the present
output nothing is confirmed, a successor is an action the engine accepts
(`HeightFree`, `StampFree`: neither the height nor a stamp changes that, and
`AcceptedType` keeps the state within its types), a timeout carries the delta and
a recovery the deadline, and both were sent when every player had signed; whatever
is in the mempool was seen. A confirmed timeout that the engine accepts starts the
next state with nothing signed, as a cooperative successor does. A delta that does not fit sixteen bits, or a
deadline that would read as a time, was refused by the builder, so the chain's
rule on sequence and lock time is the gate itself. Further,

* `ObserversFollowOne`. `ConflictInv`: the candidates for an output have distinct
  ids and at most one of them is confirmed. `WinnerBeatsAll` (by least
  counterexample over the candidates passed so far): the one `resolveConflict`
  returns beats every other, and no two beat each other, so every order of the
  same candidates gives the same one, and a confirmed one is it. `ConflictInv`
  holds after the end too, when the output is gone, because what was seen stays.
* `EligibleFallbacksSpend`. What the engine calls eligible the chain accepts: the
  signatures the pre-signed transactions carry are those of the players in the
  order of the output's keys, which is what `SpendsMultisig` asks for, and the
  gate is the chain's rule as above. The run has two players, the theorem any
  number.

`CodecProofs`, for every base, capacity and number of fields:

* `FieldsReadBack`, of any value a field can hold, where the run has those at its
  limits. `NumberRoundTrip`: after reading k digits from the most significant one
  the reader has the quotient that the writer divided further when it had w - k
  digits. On it rest the forms of a varint (the first byte tells the width, and
  what fits no form before fits this one), signed numbers modulo the width,
  strings, and payloads with their checksum. Reading past the cut within the
  buffer behind a view (`Reach`) finds the message's own bytes or none.
* `ReadsBackWhatWasWritten` and `AcceptsWholeMessages`. The reader sees bytes and
  its own plan only, so `CodecInv` gives the buffer a trace: the plan and the
  length after each field. Writing prolongs it, and `PutBytes` keeps what is
  there, also when the buffer grows (`EnsureFits`: after k turns the capacity is
  enough or above k). The reader stands at a place of this trace: reading takes
  it to the next, throwing means that the trace is cut or holds too long a
  string, and an empty plan that it is at the end, since every place before has
  fields left. What arrives in a transaction's view is read beyond the view
  (`Reach`), so that its position may lie behind the data until the last check.

The deck's, in the same module: `ShufflePermutes` (an exchange keeps the deck injective, and a draw
lies within the deck), `RevealsBind` (from the inductive invariant that the
commitment at a position is that of the card there, and that what verified is
the card that was committed to; with ideal hashes a forged proof differs in the
ordinal or in a nonce), `ShuffleImplementsUrn` (an accepted draw takes the card
at `j` from those up to the loop's position, which the exchange leaves the same
set without it; every other step changes neither urn nor draw),
`DrawsAreUnbiased` (below the limit `q * m` the words that fall on `j` are
`k * m + j` for `k` below `q`: a bijection with `0 .. q - 1`, so each index has
`q` words, and `q` is not 0).

Only model-checked: all liveness (`AcceptedIsAnnounced`,
`NextFrameFreesConnection`, `MissingIsFollowedUp`, `ConnectingEnds`,
`SignedIsReleased`), which needs fairness and `ENABLED`.

## 5. Plan

Done, in this order: `InBetween`, `EngineOps`, `Engine`, `EngineProofs`;
`Replay`, `Session`, `SessionProofs`; `Hub`, `Relay`; `Tracker`; `Reindex`;
`Client`; `Audit`; `Script`, `Templates`, `Fallback`; `Urn`, `Deck`; `Codec`; the theorems on replay, audit, reorganisation, relay,
tracker, client, fallbacks and deck; `ScriptProofs`, and with it the theorems on
competing and on eligible fallbacks; `CodecProofs`. Every safety property of a
passing run is now a theorem as well.

Next: the Go reader of frames over a stream, in which a frame arrives in pieces,
and the frame codec of `wsadapter/ws.go`.

## 6. Not modelled

* The header cache, RPC client and HTTP server of `internal/spv`: I/O around a
  map that is only added to. What the session needs of them, heights that may go
  back, is in `Session`: every action takes its own height.
* The handshake and the frame codec of `wsadapter/ws.go`; its two unsynchronised
  writes per frame are a hazard of bytes on a socket, below the frames of `Relay`.
* The Go ports of engine, cards, encodings and transaction builder, beyond what
  the session's model takes from them; the repository's test vectors hold the two
  languages against each other.
* `conceal.ts` (encryption of a card for its holder), hashing, signing and
  signature hashes: ideal in the models.
* `tools/transcript-recorder` and `tools/load-test`, which drive a relay with a
  fixed script and report; flags and wiring of the command-line programs; layout.
