------------------------------- MODULE Client -------------------------------
(***************************************************************************)
(* The browser page, apps/client-web: the table store (store.ts), the      *)
(* RelayClient it creates for each connection (relay-client.ts) and the    *)
(* buttons of App.tsx, against a relay whose table is the Session.         *)
(*                                                                         *)
(* JavaScript runs one task at a time, so a handler and the continuations  *)
(* of promises it settles are one step.  What interleaves are tasks: the   *)
(* user's clicks, the events of every socket ever opened, and the ends of  *)
(* the asynchronous encodes and decodes, which may overtake one another.   *)
(*                                                                         *)
(* The page's height is left out: no action the page can make is evaluated *)
(* against it.  Texts of errors are left out, their presence is not.       *)
(***************************************************************************)
EXTENDS Session

CONSTANTS
    PageSeats, PageKey,         \* seats with buttons, and the key of each
    PageHash, PageEntropy,      \* the constants the page commits and reveals
    PageCards, PageBets,        \* ordinals and amounts with buttons
    PageHeight,
    Buttons,                    \* the types of action the user makes
    MaxClicks, MaxConnects      \* bounds on nonces and on connections

(* The buttons of App.tsx. *)
ASSUME ClientAssumption ==
    /\ PageSeats \subseteq Nat
    /\ PageKey \in [PageSeats -> Pubkeys]
    /\ PageHash \in Hashes
    /\ PageEntropy \in Entropies
    /\ PageCards \subseteq Ordinals
    /\ PageBets \subseteq Nat
    /\ PageHeight \in Heights

VARIABLES
    page,      \* the store: state, connection, lastError, settlement, nonces
    relay,     \* the RelayClient in use, a place in socks, or 0
    socks      \* every RelayClient made so far

clientVars == <<page, relay, socks>>
vars == <<sessionVars, clientVars>>

StartPage ==
    [state |-> initialState, connection |-> "offline", failed |-> FALSE,
     settlement |-> Null, nonce |-> 0]

(* A new RelayClient, its listener subscribed.  Its WebSocket is connecting *)
(* or, if the constructor threw, missing: then nothing can be sent either, *)
(* as on a closed one.  encoding: frames being encoded; up and down: frames *)
(* on their way, those being decoded included.                             *)
NewSock(ready) ==
    [ready |-> ready, attached |-> TRUE, heard |-> TRUE,
     encoding |-> {}, up |-> << >>, down |-> << >>]

(* Fault: only a socket that has opened is closed. *)
CloseOpened(s) ==
    [s EXCEPT !.ready = IF @ = "OPEN" THEN "CLOSING" ELSE @, !.attached = FALSE]

(* close: a socket still connecting is made to fail. *)
Close(s) ==
    [s EXCEPT !.ready = IF ~s.attached THEN @
                        ELSE CASE @ = "OPEN" -> "CLOSING"
                               [] @ = "CONNECTING" -> "FAILING"
                               [] OTHER -> @,
              !.attached = FALSE]

(* Fault: the listener stays subscribed. *)
DetachListening == IF relay = 0 THEN socks ELSE [socks EXCEPT ![relay] = Close(@)]

(* Nobody hears what a silenced client still decodes. *)
Detach ==
    IF relay = 0 THEN socks
    ELSE [socks EXCEPT ![relay] = [Close(@) EXCEPT !.heard = FALSE, !.down = << >>]]

-----------------------------------------------------------------------------
(* The buttons. *)

PageSeat(s) == IF s.acting = Null THEN 0 ELSE s.acting

PageActions(s) ==
    {a \in UNION
       {{[action_type |-> "Join", game_id |-> s.game_id, round_number |-> 0,
          acting_player_seat |-> seat, player_pubkey |-> PageKey[seat],
          stake_amount |-> StakeAmount] : seat \in PageSeats},
        [action_type : {"EntropyCommit"}, game_id : {s.game_id}, round_number : {0},
         acting_player_seat : PageSeats, commitment_hash : {PageHash}],
        [action_type : {"EntropyReveal"}, game_id : {s.game_id}, round_number : {0},
         acting_player_seat : PageSeats, entropy : {PageEntropy}],
        [action_type : {"CardReveal"}, game_id : {s.game_id}, round_number : {0},
         acting_player_seat : {Null}, card : PageCards],
        [action_type : {"BetAction"}, game_id : {s.game_id}, round_number : {0},
         acting_player_seat : {PageSeat(s)}, bet_amount : PageBets],
        [action_type : {"TableLock"}, game_id : {s.game_id}, round_number : {0},
         acting_player_seat : {Null}],
        [action_type : {"Pass", "Settle"}, game_id : {s.game_id}, round_number : {0},
         acting_player_seat : {PageSeat(s)}]}
     : a.action_type \in Buttons}

(* apply, without a RelayClient: the engine runs in the page. *)
PlayLocally(a) ==
    LET ok == Accepts(page.state, a, PageHeight)
        throws == a.action_type = "Settle" /\ SettleThrows(page.state)
    IN  /\ page' = [page EXCEPT
               !.nonce = @ + 1,
               !.state = IF ok THEN Successor(@, a) ELSE @,
               !.failed = IF ok THEN FALSE ELSE throws => @,
               !.settlement = IF ok /\ a.action_type = "Settle"
                              THEN computeSettlement(page.state) ELSE @]
        /\ UNCHANGED <<relay, socks>>

(* Fault: the action is applied locally as well, ahead of the relay. *)
SendOptimistic(a) ==
    /\ page' = [page EXCEPT !.nonce = @ + 1,
                            !.state = IF Accepts(@, a, PageHeight) THEN Successor(@, a) ELSE @]
    /\ socks' = [socks EXCEPT ![relay].encoding = @ \cup {[action |-> a, nonce |-> page.nonce + 1]}]
    /\ UNCHANGED relay

(* apply, with one: the frame is encoded if the socket is open.            *)
Send(a) ==
    LET open == socks[relay].attached /\ socks[relay].ready = "OPEN"
        frame == [action |-> a, nonce |-> page.nonce + 1]
    IN  /\ page' = [page EXCEPT !.nonce = @ + 1, !.failed = @ \/ ~open]
        /\ socks' = IF open THEN [socks EXCEPT ![relay].encoding = @ \cup {frame}] ELSE socks
        /\ UNCHANGED relay

Click ==
    /\ page.nonce < MaxClicks
    /\ \E a \in PageActions(page.state) : IF relay = 0 THEN PlayLocally(a) ELSE Send(a)
    /\ UNCHANGED sessionVars

(* The RelayClient in use, if any, is closed and silenced before it is     *)
(* replaced.                                                               *)
Connect ==
    /\ page.connection \notin {"online", "connecting"}
    /\ Len(socks) < MaxConnects
    /\ \E ready \in {"CONNECTING", "CLOSED"} :
         /\ socks' = Append(Detach, NewSock(ready))
         /\ page' = IF ready = "CONNECTING" THEN [page EXCEPT !.connection = "connecting"]
                    ELSE [page EXCEPT !.connection = "error", !.failed = TRUE]
    /\ relay' = Len(socks) + 1
    /\ UNCHANGED sessionVars

Disconnect ==
    /\ page.connection # "offline"
    /\ socks' = Detach
    /\ relay' = 0
    /\ page' = [page EXCEPT !.connection = "offline"]
    /\ UNCHANGED sessionVars

Reset ==
    /\ socks' = Detach
    /\ relay' = 0
    /\ page' = StartPage
    /\ UNCHANGED sessionVars

-----------------------------------------------------------------------------
(* Socket events. *)

(* onopen: the listener, if there is one, and connect's continuation both  *)
(* report the connection.                                                  *)
Opens(g) ==
    /\ socks[g].ready = "CONNECTING"
    /\ socks' = [socks EXCEPT ![g].ready = "OPEN"]
    /\ page' = [page EXCEPT !.connection = "online"]
    /\ UNCHANGED <<relay, sessionVars>>

(* Fault: only a connection that had opened is reported as closed. *)
FailsSilently(g) ==
    /\ socks[g].ready \in {"CONNECTING", "FAILING"}
    /\ socks' = [socks EXCEPT ![g].ready = "CLOSED"]
    /\ UNCHANGED <<page, relay, sessionVars>>

(* A connection that cannot be made: onerror, connect's rejection, onclose. *)
Fails(g) ==
    /\ socks[g].ready \in {"CONNECTING", "FAILING"}
    /\ socks' = [socks EXCEPT ![g].ready = "CLOSED"]
    /\ page' = [page EXCEPT !.connection = IF socks[g].heard THEN "offline" ELSE "error",
                            !.failed = TRUE]
    /\ UNCHANGED <<relay, sessionVars>>

(* The end of a connection, in order or with an error: what has arrived is *)
(* still decoded, the rest is lost.  The RelayClient stays in use.         *)
Closes(g) ==
    /\ socks[g].ready \in {"OPEN", "CLOSING"}
    /\ \E error \in BOOLEAN, arrived \in 0 .. Len(socks[g].down) :
         /\ socks' = [socks EXCEPT ![g].ready = "CLOSED",
                                   ![g].up = IF error THEN << >> ELSE @,
                                   ![g].down = SubSeq(@, 1, arrived)]
         /\ page' = IF socks[g].heard
                    THEN [page EXCEPT !.connection = "offline", !.failed = @ \/ error]
                    ELSE page
    /\ UNCHANGED <<relay, sessionVars>>

(* A message that does not decode. *)
BadMessage(g) ==
    /\ socks[g].ready = "OPEN" /\ socks[g].heard
    /\ page' = [page EXCEPT !.connection = "error", !.failed = TRUE]
    /\ UNCHANGED <<relay, socks, sessionVars>>

(* sendFrame goes on after its await: on a socket that is gone it throws,  *)
(* on one that is closing the browser discards the frame.                  *)
Encoded(g) ==
    /\ \E frame \in socks[g].encoding :
         socks' = [socks EXCEPT ![g].encoding = @ \ {frame},
                                ![g].up = IF socks[g].attached /\ socks[g].ready = "OPEN"
                                          THEN Append(@, frame) ELSE @]
    /\ page' = [page EXCEPT !.failed = @ \/ ~socks[g].attached]
    /\ UNCHANGED <<relay, sessionVars>>

(* handleFrame: any message received may be the first whose decode ends.   *)
Decoded(g) ==
    /\ \E i \in DOMAIN socks[g].down :
         LET frame == socks[g].down[i]
         IN  /\ socks' = [socks EXCEPT ![g].down = RemoveAt(@, i)]
             /\ page' = IF frame = Null THEN [page EXCEPT !.failed = TRUE]
                        ELSE [page EXCEPT !.state = frame, !.failed = FALSE]
    /\ UNCHANGED <<relay, sessionVars>>

-----------------------------------------------------------------------------
(* The relay.  Of its frames only TABLE_STATE, here the state it carries,  *)
(* and ERROR_REPLY, here Null, matter to the page.                         *)

Announce(ss, state) ==
    [g \in DOMAIN ss |-> IF ss[g].heard /\ ss[g].ready = "OPEN"
                         THEN [ss[g] EXCEPT !.down = Append(@, state)] ELSE ss[g]]

(* The page's fixed nonces open no card of any deck. *)
RelayTakes(frame) ==
    /\ frame.action.action_type # "CardReveal"
    /\ frame.nonce \notin seenNonces
    /\ verifyCrypto(frame.action)
    /\ Accepts(st, frame.action, PageHeight)

RelayHandles(g) ==
    /\ socks[g].up # << >>
    /\ LET frame == Head(socks[g].up)
           rest == [socks EXCEPT ![g].up = Tail(@)]
       IN  \/ /\ Len(transcript) < MaxActions
              /\ RelayTakes(frame)
              /\ Submit(frame.action, frame.nonce, PageHeight)
              /\ socks' = Announce(rest, st')
           \/ /\ ~RelayTakes(frame)
              /\ socks' = [rest EXCEPT ![g].down = IF socks[g].heard THEN Append(@, Null) ELSE @]
              /\ UNCHANGED sessionVars
    /\ UNCHANGED <<page, relay>>

(* Other clients of the relay. *)
PeerActs ==
    /\ Len(transcript) < MaxActions
    /\ \E a \in AllActions, nonce \in Nonces : Submit(a, nonce, PageHeight)
    /\ socks' = Announce(socks, st')
    /\ UNCHANGED <<page, relay>>

-----------------------------------------------------------------------------
ClientInit ==
    /\ SessionInit
    /\ page = StartPage
    /\ relay = 0
    /\ socks = << >>

ClientNext ==
    \/ Click \/ Connect \/ Disconnect \/ Reset \/ PeerActs
    \/ \E g \in DOMAIN socks :
          \/ Opens(g) \/ Fails(g) \/ Closes(g) \/ BadMessage(g)
          \/ Encoded(g) \/ Decoded(g) \/ RelayHandles(g)

(* A browser ends every attempt to connect one way or the other. *)
ClientSpec ==
    /\ ClientInit
    /\ [][ClientNext]_vars
    /\ \A g \in 1 .. MaxConnects :
          WF_vars(g \in DOMAIN socks /\ (Opens(g) \/ Fails(g)))

-----------------------------------------------------------------------------
(* Properties. *)

(* The page says it is online only while the socket in use is open: no     *)
(* late event of a socket it gave up can bring the word back.              *)
OnlineIsHonest ==
    page.connection = "online" => relay # 0 /\ socks[relay].ready = "OPEN"

(* Without a RelayClient the table changes only by the page's own actions, *)
(* through the engine: a TABLE_STATE still being decoded when the user     *)
(* disconnects never lands on the local table.                             *)
LocalPlayStep ==
    relay = 0 /\ relay' = 0 /\ page'.state # page.state =>
        \/ page'.state = initialState
        \/ \E a \in PageActions(page.state) :
              Accepts(page.state, a, PageHeight) /\ page'.state = Successor(page.state, a)

LocalPlayIsOwn == [][LocalPlayStep]_vars

(* With one, the table only ever becomes a state the relay's session has   *)
(* been in: the result of some beginning of its transcript.                *)
RelayPlayStep ==
    relay # 0 /\ relay' = relay /\ page'.state # page.state =>
        \E k \in 1 .. Len(transcript) :
            page'.state = ReplayFrom(initialState, SubSeq(transcript, 1, k))

TableIsRelays == [][RelayPlayStep]_vars

(* The page never stays connecting. *)
ConnectingEnds == page.connection = "connecting" ~> page.connection # "connecting"
=============================================================================
