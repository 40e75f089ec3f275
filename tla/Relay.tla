------------------------------- MODULE Relay -------------------------------
(***************************************************************************)
(* The relay server: the TCP handler of internal/relay/server.go and the   *)
(* WebSocket handler of internal/wsadapter/server.go, over one session and *)
(* one hub.  Every connection has a reader, which dispatches the frames it *)
(* decodes one at a time, and a writer, which pumps the connection's hub   *)
(* queue to the peer.                                                      *)
(*                                                                         *)
(* Submit, and every hub method, is atomic under its own lock; dispatch    *)
(* takes them one after the other, so other connections run in between.    *)
(* The session is here the number of actions it has accepted: the nth      *)
(* accepted action is n, and so is the TABLE_STATE it leads to.            *)
(***************************************************************************)
EXTENDS Hub

CONSTANTS Tcp, Ws,            \* connections, by transport
          MaxVersion,         \* bound: actions accepted
          MaxReplies          \* bound: frames answered to their sender alone

Conns == Tcp \cup Ws

ASSUME RelayAssumption ==
    /\ Tcp \cap Ws = {}
    /\ MaxVersion \in Nat
    /\ MaxReplies \in Nat

VARIABLES
    version,      \* the session: how many actions it has accepted
    by,           \* by[n]: the connection that submitted action n
    announced,    \* the versions whose TABLE_STATE has been published
    hub,
    conn,         \* conn[c]: the transport
    reader,       \* reader[c]: where handle and dispatch stand
    work,         \* work[c]: the version dispatch is about to broadcast
    writer,       \* writer[c]: the writer goroutine
    last,         \* last[c][d]: the last frame about an action of d that c received
    shown,        \* shown[c]: the last TABLE_STATE that c received
    replies,      \* replies sent so far
    ctxDone       \* the server's context was cancelled

vars == <<version, by, announced, hub, conn, reader, work, writer, last, shown, replies, ctxDone>>

Frame(type, n) == [type |-> type, n |-> n]

(* ACTION_ACCEPTED, PEER_ACTION and TABLE_STATE are about an action; the   *)
(* rank says in which order the frames of one sender are due.              *)
IsAbout(f) == f.type \in {"ACTION_ACCEPTED", "PEER_ACTION", "TABLE_STATE"}
FrameRank(f) == 2 * f.n + (IF f.type = "TABLE_STATE" THEN 1 ELSE 0)

Init ==
    /\ version = 0
    /\ by = << >>
    /\ announced = {}
    /\ hub = << >>
    /\ conn = [c \in Conns |-> "none"]
    /\ reader = [c \in Conns |-> "none"]
    /\ work = [c \in Conns |-> 0]
    /\ writer = [c \in Conns |-> "none"]
    /\ last = [c \in Conns |-> [d \in Conns |-> 0]]
    /\ shown = [c \in Conns |-> 0]
    /\ replies = 0
    /\ ctxDone = FALSE

-----------------------------------------------------------------------------
(* Connections come up. *)

Accept(c) ==
    /\ conn[c] = "none"
    /\ ~ctxDone
    /\ conn' = [conn EXCEPT ![c] = "open"]
    /\ hub' = Subscribe(hub, c)
    /\ reader' = [reader EXCEPT ![c] = "read"]
    /\ writer' = [writer EXCEPT ![c] = "running"]
    /\ UNCHANGED <<version, by, announced, work, last, shown, replies, ctxDone>>

-----------------------------------------------------------------------------
(* dispatch. *)

Goto(c, pc) == reader' = [reader EXCEPT ![c] = pc]

(* PING, and every frame answered with an ERROR: an unknown type, a        *)
(* malformed action, an action the session rejects.                        *)
ReplyOne(c) ==
    /\ reader[c] = "read"
    /\ conn[c] = "open"
    /\ replies < MaxReplies
    /\ replies' = replies + 1
    /\ hub' = SendTo(hub, c, Frame("REPLY", 0))
    /\ UNCHANGED <<version, by, announced, conn, reader, work, writer, last, shown, ctxDone>>

(* The transcript is read under the session's lock and sent afterwards. *)
ReadTranscript(c) ==
    /\ reader[c] = "read"
    /\ conn[c] = "open"
    /\ replies < MaxReplies
    /\ replies' = replies + 1
    /\ work' = [work EXCEPT ![c] = version]
    /\ Goto(c, "reply")
    /\ UNCHANGED <<version, by, announced, hub, conn, writer, last, shown, ctxDone>>

SendTranscript(c) ==
    /\ reader[c] = "reply"
    /\ hub' = SendTo(hub, c, Frame("TRANSCRIPT_RESPONSE", work[c]))
    /\ Goto(c, "read")
    /\ UNCHANGED <<version, by, announced, conn, work, writer, last, shown, replies, ctxDone>>

Submit(c) ==
    /\ reader[c] = "read"
    /\ conn[c] = "open"
    /\ version < MaxVersion
    /\ version' = version + 1
    /\ by' = Append(by, c)
    /\ work' = [work EXCEPT ![c] = version + 1]
    /\ Goto(c, "ack")
    /\ UNCHANGED <<announced, hub, conn, writer, last, shown, replies, ctxDone>>

(* Fault: dispatch waits until there is room for the acknowledgement. *)
AckBlocking(c) ==
    /\ reader[c] = "ack"
    /\ c \in DOMAIN hub => Len(hub[c]) < QueueDepth
    /\ hub' = SendTo(hub, c, Frame("ACTION_ACCEPTED", work[c]))
    /\ Goto(c, "fanout")
    /\ UNCHANGED <<version, by, announced, conn, work, writer, last, shown, replies, ctxDone>>

Ack(c) ==
    /\ reader[c] = "ack"
    /\ hub' = SendTo(hub, c, Frame("ACTION_ACCEPTED", work[c]))
    /\ Goto(c, "fanout")
    /\ UNCHANGED <<version, by, announced, conn, work, writer, last, shown, replies, ctxDone>>

(* Fault: the action comes back to its sender. *)
FanOutToAll(c) ==
    /\ reader[c] = "fanout"
    /\ hub' = PublishAll(hub, Frame("PEER_ACTION", work[c]))
    /\ Goto(c, "state")
    /\ UNCHANGED <<version, by, announced, conn, work, writer, last, shown, replies, ctxDone>>

FanOut(c) ==
    /\ reader[c] = "fanout"
    /\ hub' = Publish(hub, c, Frame("PEER_ACTION", work[c]))
    /\ Goto(c, "state")
    /\ UNCHANGED <<version, by, announced, conn, work, writer, last, shown, replies, ctxDone>>

BroadcastState(c) ==
    /\ reader[c] = "state"
    /\ hub' = PublishAll(hub, Frame("TABLE_STATE", work[c]))
    /\ announced' = announced \cup {work[c]}
    /\ Goto(c, "read")
    /\ UNCHANGED <<version, by, conn, work, writer, last, shown, replies, ctxDone>>

-----------------------------------------------------------------------------
(* The writer, and how connections end. *)

WriterStops(c) == writer' = [writer EXCEPT ![c] = "done"]

(* The frame reaches the peer. *)
WriteFrame(c) ==
    /\ writer[c] = "running"
    /\ hub[c] # << >>
    /\ conn[c] = "open"
    /\ LET f == Head(hub[c])
       IN  /\ last' = IF IsAbout(f) THEN [last EXCEPT ![c][by[f.n]] = FrameRank(f)] ELSE last
           /\ shown' = IF f.type = "TABLE_STATE" THEN [shown EXCEPT ![c] = f.n] ELSE shown
    /\ hub' = [hub EXCEPT ![c] = Tail(@)]
    /\ UNCHANGED <<version, by, announced, conn, reader, work, writer, replies, ctxDone>>

(* The write fails: the peer is gone, or the connection was closed here.   *)
(* The TCP writer closes the connection; the WebSocket writer just stops.  *)
WriteFails(c) ==
    /\ writer[c] = "running"
    /\ hub[c] # << >>
    /\ hub' = [hub EXCEPT ![c] = Tail(@)]
    /\ conn' = [conn EXCEPT ![c] = IF c \in Tcp THEN "closed" ELSE @]
    /\ WriterStops(c)
    /\ UNCHANGED <<version, by, announced, reader, work, last, shown, replies, ctxDone>>

(* Only the TCP writer watches the context. *)
WriterSeesCtx(c) ==
    /\ c \in Tcp
    /\ writer[c] = "running"
    /\ ctxDone
    /\ WriterStops(c)
    /\ UNCHANGED <<version, by, announced, hub, conn, reader, work, last, shown, replies, ctxDone>>

(* Fault: the reader leaves the connection open. *)
ReaderExitOpen(c) ==
    /\ reader[c] = "read"
    /\ Goto(c, "exited")
    /\ UNCHANGED <<version, by, announced, hub, conn, work, writer, last, shown, replies, ctxDone>>

(* The peer hangs up, a frame does not decode, a read deadline passes, or  *)
(* the writer closed the connection.  Only the TCP handler closes it       *)
(* before it waits for its writer.                                         *)
ReaderExit(c) ==
    /\ reader[c] = "read"
    /\ conn' = [conn EXCEPT ![c] = IF c \in Tcp THEN "closed" ELSE @]
    /\ Goto(c, "exited")
    /\ UNCHANGED <<version, by, announced, hub, work, writer, last, shown, replies, ctxDone>>

(* <-writerDone, then the deferred Unsubscribe and Close. *)
Finish(c) ==
    /\ reader[c] = "exited"
    /\ writer[c] = "done"
    /\ hub' = Unsubscribe(hub, c)
    /\ conn' = [conn EXCEPT ![c] = "closed"]
    /\ Goto(c, "done")
    /\ UNCHANGED <<version, by, announced, work, writer, last, shown, replies, ctxDone>>

Cancel ==
    /\ ~ctxDone
    /\ ctxDone' = TRUE
    /\ UNCHANGED <<version, by, announced, hub, conn, reader, work, writer, last, shown, replies>>

-----------------------------------------------------------------------------
Dispatching(c) == SendTranscript(c) \/ Ack(c) \/ FanOut(c) \/ BroadcastState(c)
Writing(c) == WriteFrame(c) \/ WriteFails(c) \/ WriterSeesCtx(c)
Reading(c) == ReplyOne(c) \/ ReadTranscript(c) \/ Submit(c)

Next ==
    \/ \E c \in Conns : Accept(c) \/ Reading(c) \/ Dispatching(c) \/ Writing(c)
                          \/ ReaderExit(c) \/ Finish(c)
    \/ Cancel

Spec == Init /\ [][Next]_vars

(* Goroutines that can run do run.  Nothing is assumed of the peers: they  *)
(* need not send anything, nor hang up, and no read deadline is counted on *)
(* (a ReadTimeout of zero sets none, and a peer that sends in time is      *)
(* never cut off); but a reader whose connection has been closed under it  *)
(* gets an error.                                                          *)
Fairness ==
    \A c \in Conns :
        /\ WF_vars(Dispatching(c))
        /\ WF_vars(Writing(c))
        /\ WF_vars(Finish(c))
        /\ WF_vars(conn[c] = "closed" /\ ReaderExit(c))

FairSpec == Spec /\ Fairness

-----------------------------------------------------------------------------
(* Properties. *)

(* What one peer is sent, however connections interleave and whatever is   *)
(* dropped: no frame about an action twice; the answer to an action before *)
(* the state it led to; the action itself to the others only; and the      *)
(* actions of one sender in the order it sent them.                        *)
StreamIsOrdered ==
    \A c \in DOMAIN hub :
        LET s == hub[c]
        IN  \A i \in {k \in DOMAIN s : IsAbout(s[k])} :
              /\ s[i].type = "ACTION_ACCEPTED" => by[s[i].n] = c
              /\ s[i].type = "PEER_ACTION" => by[s[i].n] # c
              /\ last[c][by[s[i].n]] < FrameRank(s[i])
              /\ \A j \in {k \in DOMAIN s : IsAbout(s[k]) /\ k > i} :
                    by[s[i].n] = by[s[j].n] => FrameRank(s[i]) < FrameRank(s[j])

(* Every action the session accepts is announced to the table, even when   *)
(* its sender's queue is full or its sender is gone.                       *)
AcceptedIsAnnounced ==
    \A n \in 1 .. MaxVersion : (version >= n) ~> (n \in announced)

(* After a TCP reader has exited, one more frame in the queue is enough    *)
(* for the connection to be dismantled: the write to the closed socket     *)
(* fails and stops the writer.                                             *)
NextFrameFreesConnection ==
    \A c \in Tcp :
        (reader[c] = "exited" /\ hub[c] # << >>) ~> (reader[c] = "done")

-----------------------------------------------------------------------------
(* What the protocol document says and the code does not do. *)

(* wire-protocol.md: TABLE_STATE carries the current round state.  A peer  *)
(* is never sent an older state after a newer one.                         *)
TableStatesAreCurrent ==
    \A c \in DOMAIN hub :
        \A i \in DOMAIN hub[c] :
            hub[c][i].type = "TABLE_STATE" => shown[c] < hub[c][i].n
=============================================================================
