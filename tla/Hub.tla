-------------------------------- MODULE Hub --------------------------------
(***************************************************************************)
(* The fan-out hub of internal/broadcast/hub.go.  A hub is a function from *)
(* the ids of its subscribers to their outbound queues, buffered channels  *)
(* of capacity QueueDepth.  Every method holds the hub's mutex throughout, *)
(* so each is one operator on that function.  Ids come from a counter and  *)
(* are never used again; a subscriber is identified with its connection.   *)
(***************************************************************************)
EXTENDS Naturals, Sequences, Functions

CONSTANT QueueDepth
ASSUME QueueDepthAssumption == QueueDepth \in Nat \ {0}

(* select { case ch <- f: default: }: a full queue drops the frame. *)
Offer(queue, f) == IF Len(queue) < QueueDepth THEN Append(queue, f) ELSE queue

Subscribe(hub, id) ==
    [x \in DOMAIN hub \cup {id} |-> IF x = id THEN << >> ELSE hub[x]]

(* Closing the channel lets the writer drain it; only the handler of id    *)
(* calls this, once its writer has stopped, so nobody reads it again.      *)
Unsubscribe(hub, id) == Restrict(hub, DOMAIN hub \ {id})

Publish(hub, from, f) == [x \in DOMAIN hub |-> IF x = from THEN hub[x] ELSE Offer(hub[x], f)]

PublishAll(hub, f) == [x \in DOMAIN hub |-> Offer(hub[x], f)]

SendTo(hub, id, f) ==
    IF id \in DOMAIN hub THEN [hub EXCEPT ![id] = Offer(@, f)] ELSE hub
=============================================================================
