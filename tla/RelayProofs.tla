---------------------------- MODULE RelayProofs ----------------------------
(* What one peer is sent stays in order, for any number of connections,    *)
(* any queue depth and any number of actions; and what the relay's mempool *)
(* tracker does with the transactions it has relayed.                      *)
EXTENDS Relay, Tracker, TLAPS

FrameTypes == {"REPLY", "TRANSCRIPT_RESPONSE", "ACTION_ACCEPTED", "PEER_ACTION", "TABLE_STATE"}
Frames == [type : FrameTypes, n : Nat]
PcLabels == {"none", "read", "reply", "ack", "fanout", "state", "exited", "done"}

RelayTypes ==
    /\ version \in Nat
    /\ by \in Seq(Conns)
    /\ Len(by) = version
    /\ DOMAIN hub \subseteq Conns
    /\ hub \in [DOMAIN hub -> Seq(Frames)]
    /\ reader \in [Conns -> PcLabels]
    /\ work \in [Conns -> Nat]
    /\ writer \in [Conns -> {"none", "running", "done"}]
    /\ last \in [Conns -> [Conns -> Nat]]

(* A frame about an action is about one the session has accepted. *)
FramesAreAccepted ==
    \A c \in DOMAIN hub : \A k \in DOMAIN hub[c] :
        IsAbout(hub[c][k]) => hub[c][k].n \in 1 .. version

(* A reader that is broadcasting broadcasts an action of its own peer. *)
WorkIsOwn ==
    \A c \in Conns : reader[c] \in {"ack", "fanout", "state"} =>
        work[c] \in 1 .. version /\ by[work[c]] = c

WriterHasQueue == \A c \in Conns : writer[c] = "running" => c \in DOMAIN hub

(* The highest rank a frame about an action of d, queued for c or received *)
(* by it, can have: what d's reader has yet to send comes after it.        *)
Ceiling(c, d, at, w, v) ==
    CASE at[d] = "ack"    -> 2 * w[d] - 1
      [] at[d] = "fanout" -> IF c = d THEN 2 * w[d] ELSE 2 * w[d] - 1
      [] at[d] = "state"  -> 2 * w[d]
      [] OTHER            -> 2 * v + 1

UnderCeiling ==
    /\ \A c, d \in Conns : last[c][d] <= Ceiling(c, d, reader, work, version)
    /\ \A c \in DOMAIN hub : \A k \in DOMAIN hub[c] :
          IsAbout(hub[c][k]) =>
             FrameRank(hub[c][k]) <= Ceiling(c, by[hub[c][k].n], reader, work, version)

(* StreamIsOrdered looks at one queue; why it stays in order is where the  *)
(* sender's reader stands.                                                 *)
StreamInv ==
    /\ RelayTypes
    /\ FramesAreAccepted
    /\ WorkIsOwn
    /\ WriterHasQueue
    /\ UnderCeiling
    /\ StreamIsOrdered

-----------------------------------------------------------------------------
(* Queues. *)

(* One queue in order: StreamIsOrdered, of the queue s for c, which has    *)
(* last received l, when b says who submitted what.                        *)
InOrder(s, c, l, b) ==
    \A i \in {k \in DOMAIN s : IsAbout(s[k])} :
        /\ s[i].type = "ACTION_ACCEPTED" => b[s[i].n] = c
        /\ s[i].type = "PEER_ACTION" => b[s[i].n] # c
        /\ l[b[s[i].n]] < FrameRank(s[i])
        /\ \A j \in {k \in DOMAIN s : IsAbout(s[k]) /\ k > i} :
              b[s[i].n] = b[s[j].n] => FrameRank(s[i]) < FrameRank(s[j])

LEMMA OrderedQueues ==
    StreamIsOrdered <=> \A c \in DOMAIN hub : InOrder(hub[c], c, last[c], by)
BY DEF StreamIsOrdered, InOrder

LEMMA OrderedQueuesNext ==
    StreamIsOrdered' <=> \A c \in DOMAIN hub' : InOrder(hub'[c], c, last'[c], by')
BY DEF StreamIsOrdered, InOrder

LEMMA RankIsNat == \A f \in Frames : FrameRank(f) \in Nat /\ (IsAbout(f) /\ f.n > 0 => FrameRank(f) > 0)
BY DEF Frames, FrameRank

(* Offer appends the frame or drops it. *)
LEMMA OfferIs ==
    ASSUME NEW s \in Seq(Frames), NEW f \in Frames
    PROVE  /\ Offer(s, f) \in Seq(Frames)
           /\ \A k \in DOMAIN Offer(s, f) :
                 \/ k \in DOMAIN s /\ Offer(s, f)[k] = s[k]
                 \/ k = Len(s) + 1 /\ Offer(s, f)[k] = f
<1>1. CASE Len(s) < QueueDepth
  <2>1. Offer(s, f) = Append(s, f)
    BY <1>1 DEF Offer
  <2> QED BY <2>1
<1>2. CASE ~(Len(s) < QueueDepth)
  BY <1>2 DEF Offer
<1> QED BY <1>1, <1>2

(* A frame that ranks above all the queue holds of its sender may follow.  *)
LEMMA OfferInOrder ==
    ASSUME NEW s \in Seq(Frames), NEW f \in Frames, NEW c, NEW l, NEW b,
           InOrder(s, c, l, b),
           IsAbout(f) =>
              /\ f.type = "ACTION_ACCEPTED" => b[f.n] = c
              /\ f.type = "PEER_ACTION" => b[f.n] # c
              /\ l[b[f.n]] < FrameRank(f)
              /\ \A k \in DOMAIN s :
                    IsAbout(s[k]) /\ b[s[k].n] = b[f.n] => FrameRank(s[k]) < FrameRank(f)
    PROVE  InOrder(Offer(s, f), c, l, b)
<1> DEFINE t == Offer(s, f)
<1>0. DOMAIN s = 1 .. Len(s) /\ Len(s) \in Nat
  OBVIOUS
<1>1. \A k \in DOMAIN t : \/ k \in DOMAIN s /\ t[k] = s[k]
                          \/ k = Len(s) + 1 /\ t[k] = f
  BY OfferIs
<1> HIDE DEF t
<1> SUFFICES ASSUME NEW i \in DOMAIN t, IsAbout(t[i])
             PROVE  /\ t[i].type = "ACTION_ACCEPTED" => b[t[i].n] = c
                    /\ t[i].type = "PEER_ACTION" => b[t[i].n] # c
                    /\ l[b[t[i].n]] < FrameRank(t[i])
                    /\ \A j \in {k \in DOMAIN t : IsAbout(t[k]) /\ k > i} :
                          b[t[i].n] = b[t[j].n] => FrameRank(t[i]) < FrameRank(t[j])
  BY DEF InOrder, t
<1>2. CASE i \in DOMAIN s /\ t[i] = s[i]
  <2>1. /\ s[i].type = "ACTION_ACCEPTED" => b[s[i].n] = c
        /\ s[i].type = "PEER_ACTION" => b[s[i].n] # c
        /\ l[b[s[i].n]] < FrameRank(s[i])
        /\ \A j \in DOMAIN s : IsAbout(s[j]) /\ j > i /\ b[s[i].n] = b[s[j].n]
                                 => FrameRank(s[i]) < FrameRank(s[j])
    BY <1>2 DEF InOrder
  <2>2. ASSUME NEW j \in DOMAIN t, IsAbout(t[j]), j > i, b[t[i].n] = b[t[j].n]
        PROVE  FrameRank(t[i]) < FrameRank(t[j])
    <3>1. CASE j \in DOMAIN s /\ t[j] = s[j]
      BY <1>2, <2>1, <2>2, <3>1
    <3>2. CASE t[j] = f
      BY <1>2, <2>2, <3>2
    <3> QED BY <1>1, <3>1, <3>2
  <2> QED BY <1>2, <2>1, <2>2
<1>3. CASE i = Len(s) + 1 /\ t[i] = f
  <2>1. \A j \in DOMAIN t : ~(j > i)
    BY <1>0, <1>1, <1>3
  <2> QED BY <1>3, <2>1
<1> QED BY <1>1, <1>2, <1>3

(* The first frame leaves the queue, received or lost. *)
LEMMA TailInOrder ==
    ASSUME NEW s \in Seq(Frames), s # << >>, NEW c, NEW l, NEW m, NEW b,
           InOrder(s, c, l, b),
           \A k \in DOMAIN s : IsAbout(s[k]) =>
              \/ m[b[s[k].n]] = l[b[s[k].n]]
              \/ /\ IsAbout(s[1]) /\ b[s[1].n] = b[s[k].n]
                 /\ m[b[s[k].n]] = FrameRank(s[1])
    PROVE  InOrder(Tail(s), c, m, b)
<1> DEFINE t == Tail(s)
<1>1. /\ Len(s) \in Nat \ {0} /\ DOMAIN s = 1 .. Len(s)
      /\ DOMAIN t = 1 .. Len(s) - 1
      /\ \A k \in DOMAIN t : k \in Nat /\ k + 1 \in DOMAIN s /\ t[k] = s[k + 1]
      /\ 1 \in DOMAIN s
  OBVIOUS
<1> HIDE DEF t
<1> SUFFICES ASSUME NEW i \in DOMAIN t, IsAbout(t[i])
             PROVE  /\ t[i].type = "ACTION_ACCEPTED" => b[t[i].n] = c
                    /\ t[i].type = "PEER_ACTION" => b[t[i].n] # c
                    /\ m[b[t[i].n]] < FrameRank(t[i])
                    /\ \A j \in {k \in DOMAIN t : IsAbout(t[k]) /\ k > i} :
                          b[t[i].n] = b[t[j].n] => FrameRank(t[i]) < FrameRank(t[j])
  BY DEF InOrder, t
<1>2. i + 1 \in DOMAIN s /\ t[i] = s[i + 1] /\ i + 1 > 1
  BY <1>1
<1>3. \A a \in DOMAIN s : IsAbout(s[a]) =>
        /\ s[a].type = "ACTION_ACCEPTED" => b[s[a].n] = c
        /\ s[a].type = "PEER_ACTION" => b[s[a].n] # c
        /\ l[b[s[a].n]] < FrameRank(s[a])
        /\ \A j \in DOMAIN s : IsAbout(s[j]) /\ j > a /\ b[s[a].n] = b[s[j].n]
                                 => FrameRank(s[a]) < FrameRank(s[j])
  BY DEF InOrder
<1>4. m[b[t[i].n]] < FrameRank(t[i])
  BY <1>1, <1>2, <1>3
<1>5. ASSUME NEW j \in DOMAIN t, IsAbout(t[j]), j > i, b[t[i].n] = b[t[j].n]
      PROVE  FrameRank(t[i]) < FrameRank(t[j])
  <2>1. j + 1 \in DOMAIN s /\ t[j] = s[j + 1] /\ j + 1 > i + 1
    BY <1>1, <1>5
  <2> QED BY <1>2, <1>3, <1>5, <2>1
<1> QED BY <1>2, <1>3, <1>4, <1>5

-----------------------------------------------------------------------------
(* Steps. *)

(* Where the sender's reader stands decides the ceiling. *)
LEMMA CeilingIs ==
    ASSUME NEW c, NEW d, NEW at, NEW w, NEW v
    PROVE  /\ at[d] = "ack" => Ceiling(c, d, at, w, v) = 2 * w[d] - 1
           /\ at[d] = "fanout" =>
                 Ceiling(c, d, at, w, v) = IF c = d THEN 2 * w[d] ELSE 2 * w[d] - 1
           /\ at[d] = "state" => Ceiling(c, d, at, w, v) = 2 * w[d]
           /\ at[d] \notin {"ack", "fanout", "state"} => Ceiling(c, d, at, w, v) = 2 * v + 1
BY DEF Ceiling

LEMMA CeilingIsInt ==
    ASSUME NEW c, NEW d \in Conns, NEW at, NEW w \in [Conns -> Nat], NEW v \in Nat
    PROVE  Ceiling(c, d, at, w, v) \in Int
<1>1. w[d] \in Nat
  OBVIOUS
<1> QED BY <1>1, CeilingIs

(* A step that offers one frame f to the connections To.  When f is about  *)
(* an action, it is the one that d's reader is at: it ranks above what the *)
(* queues hold of d, and not above what they may hold after the step.      *)
LEMMA OfferStep ==
    ASSUME StreamInv, NEW To, NEW f \in Frames, NEW d \in Conns,
           hub' = [x \in DOMAIN hub |-> IF x \in To THEN Offer(hub[x], f) ELSE hub[x]],
           UNCHANGED <<version, by, last>>,
           \A x, e \in Conns :
              /\ Ceiling(x, e, reader', work', version') \in Int
              /\ Ceiling(x, e, reader, work, version) <= Ceiling(x, e, reader', work', version'),
           IsAbout(f) =>
              /\ f.n \in 1 .. version /\ by[f.n] = d
              /\ \A x \in To \cap DOMAIN hub :
                    /\ f.type = "ACTION_ACCEPTED" => x = d
                    /\ f.type = "PEER_ACTION" => x # d
                    /\ Ceiling(x, d, reader, work, version) < FrameRank(f)
                    /\ FrameRank(f) <= Ceiling(x, d, reader', work', version')
    PROVE  /\ DOMAIN hub' \subseteq Conns
           /\ hub' \in [DOMAIN hub' -> Seq(Frames)]
           /\ FramesAreAccepted' /\ UnderCeiling' /\ StreamIsOrdered'
<1> USE DEF StreamInv
<1>0. /\ DOMAIN hub \subseteq Conns
      /\ DOMAIN hub' = DOMAIN hub
      /\ \A c \in DOMAIN hub : hub[c] \in Seq(Frames)
      /\ \A c \in DOMAIN hub : hub'[c] = IF c \in To THEN Offer(hub[c], f) ELSE hub[c]
  BY DEF RelayTypes
<1>1. \A n \in 1 .. version : by[n] \in Conns
  BY DEF RelayTypes
<1>2. ASSUME NEW c \in DOMAIN hub, NEW k \in DOMAIN hub'[c]
      PROVE  \/ k \in DOMAIN hub[c] /\ hub'[c][k] = hub[c][k]
             \/ c \in To /\ hub'[c][k] = f
  BY <1>0, <1>2, OfferIs
<1>3. \A c \in DOMAIN hub : hub'[c] \in Seq(Frames)
  BY <1>0, OfferIs
<1>4. FramesAreAccepted'
  BY <1>0, <1>2 DEF FramesAreAccepted
<1>5. \A c \in DOMAIN hub : \A k \in DOMAIN hub[c] : IsAbout(hub[c][k]) =>
         /\ by[hub[c][k].n] \in Conns
         /\ FrameRank(hub[c][k]) \in Int
         /\ FrameRank(hub[c][k]) <= Ceiling(c, by[hub[c][k].n], reader, work, version)
  BY <1>0, <1>1, RankIsNat DEF FramesAreAccepted, UnderCeiling
<1>6. \A x, e \in Conns : /\ last[x][e] \in Int
                          /\ last[x][e] <= Ceiling(x, e, reader, work, version)
                          /\ Ceiling(x, e, reader, work, version) \in Int
  <2>1. \A x, e \in Conns : last[x][e] \in Int
    BY DEF RelayTypes
  <2>2. \A x, e \in Conns : Ceiling(x, e, reader, work, version) \in Int
    BY CeilingIsInt DEF RelayTypes
  <2> QED BY <2>1, <2>2 DEF UnderCeiling
<1>7. UnderCeiling'
  <2>1. \A x, e \in Conns : last'[x][e] <= Ceiling(x, e, reader', work', version')
    BY <1>6
  <2>2. ASSUME NEW c \in DOMAIN hub, NEW k \in DOMAIN hub'[c], IsAbout(hub'[c][k])
        PROVE  FrameRank(hub'[c][k]) <= Ceiling(c, by[hub'[c][k].n], reader', work', version')
    <3>1. CASE k \in DOMAIN hub[c] /\ hub'[c][k] = hub[c][k]
      <4> DEFINE e == by[hub[c][k].n]
      <4>1. e \in Conns /\ c \in Conns /\ FrameRank(hub[c][k]) \in Int
            /\ FrameRank(hub[c][k]) <= Ceiling(c, e, reader, work, version)
        BY <1>0, <1>5, <2>2, <3>1
      <4>2. /\ Ceiling(c, e, reader, work, version) \in Int
            /\ Ceiling(c, e, reader', work', version') \in Int
            /\ Ceiling(c, e, reader, work, version) <= Ceiling(c, e, reader', work', version')
        BY <1>6, <4>1
      <4>3. FrameRank(hub[c][k]) <= Ceiling(c, e, reader', work', version')
        BY <4>1, <4>2
      <4> QED BY <3>1, <4>3
    <3>2. CASE c \in To /\ hub'[c][k] = f
      BY <2>2, <3>2
    <3> QED BY <1>2, <3>1, <3>2
  <2> QED BY <1>0, <2>1, <2>2 DEF UnderCeiling
<1>8. ASSUME NEW c \in DOMAIN hub PROVE InOrder(hub'[c], c, last[c], by)
  <2>1. InOrder(hub[c], c, last[c], by)
    BY OrderedQueues
  <2>2. CASE c \in To
    <3>1. IsAbout(f) =>
             /\ f.type = "ACTION_ACCEPTED" => by[f.n] = c
             /\ f.type = "PEER_ACTION" => by[f.n] # c
             /\ Ceiling(c, d, reader, work, version) < FrameRank(f) /\ by[f.n] = d
      BY <2>2
    <3>2. /\ c \in Conns /\ FrameRank(f) \in Int /\ Ceiling(c, d, reader, work, version) \in Int
          /\ last[c][d] \in Int /\ last[c][d] <= Ceiling(c, d, reader, work, version)
      BY <1>0, <1>6, RankIsNat
    <3>3. ASSUME IsAbout(f), NEW k \in DOMAIN hub[c], IsAbout(hub[c][k]), by[hub[c][k].n] = d
          PROVE  FrameRank(hub[c][k]) < FrameRank(f)
      <4>1. FrameRank(hub[c][k]) \in Int /\ FrameRank(hub[c][k]) <= Ceiling(c, d, reader, work, version)
        BY <1>5, <3>3
      <4> QED BY <3>1, <3>2, <3>3, <4>1
    <3>4. IsAbout(f) => last[c][by[f.n]] < FrameRank(f)
      BY <3>1, <3>2
    <3> QED BY <1>0, <2>1, <2>2, <3>1, <3>3, <3>4, OfferInOrder
  <2>3. CASE c \notin To
    BY <1>0, <2>1, <2>3
  <2> QED BY <2>2, <2>3
<1>9. StreamIsOrdered'
  BY <1>0, <1>8 DEF StreamIsOrdered, InOrder
<1>10. hub' \in [DOMAIN hub' -> Seq(Frames)]
  BY <1>0, <1>3
<1> QED BY <1>0, <1>10, <1>4, <1>7, <1>9

(* No ceiling is above the frames of the last action. *)
LEMMA CeilingTop ==
    ASSUME RelayTypes, WorkIsOwn, NEW c, NEW d \in Conns
    PROVE  Ceiling(c, d, reader, work, version) <= 2 * version + 1
<1>1. work[d] \in Nat /\ version \in Nat
  BY DEF RelayTypes
<1>2. reader[d] \in {"ack", "fanout", "state"} => work[d] <= version
  BY DEF WorkIsOwn
<1> QED BY <1>1, <1>2, CeilingIs

(* A reader that stops broadcasting brings no ceiling down, ... *)
LEMMA CeilingsRise ==
    ASSUME RelayTypes, WorkIsOwn, NEW c \in Conns, NEW pc,
           pc \notin {"ack", "fanout", "state"},
           reader' = [reader EXCEPT ![c] = pc], version' = version,
           \A e \in Conns \ {c} : work'[e] = work[e]
    PROVE  \A x, e \in Conns : Ceiling(x, e, reader, work, version)
                                 <= Ceiling(x, e, reader', work', version')
<1> SUFFICES ASSUME NEW x \in Conns, NEW e \in Conns
             PROVE  Ceiling(x, e, reader, work, version)
                      <= Ceiling(x, e, reader', work', version')
  OBVIOUS
<1>1. reader \in [Conns -> PcLabels] /\ Ceiling(x, e, reader, work, version) \in Int
  BY CeilingIsInt DEF RelayTypes
<1>2. CASE e = c
  <2>1. reader'[e] = pc
    BY <1>1, <1>2
  <2>2. Ceiling(x, e, reader', work', version') = 2 * version + 1
    BY <2>1 DEF Ceiling
  <2> QED BY <2>2, CeilingTop
<1>3. CASE e # c
  <2>1. reader'[e] = reader[e] /\ work'[e] = work[e]
    BY <1>1, <1>3
  <2>2. Ceiling(x, e, reader', work', version') = Ceiling(x, e, reader, work, version)
    BY <2>1 DEF Ceiling
  <2> QED BY <1>1, <2>2
<1> QED BY <1>2, <1>3

(* ... and neither does one that goes on to its next frame: where all      *)
(* others stand does not matter.                                           *)
LEMMA CeilingsMove ==
    ASSUME RelayTypes, NEW c \in Conns, NEW pc,
           reader' = [reader EXCEPT ![c] = pc], UNCHANGED <<work, version>>,
           \A x \in Conns : Ceiling(x, c, reader, work, version)
                              <= Ceiling(x, c, reader', work', version')
    PROVE  \A x, e \in Conns : Ceiling(x, e, reader, work, version)
                                 <= Ceiling(x, e, reader', work', version')
<1> SUFFICES ASSUME NEW x \in Conns, NEW e \in Conns, e # c
             PROVE  Ceiling(x, e, reader, work, version)
                      <= Ceiling(x, e, reader', work', version')
  OBVIOUS
<1>1. Ceiling(x, e, reader, work, version) \in Int
  BY CeilingIsInt DEF RelayTypes
<1>2. reader'[e] = reader[e] /\ work'[e] = work[e]
  BY DEF RelayTypes
<1>3. Ceiling(x, e, reader', work', version') = Ceiling(x, e, reader, work, version)
  BY <1>2 DEF Ceiling
<1> QED BY <1>1, <1>3

LEMMA LastKept ==
    ASSUME StreamInv, last' = last,
           \A x, e \in Conns : /\ Ceiling(x, e, reader, work, version) \in Int
                               /\ Ceiling(x, e, reader', work', version') \in Int,
           \A x, e \in Conns : Ceiling(x, e, reader, work, version)
                                 <= Ceiling(x, e, reader', work', version')
    PROVE  \A x, e \in Conns : last'[x][e] <= Ceiling(x, e, reader', work', version')
<1>1. \A x, e \in Conns : last[x][e] \in Nat
  BY DEF StreamInv, RelayTypes
<1>2. \A x, e \in Conns : last[x][e] <= Ceiling(x, e, reader, work, version)
  BY DEF StreamInv, UnderCeiling
<1> QED BY <1>1, <1>2

(* A step that leaves the queues alone. *)
LEMMA StillQueues ==
    ASSUME StreamInv, UNCHANGED <<version, by, hub, last>>,
           reader' \in [Conns -> PcLabels],
           work' \in [Conns -> Nat], writer' \in [Conns -> {"none", "running", "done"}],
           \A x, e \in Conns : Ceiling(x, e, reader, work, version)
                                 <= Ceiling(x, e, reader', work', version'),
           WorkIsOwn', WriterHasQueue'
    PROVE  StreamInv'
<1>t. /\ version \in Nat /\ by \in Seq(Conns) /\ Len(by) = version
      /\ DOMAIN hub \subseteq Conns
      /\ work \in [Conns -> Nat] /\ last \in [Conns -> [Conns -> Nat]]
      /\ hub \in [DOMAIN hub -> Seq(Frames)]
  BY DEF StreamInv, RelayTypes
<1>1. \A x, e \in Conns : /\ Ceiling(x, e, reader, work, version) \in Int
                          /\ Ceiling(x, e, reader', work', version') \in Int
  BY <1>t, CeilingIsInt
<1>2. \A x, e \in Conns : last'[x][e] <= Ceiling(x, e, reader', work', version')
  BY <1>t, <1>1, SMTT(30) DEF StreamInv, UnderCeiling
<1>4. ASSUME NEW c \in DOMAIN hub, NEW k \in DOMAIN hub[c], IsAbout(hub[c][k])
      PROVE  FrameRank(hub[c][k]) <= Ceiling(c, by[hub[c][k].n], reader', work', version')
  <2>1. by[hub[c][k].n] \in Conns /\ c \in Conns
    BY <1>4, <1>t DEF StreamInv, FramesAreAccepted
  <2>2. /\ FrameRank(hub[c][k]) \in Int
        /\ FrameRank(hub[c][k]) <= Ceiling(c, by[hub[c][k].n], reader, work, version)
    BY <1>4, <1>t, RankIsNat DEF StreamInv, UnderCeiling
  <2>3. Ceiling(c, by[hub[c][k].n], reader, work, version)
           <= Ceiling(c, by[hub[c][k].n], reader', work', version')
    BY <2>1
  <2>4. /\ Ceiling(c, by[hub[c][k].n], reader, work, version) \in Int
        /\ Ceiling(c, by[hub[c][k].n], reader', work', version') \in Int
    BY <1>1, <2>1
  <2> QED BY <2>2, <2>3, <2>4
<1>5. UnderCeiling'
  BY <1>2, <1>4 DEF UnderCeiling
<1>6. RelayTypes' /\ FramesAreAccepted' /\ StreamIsOrdered'
  BY <1>t DEF StreamInv, RelayTypes, FramesAreAccepted, StreamIsOrdered
<1> QED BY <1>5, <1>6 DEF StreamInv

(* A step that offers frames: what OfferStep leaves open. *)
LEMMA OfferedInv ==
    ASSUME StreamInv,
           DOMAIN hub' = DOMAIN hub,
           hub' \in [DOMAIN hub' -> Seq(Frames)],
           FramesAreAccepted', UnderCeiling', StreamIsOrdered',
           UNCHANGED <<version, by, last, work, writer>>,
           NEW c \in Conns, NEW pc \in PcLabels,
           reader' = [reader EXCEPT ![c] = pc],
           pc \in {"ack", "fanout", "state"} => reader[c] \in {"ack", "fanout", "state"}
    PROVE  StreamInv'
<1>1. RelayTypes'
  BY DEF StreamInv, RelayTypes
<1>2. WriterHasQueue'
  BY DEF StreamInv, WriterHasQueue
<1>3. WorkIsOwn'
  BY DEF StreamInv, WorkIsOwn, RelayTypes
<1> QED BY <1>1, <1>2, <1>3 DEF StreamInv

(* The writer takes a frame: received, or lost with the connection. *)
LEMMA TailStep ==
    ASSUME StreamInv, NEW c \in DOMAIN hub, hub[c] # << >>,
           hub' = [hub EXCEPT ![c] = Tail(@)],
           UNCHANGED <<version, by, reader, work>>,
           \/ last' = last
           \/ /\ IsAbout(hub[c][1])
              /\ last' = [last EXCEPT ![c][by[hub[c][1].n]] = FrameRank(hub[c][1])]
    PROVE  /\ DOMAIN hub' = DOMAIN hub /\ hub' \in [DOMAIN hub' -> Seq(Frames)]
           /\ last' \in [Conns -> [Conns -> Nat]]
           /\ FramesAreAccepted' /\ UnderCeiling' /\ StreamIsOrdered'
<1> DEFINE s == hub[c]
           e == by[s[1].n]
<1>t. /\ hub \in [DOMAIN hub -> Seq(Frames)] /\ DOMAIN hub \subseteq Conns
      /\ last \in [Conns -> [Conns -> Nat]] /\ by \in Seq(Conns) /\ Len(by) = version
      /\ c \in Conns
  BY DEF StreamInv, RelayTypes
<1>1. s \in Seq(Frames) /\ 1 \in DOMAIN s /\ s[1] \in Frames /\ Tail(s) \in Seq(Frames)
  BY <1>t
<1>2. IsAbout(s[1]) => e \in Conns /\ FrameRank(s[1]) \in Nat
                       /\ FrameRank(s[1]) <= Ceiling(c, e, reader, work, version)
  BY <1>t, <1>1, RankIsNat DEF StreamInv, FramesAreAccepted, UnderCeiling
<1> HIDE DEF s
<1>3. /\ DOMAIN hub' = DOMAIN hub
      /\ hub'[c] = Tail(s)
      /\ \A x \in DOMAIN hub \ {c} : hub'[x] = hub[x]
      /\ hub' \in [DOMAIN hub' -> Seq(Frames)]
  BY <1>t, <1>1 DEF s
<1>4. \A k \in DOMAIN Tail(s) : k + 1 \in DOMAIN s /\ Tail(s)[k] = s[k + 1]
  BY <1>1 DEF s
<1> HIDE DEF e
<1>5. /\ last' \in [Conns -> [Conns -> Nat]]
      /\ \A x \in Conns \ {c} : last'[x] = last[x]
      /\ \A d \in Conns : \/ last'[c][d] = last[c][d]
                          \/ IsAbout(s[1]) /\ d = e /\ last'[c][d] = FrameRank(s[1])
  <2>1. CASE last' = last
    BY <1>t, <2>1
  <2>2. CASE IsAbout(s[1]) /\ last' = [last EXCEPT ![c][e] = FrameRank(s[1])]
    BY <1>t, <1>2, <2>2
  <2> QED BY <2>1, <2>2 DEF s, e
<1>6. FramesAreAccepted'
  <2>1. ASSUME NEW x \in DOMAIN hub, NEW k \in DOMAIN hub'[x], IsAbout(hub'[x][k])
        PROVE  hub'[x][k].n \in 1 .. version
    <3>1. CASE x = c
      BY <1>3, <1>4, <2>1, <3>1 DEF s, StreamInv, FramesAreAccepted
    <3>2. CASE x # c
      BY <1>3, <2>1, <3>2 DEF StreamInv, FramesAreAccepted
    <3> QED BY <3>1, <3>2
  <2> QED BY <1>3, <2>1 DEF FramesAreAccepted
<1>7. UnderCeiling'
  <2>1. ASSUME NEW x \in DOMAIN hub, NEW k \in DOMAIN hub'[x], IsAbout(hub'[x][k])
        PROVE  FrameRank(hub'[x][k]) <= Ceiling(x, by[hub'[x][k].n], reader, work, version)
    <3>1. CASE x = c
      BY <1>3, <1>4, <2>1, <3>1 DEF s, StreamInv, UnderCeiling
    <3>2. CASE x # c
      BY <1>3, <2>1, <3>2 DEF StreamInv, UnderCeiling
    <3> QED BY <3>1, <3>2
  <2>2. \A x, d \in Conns : last'[x][d] <= Ceiling(x, d, reader, work, version)
    BY <1>2, <1>5 DEF StreamInv, UnderCeiling
  <2> QED BY <1>3, <2>1, <2>2, ZenonT(30) DEF UnderCeiling
<1>8. ASSUME NEW x \in DOMAIN hub PROVE InOrder(hub'[x], x, last'[x], by)
  <2>1. InOrder(hub[x], x, last[x], by)
    BY OrderedQueues DEF StreamInv
  <2>2. CASE x = c
    <3>1. \A k \in DOMAIN s : IsAbout(s[k]) => by[s[k].n] \in Conns
      <4>1. \A n \in 1 .. version : by[n] \in Conns
        BY <1>t
      <4> QED BY <4>1 DEF s, StreamInv, FramesAreAccepted
    <3>2. \A k \in DOMAIN s : IsAbout(s[k]) =>
             \/ last'[c][by[s[k].n]] = last[c][by[s[k].n]]
             \/ /\ IsAbout(s[1]) /\ by[s[1].n] = by[s[k].n]
                /\ last'[c][by[s[k].n]] = FrameRank(s[1])
      BY <1>5, <3>1 DEF e
    <3>3. InOrder(s, c, last[c], by) /\ s # << >>
      BY <2>1, <2>2 DEF s
    <3>4. InOrder(Tail(s), c, last'[c], by)
      BY <1>1, <3>2, <3>3, TailInOrder
    <3> QED BY <1>3, <2>2, <3>4
  <2>3. CASE x # c
    BY <1>3, <1>5, <1>t, <2>1, <2>3
  <2> QED BY <2>2, <2>3
<1>9. StreamIsOrdered'
  BY <1>3, <1>8, OrderedQueuesNext
<1> QED BY <1>3, <1>5, <1>6, <1>7, <1>9

LEMMA StreamInvNext == StreamInv /\ [Next]_vars => StreamInv'
<1> SUFFICES ASSUME StreamInv, [Next]_vars PROVE StreamInv'
  OBVIOUS
<1>t. /\ version \in Nat /\ by \in Seq(Conns) /\ Len(by) = version
      /\ DOMAIN hub \subseteq Conns
      /\ reader \in [Conns -> PcLabels]
      /\ work \in [Conns -> Nat]
      /\ writer \in [Conns -> {"none", "running", "done"}]
      /\ last \in [Conns -> [Conns -> Nat]]
      /\ hub \in [DOMAIN hub -> Seq(Frames)]
  BY DEF StreamInv, RelayTypes
<1>w. RelayTypes /\ WorkIsOwn /\ WriterHasQueue
  BY DEF StreamInv
<1>i. ASSUME reader' \in [Conns -> PcLabels], work' \in [Conns -> Nat], version' \in Nat
      PROVE  \A x, e \in Conns : Ceiling(x, e, reader', work', version') \in Int
  BY <1>i, CeilingIsInt
<1>reply. /\ Frame("REPLY", 0) \in Frames /\ ~IsAbout(Frame("REPLY", 0))
          /\ \A n \in Nat : /\ Frame("TRANSCRIPT_RESPONSE", n) \in Frames
                            /\ ~IsAbout(Frame("TRANSCRIPT_RESPONSE", n))
  BY DEF Frame, Frames, FrameTypes, IsAbout
<1>about. \A n \in Nat :
             /\ Frame("ACTION_ACCEPTED", n) \in Frames /\ Frame("PEER_ACTION", n) \in Frames
             /\ Frame("TABLE_STATE", n) \in Frames
             /\ FrameRank(Frame("ACTION_ACCEPTED", n)) = 2 * n
             /\ FrameRank(Frame("PEER_ACTION", n)) = 2 * n
             /\ FrameRank(Frame("TABLE_STATE", n)) = 2 * n + 1
  BY DEF Frame, Frames, FrameTypes, FrameRank
<1>send. ASSUME NEW c \in Conns, NEW f
         PROVE  SendTo(hub, c, f) =
                  [x \in DOMAIN hub |-> IF x \in {c} THEN Offer(hub[x], f) ELSE hub[x]]
  BY <1>t DEF SendTo
<1>pub. ASSUME NEW c \in Conns, NEW f
        PROVE  Publish(hub, c, f) =
                 [x \in DOMAIN hub |-> IF x \in Conns \ {c} THEN Offer(hub[x], f) ELSE hub[x]]
  BY <1>t DEF Publish
<1>all. ASSUME NEW f
        PROVE  PublishAll(hub, f) =
                 [x \in DOMAIN hub |-> IF x \in Conns THEN Offer(hub[x], f) ELSE hub[x]]
  BY <1>t DEF PublishAll
<1>pc. {"none", "read", "reply", "ack", "fanout", "state", "exited", "done"} \subseteq PcLabels
  BY DEF PcLabels
<1>2. ASSUME NEW c \in Conns, ReplyOne(c) PROVE StreamInv'
  <2> DEFINE f == Frame("REPLY", 0)
  <2>1. /\ hub' = SendTo(hub, c, f)
        /\ reader[c] = "read"
        /\ UNCHANGED <<version, by, last, work, writer, reader>>
    BY <1>2 DEF ReplyOne
  <2>2. f \in Frames /\ ~IsAbout(f)
    BY <1>reply
  <2> HIDE DEF f
  <2>3. /\ hub' = [x \in DOMAIN hub |-> IF x \in {c} THEN Offer(hub[x], f) ELSE hub[x]]
        /\ reader' = [reader EXCEPT ![c] = "read"]
    BY <1>t, <1>send, <2>1
  <2>4. \A x, e \in Conns : /\ Ceiling(x, e, reader', work', version') \in Int
                            /\ Ceiling(x, e, reader, work, version)
                                 <= Ceiling(x, e, reader', work', version')
    BY <1>t, <1>i, <2>1
  <2>5. /\ hub' \in [DOMAIN hub' -> Seq(Frames)]
        /\ FramesAreAccepted' /\ UnderCeiling' /\ StreamIsOrdered'
    BY <2>1, <2>2, <2>3, <2>4, OfferStep
  <2> QED BY <1>pc, <2>1, <2>3, <2>5, OfferedInv
<1>3. ASSUME NEW c \in Conns, ReadTranscript(c) PROVE StreamInv'
  <2>1. /\ work' = [work EXCEPT ![c] = version] /\ reader' = [reader EXCEPT ![c] = "reply"]
        /\ UNCHANGED <<version, by, hub, last, writer>> /\ reader[c] = "read"
    BY <1>3 DEF ReadTranscript, Goto
  <2>2. \A x, e \in Conns : Ceiling(x, e, reader, work, version)
                                      <= Ceiling(x, e, reader', work', version')
    BY <1>t, <1>w, <2>1, CeilingsRise
  <2>3. WorkIsOwn'
    BY <1>t, <1>w, <2>1 DEF WorkIsOwn
  <2>4. WriterHasQueue'
    BY <1>w, <2>1 DEF WriterHasQueue
  <2> QED BY <1>t, <1>pc, <2>1, <2>2, <2>3, <2>4, StillQueues
<1>4. ASSUME NEW c \in Conns, SendTranscript(c) PROVE StreamInv'
  <2> DEFINE f == Frame("TRANSCRIPT_RESPONSE", work[c])
  <2>1. /\ hub' = SendTo(hub, c, f)
        /\ reader' = [reader EXCEPT ![c] = "read"]
        /\ UNCHANGED <<version, by, last, work, writer>>
    BY <1>4 DEF SendTranscript, Goto
  <2>2. f \in Frames /\ ~IsAbout(f)
    BY <1>t, <1>reply
  <2> HIDE DEF f
  <2>3. hub' = [x \in DOMAIN hub |-> IF x \in {c} THEN Offer(hub[x], f) ELSE hub[x]]
    BY <1>send, <2>1
  <2>4. \A x, e \in Conns : /\ Ceiling(x, e, reader', work', version') \in Int
                            /\ Ceiling(x, e, reader, work, version)
                                 <= Ceiling(x, e, reader', work', version')
    <3>1. reader' \in [Conns -> PcLabels] /\ work' = work /\ version' = version
      BY <1>t, <1>pc, <2>1
    <3> QED BY <1>t, <1>w, <1>i, <2>1, <3>1, CeilingsRise
  <2>5. /\ hub' \in [DOMAIN hub' -> Seq(Frames)]
        /\ FramesAreAccepted' /\ UnderCeiling' /\ StreamIsOrdered'
    BY <2>1, <2>2, <2>3, <2>4, OfferStep
  <2> QED BY <1>pc, <2>1, <2>3, <2>5, OfferedInv
<1>5. ASSUME NEW c \in Conns, Ack(c) PROVE StreamInv'
  <2> DEFINE f == Frame("ACTION_ACCEPTED", work[c])
  <2>1. /\ hub' = SendTo(hub, c, f)
        /\ reader[c] = "ack"
        /\ reader' = [reader EXCEPT ![c] = "fanout"]
        /\ UNCHANGED <<version, by, last, work, writer>>
    BY <1>5 DEF Ack, Goto
  <2>2. /\ f \in Frames /\ f.n = work[c] /\ f.type = "ACTION_ACCEPTED"
        /\ FrameRank(f) = 2 * work[c]
        /\ work[c] \in 1 .. version /\ by[work[c]] = c
        /\ work[c] \in Nat /\ version \in Nat /\ DOMAIN hub \subseteq Conns
    BY <1>t, <1>about, <1>w, <2>1 DEF Frame, WorkIsOwn
  <2> HIDE DEF f
  <2>3. hub' = [x \in DOMAIN hub |-> IF x \in {c} THEN Offer(hub[x], f) ELSE hub[x]]
    BY <1>send, <2>1
  <2>4. \A x \in Conns : /\ Ceiling(x, c, reader, work, version) = 2 * work[c] - 1
                         /\ Ceiling(x, c, reader', work', version')
                              = IF x = c THEN 2 * work[c] ELSE 2 * work[c] - 1
    BY <1>t, <2>1 DEF Ceiling
  <2>5. \A x, e \in Conns : /\ Ceiling(x, e, reader', work', version') \in Int
                            /\ Ceiling(x, e, reader, work, version)
                                 <= Ceiling(x, e, reader', work', version')
    <3>1. reader' \in [Conns -> PcLabels] /\ work' = work /\ version' = version
      BY <1>t, <1>pc, <2>1
    <3>2. \A x \in Conns : Ceiling(x, c, reader, work, version)
                             <= Ceiling(x, c, reader', work', version')
      BY <2>2, <2>4
    <3> QED BY <1>t, <1>w, <1>i, <2>1, <3>1, <3>2, CeilingsMove
  <2>6. IsAbout(f) =>
           /\ f.n \in 1 .. version /\ by[f.n] = c
           /\ \A x \in {c} \cap DOMAIN hub :
                 /\ f.type = "ACTION_ACCEPTED" => x = c
                 /\ f.type = "PEER_ACTION" => x # c
                 /\ Ceiling(x, c, reader, work, version) < FrameRank(f)
                 /\ FrameRank(f) <= Ceiling(x, c, reader', work', version')
    BY <2>2, <2>4
  <2>7. /\ hub' \in [DOMAIN hub' -> Seq(Frames)]
        /\ FramesAreAccepted' /\ UnderCeiling' /\ StreamIsOrdered'
    BY <2>1, <2>2, <2>3, <2>5, <2>6, OfferStep, ZenonT(30)
  <2> QED BY <1>pc, <2>1, <2>3, <2>7, OfferedInv
<1>6. ASSUME NEW c \in Conns, FanOut(c) PROVE StreamInv'
  <2> DEFINE f == Frame("PEER_ACTION", work[c])
             To == Conns \ {c}
  <2>1. /\ hub' = Publish(hub, c, f)
        /\ reader[c] = "fanout"
        /\ reader' = [reader EXCEPT ![c] = "state"]
        /\ UNCHANGED <<version, by, last, work, writer>>
    BY <1>6 DEF FanOut, Goto
  <2>2. /\ f \in Frames /\ f.n = work[c] /\ f.type = "PEER_ACTION"
        /\ FrameRank(f) = 2 * work[c]
        /\ work[c] \in 1 .. version /\ by[work[c]] = c
        /\ work[c] \in Nat /\ version \in Nat /\ DOMAIN hub \subseteq Conns
    BY <1>t, <1>about, <1>w, <2>1 DEF Frame, WorkIsOwn
  <2> HIDE DEF f
  <2>3. hub' = [x \in DOMAIN hub |-> IF x \in To THEN Offer(hub[x], f) ELSE hub[x]]
    BY <1>pub, <2>1
  <2>4. \A x \in Conns : /\ Ceiling(x, c, reader, work, version)
                              = IF x = c THEN 2 * work[c] ELSE 2 * work[c] - 1
                         /\ Ceiling(x, c, reader', work', version') = 2 * work[c]
    BY <1>t, <2>1 DEF Ceiling
  <2>5. \A x, e \in Conns : /\ Ceiling(x, e, reader', work', version') \in Int
                            /\ Ceiling(x, e, reader, work, version)
                                 <= Ceiling(x, e, reader', work', version')
    <3>1. reader' \in [Conns -> PcLabels] /\ work' = work /\ version' = version
      BY <1>t, <1>pc, <2>1
    <3>2. \A x \in Conns : Ceiling(x, c, reader, work, version)
                             <= Ceiling(x, c, reader', work', version')
      BY <2>2, <2>4
    <3> QED BY <1>t, <1>w, <1>i, <2>1, <3>1, <3>2, CeilingsMove
  <2>6. IsAbout(f) =>
           /\ f.n \in 1 .. version /\ by[f.n] = c
           /\ \A x \in To \cap DOMAIN hub :
                 /\ f.type = "ACTION_ACCEPTED" => x = c
                 /\ f.type = "PEER_ACTION" => x # c
                 /\ Ceiling(x, c, reader, work, version) < FrameRank(f)
                 /\ FrameRank(f) <= Ceiling(x, c, reader', work', version')
    BY <2>2, <2>4
  <2> HIDE DEF To
  <2>7. /\ hub' \in [DOMAIN hub' -> Seq(Frames)]
        /\ FramesAreAccepted' /\ UnderCeiling' /\ StreamIsOrdered'
    BY <2>1, <2>2, <2>3, <2>5, <2>6, OfferStep, ZenonT(30)
  <2> QED BY <1>pc, <2>1, <2>3, <2>7, OfferedInv
<1>7. ASSUME NEW c \in Conns, BroadcastState(c) PROVE StreamInv'
  <2> DEFINE f == Frame("TABLE_STATE", work[c])
  <2>1. /\ hub' = PublishAll(hub, f)
        /\ reader[c] = "state"
        /\ reader' = [reader EXCEPT ![c] = "read"]
        /\ UNCHANGED <<version, by, last, work, writer>>
    BY <1>7 DEF BroadcastState, Goto
  <2>2. /\ f \in Frames /\ f.n = work[c] /\ f.type = "TABLE_STATE"
        /\ FrameRank(f) = 2 * work[c] + 1
        /\ work[c] \in 1 .. version /\ by[work[c]] = c
        /\ work[c] \in Nat /\ version \in Nat /\ DOMAIN hub \subseteq Conns
    BY <1>t, <1>about, <1>w, <2>1 DEF Frame, WorkIsOwn
  <2> HIDE DEF f
  <2>3. hub' = [x \in DOMAIN hub |-> IF x \in Conns THEN Offer(hub[x], f) ELSE hub[x]]
    BY <1>all, <2>1
  <2>4. \A x \in Conns : /\ Ceiling(x, c, reader, work, version) = 2 * work[c]
                         /\ Ceiling(x, c, reader', work', version') = 2 * version + 1
    BY <1>t, <2>1 DEF Ceiling
  <2>5. \A x, e \in Conns : /\ Ceiling(x, e, reader', work', version') \in Int
                            /\ Ceiling(x, e, reader, work, version)
                                 <= Ceiling(x, e, reader', work', version')
    <3>1. reader' \in [Conns -> PcLabels] /\ work' = work /\ version' = version
      BY <1>t, <1>pc, <2>1
    <3> QED BY <1>t, <1>w, <1>i, <2>1, <3>1, CeilingsRise
  <2>6. IsAbout(f) =>
           /\ f.n \in 1 .. version /\ by[f.n] = c
           /\ \A x \in Conns \cap DOMAIN hub :
                 /\ f.type = "ACTION_ACCEPTED" => x = c
                 /\ f.type = "PEER_ACTION" => x # c
                 /\ Ceiling(x, c, reader, work, version) < FrameRank(f)
                 /\ FrameRank(f) <= Ceiling(x, c, reader', work', version')
    BY <2>2, <2>4
  <2>7. /\ hub' \in [DOMAIN hub' -> Seq(Frames)]
        /\ FramesAreAccepted' /\ UnderCeiling' /\ StreamIsOrdered'
    BY <2>1, <2>2, <2>3, <2>5, <2>6, OfferStep
  <2> QED BY <1>pc, <2>1, <2>3, <2>7, OfferedInv
<1>1. ASSUME NEW c \in Conns, Accept(c) PROVE StreamInv'
  <2>1. /\ hub' = Subscribe(hub, c)
        /\ reader' = [reader EXCEPT ![c] = "read"]
        /\ writer' = [writer EXCEPT ![c] = "running"]
        /\ UNCHANGED <<version, by, last, work>>
    BY <1>1 DEF Accept
  <2>2. /\ DOMAIN hub' = DOMAIN hub \cup {c}
        /\ hub'[c] = << >>
        /\ \A x \in DOMAIN hub \ {c} : hub'[x] = hub[x]
        /\ hub' \in [DOMAIN hub' -> Seq(Frames)]
    BY <1>t, <2>1 DEF Subscribe
  <2>3. RelayTypes'
    BY <1>t, <1>pc, <2>1, <2>2 DEF RelayTypes
  <2>4. \A x, e \in Conns : Ceiling(x, e, reader, work, version)
                              <= Ceiling(x, e, reader', work', version')
    BY <1>w, <2>1, CeilingsRise
  <2>5. \A x, e \in Conns : /\ Ceiling(x, e, reader, work, version) \in Int
                            /\ Ceiling(x, e, reader', work', version') \in Int
    BY <1>t, <1>pc, <2>1, CeilingIsInt
  <2>6. FramesAreAccepted'
    BY <2>1, <2>2 DEF StreamInv, FramesAreAccepted
  <2>7. UnderCeiling'
    <3>1. \A x, e \in Conns : last'[x][e] <= Ceiling(x, e, reader', work', version')
      BY <2>1, <2>4, <2>5, LastKept
    <3>2. ASSUME NEW x \in DOMAIN hub', NEW k \in DOMAIN hub'[x], IsAbout(hub'[x][k])
          PROVE  FrameRank(hub'[x][k]) <= Ceiling(x, by[hub'[x][k].n], reader', work', version')
      <4>1. x \in DOMAIN hub /\ hub'[x] = hub[x] /\ x \in Conns
        BY <1>t, <2>2, <3>2
      <4>2. by[hub[x][k].n] \in Conns /\ FrameRank(hub[x][k]) \in Int
            /\ FrameRank(hub[x][k]) <= Ceiling(x, by[hub[x][k].n], reader, work, version)
        BY <1>t, <3>2, <4>1, RankIsNat DEF StreamInv, FramesAreAccepted, UnderCeiling
      <4>3. FrameRank(hub[x][k]) <= Ceiling(x, by[hub[x][k].n], reader', work', version')
        BY <2>4, <2>5, <4>1, <4>2
      <4> QED BY <4>1, <4>3
    <3> QED BY <2>1, <3>1, <3>2 DEF UnderCeiling
  <2>8. StreamIsOrdered'
    BY <2>1, <2>2 DEF StreamInv, StreamIsOrdered
  <2>9. WorkIsOwn' /\ WriterHasQueue'
    BY <1>t, <1>w, <2>1, <2>2 DEF WorkIsOwn, WriterHasQueue
  <2> QED BY <2>3, <2>6, <2>7, <2>8, <2>9 DEF StreamInv
<1>8. ASSUME NEW c \in Conns, Submit(c) PROVE StreamInv'
  <2>1. /\ version' = version + 1 /\ by' = Append(by, c)
        /\ work' = [work EXCEPT ![c] = version + 1]
        /\ reader' = [reader EXCEPT ![c] = "ack"] /\ reader[c] = "read"
        /\ UNCHANGED <<hub, writer, last>>
    BY <1>8 DEF Submit, Goto
  <2>2. /\ by' \in Seq(Conns) /\ Len(by') = version + 1 /\ by'[version + 1] = c
        /\ \A n \in 1 .. version : by'[n] = by[n] /\ by[n] \in Conns
    BY <1>t, <2>1
  <2>3. RelayTypes'
    BY <1>t, <1>pc, <2>1, <2>2 DEF RelayTypes
  <2>4. FramesAreAccepted'
    BY <1>t, <2>1 DEF StreamInv, FramesAreAccepted
  <2>5. \A x, e \in Conns : /\ Ceiling(x, e, reader, work, version) \in Int
                            /\ Ceiling(x, e, reader', work', version') \in Int
    BY <1>t, <2>3, CeilingIsInt DEF RelayTypes
  <2>6. ASSUME NEW x \in Conns, NEW e \in Conns
        PROVE  Ceiling(x, e, reader, work, version) <= Ceiling(x, e, reader', work', version')
    <3>1. CASE e = c
      <4>1. reader'[e] = "ack" /\ work'[e] = version + 1 /\ reader[e] = "read"
        BY <1>t, <2>1, <3>1
      <4>2. Ceiling(x, e, reader', work', version') = 2 * (version + 1) - 1
        BY <4>1 DEF Ceiling
      <4>3. Ceiling(x, e, reader, work, version) = 2 * version + 1
        BY <4>1 DEF Ceiling
      <4> QED BY <1>t, <4>2, <4>3, SMTT(30)
    <3>2. CASE e # c
      <4>1. reader'[e] = reader[e] /\ work'[e] = work[e] /\ work[e] \in Nat
        BY <1>t, <2>1, <3>2
      <4>2. CASE reader[e] \in {"ack", "fanout", "state"}
        <5>1. Ceiling(x, e, reader', work', version') = Ceiling(x, e, reader, work, version)
          BY <4>1, <4>2 DEF Ceiling
        <5> QED BY <2>5, <5>1
      <4>3. CASE reader[e] \notin {"ack", "fanout", "state"}
        <5>1. Ceiling(x, e, reader', work', version') = 2 * version' + 1
          BY <4>1, <4>3 DEF Ceiling
        <5>2. Ceiling(x, e, reader, work, version) = 2 * version + 1
          BY <4>3 DEF Ceiling
        <5> QED BY <1>t, <2>1, <5>1, <5>2
      <4> QED BY <4>2, <4>3
    <3> QED BY <3>1, <3>2
  <2>7. UnderCeiling'
    <3>1. \A x, e \in Conns : last'[x][e] <= Ceiling(x, e, reader', work', version')
      BY <2>1, <2>5, <2>6, LastKept
    <3>2. ASSUME NEW x \in DOMAIN hub, NEW k \in DOMAIN hub[x], IsAbout(hub[x][k])
          PROVE  FrameRank(hub[x][k]) <= Ceiling(x, by'[hub[x][k].n], reader', work', version')
      <4>1. x \in Conns /\ by'[hub[x][k].n] = by[hub[x][k].n] /\ by[hub[x][k].n] \in Conns
        BY <1>t, <2>2, <3>2 DEF StreamInv, FramesAreAccepted
      <4>2. FrameRank(hub[x][k]) \in Int
            /\ FrameRank(hub[x][k]) <= Ceiling(x, by[hub[x][k].n], reader, work, version)
        BY <1>t, <3>2, RankIsNat DEF StreamInv, UnderCeiling
      <4>3. FrameRank(hub[x][k]) <= Ceiling(x, by[hub[x][k].n], reader', work', version')
        BY <2>5, <2>6, <4>1, <4>2
      <4> QED BY <4>1, <4>3
    <3> QED BY <2>1, <3>1, <3>2 DEF UnderCeiling
  <2>8. StreamIsOrdered'
    <3>1. \A x \in DOMAIN hub : \A k \in DOMAIN hub[x] :
             IsAbout(hub[x][k]) => by'[hub[x][k].n] = by[hub[x][k].n]
      BY <2>2 DEF StreamInv, FramesAreAccepted
    <3>2. \A x \in DOMAIN hub : InOrder(hub[x], x, last[x], by)
      BY OrderedQueues DEF StreamInv
    <3>3. \A x \in DOMAIN hub : InOrder(hub[x], x, last[x], by')
      BY <3>1, <3>2 DEF InOrder
    <3> QED BY <2>1, <3>3, OrderedQueuesNext
  <2>9. WriterHasQueue'
    BY <1>w, <2>1 DEF WriterHasQueue
  <2>10. WorkIsOwn'
    <3>1. ASSUME NEW x \in Conns, reader'[x] \in {"ack", "fanout", "state"}
          PROVE  work'[x] \in 1 .. version + 1 /\ by'[work'[x]] = x
      <4>1. CASE x = c
        BY <1>t, <2>1, <2>2, <4>1
      <4>2. CASE x # c
        <5>1. reader'[x] = reader[x] /\ work'[x] = work[x]
          BY <1>t, <2>1, <4>2
        <5>2. work[x] \in 1 .. version /\ by[work[x]] = x
          BY <1>w, <3>1, <5>1 DEF WorkIsOwn
        <5> QED BY <1>t, <2>2, <5>1, <5>2
      <4> QED BY <4>1, <4>2
    <3> QED BY <2>1, <3>1 DEF WorkIsOwn
  <2> QED BY <2>3, <2>4, <2>7, <2>8, <2>9, <2>10 DEF StreamInv
<1>9. ASSUME NEW c \in Conns, WriteFrame(c) \/ WriteFails(c) PROVE StreamInv'
  <2>1. /\ writer[c] = "running" /\ hub[c] # << >>
        /\ hub' = [hub EXCEPT ![c] = Tail(@)]
        /\ UNCHANGED <<version, by, reader, work>>
        /\ writer' \in {writer, [writer EXCEPT ![c] = "done"]}
        /\ \/ last' = last
           \/ /\ IsAbout(Head(hub[c]))
              /\ last' = [last EXCEPT ![c][by[Head(hub[c]).n]] = FrameRank(Head(hub[c]))]
    BY <1>9 DEF WriteFrame, WriteFails, WriterStops
  <2>2. c \in DOMAIN hub /\ Head(hub[c]) = hub[c][1]
    BY <1>t, <1>w, <2>1 DEF WriterHasQueue
  <2>3. /\ DOMAIN hub' = DOMAIN hub /\ hub' \in [DOMAIN hub' -> Seq(Frames)]
        /\ last' \in [Conns -> [Conns -> Nat]]
        /\ FramesAreAccepted' /\ UnderCeiling' /\ StreamIsOrdered'
    BY <2>1, <2>2, TailStep
  <2>4. RelayTypes'
    BY <1>t, <2>1, <2>3 DEF RelayTypes
  <2>5. WorkIsOwn' /\ WriterHasQueue'
    BY <1>t, <1>w, <2>1, <2>3 DEF WorkIsOwn, WriterHasQueue
  <2> QED BY <2>3, <2>4, <2>5 DEF StreamInv
<1>10. ASSUME NEW c \in Conns, WriterSeesCtx(c) PROVE StreamInv'
  <2>1. /\ writer' = [writer EXCEPT ![c] = "done"]
        /\ UNCHANGED <<version, by, hub, reader, work, last>>
    BY <1>10 DEF WriterSeesCtx, WriterStops
  <2>2. \A x, e \in Conns : Ceiling(x, e, reader, work, version)
                              <= Ceiling(x, e, reader', work', version')
    <3>1. \A x, e \in Conns : Ceiling(x, e, reader, work, version) \in Int
      BY <1>t, CeilingIsInt
    <3> QED BY <2>1, <3>1
  <2>3. WorkIsOwn' /\ WriterHasQueue'
    BY <1>t, <1>w, <2>1 DEF WorkIsOwn, WriterHasQueue
  <2> QED BY <1>t, <2>1, <2>2, <2>3, StillQueues
<1>11. ASSUME NEW c \in Conns, ReaderExit(c) PROVE StreamInv'
  <2>1. /\ reader' = [reader EXCEPT ![c] = "exited"]
        /\ UNCHANGED <<version, by, hub, work, last, writer>>
    BY <1>11 DEF ReaderExit, Goto
  <2>2. \A x, e \in Conns : Ceiling(x, e, reader, work, version)
                              <= Ceiling(x, e, reader', work', version')
    BY <1>w, <2>1, CeilingsRise
  <2>3. WorkIsOwn' /\ WriterHasQueue'
    BY <1>t, <1>w, <2>1 DEF WorkIsOwn, WriterHasQueue
  <2> QED BY <1>t, <1>pc, <2>1, <2>2, <2>3, StillQueues
<1>12. ASSUME NEW c \in Conns, Finish(c) PROVE StreamInv'
  <2>1. /\ hub' = Restrict(hub, DOMAIN hub \ {c})
        /\ reader' = [reader EXCEPT ![c] = "done"] /\ writer[c] = "done"
        /\ UNCHANGED <<version, by, work, last, writer>>
    BY <1>12 DEF Finish, Unsubscribe, Goto
  <2>2. /\ DOMAIN hub' = DOMAIN hub \ {c}
        /\ \A x \in DOMAIN hub' : hub'[x] = hub[x]
        /\ hub' \in [DOMAIN hub' -> Seq(Frames)]
    BY <1>t, <2>1 DEF Restrict
  <2>3. RelayTypes'
    BY <1>t, <1>pc, <2>1, <2>2 DEF RelayTypes
  <2>4. \A x, e \in Conns : Ceiling(x, e, reader, work, version)
                              <= Ceiling(x, e, reader', work', version')
    BY <1>w, <2>1, CeilingsRise
  <2>5. \A x, e \in Conns : /\ Ceiling(x, e, reader, work, version) \in Int
                            /\ Ceiling(x, e, reader', work', version') \in Int
    BY <1>t, <1>pc, <2>1, CeilingIsInt
  <2>6. FramesAreAccepted'
    BY <2>1, <2>2 DEF StreamInv, FramesAreAccepted
  <2>7. UnderCeiling'
    <3>1. \A x, e \in Conns : last'[x][e] <= Ceiling(x, e, reader', work', version')
      BY <2>1, <2>4, <2>5, LastKept
    <3>2. ASSUME NEW x \in DOMAIN hub', NEW k \in DOMAIN hub'[x], IsAbout(hub'[x][k])
          PROVE  FrameRank(hub'[x][k]) <= Ceiling(x, by[hub'[x][k].n], reader', work', version')
      <4>1. x \in DOMAIN hub /\ hub'[x] = hub[x] /\ x \in Conns
        BY <1>t, <2>2, <3>2
      <4>2. by[hub[x][k].n] \in Conns /\ FrameRank(hub[x][k]) \in Int
            /\ FrameRank(hub[x][k]) <= Ceiling(x, by[hub[x][k].n], reader, work, version)
        BY <1>t, <3>2, <4>1, RankIsNat DEF StreamInv, FramesAreAccepted, UnderCeiling
      <4>3. FrameRank(hub[x][k]) <= Ceiling(x, by[hub[x][k].n], reader', work', version')
        BY <2>4, <2>5, <4>1, <4>2
      <4> QED BY <4>1, <4>3
    <3> QED BY <2>1, <3>1, <3>2 DEF UnderCeiling
  <2>8. StreamIsOrdered'
    <3>1. \A x \in DOMAIN hub : InOrder(hub[x], x, last[x], by)
      BY OrderedQueues DEF StreamInv
    <3> QED BY <2>1, <2>2, <3>1, OrderedQueuesNext
  <2>9. WorkIsOwn' /\ WriterHasQueue'
    BY <1>t, <1>w, <2>1, <2>2 DEF WorkIsOwn, WriterHasQueue
  <2> QED BY <2>3, <2>6, <2>7, <2>8, <2>9 DEF StreamInv
<1>13. ASSUME Cancel \/ UNCHANGED vars PROVE StreamInv'
  <2>1. UNCHANGED <<version, by, hub, reader, work, writer, last>>
    BY <1>13 DEF Cancel, vars
  <2>2. RelayTypes' /\ FramesAreAccepted' /\ WorkIsOwn' /\ WriterHasQueue'
    BY <1>w, <2>1 DEF StreamInv, RelayTypes, FramesAreAccepted, WorkIsOwn, WriterHasQueue
  <2>3. UnderCeiling'
    BY <2>1 DEF StreamInv, UnderCeiling
  <2>4. StreamIsOrdered'
    BY <2>1, OrderedQueues, OrderedQueuesNext DEF StreamInv
  <2> QED BY <2>2, <2>3, <2>4 DEF StreamInv
<1> QED BY <1>1, <1>2, <1>3, <1>4, <1>5, <1>6, <1>7, <1>8, <1>9, <1>10, <1>11, <1>12, <1>13
        DEF Next, Reading, Dispatching, Writing

(* Whatever the connections interleave and the hub drops, a peer receives  *)
(* the frames about one sender's actions once each and in order: for any   *)
(* number of connections and any queue depth.                              *)
THEOREM StreamsAreOrdered == Spec => []StreamIsOrdered
<1>1. Init => StreamInv
  <2> SUFFICES ASSUME Init PROVE StreamInv
    OBVIOUS
  <2>0. DOMAIN hub = {} /\ hub \in [{} -> Seq(Frames)]
    BY DEF Init
  <2>1. RelayTypes
    BY <2>0 DEF Init, RelayTypes, PcLabels
  <2>2. \A c, d \in Conns : last[c][d] <= Ceiling(c, d, reader, work, version)
    <3> SUFFICES ASSUME NEW c \in Conns, NEW d \in Conns
                 PROVE  last[c][d] <= Ceiling(c, d, reader, work, version)
      OBVIOUS
    <3>1. Ceiling(c, d, reader, work, version) = 2 * version + 1
      BY DEF Init, Ceiling
    <3> QED BY <3>1 DEF Init
  <2> QED BY <2>0, <2>1, <2>2 DEF Init, StreamInv, FramesAreAccepted, WorkIsOwn, WriterHasQueue,
             UnderCeiling, StreamIsOrdered
<1>2. StreamInv => StreamIsOrdered
  BY DEF StreamInv
<1> QED BY <1>1, <1>2, StreamInvNext, PTL DEF Spec

-----------------------------------------------------------------------------
(* The mempool tracker of the relay, for any set of transactions and any   *)
(* bound on the rebroadcasts.                                              *)

(* The inductive invariant of the rebroadcast policy. *)
TrackerInv == TrackerTypeOK /\ RecommendedWhenExhausted

(* A broadcast changes the chain alone, and leaves it typed. *)
LEMMA SentType ==
    ASSUME TrackerTypeOK, NEW tx \in TxIds, Sent(tx)
    PROVE  status' \in [TxIds -> Statuses]
BY DEF TrackerTypeOK, Sent, Statuses

(* A new tracker satisfies TrackerInv. *)
LEMMA TrackerInvInit == TrackerInit => TrackerInv
BY TrackerAssumption DEF TrackerInit, TrackerInv, TrackerTypeOK, RecommendedWhenExhausted, Statuses

(* Every observation, relay and change of the chain keeps TrackerInv. *)
LEMMA TrackerInvNext == TrackerInv /\ [TrackerNext]_trackerVars => TrackerInv'
<1> SUFFICES ASSUME TrackerInv, [TrackerNext]_trackerVars PROVE TrackerInv'
    OBVIOUS
<1> USE TrackerAssumption
<1>1. ASSUME NEW tx \in TxIds, Relay(tx) PROVE TrackerInv'
    <2>1. status' \in [TxIds -> Statuses]
        BY <1>1, SentType DEF Relay, TrackerInv, TrackerTypeOK
    <2> QED
        BY <1>1, <2>1 DEF Relay, TrackerInv, TrackerTypeOK, RecommendedWhenExhausted
<1>2. ASSUME NEW tx \in TxIds, ObserveConfirmed(tx) PROVE TrackerInv'
    BY <1>2 DEF ObserveConfirmed, TrackerInv, TrackerTypeOK, RecommendedWhenExhausted
<1>3. ASSUME NEW tx \in TxIds, ObserveEvicted(tx) PROVE TrackerInv'
    <2>1. status' \in [TxIds -> Statuses]
        BY <1>3, SentType DEF ObserveEvicted, TrackerInv
    <2>2. rebroadcasts[tx] + 1 \in 0 .. RebroadcastMax
        BY <1>3 DEF ObserveEvicted, TrackerInv, TrackerTypeOK
    <2>3. TrackerTypeOK'
        BY <1>3, <2>1, <2>2 DEF ObserveEvicted, TrackerInv, TrackerTypeOK
    <2>4. RecommendedWhenExhausted'
        BY <1>3 DEF ObserveEvicted, Missing, TrackerInv, TrackerTypeOK, RecommendedWhenExhausted
    <2> QED
        BY <2>3, <2>4 DEF TrackerInv
<1>4. ASSUME NEW tx \in TxIds, ObserveLost(tx) PROVE TrackerInv'
    <2>1. rebroadcasts[tx] = RebroadcastMax /\ recommended[tx] = 0
        BY <1>4 DEF ObserveLost, Missing, TrackerInv, TrackerTypeOK, RecommendedWhenExhausted
    <2> QED
        BY <1>4, <2>1 DEF ObserveLost, Missing, TrackerInv, TrackerTypeOK, RecommendedWhenExhausted
<1>5. ASSUME Chain PROVE TrackerInv'
    <2>1. status' \in [TxIds -> Statuses]
        BY <1>5 DEF Chain, Mine, Evict, Dropped, TrackerInv, TrackerTypeOK, Statuses
    <2> QED
        BY <1>5, <2>1 DEF Chain, TrackerInv, TrackerTypeOK, RecommendedWhenExhausted
<1>6. ASSUME UNCHANGED trackerVars PROVE TrackerInv'
    BY <1>6 DEF trackerVars, TrackerInv, TrackerTypeOK, RecommendedWhenExhausted
<1> QED
    BY <1>1, <1>2, <1>3, <1>4, <1>5, <1>6 DEF TrackerNext, Observe

(* Observe recommends a recovery for a transaction once, and only after it *)
(* has asked for RebroadcastMax rebroadcasts of it, whatever the chain     *)
(* does: for every set of transactions and every such limit.               *)
THEOREM PolicyCorrect == TrackerSpec => [](TrackerTypeOK /\ RecommendedWhenExhausted)
<1>1. TrackerSpec => []TrackerInv
    BY TrackerInvInit, TrackerInvNext, PTL DEF TrackerSpec
<1> QED
    BY <1>1, PTL DEF TrackerInv

(* A transaction Observe has given up is never broadcast or reported       *)
(* again, however often it is relayed and whatever the chain does with it. *)
THEOREM GivingUpIsFinal == TrackerSpec => GivenUpIsFinal
<1>1. TrackerInv /\ [TrackerNext]_trackerVars => [\A tx \in TxIds : GivenUp(tx)]_trackerVars
    <2> SUFFICES ASSUME TrackerInv, TrackerNext, NEW t \in TxIds PROVE GivenUp(t)
        OBVIOUS
    <2> USE DEF TrackerInv, TrackerTypeOK, GivenUp
    <2>1. ASSUME NEW tx \in TxIds, Relay(tx) PROVE GivenUp(t)
        BY <2>1 DEF Relay
    <2>2. ASSUME NEW tx \in TxIds, ObserveConfirmed(tx) PROVE GivenUp(t)
        BY <2>2 DEF ObserveConfirmed
    <2>3. ASSUME NEW tx \in TxIds, ObserveEvicted(tx) PROVE GivenUp(t)
        BY <2>3 DEF ObserveEvicted, Missing
    <2>4. ASSUME NEW tx \in TxIds, ObserveLost(tx) PROVE GivenUp(t)
        BY <2>4 DEF ObserveLost, Missing
    <2>5. ASSUME Chain PROVE GivenUp(t)
        BY <2>5 DEF Chain
    <2> QED
        BY <2>1, <2>2, <2>3, <2>4, <2>5 DEF TrackerNext, Observe
<1> QED
    BY <1>1, TrackerInvInit, TrackerInvNext, PTL DEF TrackerSpec, GivenUpIsFinal
=============================================================================
