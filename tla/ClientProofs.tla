---------------------------- MODULE ClientProofs ----------------------------
(* The page's word about its connection, and whose table it shows, for any *)
(* number of connections, clicks and events in any order.                  *)
EXTENDS Client, SessionProofs

-----------------------------------------------------------------------------
(* Sockets. *)

SockFields == {"ready", "attached", "heard", "encoding", "up", "down"}
PageFields == {"state", "connection", "failed", "settlement", "nonce"}

IsSock(s) == DOMAIN s = SockFields
IsPage(p) == DOMAIN p = PageFields

(* A socket the page gave up: it can no longer open, nobody hears it, and  *)
(* nothing it received is still being decoded.                             *)
GivenUp(s) ==
    /\ s.ready \notin {"CONNECTING", "OPEN"}
    /\ ~s.heard
    /\ s.down = << >>

(* Every socket but the one in use was given up, and the one in use is the *)
(* RelayClient's own and heard: whatever gives a socket up also takes it   *)
(* out of use.                                                             *)
SocketInv ==
    /\ IsPage(page)
    /\ IsList(socks)
    /\ relay \in 0 .. Len(socks)
    /\ \A g \in DOMAIN socks : IsSock(socks[g])
    /\ \A g \in DOMAIN socks : g # relay => GivenUp(socks[g])
    /\ relay # 0 => socks[relay].attached /\ socks[relay].heard

LEMMA CloseGivesUp ==
    ASSUME NEW s, IsSock(s), s.attached
    PROVE  /\ IsSock([Close(s) EXCEPT !.heard = FALSE, !.down = << >>])
           /\ GivenUp([Close(s) EXCEPT !.heard = FALSE, !.down = << >>])
           /\ [Close(s) EXCEPT !.heard = FALSE, !.down = << >>].up = s.up
           /\ [Close(s) EXCEPT !.heard = FALSE, !.down = << >>].encoding = s.encoding
<1> DEFINE c == Close(s)
<1>1. IsSock(c) /\ c.ready \notin {"CONNECTING", "OPEN"} /\ c.up = s.up /\ c.encoding = s.encoding
  BY DEF Close, IsSock, SockFields
<1> HIDE DEF c
<1> DEFINE d == [c EXCEPT !.heard = FALSE, !.down = << >>]
<1>2. IsSock(d) /\ d.ready = c.ready /\ ~d.heard /\ d.down = << >> /\ d.up = c.up /\ d.encoding = c.encoding
  BY <1>1 DEF IsSock, SockFields
<1> HIDE DEF d
<1>3. IsSock(d) /\ GivenUp(d) /\ d.up = s.up /\ d.encoding = s.encoding
  BY <1>1, <1>2 DEF GivenUp
<1> QED BY <1>3 DEF c, d

LEMMA DetachGivesUp ==
    ASSUME SocketInv
    PROVE  /\ Detach = [g \in 1 .. Len(socks) |-> Detach[g]]
           /\ \A g \in 1 .. Len(socks) :
                 /\ IsSock(Detach[g]) /\ GivenUp(Detach[g])
                 /\ Detach[g].up = socks[g].up /\ Detach[g].encoding = socks[g].encoding
<1>0. DOMAIN socks = 1 .. Len(socks) /\ Len(socks) \in Nat /\ socks = [g \in 1 .. Len(socks) |-> socks[g]]
  BY DEF SocketInv, IsList
<1>1. CASE relay = 0
  BY <1>0, <1>1 DEF Detach, SocketInv
<1>2. CASE relay # 0
  <2> DEFINE s == socks[relay]
             d == [Close(s) EXCEPT !.heard = FALSE, !.down = << >>]
  <2>1. relay \in 1 .. Len(socks) /\ IsSock(s) /\ s.attached
    BY <1>0, <1>2 DEF SocketInv
  <2>2. Detach = [socks EXCEPT ![relay] = d]
    BY <1>2 DEF Detach
  <2>3. IsSock(d) /\ GivenUp(d) /\ d.up = s.up /\ d.encoding = s.encoding
    BY <2>1, CloseGivesUp
  <2> HIDE DEF d
  <2>4. \A g \in 1 .. Len(socks) : Detach[g] = IF g = relay THEN d ELSE socks[g]
    BY <1>0, <2>1, <2>2
  <2>5. DOMAIN Detach = 1 .. Len(socks) /\ Detach = [g \in DOMAIN Detach |-> Detach[g]]
    BY <1>0, <2>2
  <2>6. \A g \in 1 .. Len(socks) :
           /\ IsSock(Detach[g]) /\ GivenUp(Detach[g])
           /\ Detach[g].up = socks[g].up /\ Detach[g].encoding = socks[g].encoding
    BY <1>0, <2>3, <2>4 DEF SocketInv
  <2> QED BY <2>5, <2>6
<1> QED BY <1>1, <1>2

SameQueues(s, t) == t.encoding = s.encoding /\ t.up = s.up /\ t.down = s.down

(* An event of sockets: none is given up or taken into use. *)
Event ==
    /\ IsPage(page')
    /\ relay' = relay
    /\ DOMAIN socks' = DOMAIN socks /\ socks' = [h \in DOMAIN socks' |-> socks'[h]]
    /\ \A h \in DOMAIN socks :
          /\ IsSock(socks'[h])
          /\ socks'[h].attached = socks[h].attached
          /\ socks'[h].heard = socks[h].heard
          /\ GivenUp(socks[h]) => GivenUp(socks'[h])

LEMMA EventKeeps == ASSUME SocketInv, Event PROVE SocketInv' /\ Len(socks') = Len(socks)
<1> DEFINE n == Len(socks)
<1>1. DOMAIN socks = 1 .. n /\ n \in Nat
  BY DEF SocketInv, IsList
<1> HIDE DEF n
<1>2. socks' = [h \in 1 .. n |-> socks'[h]]
  BY <1>1 DEF Event
<1>3. Len(socks') = n /\ IsList(socks')
  BY <1>1, <1>2, ListIsSeq
<1>4. \A h \in DOMAIN socks' : IsSock(socks'[h])
  BY DEF Event
<1>5. \A h \in DOMAIN socks' : h # relay => GivenUp(socks'[h])
  BY DEF Event, SocketInv
<1>6. relay \in 0 .. n /\ (relay # 0 => socks[relay].attached /\ socks[relay].heard)
  BY DEF SocketInv, n
<1>7. relay # 0 => relay \in 1 .. n
  BY <1>1, <1>6
<1>8. relay # 0 => socks'[relay].attached /\ socks'[relay].heard
  BY <1>1, <1>6, <1>7 DEF Event
<1> QED BY <1>1, <1>3, <1>4, <1>5, <1>6, <1>8 DEF SocketInv, Event, n

(* What Click, Connect and their like do, and what every event does. *)
LEMMA ClickEvent ==
    ASSUME SocketInv, Click
    PROVE  Event /\ page'.connection = page.connection
           /\ \A g \in DOMAIN socks :
                 /\ socks'[g].ready = socks[g].ready
                 /\ socks'[g].up = socks[g].up /\ socks'[g].down = socks[g].down
                 /\ \A f \in socks'[g].encoding \ socks[g].encoding :
                       f.action \in PageActions(page.state)
<1>1. PICK a \in PageActions(page.state) : IF relay = 0 THEN PlayLocally(a) ELSE Send(a)
  BY DEF Click
<1>2. IsPage(page) /\ IsList(socks) /\ \A g \in DOMAIN socks : IsSock(socks[g])
  BY DEF SocketInv
<1>3. CASE relay = 0
  BY <1>1, <1>2, <1>3 DEF PlayLocally, Event, IsPage, PageFields, IsList
<1>4. CASE relay # 0
  <2> DEFINE open == socks[relay].attached /\ socks[relay].ready = "OPEN"
             frame == [action |-> a, nonce |-> page.nonce + 1]
  <2>1. IsPage(page') /\ page'.connection = page.connection /\ relay' = relay
    BY <1>1, <1>2, <1>4 DEF Send, IsPage, PageFields
  <2>2. socks' = IF open THEN [socks EXCEPT ![relay].encoding = @ \cup {frame}] ELSE socks
    BY <1>1, <1>4 DEF Send
  <2> HIDE DEF frame
  <2>3. CASE ~open
    BY <1>2, <2>1, <2>2, <2>3 DEF Event, IsList
  <2>4. CASE open
    <3>1. socks' = [socks EXCEPT ![relay] = [socks[relay] EXCEPT !.encoding = @ \cup {frame}]]
      BY <2>2, <2>4
    <3> DEFINE s == [socks[relay] EXCEPT !.encoding = @ \cup {frame}]
    <3>2. relay \in DOMAIN socks
      BY <1>4 DEF SocketInv, IsList
    <3>3. /\ IsSock(s) /\ s.ready = socks[relay].ready /\ s.attached = socks[relay].attached
          /\ s.heard = socks[relay].heard /\ s.down = socks[relay].down /\ s.up = socks[relay].up
          /\ \A f \in s.encoding \ socks[relay].encoding : f = frame
      BY <1>2, <3>2 DEF IsSock, SockFields
    <3>a. frame.action \in PageActions(page.state)
      BY <1>1 DEF frame
    <3> HIDE DEF s
    <3>4. \A h \in DOMAIN socks : socks'[h] = IF h = relay THEN s ELSE socks[h]
      BY <3>1, <3>2 DEF s
    <3>5. DOMAIN socks' = DOMAIN socks /\ socks' = [h \in DOMAIN socks' |-> socks'[h]]
      BY <3>1
    <3> QED BY <1>2, <2>1, <3>3, <3>a, <3>4, <3>5 DEF Event, GivenUp
  <2> QED BY <2>3, <2>4
<1> QED BY <1>3, <1>4

LEMMA OneSocket ==
    ASSUME SocketInv, NEW g \in DOMAIN socks, NEW s,
           socks' = [socks EXCEPT ![g] = s],
           IsSock(s), s.attached = socks[g].attached, s.heard = socks[g].heard,
           GivenUp(socks[g]) => GivenUp(s),
           IsPage(page'), relay' = relay
    PROVE  Event /\ \A h \in DOMAIN socks : socks'[h] = IF h = g THEN s ELSE socks[h]
<1>1. \A h \in DOMAIN socks : socks'[h] = IF h = g THEN s ELSE socks[h]
  OBVIOUS
<1>2. DOMAIN socks' = DOMAIN socks /\ socks' = [h \in DOMAIN socks' |-> socks'[h]]
  OBVIOUS
<1>3. \A h \in DOMAIN socks : IsSock(socks[h])
  BY DEF SocketInv
<1> QED BY <1>1, <1>2, <1>3 DEF Event

LEMMA OpensEvent ==
    ASSUME SocketInv, NEW g \in DOMAIN socks, Opens(g)
    PROVE  /\ Event /\ g = relay /\ socks'[g].ready = "OPEN" /\ page'.state = page.state
           /\ \A h \in DOMAIN socks : SameQueues(socks[h], socks'[h])
<1>1. IsPage(page) /\ IsSock(socks[g])
  BY DEF SocketInv
<1>2. IsPage(page') /\ page'.state = page.state /\ relay' = relay
  BY <1>1 DEF Opens, IsPage, PageFields
<1> DEFINE s == [socks[g] EXCEPT !.ready = "OPEN"]
<1>3. socks' = [socks EXCEPT ![g] = s]
  BY DEF Opens
<1>4. g = relay /\ ~GivenUp(socks[g])
  BY DEF Opens, SocketInv, GivenUp
<1>5. /\ IsSock(s) /\ s.ready = "OPEN" /\ s.attached = socks[g].attached
      /\ s.heard = socks[g].heard /\ SameQueues(socks[g], s)
  BY <1>1 DEF IsSock, SockFields, SameQueues
<1> HIDE DEF s
<1>6. Event /\ \A h \in DOMAIN socks : socks'[h] = IF h = g THEN s ELSE socks[h]
  BY <1>2, <1>3, <1>4, <1>5, OneSocket
<1>7. \A h \in DOMAIN socks : SameQueues(socks[h], socks'[h])
  BY <1>5, <1>6 DEF SameQueues
<1> QED BY <1>2, <1>4, <1>5, <1>6, <1>7

LEMMA FailsEvent ==
    ASSUME SocketInv, NEW g \in DOMAIN socks, Fails(g)
    PROVE  /\ Event /\ page'.connection # "online" /\ page'.state = page.state
           /\ \A h \in DOMAIN socks : SameQueues(socks[h], socks'[h])
<1>1. IsPage(page) /\ IsSock(socks[g])
  BY DEF SocketInv
<1>2. IsPage(page') /\ page'.state = page.state /\ relay' = relay /\ page'.connection # "online"
  BY <1>1 DEF Fails, IsPage, PageFields
<1> DEFINE s == [socks[g] EXCEPT !.ready = "CLOSED"]
<1>3. socks' = [socks EXCEPT ![g] = s]
  BY DEF Fails
<1>4. /\ IsSock(s) /\ s.ready = "CLOSED" /\ s.attached = socks[g].attached
      /\ s.heard = socks[g].heard /\ SameQueues(socks[g], s)
  BY <1>1 DEF IsSock, SockFields, SameQueues
<1> HIDE DEF s
<1>5. GivenUp(socks[g]) => GivenUp(s)
  BY <1>4 DEF GivenUp, SameQueues
<1>6. Event /\ \A h \in DOMAIN socks : socks'[h] = IF h = g THEN s ELSE socks[h]
  BY <1>2, <1>3, <1>4, <1>5, OneSocket
<1>7. \A h \in DOMAIN socks : SameQueues(socks[h], socks'[h])
  BY <1>4, <1>6 DEF SameQueues
<1> QED BY <1>2, <1>6, <1>7

(* A socket in use that closes is heard to close. *)
LEMMA ClosesEvent ==
    ASSUME SocketInv, NEW g \in DOMAIN socks, Closes(g)
    PROVE  /\ Event /\ page'.state = page.state
           /\ page'.connection # "online" \/ (page' = page /\ g # relay)
           /\ \A h \in DOMAIN socks : h # g => socks'[h] = socks[h]
           /\ \E arrived \in 0 .. Len(socks[g].down) : socks'[g].down = SubSeq(socks[g].down, 1, arrived)
           /\ socks'[g].up \in {<< >>, socks[g].up} /\ socks'[g].encoding = socks[g].encoding
<1>1. IsPage(page) /\ IsSock(socks[g])
  BY DEF SocketInv
<1>2. PICK error \in BOOLEAN, arrived \in 0 .. Len(socks[g].down) :
         /\ socks' = [socks EXCEPT ![g].ready = "CLOSED",
                                   ![g].up = IF error THEN << >> ELSE @,
                                   ![g].down = SubSeq(@, 1, arrived)]
         /\ page' = IF socks[g].heard
                    THEN [page EXCEPT !.connection = "offline", !.failed = @ \/ error]
                    ELSE page
  BY DEF Closes
<1>3. /\ IsPage(page') /\ page'.state = page.state /\ relay' = relay
      /\ page'.connection # "online" \/ (page' = page /\ ~socks[g].heard)
  BY <1>1, <1>2 DEF Closes, IsPage, PageFields
<1>4. ~socks[g].heard => g # relay
  BY DEF SocketInv, IsList
<1> DEFINE s1 == [socks[g] EXCEPT !.ready = "CLOSED"]
           s2 == [s1 EXCEPT !.up = IF error THEN << >> ELSE @]
           s == [s2 EXCEPT !.down = SubSeq(@, 1, arrived)]
           t1 == [socks EXCEPT ![g] = s1]
           t2 == [t1 EXCEPT ![g] = s2]
<1>5. socks' = [t2 EXCEPT ![g] = s]
  BY <1>2
<1>6. /\ IsSock(s) /\ s.ready = "CLOSED" /\ s.attached = socks[g].attached
      /\ s.heard = socks[g].heard /\ s.down = SubSeq(socks[g].down, 1, arrived)
      /\ s.up \in {<< >>, socks[g].up} /\ s.encoding = socks[g].encoding
  BY <1>1 DEF IsSock, SockFields
<1>7. GivenUp(socks[g]) => GivenUp(s)
  <2> HIDE DEF s
  <2>1. SUFFICES ASSUME socks[g].down = << >> PROVE s.down = << >>
    BY <1>6 DEF GivenUp
  <2>2. arrived = 0
    BY <2>1
  <2> QED BY <1>6, <2>1, <2>2
<1>8. socks' = [socks EXCEPT ![g] = s]
  <2> HIDE DEF s, s1, s2
  <2> QED BY <1>5
<1> HIDE DEF s
<1>9. Event /\ \A h \in DOMAIN socks : socks'[h] = IF h = g THEN s ELSE socks[h]
  BY <1>3, <1>6, <1>7, <1>8, OneSocket
<1> QED BY <1>3, <1>4, <1>6, <1>9

LEMMA EncodedEvent ==
    ASSUME SocketInv, NEW g \in DOMAIN socks, Encoded(g)
    PROVE  /\ Event /\ page'.connection = page.connection /\ page'.state = page.state
           /\ \A h \in DOMAIN socks : socks'[h].ready = socks[h].ready /\ socks'[h].down = socks[h].down
           /\ \A h \in DOMAIN socks : h # g => socks'[h] = socks[h]
           /\ \E frame \in socks[g].encoding :
                 /\ socks'[g].encoding = socks[g].encoding \ {frame}
                 /\ socks'[g].up \in {socks[g].up, Append(socks[g].up, frame)}
<1>1. IsPage(page) /\ IsSock(socks[g])
  BY DEF SocketInv
<1>2. PICK frame \in socks[g].encoding :
         socks' = [socks EXCEPT ![g].encoding = @ \ {frame},
                                ![g].up = IF socks[g].attached /\ socks[g].ready = "OPEN"
                                          THEN Append(@, frame) ELSE @]
  BY DEF Encoded
<1>3. /\ IsPage(page') /\ page'.connection = page.connection
      /\ page'.state = page.state /\ relay' = relay
  BY <1>1 DEF Encoded, IsPage, PageFields
<1> DEFINE sends == socks[g].attached /\ socks[g].ready = "OPEN"
           s1 == [socks[g] EXCEPT !.encoding = @ \ {frame}]
           s == [s1 EXCEPT !.up = IF sends THEN Append(@, frame) ELSE @]
           t1 == [socks EXCEPT ![g] = s1]
<1>4. socks' = [t1 EXCEPT ![g] = s]
  BY <1>2
<1>5. /\ IsSock(s) /\ s.ready = socks[g].ready /\ s.attached = socks[g].attached
      /\ s.heard = socks[g].heard /\ s.down = socks[g].down
      /\ s.encoding = socks[g].encoding \ {frame}
      /\ s.up \in {socks[g].up, Append(socks[g].up, frame)}
  BY <1>1 DEF IsSock, SockFields
<1>6. socks' = [socks EXCEPT ![g] = s]
  <2> HIDE DEF s, s1
  <2> QED BY <1>4
<1> HIDE DEF s
<1>7. GivenUp(socks[g]) => GivenUp(s)
  BY <1>5 DEF GivenUp
<1>8. Event /\ \A h \in DOMAIN socks : socks'[h] = IF h = g THEN s ELSE socks[h]
  BY <1>3, <1>5, <1>6, <1>7, OneSocket
<1> QED BY <1>3, <1>5, <1>8

(* Only the socket in use has anything to decode. *)
LEMMA DecodedEvent ==
    ASSUME SocketInv, NEW g \in DOMAIN socks, Decoded(g)
    PROVE  /\ Event /\ page'.connection = page.connection /\ g = relay
           /\ \A h \in DOMAIN socks : socks'[h].ready = socks[h].ready
           /\ \A h \in DOMAIN socks : h # g => socks'[h] = socks[h]
           /\ socks'[g].up = socks[g].up /\ socks'[g].encoding = socks[g].encoding
           /\ \E i \in DOMAIN socks[g].down :
                 /\ socks'[g].down = RemoveAt(socks[g].down, i)
                 /\ page'.state # page.state =>
                       page'.state = socks[g].down[i] /\ socks[g].down[i] # Null
<1>1. IsPage(page) /\ IsSock(socks[g])
  BY DEF SocketInv
<1>2. PICK i \in DOMAIN socks[g].down :
         LET frame == socks[g].down[i]
         IN  /\ socks' = [socks EXCEPT ![g].down = RemoveAt(@, i)]
             /\ page' = IF frame = Null THEN [page EXCEPT !.failed = TRUE]
                        ELSE [page EXCEPT !.state = frame, !.failed = FALSE]
  BY DEF Decoded
<1>3. socks[g].down # << >>
  BY <1>2
<1>4. g = relay /\ ~GivenUp(socks[g])
  BY <1>3 DEF SocketInv, GivenUp
<1>7. /\ IsPage(page') /\ page'.connection = page.connection /\ relay' = relay
      /\ page'.state # page.state => page'.state = socks[g].down[i] /\ socks[g].down[i] # Null
  <2>1. relay' = relay
    BY DEF Decoded
  <2>2. CASE socks[g].down[i] = Null
    <3>1. page' = [page EXCEPT !.failed = TRUE]
      BY <1>2, <2>2
    <3> QED BY <1>1, <2>1, <3>1 DEF IsPage, PageFields
  <2>3. CASE socks[g].down[i] # Null
    <3>1. page' = [page EXCEPT !.state = socks[g].down[i], !.failed = FALSE]
      BY <1>2, <2>3
    <3> QED BY <1>1, <2>1, <2>3, <3>1 DEF IsPage, PageFields
  <2> QED BY <2>2, <2>3
<1> DEFINE s == [socks[g] EXCEPT !.down = RemoveAt(@, i)]
<1>8. socks' = [socks EXCEPT ![g] = s]
  BY <1>2
<1>9. /\ IsSock(s) /\ s.ready = socks[g].ready /\ s.attached = socks[g].attached
      /\ s.heard = socks[g].heard /\ s.up = socks[g].up /\ s.encoding = socks[g].encoding
      /\ s.down = RemoveAt(socks[g].down, i)
  BY <1>1 DEF IsSock, SockFields
<1> HIDE DEF s
<1>10. Event /\ \A h \in DOMAIN socks : socks'[h] = IF h = g THEN s ELSE socks[h]
  BY <1>4, <1>7, <1>8, <1>9, OneSocket
<1> QED BY <1>4, <1>7, <1>9, <1>10

LEMMA AnnounceKeeps ==
    ASSUME NEW ss, \A g \in DOMAIN ss : IsSock(ss[g]), NEW state, NEW r, r = Announce(ss, state)
    PROVE  /\ DOMAIN r = DOMAIN ss /\ r = [g \in DOMAIN r |-> r[g]]
           /\ \A g \in DOMAIN ss :
                 /\ IsSock(r[g]) /\ r[g].ready = ss[g].ready /\ r[g].attached = ss[g].attached
                 /\ r[g].heard = ss[g].heard
                 /\ r[g].up = ss[g].up /\ r[g].encoding = ss[g].encoding
                 /\ r[g].down = IF ss[g].heard /\ ss[g].ready = "OPEN"
                                THEN Append(ss[g].down, state) ELSE ss[g].down
<1>1. DOMAIN r = DOMAIN ss /\ r = [g \in DOMAIN r |-> r[g]]
  BY DEF Announce
<1>2. ASSUME NEW g \in DOMAIN ss
      PROVE  /\ IsSock(r[g]) /\ r[g].ready = ss[g].ready /\ r[g].attached = ss[g].attached
             /\ r[g].heard = ss[g].heard
             /\ r[g].up = ss[g].up /\ r[g].encoding = ss[g].encoding
             /\ r[g].down = IF ss[g].heard /\ ss[g].ready = "OPEN"
                            THEN Append(ss[g].down, state) ELSE ss[g].down
  <2> DEFINE told == ss[g].heard /\ ss[g].ready = "OPEN"
  <2>1. r[g] = IF told THEN [ss[g] EXCEPT !.down = Append(@, state)] ELSE ss[g]
    BY DEF Announce
  <2>2. CASE told
    <3>1. r[g] = [ss[g] EXCEPT !.down = Append(ss[g].down, state)]
      BY <2>1, <2>2
    <3> QED BY <2>2, <3>1 DEF IsSock, SockFields
  <2>3. CASE ~told
    <3>1. r[g] = ss[g]
      BY <2>1, <2>3
    <3> QED BY <2>3, <3>1
  <2> QED BY <2>2, <2>3
<1> QED BY <1>1, <1>2

LEMMA PeerActsEvent ==
    ASSUME SocketInv, PeerActs
    PROVE  /\ Event /\ page' = page
           /\ \A h \in DOMAIN socks :
                 /\ socks'[h].ready = socks[h].ready
                 /\ socks'[h].up = socks[h].up /\ socks'[h].encoding = socks[h].encoding
                 /\ socks'[h].down \in {socks[h].down, Append(socks[h].down, st')}
<1>1. IsPage(page) /\ \A g \in DOMAIN socks : IsSock(socks[g])
  BY DEF SocketInv
<1>2. page' = page /\ relay' = relay /\ socks' = Announce(socks, st')
  BY DEF PeerActs
<1>3. \A g \in DOMAIN socks : GivenUp(socks[g]) => ~socks[g].heard
  BY DEF GivenUp
<1>4. /\ DOMAIN socks' = DOMAIN socks /\ socks' = [g \in DOMAIN socks' |-> socks'[g]]
      /\ \A g \in DOMAIN socks :
            /\ IsSock(socks'[g]) /\ socks'[g].ready = socks[g].ready
            /\ socks'[g].attached = socks[g].attached
            /\ socks'[g].heard = socks[g].heard
            /\ socks'[g].up = socks[g].up /\ socks'[g].encoding = socks[g].encoding
            /\ socks'[g].down = IF socks[g].heard /\ socks[g].ready = "OPEN"
                                THEN Append(socks[g].down, st') ELSE socks[g].down
  BY <1>1, <1>2, AnnounceKeeps
<1>5. Event
  BY <1>1, <1>2, <1>3, <1>4 DEF Event, GivenUp
<1> QED BY <1>2, <1>4, <1>5

LEMMA RelayHandlesEvent ==
    ASSUME SocketInv, NEW g \in DOMAIN socks, RelayHandles(g)
    PROVE  /\ Event /\ page' = page
           /\ \A h \in DOMAIN socks :
                 /\ socks'[h].ready = socks[h].ready
                 /\ socks'[h].up = IF h = g THEN Tail(socks[h].up) ELSE socks[h].up
                 /\ socks'[h].encoding = socks[h].encoding
                 /\ socks'[h].down \in
                       {socks[h].down, Append(socks[h].down, Null), Append(socks[h].down, st')}
           /\ \/ /\ UNCHANGED sessionVars
                 /\ \A h \in DOMAIN socks : socks'[h].down \in {socks[h].down, Append(socks[h].down, Null)}
              \/ /\ RelayTakes(Head(socks[g].up))
                 /\ Submit(Head(socks[g].up).action, Head(socks[g].up).nonce, PageHeight)
<1> DEFINE s == [socks[g] EXCEPT !.up = Tail(@)]
           rest == [socks EXCEPT ![g] = s]
           frame == Head(socks[g].up)
<1>1. IsPage(page) /\ \A h \in DOMAIN socks : IsSock(socks[h])
  BY DEF SocketInv
<1>2. rest = [socks EXCEPT ![g].up = Tail(@)]
  OBVIOUS
<1>3. /\ IsSock(s) /\ s.ready = socks[g].ready /\ s.attached = socks[g].attached
      /\ s.heard = socks[g].heard /\ s.up = Tail(socks[g].up)
      /\ s.encoding = socks[g].encoding /\ s.down = socks[g].down
  BY <1>1 DEF IsSock, SockFields
<1> HIDE DEF s
<1>4. /\ DOMAIN rest = DOMAIN socks
      /\ \A h \in DOMAIN socks : rest[h] = IF h = g THEN s ELSE socks[h]
      /\ rest = [h \in DOMAIN socks |-> rest[h]]
  OBVIOUS
<1>5. page' = page /\ relay' = relay
  BY DEF RelayHandles
<1>6. \/ /\ RelayTakes(frame)
         /\ Submit(frame.action, frame.nonce, PageHeight)
         /\ socks' = Announce(rest, st')
      \/ /\ socks' = [rest EXCEPT ![g].down = IF socks[g].heard THEN Append(@, Null) ELSE @]
         /\ UNCHANGED sessionVars
  BY <1>2 DEF RelayHandles
<1> HIDE DEF rest
<1>7. \A h \in DOMAIN rest :
         /\ IsSock(rest[h]) /\ rest[h].ready = socks[h].ready
         /\ rest[h].attached = socks[h].attached /\ rest[h].heard = socks[h].heard
         /\ rest[h].up = (IF h = g THEN Tail(socks[h].up) ELSE socks[h].up)
         /\ rest[h].encoding = socks[h].encoding /\ rest[h].down = socks[h].down
  BY <1>1, <1>3, <1>4
<1>8. CASE /\ RelayTakes(frame)
           /\ Submit(frame.action, frame.nonce, PageHeight)
           /\ socks' = Announce(rest, st')
  <2>1. /\ DOMAIN socks' = DOMAIN rest /\ socks' = [h \in DOMAIN socks' |-> socks'[h]]
        /\ \A h \in DOMAIN rest :
              /\ IsSock(socks'[h]) /\ socks'[h].ready = rest[h].ready
              /\ socks'[h].attached = rest[h].attached
              /\ socks'[h].heard = rest[h].heard
              /\ socks'[h].up = rest[h].up /\ socks'[h].encoding = rest[h].encoding
              /\ socks'[h].down = IF rest[h].heard /\ rest[h].ready = "OPEN"
                                  THEN Append(rest[h].down, st') ELSE rest[h].down
    <3>1. \A h \in DOMAIN rest : IsSock(rest[h])
      BY <1>7
    <3> QED BY <1>8, <3>1, AnnounceKeeps
  <2>2. Event
    BY <1>1, <1>4, <1>5, <1>7, <2>1 DEF Event, GivenUp
  <2>3. \A h \in DOMAIN socks :
                 /\ socks'[h].ready = socks[h].ready
                 /\ socks'[h].up = IF h = g THEN Tail(socks[h].up) ELSE socks[h].up
                 /\ socks'[h].encoding = socks[h].encoding
                 /\ socks'[h].down \in {socks[h].down, Append(socks[h].down, st')}
    <3> SUFFICES ASSUME NEW h \in DOMAIN socks
                 PROVE  /\ socks'[h].ready = socks[h].ready
                        /\ socks'[h].up = IF h = g THEN Tail(socks[h].up) ELSE socks[h].up
                        /\ socks'[h].encoding = socks[h].encoding
                        /\ socks'[h].down \in {socks[h].down, Append(socks[h].down, st')}
      OBVIOUS
    <3>1. h \in DOMAIN rest
      BY <1>4
    <3>2. /\ rest[h].ready = socks[h].ready
          /\ rest[h].up = IF h = g THEN Tail(socks[h].up) ELSE socks[h].up
          /\ rest[h].encoding = socks[h].encoding /\ rest[h].down = socks[h].down
      BY <1>7, <3>1
    <3>3. /\ socks'[h].ready = rest[h].ready
          /\ socks'[h].up = rest[h].up /\ socks'[h].encoding = rest[h].encoding
          /\ socks'[h].down \in {rest[h].down, Append(rest[h].down, st')}
      BY <2>1, <3>1
    <3> QED BY <3>2, <3>3
  <2> QED BY <1>5, <1>8, <2>2, <2>3
<1>9. CASE /\ socks' = [rest EXCEPT ![g].down = IF socks[g].heard THEN Append(@, Null) ELSE @]
           /\ UNCHANGED sessionVars
  <2> DEFINE d == [rest[g] EXCEPT !.down = IF socks[g].heard THEN Append(@, Null) ELSE @]
  <2>1. socks' = [rest EXCEPT ![g] = d]
    BY <1>9
  <2>2. /\ IsSock(d) /\ d.ready = rest[g].ready /\ d.attached = rest[g].attached
        /\ d.heard = rest[g].heard /\ d.up = rest[g].up /\ d.encoding = rest[g].encoding
        /\ d.down = (IF socks[g].heard THEN Append(rest[g].down, Null) ELSE rest[g].down)
    BY <1>4, <1>7 DEF IsSock, SockFields
  <2> HIDE DEF d
  <2>3. /\ DOMAIN socks' = DOMAIN socks /\ socks' = [h \in DOMAIN socks' |-> socks'[h]]
        /\ \A h \in DOMAIN socks : socks'[h] = IF h = g THEN d ELSE rest[h]
    BY <1>4, <2>1
  <2>4. Event
    BY <1>1, <1>4, <1>5, <1>7, <2>2, <2>3 DEF Event, GivenUp
  <2>5. \A h \in DOMAIN socks :
                 /\ socks'[h].ready = socks[h].ready
                 /\ socks'[h].up = IF h = g THEN Tail(socks[h].up) ELSE socks[h].up
                 /\ socks'[h].encoding = socks[h].encoding
                 /\ socks'[h].down \in {socks[h].down, Append(socks[h].down, Null)}
    BY <1>4, <1>7, <2>2, <2>3, ZenonT(30)
  <2> QED BY <1>5, <1>9, <2>4, <2>5
<1> QED BY <1>6, <1>8, <1>9

(* Disconnect and Reset: nothing is in use any more. *)
LEMMA DetachKeeps ==
    ASSUME SocketInv, socks' = Detach, relay' = 0, IsPage(page')
    PROVE  SocketInv'
<1> DEFINE n == Len(socks)
<1>1. n \in Nat
  BY DEF SocketInv, IsList
<1>2. /\ socks' = [g \in 1 .. n |-> socks'[g]]
      /\ \A g \in 1 .. n : IsSock(socks'[g]) /\ GivenUp(socks'[g])
  BY DetachGivesUp
<1> HIDE DEF n
<1>3. Len(socks') = n /\ IsList(socks') /\ DOMAIN socks' = 1 .. n
  BY <1>1, <1>2, ListIsSeq
<1> QED BY <1>1, <1>2, <1>3 DEF SocketInv

(* Connect: the old RelayClient is given up before the new one is used. *)
LEMMA ConnectKeeps ==
    ASSUME SocketInv, NEW ready \in {"CONNECTING", "CLOSED"},
           socks' = Append(Detach, NewSock(ready)), relay' = Len(socks) + 1, IsPage(page')
    PROVE  /\ SocketInv' /\ DOMAIN socks = 1 .. Len(socks)
           /\ DOMAIN socks' = 1 .. Len(socks) + 1
           /\ \A g \in DOMAIN socks : socks'[g] = Detach[g]
           /\ socks'[Len(socks) + 1] = NewSock(ready)
<1> DEFINE n == Len(socks)
           S == {Detach[g] : g \in 1 .. n} \cup {NewSock(ready)}
<1>1. n \in Nat /\ DOMAIN socks = 1 .. n
  BY DEF SocketInv, IsList
<1>2. /\ Detach = [g \in 1 .. n |-> Detach[g]]
      /\ \A g \in 1 .. n : IsSock(Detach[g]) /\ GivenUp(Detach[g])
  BY DetachGivesUp
<1> HIDE DEF n
<1>3. Detach \in Seq({Detach[g] : g \in 1 .. n}) /\ Len(Detach) = n
  BY <1>1, <1>2, ListIsSeq
<1>4. Detach \in Seq(S) /\ NewSock(ready) \in S
  BY <1>3
<1> HIDE DEF S
<1>5. /\ socks' \in Seq(S) /\ Len(socks') = n + 1
      /\ \A g \in 1 .. n : socks'[g] = Detach[g]
      /\ socks'[n + 1] = NewSock(ready)
  BY <1>1, <1>3, <1>4
<1>6. IsList(socks') /\ DOMAIN socks' = 1 .. n + 1
  <2>1. n + 1 \in Nat /\ DOMAIN socks' = 1 .. n + 1 /\ socks' = [g \in DOMAIN socks' |-> socks'[g]]
    <3>1. n + 1 \in Nat /\ DOMAIN socks' = 1 .. n + 1
      BY <1>1, <1>5
    <3> DEFINE q == socks'
    <3>2. q \in Seq(S)
      BY <1>5
    <3> HIDE DEF q
    <3>3. q \in [1 .. Len(q) -> S]
      BY <3>2
    <3>4. q = [g \in DOMAIN q |-> q[g]]
      BY <3>3
    <3> QED BY <3>1, <3>4 DEF q
  <2> DEFINE m == n + 1
  <2>2. m \in Nat /\ socks' = [g \in 1 .. m |-> socks'[g]]
    BY <2>1
  <2> HIDE DEF m
  <2>3. IsList(socks')
    BY <2>2, ListIsSeq
  <2> QED BY <2>1, <2>3
<1>7. IsSock(NewSock(ready)) /\ NewSock(ready).attached /\ NewSock(ready).heard
  BY DEF IsSock, SockFields, NewSock
<1>8. relay' = n + 1 /\ relay' \in 0 .. n + 1
  BY <1>1 DEF n
<1>9. \A g \in DOMAIN socks' : g # n + 1 => g \in 1 .. n
  BY <1>1, <1>6
<1>10. \A g \in DOMAIN socks' : IsSock(socks'[g])
  BY <1>2, <1>5, <1>7, <1>9
<1>11. \A g \in DOMAIN socks' : g # relay' => GivenUp(socks'[g])
  BY <1>2, <1>5, <1>8, <1>9
<1>12. relay' \in 0 .. Len(socks') /\ socks'[relay'].attached /\ socks'[relay'].heard
  BY <1>5, <1>7, <1>8
<1>13. SocketInv'
  BY <1>6, <1>10, <1>11, <1>12 DEF SocketInv
<1> QED BY <1>1, <1>5, <1>6, <1>13 DEF n

LEMMA SocketInvNext ==
    ASSUME SocketInv, [ClientNext]_vars
    PROVE  SocketInv'
<1>0. IsPage(page) /\ IsList(socks)
  BY DEF SocketInv
<1>1. CASE Click
  BY <1>1, ClickEvent, EventKeeps
<1>2. CASE Connect
  <2>1. IsPage(page')
    BY <1>0, <1>2 DEF Connect, IsPage, PageFields
  <2>2. PICK ready \in {"CONNECTING", "CLOSED"} : socks' = Append(Detach, NewSock(ready))
    BY <1>2 DEF Connect
  <2>3. relay' = Len(socks) + 1
    BY <1>2 DEF Connect
  <2> QED BY <2>1, <2>2, <2>3, ConnectKeeps
<1>3. CASE Disconnect
  <2>1. IsPage(page')
    BY <1>0, <1>3 DEF Disconnect, IsPage, PageFields
  <2> QED BY <1>3, <2>1, DetachKeeps DEF Disconnect
<1>4. CASE Reset
  <2>1. IsPage(page')
    BY <1>4 DEF Reset, StartPage, IsPage, PageFields
  <2> QED BY <1>4, <2>1, DetachKeeps DEF Reset
<1>5. CASE PeerActs
  BY <1>5, PeerActsEvent, EventKeeps
<1>6. ASSUME NEW g \in DOMAIN socks, Opens(g) \/ Fails(g) \/ Closes(g)
      PROVE  SocketInv'
  BY <1>6, OpensEvent, FailsEvent, ClosesEvent, EventKeeps
<1>7. ASSUME NEW g \in DOMAIN socks, BadMessage(g)
      PROVE  SocketInv'
  <2>1. IsPage(page') /\ relay' = relay /\ socks' = socks
    BY <1>0, <1>7 DEF BadMessage, IsPage, PageFields
  <2> QED BY <2>1 DEF SocketInv
<1>8. ASSUME NEW g \in DOMAIN socks, Encoded(g) \/ Decoded(g) \/ RelayHandles(g)
      PROVE  SocketInv'
  BY <1>8, EncodedEvent, DecodedEvent, RelayHandlesEvent, EventKeeps
<1>9. CASE UNCHANGED vars
  BY <1>9 DEF vars, clientVars, SocketInv
<1> QED BY <1>1, <1>2, <1>3, <1>4, <1>5, <1>6, <1>7, <1>8, <1>9 DEF ClientNext

LEMMA SocketInvInit == ClientInit => SocketInv
  BY DEF ClientInit, SocketInv, StartPage, IsPage, PageFields, IsList

(* OnlineIsHonest, however many connections are made and given up and      *)
(* however late their events come.                                         *)
THEOREM OnlineMeansOpen == ClientSpec => []OnlineIsHonest
<1>1. ClientInit => OnlineIsHonest
  BY DEF ClientInit, StartPage, OnlineIsHonest
<1>2. ASSUME SocketInv, OnlineIsHonest, [ClientNext]_vars
      PROVE  OnlineIsHonest'
  <2>0. IsPage(page) /\ IsList(socks) /\ (relay # 0 => relay \in DOMAIN socks)
    BY <1>2 DEF SocketInv, IsList
  <2>1. CASE Click
    BY <1>2, <2>0, <2>1, ClickEvent DEF OnlineIsHonest, Event
  <2>2. CASE Connect \/ Disconnect \/ Reset
    <3>1. page'.connection # "online"
      <4>1. ASSUME Connect PROVE page'.connection # "online"
        <5>1. \/ page' = [page EXCEPT !.connection = "connecting"]
              \/ page' = [page EXCEPT !.connection = "error", !.failed = TRUE]
          BY <4>1 DEF Connect
        <5> QED BY <2>0, <5>1 DEF IsPage, PageFields
      <4> QED
        BY <2>0, <2>2, <4>1 DEF Disconnect, Reset, StartPage, IsPage, PageFields
    <3> QED BY <3>1 DEF OnlineIsHonest
  <2>3. CASE PeerActs
    BY <1>2, <2>0, <2>3, PeerActsEvent DEF OnlineIsHonest, Event
  <2>4. ASSUME NEW g \in DOMAIN socks, Opens(g)
        PROVE  OnlineIsHonest'
    <3>1. g = relay /\ relay' = relay /\ socks'[g].ready = "OPEN"
      BY <1>2, <2>4, OpensEvent DEF Event
    <3>2. relay # 0
      BY <2>0, <3>1 DEF IsList
    <3> QED BY <3>1, <3>2 DEF OnlineIsHonest
  <2>5. ASSUME NEW g \in DOMAIN socks, Fails(g)
        PROVE  OnlineIsHonest'
    BY <1>2, <2>5, FailsEvent DEF OnlineIsHonest
  <2>6. ASSUME NEW g \in DOMAIN socks, Closes(g)
        PROVE  OnlineIsHonest'
    <3>1. \/ page'.connection # "online"
          \/ /\ page' = page /\ relay' = relay /\ g # relay
             /\ \A h \in DOMAIN socks : h # g => socks'[h] = socks[h]
      BY <1>2, <2>6, ClosesEvent DEF Event
    <3> QED BY <1>2, <2>0, <3>1 DEF OnlineIsHonest
  <2>7. ASSUME NEW g \in DOMAIN socks, BadMessage(g)
        PROVE  OnlineIsHonest'
    BY <2>0, <2>7 DEF BadMessage, IsPage, PageFields, OnlineIsHonest
  <2>8. ASSUME NEW g \in DOMAIN socks, Encoded(g) \/ Decoded(g) \/ RelayHandles(g)
        PROVE  OnlineIsHonest'
    <3>1. /\ page'.connection = page.connection /\ relay' = relay
          /\ \A h \in DOMAIN socks : socks'[h].ready = socks[h].ready
      BY <1>2, <2>8, EncodedEvent, DecodedEvent, RelayHandlesEvent DEF Event
    <3> QED BY <1>2, <2>0, <3>1 DEF OnlineIsHonest
  <2>9. CASE UNCHANGED vars
    BY <1>2, <2>9 DEF vars, clientVars, OnlineIsHonest
  <2> QED BY <1>2, <2>1, <2>2, <2>3, <2>4, <2>5, <2>6, <2>7, <2>8, <2>9 DEF ClientNext
<1>3. SocketInv /\ OnlineIsHonest /\ [ClientNext]_vars => (SocketInv /\ OnlineIsHonest)'
  BY <1>2, SocketInvNext
<1> QED BY <1>1, <1>3, SocketInvInit, PTL DEF ClientSpec

(* LocalPlayIsOwn: the given-up sockets have nothing left to decode, so    *)
(* without a RelayClient no frame can reach the table.                     *)
THEOREM LocalTableIsOwn == ClientSpec => LocalPlayIsOwn
<1>1. ASSUME SocketInv, [ClientNext]_vars
      PROVE  [LocalPlayStep]_vars
  <2> SUFFICES ASSUME relay = 0, relay' = 0, page'.state # page.state
               PROVE  \/ page'.state = initialState
                      \/ \E a \in PageActions(page.state) :
                            Accepts(page.state, a, PageHeight) /\ page'.state = Successor(page.state, a)
    BY DEF LocalPlayStep
  <2>0. IsPage(page)
    BY <1>1 DEF SocketInv
  <2>1. CASE Click
    <3>1. PICK a \in PageActions(page.state) : PlayLocally(a)
      BY <2>1 DEF Click
    <3>2. page'.state = IF Accepts(page.state, a, PageHeight) THEN Successor(page.state, a) ELSE page.state
      BY <2>0, <3>1 DEF PlayLocally, IsPage, PageFields
    <3> QED BY <3>1, <3>2
  <2>2. CASE Connect \/ Disconnect \/ Reset
    BY <2>0, <2>2 DEF Connect, Disconnect, Reset, StartPage, IsPage, PageFields
  <2>3. CASE PeerActs
    BY <2>3 DEF PeerActs
  <2>4. ASSUME NEW g \in DOMAIN socks,
               \/ Opens(g) \/ Fails(g) \/ Closes(g) \/ Encoded(g) \/ RelayHandles(g)
        PROVE  FALSE
    <3>1. page'.state = page.state
      BY <1>1, <2>4, OpensEvent, FailsEvent, ClosesEvent, EncodedEvent, RelayHandlesEvent
    <3> QED BY <3>1
  <2>5. ASSUME NEW g \in DOMAIN socks, BadMessage(g)
        PROVE  FALSE
    BY <2>0, <2>5 DEF BadMessage, IsPage, PageFields
  <2>6. ASSUME NEW g \in DOMAIN socks, Decoded(g)
        PROVE  FALSE
    <3>1. g = 0
      BY <1>1, <2>6, DecodedEvent
    <3> QED BY <1>1, <3>1 DEF SocketInv, IsList
  <2>7. CASE UNCHANGED vars
    BY <2>7 DEF vars, clientVars
  <2> QED BY <1>1, <2>1, <2>2, <2>3, <2>4, <2>5, <2>6, <2>7 DEF ClientNext
<1> QED BY <1>1, SocketInvInit, SocketInvNext, PTL DEF ClientSpec, LocalPlayIsOwn

-----------------------------------------------------------------------------
(* The relay's table. *)

LEMMA PageActionsWellFormed == \A s : \A a \in PageActions(s) : WellFormed(a)
<1> SUFFICES ASSUME NEW s, NEW a \in PageActions(s) PROVE WellFormed(a)
  OBVIOUS
<1> USE ClientAssumption, EngineAssumption DEF WellFormed, ActionTypes
<1>1. \/ \E seat \in PageSeats :
            a = [action_type |-> "Join", game_id |-> s.game_id, round_number |-> 0,
                 acting_player_seat |-> seat, player_pubkey |-> PageKey[seat],
                 stake_amount |-> StakeAmount]
      \/ a \in [action_type : {"EntropyCommit"}, game_id : {s.game_id}, round_number : {0},
                acting_player_seat : PageSeats, commitment_hash : {PageHash}]
      \/ a \in [action_type : {"EntropyReveal"}, game_id : {s.game_id}, round_number : {0},
                acting_player_seat : PageSeats, entropy : {PageEntropy}]
      \/ a \in [action_type : {"CardReveal"}, game_id : {s.game_id}, round_number : {0},
                acting_player_seat : {Null}, card : PageCards]
      \/ a \in [action_type : {"BetAction"}, game_id : {s.game_id}, round_number : {0},
                acting_player_seat : {PageSeat(s)}, bet_amount : PageBets]
      \/ a \in [action_type : {"TableLock"}, game_id : {s.game_id}, round_number : {0},
                acting_player_seat : {Null}]
      \/ a \in [action_type : {"Pass", "Settle"}, game_id : {s.game_id}, round_number : {0},
                acting_player_seat : {PageSeat(s)}]
  BY DEF PageActions
<1>2. CASE \E seat \in PageSeats :
            a = [action_type |-> "Join", game_id |-> s.game_id, round_number |-> 0,
                 acting_player_seat |-> seat, player_pubkey |-> PageKey[seat],
                 stake_amount |-> StakeAmount]
  BY <1>2
<1>3. CASE a \in [action_type : {"EntropyCommit"}, game_id : {s.game_id}, round_number : {0},
                 acting_player_seat : PageSeats, commitment_hash : {PageHash}]
  BY <1>3
<1>4. CASE a \in [action_type : {"EntropyReveal"}, game_id : {s.game_id}, round_number : {0},
                 acting_player_seat : PageSeats, entropy : {PageEntropy}]
  BY <1>4
<1>5. CASE a \in [action_type : {"CardReveal"}, game_id : {s.game_id}, round_number : {0},
                 acting_player_seat : {Null}, card : PageCards]
  BY <1>5
<1>6. CASE a \in [action_type : {"BetAction"}, game_id : {s.game_id}, round_number : {0},
                 acting_player_seat : {PageSeat(s)}, bet_amount : PageBets]
  BY <1>6
<1>7. CASE \/ a \in [action_type : {"TableLock"}, game_id : {s.game_id}, round_number : {0},
                    acting_player_seat : {Null}]
           \/ a \in [action_type : {"Pass", "Settle"}, game_id : {s.game_id}, round_number : {0},
                    acting_player_seat : {PageSeat(s)}]
  BY <1>7
<1> QED BY <1>1, <1>2, <1>3, <1>4, <1>5, <1>6, <1>7

LEMMA ListTail ==
    ASSUME NEW u, IsList(u), u # << >>
    PROVE  /\ IsList(Tail(u)) /\ 1 \in DOMAIN u /\ Head(u) = u[1]
           /\ \A i \in DOMAIN Tail(u) : \E j \in DOMAIN u : Tail(u)[i] = u[j]
<1> DEFINE n == Len(u)
           X == {u[i] : i \in 1 .. n}
           v == Tail(u)
<1>1. n \in Nat /\ u = [i \in 1 .. n |-> u[i]]
  BY DEF IsList
<1> HIDE DEF n
<1>2. u \in Seq(X) /\ Len(u) = n /\ DOMAIN u = 1 .. n
  BY <1>1, ListIsSeq
<1> HIDE DEF X
<1>3. v \in Seq(X) /\ 1 \in DOMAIN u /\ Head(u) = u[1]
  BY <1>2
<1>4. Len(v) = n - 1 /\ \A i \in 1 .. n - 1 : v[i] = u[i + 1]
  BY <1>2
<1> HIDE DEF v
<1>5. v \in [1 .. Len(v) -> X] /\ Len(v) \in Nat
  BY <1>3
<1>6. IsList(v)
  BY <1>5 DEF IsList
<1>7. \A i \in DOMAIN v : i + 1 \in DOMAIN u /\ v[i] = u[i + 1]
  <2>1. DOMAIN v = 1 .. n - 1
    BY <1>4, <1>5
  <2>2. \A i \in 1 .. n - 1 : i + 1 \in 1 .. n
    BY <1>1
  <2> QED BY <1>2, <1>4, <2>1, <2>2
<1> QED BY <1>3, <1>6, <1>7 DEF v

(* The states the session has announced: where each beginning of the       *)
(* transcript leads.                                                       *)
Shown == {ReplayFrom(initialState, SubSeq(transcript, 1, k)) : k \in 1 .. Len(transcript)}

TableInv ==
    /\ TypeInv
    /\ IsList(transcript)
    /\ Replayed = st

LEMMA SubmitShows ==
    ASSUME TableInv, NEW a, WellFormed(a), NEW nonce, NEW height, Submit(a, nonce, height)
    PROVE  TableInv' /\ Shown \subseteq Shown' /\ st' \in Shown'
<1> DEFINE e == [action |-> a, nonce |-> nonce, height |-> height]
           n == Len(transcript)
           X == {transcript[i] : i \in 1 .. n} \cup {e}
<1>1. /\ Accepts(st, a, height) /\ st' = Successor(st, a)
      /\ transcript' = Append(transcript, e)
  BY DEF Submit, Record
<1>2. TypeInv'
  BY <1>1, AcceptedType DEF TableInv, TypeInv, TypeOK, Populated, Sound
<1>3. e.action = a /\ e.height = height
  OBVIOUS
<1> HIDE DEF e
<1>4. n \in Nat /\ transcript = [i \in 1 .. n |-> transcript[i]]
  BY DEF TableInv, IsList
<1>5. IsList(transcript') /\ Len(transcript') = n + 1
  BY <1>1, ListAppend DEF TableInv
<1> HIDE DEF n
<1>6. transcript \in Seq({transcript[i] : i \in 1 .. n}) /\ Len(transcript) = n
  BY <1>4, ListIsSeq
<1>7. transcript \in Seq(X) /\ e \in X
  BY <1>6
<1> HIDE DEF X
<1>8. ReplayFrom(initialState, transcript') = ReplayStep(ReplayFrom(initialState, transcript), e)
  BY <1>1, <1>7, ReplayAppend
<1>9. st # Null
  BY NullAssumption DEF TableInv, TypeInv, TypeOK
<1>10. ReplayFrom(initialState, transcript) = st
  BY DEF TableInv, Replayed
<1>11. ReplayStep(st, e) = st'
  BY <1>1, <1>3, <1>9 DEF ReplayStep
<1>12. ReplayFrom(initialState, transcript') = st'
  BY <1>8, <1>10, <1>11
<1>13. \A k \in 1 .. n : SubSeq(transcript', 1, k) = SubSeq(transcript, 1, k)
  BY <1>1, <1>4, <1>6, <1>7
<1>14. SubSeq(transcript', 1, n + 1) = transcript'
  BY <1>1, <1>4, <1>6, <1>7
<1>15. Shown' = {ReplayFrom(initialState, SubSeq(transcript', 1, k)) : k \in 1 .. n + 1}
  BY <1>5 DEF Shown
<1>16. Shown = {ReplayFrom(initialState, SubSeq(transcript, 1, k)) : k \in 1 .. n}
  BY <1>6 DEF Shown
<1>17. n + 1 \in 1 .. n + 1 /\ \A k \in 1 .. n : k \in 1 .. n + 1
  BY <1>4
<1>18. st' \in Shown'
  BY <1>12, <1>14, <1>15, <1>17
<1>19. Shown \subseteq Shown'
  BY <1>13, <1>15, <1>16, <1>17
<1>20. Replayed' = st'
  BY <1>12 DEF Replayed
<1> QED BY <1>2, <1>5, <1>18, <1>19, <1>20 DEF TableInv

(* What a socket's queues hold: on their way up, actions the engine has    *)
(* types for; on their way down, members of S.                             *)
Queues(s, S) ==
    /\ \A f \in s.encoding : WellFormed(f.action)
    /\ IsList(s.up)
    /\ \A i \in DOMAIN s.up : WellFormed(s.up[i].action)
    /\ s.down \in Seq(S)

(* Every TABLE_STATE on its way to the page, in whichever order it will be *)
(* decoded, is a state the session has been in.                            *)
FrameInv ==
    /\ TableInv
    /\ \A g \in DOMAIN socks : Queues(socks[g], Shown \cup {Null})

LEMMA TableSame ==
    ASSUME TableInv, UNCHANGED sessionVars
    PROVE  TableInv' /\ Shown' = Shown
  BY DEF TableInv, sessionVars, TypeInv, TypeOK, Populated, Replayed, Shown

LEMMA QueuesGrow ==
    ASSUME NEW S, NEW T, S \subseteq T, NEW s, Queues(s, S)
    PROVE  Queues(s, T)
  BY DEF Queues

LEMMA UpAppend ==
    ASSUME NEW u, IsList(u), \A i \in DOMAIN u : WellFormed(u[i].action),
           NEW f, WellFormed(f.action)
    PROVE  /\ IsList(Append(u, f))
           /\ \A i \in DOMAIN Append(u, f) : WellFormed(Append(u, f)[i].action)
<1> DEFINE n == Len(u)
           v == Append(u, f)
<1>1. n \in Nat /\ DOMAIN u = 1 .. n
  BY DEF IsList
<1>2. IsList(v) /\ Len(v) = n + 1 /\ v[n + 1] = f /\ \A i \in 1 .. n : v[i] = u[i]
  BY ListAppend
<1> HIDE DEF n, v
<1>3. DOMAIN v = 1 .. n + 1
  BY <1>2 DEF IsList
<1>4. \A i \in 1 .. n + 1 : i \in 1 .. n \/ i = n + 1
  BY <1>1
<1>5. \A i \in DOMAIN v : WellFormed(v[i].action)
  BY <1>1, <1>2, <1>3, <1>4
<1> QED BY <1>2, <1>5 DEF v

LEMMA UpTail ==
    ASSUME NEW u, IsList(u), u # << >>, \A i \in DOMAIN u : WellFormed(u[i].action)
    PROVE  /\ WellFormed(Head(u).action)
           /\ IsList(Tail(u))
           /\ \A i \in DOMAIN Tail(u) : WellFormed(Tail(u)[i].action)
<1>1. /\ IsList(Tail(u)) /\ 1 \in DOMAIN u /\ Head(u) = u[1]
      /\ \A i \in DOMAIN Tail(u) : \E j \in DOMAIN u : Tail(u)[i] = u[j]
  BY ListTail
<1>2. WellFormed(Head(u).action)
  BY <1>1
<1>3. ASSUME NEW i \in DOMAIN Tail(u) PROVE WellFormed(Tail(u)[i].action)
  <2>1. PICK j \in DOMAIN u : Tail(u)[i] = u[j]
    BY <1>1
  <2> QED BY <2>1
<1> QED BY <1>1, <1>2, <1>3

LEMMA DownTypes ==
    ASSUME NEW S, NEW d \in Seq(S)
    PROVE  /\ \A x \in S : Append(d, x) \in Seq(S)
           /\ \A k \in 0 .. Len(d) : SubSeq(d, 1, k) \in Seq(S)
           /\ \A i \in DOMAIN d : RemoveAt(d, i) \in Seq(S) /\ d[i] \in S
<1>1. \A k \in 0 .. Len(d) : SubSeq(d, 1, k) \in Seq(S)
  OBVIOUS
<1>2. ASSUME NEW i \in DOMAIN d PROVE RemoveAt(d, i) \in Seq(S)
  <2>1. i \in 1 .. Len(d) /\ i - 1 \in 0 .. Len(d) /\ Len(d) \in Nat
    OBVIOUS
  <2>2. SubSeq(d, 1, i - 1) \in Seq(S)
    BY <1>1, <2>1
  <2>3. SubSeq(d, i + 1, Len(d)) \in Seq(S)
    BY <2>1
  <2> QED BY <2>2, <2>3 DEF RemoveAt
<1> QED BY <1>1, <1>2

LEMMA FrameInvInit == ClientInit => FrameInv
<1> SUFFICES ASSUME ClientInit PROVE FrameInv
  OBVIOUS
<1>1. TypeInv
  BY EngineAssumption, RulesAssumption
     DEF ClientInit, SessionInit, Init, initialState, TypeInv, TypeOK, Populated, RoundStates,
         StateClasses, ActionTypes, Satoshis
<1>2. Replayed = st /\ IsList(transcript)
  BY ReplayNothing DEF ClientInit, SessionInit, Init, Replayed, IsList
<1> QED BY <1>1, <1>2 DEF ClientInit, FrameInv, TableInv

LEMMA FrameInvNext ==
    ASSUME SocketInv, FrameInv, [ClientNext]_vars
    PROVE  FrameInv'
<1> DEFINE S == Shown \cup {Null}
           T == Shown' \cup {Null}
<1>0. /\ TableInv
      /\ \A g \in DOMAIN socks : Queues(socks[g], S) /\ socks[g].down \in Seq(S)
  BY DEF FrameInv, Queues
<1>t. FrameInv' <=> TableInv' /\ \A g \in DOMAIN socks' : Queues(socks'[g], T)
  BY DEF FrameInv
<1>u. UNCHANGED sessionVars => TableInv' /\ S = T
  BY <1>0, TableSame
<1> HIDE DEF S, T
<1>1. CASE Click
  <2>1. /\ UNCHANGED sessionVars /\ DOMAIN socks' = DOMAIN socks
        /\ \A g \in DOMAIN socks :
              /\ socks'[g].up = socks[g].up /\ socks'[g].down = socks[g].down
              /\ \A f \in socks'[g].encoding \ socks[g].encoding :
                    f.action \in PageActions(page.state)
    BY <1>1, ClickEvent DEF Click, Event
  <2>2. \A g \in DOMAIN socks : \A f \in socks'[g].encoding \ socks[g].encoding : WellFormed(f.action)
    BY <2>1, PageActionsWellFormed
  <2>3. \A g \in DOMAIN socks : Queues(socks'[g], S)
    BY <1>0, <2>1, <2>2 DEF Queues
  <2> QED BY <1>t, <1>u, <2>1, <2>3
<1>2. CASE Connect
  <2>1. IsPage(page')
    BY <1>2 DEF SocketInv, Connect, IsPage, PageFields
  <2>2. /\ DOMAIN socks = 1 .. Len(socks)
        /\ DOMAIN socks' = 1 .. Len(socks) + 1
        /\ \A g \in DOMAIN socks : socks'[g] = Detach[g]
        /\ \E ready \in {"CONNECTING", "CLOSED"} : socks'[Len(socks) + 1] = NewSock(ready)
    <3>1. PICK ready \in {"CONNECTING", "CLOSED"} : socks' = Append(Detach, NewSock(ready))
      BY <1>2 DEF Connect
    <3>2. relay' = Len(socks) + 1
      BY <1>2 DEF Connect
    <3> QED BY <2>1, <3>1, <3>2, ConnectKeeps
  <2>3. \A g \in DOMAIN socks : Queues(socks'[g], S)
    <3>1. \A g \in DOMAIN socks :
             /\ Detach[g].up = socks[g].up /\ Detach[g].encoding = socks[g].encoding
             /\ Detach[g].down = << >>
      BY <2>2, DetachGivesUp DEF GivenUp
    <3>2. << >> \in Seq(S)
      OBVIOUS
    <3> QED BY <1>0, <2>2, <3>1, <3>2 DEF Queues
  <2>4. \A ready : Queues(NewSock(ready), S)
    BY DEF Queues, NewSock, IsList
  <2>5. \A g \in DOMAIN socks' : g \in DOMAIN socks \/ g = Len(socks) + 1
    <3>1. Len(socks) \in Nat
      BY DEF SocketInv, IsList
    <3> QED BY <2>2, <3>1
  <2>6. UNCHANGED sessionVars
    BY <1>2 DEF Connect
  <2> QED BY <1>t, <1>u, <2>2, <2>3, <2>4, <2>5, <2>6
<1>3. CASE Disconnect \/ Reset
  <2>1. UNCHANGED sessionVars /\ socks' = Detach
    BY <1>3 DEF Disconnect, Reset
  <2>2. DOMAIN socks = 1 .. Len(socks)
    BY DEF SocketInv, IsList
  <2>3. /\ DOMAIN Detach = DOMAIN socks
        /\ \A g \in DOMAIN socks :
              /\ Detach[g].up = socks[g].up /\ Detach[g].encoding = socks[g].encoding
              /\ Detach[g].down = << >>
    BY <2>2, DetachGivesUp DEF GivenUp
  <2>4. << >> \in Seq(S)
    OBVIOUS
  <2>5. \A g \in DOMAIN socks' : Queues(socks'[g], S)
    BY <1>0, <2>1, <2>3, <2>4 DEF Queues
  <2> QED BY <1>t, <1>u, <2>1, <2>5
<1>4. CASE PeerActs
  <2>1. /\ DOMAIN socks' = DOMAIN socks
        /\ \A h \in DOMAIN socks :
              /\ socks'[h].up = socks[h].up /\ socks'[h].encoding = socks[h].encoding
              /\ socks'[h].down \in {socks[h].down, Append(socks[h].down, st')}
    BY <1>4, PeerActsEvent DEF Event
  <2>2. PICK a \in AllActions, nonce \in Nonces : Submit(a, nonce, PageHeight)
    BY <1>4 DEF PeerActs
  <2>3. TableInv' /\ Shown \subseteq Shown' /\ st' \in Shown'
    BY <1>0, <2>2, AllActionsWellFormed, SubmitShows
  <2>4. S \subseteq T /\ st' \in T
    BY <2>3 DEF S, T
  <2>5. ASSUME NEW h \in DOMAIN socks PROVE Queues(socks'[h], T)
    <3>1. Queues(socks[h], T)
      BY <1>0, <2>4, QueuesGrow
    <3>2. socks[h].down \in Seq(T)
      BY <3>1 DEF Queues
    <3>3. Append(socks[h].down, st') \in Seq(T)
      BY <2>4, <3>2, DownTypes
    <3> QED BY <2>1, <3>1, <3>2, <3>3 DEF Queues
  <2> QED BY <1>t, <2>1, <2>3, <2>5
<1>5. ASSUME NEW g \in DOMAIN socks, Opens(g) \/ Fails(g)
      PROVE  FrameInv'
  <2>1. /\ UNCHANGED sessionVars /\ DOMAIN socks' = DOMAIN socks
        /\ \A h \in DOMAIN socks : SameQueues(socks[h], socks'[h])
    BY <1>5, OpensEvent, FailsEvent DEF Opens, Fails, Event
  <2>2. \A h \in DOMAIN socks' : Queues(socks'[h], S)
    BY <1>0, <2>1 DEF Queues, SameQueues
  <2> QED BY <1>t, <1>u, <2>1, <2>2
<1>6. ASSUME NEW g \in DOMAIN socks, Closes(g)
      PROVE  FrameInv'
  <2>1. /\ UNCHANGED sessionVars /\ DOMAIN socks' = DOMAIN socks
        /\ \A h \in DOMAIN socks : h # g => socks'[h] = socks[h]
        /\ socks'[g].up \in {<< >>, socks[g].up} /\ socks'[g].encoding = socks[g].encoding
    BY <1>6, ClosesEvent DEF Closes, Event
  <2>2. PICK arrived \in 0 .. Len(socks[g].down) : socks'[g].down = SubSeq(socks[g].down, 1, arrived)
    BY <1>6, ClosesEvent
  <2>3. socks'[g].down \in Seq(S)
    BY <1>0, <2>2, DownTypes
  <2>4. IsList(<< >>) /\ DOMAIN << >> = {}
    BY DEF IsList
  <2>5. Queues(socks'[g], S)
    BY <1>0, <2>1, <2>3, <2>4 DEF Queues
  <2>6. \A h \in DOMAIN socks' : Queues(socks'[h], S)
    BY <1>0, <2>1, <2>5
  <2> QED BY <1>t, <1>u, <2>1, <2>6
<1>7. ASSUME NEW g \in DOMAIN socks, BadMessage(g)
      PROVE  FrameInv'
  <2>1. UNCHANGED sessionVars /\ socks' = socks
    BY <1>7 DEF BadMessage
  <2> QED BY <1>0, <1>t, <1>u, <2>1
<1>8. ASSUME NEW g \in DOMAIN socks, Encoded(g)
      PROVE  FrameInv'
  <2>1. /\ UNCHANGED sessionVars /\ DOMAIN socks' = DOMAIN socks
        /\ \A h \in DOMAIN socks : h # g => socks'[h] = socks[h]
        /\ socks'[g].down = socks[g].down
    BY <1>8, EncodedEvent DEF Encoded, Event
  <2>2. PICK frame \in socks[g].encoding :
                 /\ socks'[g].encoding = socks[g].encoding \ {frame}
                 /\ socks'[g].up \in {socks[g].up, Append(socks[g].up, frame)}
    BY <1>8, EncodedEvent
  <2>3. WellFormed(frame.action) /\ IsList(socks[g].up) /\ \A i \in DOMAIN socks[g].up : WellFormed(socks[g].up[i].action)
    BY <1>0, <2>2 DEF Queues
  <2>4. /\ IsList(Append(socks[g].up, frame))
        /\ \A i \in DOMAIN Append(socks[g].up, frame) : WellFormed(Append(socks[g].up, frame)[i].action)
    BY <2>3, UpAppend
  <2>5. IsList(socks'[g].up) /\ \A i \in DOMAIN socks'[g].up : WellFormed(socks'[g].up[i].action)
    BY <2>2, <2>3, <2>4
  <2>6. Queues(socks'[g], S)
    BY <1>0, <2>1, <2>2, <2>5 DEF Queues
  <2>7. \A h \in DOMAIN socks' : Queues(socks'[h], S)
    BY <1>0, <2>1, <2>6
  <2> QED BY <1>t, <1>u, <2>1, <2>7
<1>9. ASSUME NEW g \in DOMAIN socks, Decoded(g)
      PROVE  FrameInv'
  <2>1. /\ UNCHANGED sessionVars /\ DOMAIN socks' = DOMAIN socks
        /\ \A h \in DOMAIN socks : h # g => socks'[h] = socks[h]
        /\ socks'[g].up = socks[g].up /\ socks'[g].encoding = socks[g].encoding
    BY <1>9, DecodedEvent DEF Decoded, Event
  <2>2. PICK i \in DOMAIN socks[g].down : socks'[g].down = RemoveAt(socks[g].down, i)
    BY <1>9, DecodedEvent
  <2>3. socks'[g].down \in Seq(S)
    BY <1>0, <2>2, DownTypes
  <2>4. Queues(socks'[g], S)
    BY <1>0, <2>1, <2>3 DEF Queues
  <2>5. \A h \in DOMAIN socks' : Queues(socks'[h], S)
    BY <1>0, <2>1, <2>4
  <2> QED BY <1>t, <1>u, <2>1, <2>5
<1>10. ASSUME NEW g \in DOMAIN socks, RelayHandles(g)
       PROVE  FrameInv'
  <2> DEFINE frame == Head(socks[g].up)
  <2>1. /\ DOMAIN socks' = DOMAIN socks
        /\ \A h \in DOMAIN socks :
              /\ socks'[h].up = IF h = g THEN Tail(socks[h].up) ELSE socks[h].up
              /\ socks'[h].encoding = socks[h].encoding
              /\ socks'[h].down \in
                    {socks[h].down, Append(socks[h].down, Null), Append(socks[h].down, st')}
        /\ \/ /\ UNCHANGED sessionVars
              /\ \A h \in DOMAIN socks : socks'[h].down \in {socks[h].down, Append(socks[h].down, Null)}
           \/ Submit(frame.action, frame.nonce, PageHeight)
    BY <1>10, RelayHandlesEvent DEF Event
  <2>2. socks[g].up # << >>
    BY <1>10 DEF RelayHandles
  <2>3. /\ WellFormed(frame.action)
        /\ IsList(Tail(socks[g].up))
        /\ \A i \in DOMAIN Tail(socks[g].up) : WellFormed(Tail(socks[g].up)[i].action)
    <3>1. IsList(socks[g].up) /\ \A i \in DOMAIN socks[g].up : WellFormed(socks[g].up[i].action)
      BY <1>0 DEF Queues
    <3> QED BY <2>2, <3>1, UpTail
  <2> HIDE DEF frame
  <2>4. \A h \in DOMAIN socks :
           /\ \A f \in socks'[h].encoding : WellFormed(f.action)
           /\ IsList(socks'[h].up)
           /\ \A i \in DOMAIN socks'[h].up : WellFormed(socks'[h].up[i].action)
    BY <1>0, <2>1, <2>3 DEF Queues
  <2>5. CASE /\ UNCHANGED sessionVars
             /\ \A h \in DOMAIN socks : socks'[h].down \in {socks[h].down, Append(socks[h].down, Null)}
    <3>1. Null \in S
      BY DEF S
    <3>2. ASSUME NEW h \in DOMAIN socks PROVE Queues(socks'[h], S)
      <4>1. socks[h].down \in Seq(S)
        BY <1>0
      <4>2. Append(socks[h].down, Null) \in Seq(S)
        BY <3>1, <4>1, DownTypes
      <4>3. socks'[h].down \in Seq(S)
        BY <2>5, <4>1, <4>2
      <4> QED BY <2>4, <4>3 DEF Queues
    <3> QED BY <1>t, <1>u, <2>1, <2>5, <3>2
  <2>6. CASE Submit(frame.action, frame.nonce, PageHeight)
    <3>1. TableInv' /\ Shown \subseteq Shown' /\ st' \in Shown'
      BY <1>0, <2>3, <2>6, SubmitShows
    <3>2. S \subseteq T /\ st' \in T /\ Null \in T
      BY <3>1 DEF S, T
    <3>3. ASSUME NEW h \in DOMAIN socks PROVE Queues(socks'[h], T)
      <4>1. socks[h].down \in Seq(T)
        BY <1>0, <3>2
      <4>2. Append(socks[h].down, Null) \in Seq(T) /\ Append(socks[h].down, st') \in Seq(T)
        BY <3>2, <4>1, DownTypes
      <4>3. socks'[h].down \in Seq(T)
        BY <2>1, <4>1, <4>2
      <4> QED BY <2>4, <4>3 DEF Queues
    <3> QED BY <1>t, <2>1, <3>1, <3>3
  <2> QED BY <2>1, <2>5, <2>6
<1>11. CASE UNCHANGED vars
  <2>1. UNCHANGED sessionVars /\ socks' = socks
    BY <1>11 DEF vars, clientVars
  <2> QED BY <1>0, <1>t, <1>u, <2>1
<1> QED BY <1>1, <1>2, <1>3, <1>4, <1>5, <1>6, <1>7, <1>8, <1>9, <1>10, <1>11 DEF ClientNext

(* TableIsRelays: a state that arrives is one the session has been in,     *)
(* whichever decode ends first and whatever was rejected in between.       *)
THEOREM RelayTableIsRelays == ClientSpec => TableIsRelays
<1>1. ASSUME SocketInv, FrameInv, [ClientNext]_vars
      PROVE  [RelayPlayStep]_vars
  <2> SUFFICES ASSUME relay # 0, relay' = relay, page'.state # page.state
               PROVE  \E k \in 1 .. Len(transcript) :
                         page'.state = ReplayFrom(initialState, SubSeq(transcript, 1, k))
    BY DEF RelayPlayStep
  <2>0. IsPage(page) /\ relay \in 0 .. Len(socks) /\ Len(socks) \in Nat
    BY <1>1 DEF SocketInv, IsList
  <2>1. CASE Click
    <3>1. PICK a : Send(a)
      BY <2>1 DEF Click
    <3> QED BY <2>0, <3>1 DEF Send, IsPage, PageFields
  <2>2. CASE Connect \/ Disconnect \/ Reset
    BY <2>0, <2>2 DEF Connect, Disconnect, Reset, IsPage, PageFields
  <2>3. CASE PeerActs
    BY <2>3 DEF PeerActs
  <2>4. ASSUME NEW g \in DOMAIN socks,
               \/ Opens(g) \/ Fails(g) \/ Closes(g) \/ Encoded(g) \/ RelayHandles(g)
        PROVE  FALSE
    <3>1. page'.state = page.state
      BY <1>1, <2>4, OpensEvent, FailsEvent, ClosesEvent, EncodedEvent, RelayHandlesEvent
    <3> QED BY <3>1
  <2>5. ASSUME NEW g \in DOMAIN socks, BadMessage(g)
        PROVE  FALSE
    BY <2>0, <2>5 DEF BadMessage, IsPage, PageFields
  <2>6. ASSUME NEW g \in DOMAIN socks, Decoded(g)
        PROVE  page'.state \in Shown
    <3>1. PICK i \in DOMAIN socks[g].down :
             page'.state = socks[g].down[i] /\ socks[g].down[i] # Null
      BY <1>1, <2>6, DecodedEvent
    <3> DEFINE S == Shown \cup {Null}
    <3>2. socks[g].down \in Seq(S)
      BY <1>1 DEF FrameInv, Queues
    <3> HIDE DEF S
    <3>3. socks[g].down[i] \in S
      BY <3>2, DownTypes
    <3> QED BY <3>1, <3>3 DEF S
  <2>7. CASE UNCHANGED vars
    BY <2>7 DEF vars, clientVars
  <2> QED BY <1>1, <2>1, <2>2, <2>3, <2>4, <2>5, <2>6, <2>7 DEF ClientNext, Shown
<1> QED BY <1>1, SocketInvInit, SocketInvNext, FrameInvInit, FrameInvNext, PTL
        DEF ClientSpec, TableIsRelays
=============================================================================
