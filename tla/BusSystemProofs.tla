-------------------------- MODULE BusSystemProofs --------------------------
(* What holds of the bus with its clients, for every set of clients, any   *)
(* number of connections, slots, crashes and failures.                     *)
EXTENDS BusSystem, BusServerProofs

\* The crashed server has lost its table, its connections and its buffers.
LEMMA CrashIsClean ==
  ASSUME Crash
  PROVE  TypeOK'
<1>1. clients' \in [Slots -> Slot]
  BY ServerAssumption DEF Crash, HeapSlots, Slot
<1>2. peer' \in [Conns -> Names] /\ todo' \in [Conns -> 0 .. JoinsPerConn]
  BY NamesAssumption, PeerAssumption DEF Crash
<1>3. rbuf' \in [Conns -> Seq(Message)]
  BY DEF Crash
<1>4. /\ active' \subseteq Conns /\ pc' = "freed" /\ cur' \in Conns \cup {NULL}
      /\ type' \in MsgTypes \cup {0} /\ sent' = {}
  BY DEF Crash
<1>5. QED
  BY <1>1, <1>2, <1>3, <1>4 DEF TypeOK

(***************************************************************************)
(* What a client knows of its connection                                   *)
(***************************************************************************)

ClientTypes ==
  /\ at \in [PeerNames -> {"out", "loop", "sleep", "exit"}]
  /\ sock \in [PeerNames -> {"none", "connecting", "up", "broken"}]
  /\ conn \in [PeerNames -> BOOLEAN]
  /\ iExit \in [PeerNames -> HeapExit \cup {0, 2}]

NetTypes ==
  /\ link \in [PeerNames -> Conns \cup {"queued", NULL}]
  /\ backlog \in Seq(PeerNames)
  /\ fails \in 0 .. MaxFails

\* Only a client that polls has a connection that it has not noticed to be lost, and
\* it is the kernel's as long as it is up.
Linked ==
  \A n \in PeerNames :
    /\ sock[n] \in {"up", "broken"} => at[n] = "loop" /\ iExit[n] = 0
    /\ sock[n] = "up" <=> link[n] # NULL
    /\ link[n] = "queued" => Queued(n)

NetInv == TypeOK /\ ClientTypes /\ NetTypes /\ Linked

\* A step of the system is one of the server, or a crash.
LEMMA ServerStep ==
  ASSUME NetTypes, [SysNext]_sysvars
  PROVE  [Next]_vars \/ Crash
<1>1. ASSUME NEW n \in PeerNames, ClientStep(n) \/ LinkFails(n)
      PROVE  UNCHANGED vars
  BY <1>1 DEF ClientStep, LinkFails, cm_busclient_connect, LoopEnds, Again, Connected,
    ConnectFails, Closed, server, vars
<1>2. ASSUME NEW c \in Conns, SysAccept(c)
      PROVE  Next
  <2>1. Head(backlog) \in PeerNames
    BY <1>2 DEF SysAccept, NetTypes
  <2>2. Accept(c, Head(backlog))
    BY <1>2 DEF SysAccept
  <2>3. QED
    BY <2>1, <2>2 DEF Next, Mongoose
<1>3. ASSUME NEW c \in Conns, SysClose(c) \/ \E m \in Message : SysRead(c, m)
      PROVE  Next
  BY <1>3 DEF SysClose, SysRead, Next, Mongoose
<1>4. CASE SysServe \/ Restart
  BY <1>4 DEF SysServe, Restart, Next
<1>5. CASE UNCHANGED sysvars
  BY <1>5 DEF sysvars, server, vars
<1>6. QED
  BY <1>1, <1>2, <1>3, <1>4, <1>5 DEF SysNext

LEMMA ClientTypesKept ==
  ASSUME ClientTypes, [SysNext]_sysvars
  PROVE  ClientTypes'
<1> USE DEF ClientTypes
<1>1. ASSUME NEW n \in PeerNames, ClientStep(n)
      PROVE  ClientTypes'
  <2>1. CASE cm_busclient_connect(n)
    BY <2>1 DEF cm_busclient_connect
  <2>2. CASE LoopEnds(n)
    BY <2>2 DEF LoopEnds
  <2>3. CASE Again(n)
    <3>1. at' = [at EXCEPT ![n] = "out"]
      BY <2>3 DEF Again
    <3>2. sock' = sock \/ sock' = [sock EXCEPT ![n] = "none"]
      BY <2>3 DEF Again
    <3>3. conn' = conn \/ conn' = [conn EXCEPT ![n] = FALSE]
      BY <2>3 DEF Again
    <3>4. iExit' = iExit \/ \E e \in HeapExit : iExit' = [iExit EXCEPT ![n] = e]
      BY <2>3 DEF Again
    <3>5. sock' \in [PeerNames -> {"none", "connecting", "up", "broken"}]
      BY <3>2
    <3>6. conn' \in [PeerNames -> BOOLEAN]
      BY <3>3
    <3>7. iExit' \in [PeerNames -> HeapExit \cup {0, 2}]
      BY <3>4
    <3>8. at' \in [PeerNames -> {"out", "loop", "sleep", "exit"}]
      BY <3>1
    <3>9. QED
      BY <3>5, <3>6, <3>7, <3>8
  <2>4. CASE Connected(n)
    BY <2>4 DEF Connected
  <2>5. CASE ConnectFails(n)
    BY <2>5 DEF ConnectFails
  <2>6. CASE Closed(n)
    BY <2>6 DEF Closed
  <2>7. QED
    BY <1>1, <2>1, <2>2, <2>3, <2>4, <2>5, <2>6 DEF ClientStep
<1>2. ASSUME NEW n \in PeerNames, LinkFails(n)
      PROVE  ClientTypes'
  BY <1>2 DEF LinkFails
<1>3. CASE Crash
  BY <1>3 DEF Crash
<1>4. CASE UNCHANGED client
  BY <1>4 DEF client
<1>5. QED
  BY <1>1, <1>2, <1>3, <1>4 DEF SysNext, SysAccept, SysClose, SysRead, SysServe, Restart, sysvars

LEMMA NetTypesKept ==
  ASSUME NetTypes, [SysNext]_sysvars
  PROVE  NetTypes'
<1> USE DEF NetTypes
<1>1. ASSUME NEW n \in PeerNames, ClientStep(n)
      PROVE  NetTypes'
  <2>1. CASE cm_busclient_connect(n)
    BY <2>1, ClientAssumption DEF cm_busclient_connect, Fail
  <2>2. CASE LoopEnds(n) \/ ConnectFails(n) \/ Closed(n)
    BY <2>2 DEF LoopEnds, ConnectFails, Closed, net
  <2>3. CASE Again(n)
    BY <2>3 DEF Again
  <2>4. CASE Connected(n)
    <3>1. link' \in [PeerNames -> Conns \cup {"queued", NULL}]
      BY <2>4 DEF Connected
    <3>2. backlog' \in Seq(PeerNames) /\ fails' = fails
      BY <2>4 DEF Connected
    <3>3. QED
      BY <3>1, <3>2
  <2>5. QED
    BY <1>1, <2>1, <2>2, <2>3, <2>4 DEF ClientStep
<1>2. ASSUME NEW n \in PeerNames, LinkFails(n)
      PROVE  NetTypes'
  BY <1>2, ClientAssumption DEF LinkFails, Fail
<1>3. CASE Crash
  <2>1. link' \in [PeerNames -> Conns \cup {"queued", NULL}] /\ backlog' \in Seq(PeerNames)
    BY <1>3 DEF Crash
  <2>2. fails' \in 0 .. MaxFails
    BY <1>3, ClientAssumption DEF Crash, Fail
  <2>3. QED
    BY <2>1, <2>2
<1>4. ASSUME NEW c \in Conns, SysAccept(c)
      PROVE  NetTypes'
  <2>1. backlog' \in Seq(PeerNames) /\ fails' = fails
    BY <1>4 DEF SysAccept
  <2>2. link' \in [PeerNames -> Conns \cup {"queued", NULL}]
    BY <1>4 DEF SysAccept
  <2>3. QED
    BY <2>1, <2>2
<1>5. CASE UNCHANGED net
  BY <1>5 DEF net
<1>6. QED
  BY <1>1, <1>2, <1>3, <1>4, <1>5 DEF SysNext, SysClose, SysRead, SysServe, Restart, sysvars

\* What SysAccept does to the connection of the client at the head of the backlog.
LEMMA AcceptLinks ==
  ASSUME NetTypes, NEW c \in Conns, SysAccept(c)
  PROVE  \E n \in PeerNames :
           /\ Accept(c, n) /\ Queued(n)
           /\ \A m \in PeerNames : m # n => link'[m] = link[m]
           /\ \A m \in PeerNames : m # n /\ Queued(m) => Queued(m)'
           /\ \A m \in PeerNames : Queued(m)' => Queued(m)
           /\ \/ link[n] = "queued" /\ link'[n] = c /\ ~Queued(n)'
              \/ link'[n] = link[n] /\ (link[n] = "queued" => Queued(n)')
<1>1. backlog \in Seq(PeerNames) /\ backlog # <<>> /\ backlog' = Tail(backlog)
  BY DEF SysAccept, NetTypes
<1>2. PICK n \in PeerNames : n = Head(backlog)
  BY <1>1
<1>3. /\ \A k \in DOMAIN backlog' : k + 1 \in DOMAIN backlog /\ backlog'[k] = backlog[k + 1]
      /\ \A k \in DOMAIN backlog : k = 1 \/ (k - 1 \in DOMAIN backlog' /\ backlog'[k - 1] = backlog[k])
      /\ n = backlog[1]
  BY <1>1, <1>2
<1>4. ASSUME NEW m \in PeerNames, m # n, Queued(m)
      PROVE  Queued(m)'
  <2>1. PICK k \in DOMAIN backlog : backlog[k] = m
    BY <1>4 DEF Queued
  <2>2. k - 1 \in DOMAIN backlog' /\ backlog'[k - 1] = m
    BY <1>3, <1>4, <2>1
  <2>3. QED
    BY <2>2 DEF Queued
<1>5. ASSUME NEW m \in PeerNames, Queued(m)'
      PROVE  Queued(m)
  <2>1. PICK k \in DOMAIN backlog' : backlog'[k] = m
    BY <1>5 DEF Queued
  <2>2. k + 1 \in DOMAIN backlog /\ backlog[k + 1] = m
    BY <1>3, <2>1
  <2>3. QED
    BY <2>2 DEF Queued
<1>6. Accept(c, n) /\ Queued(n)
  <2>1. 1 \in DOMAIN backlog /\ backlog[1] = n
    BY <1>1, <1>2
  <2>2. QED
    BY <1>2, <2>1 DEF SysAccept, Queued
<1>7. CASE link[n] = "queued" /\ \A k \in DOMAIN backlog' : backlog'[k] # n
  <2>1. link' = [link EXCEPT ![n] = c]
    BY <1>2, <1>7 DEF SysAccept
  <2>2. (\A m \in PeerNames : m # n => link'[m] = link[m]) /\ link'[n] = c
    BY <2>1 DEF NetTypes
  <2>3. ~Queued(n)'
    BY <1>7 DEF Queued
  <2>4. QED
    BY <1>4, <1>5, <1>6, <1>7, <2>2, <2>3
<1>8. CASE ~(link[n] = "queued" /\ \A k \in DOMAIN backlog' : backlog'[k] # n)
  <2>1. link' = link
    BY <1>2, <1>8 DEF SysAccept
  <2>2. link[n] = "queued" => Queued(n)'
    BY <1>8 DEF Queued
  <2>3. QED
    BY <1>4, <1>5, <1>6, <2>1, <2>2
<1>9. QED
  BY <1>7, <1>8

LEMMA LinkedKept ==
  ASSUME ClientTypes, NetTypes, Linked, [SysNext]_sysvars
  PROVE  Linked'
<1> USE DEF ClientTypes, NetTypes
<1> DEFINE L(n) == /\ sock[n] \in {"up", "broken"} => at[n] = "loop" /\ iExit[n] = 0
                   /\ sock[n] = "up" <=> link[n] # NULL
                   /\ link[n] = "queued" => Queued(n)
<1>1. ASSUME NEW n \in PeerNames, ClientStep(n) \/ LinkFails(n)
      PROVE  Linked'
  <2>1. ASSUME NEW m \in PeerNames, m # n
        PROVE  /\ at'[m] = at[m] /\ sock'[m] = sock[m] /\ iExit'[m] = iExit[m] /\ link'[m] = link[m]
               /\ Queued(m) => Queued(m)'
    <3>1. backlog' = backlog \/ backlog' = Append(backlog, n)
      BY <1>1 DEF ClientStep, LinkFails, cm_busclient_connect, LoopEnds, Again, Connected,
        ConnectFails, Closed, net
    <3>2. Queued(m) => Queued(m)'
      BY <3>1 DEF Queued
    <3>3. at'[m] = at[m] /\ sock'[m] = sock[m]
      BY <1>1, <2>1 DEF ClientStep, LinkFails, cm_busclient_connect, LoopEnds, Again, Connected,
        ConnectFails, Closed, net
    <3>4. iExit'[m] = iExit[m]
      BY <1>1, <2>1 DEF ClientStep, LinkFails, cm_busclient_connect, LoopEnds, Again, Connected,
        ConnectFails, Closed, net
    <3>5. link'[m] = link[m]
      BY <1>1, <2>1 DEF ClientStep, LinkFails, cm_busclient_connect, LoopEnds, Again, Connected,
        ConnectFails, Closed, net
    <3>6. QED
      BY <3>2, <3>3, <3>4, <3>5
  <2>2. /\ sock'[n] \in {"up", "broken"} => at'[n] = "loop" /\ iExit'[n] = 0
        /\ sock'[n] = "up" <=> link'[n] # NULL
        /\ link'[n] = "queued" => Queued(n)'
    <3>1. L(n)
      BY DEF Linked
    <3>2. CASE cm_busclient_connect(n)
      <4>1. at[n] = "out" /\ link' = link /\ backlog' = backlog
        BY <3>2 DEF cm_busclient_connect
      <4>2. sock'[n] = "connecting" \/ sock'[n] = sock[n]
        BY <3>2 DEF cm_busclient_connect
      <4>3. QED
        BY <3>1, <4>1, <4>2 DEF Queued
    <3>3. CASE LoopEnds(n)
      BY <3>1, <3>3 DEF LoopEnds, Queued, net
    <3>4. CASE Again(n)
      <4>1. at[n] = "sleep" /\ sock[n] \notin {"up", "broken"} /\ link[n] = NULL
        BY <3>1, <3>4 DEF Again
      <4>2. sock'[n] \notin {"up", "broken"} /\ link'[n] = NULL
        BY <3>4, <4>1 DEF Again
      <4>3. QED
        BY <4>2, ClientAssumption
    <3>5. CASE Connected(n)
      <4>1. sock'[n] = "up" /\ link'[n] = "queued" /\ at'[n] = "loop" /\ iExit'[n] = 0
        BY <3>5 DEF Connected, Polls
      <4>2. Queued(n)'
        <5>1. backlog' = Append(backlog, n)
          BY <3>5 DEF Connected
        <5>2. Len(backlog) + 1 \in DOMAIN backlog' /\ backlog'[Len(backlog) + 1] = n
          BY <5>1
        <5>3. QED
          BY <5>2 DEF Queued
      <4>3. QED
        BY <4>1, <4>2, ClientAssumption
    <3>6. CASE ConnectFails(n)
      BY <3>1, <3>6 DEF ConnectFails, Queued, net
    <3>7. CASE Closed(n)
      BY <3>1, <3>7 DEF Closed, Queued, net
    <3>8. CASE LinkFails(n)
      <4>1. sock[n] = "up" /\ sock'[n] = "broken" /\ link'[n] = NULL /\ UNCHANGED <<at, iExit>>
        BY <3>8 DEF LinkFails
      <4>2. QED
        BY <3>1, <4>1, ClientAssumption
    <3>9. QED
      BY <1>1, <3>2, <3>3, <3>4, <3>5, <3>6, <3>7, <3>8 DEF ClientStep
  <2>3. QED
    BY <2>1, <2>2 DEF Linked
<1>2. CASE Crash
  <2>1. /\ \A n \in PeerNames : link'[n] = NULL
        /\ \A n \in PeerNames : sock'[n] # "up"
        /\ \A n \in PeerNames : sock'[n] = "broken" => sock[n] \in {"up", "broken"}
        /\ UNCHANGED <<at, iExit>>
    BY <1>2 DEF Crash
  <2>2. QED
    BY <2>1, ClientAssumption DEF Linked
<1>3. ASSUME NEW c \in Conns, SysAccept(c)
      PROVE  Linked'
  <2>1. UNCHANGED <<at, sock, iExit>>
    BY <1>3 DEF SysAccept, client
  <2>2. PICK n \in PeerNames :
          /\ \A m \in PeerNames : m # n => link'[m] = link[m]
          /\ \A m \in PeerNames : m # n /\ Queued(m) => Queued(m)'
          /\ \/ link[n] = "queued" /\ link'[n] = c
             \/ link'[n] = link[n] /\ (link[n] = "queued" => Queued(n)')
    BY <1>3, AcceptLinks
  <2>3. "queued" # NULL /\ "queued" # c /\ c # NULL
    BY ClientAssumption, ServerAssumption
  <2>4. QED
    BY <2>1, <2>2, <2>3 DEF Linked
<1>4. CASE UNCHANGED <<client, net>>
  BY <1>4 DEF client, net, Linked, Queued
<1>5. QED
  BY <1>1, <1>2, <1>3, <1>4 DEF SysNext, SysClose, SysRead, SysServe, Restart, sysvars

LEMMA NetInvInductive ==
  ASSUME NetInv, [SysNext]_sysvars
  PROVE  NetInv'
<1>1. TypeOK'
  BY ServerStep, TypeStep, CrashIsClean DEF NetInv
<1>2. ClientTypes' /\ NetTypes' /\ Linked'
  BY ClientTypesKept, NetTypesKept, LinkedKept DEF NetInv
<1>3. QED
  BY <1>1, <1>2 DEF NetInv

LEMMA SysInitNet == SysInit => NetInv
<1> SUFFICES ASSUME SysInit PROVE NetInv
  OBVIOUS
<1>1. TypeOK
  BY NamesAssumption, ServerAssumption, PeerAssumption
  DEF SysInit, Init, TypeOK, HeapSlots, Slot, MsgTypes
<1>2. ClientTypes
  <2>1. iExit \in [PeerNames -> HeapExit \cup {0, 2}]
    BY DEF SysInit
  <2>2. QED
    BY <2>1 DEF SysInit, ClientTypes
<1>3. NetTypes
  BY ClientAssumption DEF SysInit, NetTypes
<1>4. Linked
  BY ClientAssumption DEF SysInit, Linked
<1>5. QED
  BY <1>1, <1>2, <1>3, <1>4 DEF NetInv

LEMMA NetInvariant == SysSpec => []NetInv
BY SysInitNet, NetInvInductive, PTL DEF SysSpec

\* The types of the system; whatever crashes and fails, a client believes its
\* connection to be up exactly when there is one, accepted or in the kernel's queue.
THEOREM SysTypeCorrect == SysSpec => []SysTypeOK
<1>1. NetInv => SysTypeOK
  BY DEF NetInv, ClientTypes, NetTypes, Linked, SysTypeOK
<1>2. QED
  BY <1>1, NetInvariant, PTL
-----------------------------------------------------------------------------
(***************************************************************************)
(* A client's present connection and its earlier ones.  When the server    *)
(* has read from the present one, the earlier ones send no more joins, and *)
(* those that are left in their buffers will not be handled: they follow a *)
(* message of unknown type.                                                *)
(***************************************************************************)

NoJoins(c) == \A k \in DOMAIN rbuf[c] : ~IsJoin(rbuf[c][k])

Stuck(c) == /\ rbuf[c] # <<>> /\ Head(rbuf[c]).head \in {"re", "pu", "other"}
            /\ cur = c => type = 0

Done(c) == todo[c] = 0 /\ (NoJoins(c) \/ Stuck(c))

Present(n, c) ==
  /\ ~Queued(n)
  /\ c \in active /\ peer[c] = n
  /\ todo[c] < JoinsPerConn => /\ NoJoins(c) => Owner(n) = c
                               /\ \A d \in active \ {c} : peer[d] = n => Done(d)

PresentInv == \A n \in PeerNames, c \in Conns : link[n] = c => Present(n, c)

\* A step that takes nothing from the present connection keeps it the present one.
LEMMA PresentFrame ==
  ASSUME NEW n \in PeerNames, NEW c \in Conns, Present(n, c),
         Queued(n)' => Queued(n), active' = active, peer' = peer, todo' = todo,
         Owner(n)' = Owner(n), NoJoins(c)' => NoJoins(c),
         \A d \in active \ {c} : peer[d] = n /\ Done(d) => Done(d)'
  PROVE  Present(n, c)'
BY DEF Present

\* An earlier connection that is done stays so, and no join of it is handled.
LEMMA IterationDone ==
  ASSUME TypeOK, NEW m \in Message, Iteration(m), NEW d \in active, Done(d)
  PROVE  Done(d)' /\ (d = cur => ~IsJoin(m))
<1>1. /\ cur \in Conns /\ cur' = cur /\ todo' = todo
      /\ rbuf[cur] \in Seq(Message) /\ rbuf[cur] # <<>> /\ m = Head(rbuf[cur])
      /\ rbuf' = [rbuf EXCEPT ![cur] = Tail(@)]
      /\ rbuf \in [Conns -> Seq(Message)] /\ d \in Conns
  BY IterationType DEF TypeOK, Iteration, Parsed
<1>2. CASE d # cur
  <2>1. rbuf'[d] = rbuf[d]
    BY <1>1, <1>2
  <2>2. QED
    BY <1>1, <1>2, <2>1 DEF Done, NoJoins, Stuck
<1>3. CASE d = cur
  <2>1. ~Stuck(d)
    <3> SUFFICES ASSUME Stuck(d) PROVE FALSE
      OBVIOUS
    <3>1. m.head \in {"re", "pu", "other"} /\ type = 0
      BY <1>1, <1>3 DEF Stuck
    <3>2. busclient_parse_type(m) = 0
      BY <3>1 DEF busclient_parse_type
    <3>3. QED
      BY <3>2 DEF Iteration, Parsed
  <2>2. NoJoins(d) /\ todo[d] = 0
    BY <2>1 DEF Done
  <2>3. ~IsJoin(m)
    BY <1>1, <1>3, <2>2 DEF NoJoins
  <2>4. rbuf'[d] = Tail(rbuf[d])
    BY <1>1, <1>3
  <2>5. \A k \in DOMAIN Tail(rbuf[d]) : k + 1 \in DOMAIN rbuf[d] /\ Tail(rbuf[d])[k] = rbuf[d][k + 1]
    BY <1>1, <1>3, TailJoins
  <2>6. NoJoins(d)'
    BY <2>2, <2>4, <2>5 DEF NoJoins
  <2>7. QED
    BY <1>1, <2>2, <2>3, <2>6 DEF Done
<1>4. QED
  BY <1>2, <1>3

\* An iteration that handles no join leaves none to handle that was not there.
LEMMA IterationNoJoins ==
  ASSUME TypeOK, NEW m \in Message, Iteration(m), ~IsJoin(m), NEW c \in Conns, NoJoins(c)'
  PROVE  NoJoins(c)
<1>1. /\ cur \in Conns /\ rbuf[cur] \in Seq(Message) /\ rbuf[cur] # <<>> /\ m = Head(rbuf[cur])
      /\ rbuf' = [rbuf EXCEPT ![cur] = Tail(@)] /\ rbuf \in [Conns -> Seq(Message)]
  BY IterationType DEF TypeOK, Iteration, Parsed
<1>2. CASE c # cur
  <2>1. rbuf'[c] = rbuf[c]
    BY <1>1, <1>2
  <2>2. QED
    BY <2>1 DEF NoJoins
<1>3. CASE c = cur
  <2>1. rbuf'[c] = Tail(rbuf[c])
    BY <1>1, <1>3
  <2>2. \A k \in DOMAIN rbuf[c] : \/ rbuf[c][k] = m
                                  \/ k - 1 \in DOMAIN Tail(rbuf[c]) /\ Tail(rbuf[c])[k - 1] = rbuf[c][k]
    BY <1>1, <1>3
  <2>3. QED
    BY <2>1, <2>2 DEF NoJoins
<1>4. QED
  BY <1>2, <1>3

\* The server handles a message.
LEMMA PresentServed ==
  ASSUME PrefixFree, SlotForEveryName, TypeOK, TableInv, PresentInv,
         NEW m \in Message, Iteration(m), HandleJoin \/ (~IsJoin(m) /\ UNCHANGED clients),
         NEW n \in PeerNames, NEW c \in Conns, link[n] = c, Queued(n)' => Queued(n)
  PROVE  Present(n, c)'
<1>1. Present(n, c)
  BY DEF PresentInv
<1>2. /\ cur \in Conns /\ cur \in active
      /\ active' = active /\ peer' = peer /\ todo' = todo /\ cur' = cur
  BY IterationType
<1>3. ASSUME NEW d \in active, Done(d)
      PROVE  Done(d)'
  BY <1>3, IterationDone
<1>4. CASE ~IsJoin(m) /\ UNCHANGED clients
  <2>1. Owner(n)' = Owner(n)
    BY <1>4 DEF Owner
  <2>2. NoJoins(c)' => NoJoins(c)
    BY <1>4, IterationNoJoins
  <2>3. QED
    BY <1>1, <1>2, <1>3, <2>1, <2>2, PresentFrame
<1>5. CASE HandleJoin
  <2>1. PICK j \in Message : Iteration(j) /\ IsJoin(j)
    BY <1>5 DEF HandleJoin
  <2>2. ~Done(cur)
    BY <1>2, <2>1, IterationDone
  <2>3. peer[cur] \in Names \ {NoName} /\ bus_client_set_conn(peer[cur], cur)
    BY <1>2, <1>5 DEF TypeOK, TableInv, HandleJoin
  <2>4. OwnerMap' = [OwnerMap EXCEPT ![peer[cur]] = cur]
    BY <1>2, <2>3, JoinGivesName
  <2>5. peer[c] = n /\ n \in Names \ {NoName}
    BY <1>1 DEF Present, TypeOK, TableInv
  <2>6. Owner(n)' = IF n = peer[cur] THEN cur ELSE Owner(n)
    BY <2>3, <2>4, <2>5 DEF OwnerMap
  <2>7. CASE cur = c
    <3>1. Owner(n)' = c
      BY <2>5, <2>6, <2>7
    <3>2. QED
      BY <1>1, <1>2, <1>3, <3>1 DEF Present
  <2>8. CASE cur # c /\ peer[cur] = n
    <3>1. ~(todo[c] < JoinsPerConn)
      BY <1>1, <1>2, <2>2, <2>8 DEF Present
    <3>2. QED
      BY <1>1, <1>2, <3>1 DEF Present
  <2>9. CASE cur # c /\ peer[cur] # n
    <3>1. Owner(n)' = Owner(n)
      BY <2>6, <2>9
    <3>2. rbuf'[c] = rbuf[c]
      BY <1>2, <2>1, <2>9 DEF Iteration, TypeOK
    <3>3. NoJoins(c)' => NoJoins(c)
      BY <3>2 DEF NoJoins
    <3>4. QED
      BY <1>1, <1>2, <1>3, <3>1, <3>3, PresentFrame
  <2>10. QED
    BY <2>7, <2>8, <2>9
<1>6. QED
  BY <1>4, <1>5

\* The server reads a message.
LEMMA PresentRead ==
  ASSUME TypeOK, LeftInv, PresentInv, NEW e \in Conns, NEW m \in Message, SysRead(e, m),
         NEW n \in PeerNames, NEW c \in Conns, link[n] = c
  PROVE  Present(n, c)'
<1>1. Present(n, c)
  BY DEF PresentInv
<1>2. /\ e \in active /\ (pc = "poll" \/ (pc = "read" /\ cur = e)) /\ cur' = e /\ type' = 0
      /\ active' = active /\ peer' = peer /\ clients' = clients
      /\ Queued(n)' = Queued(n)
  BY DEF SysRead, Read, net, Queued
<1>3. /\ rbuf[e] \in Seq(Message) /\ rbuf'[e] = Append(rbuf[e], m)
      /\ \A d \in active : d # e => rbuf'[d] = rbuf[d] /\ todo'[d] = todo[d]
  BY <1>2 DEF SysRead, Read, TypeOK
<1>4. \/ ~IsJoin(m) /\ todo' = todo
      \/ m = JoinMsg /\ todo[e] > 0
  BY PeerAssumption DEF SysRead, Read
<1>5. \A k \in DOMAIN rbuf'[e] :
        \/ k \in DOMAIN rbuf[e] /\ rbuf'[e][k] = rbuf[e][k]
        \/ rbuf'[e][k] = m
  BY <1>3, AppendJoins
<1>6. Owner(n)' = Owner(n)
  BY <1>2 DEF Owner
<1>7. CASE c = e
  <2>1. InOrder(c)
    BY <1>7 DEF SysRead
  <2>2. ASSUME NEW d \in active \ {c}, peer[d] = n
        PROVE  Done(d)'
    <3>1. todo[d] = 0
      BY <1>1, <2>1, <2>2 DEF InOrder, Present
    <3>2. UnknownFirst(d)
      BY <1>2, <1>7, <2>2 DEF LeftInv
    <3>3. rbuf'[d] = rbuf[d] /\ todo'[d] = todo[d]
      BY <1>3, <1>7, <2>2
    <3>4. CASE rbuf[d] = <<>>
      <4>1. NoJoins(d)'
        BY <3>3, <3>4 DEF NoJoins
      <4>2. QED
        BY <3>1, <3>3, <4>1 DEF Done
    <3>5. CASE rbuf[d] # <<>>
      <4>1. Stuck(d)'
        BY <1>2, <1>7, <2>2, <3>2, <3>3, <3>5 DEF Stuck, UnknownFirst
      <4>2. QED
        BY <3>1, <3>3, <4>1 DEF Done
    <3>6. QED
      BY <3>4, <3>5
  <2>3. CASE ~IsJoin(m) /\ todo' = todo
    <3>1. NoJoins(c)' => NoJoins(c)
      <4>1. \A k \in DOMAIN rbuf[e] : k \in DOMAIN rbuf'[e] /\ rbuf'[e][k] = rbuf[e][k]
        BY <1>3
      <4>2. QED
        BY <1>7, <4>1 DEF NoJoins
    <3>2. QED
      BY <1>1, <1>2, <1>6, <2>2, <2>3, <3>1 DEF Present
  <2>4. CASE m = JoinMsg
    <3>1. ~NoJoins(c)'
      <4>1. Len(rbuf[e]) + 1 \in DOMAIN rbuf'[e] /\ rbuf'[e][Len(rbuf[e]) + 1] = m
        BY <1>3
      <4>2. IsJoin(m)
        BY <2>4 DEF IsJoin, IsRequest, JoinMsg
      <4>3. QED
        BY <1>7, <4>1, <4>2 DEF NoJoins
    <3>2. QED
      BY <1>1, <1>2, <2>2, <3>1 DEF Present
  <2>5. QED
    BY <1>4, <2>3, <2>4
<1>8. CASE c # e
  <2>1. rbuf'[c] = rbuf[c] /\ todo'[c] = todo[c]
    BY <1>1, <1>3, <1>8 DEF Present
  <2>2. NoJoins(c)' => NoJoins(c)
    BY <2>1 DEF NoJoins
  <2>3. ASSUME NEW d \in active \ {c}, Done(d)
        PROVE  Done(d)'
    <3>1. CASE d # e
      <4>1. rbuf'[d] = rbuf[d] /\ todo'[d] = todo[d] /\ cur' # d
        BY <1>2, <1>3, <3>1
      <4>2. QED
        BY <2>3, <4>1 DEF Done, NoJoins, Stuck
    <3>2. CASE d = e
      <4>1. ~IsJoin(m) /\ todo' = todo
        BY <1>4, <2>3, <3>2 DEF Done
      <4>2. NoJoins(d) => NoJoins(d)'
        BY <1>5, <3>2, <4>1 DEF NoJoins
      <4>3. Stuck(d) => Stuck(d)'
        <5>1. rbuf[e] # <<>> => rbuf'[e] # <<>> /\ Head(rbuf'[e]) = Head(rbuf[e])
          BY <1>3
        <5>2. QED
          BY <1>2, <3>2, <5>1 DEF Stuck
      <4>4. QED
        BY <2>3, <4>1, <4>2, <4>3 DEF Done
    <3>3. QED
      BY <3>1, <3>2
  <2>4. QED
    BY <1>1, <1>2, <1>6, <2>1, <2>2, <2>3 DEF Present
<1>9. QED
  BY <1>7, <1>8

\* The server accepts a connection, which is the present one of its client if the
\* client has not given it up.
LEMMA PresentAccepted ==
  ASSUME JoinsPerConn > 0, TypeOK, NetTypes, PresentInv, NEW e \in Conns, SysAccept(e),
         NEW n \in PeerNames, NEW c \in Conns, link'[n] = c
  PROVE  Present(n, c)'
<1>1. PICK a \in PeerNames :
        /\ Accept(e, a) /\ Queued(a)
        /\ \A m \in PeerNames : m # a => link'[m] = link[m]
        /\ \A m \in PeerNames : Queued(m)' => Queued(m)
        /\ \/ link[a] = "queued" /\ link'[a] = e /\ ~Queued(a)'
           \/ link'[a] = link[a]
  BY AcceptLinks
<1>2. /\ e \notin active /\ active' = active \cup {e} /\ clients' = clients
      /\ peer'[e] = a /\ todo'[e] = JoinsPerConn
      /\ \A d \in active : peer'[d] = peer[d] /\ todo'[d] = todo[d] /\ rbuf'[d] = rbuf[d]
      /\ cur' = cur /\ type' = type
  BY <1>1 DEF Accept, TypeOK
<1>3. CASE link[n] = c
  <2>1. Present(n, c)
    BY <1>3 DEF PresentInv
  <2>2. n # a
    BY <1>1, <2>1 DEF Present
  <2>3. Owner(n)' = Owner(n)
    BY <1>2 DEF Owner
  <2>4. c \in active /\ rbuf'[c] = rbuf[c] /\ todo'[c] = todo[c] /\ peer'[c] = n
    BY <1>2, <2>1 DEF Present
  <2>5. NoJoins(c)' => NoJoins(c)
    BY <2>4 DEF NoJoins
  <2>6. ASSUME NEW d \in active, Done(d)
        PROVE  Done(d)'
    BY <1>2, <2>6 DEF Done, NoJoins, Stuck
  <2>7. QED
    BY <1>1, <1>2, <2>1, <2>2, <2>3, <2>4, <2>5, <2>6 DEF Present
<1>4. CASE link[n] # c
  <2>1. n = a /\ c = e /\ ~Queued(n)'
    BY <1>1, <1>4
  <2>2. ~(todo'[c] < JoinsPerConn)
    BY <1>2, <2>1, PeerAssumption
  <2>3. QED
    BY <1>2, <2>1, <2>2 DEF Present
<1>5. QED
  BY <1>3, <1>4

\* The server closes another connection.
LEMMA PresentLeft ==
  ASSUME TypeOK, TableInv, PresentInv, NEW e \in Conns, SysClose(e),
         NEW n \in PeerNames, NEW c \in Conns, link[n] = c
  PROVE  Present(n, c)'
<1>1. Present(n, c) /\ c # e
  BY DEF PresentInv, SysClose
<1>2. /\ e \in active /\ active' = active \ {e} /\ ClearSlot(e)
      /\ \A d \in active \ {e} : peer'[d] = peer[d] /\ todo'[d] = todo[d] /\ rbuf'[d] = rbuf[d]
      /\ cur' = cur /\ type' = type /\ Queued(n)' = Queued(n)
  BY DEF SysClose, Close, TypeOK, loop, net, Queued
<1>3. n \in Names \ {NoName}
  BY <1>1 DEF Present, TypeOK, TableInv
<1>4. OwnerMap' = [k \in Names \ {NoName} |-> IF OwnerMap[k] = e THEN NULL ELSE OwnerMap[k]]
  BY <1>2, CloseFreesNames
<1>5. Owner(n) = c => Owner(n)' = c
  BY <1>1, <1>3, <1>4 DEF OwnerMap
<1>6. NoJoins(c)' => NoJoins(c)
  BY <1>1, <1>2 DEF NoJoins, Present
<1>7. ASSUME NEW d \in active \ {e}, Done(d)
      PROVE  Done(d)'
  BY <1>2, <1>7 DEF Done, NoJoins, Stuck
<1>8. QED
  BY <1>1, <1>2, <1>5, <1>6, <1>7 DEF Present

\* The client changes its connection, or its link fails.
LEMMA PresentClient ==
  ASSUME NetTypes, PresentInv, NEW a \in PeerNames, ClientStep(a) \/ LinkFails(a),
         NEW n \in PeerNames, NEW c \in Conns, link'[n] = c
  PROVE  Present(n, c)'
<1>1. UNCHANGED server
  BY DEF ClientStep, LinkFails, cm_busclient_connect, LoopEnds, Again, Connected,
    ConnectFails, Closed
<1>2. \/ link' = link /\ backlog' = backlog
      \/ \E x \in {"queued", NULL} : link' = [link EXCEPT ![a] = x] /\ x = "queued"
                                       /\ backlog' = Append(backlog, a)
      \/ \E x \in {"queued", NULL} : link' = [link EXCEPT ![a] = x] /\ backlog' = backlog
  BY DEF ClientStep, LinkFails, cm_busclient_connect, LoopEnds, Again, Connected,
    ConnectFails, Closed, net
<1>3. c # "queued" /\ c # NULL
  BY ClientAssumption, ServerAssumption
<1>4. link[n] = c /\ (Queued(n)' => Queued(n))
  <2>1. CASE backlog' = backlog
    BY <1>2, <1>3, <2>1 DEF Queued, NetTypes
  <2>2. CASE backlog' = Append(backlog, a)
    <3>1. link[n] = c
      BY <1>2, <1>3 DEF NetTypes
    <3>2. n # a \/ backlog' = backlog
      BY <1>2, <1>3 DEF NetTypes
    <3>3. CASE n # a
      BY <2>2, <3>1, <3>3 DEF Queued, NetTypes
    <3>4. QED
      BY <2>1, <3>2, <3>3
  <2>3. QED
    BY <1>2, <2>1, <2>2
<1>5. Present(n, c)
  BY <1>4 DEF PresentInv
<1>6. /\ active' = active /\ peer' = peer /\ todo' = todo /\ rbuf' = rbuf
      /\ cur' = cur /\ type' = type /\ clients' = clients
  BY <1>1 DEF server
<1>7. Owner(n)' = Owner(n)
  BY <1>6 DEF Owner
<1>8. NoJoins(c)' => NoJoins(c)
  BY <1>6 DEF NoJoins
<1>9. ASSUME NEW d \in active, Done(d)
      PROVE  Done(d)'
  BY <1>6, <1>9 DEF Done, NoJoins, Stuck
<1>10. QED
  BY <1>4, <1>5, <1>6, <1>7, <1>8, <1>9, PresentFrame

\* What the server does between the messages.
LEMMA PresentIdle ==
  ASSUME LeftInv, PresentInv,
         RecvStart \/ RecvEnd \/ cm_busserver_init \/ cm_busserver_run,
         UNCHANGED net,
         NEW n \in PeerNames, NEW c \in Conns, link[n] = c
  PROVE  Present(n, c)'
<1>1. Present(n, c)
  BY DEF PresentInv
<1>2. ~cm_busserver_init
  BY <1>1 DEF cm_busserver_init, LeftInv, Present
<1>3. /\ active' = active /\ peer' = peer /\ todo' = todo /\ rbuf' = rbuf /\ clients' = clients
      /\ (cur' = cur /\ type' = type) \/ type' = 0
  BY <1>2 DEF RecvStart, RecvEnd, cm_busserver_run
<1>4. Owner(n)' = Owner(n)
  BY <1>3 DEF Owner
<1>5. Queued(n)' = Queued(n)
  BY DEF net, Queued
<1>6. NoJoins(c)' => NoJoins(c)
  BY <1>3 DEF NoJoins
<1>7. ASSUME NEW d \in active, Done(d)
      PROVE  Done(d)'
  BY <1>3, <1>7 DEF Done, NoJoins, Stuck
<1>8. QED
  BY <1>1, <1>3, <1>4, <1>5, <1>6, <1>7, PresentFrame

LEMMA PresentKept ==
  ASSUME PrefixFree, SlotForEveryName, JoinsPerConn > 0,
         NetInv, LeftInv, TableInv, PresentInv, [SysNext]_sysvars
  PROVE  PresentInv'
<1> SUFFICES ASSUME NEW n \in PeerNames, NEW c \in Conns, link'[n] = c
             PROVE  Present(n, c)'
  BY DEF PresentInv
<1> USE DEF NetInv
<1>1. ASSUME NEW a \in PeerNames, ClientStep(a) \/ LinkFails(a)
      PROVE  Present(n, c)'
  BY <1>1, PresentClient
<1>2. ASSUME NEW e \in Conns, SysAccept(e)
      PROVE  Present(n, c)'
  BY <1>2, PresentAccepted
<1>3. ASSUME NEW e \in Conns, SysClose(e)
      PROVE  Present(n, c)'
  BY <1>3, PresentLeft DEF SysClose, net
<1>4. ASSUME NEW e \in Conns, NEW m \in Message, SysRead(e, m)
      PROVE  Present(n, c)'
  BY <1>4, PresentRead DEF SysRead, net
<1>5. CASE SysServe
  <2>1. UNCHANGED net /\ link[n] = c
    BY <1>5 DEF SysServe, net
  <2>2. CASE RecvStart \/ RecvEnd
    BY <2>1, <2>2, PresentIdle
  <2>3. Queued(n)' => Queued(n)
    BY <2>1 DEF net, Queued
  <2>4. CASE HandleJoin
    <3>1. PICK m \in Message : Iteration(m)
      BY <2>4 DEF HandleJoin
    <3>2. QED
      BY <2>1, <2>3, <2>4, <3>1, PresentServed
  <2>5. CASE HandleSubscribe \/ HandlePublish \/ HandleOther
    <3>1. PICK m \in Message : Iteration(m) /\ ~IsJoin(m) /\ UNCHANGED clients
      BY <2>5 DEF HandleSubscribe, HandlePublish, HandleOther, IsJoin, IsRequest, IsPublish
    <3>2. QED
      BY <2>1, <2>3, <3>1, PresentServed
  <2>6. QED
    BY <1>5, <2>2, <2>4, <2>5 DEF SysServe, Serve
<1>6. CASE Restart
  BY <1>6, PresentIdle DEF Restart, net
<1>7. CASE Crash
  BY <1>7, ServerAssumption DEF Crash
<1>8. CASE UNCHANGED sysvars
  <2>1. Present(n, c)
    BY <1>8 DEF sysvars, net, PresentInv
  <2>2. QED
    BY <1>8, <2>1 DEF sysvars, server, net, Present, Queued, NoJoins, Done, Stuck, Owner
<1>9. QED
  BY <1>1, <1>2, <1>3, <1>4, <1>5, <1>6, <1>7, <1>8 DEF SysNext

LEMMA TableInvSystem ==
  ASSUME PrefixFree, SlotForEveryName, HeapNames = {NoName}, HeapConns = {NULL},
         NoName \notin PeerNames, NetInv, LeftInv, TableInv, [SysNext]_sysvars
  PROVE  LeftInv' /\ TableInv'
<1>1. CASE [Next]_vars
  BY <1>1, RegistryStep, LeftInvInductive DEF NetInv
<1>2. CASE Crash
  <2>1. active' = {} /\ clients' \in HeapSlots
    BY <1>2 DEF Crash
  <2>2. (HeapNames = {NoName} /\ HeapConns = {NULL} /\ clients \in HeapSlots /\ active = {}
           => TableInv)'
    BY EmptyTable, PTL
  <2>3. HeapSlots' = HeapSlots
    BY DEF HeapSlots, Slots
  <2>4. TableInv'
    BY <2>1, <2>2, <2>3
  <2>5. LeftInv'
    BY <2>1 DEF LeftInv
  <2>6. QED
    BY <2>4, <2>5
<1>3. QED
  BY <1>1, <1>2, ServerStep DEF NetInv

\* Of any clients with prefix-free names, each with a slot, and whatever else they
\* send: a client whose joins the server has answered keeps its slot as long as its
\* connection lasts, across crashes, lost connections and reused addresses, also
\* when the server reads or closes an earlier connection of the client only then.
THEOREM JoinedStaysRegistered ==
  ASSUME PrefixFree, SlotForEveryName, HeapNames = {NoName}, HeapConns = {NULL},
         NoName \notin PeerNames, JoinsPerConn > 0
  PROVE  SysSpec => []JoinedMeansRegistered
<1>1. SysInit => LeftInv /\ TableInv /\ PresentInv
  <2> SUFFICES ASSUME SysInit PROVE LeftInv /\ TableInv /\ PresentInv
    OBVIOUS
  <2>1. LeftInv /\ TableInv
    BY EmptyTable DEF SysInit, Init, LeftInv
  <2>2. PresentInv
    BY ServerAssumption DEF SysInit, PresentInv
  <2>3. QED
    BY <2>1, <2>2
<1>2. NetInv /\ LeftInv /\ TableInv /\ PresentInv /\ [SysNext]_sysvars
        => LeftInv' /\ TableInv' /\ PresentInv'
  BY TableInvSystem, PresentKept
<1>3. NetInv /\ TableInv /\ PresentInv => JoinedMeansRegistered
  <2> SUFFICES ASSUME NetInv, TableInv, PresentInv, NEW n \in PeerNames,
                      link[n] \in active, todo[link[n]] = 0, rbuf[link[n]] = <<>>
               PROVE  Registered(n, link[n])
    BY DEF JoinedMeansRegistered
  <2>1. PICK c \in Conns : c = link[n]
    BY DEF NetInv, TypeOK
  <2>2. Present(n, c)
    BY <2>1 DEF PresentInv
  <2>3. NoJoins(c) /\ todo[c] < JoinsPerConn
    BY <2>1 DEF NoJoins
  <2>4. Owner(n) = c /\ n \in Names \ {NoName} /\ c # NULL
    BY <2>1, <2>2, <2>3, ServerAssumption DEF Present, TableInv, NetInv, TypeOK
  <2>5. PICK i \in Slots : clients[i].name = n /\ clients[i].conn = c
    BY <2>4, OwnerHasSlot DEF NetInv
  <2>6. clients[i] = [name |-> n, conn |-> c]
    BY <2>5 DEF NetInv, TypeOK, Slot
  <2>7. QED
    BY <2>1, <2>6 DEF Registered
<1>4. QED
  BY <1>1, <1>2, <1>3, NetInvariant, PTL DEF SysSpec
=============================================================================
