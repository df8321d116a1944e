-------------------------- MODULE BusServerProofs --------------------------
(* What holds of the bus server for every set of names, any number of       *)
(* connections and any number of slots.                                     *)
EXTENDS BusServer, FiniteSetTheorems, WellFoundedInduction, TLAPS

(***************************************************************************)
(* The table after a join and after a close.                               *)
(***************************************************************************)

\* bus_client_set_conn writes at most one slot, the joining name and
\* connection, and touches no other.
LEMMA SetConnWritesOneSlot ==
  ASSUME NEW name \in Names, NEW c \in Conns,
         clients \in [Slots -> Slot], bus_client_set_conn(name, c)
  PROVE  /\ clients' \in [Slots -> Slot]
         /\ \/ clients' = clients
            \/ \E i \in Slots :
                 clients' = [clients EXCEPT ![i] = [name |-> name, conn |-> c]]
<1>1. \/ clients' = clients
      \/ \E i \in Slots :
           clients' = [clients EXCEPT ![i] = [name |-> name, conn |-> c]]
  BY DEF bus_client_set_conn, FillFirst, IsFirst, Matching, FreeSlots
<1>2. [name |-> name, conn |-> c] \in Slot
  BY DEF Slot
<1>3. QED
  BY <1>1, <1>2

\* MG_EV_CLOSE empties a slot of the connection, or there is none.
LEMMA ClearSlotEmptiesOne ==
  ASSUME NEW c \in Conns, clients \in [Slots -> Slot], ClearSlot(c)
  PROVE  /\ clients' \in [Slots -> Slot]
         /\ \/ /\ clients' = clients
               /\ \A i \in Slots : clients[i].conn # c
            \/ \E i \in Slots :
                 /\ clients[i].conn = c
                 /\ clients' = [clients EXCEPT ![i] = [name |-> NoName, conn |-> NULL]]
<1>1. \/ /\ clients' = clients
         /\ \A i \in Slots : clients[i].conn # c
      \/ \E i \in Slots :
           /\ clients[i].conn = c
           /\ clients' = [clients EXCEPT ![i] = [name |-> NoName, conn |-> NULL]]
  BY DEF ClearSlot, IsFirst
<1>2. [name |-> NoName, conn |-> NULL] \in Slot
  BY NamesAssumption DEF Slot
<1>3. QED
  BY <1>1, <1>2

\* One iteration of the receive loop: what it does apart from the handler.
LEMMA IterationType ==
  ASSUME TypeOK, NEW m \in Message, Iteration(m)
  PROVE  /\ cur \in Conns /\ cur \in active
         /\ rbuf' \in [Conns -> Seq(Message)]
         /\ type' \in MsgTypes \cup {0}
         /\ UNCHANGED <<active, peer, todo, pc, cur>>
<1>1. cur \in Conns /\ cur \in active
  BY DEF TypeOK, Iteration, Parsed
<1>2. rbuf[cur] \in Seq(Message) /\ rbuf[cur] # <<>>
  BY <1>1 DEF TypeOK, Iteration, Parsed
<1>3. Tail(rbuf[cur]) \in Seq(Message)
  BY <1>2
<1>4. rbuf' \in [Conns -> Seq(Message)]
  BY <1>3 DEF TypeOK, Iteration
<1>5. type' \in MsgTypes \cup {0}
  BY DEF TypeOK, Iteration, MsgTypes, busclient_parse_type, BUSCLIENT_KEEPALIVE,
    BUSCLIENT_RPC_REQUEST, BUSCLIENT_RPC_RESPONSE, BUSCLIENT_RECV_TOPIC
<1>6. QED
  BY <1>1, <1>4, <1>5 DEF Iteration

(***************************************************************************)
(* Type correctness                                                        *)
(***************************************************************************)

LEMMA TypeStep ==
  ASSUME TypeOK, [Next]_vars
  PROVE  TypeOK'
<1>1. CASE cm_busserver_init
  <2>1. clients' \in [Slots -> Slot]
    BY <1>1, ServerAssumption DEF cm_busserver_init, HeapSlots, Slot
  <2>2. QED
    BY <1>1, <2>1 DEF cm_busserver_init, TypeOK
<1>2. CASE cm_busserver_deinit \/ cm_busserver_run
  BY <1>2 DEF cm_busserver_deinit, cm_busserver_run, TypeOK
<1>3. ASSUME NEW c \in Conns, NEW n \in PeerNames, Accept(c, n) PROVE TypeOK'
  BY <1>3, NamesAssumption, PeerAssumption DEF Accept, TypeOK
<1>4. ASSUME NEW c \in Conns, NEW m \in Message, Read(c, m) PROVE TypeOK'
  <2>1. todo' \in [Conns -> 0 .. JoinsPerConn]
    BY <1>4, PeerAssumption DEF Read, TypeOK
  <2>2. rbuf' \in [Conns -> Seq(Message)]
    BY <1>4 DEF Read, TypeOK
  <2>3. QED
    BY <1>4, <2>1, <2>2 DEF Read, TypeOK
<1>5. ASSUME NEW c \in Conns, Close(c) PROVE TypeOK'
  <2>1. clients' \in [Slots -> Slot]
    BY <1>5, ClearSlotEmptiesOne DEF Close, TypeOK
  <2>2. todo' \in [Conns -> 0 .. JoinsPerConn] /\ peer' \in [Conns -> Names]
    BY <1>5, NamesAssumption, PeerAssumption DEF Close, TypeOK
  <2>3. QED
    BY <1>5, <2>1, <2>2 DEF Close, TypeOK, loop
<1>6. CASE RecvStart \/ RecvEnd
  BY <1>6 DEF RecvStart, RecvEnd, TypeOK
<1>7. CASE HandleJoin
  <2>1. PICK m \in Message : Iteration(m)
    BY <1>7 DEF HandleJoin
  <2>2. cur \in Conns /\ peer[cur] \in Names
    BY <2>1, IterationType DEF TypeOK
  <2>3. clients' \in [Slots -> Slot]
    BY <1>7, <2>2, SetConnWritesOneSlot DEF HandleJoin, TypeOK
  <2>4. QED
    BY <1>7, <2>1, <2>2, <2>3, IterationType DEF HandleJoin, TypeOK
<1>8. CASE HandleSubscribe \/ HandleOther
  BY <1>8, IterationType DEF HandleSubscribe, HandleOther, TypeOK
<1>9. CASE HandlePublish
  <2>1. sent' \subseteq (Slots \cup {Reply}) \X (Conns \cup {NULL})
    BY <1>9 DEF HandlePublish, cm_busserver_send_msg,
      cm_busserver_broadcast, TypeOK, Slot
  <2>2. QED
    BY <1>9, <2>1, IterationType DEF HandlePublish, TypeOK
<1>10. CASE UNCHANGED vars
  BY <1>10 DEF vars, TypeOK
<1>11. QED
  BY <1>1, <1>2, <1>3, <1>4, <1>5, <1>6, <1>7, <1>8, <1>9, <1>10
  DEF Next, Mongoose, Serve

\* Every variable of the server stays in its type, and a handler that is
\* running serves an open connection.
THEOREM TypeCorrect == Spec => []TypeOK
<1>1. Init => TypeOK
  BY NamesAssumption, ServerAssumption, PeerAssumption
  DEF Init, TypeOK, HeapSlots, Slot, MsgTypes
<1>2. TypeOK /\ [Next]_vars => TypeOK'
  BY TypeStep
<1>3. QED
  BY <1>1, <1>2, PTL DEF Spec

(***************************************************************************)
(* Slots and connections, for programs that join once per connection       *)
(***************************************************************************)

\* What the loop removes from the front of a buffer adds no join to it.
LEMMA TailJoins ==
  ASSUME NEW s \in Seq(Message), s # <<>>
  PROVE  \A k \in DOMAIN Tail(s) : k + 1 \in DOMAIN s /\ Tail(s)[k] = s[k + 1]
  OBVIOUS

\* A message that arrives is the last of its buffer, the others keep their place.
LEMMA AppendJoins ==
  ASSUME NEW s \in Seq(Message), NEW m \in Message
  PROVE  \A k \in DOMAIN Append(s, m) :
           \/ k \in DOMAIN s /\ Append(s, m)[k] = s[k]
           \/ k = Len(s) + 1 /\ k \notin DOMAIN s /\ Append(s, m)[k] = m
  OBVIOUS

\* An iteration of the receive loop leaves no join pending that was not
\* pending before, and keeps the pending joins of a connection to one.
LEMMA IterationJoins ==
  ASSUME TypeOK, SlotInv, NEW m \in Message, Iteration(m)
  PROVE  /\ \A c \in active : JoinPending(c)' => JoinPending(c)
         /\ \A c \in active : AtMostOneJoin(c)'
<1>1. cur \in Conns /\ rbuf[cur] \in Seq(Message) /\ rbuf[cur] # <<>>
  BY IterationType DEF TypeOK, Iteration, Parsed
<1>2. /\ rbuf' = [rbuf EXCEPT ![cur] = Tail(@)]
      /\ UNCHANGED <<active, todo>>
      /\ rbuf \in [Conns -> Seq(Message)] /\ active \subseteq Conns
  BY DEF Iteration, TypeOK
<1>3. \A k \in DOMAIN Tail(rbuf[cur]) :
        k + 1 \in DOMAIN rbuf[cur] /\ Tail(rbuf[cur])[k] = rbuf[cur][k + 1]
  BY <1>1, TailJoins
<1>4. ASSUME NEW c \in active PROVE JoinPending(c)' => JoinPending(c)
  <2>1. CASE c = cur
    BY <1>1, <1>2, <1>3, <2>1 DEF JoinPending
  <2>2. CASE c # cur
    BY <1>1, <1>2, <2>2 DEF JoinPending
  <2>3. QED
    BY <2>1, <2>2
<1>5. ASSUME NEW c \in active PROVE AtMostOneJoin(c)'
  <2>1. AtMostOneJoin(c)
    BY DEF SlotInv
  <2>2. CASE c = cur
    <3>1. rbuf'[cur] = Tail(rbuf[cur]) /\ todo' = todo
      BY <1>1, <1>2
    <3>2. \A k \in DOMAIN Tail(rbuf[cur]) : k \in Int
      BY <1>1
    <3>3. QED
      BY <1>3, <2>1, <2>2, <3>1, <3>2 DEF AtMostOneJoin
  <2>3. CASE c # cur
    BY <1>1, <1>2, <2>1, <2>3 DEF AtMostOneJoin
  <2>4. QED
    BY <2>2, <2>3
<1>6. QED
  BY <1>4, <1>5

\* Handling a join takes the connection out of the newcomers: it had no slot,
\* and no other join of it is pending.
LEMMA JoinHandledOnce ==
  ASSUME TypeOK, SlotInv, NEW m \in Message, Iteration(m), IsJoin(m)
  PROVE  /\ \A i \in Slots : clients[i].conn # cur
         /\ ~JoinPending(cur)'
<1>1. cur \in active /\ cur \in Conns /\ UNCHANGED <<todo, cur>>
  BY IterationType
<1>2. rbuf[cur] \in Seq(Message) /\ rbuf[cur] # <<>> /\ m = Head(rbuf[cur])
  BY <1>1 DEF TypeOK, Iteration, Parsed
<1>3. 1 \in DOMAIN rbuf[cur] /\ IsJoin(rbuf[cur][1])
  BY <1>2
<1>4. JoinPending(cur) /\ AtMostOneJoin(cur)
  BY <1>1, <1>3 DEF JoinPending, SlotInv
<1>5. \A i \in Slots : clients[i].conn # cur
  BY <1>1, <1>4 DEF SlotInv, NewcomersHaveNoSlot
<1>6. ~(todo[cur] > 0)
  BY <1>3, <1>4 DEF AtMostOneJoin
<1>7. rbuf'[cur] = Tail(rbuf[cur])
  BY <1>1 DEF Iteration, TypeOK
<1>8. \A k \in DOMAIN Tail(rbuf[cur]) : ~IsJoin(Tail(rbuf[cur])[k])
  <2>1. \A k \in DOMAIN Tail(rbuf[cur]) :
          k + 1 \in DOMAIN rbuf[cur] /\ Tail(rbuf[cur])[k] = rbuf[cur][k + 1]
    BY <1>2, TailJoins
  <2>2. \A k \in DOMAIN Tail(rbuf[cur]) : k + 1 # 1
    BY <1>2
  <2>3. QED
    BY <1>3, <1>4, <2>1, <2>2 DEF AtMostOneJoin
<1>9. QED
  BY <1>1, <1>5, <1>6, <1>7, <1>8 DEF JoinPending

\* A step that leaves the table, the connections and their programs alone, and
\* makes no join pending, keeps the slot invariant.
LEMMA SlotInvFrame ==
  ASSUME SlotInv, UNCHANGED <<clients, active, peer>>,
         \A c \in active : JoinPending(c)' => JoinPending(c),
         \A c \in active : AtMostOneJoin(c)'
  PROVE  SlotInv'
  BY DEF SlotInv, NoDanglingSlot, SlotNamesItsPeer, OneSlotPerConn,
    NewcomersHaveNoSlot

\* The slot invariant is inductive when a program joins at most once on each
\* connection: then a connection never holds two slots, and MG_EV_CLOSE, which
\* clears only the first, clears all of them.
LEMMA SlotInvInductive ==
  ASSUME JoinsPerConn <= 1, HeapConns = {NULL}
  PROVE  TypeOK /\ SlotInv /\ [Next]_vars => SlotInv'
<1> SUFFICES ASSUME TypeOK, SlotInv, [Next]_vars PROVE SlotInv'
  OBVIOUS
<1>1. CASE cm_busserver_init
  <2>1. \A i \in Slots : clients'[i].conn = NULL
    BY <1>1 DEF cm_busserver_init, HeapSlots
  <2>2. UNCHANGED <<active, peer, todo, rbuf>>
    BY <1>1 DEF cm_busserver_init
  <2>3. \A c \in active : AtMostOneJoin(c)'
    BY <2>2 DEF SlotInv, AtMostOneJoin
  <2>4. QED
    BY <2>1, <2>2, <2>3, ServerAssumption DEF SlotInv, NoDanglingSlot,
      SlotNamesItsPeer, OneSlotPerConn, NewcomersHaveNoSlot, TypeOK
<1>2. CASE cm_busserver_deinit \/ cm_busserver_run \/ RecvStart \/ RecvEnd
  <2>1. UNCHANGED <<clients, active, peer, todo, rbuf>>
    BY <1>2 DEF cm_busserver_deinit, cm_busserver_run, RecvStart, RecvEnd
  <2>2. \A c \in active : JoinPending(c)' => JoinPending(c)
    BY <2>1 DEF JoinPending
  <2>3. \A c \in active : AtMostOneJoin(c)'
    BY <2>1 DEF SlotInv, AtMostOneJoin
  <2>4. QED
    BY <2>1, <2>2, <2>3, SlotInvFrame
<1>3. ASSUME NEW c \in Conns, NEW n \in PeerNames, Accept(c, n) PROVE SlotInv'
  <2>1. /\ c \notin active /\ active' = active \cup {c}
        /\ clients' = clients
        /\ \A d \in active : /\ peer'[d] = peer[d]
                             /\ todo'[d] = todo[d] /\ rbuf'[d] = rbuf[d]
        /\ rbuf'[c] = <<>>
    BY <1>3 DEF Accept, TypeOK
  <2>2. \A i \in Slots : clients[i].conn # c
    BY <1>3, <2>1, ServerAssumption DEF SlotInv, NoDanglingSlot
  <2>3. NoDanglingSlot' /\ SlotNamesItsPeer' /\ OneSlotPerConn'
    BY <2>1, <2>2 DEF SlotInv, NoDanglingSlot, SlotNamesItsPeer, OneSlotPerConn
  <2>4. NewcomersHaveNoSlot'
    BY <2>1, <2>2 DEF SlotInv, NewcomersHaveNoSlot, JoinPending
  <2>5. ASSUME NEW d \in active' PROVE AtMostOneJoin(d)'
    BY <2>1 DEF SlotInv, AtMostOneJoin
  <2>6. QED
    BY <2>3, <2>4, <2>5 DEF SlotInv
<1>4. ASSUME NEW c \in Conns, NEW m \in Message, Read(c, m) PROVE SlotInv'
  <2>1. /\ c \in active /\ UNCHANGED <<clients, active, peer>>
        /\ rbuf[c] \in Seq(Message)
        /\ rbuf'[c] = Append(rbuf[c], m)
        /\ \A d \in active : d # c => rbuf'[d] = rbuf[d] /\ todo'[d] = todo[d]
    BY <1>4 DEF Read, TypeOK
  <2>2. \A k \in DOMAIN rbuf'[c] :
          \/ k \in DOMAIN rbuf[c] /\ rbuf'[c][k] = rbuf[c][k]
          \/ k = Len(rbuf[c]) + 1 /\ k \notin DOMAIN rbuf[c] /\ rbuf'[c][k] = m
    BY <2>1, AppendJoins
  <2>3. AtMostOneJoin(c)
    BY <2>1 DEF SlotInv
  <2>4. CASE m \in Traffic /\ UNCHANGED todo
    <3>1. ~IsJoin(m)
      BY <2>4, PeerAssumption
    <3>2. \A d \in active : JoinPending(d)' => JoinPending(d)
      BY <2>1, <2>2, <2>4, <3>1 DEF JoinPending
    <3>3. AtMostOneJoin(c)'
      BY <2>2, <2>3, <2>4, <3>1 DEF AtMostOneJoin
    <3>4. \A d \in active : AtMostOneJoin(d)'
      BY <2>1, <3>3 DEF SlotInv, AtMostOneJoin
    <3>5. QED
      BY <2>1, <3>2, <3>4, SlotInvFrame
  <2>5. CASE m = JoinMsg /\ todo[c] > 0 /\ todo' = [todo EXCEPT ![c] = @ - 1]
    <3>1. ~(todo'[c] > 0)
      BY <2>5, PeerAssumption DEF TypeOK
    <3>2. JoinPending(c)
      BY <2>5 DEF JoinPending
    <3>3. \A d \in active : JoinPending(d)' => JoinPending(d)
      BY <2>1, <3>2 DEF JoinPending
    <3>4. \A k \in DOMAIN rbuf[c] : ~IsJoin(rbuf[c][k])
      BY <2>3, <2>5 DEF AtMostOneJoin
    <3>5. AtMostOneJoin(c)'
      BY <2>2, <3>1, <3>4 DEF AtMostOneJoin
    <3>6. \A d \in active : AtMostOneJoin(d)'
      BY <2>1, <3>5 DEF SlotInv, AtMostOneJoin
    <3>7. QED
      BY <2>1, <3>3, <3>6, SlotInvFrame
  <2>6. QED
    BY <1>4, <2>4, <2>5 DEF Read
<1>5. ASSUME NEW c \in Conns, Close(c) PROVE SlotInv'
  <2>1. /\ active' = active \ {c} /\ clients \in [Slots -> Slot]
        /\ \A d \in active \ {c} : /\ peer'[d] = peer[d]
                                    /\ todo'[d] = todo[d] /\ rbuf'[d] = rbuf[d]
    BY <1>5 DEF Close, TypeOK
  <2>2. /\ \A i \in Slots : clients'[i].conn # c
        /\ \A i \in Slots : \/ clients'[i] = clients[i]
                             \/ clients'[i].conn = NULL
    <3>1. CASE clients' = clients /\ \A i \in Slots : clients[i].conn # c
      BY <3>1
    <3>2. CASE \E i \in Slots :
                 /\ clients[i].conn = c
                 /\ clients' = [clients EXCEPT ![i] = [name |-> NoName, conn |-> NULL]]
      BY <2>1, <3>2, ServerAssumption DEF SlotInv, OneSlotPerConn
    <3>3. QED
      BY <1>5, <2>1, <3>1, <3>2, ClearSlotEmptiesOne DEF Close
  <2>3. NoDanglingSlot'
    BY <2>1, <2>2 DEF SlotInv, NoDanglingSlot
  <2>4. SlotNamesItsPeer'
    BY <2>1, <2>2 DEF SlotInv, NoDanglingSlot, SlotNamesItsPeer
  <2>5. OneSlotPerConn'
    BY <2>2 DEF SlotInv, OneSlotPerConn
  <2>6. NewcomersHaveNoSlot'
    BY <1>5, <2>1, <2>2, ServerAssumption DEF SlotInv, NewcomersHaveNoSlot, JoinPending, TypeOK
  <2>7. ASSUME NEW d \in active' PROVE AtMostOneJoin(d)'
    BY <2>1 DEF SlotInv, AtMostOneJoin
  <2>8. QED
    BY <2>3, <2>4, <2>5, <2>6, <2>7 DEF SlotInv
<1>6. CASE HandleJoin
  <2>1. PICK m \in Message : Iteration(m) /\ IsJoin(m)
    BY <1>6 DEF HandleJoin
  <2>2. /\ cur \in Conns /\ cur \in active /\ peer[cur] \in Names
        /\ UNCHANGED <<active, peer, cur>> /\ clients \in [Slots -> Slot]
    BY <2>1, IterationType DEF TypeOK
  <2>3. (\A i \in Slots : clients[i].conn # cur) /\ ~JoinPending(cur)'
    BY <2>1, JoinHandledOnce
  <2>4. /\ \A c \in active : JoinPending(c)' => JoinPending(c)
        /\ \A c \in active : AtMostOneJoin(c)'
    BY <2>1, IterationJoins
  <2>5. CASE clients' = clients
    BY <2>2, <2>4, <2>5, SlotInvFrame
  <2>6. ASSUME NEW i \in Slots,
               clients' = [clients EXCEPT ![i] = [name |-> peer[cur], conn |-> cur]]
        PROVE  SlotInv'
    <3>1. /\ clients'[i].name = peer[cur] /\ clients'[i].conn = cur
          /\ \A j \in Slots : j # i => clients'[j] = clients[j]
      BY <2>2, <2>6
    <3>2. NoDanglingSlot'
      BY <2>2, <3>1 DEF SlotInv, NoDanglingSlot
    <3>3. SlotNamesItsPeer'
      BY <2>2, <3>1 DEF SlotInv, SlotNamesItsPeer
    <3>4. OneSlotPerConn'
      BY <2>3, <3>1 DEF SlotInv, OneSlotPerConn
    <3>5. NewcomersHaveNoSlot'
      BY <2>2, <2>3, <2>4, <3>1 DEF SlotInv, NewcomersHaveNoSlot
    <3>6. QED
      BY <2>2, <2>4, <3>2, <3>3, <3>4, <3>5 DEF SlotInv
  <2>7. bus_client_set_conn(peer[cur], cur)
    BY <1>6 DEF HandleJoin
  <2>8. QED
    BY <2>2, <2>5, <2>6, <2>7, SetConnWritesOneSlot
<1>7. CASE HandleSubscribe \/ HandlePublish \/ HandleOther
  <2>1. PICK m \in Message : Iteration(m) /\ UNCHANGED clients
    BY <1>7 DEF HandleSubscribe, HandlePublish, HandleOther
  <2>2. UNCHANGED <<active, peer>>
    BY <2>1, IterationType
  <2>3. QED
    BY <2>1, <2>2, IterationJoins, SlotInvFrame
<1>8. CASE UNCHANGED vars
  <2>1. UNCHANGED <<clients, active, peer, todo, rbuf>>
    BY <1>8 DEF vars
  <2>2. \A c \in active : JoinPending(c)' => JoinPending(c)
    BY <2>1 DEF JoinPending
  <2>3. \A c \in active : AtMostOneJoin(c)'
    BY <2>1 DEF SlotInv, AtMostOneJoin
  <2>4. QED
    BY <2>1, <2>2, <2>3, SlotInvFrame
<1>9. QED
  BY <1>1, <1>2, <1>3, <1>4, <1>5, <1>6, <1>7, <1>8 DEF Next, Mongoose, Serve

\* When programs join once per connection, whatever their names and however
\* few the slots: no slot keeps a freed connection, every slot that holds a
\* connection carries that program's name, and no connection has two slots.
THEOREM SlotsSound ==
  ASSUME JoinsPerConn <= 1, HeapConns = {NULL}
  PROVE  Spec => [](NoDanglingSlot /\ SlotNamesItsPeer /\ OneSlotPerConn)
<1>1. Init => SlotInv
  BY ServerAssumption DEF Init, HeapSlots, SlotInv, NoDanglingSlot, SlotNamesItsPeer,
    OneSlotPerConn, NewcomersHaveNoSlot
<1>2. TypeOK /\ SlotInv /\ [Next]_vars => SlotInv'
  BY SlotInvInductive
<1>3. SlotInv => NoDanglingSlot /\ SlotNamesItsPeer /\ OneSlotPerConn
  BY DEF SlotInv
<1>4. QED
  BY <1>1, <1>2, <1>3, TypeCorrect, PTL DEF Spec

\* Under the same conditions one publish reaches no connection twice.
THEOREM DeliveredOnce ==
  ASSUME JoinsPerConn <= 1, HeapConns = {NULL}
  PROVE  Spec => []NoDoubleDelivery
<1>1. Init => SlotInv /\ NoDoubleDelivery
  BY ServerAssumption DEF Init, HeapSlots, SlotInv, NoDanglingSlot, SlotNamesItsPeer,
    OneSlotPerConn, NewcomersHaveNoSlot, NoDoubleDelivery
<1>2. TypeOK /\ SlotInv /\ [Next]_vars => SlotInv'
  BY SlotInvInductive
<1>3. TypeOK /\ SlotInv /\ NoDoubleDelivery /\ [Next]_vars => NoDoubleDelivery'
  <2> SUFFICES ASSUME TypeOK, SlotInv, NoDoubleDelivery, [Next]_vars
               PROVE  NoDoubleDelivery'
    OBVIOUS
  <2>1. CASE sent' = {} \/ sent' = {<<Reply, cur>>} \/ sent' = sent
    BY <2>1 DEF NoDoubleDelivery
  <2>2. ASSUME NEW S \in SUBSET {j \in Slots : clients[j].conn # NULL},
               sent' = {<<i, clients[i].conn>> : i \in S}
        PROVE  NoDoubleDelivery'
    BY <2>2 DEF NoDoubleDelivery, SlotInv, OneSlotPerConn
  <2>3. CASE HandlePublish
    BY <2>1, <2>2, <2>3 DEF HandlePublish, cm_busserver_send_msg, cm_busserver_broadcast
  <2>4. CASE Next /\ ~HandlePublish
    BY <2>1, <2>4 DEF Next, Mongoose, Serve, cm_busserver_init, cm_busserver_deinit,
      cm_busserver_run, Accept, Read, RecvStart, Close, RecvEnd, HandleJoin,
      HandleSubscribe, HandleOther
  <2>5. CASE UNCHANGED vars
    BY <2>1, <2>5 DEF vars
  <2>6. QED
    BY <2>3, <2>4, <2>5
<1>4. QED
  BY <1>1, <1>2, <1>3, TypeCorrect, PTL DEF Spec

\* Under the same conditions no slot of the table is left with a connection that
\* mongoose has freed.
THEOREM NoSlotDangles ==
  ASSUME JoinsPerConn <= 1, HeapConns = {NULL}
  PROVE  Spec => []NoDanglingSlot
<1>1. Spec => [](NoDanglingSlot /\ SlotNamesItsPeer /\ OneSlotPerConn)
  BY SlotsSound
<1>2. QED
  BY <1>1, PTL

\* Under the same conditions a message to a name never goes to another program.
THEOREM SlotsNamePeers ==
  ASSUME JoinsPerConn <= 1, HeapConns = {NULL}
  PROVE  Spec => []SlotNamesItsPeer
<1>1. Spec => [](NoDanglingSlot /\ SlotNamesItsPeer /\ OneSlotPerConn)
  BY SlotsSound
<1>2. QED
  BY <1>1, PTL

(***************************************************************************)
(* What MG_EV_RECV leaves in the receive buffers.  The invariant also says *)
(* it of the connections whose event is not being handled.                 *)
(***************************************************************************)

UnknownFirst(c) == rbuf[c] # <<>> => Head(rbuf[c]).head \in {"re", "pu", "other"}

LeftInv ==
  /\ pc \in {"idle", "freed"} => active = {}
  /\ \A c \in active : (pc \in {"read", "recv"} /\ c = cur) \/ UnknownFirst(c)

\* The loop ends at an empty buffer or at a message of unknown type.
LEMMA RecvEndLeaves ==
  ASSUME TypeOK, RecvEnd
  PROVE  UnknownFirst(cur)
<1>1. SUFFICES ASSUME rbuf[cur] # <<>>
               PROVE  Head(rbuf[cur]).head \in {"re", "pu", "other"}
  BY DEF UnknownFirst
<1>2. pc = "recv" /\ cur \in Conns /\ rbuf[cur] \in Seq(Message)
  BY DEF RecvEnd, TypeOK
<1>3. PICK m \in Message : m = Head(rbuf[cur])
  BY <1>1, <1>2
<1>4. busclient_parse_type(m) = 0
  BY <1>1, <1>2, <1>3 DEF RecvEnd, Parsed
<1>5. m.head \in Heads \ {"keepalive", "request", "response", "publish"}
  BY <1>3, <1>4 DEF busclient_parse_type, Message, BUSCLIENT_KEEPALIVE, BUSCLIENT_RPC_REQUEST,
    BUSCLIENT_RPC_RESPONSE, BUSCLIENT_RECV_TOPIC
<1>6. QED
  BY <1>3, <1>5 DEF Heads

LEMMA LeftInvInductive == TypeOK /\ LeftInv /\ [Next]_vars => LeftInv'
<1> SUFFICES ASSUME TypeOK, LeftInv, [Next]_vars PROVE LeftInv'
  OBVIOUS
<1>1. CASE UNCHANGED vars
  BY <1>1 DEF vars, LeftInv, UnknownFirst
<1>2. CASE cm_busserver_init \/ cm_busserver_deinit \/ cm_busserver_run
  BY <1>2 DEF cm_busserver_init, cm_busserver_deinit, cm_busserver_run, LeftInv, UnknownFirst
<1>3. ASSUME NEW c \in Conns, NEW n \in PeerNames, Accept(c, n) PROVE LeftInv'
  BY <1>3 DEF Accept, LeftInv, UnknownFirst, TypeOK
<1>4. ASSUME NEW c \in Conns, NEW m \in Message, Read(c, m) PROVE LeftInv'
  <2>1. /\ pc \in {"poll", "read"} /\ pc' = "read" /\ cur' = c /\ active' = active
        /\ pc = "read" => cur = c
        /\ \A d \in active : d # c => rbuf'[d] = rbuf[d]
    BY <1>4 DEF Read, TypeOK
  <2>2. QED
    BY <2>1 DEF LeftInv, UnknownFirst
<1>5. ASSUME NEW c \in Conns, Close(c) PROVE LeftInv'
  BY <1>5 DEF Close, LeftInv, UnknownFirst, loop, TypeOK
<1>6. CASE RecvStart
  BY <1>6 DEF RecvStart, LeftInv, UnknownFirst
<1>7. CASE RecvEnd
  <2>1. UnknownFirst(cur)
    BY <1>7, RecvEndLeaves
  <2>2. pc' = "poll" /\ UNCHANGED <<active, rbuf>> /\ pc = "recv"
    BY <1>7 DEF RecvEnd
  <2>3. QED
    BY <2>1, <2>2 DEF LeftInv, UnknownFirst
<1>8. ASSUME NEW m \in Message, Iteration(m) PROVE LeftInv'
  <2>1. /\ pc = "recv" /\ UNCHANGED <<pc, cur, active>>
        /\ \A d \in active : d # cur => rbuf'[d] = rbuf[d]
    BY <1>8 DEF Iteration, Parsed, TypeOK
  <2>2. QED
    BY <2>1 DEF LeftInv, UnknownFirst
<1>9. CASE HandleJoin \/ HandleSubscribe \/ HandlePublish \/ HandleOther
  BY <1>8, <1>9 DEF HandleJoin, HandleSubscribe, HandlePublish, HandleOther
<1>10. QED
  BY <1>1, <1>2, <1>3, <1>4, <1>5, <1>6, <1>7, <1>9 DEF Next, Mongoose, Serve

\* For any traffic, slots and connections: when mongoose goes on polling, no buffer
\* holds a message that the server could have handled first.
THEOREM BuffersEmptied == Spec => []NothingLeftBehind
<1>1. Init => LeftInv
  BY DEF Init, LeftInv
<1>2. LeftInv => NothingLeftBehind
  BY DEF LeftInv, UnknownFirst, NothingLeftBehind
<1>3. QED
  BY <1>1, <1>2, LeftInvInductive, TypeCorrect, PTL DEF Spec

(***************************************************************************)
(* The table as a registry of names, when no name is a prefix of another   *)
(* and every name can have a slot.                                         *)
(***************************************************************************)

PrefixFree == \A m, n \in Names : IsPrefix(m, n) => m = n \/ m = NoName

SlotForEveryName ==
  IsFiniteSet(Names \ {NoName}) /\ Cardinality(Names \ {NoName}) <= BUS_TYPE_MAX

\* A slot is free or has the connection of an open program of its name, and no two
\* have the same name.
TableInv ==
  /\ \A i \in Slots : /\ clients[i].conn = NULL <=> clients[i].name = NoName
                      /\ clients[i].conn # NULL =>
                           clients[i].conn \in active /\ clients[i].name = peer[clients[i].conn]
  /\ \A i, j \in Slots : clients[i].name = clients[j].name /\ clients[i].name # NoName => i = j
  /\ \A c \in active : peer[c] # NoName

\* The owner of a name is who is in the slot of that name.
LEMMA OwnerIs ==
  \A n :
    /\ \A i \in Slots : /\ clients[i].name = n
                        /\ \A j \in Slots : clients[j].name = n => j = i
                        => Owner(n) = clients[i].conn
    /\ (\A i \in Slots : clients[i].name # n) => Owner(n) = NULL
<1> SUFFICES ASSUME NEW n
             PROVE  /\ \A i \in Slots : /\ clients[i].name = n
                                        /\ \A j \in Slots : clients[j].name = n => j = i
                                        => Owner(n) = clients[i].conn
                    /\ (\A i \in Slots : clients[i].name # n) => Owner(n) = NULL
  OBVIOUS
<1> DEFINE held == {i \in Slots : clients[i].name = n}
<1>1. Owner(n) = IF held = {} THEN NULL ELSE clients[CHOOSE i \in held : TRUE].conn
  BY DEF Owner
<1>2. ASSUME NEW i \in Slots, clients[i].name = n, \A j \in Slots : clients[j].name = n => j = i
      PROVE  Owner(n) = clients[i].conn
  <2>1. held = {i}
    BY <1>2
  <2>2. (CHOOSE k \in held : TRUE) = i
    BY <2>1
  <2>3. QED
    BY <1>1, <2>1, <2>2
<1>3. ASSUME \A i \in Slots : clients[i].name # n
      PROVE  Owner(n) = NULL
  BY <1>1, <1>3
<1>4. QED
  BY <1>2, <1>3

LEMMA OwnerWillBe ==
  \A n :
    /\ \A i \in Slots : /\ clients'[i].name = n
                        /\ \A j \in Slots : clients'[j].name = n => j = i
                        => Owner(n)' = clients'[i].conn
    /\ (\A i \in Slots : clients'[i].name # n) => Owner(n)' = NULL
<1>1. (\A n :
         /\ \A i \in Slots : /\ clients[i].name = n
                             /\ \A j \in Slots : clients[j].name = n => j = i
                             => Owner(n) = clients[i].conn
         /\ (\A i \in Slots : clients[i].name # n) => Owner(n) = NULL)'
  BY OwnerIs, PTL
<1>2. QED
  BY <1>1

\* What the state functions of the registry are.
OwnerMap == [n \in Names \ {NoName} |-> Owner(n)]
Heard == {s[2] : s \in sent}

\* The owner of a name that is not empty has its slot.
LEMMA OwnerHasSlot ==
  ASSUME TypeOK, TableInv, NEW n \in Names \ {NoName}
  PROVE  \/ \E i \in Slots : /\ clients[i].name = n /\ clients[i].conn = Owner(n)
                             /\ Owner(n) # NULL
         \/ (\A i \in Slots : clients[i].name # n) /\ Owner(n) = NULL
<1>1. CASE \E i \in Slots : clients[i].name = n
  <2>1. PICK i \in Slots : clients[i].name = n
    BY <1>1
  <2>2. \A j \in Slots : clients[j].name = n => j = i
    BY <2>1 DEF TableInv
  <2>3. Owner(n) = clients[i].conn
    BY <2>1, <2>2, OwnerIs
  <2>4. QED
    BY <2>1, <2>3 DEF TableInv
<1>2. CASE \A i \in Slots : clients[i].name # n
  BY <1>2, OwnerIs
<1>3. QED
  BY <1>1, <1>2

LEMMA OwnersStay ==
  ASSUME clients' = clients
  PROVE  OwnerMap' = OwnerMap
BY DEF OwnerMap, Owner

\* With a slot for every name, a name that has none finds a free one.
LEMMA FreeSlotLeft ==
  ASSUME TypeOK, TableInv, SlotForEveryName, NEW n \in Names \ {NoName},
         \A i \in Slots : clients[i].name # n
  PROVE  FreeSlots # {}
<1> SUFFICES ASSUME FreeSlots = {} PROVE FALSE
  OBVIOUS
<1> DEFINE T == (Names \ {NoName}) \ {n}
           f == [i \in Slots |-> clients[i].name]
<1>1. IsFiniteSet(T) /\ Cardinality(T) = Cardinality(Names \ {NoName}) - 1
  BY FS_RemoveElement DEF SlotForEveryName
<1>2. IsFiniteSet(Slots) /\ Cardinality(Slots) = BUS_TYPE_MAX
  BY FS_Interval, ServerAssumption DEF Slots
<1>3. Cardinality(Names \ {NoName}) \in Nat
  BY FS_CardinalityType DEF SlotForEveryName
<1>4. Cardinality(T) < Cardinality(Slots)
  BY <1>1, <1>2, <1>3, ServerAssumption DEF SlotForEveryName
<1>5. f \in [Slots -> T]
  BY DEF FreeSlots, TypeOK, Slot
<1> HIDE DEF T, f
<1>6. \E i, j \in Slots : i # j /\ f[i] = f[j]
  BY <1>1, <1>2, <1>4, <1>5, FS_PigeonHole
<1>7. QED
  BY <1>6 DEF f, TableInv, FreeSlots

LEMMA FirstExists ==
  ASSUME NEW S \in SUBSET Slots, S # {}
  PROVE  \E i \in S : IsFirst(i, S)
<1> DEFINE R == {p \in Nat \X Nat : p[1] < p[2]}
<1>1. IsWellFoundedOn(R, Nat)
  BY NatLessThanWellFounded DEF OpToRel
<1>2. \A a, b \in Nat : a < b => <<a, b>> \in R
  OBVIOUS
<1>3. S \subseteq Nat
  BY ServerAssumption DEF Slots
<1> HIDE DEF R
<1>4. \E i \in S : \A j \in S : ~(<<j, i>> \in R)
  BY <1>1, <1>3, WFMin
<1>5. PICK i \in S : \A j \in S : ~(j < i)
  BY <1>2, <1>3, <1>4
<1>6. \A j \in S : i <= j
  BY <1>3, <1>5
<1>7. QED
  BY <1>5, <1>6 DEF IsFirst

\* A slot of the name, or a free one when the name has none, is given to the name
\* and to an open connection of a program of that name.
LEMMA SlotGiven ==
  ASSUME TypeOK, TableInv, NEW i \in Slots, NEW n \in Names \ {NoName}, NEW c \in active,
         peer[c] = n, active' = active, peer' = peer,
         clients'[i].name = n, clients'[i].conn = c,
         \A j \in Slots : j # i => clients'[j] = clients[j],
         \/ clients[i].name = n
         \/ clients[i].name = NoName /\ (\A j \in Slots : clients[j].name # n)
  PROVE  /\ TableInv'
         /\ OwnerMap' = [OwnerMap EXCEPT ![n] = c]
<1>1. /\ clients \in [Slots -> Slot]
      /\ clients'[i].name = n /\ clients'[i].conn = c
      /\ \A j \in Slots : j # i => clients'[j] = clients[j]
      /\ c # NULL
  BY ServerAssumption DEF TypeOK
<1>2. \A j \in Slots : j # i => clients[j].name # n
  BY <1>1 DEF TableInv
<1>3. \A j \in Slots : clients'[j].name = n => j = i
  BY <1>1, <1>2
<1>4. TableInv'
  <2>1. \A j, k \in Slots : clients'[j].name = clients'[k].name /\ clients'[j].name # NoName => j = k
    BY <1>1, <1>3 DEF TableInv
  <2>2. \A j \in Slots : /\ clients'[j].conn = NULL <=> clients'[j].name = NoName
                         /\ clients'[j].conn # NULL =>
                              clients'[j].conn \in active' /\ clients'[j].name = peer'[clients'[j].conn]
    BY <1>1 DEF TableInv
  <2>3. \A d \in active' : peer'[d] # NoName
    BY DEF TableInv
  <2>4. QED
    BY <2>1, <2>2, <2>3 DEF TableInv
<1>5. Owner(n)' = c
  BY <1>1, <1>3, OwnerWillBe
<1>6. ASSUME NEW m \in Names \ {NoName}, m # n
      PROVE  Owner(m)' = Owner(m)
  <2>1. \A j \in Slots : clients'[j].name = m <=> clients[j].name = m
    BY <1>1, <1>6
  <2>2. CASE \E j \in Slots : clients[j].name = m
    <3>1. PICK j \in Slots : clients[j].name = m
      BY <2>2
    <3>2. \A k \in Slots : clients[k].name = m => k = j
      BY <3>1 DEF TableInv
    <3>3. j # i /\ clients'[j] = clients[j]
      BY <1>1, <1>6, <2>1, <3>1
    <3>4. Owner(m) = clients[j].conn
      BY <3>1, <3>2, OwnerIs
    <3>5. Owner(m)' = clients'[j].conn
      BY <2>1, <3>1, <3>2, OwnerWillBe
    <3>6. QED
      BY <3>3, <3>4, <3>5
  <2>3. CASE \A j \in Slots : clients[j].name # m
    BY <2>1, <2>3, OwnerIs, OwnerWillBe
  <2>4. QED
    BY <2>2, <2>3
<1>7. OwnerMap' = [OwnerMap EXCEPT ![n] = c]
  BY <1>5, <1>6 DEF OwnerMap
<1>8. QED
  BY <1>4, <1>7

\* A join gives the name to the connection it came from: there is a slot for it.
LEMMA JoinGivesName ==
  ASSUME PrefixFree, SlotForEveryName, TypeOK, TableInv,
         NEW n \in Names \ {NoName}, NEW c \in active, peer[c] = n,
         active' = active, peer' = peer, bus_client_set_conn(n, c)
  PROVE  /\ TableInv'
         /\ OwnerMap' = [OwnerMap EXCEPT ![n] = c]
<1>1. clients \in [Slots -> Slot]
  BY DEF TypeOK
<1>2. \A i \in Slots : i \in Matching(n) <=> clients[i].name = n
  BY <1>1, NamesAssumption DEF Matching, PrefixFree, Slot
<1>3. CASE FillFirst(Matching(n), n, c)
  <2>1. PICK i \in Slots : clients[i].name = n
                           /\ clients' = [clients EXCEPT ![i] = [name |-> n, conn |-> c]]
    BY <1>2, <1>3 DEF FillFirst, IsFirst, Matching
  <2>2. \/ clients[i].name = n
        \/ clients[i].name = NoName /\ (\A j \in Slots : clients[j].name # n)
    BY <2>1
  <2>3. /\ clients'[i].name = n /\ clients'[i].conn = c
        /\ \A j \in Slots : j # i => clients'[j] = clients[j]
    BY <1>1, <2>1
  <2>4. QED
    BY <2>2, <2>3, SlotGiven
<1>4. CASE Matching(n) = {} /\ FillFirst(FreeSlots, n, c)
  <2>1. PICK i \in Slots : clients[i].name = NoName
                           /\ clients' = [clients EXCEPT ![i] = [name |-> n, conn |-> c]]
    BY <1>4 DEF FillFirst, IsFirst, FreeSlots
  <2>2. \A j \in Slots : clients[j].name # n
    BY <1>2, <1>4
  <2>3. \/ clients[i].name = n
        \/ clients[i].name = NoName /\ (\A j \in Slots : clients[j].name # n)
    BY <2>1, <2>2
  <2>4. /\ clients'[i].name = n /\ clients'[i].conn = c
        /\ \A j \in Slots : j # i => clients'[j] = clients[j]
    BY <1>1, <2>1
  <2>5. QED
    BY <2>3, <2>4, SlotGiven
<1>5. CASE Matching(n) \cup FreeSlots = {}
  <2>1. FreeSlots # {}
    BY <1>2, <1>5, FreeSlotLeft
  <2>2. QED
    BY <1>5, <2>1
<1>6. QED
  BY <1>3, <1>4, <1>5 DEF bus_client_set_conn

\* A close leaves the names of the connection without an owner.
LEMMA CloseFreesNames ==
  ASSUME TypeOK, TableInv, NEW c \in active, ClearSlot(c)
  PROVE  /\ \A i \in Slots : IF clients[i].conn = c
                             THEN clients'[i].name = NoName /\ clients'[i].conn = NULL
                             ELSE clients'[i] = clients[i]
         /\ OwnerMap' = [n \in Names \ {NoName} |-> IF OwnerMap[n] = c THEN NULL ELSE OwnerMap[n]]
<1>1. clients \in [Slots -> Slot] /\ c \in Conns /\ c # NULL
  BY ServerAssumption DEF TypeOK
<1>2. \A i, j \in Slots : clients[i].conn = c /\ clients[j].conn = c => i = j
  BY <1>1 DEF TableInv
<1>3. \A i \in Slots : IF clients[i].conn = c
                       THEN clients'[i].name = NoName /\ clients'[i].conn = NULL
                       ELSE clients'[i] = clients[i]
  <2>1. CASE clients' = clients /\ \A i \in Slots : clients[i].conn # c
    BY <2>1
  <2>2. CASE \E i \in Slots : /\ clients[i].conn = c
                              /\ clients' = [clients EXCEPT ![i] = [name |-> NoName, conn |-> NULL]]
    BY <1>1, <1>2, <2>2
  <2>3. QED
    BY <1>1, <2>1, <2>2, ClearSlotEmptiesOne
<1>4. ASSUME NEW n \in Names \ {NoName}
      PROVE  Owner(n)' = IF Owner(n) = c THEN NULL ELSE Owner(n)
  <2>1. CASE \A i \in Slots : clients[i].name # n
    <3>1. \A i \in Slots : clients'[i].name # n
      BY <1>3, <2>1
    <3>2. QED
      BY <1>1, <2>1, <3>1, OwnerIs, OwnerWillBe
  <2>2. ASSUME NEW i \in Slots, clients[i].name = n
        PROVE  Owner(n)' = IF Owner(n) = c THEN NULL ELSE Owner(n)
    <3>1. \A j \in Slots : clients[j].name = n => j = i
      BY <2>2 DEF TableInv
    <3>2. Owner(n) = clients[i].conn
      BY <2>2, <3>1, OwnerIs
    <3>3. CASE clients[i].conn = c
      <4>1. \A j \in Slots : clients'[j].name # n
        BY <1>3, <3>1, <3>3
      <4>2. QED
        BY <3>2, <3>3, <4>1, OwnerWillBe
    <3>4. CASE clients[i].conn # c
      <4>1. clients'[i] = clients[i]
        BY <1>3, <3>4
      <4>2. \A j \in Slots : clients'[j].name = n => j = i
        BY <1>3, <3>1
      <4>3. Owner(n)' = clients'[i].conn
        BY <2>2, <4>1, <4>2, OwnerWillBe
      <4>4. QED
        BY <3>2, <3>4, <4>1, <4>3
    <3>5. QED
      BY <3>3, <3>4
  <2>3. QED
    BY <2>1, <2>2
<1>5. OwnerMap' = [n \in Names \ {NoName} |-> IF OwnerMap[n] = c THEN NULL ELSE OwnerMap[n]]
  BY <1>4 DEF OwnerMap
<1>6. QED
  BY <1>3, <1>5

\* A step that leaves the table and the connections alone changes no owner.
LEMMA TableStays ==
  ASSUME TableInv, clients' = clients, active' = active, peer' = peer
  PROVE  TableInv' /\ OwnerMap' = OwnerMap
BY DEF TableInv, OwnerMap, Owner

\* A table without connections has no owners.
LEMMA NobodyOwns ==
  ASSUME TypeOK, TableInv, active = {}
  PROVE  OwnerMap = [n \in Names \ {NoName} |-> NULL]
<1>1. ASSUME NEW n \in Names \ {NoName}
      PROVE  Owner(n) = NULL
  <2>1. \A i \in Slots : clients[i].name # n
    BY DEF TableInv
  <2>2. QED
    BY <2>1, OwnerIs
<1>2. QED
  BY <1>1 DEF OwnerMap

\* Who the server's next table belongs to when every slot is empty.
LEMMA EmptyTable ==
  ASSUME HeapNames = {NoName}, HeapConns = {NULL}, clients \in HeapSlots, active = {}
  PROVE  TableInv /\ OwnerMap = [n \in Names \ {NoName} |-> NULL]
<1>1. \A i \in Slots : clients[i].name = NoName /\ clients[i].conn = NULL
  BY DEF HeapSlots
<1>2. TableInv
  BY <1>1 DEF TableInv
<1>3. \A n \in Names \ {NoName} : Owner(n) = NULL
  BY <1>1, OwnerIs
<1>4. QED
  BY <1>2, <1>3 DEF OwnerMap

\* The connections in the frames that a walk over some slots queued.
LEMMA WalkHeard ==
  ASSUME NEW S, sent' = {<<i, clients[i].conn>> : i \in S}
  PROVE  Heard' = {clients[i].conn : i \in S}
<1>1. Heard' = {s[2] : s \in sent'}
  BY DEF Heard
<1>2. ASSUME NEW x \in Heard'
      PROVE  x \in {clients[i].conn : i \in S}
  <2>1. PICK s \in sent' : x = s[2]
    BY <1>1
  <2>2. PICK i \in S : s = <<i, clients[i].conn>>
    BY <2>1
  <2>3. QED
    BY <2>1, <2>2
<1>3. ASSUME NEW i \in S
      PROVE  clients[i].conn \in Heard'
  <2>1. PICK s \in sent' : s = <<i, clients[i].conn>>
    OBVIOUS
  <2>2. s[2] \in Heard'
    BY <1>1
  <2>3. QED
    BY <2>1, <2>2
<1>4. QED
  BY <1>2, <1>3

\* A message to a name is heard by the owner of the name, or by nobody.
LEMMA MessageHeard ==
  ASSUME PrefixFree, TypeOK, TableInv, NEW to \in Names \ {NoName}, cm_busserver_send_msg(to)
  PROVE  Heard' = {OwnerMap[to]} \ {NULL}
<1>1. clients \in [Slots -> Slot]
  BY DEF TypeOK
<1>2. \A i \in Slots : i \in Matching(to) <=> clients[i].name = to
  BY <1>1, NamesAssumption DEF Matching, PrefixFree, Slot
<1>3. Heard' = {clients[i].conn : i \in {j \in Slots : /\ IsFirst(j, Matching(to))
                                                       /\ clients[j].conn # NULL}}
  BY WalkHeard DEF cm_busserver_send_msg
<1>4. CASE \E i \in Slots : clients[i].name = to /\ clients[i].conn = Owner(to) /\ Owner(to) # NULL
  <2>1. PICK i \in Slots : clients[i].name = to /\ clients[i].conn = Owner(to) /\ Owner(to) # NULL
    BY <1>4
  <2>2. \A j \in Matching(to) : j = i
    BY <1>2, <2>1 DEF TableInv, Matching
  <2>3. IsFirst(i, Matching(to))
    BY <1>2, <2>1, <2>2, ServerAssumption DEF IsFirst, Slots
  <2>4. \A j \in Slots : IsFirst(j, Matching(to)) => j = i
    BY <2>2 DEF IsFirst
  <2>5. Heard' = {Owner(to)}
    BY <1>3, <2>1, <2>3, <2>4
  <2>6. QED
    BY <2>1, <2>5 DEF OwnerMap
<1>5. CASE (\A i \in Slots : clients[i].name # to) /\ Owner(to) = NULL
  <2>1. \A j \in Slots : ~IsFirst(j, Matching(to))
    BY <1>2, <1>5 DEF IsFirst
  <2>2. Heard' = {}
    BY <1>3, <2>1
  <2>3. QED
    BY <1>5, <2>2 DEF OwnerMap
<1>6. QED
  BY <1>4, <1>5, OwnerHasSlot

\* A message to the empty name is heard by the owner of some name, or by nobody.
LEMMA MessageToNobody ==
  ASSUME TypeOK, TableInv, cm_busserver_send_msg(NoName)
  PROVE  Heard' = {} \/ \E n \in Names \ {NoName} : Heard' = {OwnerMap[n]} \ {NULL}
<1>1. clients \in [Slots -> Slot]
  BY DEF TypeOK
<1>2. Heard' = {clients[i].conn : i \in {j \in Slots : /\ IsFirst(j, Matching(NoName))
                                                       /\ clients[j].conn # NULL}}
  BY WalkHeard DEF cm_busserver_send_msg
<1>3. \A i, j \in Slots : IsFirst(i, Matching(NoName)) /\ IsFirst(j, Matching(NoName)) => i = j
  <2>1. Slots \subseteq Int
    BY DEF Slots
  <2>2. QED
    BY <2>1 DEF IsFirst, Matching
<1>4. CASE \E i \in Slots : IsFirst(i, Matching(NoName)) /\ clients[i].conn # NULL
  <2>1. PICK i \in Slots : IsFirst(i, Matching(NoName)) /\ clients[i].conn # NULL
    BY <1>4
  <2>2. Heard' = {clients[i].conn}
    BY <1>2, <1>3, <2>1
  <2>3. clients[i].name \in Names \ {NoName}
    BY <1>1, <2>1 DEF TableInv, Slot
  <2>4. \A j \in Slots : clients[j].name = clients[i].name => j = i
    BY <2>3 DEF TableInv
  <2>5. Owner(clients[i].name) = clients[i].conn
    BY <2>4, OwnerIs
  <2>6. Heard' = {OwnerMap[clients[i].name]} \ {NULL}
    BY <2>1, <2>2, <2>3, <2>5 DEF OwnerMap
  <2>7. QED
    BY <2>3, <2>6
<1>5. CASE \A i \in Slots : ~(IsFirst(i, Matching(NoName)) /\ clients[i].conn # NULL)
  BY <1>2, <1>5
<1>6. QED
  BY <1>4, <1>5

\* A broadcast is heard by every owner and by nobody else.
LEMMA BroadcastHeard ==
  ASSUME TypeOK, TableInv, cm_busserver_broadcast
  PROVE  Heard' = {OwnerMap[n] : n \in Names \ {NoName}} \ {NULL}
<1>1. clients \in [Slots -> Slot]
  BY DEF TypeOK
<1>2. Heard' = {clients[i].conn : i \in {j \in Slots : clients[j].conn # NULL}}
  BY WalkHeard DEF cm_busserver_broadcast
<1>3. ASSUME NEW i \in Slots, clients[i].conn # NULL
      PROVE  \E n \in Names \ {NoName} : OwnerMap[n] = clients[i].conn
  <2>1. clients[i].name \in Names \ {NoName}
    BY <1>1, <1>3 DEF TableInv, Slot
  <2>2. \A j \in Slots : clients[j].name = clients[i].name => j = i
    BY <2>1 DEF TableInv
  <2>3. Owner(clients[i].name) = clients[i].conn
    BY <2>2, OwnerIs
  <2>4. QED
    BY <2>1, <2>3 DEF OwnerMap
<1>4. ASSUME NEW n \in Names \ {NoName}, OwnerMap[n] # NULL
      PROVE  \E i \in Slots : clients[i].conn # NULL /\ clients[i].conn = OwnerMap[n]
  BY <1>4, OwnerHasSlot DEF OwnerMap
<1>5. QED
  BY <1>2, <1>3, <1>4

LEMMA QuietStep ==
  ASSUME TableInv, UNCHANGED <<clients, active, peer>>, sent' = {}
  PROVE  TableInv' /\ Registry!Silence
<1>1. TableInv' /\ OwnerMap' = OwnerMap
  BY TableStays
<1>2. Heard' = {}
  BY DEF Heard
<1>3. QED
  BY <1>1, <1>2 DEF Registry!Silence, OwnerMap, Heard

\* The registry when the server starts anew.
LEMMA InitStep ==
  ASSUME HeapNames = {NoName}, HeapConns = {NULL}, TypeOK, LeftInv, TableInv, cm_busserver_init
  PROVE  TableInv' /\ Registry!Silence
<1>1. active = {} /\ active' = {} /\ clients' \in HeapSlots /\ sent' = {}
  BY DEF cm_busserver_init, LeftInv
<1>2. (HeapNames = {NoName} /\ HeapConns = {NULL} /\ clients \in HeapSlots /\ active = {}
         => TableInv /\ OwnerMap = [n \in Names \ {NoName} |-> NULL])'
  BY EmptyTable, PTL
<1>3. HeapSlots' = HeapSlots
  BY DEF HeapSlots, Slots
<1>4. TableInv' /\ OwnerMap' = [n \in Names \ {NoName} |-> NULL]
  BY <1>1, <1>2, <1>3
<1>5. OwnerMap = [n \in Names \ {NoName} |-> NULL]
  BY <1>1, NobodyOwns
<1>6. Heard' = {}
  BY <1>1 DEF Heard
<1>7. QED
  BY <1>1, <1>4, <1>5, <1>6 DEF Registry!Silence, OwnerMap, Heard

LEMMA AcceptStep ==
  ASSUME TypeOK, TableInv, NoName \notin PeerNames,
         NEW c \in Conns, NEW n \in PeerNames, Accept(c, n)
  PROVE  TableInv' /\ Registry!Connect(c)
<1>1. /\ c \notin active /\ active' = active \cup {c} /\ peer' = [peer EXCEPT ![c] = n]
      /\ clients' = clients /\ sent' = {}
  BY DEF Accept
<1>2. peer'[c] = n /\ \A d \in active : peer'[d] = peer[d]
  BY <1>1 DEF TypeOK
<1>3. TableInv'
  BY <1>1, <1>2 DEF TableInv
<1>4. OwnerMap' = OwnerMap /\ Heard' = {}
  BY <1>1 DEF OwnerMap, Owner, Heard
<1>5. QED
  BY <1>1, <1>3, <1>4 DEF Registry!Connect, OwnerMap, Heard

LEMMA CloseStep ==
  ASSUME TypeOK, TableInv, NEW c \in Conns, Close(c)
  PROVE  TableInv' /\ Registry!Leave(c)
<1>1. /\ c \in active /\ active' = active \ {c} /\ sent' = {} /\ ClearSlot(c)
      /\ \A d \in active \ {c} : peer'[d] = peer[d]
  BY DEF Close, TypeOK
<1>2. /\ \A i \in Slots : IF clients[i].conn = c
                          THEN clients'[i].name = NoName /\ clients'[i].conn = NULL
                          ELSE clients'[i] = clients[i]
      /\ OwnerMap' = [n \in Names \ {NoName} |-> IF OwnerMap[n] = c THEN NULL ELSE OwnerMap[n]]
  BY <1>1, CloseFreesNames
<1>3. TableInv'
  <2>1. \A j, k \in Slots : clients'[j].name = clients'[k].name /\ clients'[j].name # NoName => j = k
    BY <1>2 DEF TableInv
  <2>2. \A j \in Slots : /\ clients'[j].conn = NULL <=> clients'[j].name = NoName
                         /\ clients'[j].conn # NULL =>
                              clients'[j].conn \in active' /\ clients'[j].name = peer'[clients'[j].conn]
    BY <1>1, <1>2 DEF TableInv
  <2>3. \A d \in active' : peer'[d] # NoName
    BY <1>1 DEF TableInv
  <2>4. QED
    BY <2>1, <2>2, <2>3 DEF TableInv
<1>4. Heard' = {}
  BY <1>1 DEF Heard
<1>5. QED
  BY <1>1, <1>2, <1>3, <1>4 DEF Registry!Leave, OwnerMap, Heard

LEMMA JoinStep ==
  ASSUME PrefixFree, SlotForEveryName, TypeOK, TableInv, HandleJoin
  PROVE  /\ TableInv'
         /\ \E c \in Conns, n \in Names \ {NoName} : Registry!Join(n, c)
<1>1. PICK m \in Message : Iteration(m)
  BY DEF HandleJoin
<1>2. cur \in Conns /\ cur \in active /\ active' = active /\ peer' = peer
  BY <1>1, IterationType
<1>3. peer[cur] \in Names \ {NoName}
  BY <1>2 DEF TypeOK, TableInv
<1>4. bus_client_set_conn(peer[cur], cur) /\ sent' = {<<Reply, cur>>}
  BY DEF HandleJoin
<1>5. TableInv' /\ OwnerMap' = [OwnerMap EXCEPT ![peer[cur]] = cur]
  BY <1>2, <1>3, <1>4, JoinGivesName
<1>6. Heard' = {cur}
  BY <1>4 DEF Heard
<1>7. \A c \in Conns, n \in Names \ {NoName} : c = cur /\ n = peer[cur] => Registry!Join(n, c)
  BY <1>2, <1>5, <1>6 DEF Registry!Join, OwnerMap, Heard
<1>8. QED
  BY <1>2, <1>3, <1>5, <1>7

LEMMA SubscribeStep ==
  ASSUME TypeOK, TableInv, HandleSubscribe
  PROVE  TableInv' /\ \E c \in Conns : Registry!Answer(c)
<1>1. PICK m \in Message : Iteration(m) /\ clients' = clients
  BY DEF HandleSubscribe
<1>2. cur \in Conns /\ cur \in active /\ active' = active /\ peer' = peer
  BY <1>1, IterationType
<1>3. TableInv' /\ OwnerMap' = OwnerMap
  BY <1>1, <1>2, TableStays
<1>4. sent' = {<<Reply, cur>>}
  BY DEF HandleSubscribe
<1>5. Heard' = {cur}
  BY <1>4 DEF Heard
<1>6. \A c \in Conns : c = cur => Registry!Answer(c)
  BY <1>2, <1>3, <1>5 DEF Registry!Answer, OwnerMap, Heard
<1>7. QED
  BY <1>2, <1>3, <1>6

LEMMA PublishStep ==
  ASSUME PrefixFree, TypeOK, TableInv, HandlePublish
  PROVE  /\ TableInv'
         /\ \/ \E n \in Names \ {NoName} : Registry!Tell(n)
            \/ Registry!TellAll
            \/ Registry!Silence
<1>1. PICK m \in Message : Iteration(m) /\ clients' = clients
  BY DEF HandlePublish
<1>2. active' = active /\ peer' = peer
  BY <1>1, IterationType
<1>3. TableInv' /\ OwnerMap' = OwnerMap
  BY <1>1, <1>2, TableStays
<1>4. ASSUME Heard' = {}
      PROVE  Registry!Silence
  BY <1>2, <1>3, <1>4 DEF Registry!Silence, OwnerMap, Heard
<1>5. ASSUME NEW n \in Names \ {NoName}, Heard' = {OwnerMap[n]} \ {NULL}
      PROVE  Registry!Tell(n)
  BY <1>2, <1>3, <1>5 DEF Registry!Tell, OwnerMap, Heard
<1>6. ASSUME cm_busserver_broadcast
      PROVE  Registry!TellAll
  <2>1. Heard' = {OwnerMap[n] : n \in Names \ {NoName}} \ {NULL}
    BY <1>6, BroadcastHeard
  <2>2. QED
    BY <1>2, <1>3, <2>1 DEF Registry!TellAll, Registry!Owners, OwnerMap, Heard
<1>7. ASSUME NEW to \in Names, cm_busserver_send_msg(to)
      PROVE  (\E n \in Names \ {NoName} : Registry!Tell(n)) \/ Registry!Silence
  <2>1. CASE to = NoName
    <3>1. Heard' = {} \/ \E n \in Names \ {NoName} : Heard' = {OwnerMap[n]} \ {NULL}
      BY <1>7, <2>1, MessageToNobody
    <3>2. QED
      BY <1>4, <1>5, <3>1
  <2>2. CASE to # NoName
    <3>1. Heard' = {OwnerMap[to]} \ {NULL}
      BY <1>7, <2>2, MessageHeard
    <3>2. QED
      BY <1>5, <2>2, <3>1
  <2>3. QED
    BY <2>1, <2>2
<1>8. sent' = {} => Heard' = {}
  BY DEF Heard
<1>9. (\E to \in Names : cm_busserver_send_msg(to)) \/ cm_busserver_broadcast \/ sent' = {}
  BY DEF HandlePublish
<1>10. QED
  BY <1>3, <1>4, <1>6, <1>7, <1>8, <1>9

\* Every step of the server is a step of the registry.
LEMMA RegistryStep ==
  ASSUME PrefixFree, SlotForEveryName, HeapNames = {NoName}, HeapConns = {NULL},
         NoName \notin PeerNames, TypeOK, LeftInv, TableInv, [Next]_vars
  PROVE  TableInv' /\ [Registry!Next]_(Registry!rvars)
<1> USE DEF Registry!Next, Registry!rvars
<1>1. CASE cm_busserver_init
  BY <1>1, InitStep
<1>2. CASE cm_busserver_deinit \/ cm_busserver_run \/ RecvStart \/ RecvEnd
  BY <1>2, QuietStep DEF cm_busserver_deinit, cm_busserver_run, RecvStart, RecvEnd
<1>3. ASSUME NEW c \in Conns, NEW n \in PeerNames, Accept(c, n)
      PROVE  TableInv' /\ Registry!Next
  BY <1>3, AcceptStep
<1>4. ASSUME NEW c \in Conns, NEW m \in Message, Read(c, m)
      PROVE  TableInv' /\ Registry!Next
  BY <1>4, QuietStep DEF Read
<1>5. ASSUME NEW c \in Conns, Close(c)
      PROVE  TableInv' /\ Registry!Next
  BY <1>5, CloseStep
<1>6. CASE HandleJoin
  BY <1>6, JoinStep
<1>7. CASE HandleSubscribe
  BY <1>7, SubscribeStep
<1>8. CASE HandlePublish
  BY <1>8, PublishStep
<1>9. CASE HandleOther
  BY <1>9, QuietStep, IterationType DEF HandleOther
<1>10. CASE UNCHANGED vars
  <2>1. TableInv' /\ OwnerMap' = OwnerMap
    BY <1>10, TableStays DEF vars
  <2>2. QED
    BY <1>10, <2>1 DEF vars, OwnerMap
<1>11. QED
  BY <1>1, <1>2, <1>3, <1>4, <1>5, <1>6, <1>7, <1>8, <1>9, <1>10 DEF Next, Mongoose, Serve

\* Of any number of connections, joins and messages: when no name is a prefix of
\* another, every name can have a slot and the memory of the table is clean, a
\* message to a name goes to the program that joined under it last, if it is still
\* connected, and a broadcast to all of them and to nobody else.
THEOREM RegistryImplemented ==
  ASSUME PrefixFree, SlotForEveryName, HeapNames = {NoName}, HeapConns = {NULL},
         NoName \notin PeerNames
  PROVE  Spec => ImplementsRegistry
<1>1. Init => LeftInv
  BY DEF Init, LeftInv
<1>2. Init => TableInv /\ Registry!Init
  <2> SUFFICES ASSUME Init PROVE TableInv /\ Registry!Init
    OBVIOUS
  <2>1. TableInv /\ OwnerMap = [n \in Names \ {NoName} |-> NULL]
    BY EmptyTable DEF Init
  <2>2. Heard = {} /\ active = {}
    BY DEF Init, Heard
  <2>3. QED
    BY <2>1, <2>2 DEF Registry!Init, OwnerMap, Heard
<1>3. TypeOK /\ LeftInv /\ TableInv /\ [Next]_vars => TableInv' /\ [Registry!Next]_(Registry!rvars)
  BY RegistryStep
<1>4. QED
  BY <1>1, <1>2, <1>3, LeftInvInductive, TypeCorrect, PTL DEF Spec, ImplementsRegistry, Registry!Spec
=============================================================================
