----------------------------- MODULE BusServer -----------------------------
(***************************************************************************)
(* The bus server of common/busserver/src/busserver_ex.c: a table of       *)
(* BUS_TYPE_MAX named slots, filled by "/bus/join" requests, emptied when  *)
(* the connection closes, and used to route what the application publishes *)
(* (cm_busserver_send_msg, cm_busserver_broadcast).  One thread runs the   *)
(* server: cm_busserver_run polls mongoose, mongoose calls ev_handler, and *)
(* ev_handler calls the application, which calls the server back.          *)
(*                                                                         *)
(* A connection is the ADDRESS of its struct mg_connection.  Mongoose      *)
(* frees it on close and may hand the same address to a later connection,  *)
(* which is what makes a stale slot dangerous.                             *)
(***************************************************************************)
EXTENDS Integers, Sequences, FiniteSets

CONSTANTS
  Names,         \* the names clients use; char name[32], so already truncated
  NoName,        \* the empty string, which also marks a free slot
  Prefixes,      \* the pairs <<p, n>> of names such that p is a prefix of n
  Conns,         \* the addresses a struct mg_connection may have
  NULL,
  BUS_TYPE_MAX,  \* the number of slots
  HeapNames,     \* what malloc may leave in a slot's name ...
  HeapConns,     \* ... and in its conn: cm_busserver_init clears neither
  PeerNames,     \* the names of the clients that connect (cc->name)
  JoinsPerConn,  \* how many times one connection may send "/bus/join"
  Traffic,       \* the other messages that peers send
  MaxBuf         \* bound: complete messages in one receive buffer

(***************************************************************************)
(* A message is abstracted to what the strncmp calls of                    *)
(* busclient_parse_multipart_msg and handle_multipart_msg tell apart.      *)
(* "re" stands for a proper prefix of "request", the empty part included,  *)
(* and "pu" for one of "publish": the parser gives them no type, the       *)
(* handler takes them for the whole word.                                  *)
(***************************************************************************)
Heads   == {"request", "publish", "keepalive", "response", "re", "pu", "other"}
Topics  == {"/bus/join", "/bus/subscribe", "other"}
Message == [head : Heads, topic : Topics]

IsRequest(m) == m.head \in {"request", "re"}
IsPublish(m) == m.head \in {"publish", "pu"}
IsJoin(m)    == IsRequest(m) /\ m.topic = "/bus/join"
JoinMsg      == [head |-> "request", topic |-> "/bus/join"]

IsPrefix(p, n) == <<p, n>> \in Prefixes

ASSUME NamesAssumption ==
  /\ NoName \in Names
  /\ PeerNames \subseteq Names
  /\ Prefixes \subseteq Names \X Names
  /\ \A n \in Names : IsPrefix(n, n) /\ IsPrefix(NoName, n)
  /\ \A n \in Names : IsPrefix(n, NoName) => n = NoName

ASSUME ServerAssumption ==
  /\ NULL \notin Conns
  /\ BUS_TYPE_MAX \in Nat \ {0}
  /\ HeapNames \subseteq Names /\ HeapNames # {}
  /\ HeapConns \subseteq Conns \cup {NULL} /\ HeapConns # {}

ASSUME PeerAssumption ==
  /\ JoinsPerConn \in Nat
  /\ MaxBuf \in Nat
  /\ Traffic \subseteq Message
  /\ \A m \in Traffic : ~IsJoin(m)

Slots == 0 .. BUS_TYPE_MAX - 1
Slot  == [name : Names, conn : Conns \cup {NULL}]
Reply == -1   \* in "sent", the place of a slot for a response
-----------------------------------------------------------------------------
VARIABLES
  clients,  \* ss->clients: the slots
  active,   \* mongoose: the connections it has open
  peer,     \* the name of the client program behind a connection
  todo,     \* how many joins that program may still send on this connection
  rbuf,     \* nc->recv_mbuf: the complete messages not yet removed
  pc,       \* where the server thread is
  cur,      \* the connection whose MG_EV_RECV is being handled
  type,     \* the local "type" of that handler: 0 or the last type parsed
  sent      \* <<slot, connection>> of each frame queued by the last step

srv  == <<clients, sent>>
env  == <<peer, todo>>
loop == <<pc, cur, type>>
vars == <<clients, active, peer, todo, rbuf, pc, cur, type, sent>>

BUSCLIENT_KEEPALIVE    == 1
BUSCLIENT_RPC_REQUEST  == 2
BUSCLIENT_RPC_RESPONSE == 3
BUSCLIENT_RECV_TOPIC   == 5
MsgTypes == {BUSCLIENT_KEEPALIVE, BUSCLIENT_RPC_REQUEST,
             BUSCLIENT_RPC_RESPONSE, BUSCLIENT_RECV_TOPIC}

HeapSlots == [Slots -> [name : HeapNames, conn : HeapConns]]

Init ==
  /\ clients \in HeapSlots
  /\ active = {}
  /\ peer \in [Conns -> {NoName}]
  /\ todo = [c \in Conns |-> 0]
  /\ rbuf = [c \in Conns |-> <<>>]
  /\ pc = "idle" /\ cur = NULL /\ type = 0
  /\ sent = {}
-----------------------------------------------------------------------------
(* The slot table *)

IsFirst(i, S) == i \in S /\ \A j \in S : i <= j

\* The slots that "strncmp(clients[i].name, name, strlen(name)) == 0" accepts.
Matching(name) == {i \in Slots : IsPrefix(name, clients[i].name)}

FreeSlots == {i \in Slots : clients[i].name = NoName}

FillFirst(S, name, c) ==
  \E i \in S : /\ IsFirst(i, S)
               /\ clients' = [clients EXCEPT ![i] = [name |-> name, conn |-> c]]

\* Mutant: a slot taken over keeps its old name.
SetConnKeepsName(name, c) ==
  \/ \E i \in Matching(name) :
       /\ IsFirst(i, Matching(name))
       /\ clients' = [clients EXCEPT ![i].conn = c]
  \/ Matching(name) = {} /\ FillFirst(FreeSlots, name, c)
  \/ Matching(name) \cup FreeSlots = {} /\ UNCHANGED clients

\* Mutant: no return after the slot of the name, so a free one is filled too.
SetConnTwice(name, c) ==
  LET written == {i \in Slots : \/ IsFirst(i, Matching(name))
                                \/ IsFirst(i, FreeSlots)}
  IN  clients' = [i \in Slots |-> IF i \in written THEN [name |-> name, conn |-> c]
                                                  ELSE clients[i]]

\* The first slot whose name starts with the joining name is taken over, else
\* the first free one; with neither the join is answered but recorded nowhere.
bus_client_set_conn(name, c) ==
  \/ FillFirst(Matching(name), name, c)
  \/ Matching(name) = {} /\ FillFirst(FreeSlots, name, c)
  \/ Matching(name) \cup FreeSlots = {} /\ UNCHANGED clients

\* Mutant: the name is cleared and the connection is not.
ClearNameOnly(c) ==
  LET held == {i \in Slots : clients[i].conn = c}
  IN  \/ \E i \in held :
           /\ IsFirst(i, held)
           /\ clients' = [clients EXCEPT ![i].name = NoName]
      \/ held = {} /\ UNCHANGED clients

\* Mutant: the slot is looked up by the name of the client.
ClearByName(c) ==
  clients' = [i \in Slots |-> IF clients[i].name = peer[c]
                              THEN [name |-> NoName, conn |-> NULL] ELSE clients[i]]

\* MG_EV_CLOSE empties the first slot of the connection and looks no further.
ClearSlot(c) ==
  LET held == {i \in Slots : clients[i].conn = c}
  IN  \/ \E i \in held :
           /\ IsFirst(i, held)
           /\ clients' = [clients EXCEPT ![i] = [name |-> NoName, conn |-> NULL]]
      \/ held = {} /\ UNCHANGED clients

cm_busserver_broadcast ==
  sent' = {<<i, clients[i].conn>> : i \in {j \in Slots : clients[j].conn # NULL}}

cm_busserver_send_msg(to) ==
  sent' = {<<i, clients[i].conn>> :
              i \in {j \in Slots : /\ IsFirst(j, Matching(to))
                                   /\ clients[j].conn # NULL}}
-----------------------------------------------------------------------------
(* Start and stop *)

cm_busserver_init ==
  /\ pc = "freed" /\ pc' = "idle"
  /\ clients' \in HeapSlots
  /\ sent' = {}
  /\ UNCHANGED <<active, peer, todo, rbuf, cur, type>>

\* Only before the loop starts: cm_busserver_run never returns.
cm_busserver_deinit ==
  /\ pc = "idle" /\ pc' = "freed"
  /\ sent' = {}
  /\ UNCHANGED <<clients, active, peer, todo, rbuf, cur, type>>

cm_busserver_run ==
  /\ pc = "idle" /\ pc' = "poll"
  /\ sent' = {}
  /\ UNCHANGED <<clients, active, peer, todo, rbuf, cur, type>>
-----------------------------------------------------------------------------
(* What mongoose reports *)

\* The address is any one not in use, that of a closed connection included.
Accept(c, n) ==
  /\ pc = "poll" /\ c \notin active
  /\ active' = active \cup {c}
  /\ peer' = [peer EXCEPT ![c] = n]
  /\ todo' = [todo EXCEPT ![c] = JoinsPerConn]
  /\ rbuf' = [rbuf EXCEPT ![c] = <<>>]
  /\ sent' = {}
  /\ UNCHANGED <<clients, pc, cur, type>>

\* One read(2) may bring several messages, hence "read" until RecvStart.
Read(c, m) ==
  /\ c \in active
  /\ \/ pc = "poll"
     \/ pc = "read" /\ cur = c
  /\ Len(rbuf[c]) < MaxBuf
  /\ \/ m \in Traffic /\ UNCHANGED todo
     \/ m = JoinMsg /\ todo[c] > 0 /\ todo' = [todo EXCEPT ![c] = @ - 1]
  /\ rbuf' = [rbuf EXCEPT ![c] = Append(@, m)]
  /\ pc' = "read" /\ cur' = c /\ type' = 0
  /\ sent' = {}
  /\ UNCHANGED <<clients, active, peer>>

RecvStart ==
  /\ pc = "read" /\ pc' = "recv"
  /\ sent' = {}
  /\ UNCHANGED <<clients, active, peer, todo, rbuf, cur, type>>

\* Mutant: a connection is freed in the middle of its own MG_EV_RECV.
CloseAnytime(c) ==
  /\ c \in active
  /\ active' = active \ {c}
  /\ ClearSlot(c)
  /\ rbuf' = [rbuf EXCEPT ![c] = <<>>]
  /\ todo' = [todo EXCEPT ![c] = 0]
  /\ peer' = [peer EXCEPT ![c] = NoName]
  /\ sent' = {}
  /\ UNCHANGED loop

Close(c) ==
  /\ pc = "poll" /\ c \in active
  /\ active' = active \ {c}
  /\ ClearSlot(c)
  /\ rbuf' = [rbuf EXCEPT ![c] = <<>>]
  /\ todo' = [todo EXCEPT ![c] = 0]
  /\ peer' = [peer EXCEPT ![c] = NoName]
  /\ sent' = {}
  /\ UNCHANGED loop
-----------------------------------------------------------------------------
(* MG_EV_RECV: "type" is reset once per event, not once per message *)

busclient_parse_type(m) ==
  CASE m.head = "keepalive" -> BUSCLIENT_KEEPALIVE
    [] m.head = "request"   -> BUSCLIENT_RPC_REQUEST
    [] m.head = "response"  -> BUSCLIENT_RPC_RESPONSE
    [] m.head = "publish"   -> BUSCLIENT_RECV_TOPIC
    [] OTHER                -> type

\* m is the next complete message, and "type" is not 0 after parsing it.
Parsed(m) ==
  /\ pc = "recv" /\ rbuf[cur] # <<>>
  /\ m = Head(rbuf[cur])
  /\ busclient_parse_type(m) # 0

\* Mutant: one message per event, the rest waits for the next one.
RecvEndEarly ==
  /\ pc = "recv"
  /\ (~\E m \in Message : Parsed(m)) \/ type # 0
  /\ pc' = "poll" /\ cur' = NULL /\ type' = 0
  /\ sent' = {}
  /\ UNCHANGED <<clients, active, peer, todo, rbuf>>

\* The loop breaks without removing anything when no message is complete or
\* no message of this event had a known type yet.
RecvEnd ==
  /\ pc = "recv" /\ ~\E m \in Message : Parsed(m)
  /\ pc' = "poll" /\ cur' = NULL /\ type' = 0
  /\ sent' = {}
  /\ UNCHANGED <<clients, active, peer, todo, rbuf>>

\* Mutant: mbuf_remove is forgotten.
IterationKeepsBuffer(m) ==
  /\ Parsed(m)
  /\ type' = busclient_parse_type(m)
  /\ UNCHANGED <<active, peer, todo, rbuf, pc, cur>>

\* What every iteration does around handle_multipart_msg: parse, mbuf_remove.
Iteration(m) ==
  /\ Parsed(m)
  /\ type' = busclient_parse_type(m)
  /\ rbuf' = [rbuf EXCEPT ![cur] = Tail(@)]
  /\ UNCHANGED <<active, peer, todo, pc, cur>>

HandleJoin ==
  \E m \in Message :
    /\ Iteration(m) /\ IsJoin(m)
    /\ bus_client_set_conn(peer[cur], cur)
    /\ sent' = {<<Reply, cur>>}

HandleSubscribe ==
  \E m \in Message :
    /\ Iteration(m) /\ IsRequest(m) /\ m.topic = "/bus/subscribe"
    /\ sent' = {<<Reply, cur>>}
    /\ UNCHANGED clients

\* The application's callback: it may answer with one message, or with none.
HandlePublish ==
  \E m \in Message :
    /\ Iteration(m) /\ IsPublish(m)
    /\ \/ \E to \in Names : cm_busserver_send_msg(to)
       \/ cm_busserver_broadcast
       \/ sent' = {}
    /\ UNCHANGED clients

HandleOther ==
  \E m \in Message :
    /\ Iteration(m) /\ ~IsPublish(m)
    /\ IsRequest(m) => m.topic = "other"
    /\ sent' = {}
    /\ UNCHANGED clients
-----------------------------------------------------------------------------
Serve == RecvStart \/ RecvEnd \/ HandleJoin \/ HandleSubscribe
           \/ HandlePublish \/ HandleOther

Mongoose == \E c \in Conns : \/ \E n \in PeerNames : Accept(c, n)
                             \/ \E m \in Message : Read(c, m)
                             \/ Close(c)

Next == \/ cm_busserver_init
        \/ cm_busserver_deinit
        \/ cm_busserver_run
        \/ Mongoose
        \/ Serve

Spec == Init /\ [][Next]_vars

\* A handler that mongoose called runs to its end: the server thread does not
\* stop.  Nothing is assumed of the peers.
FairSpec == Spec /\ WF_vars(Serve)
-----------------------------------------------------------------------------
(* Properties *)

\* Types of the variables, and which control states belong together: the
\* handler's locals are in use exactly while an MG_EV_RECV is being handled.
TypeOK ==
  /\ clients \in [Slots -> Slot]
  /\ active \subseteq Conns
  /\ peer \in [Conns -> Names]
  /\ todo \in [Conns -> 0 .. JoinsPerConn]
  /\ rbuf \in [Conns -> Seq(Message)]
  /\ pc \in {"freed", "idle", "poll", "read", "recv"}
  /\ cur \in Conns \cup {NULL}
  /\ pc \in {"read", "recv"} => cur \in active
  /\ type \in MsgTypes \cup {0}
  /\ sent \subseteq (Slots \cup {Reply}) \X (Conns \cup {NULL})

\* No slot keeps the address of a connection that mongoose has freed: what
\* cm_busserver_send_msg and cm_busserver_broadcast hand to mg_send is alive.
\* MG_EV_CLOSE clears a single slot, so this needs one slot per connection.
NoDanglingSlot ==
  \A i \in Slots : clients[i].conn # NULL => clients[i].conn \in active

\* A slot that holds a connection carries the name of the client behind it,
\* although addresses are reused and slots are overwritten by other names.
SlotNamesItsPeer ==
  \A i \in Slots :
    clients[i].conn # NULL => clients[i].name = peer[clients[i].conn]

\* One publish reaches a connection at most once: no connection sits in two
\* slots of the table that cm_busserver_broadcast walks.
NoDoubleDelivery ==
  \A p, q \in sent : p[2] = q[2] => p = q

\* The inductive invariant behind these three when a program joins once per
\* connection: a connection whose join is still on its way holds no slot, so
\* the join never gives it a second one.
JoinPending(c) ==
  todo[c] > 0 \/ \E k \in DOMAIN rbuf[c] : IsJoin(rbuf[c][k])

AtMostOneJoin(c) ==
  /\ \A j, k \in DOMAIN rbuf[c] :
       IsJoin(rbuf[c][j]) /\ IsJoin(rbuf[c][k]) => j = k
  /\ todo[c] > 0 => \A k \in DOMAIN rbuf[c] : ~IsJoin(rbuf[c][k])

OneSlotPerConn ==
  \A i, j \in Slots :
    clients[i].conn = clients[j].conn /\ clients[i].conn # NULL => i = j

NewcomersHaveNoSlot ==
  \A c \in active : JoinPending(c) => \A i \in Slots : clients[i].conn # c

SlotInv == /\ NoDanglingSlot
           /\ SlotNamesItsPeer
           /\ OneSlotPerConn
           /\ NewcomersHaveNoSlot
           /\ \A c \in active : AtMostOneJoin(c)

\* Between events, what is left in a receive buffer starts with a message of
\* unknown type: the loop of MG_EV_RECV leaves no message it could handle.
NothingLeftBehind ==
  pc = "poll" =>
    \A c \in active :
      rbuf[c] # <<>> => Head(rbuf[c]).head \in {"re", "pu", "other"}

\* Every MG_EV_RECV is handled in finitely many iterations, whatever the peers
\* sent: the server thread always returns to mongoose.
RecvReturns == (pc = "read") ~> (pc = "poll")

(***************************************************************************)
(* The table implements the registry when no name is a prefix of another   *)
(* and there is a slot for every name: a name belongs to the connection in *)
(* the slot of that name.                                                  *)
(***************************************************************************)
Owner(n) ==
  LET held == {i \in Slots : clients[i].name = n}
  IN  IF held = {} THEN NULL ELSE clients[CHOOSE i \in held : TRUE].conn

Registry == INSTANCE BusRegistry
              WITH Names <- Names \ {NoName}, up <- active,
                   owner <- [n \in Names \ {NoName} |-> Owner(n)],
                   heard <- {s[2] : s \in sent}

\* The slot table behaves as the registry: a message to a name reaches the
\* client that joined under that name last, if it is still connected, and a
\* broadcast reaches all of them and nobody else.
ImplementsRegistry == Registry!Spec
=============================================================================
