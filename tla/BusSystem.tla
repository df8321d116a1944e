----------------------------- MODULE BusSystem -----------------------------
(***************************************************************************)
(* The bus with its clients: cm_busclient_* of                             *)
(* common/busserver/src/busserver_ex.c, in the programs of cmbusclient.c,  *)
(* which connect, join and connect again whenever the connection is lost,  *)
(* and the server of module BusServer, which may crash and be restarted.   *)
(*                                                                         *)
(* A client has at most one connection in its mongoose manager.  cc->conn  *)
(* points to it, and goes on doing so when mongoose has freed it.          *)
(***************************************************************************)
EXTENDS BusServer

CONSTANTS Recreates,  \* the clients whose program frees and recreates cc
          HeapExit,   \* what malloc may leave in cc->iExit
          MaxFails    \* bound: crashes of the server and failures of links

ASSUME ClientAssumption ==
  /\ Recreates \subseteq PeerNames
  /\ HeapExit \subseteq Int /\ HeapExit # {}
  /\ MaxFails \in Nat
  /\ "queued" \notin Conns \cup {NULL}

VARIABLES
  at,       \* where the thread of a client is
  sock,     \* the connection in its manager
  conn,     \* cc->conn is not NULL
  iExit,    \* cc->iExit
  link,     \* the server's end of sock: an address, "queued" or NULL
  backlog,  \* the kernel's queue of connections not accepted yet, by client
  fails     \* the failures so far

client  == <<at, sock, conn, iExit>>
net     == <<link, backlog, fails>>
server  == <<clients, active, peer, todo, rbuf, pc, cur, type, sent>>
sysvars == <<server, client, net>>

SysInit ==
  /\ Init
  /\ at = [n \in PeerNames |-> "out"]
  /\ sock = [n \in PeerNames |-> "none"]
  /\ conn = [n \in PeerNames |-> FALSE]
  /\ iExit \in [PeerNames -> HeapExit]
  /\ link = [n \in PeerNames |-> NULL]
  /\ backlog = <<>>
  /\ fails = 0

Fail == fails < MaxFails /\ fails' = fails + 1

Queued(n) == \E k \in DOMAIN backlog : backlog[k] = n
-----------------------------------------------------------------------------
(* cm_busclient_connect and the loop of the program around it *)

\* mg_connect only starts to connect; it returns NULL when it has no socket.
cm_busclient_connect(n) ==
  /\ at[n] = "out"
  /\ \/ /\ at' = [at EXCEPT ![n] = "loop"]
        /\ sock' = [sock EXCEPT ![n] = "connecting"]
        /\ conn' = [conn EXCEPT ![n] = TRUE]
        /\ UNCHANGED fails
     \/ /\ at' = [at EXCEPT ![n] = "sleep"]
        /\ conn' = [conn EXCEPT ![n] = FALSE]
        /\ Fail
        /\ UNCHANGED sock
  /\ UNCHANGED <<server, iExit, link, backlog>>

\* Mutant: cc->iExit is not reset.
LoopEndsUnreset(n) ==
  /\ at[n] = "loop" /\ iExit[n] # 0
  /\ at' = [at EXCEPT ![n] = IF iExit[n] = 2 THEN "sleep" ELSE "exit"]
  /\ UNCHANGED <<server, sock, conn, iExit, net>>

\* The program calls again when the result is negative, and ends otherwise.
LoopEnds(n) ==
  /\ at[n] = "loop" /\ iExit[n] # 0
  /\ at' = [at EXCEPT ![n] = IF iExit[n] = 2 THEN "sleep" ELSE "exit"]
  /\ iExit' = [iExit EXCEPT ![n] = 0]
  /\ UNCHANGED <<server, sock, conn, net>>

\* p_thread_1 calls with the same cc, p_thread_2 frees it and makes a new one.
Again(n) ==
  /\ at[n] = "sleep" /\ at' = [at EXCEPT ![n] = "out"]
  /\ \/ n \notin Recreates /\ UNCHANGED <<sock, conn, iExit, link>>
     \/ /\ n \in Recreates
        /\ \E e \in HeapExit : iExit' = [iExit EXCEPT ![n] = e]
        /\ conn' = [conn EXCEPT ![n] = FALSE]
        /\ sock' = [sock EXCEPT ![n] = "none"]
        /\ link' = [link EXCEPT ![n] = NULL]
  /\ UNCHANGED <<server, backlog, fails>>
-----------------------------------------------------------------------------
(* ev_handler_client, called by mg_mgr_poll while iExit is 0 *)

Polls(n) == at[n] = "loop" /\ iExit[n] = 0

Listening == pc # "freed"

\* MG_EV_CONNECT: the join is sent at once, before the server has accepted.
Connected(n) ==
  /\ Polls(n) /\ sock[n] = "connecting" /\ Listening
  /\ sock' = [sock EXCEPT ![n] = "up"]
  /\ conn' = [conn EXCEPT ![n] = TRUE]
  /\ link' = [link EXCEPT ![n] = "queued"]
  /\ backlog' = Append(backlog, n)
  /\ UNCHANGED <<server, at, iExit, fails>>

\* MG_EV_CONNECT comes with an error too, which the handler does not look at;
\* mongoose closes the connection in the same poll.
ConnectFails(n) ==
  /\ Polls(n) /\ sock[n] = "connecting" /\ ~Listening
  /\ sock' = [sock EXCEPT ![n] = "none"]
  /\ conn' = [conn EXCEPT ![n] = TRUE]
  /\ iExit' = [iExit EXCEPT ![n] = 2]
  /\ UNCHANGED <<server, at, net>>

\* MG_EV_CLOSE leaves cc->conn as it is.
Closed(n) ==
  /\ Polls(n) /\ sock[n] = "broken"
  /\ sock' = [sock EXCEPT ![n] = "none"]
  /\ iExit' = [iExit EXCEPT ![n] = 2]
  /\ UNCHANGED <<server, at, conn, net>>
-----------------------------------------------------------------------------
(* The network and the server's side *)

LinkFails(n) ==
  /\ sock[n] = "up" /\ Fail
  /\ sock' = [sock EXCEPT ![n] = "broken"]
  /\ link' = [link EXCEPT ![n] = NULL]
  /\ UNCHANGED <<server, at, conn, iExit, backlog>>

\* The connection at the head of the backlog may be one its client has lost.
SysAccept(c) ==
  /\ backlog # <<>> /\ backlog' = Tail(backlog)
  /\ LET n == Head(backlog)
         own == link[n] = "queued" /\ \A k \in DOMAIN backlog' : backlog'[k] # n
     IN  /\ Accept(c, n)
         /\ link' = IF own THEN [link EXCEPT ![n] = c] ELSE link
  /\ UNCHANGED <<client, fails>>

\* The bytes of a client's earlier connections are read before those of its
\* present one.
InOrder(c) ==
  link[peer[c]] = c => \A d \in active \ {c} : peer[d] = peer[c] => todo[d] = 0

SysRead(c, m) ==
  /\ Read(c, m) /\ InOrder(c)
  /\ UNCHANGED <<client, net>>

\* The server never closes a connection of its own accord.
SysClose(c) ==
  /\ Close(c) /\ \A n \in PeerNames : link[n] # c
  /\ UNCHANGED <<client, net>>

SysServe == Serve /\ UNCHANGED <<client, net>>

Crash ==
  /\ Listening /\ Fail
  /\ pc' = "freed" /\ cur' = NULL /\ type' = 0
  /\ active' = {} /\ sent' = {}
  /\ clients' \in HeapSlots
  /\ peer' = [c \in Conns |-> NoName]
  /\ todo' = [c \in Conns |-> 0]
  /\ rbuf' = [c \in Conns |-> <<>>]
  /\ sock' = [n \in PeerNames |-> IF sock[n] = "up" THEN "broken" ELSE sock[n]]
  /\ link' = [n \in PeerNames |-> NULL]
  /\ backlog' = <<>>
  /\ UNCHANGED <<at, conn, iExit>>

Restart == (cm_busserver_init \/ cm_busserver_run) /\ UNCHANGED <<client, net>>
-----------------------------------------------------------------------------
ClientStep(n) ==
  \/ cm_busclient_connect(n) \/ LoopEnds(n) \/ Again(n)
  \/ Connected(n) \/ ConnectFails(n) \/ Closed(n)

SysNext ==
  \/ \E n \in PeerNames : ClientStep(n) \/ LinkFails(n)
  \/ \E c \in Conns : SysAccept(c) \/ SysClose(c) \/ \E m \in Message : SysRead(c, m)
  \/ SysServe \/ Restart \/ Crash

SysSpec == SysInit /\ [][SysNext]_sysvars

(***************************************************************************)
(* Every process runs, a crashed server is started again, and the network  *)
(* delivers.  Nothing says that the server notices a lost connection.      *)
(***************************************************************************)
SysFairSpec ==
  /\ SysSpec
  /\ \A n \in PeerNames : WF_sysvars(ClientStep(n))
  /\ WF_sysvars(SysServe)
  /\ WF_sysvars(Restart)
  /\ SF_sysvars(\E c \in Conns : SysAccept(c))
  /\ \A c \in Conns : SF_sysvars(SysRead(c, JoinMsg))
-----------------------------------------------------------------------------
(* Properties *)

Registered(n, c) == \E i \in Slots : clients[i] = [name |-> n, conn |-> c]

\* Types; a client and the kernel agree on which connections are up.
SysTypeOK ==
  /\ TypeOK
  /\ at \in [PeerNames -> {"out", "loop", "sleep", "exit"}]
  /\ sock \in [PeerNames -> {"none", "connecting", "up", "broken"}]
  /\ conn \in [PeerNames -> BOOLEAN]
  /\ iExit \in [PeerNames -> HeapExit \cup {0, 2}]
  /\ link \in [PeerNames -> Conns \cup {"queued", NULL}]
  /\ \A n \in PeerNames : /\ sock[n] = "up" <=> link[n] # NULL
                         /\ link[n] = "queued" => Queued(n)
  /\ backlog \in Seq(PeerNames)
  /\ fails \in 0 .. MaxFails

\* A client whose join the server has answered keeps its slot for as long as
\* the connection lasts, also when the server learns only then that an earlier
\* connection of the same client is gone.
JoinedMeansRegistered ==
  \A n \in PeerNames :
    LET c == link[n]
    IN  c \in active /\ todo[c] = 0 /\ rbuf[c] = <<>> => Registered(n, c)

\* After the last failure every client finds its way back to the bus and stays
\* there: reconnection in cm_busclient_connect and its caller, the join sent
\* on MG_EV_CONNECT, and the server's reuse of slots work together.
ClientsComeBack ==
  \A n \in PeerNames : <>[](link[n] \in Conns /\ Registered(n, link[n]))
=============================================================================
