---------------------------- MODULE BusRegistry ----------------------------
(***************************************************************************)
(* What the bus promises its users: a name belongs to the connection that  *)
(* joined under it last, until that connection closes; a message to a name *)
(* reaches the owner of the name and nobody else; a broadcast reaches      *)
(* every owner.  No slots, no prefixes, no buffers.                        *)
(***************************************************************************)
CONSTANTS Names,   \* the names clients use
          Conns,   \* connections
          NULL

VARIABLES up,      \* the open connections
          owner,   \* the connection a name belongs to
          heard    \* who received a frame in the last step

rvars == <<up, owner, heard>>

Init == /\ up = {}
        /\ owner = [n \in Names |-> NULL]
        /\ heard = {}

Owners == {owner[n] : n \in Names} \ {NULL}

Connect(c) == /\ c \notin up
              /\ up' = up \cup {c} /\ heard' = {}
              /\ UNCHANGED owner

Join(n, c) == /\ c \in up
              /\ owner' = [owner EXCEPT ![n] = c]
              /\ heard' = {c}
              /\ UNCHANGED up

\* All the names of the connection become free at once.
Leave(c) == /\ c \in up
            /\ up' = up \ {c}
            /\ owner' = [n \in Names |-> IF owner[n] = c THEN NULL ELSE owner[n]]
            /\ heard' = {}

Answer(c) == /\ c \in up
             /\ heard' = {c}
             /\ UNCHANGED <<up, owner>>

Tell(n) == /\ heard' = {owner[n]} \ {NULL}
           /\ UNCHANGED <<up, owner>>

TellAll == /\ heard' = Owners
           /\ UNCHANGED <<up, owner>>

Silence == /\ heard' = {}
           /\ UNCHANGED <<up, owner>>

Next == \/ \E c \in Conns : \/ Connect(c) \/ Leave(c) \/ Answer(c)
                            \/ \E n \in Names : Join(n, c)
        \/ \E n \in Names : Tell(n)
        \/ TellAll
        \/ Silence

Spec == Init /\ [][Next]_rvars
=============================================================================
