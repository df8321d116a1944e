----------------------------- MODULE FifoQueues -----------------------------
(***************************************************************************)
(* What XN_Queue promises: named queues of elements, first in first out.   *)
(* Every operation happens at once; "out" is what the last one returned.   *)
(***************************************************************************)
EXTENDS Naturals, Sequences

CONSTANTS Queues, Elems

VARIABLES content,  \* the elements of each queue, the oldest first
          out

fvars == <<content, out>>

In(q) == {content[q][i] : i \in DOMAIN content[q]}

Init == content = [q \in Queues |-> <<>>] /\ out = <<"none">>

Put(q, e) == /\ \A p \in Queues : e \notin In(p)
             /\ content' = [content EXCEPT ![q] = Append(@, e)]
             /\ out' = <<"none">>

Take(q) == /\ content[q] # <<>>
           /\ out' = <<"elem", Head(content[q])>>
           /\ content' = [content EXCEPT ![q] = Tail(@)]

\* Looking at an element, at none, or past the ends of what can be looked at.
Look(q) == /\ UNCHANGED content
           /\ out' \in {<<"elem", e>> : e \in In(q)} \cup {<<"none">>, <<"undefined">>}

Count(q) == out' = <<"num", Len(content[q])>> /\ UNCHANGED content

MoveAll(dst, src) ==
  /\ dst # src
  /\ content' = [content EXCEPT ![dst] = @ \o content[src], ![src] = <<>>]
  /\ UNCHANGED out

Clear(q) == content' = [content EXCEPT ![q] = <<>>] /\ UNCHANGED out

Next == \E q \in Queues :
          \/ \E e \in Elems : Put(q, e)
          \/ Take(q) \/ Look(q) \/ Count(q) \/ Clear(q)
          \/ \E src \in Queues : MoveAll(q, src)

Spec == Init /\ [][Next]_fvars
=============================================================================
