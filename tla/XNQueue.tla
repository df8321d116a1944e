------------------------------ MODULE XNQueue ------------------------------
(***************************************************************************)
(* The queues of common/XN_Queue.h: intrusive rings of elements, each with *)
(* a count, a read position, a mutex and a condition variable.             *)
(*                                                                         *)
(* An operation that takes one mutex, works and releases it is one action, *)
(* enabled while the mutex is free.  The others go step by step:           *)
(* XN_QueueMove holds two mutexes, XN_QueueGetWait gives its mutex up, and *)
(* XN_QueueGetIndex may never leave its loop.                              *)
(***************************************************************************)
EXTENDS Integers, Sequences, FiniteSets

CONSTANTS
  Queues,     \* the addresses of the XN_QueHead, and of the elem in each
  Elems,      \* the XN_QueElem that the program queues
  Threads,
  NULL,
  MovePairs,  \* the <<dst, src>> that the program passes to XN_QueueMove
  WaitQueues, \* the queues that it waits on
  Indexes,    \* the indexes that it passes to XN_QueueGetIndex
  MaxCur      \* bound: how far head->cur gets from 0

ASSUME QueueAssumption ==
  /\ IsFiniteSet(Elems) /\ IsFiniteSet(Queues)
  /\ Elems \cap Queues = {}
  /\ NULL \notin Threads \cup Queues \cup Elems /\ "dead" \notin Threads
  /\ MovePairs \subseteq Queues \X Queues
  /\ WaitQueues \subseteq Queues
  /\ Indexes \subseteq Int
  /\ MaxCur \in Nat

Nodes == Elems \cup Queues

VARIABLES
  next, prev,  \* the pointers of every node
  num, cur,    \* head->num, head->cur
  mutex,       \* head->mutex: the thread that holds it, NULL, or "dead"
  pc,          \* where each thread is
  src, dst,    \* the queues a thread is working on, dst if it is only one
  out          \* what the last operation returned

list  == <<next, prev>>
count == <<num, cur>>
args  == <<src, dst>>
vars  == <<next, prev, num, cur, mutex, pc, src, dst, out>>

None      == <<"none">>
Undefined == <<"undefined">>

Init ==
  /\ next = [n \in Nodes |-> n] /\ prev = [n \in Nodes |-> n]
  /\ num = [q \in Queues |-> 0] /\ cur = [q \in Queues |-> -1]
  /\ mutex = [q \in Queues |-> NULL]
  /\ pc = [t \in Threads |-> "out"]
  /\ src = [t \in Threads |-> NULL] /\ dst = [t \in Threads |-> NULL]
  /\ out = None
-----------------------------------------------------------------------------
(* The ring of a queue, as a walk along next meets it *)

Walk(q) == LET w[k \in 0 .. Cardinality(Nodes)] == IF k = 0 THEN q ELSE next[w[k - 1]]
           IN  w

\* The elements before the walk is back at the head.
Content(q) ==
  LET w == Walk(q)
      Inside == {n \in 0 .. Cardinality(Nodes) - 1 : \A k \in 1 .. n : w[k] # q}
  IN  [k \in {k \in Inside : k > 0} |-> w[k]]

Queued == {n \in Nodes : \E q \in Queues : \E k \in DOMAIN Content(q) : Content(q)[k] = n}

Free(q) == mutex[q] = NULL

Goto(t, from, to) == pc[t] = from /\ pc' = [pc EXCEPT ![t] = to]
-----------------------------------------------------------------------------
(* The operations of one queue *)

\* The program wakes the waiting threads after it has put an element.
XN_QueuePut(t, q, e) ==
  /\ Free(q) /\ e \in Elems \ Queued
  /\ Goto(t, "out", "wakeup") /\ dst' = [dst EXCEPT ![t] = q]
  /\ next' = [next EXCEPT ![prev[q]] = e, ![e] = q]
  /\ prev' = [prev EXCEPT ![e] = prev[q], ![q] = e]
  /\ num' = [num EXCEPT ![q] = @ + 1]
  /\ out' = None
  /\ UNCHANGED <<cur, mutex, src>>

\* "if ((inhandle = &(head->elem)))" assigns, so the other branch is never taken.
XN_QueuePutTail(t, q, e) == XN_QueuePut(t, q, e)

TakeFirst(q) ==
  LET handle == next[q]
  IN  /\ handle # q /\ cur[q] > -MaxCur
      /\ num' = [num EXCEPT ![q] = @ - 1] /\ cur' = [cur EXCEPT ![q] = @ - 1]
      /\ next' = [next EXCEPT ![q] = next[handle]]
      /\ prev' = [prev EXCEPT ![next[handle]] = q]
      /\ out' = <<"elem", handle>>

FindNone(q) ==
  /\ next[q] = q
  /\ num' = [num EXCEPT ![q] = 0] /\ cur' = [cur EXCEPT ![q] = -1]
  /\ out' = None
  /\ UNCHANGED list

XN_QueueGet(t, q) ==
  /\ Free(q) /\ pc[t] = "out"
  /\ TakeFirst(q) \/ FindNone(q)
  /\ UNCHANGED <<mutex, pc, args>>

XN_QueueGetNum(t, q) ==
  /\ Free(q) /\ pc[t] = "out"
  /\ out' = <<"num", num[q]>>
  /\ UNCHANGED <<list, count, mutex, pc, args>>

\* -1 asks for the element behind the read position.
Position(q, indx) == IF indx = -1 THEN cur[q] + 1 ELSE indx

LooksAtNone(q, indx) ==
  /\ \/ next[q] = q /\ num' = [num EXCEPT ![q] = 0]
     \/ next[q] # q /\ Position(q, indx) >= num[q] /\ UNCHANGED num
  /\ out' = None
  /\ UNCHANGED <<cur, mutex, pc, dst>>

\* Mutant: "indx > head->num" lets the index of the head through.
LooksAtHead(q, indx) ==
  /\ next[q] # q /\ Position(q, indx) \in 0 .. num[q]
  /\ cur[q] < MaxCur /\ cur' = [cur EXCEPT ![q] = @ + 1]
  /\ out' = <<"elem", Walk(q)[Position(q, indx) + 1]>>
  /\ UNCHANGED <<num, mutex, pc, dst>>

\* The read position moves on whatever the index was.
LooksAt(q, indx) ==
  /\ next[q] # q /\ Position(q, indx) \in 0 .. num[q] - 1
  /\ cur[q] < MaxCur /\ cur' = [cur EXCEPT ![q] = @ + 1]
  /\ out' = <<"elem", Walk(q)[Position(q, indx) + 1]>>
  /\ UNCHANGED <<num, mutex, pc, dst>>

\* A negative index is not met before "start" overflows: the loop goes round the
\* ring, mutex held.
GoesRound(t, q, indx) ==
  /\ next[q] # q /\ Position(q, indx) < 0 /\ cur[q] < MaxCur
  /\ pc' = [pc EXCEPT ![t] = "walk"] /\ dst' = [dst EXCEPT ![t] = q]
  /\ mutex' = [mutex EXCEPT ![q] = t]
  /\ UNCHANGED <<count, out>>

XN_QueueGetIndex(t, q, indx) ==
  /\ Free(q) /\ pc[t] = "out"
  /\ LooksAtNone(q, indx) \/ LooksAt(q, indx) \/ GoesRound(t, q, indx)
  /\ UNCHANGED <<list, src>>

\* The overflow is undefined: it may also end the loop at any node of the ring.
GetIndexOverflows(t) ==
  LET q == dst[t]
  IN  /\ Goto(t, "walk", "out") /\ dst' = [dst EXCEPT ![t] = NULL]
      /\ mutex' = [mutex EXCEPT ![q] = NULL]
      /\ cur' = [cur EXCEPT ![q] = @ + 1]
      /\ out' = Undefined
      /\ UNCHANGED <<list, num, src>>
-----------------------------------------------------------------------------
(* XN_QueueMove: the source is locked first, and released first *)

CallMove(t, d, s) ==
  /\ <<d, s>> \in MovePairs /\ mutex[d] # "dead" /\ mutex[s] # "dead"
  /\ Goto(t, "out", "locksrc")
  /\ dst' = [dst EXCEPT ![t] = d] /\ src' = [src EXCEPT ![t] = s]
  /\ UNCHANGED <<list, count, mutex, out>>

MoveLocksSrc(t) ==
  /\ Goto(t, "locksrc", "lockdst") /\ Free(src[t])
  /\ mutex' = [mutex EXCEPT ![src[t]] = t]
  /\ UNCHANGED <<list, count, args, out>>

\* Mutant: the last element of d stays what it was.
SpliceKeepsLast(d, s) ==
  /\ next' = [next EXCEPT ![prev[d]] = next[s], ![prev[s]] = d, ![s] = s]
  /\ prev' = [prev EXCEPT ![next[s]] = prev[d], ![s] = s]
  /\ num' = [num EXCEPT ![d] = @ + num[s], ![s] = 0]

\* The ring of s is spliced in before the head of d.
Splice(d, s) ==
  /\ next' = [next EXCEPT ![prev[d]] = next[s], ![prev[s]] = d, ![s] = s]
  /\ prev' = [prev EXCEPT ![next[s]] = prev[d], ![d] = prev[s], ![s] = s]
  /\ num' = [num EXCEPT ![d] = @ + num[s], ![s] = 0]

MoveSplices(t) ==
  /\ Goto(t, "lockdst", "moved") /\ Free(dst[t])
  /\ mutex' = [mutex EXCEPT ![dst[t]] = t]
  /\ \/ next[src[t]] # src[t] /\ Splice(dst[t], src[t])
     \/ next[src[t]] = src[t] /\ UNCHANGED <<list, num>>
  /\ UNCHANGED <<cur, args, out>>

MoveUnlocksSrc(t) ==
  /\ Goto(t, "moved", "unlockdst")
  /\ mutex' = [mutex EXCEPT ![src[t]] = NULL] /\ src' = [src EXCEPT ![t] = NULL]
  /\ UNCHANGED <<list, count, dst, out>>

\* Mutant: the destination stays locked.
MoveKeepsDst(t) ==
  /\ Goto(t, "unlockdst", "wakeup")
  /\ UNCHANGED <<list, count, mutex, args, out>>

MoveUnlocksDst(t) ==
  /\ Goto(t, "unlockdst", "wakeup")
  /\ mutex' = [mutex EXCEPT ![dst[t]] = NULL]
  /\ UNCHANGED <<list, count, args, out>>
-----------------------------------------------------------------------------
(* Waiting.  XN_QueueGetWait releases a mutex that it does not take, so the  *)
(* caller holds it (XN_QueueLock), and has seen that the queue is empty.     *)

XN_QueueLock(t, q) ==
  /\ q \in WaitQueues /\ Free(q)
  /\ Goto(t, "out", "locked") /\ dst' = [dst EXCEPT ![t] = q]
  /\ mutex' = [mutex EXCEPT ![q] = t]
  /\ UNCHANGED <<list, count, src, out>>

\* With something in the queue the caller unlocks and goes on to XN_QueueGet.
XN_QueueUnlock(t) ==
  /\ Goto(t, "locked", "out") /\ num[dst[t]] # 0
  /\ mutex' = [mutex EXCEPT ![dst[t]] = NULL] /\ dst' = [dst EXCEPT ![t] = NULL]
  /\ UNCHANGED <<list, count, src, out>>

XN_QueueGetWait(t) ==
  /\ Goto(t, "locked", "waiting") /\ num[dst[t]] = 0
  /\ mutex' = [mutex EXCEPT ![dst[t]] = NULL]
  /\ UNCHANGED <<list, count, args, out>>

\* A condition variable may wake a thread for no reason.
WakesSpuriously(t) ==
  /\ Goto(t, "waiting", "woken")
  /\ UNCHANGED <<list, count, mutex, args, out>>

\* pthread_cond_wait takes the mutex again, XN_QueueGetWait releases it.
GetWaitReturns(t) ==
  /\ Goto(t, "woken", "out") /\ Free(dst[t])
  /\ dst' = [dst EXCEPT ![t] = NULL]
  /\ UNCHANGED <<list, count, mutex, src, out>>

\* Mutant: pthread_cond_signal wakes one thread.
WakeupSignals(t) ==
  LET waiters == {u \in Threads : pc[u] = "waiting" /\ dst[u] = dst[t]}
  IN  /\ pc[t] = "wakeup"
      /\ \/ \E w \in waiters : pc' = [pc EXCEPT ![t] = "out", ![w] = "woken"]
         \/ waiters = {} /\ pc' = [pc EXCEPT ![t] = "out"]
      /\ dst' = [dst EXCEPT ![t] = NULL]
      /\ UNCHANGED <<list, count, mutex, src, out>>

\* pthread_cond_broadcast.
XN_QueueWakeup(t) ==
  /\ pc[t] = "wakeup"
  /\ pc' = [u \in Threads |->
              IF u = t THEN "out"
              ELSE IF pc[u] = "waiting" /\ dst[u] = dst[t] THEN "woken" ELSE pc[u]]
  /\ dst' = [dst EXCEPT ![t] = NULL]
  /\ UNCHANGED <<list, count, mutex, src, out>>
-----------------------------------------------------------------------------
(* The end of a queue nobody uses, and a new beginning *)

XN_QueueDestroy(t, q) ==
  /\ pc[t] = "out" /\ Free(q) /\ \A u \in Threads : q \notin {src[u], dst[u]}
  /\ mutex' = [mutex EXCEPT ![q] = "dead"]
  /\ num' = [num EXCEPT ![q] = 0]
  /\ next' = [next EXCEPT ![q] = q] /\ prev' = [prev EXCEPT ![q] = q]
  /\ UNCHANGED <<cur, pc, args, out>>

XN_QueueInit(t, q) ==
  /\ pc[t] = "out" /\ mutex[q] = "dead" /\ mutex' = [mutex EXCEPT ![q] = NULL]
  /\ num' = [num EXCEPT ![q] = 0] /\ cur' = [cur EXCEPT ![q] = -1]
  /\ next' = [next EXCEPT ![q] = q] /\ prev' = [prev EXCEPT ![q] = q]
  /\ UNCHANGED <<pc, args, out>>
-----------------------------------------------------------------------------
Calls(t, q) ==
  \/ \E e \in Elems : XN_QueuePut(t, q, e) \/ XN_QueuePutTail(t, q, e)
  \/ XN_QueueGet(t, q) \/ XN_QueueGetNum(t, q)
  \/ \E indx \in Indexes : XN_QueueGetIndex(t, q, indx)
  \/ \E s \in Queues : CallMove(t, q, s)
  \/ XN_QueueLock(t, q)
  \/ XN_QueueDestroy(t, q) \/ XN_QueueInit(t, q)

Runs(t) == \/ GetIndexOverflows(t)
           \/ MoveLocksSrc(t) \/ MoveSplices(t) \/ MoveUnlocksSrc(t) \/ MoveUnlocksDst(t)
           \/ XN_QueueUnlock(t) \/ XN_QueueGetWait(t) \/ WakesSpuriously(t)
           \/ GetWaitReturns(t) \/ XN_QueueWakeup(t)

Next == \E t \in Threads : Runs(t) \/ \E q \in Queues : Calls(t, q)

Spec == Init /\ [][Next]_vars
-----------------------------------------------------------------------------
(* Properties *)

\* Types; a returned element is one the program queued, never a queue's head.
TypeOK ==
  /\ next \in [Nodes -> Nodes] /\ prev \in [Nodes -> Nodes]
  /\ num \in [Queues -> Nat] /\ cur \in [Queues -> -MaxCur - 1 .. MaxCur]
  /\ mutex \in [Queues -> Threads \cup {NULL, "dead"}]
  /\ pc \in [Threads -> {"out", "walk", "locksrc", "lockdst", "moved", "unlockdst",
                         "locked", "waiting", "woken", "wakeup"}]
  /\ src \in [Threads -> Queues \cup {NULL}] /\ dst \in [Threads -> Queues \cup {NULL}]
  /\ \A t \in Threads : pc[t] # "out" => dst[t] \in Queues
  /\ \/ out \in {None, Undefined}
     \/ out \in {<<"elem", e>> : e \in Elems}
     \/ out[1] = "num" /\ out[2] \in Nat

\* No thread sleeps on a queue that has elements unless somebody is about to
\* wake it: the check of the caller and the wait are under one mutex, and
\* every waiting thread is woken, not one of them.
NoLostWakeup ==
  \A t \in Threads :
    pc[t] = "waiting" /\ next[dst[t]] # dst[t] =>
      \E u \in Threads : dst[u] = dst[t] /\ pc[u] \in {"wakeup", "moved", "unlockdst"}

\* The queue whose mutex a thread inside XN_Queue.h waits for.
WaitsFor(t) ==
  {q \in {src[t]} : pc[t] = "locksrc"} \cup {q \in {dst[t]} : pc[t] \in {"lockdst", "woken"}}

\* No threads wait for each other's queues, as long as the program does not
\* move elements both ways between two queues, or round a cycle of them.
NoWaitCycle ==
  ~\E S \in (SUBSET Threads) \ {{}} :
     \A t \in S : \E q \in WaitsFor(t) : mutex[q] \in S

\* The rings behave as first-in-first-out queues, also while XN_QueueMove is
\* under way; the counts are the lengths of the rings.
Fifo == INSTANCE FifoQueues WITH content <- [q \in Queues |-> Content(q)]

ImplementsFifo == Fifo!Spec
=============================================================================
