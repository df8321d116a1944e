---------------------------- MODULE XNQueueProofs ----------------------------
(***************************************************************************)
(* XNQueue, for any number of queues, elements and threads: who holds the  *)
(* mutexes and that no threads wait for each other, that the rings are     *)
(* queues that are first in, first out, the types, and the wakeups.        *)
(***************************************************************************)
EXTENDS XNQueue, FiniteSetTheorems, WellFoundedInduction, TLAPS

\* The thread has the mutex of q, by where it is.
Holds(t, q) ==
  \/ pc[t] \in {"lockdst", "moved"} /\ q = src[t]
  \/ pc[t] \in {"moved", "unlockdst", "locked", "walk"} /\ q = dst[t]

Places == {"out", "walk", "locksrc", "lockdst", "moved", "unlockdst",
           "locked", "waiting", "woken", "wakeup"}

Typed ==
  /\ mutex \in [Queues -> Threads \cup {NULL, "dead"}]
  /\ pc \in [Threads -> Places]
  /\ src \in [Threads -> Queues \cup {NULL}] /\ dst \in [Threads -> Queues \cup {NULL}]
  /\ \A t \in Threads : pc[t] # "out" => dst[t] \in Queues

\* A thread that moves does so between queues that the program names, and no
\* further than to the second lock if they are one.
Moving ==
  \A t \in Threads :
    /\ pc[t] \in {"locksrc", "lockdst", "moved"} =>
         src[t] \in Queues /\ <<dst[t], src[t]>> \in MovePairs
    /\ pc[t] = "moved" => dst[t] # src[t]

Owned == \A t \in Threads, q \in Queues : mutex[q] = t <=> Holds(t, q)

LockInv == Typed /\ Moving /\ Owned

locks == <<mutex, pc, src, dst>>

LEMMA LockInit == Init => LockInv
  BY QueueAssumption DEF Init, LockInv, Typed, Moving, Owned, Holds, Places
-----------------------------------------------------------------------------
(* The steps of one thread *)

LEMMA KeepsLocks == LockInv /\ UNCHANGED locks => LockInv'
  BY DEF LockInv, Typed, Moving, Owned, Holds, locks

\* The mutexes of a queue are free, or a thread has them.
LEMMA FreeMeansNobody ==
  ASSUME LockInv, NEW q \in Queues, mutex[q] \in {NULL, "dead"}
  PROVE  \A t \in Threads : ~Holds(t, q)
  BY QueueAssumption DEF LockInv, Owned

\* One queue at a time
LEMMA CallsKeep ==
  ASSUME LockInv, NEW t \in Threads, NEW q \in Queues, Calls(t, q)
  PROVE  LockInv'
<1>1. CASE \E e \in Elems : XN_QueuePut(t, q, e) \/ XN_QueuePutTail(t, q, e)
  BY <1>1 DEF XN_QueuePutTail, XN_QueuePut, Goto, LockInv, Typed, Moving, Owned, Holds, Places
<1>2. CASE XN_QueueGet(t, q) \/ XN_QueueGetNum(t, q)
  BY <1>2, KeepsLocks DEF XN_QueueGet, XN_QueueGetNum, args, locks
<1>3. ASSUME NEW indx \in Indexes, XN_QueueGetIndex(t, q, indx)
      PROVE  LockInv'
  <2>1. CASE LooksAtNone(q, indx) \/ LooksAt(q, indx)
    BY <1>3, <2>1, KeepsLocks DEF XN_QueueGetIndex, LooksAtNone, LooksAt, locks
  <2>2. CASE GoesRound(t, q, indx)
    BY <1>3, <2>2, FreeMeansNobody, QueueAssumption
       DEF XN_QueueGetIndex, GoesRound, Free, LockInv, Typed, Moving, Owned, Holds, Places
  <2> QED BY <1>3, <2>1, <2>2 DEF XN_QueueGetIndex
<1>4. ASSUME NEW s \in Queues, CallMove(t, q, s)
      PROVE  LockInv'
  BY <1>4 DEF CallMove, Goto, LockInv, Typed, Moving, Owned, Holds, Places
<1>5. CASE XN_QueueLock(t, q)
  BY <1>5, FreeMeansNobody, QueueAssumption
     DEF XN_QueueLock, Goto, Free, LockInv, Typed, Moving, Owned, Holds, Places
<1>6. CASE XN_QueueDestroy(t, q)
  BY <1>6, FreeMeansNobody, QueueAssumption
     DEF XN_QueueDestroy, Free, args, LockInv, Typed, Moving, Owned, Holds
<1>7. CASE XN_QueueInit(t, q)
  BY <1>7, FreeMeansNobody, QueueAssumption
     DEF XN_QueueInit, args, LockInv, Typed, Moving, Owned, Holds
<1> QED BY <1>1, <1>2, <1>3, <1>4, <1>5, <1>6, <1>7 DEF Calls

LEMMA RunsKeep ==
  ASSUME LockInv, NEW t \in Threads, Runs(t)
  PROVE  LockInv'
<1>1. CASE GetIndexOverflows(t)
  BY <1>1, QueueAssumption
     DEF GetIndexOverflows, Goto, LockInv, Typed, Moving, Owned, Holds, Places
<1>2. CASE MoveLocksSrc(t)
  <2>1. /\ pc[t] = "locksrc" /\ pc' = [pc EXCEPT ![t] = "lockdst"]
        /\ src[t] \in Queues /\ mutex[src[t]] = NULL
        /\ mutex' = [mutex EXCEPT ![src[t]] = t] /\ UNCHANGED <<src, dst>>
    BY <1>2 DEF MoveLocksSrc, Goto, Free, args, LockInv, Moving
  <2>2. \A u \in Threads : ~Holds(u, src[t])
    BY <2>1, FreeMeansNobody
  <2>3. Typed' /\ Moving'
    BY <2>1 DEF LockInv, Typed, Moving, Places
  <2>4. Owned'
    BY <2>1, <2>2, QueueAssumption DEF LockInv, Typed, Owned, Holds
  <2> QED BY <2>3, <2>4 DEF LockInv
<1>3. CASE MoveSplices(t)
  BY <1>3, FreeMeansNobody, QueueAssumption
     DEF MoveSplices, Goto, Free, args, LockInv, Typed, Moving, Owned, Holds, Places
<1>4. CASE MoveUnlocksSrc(t)
  <2>1. /\ pc[t] = "moved" /\ pc' = [pc EXCEPT ![t] = "unlockdst"]
        /\ src[t] \in Queues /\ dst[t] \in Queues
        /\ mutex[src[t]] = t /\ mutex[dst[t]] = t /\ dst[t] # src[t]
        /\ mutex' = [mutex EXCEPT ![src[t]] = NULL]
        /\ src' = [src EXCEPT ![t] = NULL] /\ UNCHANGED dst
    BY <1>4 DEF MoveUnlocksSrc, Goto, LockInv, Typed, Moving, Owned, Holds
  <2>2. Typed' /\ Moving'
    BY <2>1 DEF LockInv, Typed, Moving, Places
  <2>3. Owned'
    BY <2>1, QueueAssumption DEF LockInv, Typed, Owned, Holds
  <2> QED BY <2>2, <2>3 DEF LockInv
<1>5. CASE MoveUnlocksDst(t)
  BY <1>5, QueueAssumption
     DEF MoveUnlocksDst, Goto, args, LockInv, Typed, Moving, Owned, Holds, Places
<1>6. CASE XN_QueueUnlock(t)
  BY <1>6, QueueAssumption
     DEF XN_QueueUnlock, Goto, LockInv, Typed, Moving, Owned, Holds, Places
<1>7. CASE XN_QueueGetWait(t)
  BY <1>7, QueueAssumption
     DEF XN_QueueGetWait, Goto, args, LockInv, Typed, Moving, Owned, Holds, Places
<1>8. CASE WakesSpuriously(t)
  BY <1>8 DEF WakesSpuriously, Goto, args, LockInv, Typed, Moving, Owned, Holds, Places
<1>9. CASE GetWaitReturns(t)
  BY <1>9 DEF GetWaitReturns, Goto, LockInv, Typed, Moving, Owned, Holds, Places
<1>10. CASE XN_QueueWakeup(t)
  BY <1>10 DEF XN_QueueWakeup, LockInv, Typed, Moving, Owned, Holds, Places
<1> QED BY <1>1, <1>2, <1>3, <1>4, <1>5, <1>6, <1>7, <1>8, <1>9, <1>10 DEF Runs

\* Every mutex is held by the one thread that is where it should hold it.
LEMMA LockInvariant == Spec => []LockInv
<1>1. LockInv /\ [Next]_vars => LockInv'
  <2> SUFFICES ASSUME LockInv, [Next]_vars PROVE LockInv'
    OBVIOUS
  <2>1. CASE Next
    BY <2>1, CallsKeep, RunsKeep DEF Next
  <2>2. CASE UNCHANGED vars
    BY <2>2, KeepsLocks DEF vars, locks
  <2> QED BY <2>1, <2>2
<1> QED BY <1>1, LockInit, PTL DEF Spec
-----------------------------------------------------------------------------
(* Waiting *)

\* A thread that waits and is waited for has locked a source and waits for the
\* destination.
LEMMA HolderMoves ==
  ASSUME LockInv, NEW t \in Threads, NEW q \in Queues, mutex[q] = t,
         NEW p \in WaitsFor(t)
  PROVE  q = src[t] /\ p = dst[t] /\ <<p, q>> \in MovePairs
  BY DEF LockInv, Moving, Owned, Holds, WaitsFor

LEMMA WaitsForQueue ==
  ASSUME LockInv, NEW t \in Threads, NEW p \in WaitsFor(t)
  PROVE  p \in Queues
  BY DEF LockInv, Typed, Moving, WaitsFor

LEMMA NatMinimum ==
  ASSUME NEW T, T \subseteq Nat, T # {}
  PROVE  \E x \in T : \A y \in T : ~(y < x)
<1> DEFINE R == {p \in Nat \X Nat : p[1] < p[2]}
<1>1. IsWellFoundedOn(R, Nat)
  BY NatLessThanWellFounded DEF OpToRel
<1>2. \A a, b \in Nat : a < b => <<a, b>> \in R
  OBVIOUS
<1> HIDE DEF R
<1>3. \E x \in T : \A y \in T : ~(<<y, x>> \in R)
  BY <1>1, WFMin
<1> QED BY <1>2, <1>3

\* If the queues have ranks that every move goes down, as they have when the
\* program moves elements round no cycle of queues, no threads wait for each
\* other.
THEOREM NoDeadlock ==
  ASSUME NEW CONSTANT rank \in [Queues -> Nat],
         \A m \in MovePairs : rank[m[1]] < rank[m[2]]
  PROVE  Spec => []NoWaitCycle
<1>1. LockInv => NoWaitCycle
  <2> SUFFICES ASSUME LockInv,
                      NEW S \in (SUBSET Threads) \ {{}},
                      \A t \in S : \E q \in WaitsFor(t) : mutex[q] \in S
               PROVE  FALSE
    BY DEF NoWaitCycle
  <2> DEFINE Waited ==
        {rank[q] : q \in {q \in Queues : \E t \in S : q \in WaitsFor(t) /\ mutex[q] \in S}}
  <2>1. Waited \subseteq Nat
    OBVIOUS
  <2>2. Waited # {}
    <3>1. PICK t \in S : TRUE
      OBVIOUS
    <3>2. PICK q \in WaitsFor(t) : mutex[q] \in S
      OBVIOUS
    <3>3. q \in Queues
      BY WaitsForQueue
    <3> QED BY <3>2, <3>3
  <2> HIDE DEF Waited
  <2>4. PICK x \in Waited : \A y \in Waited : ~(y < x)
    BY <2>1, <2>2, NatMinimum
  <2>5. PICK q \in Queues : /\ x = rank[q] /\ mutex[q] \in S
    BY <2>4 DEF Waited
  <2>6. PICK p \in WaitsFor(mutex[q]) : mutex[p] \in S
    BY <2>5
  <2>7. p \in Queues /\ <<p, q>> \in MovePairs
    BY <2>5, <2>6, WaitsForQueue, HolderMoves
  <2>8. rank[p] \in Waited /\ rank[p] < rank[q]
    BY <2>5, <2>6, <2>7 DEF Waited
  <2> QED BY <2>4, <2>5, <2>8
<1> QED BY <1>1, LockInvariant, PTL
-----------------------------------------------------------------------------
(***************************************************************************)
(* The rings.  c has the elements of every queue, the oldest first; the    *)
(* nodes of a ring are the head, which is node 0, the elements, and the    *)
(* head again.                                                             *)
(***************************************************************************)

At(c, q, i) == IF i \in 1 .. Len(c[q]) THEN c[q][i] ELSE q

Linked(nx, pv, c, q) ==
  \A i \in 0 .. Len(c[q]) : nx[At(c, q, i)] = At(c, q, i + 1) /\ pv[At(c, q, i + 1)] = At(c, q, i)

\* No element is in two queues, or in one twice.
Apart(c) ==
  \A p, q \in Queues : \A i \in 1 .. Len(c[p]), j \in 1 .. Len(c[q]) :
    c[p][i] = c[q][j] => p = q /\ i = j

Rings(nx, pv, c) ==
  /\ nx \in [Nodes -> Nodes] /\ pv \in [Nodes -> Nodes]
  /\ c \in [Queues -> Seq(Elems)]
  /\ Apart(c)
  /\ \A q \in Queues : Linked(nx, pv, c, q)

LEMMA NodeType ==
  ASSUME NEW c \in [Queues -> Seq(Elems)], NEW q \in Queues
  PROVE  /\ Len(c[q]) \in Nat
         /\ At(c, q, 0) = q /\ At(c, q, Len(c[q]) + 1) = q
         /\ \A i \in 1 .. Len(c[q]) : At(c, q, i) = c[q][i] /\ c[q][i] \in Elems
         /\ \A i : At(c, q, i) \in Nodes
<1>1. Len(c[q]) \in Nat /\ \A i \in 1 .. Len(c[q]) : c[q][i] \in Elems
  OBVIOUS
<1>2. QED
  BY <1>1 DEF At, Nodes

\* A node is met once in one ring.
LEMMA NodesApart ==
  ASSUME NEW c \in [Queues -> Seq(Elems)], Apart(c), NEW p \in Queues, NEW q \in Queues,
         NEW i \in 0 .. Len(c[p]), NEW j \in 0 .. Len(c[q]), At(c, p, i) = At(c, q, j)
  PROVE  p = q /\ i = j
<1>1. /\ Len(c[p]) \in Nat /\ Len(c[q]) \in Nat
      /\ i = 0 => At(c, p, i) = p
      /\ j = 0 => At(c, q, j) = q
      /\ i # 0 => i \in 1 .. Len(c[p]) /\ At(c, p, i) = c[p][i] /\ c[p][i] \in Elems
      /\ j # 0 => j \in 1 .. Len(c[q]) /\ At(c, q, j) = c[q][j] /\ c[q][j] \in Elems
  BY NodeType
<1>2. CASE i = 0 \/ j = 0
  BY <1>1, <1>2, QueueAssumption
<1>3. CASE i # 0 /\ j # 0
  BY <1>1, <1>3 DEF Apart
<1>4. QED
  BY <1>2, <1>3

\* The nodes of a ring are no more than there are.
LEMMA RingFits ==
  ASSUME NEW c \in [Queues -> Seq(Elems)], Apart(c), NEW q \in Queues
  PROVE  Cardinality(Nodes) \in Nat /\ Len(c[q]) < Cardinality(Nodes)
<1> DEFINE L == Len(c[q])
<1>1. L \in Nat
  BY NodeType
<1>2. IsFiniteSet(Nodes) /\ Cardinality(Nodes) \in Nat
  BY FS_Union, FS_CardinalityType, QueueAssumption DEF Nodes
<1>3. IsFiniteSet(0 .. L) /\ Cardinality(0 .. L) = L + 1
  BY <1>1, FS_Interval
<1>4. ASSUME Cardinality(Nodes) < L + 1 PROVE FALSE
  <2> DEFINE f == [i \in 0 .. L |-> At(c, q, i)]
  <2>1. f \in [0 .. L -> Nodes]
    BY NodeType
  <2> HIDE DEF f
  <2>2. \E i, j \in 0 .. L : i # j /\ f[i] = f[j]
    BY <1>2, <1>3, <1>4, <2>1, FS_PigeonHole
  <2>3. QED
    BY <2>2, NodesApart DEF f
<1>5. QED
  BY <1>1, <1>2, <1>4

\* The walk is defined: were there a first number of steps that is not, the walk of
\* one step less could go on.
LEMMA WalkExists ==
  ASSUME NEW q, NEW N \in Nat
  PROVE  \E w : w = [k \in 0 .. N |-> IF k = 0 THEN q ELSE next[w[k - 1]]]
<1> DEFINE Defined(n) == \E w : w = [k \in 0 .. n |-> IF k = 0 THEN q ELSE next[w[k - 1]]]
           T == {n \in Nat : ~Defined(n)}
<1>1. CASE T = {}
  BY <1>1
<1>2. CASE T # {}
  <2> HIDE DEF Defined
  <2>1. PICK m \in T : \A y \in T : ~(y < m)
    BY <1>2, NatMinimum
  <2>2. CASE m = 0
    <3>1. Defined(0)
      <4> DEFINE w == [k \in 0 .. 0 |-> q]
      <4>1. w = [k \in 0 .. 0 |-> IF k = 0 THEN q ELSE next[w[k - 1]]]
        OBVIOUS
      <4>2. QED
        BY <4>1 DEF Defined
    <3>2. QED
      BY <2>1, <2>2, <3>1
  <2>3. CASE m # 0
    <3>1. m - 1 \in Nat /\ Defined(m - 1)
      BY <2>1, <2>3
    <3>2. PICK v : v = [k \in 0 .. m - 1 |-> IF k = 0 THEN q ELSE next[v[k - 1]]]
      BY <3>1 DEF Defined
    <3> DEFINE w == [k \in 0 .. m |-> IF k = m THEN next[v[m - 1]] ELSE v[k]]
    <3>3. ASSUME NEW k \in 0 .. m
          PROVE  w[k] = IF k = 0 THEN q ELSE next[w[k - 1]]
      <4>1. CASE k = m
        BY <2>1, <2>3, <4>1
      <4>2. CASE k # m
        <5>1. k \in 0 .. m - 1
          BY <2>1, <4>2
        <5>2. w[k] = v[k] /\ v[k] = IF k = 0 THEN q ELSE next[v[k - 1]]
          BY <3>2, <4>2, <5>1
        <5>3. k # 0 => w[k - 1] = v[k - 1]
          BY <2>1, <5>1
        <5>4. QED
          BY <5>2, <5>3
      <4>3. QED
        BY <4>1, <4>2
    <3>4. w = [k \in 0 .. m |-> IF k = 0 THEN q ELSE next[w[k - 1]]]
      BY <3>3
    <3>5. Defined(m)
      BY <3>4 DEF Defined
    <3>6. QED
      BY <2>1, <3>5
  <2>4. QED
    BY <2>2, <2>3
<1>3. QED
  BY <1>1, <1>2

LEMMA WalkSteps ==
  ASSUME NEW q
  PROVE  Cardinality(Nodes) \in Nat =>
           /\ Walk(q)[0] = q
           /\ \A k \in 1 .. Cardinality(Nodes) : Walk(q)[k] = next[Walk(q)[k - 1]]
<1> SUFFICES ASSUME Cardinality(Nodes) \in Nat
             PROVE  /\ Walk(q)[0] = q
                    /\ \A k \in 1 .. Cardinality(Nodes) : Walk(q)[k] = next[Walk(q)[k - 1]]
  OBVIOUS
<1> DEFINE N == Cardinality(Nodes)
<1>1. \E w : w = [k \in 0 .. N |-> IF k = 0 THEN q ELSE next[w[k - 1]]]
  BY WalkExists
<1>2. Walk(q) = CHOOSE w : w = [k \in 0 .. N |-> IF k = 0 THEN q ELSE next[w[k - 1]]]
  BY DEF Walk
<1>3. Walk(q) = [k \in 0 .. N |-> IF k = 0 THEN q ELSE next[Walk(q)[k - 1]]]
  BY <1>1, <1>2
<1>4. QED
  BY <1>3

\* The walk meets the nodes of the ring in their order: were there a first that it
\* does not, the one before it would not lead to it.
LEMMA WalkMeets ==
  ASSUME NEW c, Rings(next, prev, c), NEW q \in Queues, NEW k \in 0 .. Len(c[q])
  PROVE  Walk(q)[k] = At(c, q, k)
<1> DEFINE T == {n \in 0 .. Len(c[q]) : Walk(q)[n] # At(c, q, n)}
<1>1. /\ Len(c[q]) \in Nat /\ At(c, q, 0) = q
      /\ Cardinality(Nodes) \in Nat /\ Len(c[q]) < Cardinality(Nodes)
  BY NodeType, RingFits DEF Rings
<1>2. ASSUME T # {} PROVE FALSE
  <2>1. T \subseteq Nat
    OBVIOUS
  <2>2. PICK m \in T : \A y \in T : ~(y < m)
    BY <1>2, <2>1, NatMinimum
  <2>3. m # 0
    BY <1>1, <2>2, WalkSteps
  <2>4. m - 1 \in 0 .. Len(c[q]) /\ Walk(q)[m - 1] = At(c, q, m - 1)
    BY <1>1, <2>2, <2>3
  <2>5. next[At(c, q, m - 1)] = At(c, q, m)
    BY <2>4 DEF Rings, Linked
  <2>6. m \in 1 .. Cardinality(Nodes)
    BY <1>1, <2>2, <2>3
  <2>7. Walk(q)[m] = next[Walk(q)[m - 1]]
    BY <1>1, <2>6, WalkSteps
  <2>8. QED
    BY <2>2, <2>4, <2>5, <2>7
<1>3. QED
  BY <1>2

\* What the walk meets is the content.
LEMMA ContentIs ==
  ASSUME NEW c, Rings(next, prev, c), NEW q \in Queues
  PROVE  Content(q) = c[q]
<1> DEFINE L == Len(c[q])
           N == Cardinality(Nodes)
           w == Walk(q)
           Inside == {n \in 0 .. N - 1 : \A k \in 1 .. n : w[k] # q}
<1>1. /\ L \in Nat /\ N \in Nat /\ L < N
      /\ At(c, q, L + 1) = q
      /\ \A i \in 1 .. L : At(c, q, i) = c[q][i] /\ c[q][i] \in Elems
  BY NodeType, RingFits DEF Rings
<1>2. \A k \in 1 .. L : w[k] = c[q][k] /\ w[k] # q
  BY <1>1, WalkMeets, QueueAssumption
<1>3. L + 1 <= N - 1 => w[L + 1] = q
  <2> SUFFICES ASSUME L + 1 <= N - 1 PROVE w[L + 1] = q
    OBVIOUS
  <2>1. w[L + 1] = next[w[L]]
    BY <1>1, WalkSteps
  <2>2. w[L] = At(c, q, L)
    BY <1>1, WalkMeets
  <2>3. next[At(c, q, L)] = At(c, q, L + 1)
    BY <1>1 DEF Rings, Linked
  <2>4. QED
    BY <1>1, <2>1, <2>2, <2>3
<1> HIDE DEF w
<1>4. Inside = 0 .. L
  <2>1. ASSUME NEW n \in 0 .. L PROVE n \in Inside
    BY <1>1, <1>2
  <2>2. ASSUME NEW n \in Inside PROVE n \in 0 .. L
    BY <1>1, <1>3
  <2>3. QED
    BY <2>1, <2>2
<1>5. {k \in Inside : k > 0} = 1 .. L
  BY <1>1, <1>4
<1>6. Content(q) = [k \in {k \in Inside : k > 0} |-> w[k]]
  BY DEF Content, w
<1>7. c[q] = [k \in 1 .. L |-> c[q][k]]
  BY DEF Rings
<1> HIDE DEF Inside
<1>8. QED
  BY <1>2, <1>5, <1>6, <1>7
-----------------------------------------------------------------------------
(* What the operations do to the rings *)

\* Where a change is not in the ring of p, the ring of p is not changed.
LEMMA RingUntouched ==
  ASSUME NEW nx, NEW pv, NEW c, Rings(nx, pv, c), NEW p \in Queues,
         NEW nx2, NEW pv2, NEW c2, c2[p] = c[p],
         \A i \in 0 .. Len(c[p]) :
           nx2[At(c, p, i)] = nx[At(c, p, i)] /\ pv2[At(c, p, i)] = pv[At(c, p, i)]
  PROVE  Linked(nx2, pv2, c2, p)
<1>1. Len(c[p]) \in Nat /\ At(c, p, Len(c[p]) + 1) = At(c, p, 0)
  BY NodeType DEF Rings
<1>2. ASSUME NEW i \in 0 .. Len(c[p])
      PROVE  nx2[At(c, p, i)] = At(c, p, i + 1) /\ pv2[At(c, p, i + 1)] = At(c, p, i)
  <2>1. nx[At(c, p, i)] = At(c, p, i + 1) /\ pv[At(c, p, i + 1)] = At(c, p, i)
    BY DEF Rings, Linked
  <2>2. \E j \in 0 .. Len(c[p]) : At(c, p, i + 1) = At(c, p, j)
    <3>1. CASE i = Len(c[p])
      BY <1>1, <3>1
    <3>2. CASE i # Len(c[p])
      <4>1. i + 1 \in 0 .. Len(c[p])
        BY <1>1, <3>2
      <4>2. QED
        BY <4>1
    <3>3. QED
      BY <3>1, <3>2
  <2>3. QED
    BY <2>1, <2>2
<1>3. \A i : At(c2, p, i) = At(c, p, i)
  BY DEF At
<1>4. QED
  BY <1>2, <1>3 DEF Linked

LEMMA PutRings ==
  ASSUME NEW nx, NEW pv, NEW c, Rings(nx, pv, c), NEW q \in Queues, NEW e \in Elems,
         \A p \in Queues : \A i \in 1 .. Len(c[p]) : c[p][i] # e
  PROVE  Rings([nx EXCEPT ![pv[q]] = e, ![e] = q],
               [pv EXCEPT ![e] = pv[q], ![q] = e],
               [c EXCEPT ![q] = Append(@, e)])
<1> DEFINE L   == Len(c[q])
           nx2 == [nx EXCEPT ![pv[q]] = e, ![e] = q]
           pv2 == [pv EXCEPT ![e] = pv[q], ![q] = e]
           c2  == [c EXCEPT ![q] = Append(@, e)]
<1>1. /\ L \in Nat /\ At(c, q, 0) = q /\ At(c, q, L + 1) = q
      /\ nx \in [Nodes -> Nodes] /\ pv \in [Nodes -> Nodes]
      /\ c \in [Queues -> Seq(Elems)] /\ Apart(c)
      /\ q \in Nodes /\ e \in Nodes /\ e # q
  BY NodeType, QueueAssumption DEF Rings, Nodes
<1>2. pv[q] = At(c, q, L)
  BY <1>1 DEF Rings, Linked
<1>3. ASSUME NEW p \in Queues, NEW i \in 0 .. Len(c[p])
      PROVE  At(c, p, i) \in Nodes /\ At(c, p, i) # e
  <2>1. /\ At(c, p, i) \in Nodes /\ At(c, p, 0) = p /\ Len(c[p]) \in Nat
        /\ i # 0 => i \in 1 .. Len(c[p]) /\ At(c, p, i) = c[p][i]
    BY <1>1, NodeType
  <2>2. p # e
    BY QueueAssumption
  <2>3. QED
    BY <2>1, <2>2
<1>4. c2 \in [Queues -> Seq(Elems)] /\ c2[q] = Append(c[q], e) /\ \A p \in Queues \ {q} : c2[p] = c[p]
  BY <1>1
<1>5. /\ Len(c2[q]) = L + 1
      /\ \A i \in 1 .. L : c2[q][i] = c[q][i]
      /\ c2[q][L + 1] = e
  BY <1>1, <1>4
<1>6. Apart(c2)
  <2> SUFFICES ASSUME NEW p \in Queues, NEW r \in Queues, NEW i \in 1 .. Len(c2[p]),
                      NEW j \in 1 .. Len(c2[r]), c2[p][i] = c2[r][j]
               PROVE  p = r /\ i = j
    BY DEF Apart
  <2>1. \/ p = q /\ i = L + 1 /\ c2[p][i] = e
        \/ i \in 1 .. Len(c[p]) /\ c2[p][i] = c[p][i]
    BY <1>1, <1>4, <1>5
  <2>2. \/ r = q /\ j = L + 1 /\ c2[r][j] = e
        \/ j \in 1 .. Len(c[r]) /\ c2[r][j] = c[r][j]
    BY <1>1, <1>4, <1>5
  <2>3. QED
    BY <1>1, <2>1, <2>2 DEF Apart
<1>7. nx2 \in [Nodes -> Nodes] /\ pv2 \in [Nodes -> Nodes]
  BY <1>1
<1>8. \A n \in Nodes : /\ nx2[n] = IF n = e THEN q ELSE IF n = pv[q] THEN e ELSE nx[n]
                       /\ pv2[n] = IF n = q THEN e ELSE IF n = e THEN pv[q] ELSE pv[n]
  BY <1>1
<1>9. ASSUME NEW p \in Queues \ {q} PROVE Linked(nx2, pv2, c2, p)
  <2> HIDE DEF nx2, pv2, c2
  <2>1. ASSUME NEW i \in 0 .. Len(c[p])
        PROVE  nx2[At(c, p, i)] = nx[At(c, p, i)] /\ pv2[At(c, p, i)] = pv[At(c, p, i)]
    <3>1. At(c, p, i) \in Nodes /\ At(c, p, i) # e
      BY <1>3
    <3>2. 0 \in 0 .. L /\ L \in 0 .. L
      BY <1>1
    <3>3. At(c, p, i) # At(c, q, 0) /\ At(c, p, i) # At(c, q, L)
      BY <1>1, <3>2, NodesApart
    <3>4. At(c, p, i) # q /\ At(c, p, i) # pv[q]
      BY <1>1, <1>2, <3>3
    <3>5. QED
      BY <1>8, <3>1, <3>4
  <2>2. c2[p] = c[p]
    BY <1>4
  <2>3. QED
    BY <2>1, <2>2, RingUntouched
<1>10. Linked(nx2, pv2, c2, q)
  <2> HIDE DEF nx2, pv2, c2
  <2>1. /\ \A i \in 0 .. L : At(c2, q, i) = At(c, q, i)
        /\ At(c2, q, L + 1) = e /\ At(c2, q, L + 2) = q
    BY <1>1, <1>5 DEF At
  <2>2. ASSUME NEW i \in 0 .. L + 1
        PROVE  nx2[At(c2, q, i)] = At(c2, q, i + 1) /\ pv2[At(c2, q, i + 1)] = At(c2, q, i)
    <3>1. CASE i = L + 1
      BY <1>1, <1>8, <2>1, <3>1
    <3>2. CASE i = L
      <4>1. At(c, q, L) \in Nodes /\ At(c, q, L) # e
        BY <1>1, <1>3
      <4>2. QED
        BY <1>1, <1>2, <1>8, <2>1, <3>2, <4>1
    <3>3. CASE i < L
      <4>1. i \in 0 .. L /\ i + 1 \in 0 .. L /\ L \in 0 .. L /\ 0 \in 0 .. L
        BY <1>1, <3>3
      <4>2. /\ At(c, q, i) \in Nodes /\ At(c, q, i) # e
            /\ At(c, q, i + 1) \in Nodes /\ At(c, q, i + 1) # e
        BY <1>3, <4>1
      <4>3. At(c, q, i) # At(c, q, L) /\ At(c, q, i + 1) # At(c, q, 0)
        BY <1>1, <3>3, <4>1, NodesApart
      <4>4. nx[At(c, q, i)] = At(c, q, i + 1) /\ pv[At(c, q, i + 1)] = At(c, q, i)
        BY <4>1 DEF Rings, Linked
      <4>5. QED
        BY <1>1, <1>2, <1>8, <2>1, <4>1, <4>2, <4>3, <4>4
    <3>4. QED
      BY <1>1, <3>1, <3>2, <3>3
  <2>3. QED
    BY <1>5, <2>2 DEF Linked
<1>11. QED
  BY <1>4, <1>6, <1>7, <1>9, <1>10 DEF Rings

LEMMA TakeRings ==
  ASSUME NEW nx, NEW pv, NEW c, Rings(nx, pv, c), NEW q \in Queues, nx[q] # q
  PROVE  /\ c[q] # <<>> /\ nx[q] = Head(c[q])
         /\ Rings([nx EXCEPT ![q] = nx[nx[q]]], [pv EXCEPT ![nx[nx[q]]] = q],
                  [c EXCEPT ![q] = Tail(@)])
<1> DEFINE L   == Len(c[q])
           nx2 == [nx EXCEPT ![q] = nx[nx[q]]]
           pv2 == [pv EXCEPT ![nx[nx[q]]] = q]
           c2  == [c EXCEPT ![q] = Tail(@)]
<1>1. /\ L \in Nat /\ At(c, q, 0) = q /\ At(c, q, L + 1) = q
      /\ nx \in [Nodes -> Nodes] /\ pv \in [Nodes -> Nodes]
      /\ c \in [Queues -> Seq(Elems)] /\ Apart(c)
      /\ q \in Nodes
  BY NodeType DEF Rings, Nodes
<1>2. ASSUME NEW i \in 0 .. L
      PROVE  nx[At(c, q, i)] = At(c, q, i + 1) /\ pv[At(c, q, i + 1)] = At(c, q, i)
  BY DEF Rings, Linked
<1>3. L >= 1 /\ c[q] # <<>>
  <2>1. CASE L = 0
    BY <1>1, <1>2, <2>1
  <2>2. QED
    BY <1>1, <2>1
<1>4. nx[q] = At(c, q, 1) /\ nx[nx[q]] = At(c, q, 2) /\ nx[q] = Head(c[q])
  <2>1. nx[q] = At(c, q, 1)
    BY <1>1, <1>2
  <2>2. nx[At(c, q, 1)] = At(c, q, 2)
    BY <1>1, <1>2, <1>3
  <2>3. At(c, q, 1) = Head(c[q])
    BY <1>1, <1>3 DEF At
  <2>4. QED
    BY <2>1, <2>2, <2>3
<1>5. /\ c2 \in [Queues -> Seq(Elems)] /\ \A p \in Queues \ {q} : c2[p] = c[p]
      /\ c2[q] = Tail(c[q]) /\ Len(c2[q]) = L - 1
      /\ \A i \in 1 .. L - 1 : c2[q][i] = c[q][i + 1]
  BY <1>1, <1>3
<1>6. Apart(c2)
  <2> SUFFICES ASSUME NEW p \in Queues, NEW r \in Queues, NEW i \in 1 .. Len(c2[p]),
                      NEW j \in 1 .. Len(c2[r]), c2[p][i] = c2[r][j]
               PROVE  p = r /\ i = j
    BY DEF Apart
  <2> DEFINE Was(x, k) == IF x = q THEN k + 1 ELSE k
  <2>1. Was(p, i) \in 1 .. Len(c[p]) /\ c2[p][i] = c[p][Was(p, i)]
    BY <1>1, <1>5
  <2>2. Was(r, j) \in 1 .. Len(c[r]) /\ c2[r][j] = c[r][Was(r, j)]
    BY <1>1, <1>5
  <2>3. p = r /\ Was(p, i) = Was(r, j)
    BY <1>1, <2>1, <2>2 DEF Apart
  <2>4. QED
    BY <2>3
<1>7. nx2 \in [Nodes -> Nodes] /\ pv2 \in [Nodes -> Nodes]
  BY <1>1
<1>8. \A i \in 0 .. L + 1 : At(c, q, i) \in Nodes
  BY <1>1, NodeType
<1>9. \A n \in Nodes : /\ nx2[n] = IF n = q THEN At(c, q, 2) ELSE nx[n]
                       /\ pv2[n] = IF n = At(c, q, 2) THEN q ELSE pv[n]
  BY <1>1, <1>4
<1>10. \E j \in 0 .. L : At(c, q, 2) = At(c, q, j)
  <2>1. CASE L = 1
    BY <1>1, <2>1
  <2>2. CASE L >= 2
    <3>1. 2 \in 0 .. L
      BY <1>1, <2>2
    <3>2. QED
      BY <3>1
  <2>3. QED
    BY <1>1, <1>3, <2>1, <2>2
<1>11. ASSUME NEW p \in Queues \ {q} PROVE Linked(nx2, pv2, c2, p)
  <2> HIDE DEF nx2, pv2, c2
  <2>1. ASSUME NEW i \in 0 .. Len(c[p])
        PROVE  nx2[At(c, p, i)] = nx[At(c, p, i)] /\ pv2[At(c, p, i)] = pv[At(c, p, i)]
    <3>1. At(c, p, i) \in Nodes
      BY <1>1, NodeType
    <3>2. At(c, p, i) # At(c, q, 0) /\ At(c, p, i) # At(c, q, 2)
      BY <1>1, <1>10, NodesApart
    <3>3. QED
      BY <1>1, <1>9, <3>1, <3>2
  <2>2. QED
    BY <1>5, <2>1, RingUntouched
<1>12. Linked(nx2, pv2, c2, q)
  <2> HIDE DEF nx2, pv2, c2
  <2>1. /\ At(c2, q, 0) = q /\ At(c2, q, L) = q
        /\ \A i \in 1 .. L : At(c2, q, i) = At(c, q, i + 1)
    BY <1>1, <1>3, <1>5 DEF At
  <2>2. ASSUME NEW i \in 0 .. L - 1
        PROVE  nx2[At(c2, q, i)] = At(c2, q, i + 1) /\ pv2[At(c2, q, i + 1)] = At(c2, q, i)
    <3>1. CASE i = 0
      BY <1>1, <1>3, <1>8, <1>9, <2>1, <3>1
    <3>2. CASE i # 0
      <4>1. i + 1 \in 0 .. L /\ i \in 1 .. L /\ i + 1 \in 1 .. L /\ i + 2 \in 0 .. L + 1
        BY <1>1, <3>2
      <4>2. At(c2, q, i) = At(c, q, i + 1) /\ At(c2, q, i + 1) = At(c, q, i + 2)
        BY <2>1, <4>1
      <4>3. /\ nx[At(c, q, i + 1)] = At(c, q, i + 2)
            /\ pv[At(c, q, i + 2)] = At(c, q, i + 1)
        BY <1>2, <4>1
      <4>4. At(c, q, i + 1) # q
        BY <1>1, <3>2, <4>1, NodesApart
      <4>5. At(c, q, i + 2) # At(c, q, 2)
        <5>1. CASE i + 2 = L + 1
          <6>1. 2 \in 0 .. L
            BY <1>1, <3>2, <5>1
          <6>2. At(c, q, 2) # At(c, q, 0)
            BY <1>1, <6>1, NodesApart
          <6>3. QED
            BY <1>1, <5>1, <6>2
        <5>2. CASE i + 2 # L + 1
          <6>1. 2 \in 0 .. L /\ i + 2 \in 0 .. L /\ i + 2 # 2
            BY <1>1, <3>2, <4>1, <5>2
          <6>2. QED
            BY <1>1, <6>1, NodesApart
        <5>3. QED
          BY <5>1, <5>2
      <4>6. At(c, q, i + 1) \in Nodes /\ At(c, q, i + 2) \in Nodes
        BY NodeType, <1>1
      <4>7. QED
        BY <1>9, <4>2, <4>3, <4>4, <4>5, <4>6
    <3>3. QED
      BY <3>1, <3>2
  <2>3. QED
    BY <1>5, <2>2 DEF Linked
<1>13. QED
  BY <1>3, <1>4, <1>5, <1>6, <1>7, <1>11, <1>12 DEF Rings

LEMMA SpliceRings ==
  ASSUME NEW nx, NEW pv, NEW c, Rings(nx, pv, c), NEW d \in Queues, NEW s \in Queues, d # s,
         nx[s] # s
  PROVE  Rings([nx EXCEPT ![pv[d]] = nx[s], ![pv[s]] = d, ![s] = s],
               [pv EXCEPT ![nx[s]] = pv[d], ![d] = pv[s], ![s] = s],
               [c EXCEPT ![d] = @ \o c[s], ![s] = <<>>])
<1> DEFINE L   == Len(c[d])
           M   == Len(c[s])
           nx2 == [nx EXCEPT ![pv[d]] = nx[s], ![pv[s]] = d, ![s] = s]
           pv2 == [pv EXCEPT ![nx[s]] = pv[d], ![d] = pv[s], ![s] = s]
           c2  == [c EXCEPT ![d] = @ \o c[s], ![s] = <<>>]
<1>1. /\ L \in Nat /\ At(c, d, 0) = d /\ At(c, d, L + 1) = d
      /\ M \in Nat /\ At(c, s, 0) = s /\ At(c, s, M + 1) = s
      /\ \A p \in Queues : \A i : At(c, p, i) \in Nodes
      /\ nx \in [Nodes -> Nodes] /\ pv \in [Nodes -> Nodes]
      /\ c \in [Queues -> Seq(Elems)] /\ Apart(c)
      /\ d \in Nodes /\ s \in Nodes
  BY NodeType DEF Rings, Nodes
<1>2. \A p \in Queues : \A i \in 0 .. Len(c[p]) :
        nx[At(c, p, i)] = At(c, p, i + 1) /\ pv[At(c, p, i + 1)] = At(c, p, i)
  BY DEF Rings, Linked
<1>3. M >= 1
  <2>1. M = 0 => nx[s] = s
    BY <1>1, <1>2
  <2>2. QED
    BY <1>1, <2>1
<1>4. pv[d] = At(c, d, L) /\ pv[s] = At(c, s, M) /\ nx[s] = At(c, s, 1)
  <2>1. L \in 0 .. L /\ M \in 0 .. M /\ 0 \in 0 .. M
    BY <1>1
  <2>2. QED
    BY <1>1, <1>2, <2>1
<1>5. /\ c2 \in [Queues -> Seq(Elems)] /\ \A p \in Queues \ {d, s} : c2[p] = c[p]
      /\ c2[d] = c[d] \o c[s] /\ c2[s] = <<>> /\ Len(c2[s]) = 0
  <2>1. c[d] \o c[s] \in Seq(Elems) /\ <<>> \in Seq(Elems)
    BY <1>1
  <2>2. \A p \in Queues : c2[p] = IF p = s THEN <<>> ELSE IF p = d THEN c[d] \o c[s] ELSE c[p]
    BY <1>1
  <2>3. c2 \in [Queues -> Seq(Elems)]
    BY <1>1, <2>1
  <2>4. QED
    BY <2>2, <2>3
<1>6. /\ Len(c2[d]) = L + M
      /\ \A i \in 1 .. L : c2[d][i] = c[d][i]
      /\ \A i \in 1 .. M : c2[d][L + i] = c[s][i]
  BY <1>1, <1>5
<1>7. Apart(c2)
  <2> SUFFICES ASSUME NEW p \in Queues, NEW r \in Queues, NEW i \in 1 .. Len(c2[p]),
                      NEW j \in 1 .. Len(c2[r]), c2[p][i] = c2[r][j]
               PROVE  p = r /\ i = j
    BY DEF Apart
  <2> DEFINE Home(x, k) == IF x = d /\ k > L THEN s ELSE x
             Was(x, k) == IF x = d /\ k > L THEN k - L ELSE k
  <2> HIDE DEF nx2, pv2, c2
  <2>1. ASSUME NEW x \in Queues, NEW k \in 1 .. Len(c2[x])
        PROVE  /\ x # s /\ Home(x, k) \in Queues /\ Was(x, k) \in 1 .. Len(c[Home(x, k)])
               /\ c2[x][k] = c[Home(x, k)][Was(x, k)]
    <3>1. x # s
      BY <1>5
    <3>2. CASE x = d /\ k > L
      <4>1. k - L \in 1 .. M
        BY <1>1, <1>6, <3>2
      <4>2. c2[d][L + (k - L)] = c[s][k - L]
        BY <1>6, <4>1
      <4>3. L + (k - L) = k
        BY <1>1
      <4>4. QED
        BY <3>1, <3>2, <4>1, <4>2, <4>3
    <3>3. CASE x = d /\ ~(k > L)
      <4>1. k \in 1 .. L
        BY <1>1, <1>6, <3>3
      <4>2. QED
        BY <1>6, <3>1, <3>3, <4>1
    <3>4. CASE x # d
      BY <1>5, <3>1, <3>4
    <3>5. QED
      BY <3>2, <3>3, <3>4
  <2>2. ASSUME NEW a \in Queues, NEW b \in Queues, NEW k \in 1 .. Len(c[a]),
               NEW m \in 1 .. Len(c[b]), c[a][k] = c[b][m]
        PROVE  a = b /\ k = m
    BY <1>1, <2>2 DEF Apart
  <2>3. Home(p, i) = Home(r, j) /\ Was(p, i) = Was(r, j)
    <3> HIDE DEF Home, Was
    <3>1. c[Home(p, i)][Was(p, i)] = c[Home(r, j)][Was(r, j)]
      BY <2>1
    <3>2. QED
      BY <2>1, <2>2, <3>1
  <2>4. p # s /\ r # s /\ L \in Int /\ i \in Int /\ j \in Int
    BY <1>1, <2>1
  <2>5. QED
    BY <2>3, <2>4
<1>8. nx2 \in [Nodes -> Nodes] /\ pv2 \in [Nodes -> Nodes]
  BY <1>1
<1>9. \A n \in Nodes :
        /\ nx2[n] = IF n = s THEN s ELSE IF n = At(c, s, M) THEN d
                    ELSE IF n = At(c, d, L) THEN At(c, s, 1) ELSE nx[n]
        /\ pv2[n] = IF n = s THEN s ELSE IF n = d THEN At(c, s, M)
                    ELSE IF n = At(c, s, 1) THEN At(c, d, L) ELSE pv[n]
  BY <1>1, <1>4
<1>10. 0 \in 0 .. L /\ L \in 0 .. L /\ 0 \in 0 .. M /\ 1 \in 0 .. M /\ M \in 0 .. M
  BY <1>1, <1>3
<1> HIDE DEF nx2, pv2, c2
<1>11. ASSUME NEW p \in Queues \ {d, s} PROVE Linked(nx2, pv2, c2, p)
  <2>1. ASSUME NEW i \in 0 .. Len(c[p])
        PROVE  nx2[At(c, p, i)] = nx[At(c, p, i)] /\ pv2[At(c, p, i)] = pv[At(c, p, i)]
    <3>1. /\ At(c, p, i) # At(c, d, 0) /\ At(c, p, i) # At(c, d, L)
          /\ At(c, p, i) # At(c, s, 0) /\ At(c, p, i) # At(c, s, 1) /\ At(c, p, i) # At(c, s, M)
      BY <1>1, <1>10, NodesApart
    <3>2. QED
      BY <1>1, <1>9, <3>1
  <2>2. c2[p] = c[p]
    BY <1>5
  <2>3. QED
    BY <2>1, <2>2, RingUntouched
<1>12. Linked(nx2, pv2, c2, s)
  <2>1. \A i : At(c2, s, i) = s
    BY <1>5 DEF At
  <2>2. QED
    BY <1>1, <1>5, <1>9, <2>1 DEF Linked
<1>13. Linked(nx2, pv2, c2, d)
  <2>1. /\ \A i \in 0 .. L : At(c2, d, i) = At(c, d, i)
        /\ \A i \in 1 .. M : At(c2, d, L + i) = At(c, s, i)
        /\ At(c2, d, L + M + 1) = d
    <3>1. ASSUME NEW i \in 0 .. L PROVE At(c2, d, i) = At(c, d, i)
      BY <1>1, <1>6 DEF At
    <3>2. ASSUME NEW i \in 1 .. M PROVE At(c2, d, L + i) = At(c, s, i)
      <4>1. L + i \in 1 .. Len(c2[d])
        BY <1>1, <1>6
      <4>2. At(c2, d, L + i) = c2[d][L + i] /\ At(c, s, i) = c[s][i]
        BY <4>1 DEF At
      <4>3. QED
        BY <1>6, <4>2
    <3>3. At(c2, d, L + M + 1) = d
      BY <1>1, <1>6 DEF At
    <3>4. QED
      BY <3>1, <3>2, <3>3
  <2>2. ASSUME NEW i \in 0 .. L + M
        PROVE  nx2[At(c2, d, i)] = At(c2, d, i + 1) /\ pv2[At(c2, d, i + 1)] = At(c2, d, i)
    <3>1. CASE i < L
      <4>1. i \in 0 .. L /\ i + 1 \in 0 .. L
        BY <1>1, <3>1
      <4>2. /\ At(c, d, i) # At(c, d, L) /\ At(c, d, i) # At(c, s, 0)
            /\ At(c, d, i) # At(c, s, M)
        BY <1>1, <1>10, <3>1, <4>1, NodesApart
      <4>3. /\ At(c, d, i + 1) # At(c, d, 0) /\ At(c, d, i + 1) # At(c, s, 0)
            /\ At(c, d, i + 1) # At(c, s, 1)
        BY <1>1, <1>10, <3>1, <4>1, NodesApart
      <4>4. nx[At(c, d, i)] = At(c, d, i + 1) /\ pv[At(c, d, i + 1)] = At(c, d, i)
        BY <1>2, <4>1
      <4>5. QED
        BY <1>1, <1>9, <2>1, <4>1, <4>2, <4>3, <4>4
    <3>2. CASE i = L
      <4>1. At(c, d, L) # At(c, s, 0) /\ At(c, d, L) # At(c, s, M)
        BY <1>1, <1>10, NodesApart
      <4>2. At(c, s, 1) # At(c, s, 0) /\ At(c, s, 1) # At(c, d, 0)
        BY <1>1, <1>10, NodesApart
      <4>3. At(c2, d, i) = At(c, d, L) /\ At(c2, d, i + 1) = At(c, s, 1)
        BY <1>3, <1>10, <2>1, <3>2
      <4>4. QED
        BY <1>1, <1>9, <4>1, <4>2, <4>3
    <3>3. CASE i > L /\ i < L + M
      <4> DEFINE k == i - L
      <4>1. k \in 1 .. M /\ k + 1 \in 1 .. M /\ k \in 0 .. M /\ k + 1 \in 0 .. M /\ k # M /\ k # 0
        BY <1>1, <3>3
      <4>2. At(c2, d, i) = At(c, s, k) /\ At(c2, d, i + 1) = At(c, s, k + 1)
        <5>1. L + k = i /\ L + (k + 1) = i + 1
          BY <1>1
        <5>2. QED
          BY <2>1, <4>1, <5>1
      <4> HIDE DEF k
      <4>3. /\ At(c, s, k) # At(c, s, 0) /\ At(c, s, k) # At(c, s, M)
            /\ At(c, s, k) # At(c, d, L)
        BY <1>1, <1>10, <4>1, NodesApart
      <4>4. k + 1 # 0 /\ k + 1 # 1
        BY <4>1
      <4>5. /\ At(c, s, k + 1) # At(c, s, 0) /\ At(c, s, k + 1) # At(c, s, 1)
            /\ At(c, s, k + 1) # At(c, d, 0)
        BY <1>1, <1>10, <4>1, <4>4, NodesApart
      <4>6. nx[At(c, s, k)] = At(c, s, k + 1) /\ pv[At(c, s, k + 1)] = At(c, s, k)
        BY <1>2, <4>1
      <4>7. QED
        BY <1>1, <1>9, <4>2, <4>3, <4>5, <4>6
    <3>4. CASE i = L + M
      <4>1. At(c2, d, i) = At(c, s, M) /\ At(c2, d, i + 1) = d
        BY <1>1, <1>3, <2>1, <3>4
      <4>2. At(c, s, M) # At(c, s, 0)
        BY <1>1, <1>3, <1>10, NodesApart
      <4>3. QED
        BY <1>1, <1>9, <4>1, <4>2
    <3>5. i < L \/ i = L \/ (i > L /\ i < L + M) \/ i = L + M
      <4>1. L \in Nat /\ M \in Nat
        BY <1>1
      <4> HIDE DEF L, M
      <4>2. QED
        BY <4>1
    <3>6. QED
      BY <3>1, <3>2, <3>3, <3>4, <3>5
  <2>3. QED
    BY <1>6, <2>2 DEF Linked
<1>14. QED
  BY <1>5, <1>7, <1>8, <1>11, <1>12, <1>13 DEF Rings, nx2, pv2, c2

LEMMA ClearRings ==
  ASSUME NEW nx, NEW pv, NEW c, Rings(nx, pv, c), NEW q \in Queues
  PROVE  Rings([nx EXCEPT ![q] = q], [pv EXCEPT ![q] = q], [c EXCEPT ![q] = <<>>])
<1> DEFINE nx2 == [nx EXCEPT ![q] = q]
           pv2 == [pv EXCEPT ![q] = q]
           c2  == [c EXCEPT ![q] = <<>>]
<1>1. /\ nx \in [Nodes -> Nodes] /\ pv \in [Nodes -> Nodes]
      /\ c \in [Queues -> Seq(Elems)] /\ Apart(c)
      /\ q \in Nodes /\ Len(c[q]) \in Nat /\ At(c, q, 0) = q
      /\ \A p \in Queues : \A i : At(c, p, i) \in Nodes
  BY NodeType DEF Rings, Nodes
<1>2. /\ c2 \in [Queues -> Seq(Elems)] /\ \A p \in Queues \ {q} : c2[p] = c[p]
      /\ Len(c2[q]) = 0
  BY <1>1
<1>3. Apart(c2)
  BY <1>1, <1>2 DEF Apart
<1>4. nx2 \in [Nodes -> Nodes] /\ pv2 \in [Nodes -> Nodes] /\ nx2[q] = q /\ pv2[q] = q
  BY <1>1
<1>5. ASSUME NEW p \in Queues \ {q} PROVE Linked(nx2, pv2, c2, p)
  <2>1. ASSUME NEW i \in 0 .. Len(c[p])
        PROVE  nx2[At(c, p, i)] = nx[At(c, p, i)] /\ pv2[At(c, p, i)] = pv[At(c, p, i)]
    <3>1. 0 \in 0 .. Len(c[q])
      BY <1>1
    <3>2. At(c, p, i) # At(c, q, 0)
      BY <1>1, <3>1, NodesApart
    <3>3. QED
      BY <1>1, <3>2
  <2> HIDE DEF nx2, pv2, c2
  <2>2. QED
    BY <1>2, <2>1, RingUntouched
<1> HIDE DEF nx2, pv2, c2
<1>6. Linked(nx2, pv2, c2, q)
  <2>1. \A i : At(c2, q, i) = q
    BY <1>2 DEF At
  <2>2. QED
    BY <1>2, <1>4, <2>1 DEF Linked
<1>7. QED
  BY <1>2, <1>3, <1>4, <1>5, <1>6 DEF Rings, nx2, pv2, c2
-----------------------------------------------------------------------------
(* The steps as those of queues that are first in, first out *)

Map == [q \in Queues |-> Content(q)]

\* The content is a ring, and the counts are the lengths.
RingInv ==
  /\ Rings(next, prev, Map)
  /\ num \in [Queues -> Nat] /\ \A q \in Queues : num[q] = Len(Map[q])

LEMMA MapIs == \A c : Rings(next, prev, c) => Map = c
<1> SUFFICES ASSUME NEW c, Rings(next, prev, c) PROVE Map = c
  OBVIOUS
<1>1. \A q \in Queues : Content(q) = c[q]
  BY ContentIs
<1>2. c = [q \in Queues |-> c[q]]
  BY DEF Rings
<1>3. QED
  BY <1>1, <1>2 DEF Map

LEMMA MapWillBe == \A c : Rings(next', prev', c) => Map' = c
<1>1. (\A c : Rings(next, prev, c) => Map = c)'
  BY MapIs, PTL
<1>2. QED
  BY <1>1 DEF Rings

LEMMA RingsInit ==
  ASSUME Init
  PROVE  RingInv /\ Map = [q \in Queues |-> <<>>]
<1> DEFINE c == [q \in Queues |-> <<>>]
<1>1. c \in [Queues -> Seq(Elems)] /\ \A q \in Queues : Len(c[q]) = 0
  OBVIOUS
<1>2. \A q \in Queues : \A i : At(c, q, i) = q
  BY <1>1 DEF At
<1>3. \A q \in Queues : Linked(next, prev, c, q)
  BY <1>1, <1>2 DEF Init, Linked, Nodes
<1>4. Apart(c)
  BY <1>1 DEF Apart
<1>5. Rings(next, prev, c)
  BY <1>1, <1>3, <1>4 DEF Init, Rings
<1>6. Map = c
  BY <1>5, MapIs
<1>7. QED
  BY <1>1, <1>5, <1>6 DEF RingInv, Init

LEMMA EmptyRing ==
  ASSUME RingInv, NEW q \in Queues
  PROVE  /\ Map[q] \in Seq(Elems) /\ Len(Map[q]) \in Nat
         /\ next[q] = q <=> Map[q] = <<>>
         /\ num[q] = 0 <=> Map[q] = <<>>
<1>1. /\ Map[q] \in Seq(Elems) /\ Len(Map[q]) \in Nat
      /\ next[At(Map, q, 0)] = At(Map, q, 1) /\ At(Map, q, 0) = q
      /\ At(Map, q, Len(Map[q]) + 1) = q
      /\ \A i \in 1 .. Len(Map[q]) : At(Map, q, i) \in Elems
  BY NodeType DEF RingInv, Rings, Linked
<1>2. CASE Map[q] = <<>>
  <2>1. Len(Map[q]) = 0
    BY <1>2
  <2>2. next[q] = q
    BY <1>1, <2>1
  <2>3. QED
    BY <1>1, <1>2, <2>1, <2>2 DEF RingInv
<1>3. CASE Map[q] # <<>>
  <2>1. 1 \in 1 .. Len(Map[q])
    BY <1>1, <1>3
  <2>2. next[q] \in Elems
    BY <1>1, <2>1
  <2>3. num[q] # 0
    BY <1>1, <2>1 DEF RingInv
  <2>4. QED
    BY <1>1, <1>3, <2>2, <2>3, QueueAssumption
<1>4. QED
  BY <1>2, <1>3

\* An element that is not queued is in no queue.
LEMMA QueuedIs ==
  ASSUME RingInv, NEW e \in Elems \ Queued, NEW q \in Queues, NEW i \in 1 .. Len(Map[q])
  PROVE  Map[q][i] # e
<1>1. Map[q] \in Seq(Elems)
  BY EmptyRing
<1>2. DOMAIN Map[q] = 1 .. Len(Map[q]) /\ Content(q) = Map[q]
  BY <1>1 DEF Map
<1>3. QED
  BY <1>2 DEF Queued, Nodes

LEMMA ListsStay ==
  ASSUME RingInv, UNCHANGED list
  PROVE  Map' = Map /\ Rings(next', prev', Map')
<1>1. Rings(next', prev', Map)
  BY DEF RingInv, list
<1>2. Map' = Map
  BY <1>1, MapWillBe
<1>3. QED
  BY <1>1, <1>2

LEMMA PutStep ==
  ASSUME RingInv, NEW t \in Threads, NEW q \in Queues, NEW e \in Elems, XN_QueuePut(t, q, e)
  PROVE  RingInv' /\ Fifo!Put(q, e)
<1> DEFINE c == [Map EXCEPT ![q] = Append(@, e)]
<1>1. Map \in [Queues -> Seq(Elems)] /\ Rings(next, prev, Map)
  BY DEF RingInv, Rings
<1>2. e \in Elems \ Queued
  BY DEF XN_QueuePut
<1>3. \A p \in Queues : \A i \in 1 .. Len(Map[p]) : Map[p][i] # e
  BY <1>2, QueuedIs
<1>4. Rings(next', prev', c)
  BY <1>1, <1>3, PutRings DEF XN_QueuePut
<1>5. Map' = c
  BY <1>4, MapWillBe
<1>6. \A p \in Queues : /\ Len(c[p]) = IF p = q THEN Len(Map[p]) + 1 ELSE Len(Map[p])
                        /\ Len(Map[p]) \in Nat
  BY <1>1
<1>7. num' \in [Queues -> Nat] /\ \A p \in Queues : num'[p] = Len(c[p])
  BY <1>6 DEF RingInv, XN_QueuePut
<1>8. \A p \in Queues : e \notin {Map[p][i] : i \in DOMAIN Map[p]}
  BY <1>1, <1>3
<1>9. Fifo!Put(q, e)
  BY <1>5, <1>8 DEF Fifo!Put, Fifo!In, Map, XN_QueuePut, None
<1>10. QED
  BY <1>4, <1>5, <1>7, <1>9 DEF RingInv

LEMMA GetStep ==
  ASSUME RingInv, NEW t \in Threads, NEW q \in Queues, XN_QueueGet(t, q)
  PROVE  RingInv' /\ (Fifo!Take(q) \/ Fifo!Look(q))
<1>1. Map \in [Queues -> Seq(Elems)] /\ Rings(next, prev, Map)
  BY DEF RingInv, Rings
<1>2. CASE TakeFirst(q)
  <2> DEFINE c == [Map EXCEPT ![q] = Tail(@)]
  <2>1. Map[q] # <<>> /\ next[q] = Head(Map[q]) /\ Rings(next', prev', c)
    <3>1. /\ next[q] # q
          /\ next' = [next EXCEPT ![q] = next[next[q]]]
          /\ prev' = [prev EXCEPT ![next[next[q]]] = q]
      BY <1>2 DEF TakeFirst
    <3>2. /\ Map[q] # <<>> /\ next[q] = Head(Map[q])
          /\ Rings([next EXCEPT ![q] = next[next[q]]], [prev EXCEPT ![next[next[q]]] = q], c)
      BY <1>1, <3>1, TakeRings
    <3>3. QED
      BY <3>1, <3>2
  <2>2. Map' = c
    BY <2>1, MapWillBe
  <2>3. \A p \in Queues : /\ Len(c[p]) = IF p = q THEN Len(Map[p]) - 1 ELSE Len(Map[p])
                          /\ Len(c[p]) \in Nat
    BY <1>1, <2>1
  <2>4. num' \in [Queues -> Nat] /\ \A p \in Queues : num'[p] = Len(c[p])
    BY <1>2, <2>3 DEF RingInv, TakeFirst
  <2>5. Fifo!Take(q)
    BY <1>2, <2>1, <2>2 DEF Fifo!Take, Map, TakeFirst
  <2>6. QED
    BY <2>1, <2>2, <2>4, <2>5 DEF RingInv
<1>3. CASE FindNone(q)
  <2>1. Map' = Map /\ Rings(next', prev', Map')
    BY <1>3, ListsStay DEF FindNone
  <2>2. Len(Map[q]) = 0
    BY <1>3, EmptyRing DEF FindNone
  <2>3. num' \in [Queues -> Nat] /\ \A p \in Queues : num'[p] = Len(Map[p])
    BY <1>3, <2>2 DEF FindNone, RingInv
  <2>4. Fifo!Look(q)
    BY <1>3, <2>1 DEF Fifo!Look, Map, FindNone, None
  <2>5. QED
    BY <2>1, <2>3, <2>4 DEF RingInv
<1>4. QED
  BY <1>2, <1>3 DEF XN_QueueGet

LEMMA GetNumStep ==
  ASSUME RingInv, NEW t \in Threads, NEW q \in Queues, XN_QueueGetNum(t, q)
  PROVE  RingInv' /\ Fifo!Count(q)
<1>1. Map' = Map /\ Rings(next', prev', Map')
  BY ListsStay DEF XN_QueueGetNum
<1>2. num' = num /\ out' = <<"num", Len(Map[q])>>
  BY DEF XN_QueueGetNum, RingInv, count
<1>3. Fifo!Count(q)
  BY <1>1, <1>2 DEF Fifo!Count, Map
<1>4. QED
  BY <1>1, <1>2, <1>3 DEF RingInv

\* What is looked at is where the read position says, counted from the oldest.
LEMMA GetIndexStep ==
  ASSUME RingInv, NEW t \in Threads, NEW q \in Queues, NEW indx \in Indexes,
         XN_QueueGetIndex(t, q, indx)
  PROVE  RingInv' /\ (Fifo!Look(q) \/ UNCHANGED <<Map, out>>)
<1>1. Map' = Map /\ Rings(next', prev', Map')
  BY ListsStay DEF XN_QueueGetIndex
<1>2. num' \in [Queues -> Nat] /\ \A p \in Queues : num'[p] = Len(Map[p])
  <2>1. next[q] = q => Len(Map[q]) = 0
    BY EmptyRing
  <2>2. num' = num \/ (next[q] = q /\ num' = [num EXCEPT ![q] = 0])
    BY DEF XN_QueueGetIndex, LooksAtNone, LooksAt, GoesRound, count
  <2>3. QED
    BY <2>1, <2>2 DEF RingInv
<1>3. CASE LooksAtNone(q, indx)
  <2>1. Fifo!Look(q)
    BY <1>1, <1>3 DEF Fifo!Look, Map, LooksAtNone, None
  <2>2. QED
    BY <1>1, <1>2, <2>1 DEF RingInv
<1>4. CASE LooksAt(q, indx)
  <2> DEFINE i == Position(q, indx) + 1
  <2>1. Map[q] \in Seq(Elems) /\ Len(Map[q]) \in Nat /\ num[q] = Len(Map[q])
    BY EmptyRing DEF RingInv
  <2>2. i \in 1 .. Len(Map[q]) /\ i \in 0 .. Len(Map[q])
    BY <1>4, <2>1 DEF LooksAt
  <2> HIDE DEF i
  <2>3. Walk(q)[i] = At(Map, q, i)
    BY <2>2, WalkMeets DEF RingInv
  <2>4. Walk(q)[i] = Map[q][i] /\ i \in DOMAIN Map[q]
    BY <2>1, <2>2, <2>3 DEF At
  <2>5. out' = <<"elem", Map[q][i]>>
    BY <1>4, <2>4 DEF LooksAt, i
  <2>6. Fifo!Look(q)
    BY <1>1, <2>4, <2>5 DEF Fifo!Look, Fifo!In, Map
  <2>7. QED
    BY <1>1, <1>2, <2>6 DEF RingInv
<1>5. CASE GoesRound(t, q, indx)
  BY <1>1, <1>2, <1>5 DEF GoesRound, RingInv
<1>6. QED
  BY <1>1, <1>2, <1>3, <1>4, <1>5 DEF XN_QueueGetIndex, RingInv

LEMMA ClearStep ==
  ASSUME RingInv, NEW t \in Threads, NEW q \in Queues,
         XN_QueueDestroy(t, q) \/ XN_QueueInit(t, q)
  PROVE  RingInv' /\ Fifo!Clear(q)
<1> DEFINE c == [Map EXCEPT ![q] = <<>>]
<1>1. Map \in [Queues -> Seq(Elems)] /\ Rings(next, prev, Map)
  BY DEF RingInv, Rings
<1>2. Rings(next', prev', c)
  <2>1. next' = [next EXCEPT ![q] = q] /\ prev' = [prev EXCEPT ![q] = q]
    BY DEF XN_QueueDestroy, XN_QueueInit
  <2>2. Rings([next EXCEPT ![q] = q], [prev EXCEPT ![q] = q], c)
    BY <1>1, ClearRings
  <2>3. QED
    BY <2>1, <2>2
<1>3. Map' = c
  BY <1>2, MapWillBe
<1>4. \A p \in Queues : c[p] = IF p = q THEN <<>> ELSE Map[p]
  BY <1>1
<1>5. num' \in [Queues -> Nat] /\ \A p \in Queues : num'[p] = Len(c[p])
  BY <1>4 DEF RingInv, XN_QueueDestroy, XN_QueueInit
<1>6. Fifo!Clear(q)
  BY <1>3 DEF Fifo!Clear, Map, XN_QueueDestroy, XN_QueueInit
<1>7. QED
  BY <1>2, <1>3, <1>5, <1>6 DEF RingInv

\* Both mutexes are held, so the two queues are not one.
LEMMA MoveStep ==
  ASSUME LockInv, RingInv, NEW t \in Threads, MoveSplices(t)
  PROVE  /\ RingInv'
         /\ Fifo!MoveAll(dst[t], src[t]) \/ UNCHANGED <<Map, out>>
<1>1. Map \in [Queues -> Seq(Elems)] /\ Rings(next, prev, Map)
  BY DEF RingInv, Rings
<1>2. src[t] \in Queues /\ dst[t] \in Queues /\ dst[t] # src[t]
  <2>1. pc[t] = "lockdst" /\ mutex[dst[t]] = NULL
    BY DEF MoveSplices, Goto, Free
  <2>2. src[t] \in Queues /\ dst[t] \in Queues
    BY <2>1 DEF LockInv, Typed, Moving
  <2>3. mutex[src[t]] = t
    BY <2>1, <2>2 DEF LockInv, Owned, Holds
  <2>4. QED
    BY <2>1, <2>2, <2>3, QueueAssumption
<1>3. CASE next[src[t]] # src[t] /\ Splice(dst[t], src[t])
  <2> DEFINE c == [Map EXCEPT ![dst[t]] = @ \o Map[src[t]], ![src[t]] = <<>>]
  <2>1. Rings(next', prev', c)
    BY <1>1, <1>2, <1>3, SpliceRings DEF Splice
  <2>2. Map' = c
    BY <2>1, MapWillBe
  <2>3. \A p \in Queues : c[p] = IF p = src[t] THEN <<>>
                                 ELSE IF p = dst[t] THEN Map[p] \o Map[src[t]] ELSE Map[p]
    BY <1>1
  <2>4. \A p \in Queues : Map[p] \in Seq(Elems) /\ num[p] = Len(Map[p]) /\ num[p] \in Nat
    BY <1>1 DEF RingInv
  <2>5. /\ Len(c[src[t]]) = 0
        /\ Len(c[dst[t]]) = num[dst[t]] + num[src[t]]
        /\ \A p \in Queues \ {src[t], dst[t]} : Len(c[p]) = num[p]
    <3> HIDE DEF c
    <3>1. c[src[t]] = <<>> /\ c[dst[t]] = Map[dst[t]] \o Map[src[t]]
      BY <1>2, <2>3
    <3>2. Len(Map[dst[t]] \o Map[src[t]]) = num[dst[t]] + num[src[t]]
      <4>1. Map[dst[t]] \in Seq(Elems) /\ Map[src[t]] \in Seq(Elems)
        BY <1>2, <2>4
      <4>2. Len(Map[dst[t]] \o Map[src[t]]) = Len(Map[dst[t]]) + Len(Map[src[t]])
        BY <4>1
      <4>3. QED
        BY <1>2, <2>4, <4>2
    <3>3. \A p \in Queues \ {src[t], dst[t]} : c[p] = Map[p]
      BY <2>3
    <3>4. QED
      BY <2>4, <3>1, <3>2, <3>3
  <2> HIDE DEF c
  <2>6. num' \in [Queues -> Nat] /\ \A p \in Queues : num'[p] = Len(c[p])
    <3>1. \A p \in Queues :
            num'[p] = IF p = src[t] THEN 0
                      ELSE IF p = dst[t] THEN num[dst[t]] + num[src[t]] ELSE num[p]
      BY <1>2, <1>3 DEF Splice, RingInv
    <3>2. num' \in [Queues -> Nat]
      <4>1. num' = [num EXCEPT ![dst[t]] = @ + num[src[t]], ![src[t]] = 0]
        BY <1>3 DEF Splice
      <4>2. num \in [Queues -> Nat]
        BY DEF RingInv
      <4>3. num[dst[t]] + num[src[t]] \in Nat
        BY <1>2, <4>2
      <4>4. QED
        BY <1>2, <4>1, <4>2, <4>3
    <3>3. ASSUME NEW p \in Queues
          PROVE  num'[p] = Len(c[p])
      <4>1. CASE p = src[t]
        BY <2>5, <3>1, <4>1
      <4>2. CASE p = dst[t]
        BY <1>2, <2>5, <3>1, <4>2
      <4>3. CASE p \notin {src[t], dst[t]}
        BY <2>5, <3>1, <4>3
      <4>4. QED
        BY <4>1, <4>2, <4>3
    <3>4. QED
      BY <3>2, <3>3
  <2>7. Fifo!MoveAll(dst[t], src[t])
    BY <1>2, <2>2 DEF Fifo!MoveAll, Map, MoveSplices, c
  <2>8. QED
    BY <2>1, <2>2, <2>6, <2>7 DEF RingInv
<1>4. CASE UNCHANGED <<list, num>>
  BY <1>4, ListsStay DEF MoveSplices, RingInv
<1>5. QED
  BY <1>3, <1>4 DEF MoveSplices

\* Waiting, locking and waking change no queue.
LEMMA QuietStep ==
  ASSUME RingInv, UNCHANGED <<list, num>>
  PROVE  RingInv' /\ Map' = Map
BY ListsStay DEF RingInv

\* What a step does to the queues
LEMMA FifoStep ==
  ASSUME LockInv, RingInv, [Next]_vars
  PROVE  RingInv' /\ [Fifo!Next]_(Fifo!fvars)
<1> USE DEF Fifo!Next, Fifo!fvars, Map
<1>1. ASSUME NEW t \in Threads, NEW q \in Queues, Calls(t, q)
      PROVE  RingInv' /\ [Fifo!Next]_(Fifo!fvars)
  <2>1. ASSUME NEW e \in Elems, XN_QueuePut(t, q, e) \/ XN_QueuePutTail(t, q, e)
        PROVE  RingInv' /\ Fifo!Next
    BY <2>1, PutStep DEF XN_QueuePutTail
  <2>2. CASE XN_QueueGet(t, q)
    BY <2>2, GetStep
  <2>3. CASE XN_QueueGetNum(t, q)
    BY <2>3, GetNumStep
  <2>4. ASSUME NEW indx \in Indexes, XN_QueueGetIndex(t, q, indx)
        PROVE  RingInv' /\ [Fifo!Next]_(Fifo!fvars)
    BY <2>4, GetIndexStep
  <2>5. CASE XN_QueueLock(t, q) \/ \E s \in Queues : CallMove(t, q, s)
    BY <2>5, QuietStep DEF XN_QueueLock, CallMove, count
  <2>6. CASE XN_QueueDestroy(t, q) \/ XN_QueueInit(t, q)
    BY <2>6, ClearStep
  <2>7. QED
    BY <1>1, <2>1, <2>2, <2>3, <2>4, <2>5, <2>6 DEF Calls
<1>2. ASSUME NEW t \in Threads, Runs(t)
      PROVE  RingInv' /\ [Fifo!Next]_(Fifo!fvars)
  <2>1. CASE GetIndexOverflows(t)
    <3>1. RingInv' /\ Map' = Map
      BY <2>1, QuietStep DEF GetIndexOverflows
    <3>2. dst[t] \in Queues
      BY <2>1 DEF GetIndexOverflows, Goto, LockInv, Typed
    <3>3. Fifo!Look(dst[t])
      BY <2>1, <3>1 DEF Fifo!Look, GetIndexOverflows, Undefined
    <3>4. QED
      BY <3>1, <3>2, <3>3
  <2>2. CASE MoveSplices(t)
    <3>1. dst[t] \in Queues /\ src[t] \in Queues
      BY <2>2 DEF MoveSplices, Goto, LockInv, Typed, Moving
    <3>2. QED
      BY <2>2, <3>1, MoveStep
  <2>3. UNCHANGED <<list, num, out>> => RingInv' /\ UNCHANGED <<Map, out>>
    BY QuietStep
  <2>4. CASE MoveLocksSrc(t) \/ MoveUnlocksSrc(t) \/ MoveUnlocksDst(t)
    BY <2>3, <2>4 DEF MoveLocksSrc, MoveUnlocksSrc, MoveUnlocksDst, count
  <2>5. CASE XN_QueueUnlock(t) \/ XN_QueueGetWait(t) \/ WakesSpuriously(t)
             \/ GetWaitReturns(t) \/ XN_QueueWakeup(t)
    BY <2>3, <2>5 DEF XN_QueueUnlock, XN_QueueGetWait, WakesSpuriously, GetWaitReturns,
       XN_QueueWakeup, count
  <2>6. QED
    BY <1>2, <2>1, <2>2, <2>4, <2>5 DEF Runs
<1>3. CASE UNCHANGED vars
  BY <1>3, QuietStep DEF vars, list
<1>4. QED
  BY <1>1, <1>2, <1>3 DEF Next

\* Of any number of queues, threads and elements: the linked rings are queues that
\* are first in, first out; what comes out of one, by XN_QueueGet or by an index,
\* is what their order says, a count is the length, an element is in one
\* queue at most, and XN_QueueMove happens at once, although it holds its two
\* mutexes over several steps.
THEOREM FifoImplemented == Spec => ImplementsFifo
<1>1. Init => Fifo!Init /\ RingInv
  BY RingsInit DEF Init, Fifo!Init, Map, None
<1>2. LockInv /\ RingInv /\ [Next]_vars => RingInv' /\ [Fifo!Next]_(Fifo!fvars)
  BY FifoStep
<1>3. QED
  BY <1>1, <1>2, LockInvariant, PTL DEF Spec, ImplementsFifo, Fifo!Spec

LEMMA RingInvariant == Spec => []RingInv
<1>1. Init => RingInv
  BY RingsInit
<1>2. LockInv /\ RingInv /\ [Next]_vars => RingInv'
  BY FifoStep
<1>3. QED
  BY <1>1, <1>2, LockInvariant, PTL DEF Spec
-----------------------------------------------------------------------------
(* What is returned, and the read positions *)

Positions ==
  /\ cur \in [Queues -> -MaxCur - 1 .. MaxCur]
  /\ \A t \in Threads : pc[t] = "walk" => cur[dst[t]] < MaxCur

Returned ==
  \/ out \in {None, Undefined}
  \/ out \in {<<"elem", e>> : e \in Elems}
  \/ out[1] = "num" /\ out[2] \in Nat

\* Whoever moves the read position of a queue finds its mutex free, so a thread that
\* goes round the ring finds the position as it left it.
LEMMA PositionsKept ==
  ASSUME LockInv, Positions, [Next]_vars
  PROVE  Positions'
<1>1. ASSUME NEW t \in Threads, NEW q \in Queues, pc[t] = "out", Free(q),
             \/ cur' = [cur EXCEPT ![q] = cur[q] - 1] /\ cur[q] > -MaxCur
             \/ cur' = [cur EXCEPT ![q] = -1]
             \/ cur' = [cur EXCEPT ![q] = cur[q] + 1] /\ cur[q] < MaxCur,
             UNCHANGED <<pc, dst>>
      PROVE  Positions'
  <2>1. \A u \in Threads : pc[u] = "walk" => dst[u] \in Queues /\ dst[u] # q
    BY <1>1, FreeMeansNobody DEF Free, Holds, LockInv, Typed
  <2>2. cur' \in [Queues -> -MaxCur - 1 .. MaxCur]
    BY <1>1, QueueAssumption DEF Positions
  <2>3. \A p \in Queues \ {q} : cur'[p] = cur[p]
    BY <1>1 DEF Positions
  <2>4. QED
    BY <1>1, <2>1, <2>2, <2>3 DEF Positions
<1>2. ASSUME NEW t \in Threads, UNCHANGED cur, pc'[t] # "walk",
             \A u \in Threads \ {t} : (pc'[u] = "walk" => pc[u] = "walk") /\ dst'[u] = dst[u]
      PROVE  Positions'
  BY <1>2 DEF Positions
<1>3. ASSUME NEW t \in Threads, NEW q \in Queues, Calls(t, q)
      PROVE  Positions'
  <2> USE DEF LockInv, Typed
  <2>1. ASSUME NEW e \in Elems, XN_QueuePut(t, q, e) \/ XN_QueuePutTail(t, q, e)
        PROVE  Positions'
    BY <1>2, <2>1 DEF XN_QueuePutTail, XN_QueuePut, Goto
  <2>2. CASE XN_QueueGet(t, q)
    <3>1. UNCHANGED <<pc, dst>> /\ pc[t] = "out" /\ Free(q)
      BY <2>2 DEF XN_QueueGet, args
    <3>2. \/ cur' = [cur EXCEPT ![q] = cur[q] - 1] /\ cur[q] > -MaxCur
          \/ cur' = [cur EXCEPT ![q] = -1]
      BY <2>2 DEF XN_QueueGet, TakeFirst, FindNone
    <3>3. CASE cur' = [cur EXCEPT ![q] = cur[q] - 1] /\ cur[q] > -MaxCur
      BY <1>1, <3>1, <3>3
    <3>4. CASE cur' = [cur EXCEPT ![q] = -1]
      BY <1>1, <3>1, <3>4
    <3>5. QED
      BY <3>2, <3>3, <3>4
  <2>3. CASE XN_QueueGetNum(t, q)
    BY <2>3 DEF XN_QueueGetNum, count, args, Positions
  <2>4. ASSUME NEW indx \in Indexes, XN_QueueGetIndex(t, q, indx)
        PROVE  Positions'
    <3>1. CASE LooksAtNone(q, indx)
      BY <3>1 DEF LooksAtNone, Positions
    <3>2. CASE LooksAt(q, indx)
      BY <1>1, <2>4, <3>2 DEF XN_QueueGetIndex, LooksAt
    <3>3. CASE GoesRound(t, q, indx)
      BY <3>3 DEF GoesRound, count, Positions
    <3>4. QED
      BY <2>4, <3>1, <3>2, <3>3 DEF XN_QueueGetIndex
  <2>5. CASE XN_QueueLock(t, q) \/ \E s \in Queues : CallMove(t, q, s)
    BY <1>2, <2>5 DEF XN_QueueLock, CallMove, Goto, count
  <2>6. CASE XN_QueueDestroy(t, q)
    BY <2>6 DEF XN_QueueDestroy, args, Positions
  <2>7. CASE XN_QueueInit(t, q)
    <3>1. \A u \in Threads : pc[u] = "walk" => dst[u] \in Queues /\ dst[u] # q
      BY <2>7, FreeMeansNobody DEF XN_QueueInit, Holds
    <3>2. cur' = [cur EXCEPT ![q] = -1] /\ UNCHANGED <<pc, dst>>
      BY <2>7 DEF XN_QueueInit, args
    <3>3. cur' \in [Queues -> -MaxCur - 1 .. MaxCur]
      BY <3>2, QueueAssumption DEF Positions
    <3>4. \A p \in Queues \ {q} : cur'[p] = cur[p]
      BY <3>2 DEF Positions
    <3>5. QED
      BY <3>1, <3>2, <3>3, <3>4 DEF Positions
  <2>8. QED
    BY <1>3, <2>1, <2>2, <2>3, <2>4, <2>5, <2>6, <2>7 DEF Calls
<1>4. ASSUME NEW t \in Threads, Runs(t)
      PROVE  Positions'
  <2> USE DEF LockInv, Typed
  <2>1. CASE GetIndexOverflows(t)
    <3> DEFINE q == dst[t]
    <3>1. /\ q \in Queues /\ mutex[q] = t /\ cur[q] < MaxCur
          /\ cur' = [cur EXCEPT ![q] = @ + 1]
          /\ pc' = [pc EXCEPT ![t] = "out"] /\ dst' = [dst EXCEPT ![t] = NULL]
      BY <2>1 DEF GetIndexOverflows, Goto, Owned, Holds, Positions
    <3>2. \A u \in Threads \ {t} : pc[u] = "walk" => dst[u] \in Queues /\ dst[u] # q
      BY <3>1 DEF Owned, Holds
    <3> HIDE DEF q
    <3>3. cur' \in [Queues -> -MaxCur - 1 .. MaxCur]
      BY <3>1, QueueAssumption DEF Positions
    <3>4. \A p \in Queues \ {q} : cur'[p] = cur[p]
      BY <3>1 DEF Positions
    <3>5. QED
      BY <3>1, <3>2, <3>3, <3>4 DEF Positions
  <2>2. CASE MoveLocksSrc(t) \/ MoveSplices(t) \/ MoveUnlocksSrc(t) \/ MoveUnlocksDst(t)
    BY <1>2, <2>2 DEF MoveLocksSrc, MoveSplices, MoveUnlocksSrc, MoveUnlocksDst, Goto, count, args
  <2>3. CASE XN_QueueUnlock(t) \/ XN_QueueGetWait(t) \/ WakesSpuriously(t) \/ GetWaitReturns(t)
    BY <1>2, <2>3 DEF XN_QueueUnlock, XN_QueueGetWait, WakesSpuriously, GetWaitReturns, Goto,
       count, args
  <2>4. CASE XN_QueueWakeup(t)
    BY <1>2, <2>4 DEF XN_QueueWakeup, count
  <2>5. QED
    BY <1>4, <2>1, <2>2, <2>3, <2>4 DEF Runs
<1>5. CASE UNCHANGED vars
  BY <1>5 DEF vars, Positions
<1>6. QED
  BY <1>3, <1>4, <1>5 DEF Next

\* What is returned is what the queues of the order give.
LEMMA ReturnedKept ==
  ASSUME RingInv, Returned, [Fifo!Next]_(Fifo!fvars)
  PROVE  Returned'
<1>1. \A q \in Queues : Map[q] \in Seq(Elems)
  BY EmptyRing
<1>2. ASSUME NEW q \in Queues, NEW e \in Elems, Fifo!Put(q, e) PROVE Returned'
  BY <1>2 DEF Fifo!Put, Returned, None
<1>3. ASSUME NEW q \in Queues, Fifo!Take(q) PROVE Returned'
  <2>1. out' = <<"elem", Head(Map[q])>> /\ Map[q] # <<>>
    BY <1>3 DEF Fifo!Take, Map
  <2>2. Head(Map[q]) \in Elems
    BY <1>1, <2>1
  <2>3. QED
    BY <2>1, <2>2 DEF Returned
<1>4. ASSUME NEW q \in Queues, Fifo!Look(q) PROVE Returned'
  <2>1. out' \in {<<"elem", e>> : e \in {Map[q][i] : i \in DOMAIN Map[q]}}
               \cup {<<"none">>, <<"undefined">>}
    BY <1>4 DEF Fifo!Look, Fifo!In, Map
  <2>2. {Map[q][i] : i \in DOMAIN Map[q]} \subseteq Elems
    BY <1>1
  <2>3. QED
    BY <2>1, <2>2 DEF Returned, None, Undefined
<1>5. ASSUME NEW q \in Queues, Fifo!Count(q) PROVE Returned'
  <2>1. out' = <<"num", Len(Map[q])>> /\ Len(Map[q]) \in Nat
    BY <1>1, <1>5 DEF Fifo!Count, Map
  <2>2. QED
    BY <2>1 DEF Returned
<1>6. ASSUME out' = out PROVE Returned'
  BY <1>6 DEF Returned
<1>7. QED
  BY <1>2, <1>3, <1>4, <1>5, <1>6 DEF Fifo!Next, Fifo!fvars, Fifo!Clear, Fifo!MoveAll

\* The types of every state; an element that is returned is one that the program
\* queued and never a queue's head, whatever was put, taken and moved.
THEOREM TypeCorrect == Spec => []TypeOK
<1>1. Init => Positions /\ Returned
  BY QueueAssumption DEF Init, Positions, Returned
<1>2. LockInv /\ RingInv /\ Positions /\ Returned /\ [Next]_vars => Positions' /\ Returned'
  BY PositionsKept, ReturnedKept, FifoStep
<1>3. LockInv /\ RingInv /\ Positions /\ Returned => TypeOK
  BY DEF LockInv, Typed, Places, RingInv, Rings, Positions, Returned, TypeOK
<1>4. QED
  BY <1>1, <1>2, <1>3, LockInvariant, RingInvariant, PTL DEF Spec
-----------------------------------------------------------------------------
(* Nobody sleeps beside a full queue *)

Wakes ==
  \A t \in Threads : pc[t] = "waiting" /\ Map[dst[t]] # <<>> =>
    \E u \in Threads : dst[u] = dst[t] /\ pc[u] \in {"wakeup", "moved", "unlockdst"}

\* A step that fills no queue, of a thread that is to wake nobody.
LEMMA NobodyToWake ==
  ASSUME Wakes, LockInv, NEW t \in Threads,
         \A q \in Queues : Map'[q] # <<>> => Map[q] # <<>>,
         pc[t] \notin {"wakeup", "moved", "unlockdst"}, pc'[t] # "waiting",
         \A u \in Threads \ {t} : pc'[u] = pc[u] /\ dst'[u] = dst[u]
  PROVE  Wakes'
<1> SUFFICES ASSUME NEW u \in Threads, pc'[u] = "waiting", Map'[dst'[u]] # <<>>
             PROVE  \E v \in Threads : dst'[v] = dst'[u] /\ pc'[v] \in {"wakeup", "moved", "unlockdst"}
  BY DEF Wakes
<1>1. u # t /\ pc[u] = "waiting" /\ dst'[u] = dst[u] /\ dst[u] \in Queues
  BY DEF LockInv, Typed
<1>2. PICK v \in Threads : dst[v] = dst[u] /\ pc[v] \in {"wakeup", "moved", "unlockdst"}
  BY <1>1 DEF Wakes
<1>3. v # t
  BY <1>2
<1>4. QED
  BY <1>1, <1>2, <1>3

\* A step of a thread that is to wake the threads that wait for q, after it.
LEMMA SomebodyWakes ==
  ASSUME Wakes, LockInv, NEW t \in Threads, NEW q \in Queues,
         \A p \in Queues \ {q} : Map'[p] # <<>> => Map[p] # <<>>,
         pc[t] \in {"wakeup", "moved", "unlockdst"} => dst[t] = q,
         dst'[t] = q, pc'[t] \in {"wakeup", "moved", "unlockdst"},
         \A u \in Threads \ {t} : pc'[u] = pc[u] /\ dst'[u] = dst[u]
  PROVE  Wakes'
<1> SUFFICES ASSUME NEW u \in Threads, pc'[u] = "waiting", Map'[dst'[u]] # <<>>
             PROVE  \E v \in Threads : dst'[v] = dst'[u] /\ pc'[v] \in {"wakeup", "moved", "unlockdst"}
  BY DEF Wakes
<1>1. u # t /\ pc[u] = "waiting" /\ dst'[u] = dst[u] /\ dst[u] \in Queues
  BY DEF LockInv, Typed
<1>2. CASE dst[u] = q
  BY <1>1, <1>2
<1>3. CASE dst[u] # q
  <2>1. PICK v \in Threads : dst[v] = dst[u] /\ pc[v] \in {"wakeup", "moved", "unlockdst"}
    BY <1>1, <1>3 DEF Wakes
  <2>2. v # t
    BY <1>3, <2>1
  <2>3. QED
    BY <1>1, <2>1, <2>2
<1>4. QED
  BY <1>2, <1>3

LEMMA CallsWake ==
  ASSUME LockInv, RingInv, Wakes, NEW t \in Threads, NEW q \in Queues, Calls(t, q)
  PROVE  Wakes'
<1> USE DEF LockInv, Typed
<1>1. Map \in [Queues -> Seq(Elems)]
  BY DEF RingInv, Rings
<1>2. ASSUME NEW e \in Elems, XN_QueuePut(t, q, e)
      PROVE  Wakes'
  <2>1. Map' = [Map EXCEPT ![q] = Append(@, e)]
    BY <1>2, PutStep DEF Fifo!Put, Map
  <2>2. \A p \in Queues \ {q} : Map'[p] = Map[p]
    BY <1>1, <2>1
  <2>3. /\ pc[t] = "out" /\ pc'[t] = "wakeup" /\ dst'[t] = q
        /\ \A u \in Threads \ {t} : pc'[u] = pc[u] /\ dst'[u] = dst[u]
    BY <1>2 DEF XN_QueuePut, Goto
  <2>4. QED
    BY <2>2, <2>3, SomebodyWakes
<1>3. ASSUME \A p \in Queues : Map'[p] # <<>> => Map[p] # <<>>,
             pc[t] = "out", pc'[t] # "waiting",
             \A u \in Threads \ {t} : pc'[u] = pc[u] /\ dst'[u] = dst[u]
      PROVE  Wakes'
  BY <1>3, NobodyToWake
<1>4. CASE XN_QueueGet(t, q)
  <2>1. (Map' = [Map EXCEPT ![q] = Tail(@)] /\ Map[q] # <<>>) \/ Map' = Map
    BY <1>4, GetStep DEF Fifo!Take, Fifo!Look, Map
  <2>2. \A p \in Queues : Map'[p] # <<>> => Map[p] # <<>>
    BY <1>1, <2>1
  <2>3. QED
    BY <1>3, <1>4, <2>2 DEF XN_QueueGet, args
<1>5. CASE XN_QueueGetNum(t, q)
  <2>1. Map' = Map
    BY <1>5, ListsStay DEF XN_QueueGetNum
  <2>2. QED
    BY <1>3, <1>5, <2>1 DEF XN_QueueGetNum, args
<1>6. ASSUME NEW indx \in Indexes, XN_QueueGetIndex(t, q, indx)
      PROVE  Wakes'
  <2>1. Map' = Map
    BY <1>6, ListsStay DEF XN_QueueGetIndex
  <2>2. pc'[t] \in {"out", "walk"} /\ \A u \in Threads \ {t} : pc'[u] = pc[u] /\ dst'[u] = dst[u]
    BY <1>6 DEF XN_QueueGetIndex, LooksAtNone, LooksAt, GoesRound
  <2>3. QED
    BY <1>3, <1>6, <2>1, <2>2 DEF XN_QueueGetIndex
<1>7. CASE XN_QueueLock(t, q) \/ \E s \in Queues : CallMove(t, q, s)
  <2>1. Map' = Map
    BY <1>7, ListsStay DEF XN_QueueLock, CallMove
  <2>2. QED
    BY <1>3, <1>7, <2>1 DEF XN_QueueLock, CallMove, Goto
<1>8. CASE XN_QueueDestroy(t, q) \/ XN_QueueInit(t, q)
  <2>1. Map' = [Map EXCEPT ![q] = <<>>]
    BY <1>8, ClearStep DEF Fifo!Clear, Map
  <2>2. \A p \in Queues : Map'[p] # <<>> => Map[p] # <<>>
    BY <1>1, <2>1
  <2>3. QED
    BY <1>3, <1>8, <2>2 DEF XN_QueueDestroy, XN_QueueInit, args
<1>9. QED
  BY <1>2, <1>4, <1>5, <1>6, <1>7, <1>8 DEF Calls, XN_QueuePutTail

LEMMA RunsWake ==
  ASSUME LockInv, RingInv, Wakes, NEW t \in Threads, Runs(t)
  PROVE  Wakes'
<1> USE DEF LockInv, Typed
<1>1. Map \in [Queues -> Seq(Elems)]
  BY DEF RingInv, Rings
<1>2. CASE MoveSplices(t)
  <2>1. src[t] \in Queues /\ dst[t] \in Queues
    BY <1>2 DEF MoveSplices, Goto, Moving
  <2>2. Map' = [Map EXCEPT ![dst[t]] = @ \o Map[src[t]], ![src[t]] = <<>>] \/ Map' = Map
    BY <1>2, MoveStep DEF Fifo!MoveAll, Map
  <2>3. \A p \in Queues \ {dst[t]} : Map'[p] # <<>> => Map[p] # <<>>
    BY <1>1, <2>1, <2>2
  <2>4. /\ pc[t] = "lockdst" /\ pc'[t] = "moved" /\ dst'[t] = dst[t]
        /\ \A u \in Threads \ {t} : pc'[u] = pc[u] /\ dst'[u] = dst[u]
    BY <1>2 DEF MoveSplices, Goto, args
  <2>5. QED
    BY <2>1, <2>3, <2>4, SomebodyWakes
<1>3. CASE UNCHANGED list
  <2>1. Map' = Map
    BY <1>3, ListsStay
  <2>2. CASE GetIndexOverflows(t) \/ MoveLocksSrc(t) \/ XN_QueueUnlock(t) \/ WakesSpuriously(t)
             \/ GetWaitReturns(t)
    <3>1. pc[t] \notin {"wakeup", "moved", "unlockdst"} /\ pc'[t] # "waiting"
      BY <2>2 DEF GetIndexOverflows, MoveLocksSrc, XN_QueueUnlock, WakesSpuriously,
         GetWaitReturns, Goto
    <3>2. \A u \in Threads \ {t} : pc'[u] = pc[u] /\ dst'[u] = dst[u]
      BY <2>2 DEF GetIndexOverflows, MoveLocksSrc, XN_QueueUnlock, WakesSpuriously,
         GetWaitReturns, Goto, args
    <3>3. QED
      BY <2>1, <3>1, <3>2, NobodyToWake
  <2>3. CASE MoveUnlocksSrc(t) \/ MoveUnlocksDst(t)
    <3>1. dst[t] \in Queues /\ dst'[t] = dst[t] /\ pc'[t] \in {"unlockdst", "wakeup"}
      BY <2>3 DEF MoveUnlocksSrc, MoveUnlocksDst, Goto, args
    <3>2. \A u \in Threads \ {t} : pc'[u] = pc[u] /\ dst'[u] = dst[u]
      BY <2>3 DEF MoveUnlocksSrc, MoveUnlocksDst, Goto, args
    <3>3. QED
      BY <2>1, <3>1, <3>2, SomebodyWakes
  <2>4. CASE XN_QueueGetWait(t)
    <3>1. /\ pc[t] = "locked" /\ pc' = [pc EXCEPT ![t] = "waiting"] /\ dst' = dst
          /\ dst[t] \in Queues /\ num[dst[t]] = 0
      BY <2>4 DEF XN_QueueGetWait, Goto, args
    <3>2. Map[dst[t]] = <<>>
      BY <3>1, EmptyRing
    <3>3. QED
      BY <2>1, <3>1, <3>2 DEF Wakes
  <2>5. CASE XN_QueueWakeup(t)
    <3> SUFFICES ASSUME NEW u \in Threads, pc'[u] = "waiting", Map'[dst'[u]] # <<>>
                 PROVE  \E v \in Threads : dst'[v] = dst'[u]
                                           /\ pc'[v] \in {"wakeup", "moved", "unlockdst"}
      BY DEF Wakes
    <3>1. u # t /\ pc[u] = "waiting" /\ dst[u] # dst[t] /\ dst'[u] = dst[u]
      BY <2>5 DEF XN_QueueWakeup
    <3>2. PICK v \in Threads : dst[v] = dst[u] /\ pc[v] \in {"wakeup", "moved", "unlockdst"}
      BY <2>1, <3>1 DEF Wakes
    <3>3. v # t /\ pc'[v] = pc[v] /\ dst'[v] = dst[v]
      BY <2>5, <3>1, <3>2 DEF XN_QueueWakeup
    <3>4. QED
      BY <3>1, <3>2, <3>3
  <2>6. QED
    BY <1>2, <2>2, <2>3, <2>4, <2>5 DEF Runs
<1>4. QED
  BY <1>2, <1>3 DEF Runs, GetIndexOverflows, MoveLocksSrc, MoveUnlocksSrc, MoveUnlocksDst,
     XN_QueueUnlock, XN_QueueGetWait, WakesSpuriously, GetWaitReturns, XN_QueueWakeup

\* Of any number of queues and threads: none sleeps on a queue that has elements unless
\* another has put or moved some there and is about to wake the sleepers.
THEOREM WakeupsArrive == Spec => []NoLostWakeup
<1>1. Init => Wakes
  BY DEF Init, Wakes
<1>2. LockInv /\ RingInv /\ Wakes /\ [Next]_vars => Wakes'
  <2> SUFFICES ASSUME LockInv, RingInv, Wakes, [Next]_vars PROVE Wakes'
    OBVIOUS
  <2>1. CASE Next
    BY <2>1, CallsWake, RunsWake DEF Next
  <2>2. CASE UNCHANGED vars
    <3>1. Map' = Map
      BY <2>2, ListsStay DEF vars, list
    <3>2. QED
      BY <2>2, <3>1 DEF vars, Wakes
  <2>3. QED
    BY <2>1, <2>2
<1>3. LockInv /\ RingInv /\ Wakes => NoLostWakeup
  <2> SUFFICES ASSUME LockInv, RingInv, Wakes,
                      NEW t \in Threads, pc[t] = "waiting", next[dst[t]] # dst[t]
               PROVE  \E u \in Threads : dst[u] = dst[t] /\ pc[u] \in {"wakeup", "moved", "unlockdst"}
    BY DEF NoLostWakeup
  <2>1. dst[t] \in Queues
    BY DEF LockInv, Typed
  <2>2. Map[dst[t]] # <<>>
    BY <2>1, EmptyRing
  <2>3. QED
    BY <2>2 DEF Wakes
<1>4. QED
  BY <1>1, <1>2, <1>3, LockInvariant, RingInvariant, PTL DEF Spec
=============================================================================
