---------------------------- MODULE CmTaskProofs ----------------------------
(* What holds of the delayed tasks for every set of tasks and threads.      *)
EXTENDS CmTask, FiniteSetTheorems, WellFoundedInduction, TLAPS

(***************************************************************************)
(* The mutex                                                               *)
(***************************************************************************)

LEMMA LockInvInit == Init => LockInv
<1>1. ASSUME Init PROVE TypeOK
  BY <1>1, TaskAssumption DEF Init, TypeOK, Nodes
<1>2. ASSUME Init PROVE WalkHoldsMutex /\ Cursors
  BY <1>2, TaskAssumption DEF Init, WalkHoldsMutex, InWalk, Cursors
<1>3. QED
  BY <1>1, <1>2 DEF LockInv

\* The two list operations keep the pointers inside the nodes.
LEMMA AddFrontType ==
  ASSUME TypeOK, NEW t \in Tasks, cm_list_add_front(t)
  PROVE  next' \in [Nodes -> Nodes] /\ prev' \in [Nodes -> Nodes]
BY DEF TypeOK, cm_list_add_front, Nodes

LEMMA DelItemType ==
  ASSUME TypeOK, NEW t \in Tasks, cm_list_del_item(t)
  PROVE  next' \in [Nodes -> Nodes] /\ prev' \in [Nodes -> Nodes]
BY DEF TypeOK, cm_list_del_item, Nodes

\* A walk that begins or goes on has both cursors on nodes and disturbs no
\* other thread's.
LEMMA BeginType ==
  ASSUME TypeOK, NEW th \in Threads, Begin(th)
  PROVE  /\ tmp' \in [Threads -> Nodes \cup {NULL}]
         /\ nxt' \in [Threads -> Nodes \cup {NULL}]
         /\ tmp'[th] \in Nodes /\ nxt'[th] \in Nodes
         /\ \A u \in Threads \ {th} : tmp'[u] = tmp[u] /\ nxt'[u] = nxt[u]
BY DEF TypeOK, Begin, Nodes

LEMMA AdvanceType ==
  ASSUME TypeOK, NEW th \in Threads, Advance(th), nxt[th] \in Nodes,
         next' \in [Nodes -> Nodes]
  PROVE  /\ tmp' \in [Threads -> Nodes \cup {NULL}]
         /\ nxt' \in [Threads -> Nodes \cup {NULL}]
         /\ tmp'[th] \in Nodes /\ nxt'[th] \in Nodes
         /\ \A u \in Threads \ {th} : tmp'[u] = tmp[u] /\ nxt'[u] = nxt[u]
BY DEF TypeOK, Advance, Nodes

\* One step of a thread preserves the lock invariant, action by action.
LEMMA StartKeepsLockInv ==
  ASSUME LockInv, NEW th \in Threads, NEW t \in Tasks,
         CallStart(th, t) \/ CallbackRearms(th)
  PROVE  LockInv'
<1>1. CASE CallStart(th, t)
  <2>1. TypeOK'
    BY <1>1, TaskAssumption
    DEF LockInv, TypeOK, CallStart, InitTask, Goto, Nodes, walk, Cursors
  <2>2. WalkHoldsMutex' /\ Cursors'
    BY <1>1, TaskAssumption
    DEF LockInv, TypeOK, WalkHoldsMutex, InWalk, Cursors, CallStart, InitTask, Goto, walk
  <2>3. QED
    BY <2>1, <2>2 DEF LockInv
<1>2. CASE CallbackRearms(th)
  <2>1. TypeOK'
    BY <1>2, TaskAssumption
    DEF LockInv, TypeOK, CallbackRearms, InitTask, Goto, Nodes, walk
  <2>2. WalkHoldsMutex' /\ Cursors'
    BY <1>2, TaskAssumption
    DEF LockInv, TypeOK, WalkHoldsMutex, InWalk, Cursors, CallbackRearms, InitTask, Goto, walk
  <2>3. QED
    BY <2>1, <2>2 DEF LockInv
<1>3. QED
  BY <1>1, <1>2

LEMMA WaitersKeepLockInv ==
  ASSUME LockInv, NEW th \in Threads,
         \/ CallPoll(th) \/ CallDeinit(th)
         \/ \E t \in Tasks : CallCancel(th, t)
  PROVE  LockInv'
BY TaskAssumption
DEF LockInv, TypeOK, WalkHoldsMutex, InWalk, Cursors, CallPoll, CallDeinit,
    CallCancel, Goto, list, walk

\* The operations that hold the mutex from lock to unlock within one step.
LEMMA ShortSectionsKeepLockInv ==
  ASSUME LockInv, NEW th \in Threads, StartLinks(th) \/ CancelUnlinks(th)
  PROVE  LockInv'
<1>1. CASE StartLinks(th)
  <2>1. arg[th] \in Tasks /\ (tmp[th] # NULL => tmp[th] \in Tasks)
    BY <1>1, TaskAssumption DEF LockInv, TypeOK, StartLinks, Goto, Cursors
  <2>2. next' \in [Nodes -> Nodes] /\ prev' \in [Nodes -> Nodes]
    BY <1>1, <2>1, AddFrontType DEF LockInv, StartLinks
  <2>3. TypeOK'
    BY <1>1, <2>1, <2>2 DEF LockInv, TypeOK, StartLinks, Goto, walk
  <2>4. WalkHoldsMutex' /\ Cursors'
    BY <1>1, TaskAssumption
    DEF LockInv, TypeOK, WalkHoldsMutex, InWalk, Cursors, StartLinks, Goto, walk
  <2>5. QED
    BY <2>3, <2>4 DEF LockInv
<1>2. CASE CancelUnlinks(th)
  <2>1. arg[th] \in Tasks
    BY <1>2 DEF LockInv, TypeOK, CancelUnlinks, Goto
  <2>2. next' \in [Nodes -> Nodes] /\ prev' \in [Nodes -> Nodes]
    BY <1>2, <2>1, DelItemType DEF LockInv, CancelUnlinks
  <2>3. TypeOK'
    BY <1>2, <2>1, <2>2 DEF LockInv, TypeOK, CancelUnlinks, Goto, walk
  <2>4. WalkHoldsMutex' /\ Cursors'
    BY <1>2, TaskAssumption
    DEF LockInv, TypeOK, WalkHoldsMutex, InWalk, Cursors, CancelUnlinks, Goto, walk
  <2>5. QED
    BY <2>3, <2>4 DEF LockInv
<1>3. QED
  BY <1>1, <1>2

\* cm_task_poll and cm_task_deinit, from the lock to the unlock.
LEMMA WalksKeepLockInv ==
  ASSUME LockInv, NEW th \in Threads,
         \/ PollLocks(th) \/ DeinitLocks(th)
         \/ PollSkips(th) \/ PollFires(th) \/ CallbackReturns(th)
         \/ DeinitUnlinks(th)
         \/ PollUnlocks(th) \/ DeinitUnlocks(th)
  PROVE  LockInv'
<1> USE DEF LockInv
<1>1. CASE PollLocks(th) \/ DeinitLocks(th)
  <2>1. TypeOK'
    BY <1>1, BeginType DEF PollLocks, DeinitLocks, Goto, TypeOK, list
  <2>2. WalkHoldsMutex' /\ Cursors'
    BY <1>1, BeginType, TaskAssumption
    DEF PollLocks, DeinitLocks, Goto, TypeOK, WalkHoldsMutex, InWalk, Cursors
  <2>3. QED
    BY <2>1, <2>2
<1>2. CASE PollSkips(th) \/ CallbackReturns(th)
  <2>1. nxt[th] \in Nodes /\ next' \in [Nodes -> Nodes] /\ Advance(th)
    BY <1>2 DEF PollSkips, CallbackReturns, Goto, TypeOK, list
  <2>2. TypeOK'
    BY <1>2, <2>1, AdvanceType DEF PollSkips, CallbackReturns, Goto, TypeOK, list
  <2>3. WalkHoldsMutex' /\ Cursors'
    BY <1>2, <2>1, AdvanceType, TaskAssumption
    DEF PollSkips, CallbackReturns, Goto, TypeOK, WalkHoldsMutex, InWalk, Cursors
  <2>4. QED
    BY <2>2, <2>3
<1>3. CASE PollFires(th)
  <2>1. tmp[th] \in Tasks
    BY <1>3 DEF PollFires, TypeOK
  <2>2. next' \in [Nodes -> Nodes] /\ prev' \in [Nodes -> Nodes]
    BY <1>3, <2>1, DelItemType DEF PollFires
  <2>3. TypeOK'
    BY <1>3, <2>1, <2>2 DEF PollFires, Goto, TypeOK, walk
  <2>4. WalkHoldsMutex' /\ Cursors'
    BY <1>3 DEF PollFires, Goto, TypeOK, WalkHoldsMutex, InWalk, Cursors, walk
  <2>5. QED
    BY <2>3, <2>4
<1>4. CASE DeinitUnlinks(th)
  <2>1. nxt[th] \in Nodes /\ Advance(th)
    BY <1>4 DEF DeinitUnlinks, TypeOK
  <2>2. next' \in [Nodes -> Nodes] /\ prev' \in [Nodes -> Nodes]
    BY <1>4, DelItemType DEF DeinitUnlinks
  <2>3. TypeOK'
    BY <1>4, <2>1, <2>2, AdvanceType DEF DeinitUnlinks, TypeOK
  <2>4. WalkHoldsMutex' /\ Cursors'
    BY <1>4, <2>1, <2>2, AdvanceType, TaskAssumption
    DEF DeinitUnlinks, TypeOK, WalkHoldsMutex, InWalk, Cursors
  <2>5. QED
    BY <2>3, <2>4
<1>5. CASE PollUnlocks(th) \/ DeinitUnlocks(th)
  <2>1. TypeOK'
    BY <1>5, TaskAssumption DEF PollUnlocks, DeinitUnlocks, Unlock, Goto, TypeOK, list
  <2>2. WalkHoldsMutex' /\ Cursors'
    BY <1>5, TaskAssumption
    DEF PollUnlocks, DeinitUnlocks, Unlock, Goto, TypeOK, WalkHoldsMutex, InWalk, Cursors
  <2>3. QED
    BY <2>1, <2>2
<1>6. QED
  BY <1>1, <1>2, <1>3, <1>4, <1>5

LEMMA LockInvInductive == LockInv /\ [Next]_vars => LockInv'
<1> SUFFICES ASSUME LockInv, [Next]_vars PROVE LockInv'
  OBVIOUS
<1>1. ASSUME NEW th \in Threads, Runs(th) PROVE LockInv'
  BY <1>1, ShortSectionsKeepLockInv, WalksKeepLockInv DEF Runs
<1>2. ASSUME NEW th \in Threads, Calls(th) PROVE LockInv'
  <2>1. CASE CallbackRearms(th)
    <3>1. tmp[th] \in Tasks
      BY <2>1, TaskAssumption DEF CallbackRearms
    <3>2. QED
      BY <2>1, <3>1, StartKeepsLockInv
  <2>2. QED
    BY <1>2, <2>1, StartKeepsLockInv, WaitersKeepLockInv DEF Calls
<1>3. ASSUME NEW t \in Tasks, Elapse(t) PROVE LockInv'
  BY <1>3 DEF Elapse, LockInv, TypeOK, WalkHoldsMutex, InWalk, Cursors, list, walk
<1>4. CASE UNCHANGED vars
  BY <1>4 DEF vars, LockInv, TypeOK, WalkHoldsMutex, InWalk, Cursors, list, walk
<1>5. QED
  BY <1>1, <1>2, <1>3, <1>4 DEF Next

\* Every variable stays in its type, and the cursors of a walk are on nodes.
THEOREM TypeCorrect == Spec => []TypeOK
BY LockInvInit, LockInvInductive, PTL DEF Spec, LockInv

\* The mutex is held by exactly the thread that walks the list, callbacks and
\* the cm_task_start inside them included.
THEOREM MutexSound == Spec => []WalkHoldsMutex
BY LockInvInit, LockInvInductive, PTL DEF Spec, LockInv

\* Only a callback that starts a task can wait for the mutex of its own thread.
THEOREM SelfWaitSound == Spec => []SelfWaitOnlyWhenRearming
<1>1. LockInv => SelfWaitOnlyWhenRearming
  BY DEF LockInv, SelfWaitOnlyWhenRearming, SelfWait, WalkHoldsMutex, InWalk, Cursors
<1>2. QED
  BY <1>1, LockInvInit, LockInvInductive, PTL DEF Spec

(***************************************************************************)
(* The list: rings of nodes, as constant operators of the two pointer      *)
(* functions, so that the facts about them apply to primed pointers too.   *)
(***************************************************************************)

\* S is closed under both pointers and they are inverse to each other on it.
Ring(nx, pv, S) ==
  \A n \in S : /\ nx[n] \in S /\ pv[nx[n]] = n
               /\ pv[n] \in S /\ nx[pv[n]] = n

\* The tasks of S are numbered upwards along next, so that every way through
\* them ends at the head: S is one ring, and no task is its own neighbour.
Ordered(nx, S) ==
  \E r \in [Nodes -> Int] :
    \A n \in S \ {ListHead} : nx[n] # ListHead => r[n] < r[nx[n]]

\* cm_list_add_front adds the item to the ring.
LEMMA AddFrontRing ==
  ASSUME NEW nx \in [Nodes -> Nodes], NEW pv \in [Nodes -> Nodes],
         NEW S \in SUBSET Nodes, ListHead \in S, Ring(nx, pv, S),
         NEW t \in Nodes, t \notin S
  PROVE  Ring([nx EXCEPT ![t] = nx[ListHead], ![ListHead] = t],
              [pv EXCEPT ![nx[ListHead]] = t, ![t] = ListHead],
              S \cup {t})
BY DEF Ring

LEMMA AddFrontOrdered ==
  ASSUME NEW nx \in [Nodes -> Nodes], NEW S \in SUBSET Nodes,
         ListHead \in S, nx[ListHead] \in S, Ordered(nx, S),
         \A n \in S : nx[n] \in S,
         NEW t \in Nodes, t \notin S
  PROVE  Ordered([nx EXCEPT ![t] = nx[ListHead], ![ListHead] = t], S \cup {t})
<1> DEFINE nx2 == [nx EXCEPT ![t] = nx[ListHead], ![ListHead] = t]
<1>1. PICK r \in [Nodes -> Int] :
        \A n \in S \ {ListHead} : nx[n] # ListHead => r[n] < r[nx[n]]
  BY DEF Ordered
<1>2. ListHead \in Nodes /\ nx[ListHead] \in Nodes
  BY DEF Nodes
<1> DEFINE r2 == [r EXCEPT ![t] = r[nx[ListHead]] - 1]
<1>3. r2 \in [Nodes -> Int]
  BY <1>2
<1>4. ASSUME NEW n \in (S \cup {t}) \ {ListHead}, nx2[n] # ListHead
      PROVE  r2[n] < r2[nx2[n]]
  <2>1. CASE n = t
    <3>1. nx2[n] = nx[ListHead] /\ nx[ListHead] # t
      BY <2>1, <1>2
    <3>2. r2[n] = r[nx[ListHead]] - 1 /\ r2[nx2[n]] = r[nx[ListHead]]
      BY <2>1, <3>1, <1>2
    <3>3. r[nx[ListHead]] \in Int
      BY <1>2
    <3>4. QED
      BY <3>2, <3>3
  <2>2. CASE n # t
    <3>1. n \in S \ {ListHead} /\ nx2[n] = nx[n] /\ nx[n] # t
      BY <2>2
    <3>2. r2[n] = r[n] /\ r2[nx2[n]] = r[nx[n]]
      BY <2>2, <3>1
    <3>3. QED
      BY <3>1, <3>2, <1>1, <1>4
  <2>3. QED
    BY <2>1, <2>2
<1>5. QED
  BY <1>3, <1>4 DEF Ordered

\* cm_list_del_item takes the item out of the ring.
LEMMA DelItemRing ==
  ASSUME NEW nx \in [Nodes -> Nodes], NEW pv \in [Nodes -> Nodes],
         NEW S \in SUBSET Nodes, Ring(nx, pv, S), NEW t \in S,
         nx[t] # t
  PROVE  Ring([nx EXCEPT ![pv[t]] = nx[t]], [pv EXCEPT ![nx[t]] = pv[t]], S \ {t})
BY DEF Ring

LEMMA DelItemOrdered ==
  ASSUME NEW nx \in [Nodes -> Nodes], NEW pv \in [Nodes -> Nodes],
         NEW S \in SUBSET Nodes, Ring(nx, pv, S), Ordered(nx, S),
         NEW t \in S, t # ListHead
  PROVE  Ordered([nx EXCEPT ![pv[t]] = nx[t]], S \ {t})
<1> DEFINE nx2 == [nx EXCEPT ![pv[t]] = nx[t]]
<1>1. PICK r \in [Nodes -> Int] :
        \A n \in S \ {ListHead} : nx[n] # ListHead => r[n] < r[nx[n]]
  BY DEF Ordered
<1>2. ASSUME NEW n \in (S \ {t}) \ {ListHead}, nx2[n] # ListHead
      PROVE  r[n] < r[nx2[n]]
  <2>1. CASE n = pv[t]
    <3>1. nx[n] = t /\ nx2[n] = nx[t]
      BY <2>1 DEF Ring
    <3>2. r[n] < r[t] /\ r[t] < r[nx[t]]
      BY <1>1, <1>2, <3>1
    <3>3. r[n] \in Int /\ r[t] \in Int /\ r[nx[t]] \in Int
      OBVIOUS
    <3>4. QED
      BY <3>1, <3>2, <3>3
  <2>2. CASE n # pv[t]
    BY <2>2, <1>1, <1>2
  <2>3. QED
    BY <2>1, <2>2
<1>3. QED
  BY <1>1, <1>2 DEF Ordered

\* No task of an ordered ring is its own successor.
LEMMA OrderedNoLoop ==
  ASSUME NEW nx \in [Nodes -> Nodes], NEW S \in SUBSET Nodes,
         Ordered(nx, S), NEW t \in S, t # ListHead
  PROVE  nx[t] # t
<1>1. PICK r \in [Nodes -> Int] :
        \A n \in S \ {ListHead} : nx[n] # ListHead => r[n] < r[nx[n]]
  BY DEF Ordered
<1>2. r[t] \in Int
  OBVIOUS
<1>3. QED
  BY <1>1, <1>2

\* Pointers of nodes outside the ring do not matter.
LEMMA RingFrame ==
  ASSUME NEW nx \in [Nodes -> Nodes], NEW pv \in [Nodes -> Nodes],
         NEW nx2 \in [Nodes -> Nodes], NEW pv2 \in [Nodes -> Nodes],
         NEW S \in SUBSET Nodes, Ring(nx, pv, S), Ordered(nx, S),
         \A n \in S : nx2[n] = nx[n] /\ pv2[n] = pv[n]
  PROVE  Ring(nx2, pv2, S) /\ Ordered(nx2, S)
<1>1. Ring(nx2, pv2, S)
  BY DEF Ring
<1>2. PICK r \in [Nodes -> Int] :
        \A n \in S \ {ListHead} : nx[n] # ListHead => r[n] < r[nx[n]]
  BY DEF Ordered
<1>3. \A n \in S \ {ListHead} : nx2[n] # ListHead => r[n] < r[nx2[n]]
  BY <1>2
<1>4. QED
  BY <1>1, <1>3 DEF Ordered

(***************************************************************************)
(* The list invariant, for programs that cancel from the polling thread.   *)
(***************************************************************************)
Live == Armed \cup {ListHead}

\* Who may be where: what CancelsFromPollLoop speaks about.
RolesOK ==
  \A th \in Threads :
    /\ pc[th] = "lockcancel" => th \in Cancellers
    /\ pc[th] \in {"lockpoll", "poll", "cb", "lockdeinit", "deinit"} => th \in Pollers
    /\ tmp[th] # NULL => th \in Pollers

\* While a call waits for the mutex its task stays what the caller believed it
\* to be, and no two threads start the same task.
CallsOK ==
  \A th \in Threads :
    /\ pc[th] = "lockcancel" => state[arg[th]] = "armed"
    /\ pc[th] = "lockstart" =>
         /\ state[arg[th]] = "starting"
         /\ \A u \in Threads : pc[u] = "lockstart" /\ arg[u] = arg[th] => u = th

ListOK == Ring(next, prev, Live) /\ Ordered(next, Live)

\* A walk stands on the list, and the successor it has read ahead is still on
\* the list when it gets there.
WalkOK ==
  \A th \in Threads :
    /\ pc[th] \in {"poll", "deinit"} => tmp[th] \in Live /\ nxt[th] = next[tmp[th]]
    /\ InWalk(th) => nxt[th] \in Live

ListInv == LockInv /\ RolesOK /\ CallsOK /\ ListOK /\ WalkOK

LEMMA LiveNodes == Live \in SUBSET Nodes /\ ListHead \in Live
BY DEF Live, Armed, Nodes

\* A walk that stands on a node of the list has its successor there as well.
LEMMA Successor ==
  ASSUME ListOK, NEW n \in Live
  PROVE  next[n] \in Live
BY DEF ListOK, Ring

LEMMA ListInvInit == Init => ListInv
<1> SUFFICES ASSUME Init PROVE ListInv
  OBVIOUS
<1>1. LockInv
  BY LockInvInit
<1>2. Live = {ListHead}
  BY DEF Init, Live, Armed
<1>3. ListOK
  <2>1. Ring(next, prev, Live)
    BY <1>2 DEF Init, Ring, Nodes
  <2>2. [n \in Nodes |-> 0] \in [Nodes -> Int]
    OBVIOUS
  <2>3. Ordered(next, Live)
    BY <1>2, <2>2 DEF Ordered
  <2>4. QED
    BY <2>1, <2>3 DEF ListOK
<1>4. RolesOK /\ CallsOK /\ WalkOK
  BY DEF Init, RolesOK, CallsOK, WalkOK, InWalk
<1>5. QED
  BY <1>1, <1>3, <1>4 DEF ListInv

\* cm_task_start writes the pointers of a task that is not in the list.
LEMMA StartKeepsListInv ==
  ASSUME ListInv, NEW th \in Threads, NEW t \in Tasks,
         CallStart(th, t) \/ (CallbackRearms(th) /\ t = tmp[th])
  PROVE  RolesOK' /\ CallsOK' /\ ListOK' /\ WalkOK'
<1>1. TypeOK /\ TypeOK' /\ InitTask(th, t) /\ pc[th] \in {"out", "cb"}
      /\ pc' = [pc EXCEPT ![th] = "lockstart"] /\ UNCHANGED <<mutex, walk>>
  <2>1. LockInv'
    BY StartKeepsLockInv DEF ListInv
  <2>2. QED
    BY <2>1 DEF ListInv, LockInv, CallStart, CallbackRearms, Goto
<1>2. Live' = Live /\ t \notin Live
  BY <1>1, TaskAssumption DEF Live, Armed, InitTask, TypeOK
<1>3. \A n \in Live : next'[n] = next[n] /\ prev'[n] = prev[n]
  BY <1>1, <1>2, LiveNodes DEF InitTask, TypeOK
<1>4. ListOK'
  BY <1>1, <1>2, <1>3, LiveNodes, RingFrame DEF ListInv, ListOK, TypeOK
<1>5. RolesOK'
  BY <1>1 DEF ListInv, RolesOK, TypeOK, walk
<1>6. CallsOK'
  BY <1>1 DEF ListInv, CallsOK, InitTask, TypeOK
<1>7. WalkOK'
  <2>1. \A u \in Threads : InWalk(u)' => InWalk(u)
    BY <1>1, TaskAssumption DEF InWalk, TypeOK, walk, ListInv, LockInv, Cursors
  <2>2. QED
    BY <1>1, <1>2, <1>3, <2>1 DEF ListInv, WalkOK, TypeOK, walk
<1>8. QED
  BY <1>4, <1>5, <1>6, <1>7

\* The steps that write neither the list nor the state of a task.
LEMMA ReadersKeepListInv ==
  ASSUME ListInv, NEW th \in Threads,
         \/ CallPoll(th) \/ CallDeinit(th)
         \/ \E t \in Tasks : CallCancel(th, t)
         \/ PollLocks(th) \/ DeinitLocks(th)
         \/ PollSkips(th) \/ CallbackReturns(th)
         \/ PollUnlocks(th) \/ DeinitUnlocks(th)
  PROVE  RolesOK' /\ CallsOK' /\ ListOK' /\ WalkOK'
<1>1. TypeOK /\ UNCHANGED <<list, state>>
  BY DEF ListInv, LockInv, CallPoll, CallDeinit, CallCancel, PollLocks, DeinitLocks,
    PollSkips, CallbackReturns, PollUnlocks, DeinitUnlocks, Unlock
<1>2. Live' = Live /\ UNCHANGED <<next, prev>>
  BY <1>1 DEF Live, Armed, list
<1>3. ListOK'
  BY <1>2 DEF ListInv, ListOK
<1>4. \A n \in Live : next[n] \in Live
  BY Successor DEF ListInv
<1>5. CASE CallPoll(th) \/ CallDeinit(th) \/ \E t \in Tasks : CallCancel(th, t)
  <2>1. RolesOK' /\ CallsOK'
    BY <1>1, <1>5 DEF ListInv, RolesOK, CallsOK, CallPoll, CallDeinit, CallCancel,
      Goto, TypeOK, walk
  <2>2. WalkOK'
    BY <1>1, <1>2, <1>5 DEF ListInv, WalkOK, InWalk, CallPoll, CallDeinit, CallCancel,
      Goto, TypeOK, walk
  <2>3. QED
    BY <1>3, <2>1, <2>2
<1>6. CASE PollLocks(th) \/ DeinitLocks(th)
  <2>1. RolesOK' /\ CallsOK'
    BY <1>1, <1>6, BeginType
    DEF ListInv, RolesOK, CallsOK, PollLocks, DeinitLocks, Goto, TypeOK
  <2>2. WalkOK'
    BY <1>1, <1>2, <1>4, <1>6, LiveNodes
    DEF ListInv, WalkOK, InWalk, PollLocks, DeinitLocks, Begin, Goto, TypeOK
  <2>3. QED
    BY <1>3, <2>1, <2>2
<1>7. CASE PollSkips(th) \/ CallbackReturns(th)
  <2>1. nxt[th] \in Nodes /\ nxt[th] \in Live /\ tmp[th] # NULL
    BY <1>1, <1>7, TaskAssumption
    DEF ListInv, WalkOK, InWalk, PollSkips, CallbackReturns, Goto, TypeOK
  <2>2. /\ tmp' = [tmp EXCEPT ![th] = nxt[th]]
        /\ nxt' = [nxt EXCEPT ![th] = next[nxt[th]]]
        /\ UNCHANGED arg
    BY <1>2, <1>7 DEF PollSkips, CallbackReturns, Advance
  <2>3. RolesOK' /\ CallsOK'
    BY <1>1, <1>7, <2>1, <2>2
    DEF ListInv, RolesOK, CallsOK, PollSkips, CallbackReturns, Goto, TypeOK
  <2>4. WalkOK'
    BY <1>1, <1>2, <1>4, <1>7, <2>1, <2>2
    DEF ListInv, WalkOK, InWalk, PollSkips, CallbackReturns, Goto, TypeOK
  <2>5. QED
    BY <1>3, <2>3, <2>4
<1>8. CASE PollUnlocks(th) \/ DeinitUnlocks(th)
  <2>1. RolesOK' /\ CallsOK'
    BY <1>1, <1>8 DEF ListInv, RolesOK, CallsOK, PollUnlocks, DeinitUnlocks, Unlock,
      Goto, TypeOK
  <2>2. WalkOK'
    BY <1>1, <1>2, <1>8 DEF ListInv, WalkOK, InWalk, PollUnlocks, DeinitUnlocks, Unlock,
      Goto, TypeOK
  <2>3. QED
    BY <1>3, <2>1, <2>2
<1>9. QED
  BY <1>5, <1>6, <1>7, <1>8

\* The task joins the list at the front; no walk is under way.
LEMMA LinkKeepsListInv ==
  ASSUME ListInv, NEW th \in Threads, StartLinks(th)
  PROVE  RolesOK' /\ CallsOK' /\ ListOK' /\ WalkOK'
<1>1. TypeOK /\ pc[th] = "lockstart" /\ arg[th] \in Tasks
  BY DEF ListInv, LockInv, TypeOK, StartLinks, Goto
<1>2. arg[th] \notin Live /\ Live' = Live \cup {arg[th]} /\ arg[th] \in Nodes
  BY <1>1, TaskAssumption DEF ListInv, CallsOK, Live, Armed, StartLinks, TypeOK, Nodes
<1>3. ListOK'
  <2>1. /\ next' = [next EXCEPT ![arg[th]] = next[ListHead], ![ListHead] = arg[th]]
        /\ prev' = [prev EXCEPT ![next[ListHead]] = arg[th], ![arg[th]] = ListHead]
    BY DEF StartLinks, cm_list_add_front
  <2>2. Ring(next', prev', Live')
    BY <1>1, <1>2, <2>1, LiveNodes, AddFrontRing DEF ListInv, ListOK, TypeOK
  <2>3. \A n \in Live : next[n] \in Live
    BY Successor DEF ListInv
  <2>4. Ordered(next', Live')
    BY <1>1, <1>2, <2>1, <2>3, LiveNodes, AddFrontOrdered DEF ListInv, ListOK, TypeOK
  <2>5. QED
    BY <2>2, <2>4 DEF ListOK
<1>4. \A u \in Threads : ~InWalk(u)
  BY TaskAssumption DEF ListInv, LockInv, WalkHoldsMutex, StartLinks
<1>5. tmp[th] = NULL /\ pc' = [pc EXCEPT ![th] = "out"] /\ UNCHANGED <<tmp, nxt>>
  BY <1>1, <1>4 DEF InWalk, StartLinks, Goto, walk
<1>6. RolesOK' /\ CallsOK'
  BY <1>1, <1>5 DEF ListInv, RolesOK, CallsOK, StartLinks, TypeOK
<1>7. WalkOK'
  BY <1>1, <1>4, <1>5 DEF WalkOK, InWalk, TypeOK
<1>8. QED
  BY <1>3, <1>6, <1>7

\* A task of the list leaves it.
LEMMA UnlinkKeepsList ==
  ASSUME ListInv, NEW t \in Armed, cm_list_del_item(t),
         state' = [state EXCEPT ![t] = "idle"]
  PROVE  /\ ListOK' /\ Live' = Live \ {t}
         /\ next[t] \in Live'
         /\ \A n \in Live' : next[n] # t => next'[n] = next[n]
<1>1. TypeOK /\ t \in Live /\ t \in Tasks /\ t # ListHead
  BY TaskAssumption DEF ListInv, LockInv, Live, Armed
<1>2. Live' = Live \ {t}
  BY <1>1 DEF Live, Armed, TypeOK
<1>3. next[t] # t /\ next[t] \in Live
  BY <1>1, LiveNodes, OrderedNoLoop, Successor DEF ListInv, ListOK, TypeOK
<1>4. /\ next' = [next EXCEPT ![prev[t]] = next[t]]
      /\ prev' = [prev EXCEPT ![next[t]] = prev[t]]
  BY DEF cm_list_del_item
<1>5. Ring(next', prev', Live')
  BY <1>1, <1>2, <1>3, <1>4, LiveNodes, DelItemRing DEF ListInv, ListOK, TypeOK
<1>6. Ordered(next', Live')
  BY <1>1, <1>2, <1>4, LiveNodes, DelItemOrdered DEF ListInv, ListOK, TypeOK
<1>7. \A n \in Live' : next[n] # t => next'[n] = next[n]
  BY <1>1, <1>2, <1>4, LiveNodes DEF ListInv, ListOK, Ring, TypeOK
<1>8. QED
  BY <1>2, <1>3, <1>5, <1>6, <1>7 DEF ListOK

\* cm_task_cancel, the firing of a task and cm_task_deinit: each unlinks a task
\* that is on the list, and no walk of another thread stands on it.
LEMMA UnlinkersKeepListInv ==
  ASSUME ListInv, CancelsFromPollLoop, NEW th \in Threads,
         CancelUnlinks(th) \/ PollFires(th) \/ DeinitUnlinks(th)
  PROVE  RolesOK' /\ CallsOK' /\ ListOK' /\ WalkOK'
<1>1. CASE CancelUnlinks(th)
  <2>1. TypeOK /\ arg[th] \in Armed /\ th \in Cancellers
    BY <1>1 DEF ListInv, LockInv, TypeOK, RolesOK, CallsOK, CancelUnlinks, Goto, Armed
  <2>2. ListOK'
    BY <1>1, <2>1, UnlinkKeepsList DEF CancelUnlinks
  <2>3. \A u \in Threads : ~InWalk(u)
    BY <1>1, TaskAssumption DEF ListInv, LockInv, WalkHoldsMutex, CancelUnlinks
  <2>4. RolesOK'
    BY <1>1, <2>1 DEF ListInv, RolesOK, CancelUnlinks, Goto, TypeOK, walk
  <2>5. ASSUME NEW u \in Threads, pc'[u] = "lockcancel" PROVE FALSE
    BY <1>1, <2>1, <2>5 DEF ListInv, RolesOK, CancelsFromPollLoop, CancelUnlinks, Goto, TypeOK
  <2>6. CallsOK'
    BY <1>1, <2>1, <2>5 DEF ListInv, CallsOK, CancelUnlinks, Goto, TypeOK, Armed
  <2>7. WalkOK'
    BY <1>1, <2>1, <2>3 DEF WalkOK, InWalk, CancelUnlinks, Goto, TypeOK, walk
  <2>8. QED
    BY <2>2, <2>4, <2>6, <2>7
<1>2. CASE PollFires(th) \/ DeinitUnlinks(th)
  <2>1. /\ TypeOK /\ tmp[th] \in Armed /\ th \in Pollers /\ InWalk(th)
        /\ pc[th] \in {"poll", "deinit"}
        /\ nxt[th] = next[tmp[th]]
    BY <1>2, TaskAssumption
    DEF ListInv, LockInv, TypeOK, RolesOK, WalkOK, InWalk, PollFires, DeinitUnlinks, Goto, Live
  <2>2. ListOK' /\ nxt[th] \in Live'
    BY <1>2, <2>1, UnlinkKeepsList DEF PollFires, DeinitUnlinks
  <2>3. \A u \in Threads \ {th} : ~InWalk(u)
    BY <2>1 DEF ListInv, LockInv, WalkHoldsMutex
  <2>4. ASSUME NEW u \in Threads, pc'[u] = "lockcancel" PROVE FALSE
    <3>1. u # th /\ pc[u] = "lockcancel"
      BY <1>2, <2>1, <2>4 DEF PollFires, DeinitUnlinks, Goto, TypeOK
    <3>2. QED
      BY <2>1, <3>1 DEF ListInv, RolesOK, CancelsFromPollLoop
  <2>5. CallsOK'
    BY <1>2, <2>1, <2>4 DEF ListInv, CallsOK, PollFires, DeinitUnlinks, Goto, TypeOK, Armed
  <2>6. CASE PollFires(th)
    <3>1. RolesOK'
      BY <2>1, <2>6 DEF ListInv, RolesOK, PollFires, Goto, TypeOK, walk
    <3>2. WalkOK'
      BY <2>1, <2>2, <2>3, <2>6 DEF WalkOK, InWalk, PollFires, Goto, TypeOK, walk
    <3>3. QED
      BY <2>2, <2>5, <3>1, <3>2
  <2>7. CASE DeinitUnlinks(th)
    <3>1. /\ tmp' = [tmp EXCEPT ![th] = nxt[th]]
          /\ nxt' = [nxt EXCEPT ![th] = next'[nxt[th]]]
          /\ UNCHANGED <<pc, mutex, arg>>
      BY <2>7 DEF DeinitUnlinks, Advance
    <3>2. next'[nxt[th]] \in Live'
      BY <2>2 DEF ListOK, Ring
    <3>3. RolesOK'
      BY <2>1, <3>1 DEF ListInv, RolesOK, TypeOK
    <3>4. WalkOK'
      BY <2>1, <2>2, <2>3, <3>1, <3>2 DEF WalkOK, InWalk, TypeOK
    <3>5. QED
      BY <2>2, <2>5, <3>3, <3>4
  <2>8. QED
    BY <1>2, <2>6, <2>7
<1>3. QED
  BY <1>1, <1>2

LEMMA ListInvInductive ==
  ASSUME CancelsFromPollLoop, ListInv, [Next]_vars
  PROVE  ListInv'
<1>1. LockInv'
  BY LockInvInductive DEF ListInv
<1>2. ASSUME NEW th \in Threads, Runs(th) PROVE RolesOK' /\ CallsOK' /\ ListOK' /\ WalkOK'
  BY <1>2, LinkKeepsListInv, UnlinkersKeepListInv, ReadersKeepListInv DEF Runs
<1>3. ASSUME NEW th \in Threads, Calls(th) PROVE RolesOK' /\ CallsOK' /\ ListOK' /\ WalkOK'
  <2>1. CASE CallbackRearms(th)
    <3>1. tmp[th] \in Tasks
      BY <2>1, TaskAssumption DEF CallbackRearms
    <3>2. QED
      BY <2>1, <3>1, StartKeepsListInv
  <2>2. QED
    BY <1>3, <2>1, StartKeepsListInv, ReadersKeepListInv DEF Calls
<1>4. ASSUME UNCHANGED <<next, prev, state, pc, arg, tmp, nxt>>
      PROVE  RolesOK' /\ CallsOK' /\ ListOK' /\ WalkOK'
  <2>1. Live' = Live /\ ListOK'
    BY <1>4 DEF ListInv, ListOK, Live, Armed
  <2>2. RolesOK' /\ CallsOK'
    BY <1>4 DEF ListInv, RolesOK, CallsOK
  <2>3. WalkOK'
    BY <1>4, <2>1 DEF ListInv, WalkOK, InWalk
  <2>4. QED
    BY <2>1, <2>2, <2>3
<1>5. (\E t \in Tasks : Elapse(t)) \/ UNCHANGED vars
        => UNCHANGED <<next, prev, state, pc, arg, tmp, nxt>>
  BY DEF Elapse, vars, list, walk
<1>6. QED
  BY <1>1, <1>2, <1>3, <1>4, <1>5 DEF Next, ListInv

\* The tasks that were started and have neither fired nor been cancelled are,
\* with the head, one ring that both pointers run through.
THEOREM ListSound ==
  ASSUME CancelsFromPollLoop
  PROVE  Spec => [](Ring(next, prev, Live) /\ Ordered(next, Live))
<1>1. ListInv /\ [Next]_vars => ListInv'
  BY ListInvInductive
<1>2. ListInv => Ring(next, prev, Live) /\ Ordered(next, Live)
  BY DEF ListInv, ListOK
<1>3. QED
  BY <1>1, <1>2, ListInvInit, PTL DEF Spec

(***************************************************************************)
(* What a walk along next meets.                                           *)
(***************************************************************************)

\* A nonempty set of numbers has a least one.
LEMMA LeastNumber ==
  ASSUME NEW T, T \subseteq Nat, T # {}
  PROVE  \E x \in T : \A y \in T : ~(y < x)
<1> DEFINE R == {p \in Nat \X Nat : p[1] < p[2]}
<1>1. IsWellFoundedOn(R, Nat)
  BY NatLessThanWellFounded DEF OpToRel
<1>2. \A a, b \in Nat : a < b => <<a, b>> \in R
  OBVIOUS
<1> HIDE DEF R
<1>3. \E x \in T : \A y \in T : ~(<<y, x>> \in R)
  BY <1>1, WFMin
<1> QED BY <1>2, <1>3

Size == Cardinality(Nodes)

LEMMA SizeOfNodes == IsFiniteSet(Nodes) /\ Size \in Nat /\ Size >= 1
<1>1. IsFiniteSet(Nodes) /\ Size \in Nat
  BY FS_AddElement, FS_CardinalityType, TaskAssumption DEF Nodes, Size
<1>2. Size # 0
  BY <1>1, FS_EmptySet DEF Nodes, Size
<1>3. QED
  BY <1>1, <1>2

\* w is the walk of nx from q.
Walks(nx, w, q) == w[0] = q /\ \A k \in 1 .. Size : w[k] = nx[w[k - 1]]

\* There is one: were there a first number of steps without, the walk of one step
\* less could go on.
IsWalk(nx, w, q, n) == w = [k \in 0 .. n |-> IF k = 0 THEN q ELSE nx[w[k - 1]]]

LEMMA WalkExists ==
  ASSUME NEW nx, NEW q, NEW N \in Nat
  PROVE  \E w : IsWalk(nx, w, q, N)
<1> DEFINE Defined(n) == \E w : IsWalk(nx, w, q, n)
           T == {n \in Nat : ~Defined(n)}
<1>1. CASE T = {}
  BY <1>1
<1>2. CASE T # {}
  <2> HIDE DEF Defined
  <2>1. PICK m \in T : \A y \in T : ~(y < m)
    BY <1>2, LeastNumber
  <2>2. CASE m = 0
    <3>1. Defined(0)
      <4> DEFINE w == [k \in 0 .. 0 |-> q]
      <4>1. w = [k \in 0 .. 0 |-> IF k = 0 THEN q ELSE nx[w[k - 1]]]
        OBVIOUS
      <4>2. QED
        BY <4>1 DEF Defined, IsWalk
    <3>2. QED
      BY <2>1, <2>2, <3>1
  <2>3. CASE m # 0
    <3>1. m - 1 \in Nat /\ Defined(m - 1)
      BY <2>1, <2>3
    <3>2. PICK v : v = [k \in 0 .. m - 1 |-> IF k = 0 THEN q ELSE nx[v[k - 1]]]
      BY <3>1 DEF Defined, IsWalk
    <3> DEFINE w == [k \in 0 .. m |-> IF k = m THEN nx[v[m - 1]] ELSE v[k]]
    <3>3. ASSUME NEW k \in 0 .. m
          PROVE  w[k] = IF k = 0 THEN q ELSE nx[w[k - 1]]
      <4>1. CASE k = m
        BY <2>1, <2>3, <4>1
      <4>2. CASE k # m
        <5>1. k \in 0 .. m - 1
          BY <2>1, <4>2
        <5>2. w[k] = v[k] /\ v[k] = IF k = 0 THEN q ELSE nx[v[k - 1]]
          BY <3>2, <4>2, <5>1
        <5>3. k # 0 => w[k - 1] = v[k - 1]
          BY <2>1, <5>1
        <5>4. QED
          BY <5>2, <5>3
      <4>3. QED
        BY <4>1, <4>2
    <3>4. w = [k \in 0 .. m |-> IF k = 0 THEN q ELSE nx[w[k - 1]]]
      BY <3>3
    <3>5. Defined(m)
      BY <3>4 DEF Defined, IsWalk
    <3>6. QED
      BY <2>1, <3>5
  <2>4. QED
    BY <2>2, <2>3
<1>3. QED
  BY <1>1, <1>2

LEMMA WalkFrom ==
  ASSUME NEW nx, NEW q
  PROVE  \E w : Walks(nx, w, q)
<1>1. PICK w : IsWalk(nx, w, q, Size)
  BY SizeOfNodes, WalkExists
<1>2. Walks(nx, w, q)
  BY <1>1, SizeOfNodes DEF Walks, IsWalk
<1>3. QED
  BY <1>2

LEMMA ChainWalks == Walks(next, Chain, ListHead)
<1>1. \E w : IsWalk(next, w, ListHead, Size)
  BY SizeOfNodes, WalkExists
<1>2. Chain = CHOOSE w : w = [k \in 0 .. Size |-> IF k = 0 THEN ListHead ELSE next[w[k - 1]]]
  BY DEF Chain, Size
<1>3. Chain = [k \in 0 .. Size |-> IF k = 0 THEN ListHead ELSE next[Chain[k - 1]]]
  BY <1>1, <1>2 DEF IsWalk
<1>4. QED
  BY <1>3, SizeOfNodes DEF Walks

\* A walk stays in a set that the pointers do not lead out of.
LEMMA WalkStays ==
  ASSUME NEW nx, NEW w, NEW q, Walks(nx, w, q), NEW S, q \in S, \A n \in S : nx[n] \in S,
         NEW k \in 0 .. Size
  PROVE  w[k] \in S
<1> DEFINE T == {n \in 0 .. Size : w[n] \notin S}
<1>1. ASSUME T # {} PROVE FALSE
  <2>1. T \subseteq Nat
    BY SizeOfNodes
  <2>2. PICK m \in T : \A y \in T : ~(y < m)
    BY <1>1, <2>1, LeastNumber
  <2>3. m # 0
    BY <2>2 DEF Walks
  <2>4. m \in 1 .. Size /\ m - 1 \in 0 .. Size /\ m - 1 < m
    BY <2>2, <2>3, SizeOfNodes
  <2>5. w[m - 1] \in S
    BY <2>2, <2>4
  <2>6. QED
    BY <2>2, <2>4, <2>5 DEF Walks
<1>2. QED
  BY <1>1

\* In an ordered set every walk comes to the head: until it does the order of its
\* nodes goes up, so it meets none twice, and there are no more than Size.
LEMMA WalkComesToHead ==
  ASSUME NEW nx \in [Nodes -> Nodes], NEW S \in SUBSET Nodes, Ordered(nx, S),
         \A n \in S : nx[n] \in S, NEW q \in S, NEW w, Walks(nx, w, q)
  PROVE  \E k \in 1 .. Size : w[k] = ListHead
<1> SUFFICES ASSUME \A k \in 1 .. Size : w[k] # ListHead
             PROVE  FALSE
  OBVIOUS
<1>1. PICK r \in [Nodes -> Int] :
        \A n \in S \ {ListHead} : nx[n] # ListHead => r[n] < r[nx[n]]
  BY DEF Ordered
<1>2. \A k \in 0 .. Size : w[k] \in S /\ w[k] \in Nodes
  BY WalkStays
<1>3. ASSUME NEW i \in 1 .. Size, NEW j \in 1 .. Size, i < j
      PROVE  r[w[i]] < r[w[j]]
  <2> DEFINE T == {n \in i + 1 .. Size : ~(r[w[i]] < r[w[n]])}
  <2>1. ASSUME T # {} PROVE FALSE
    <3>1. T \subseteq Nat
      BY SizeOfNodes
    <3>2. PICK m \in T : \A y \in T : ~(y < m)
      BY <2>1, <3>1, LeastNumber
    <3>3. m \in 1 .. Size /\ m - 1 \in 1 .. Size /\ i < m
      BY <3>2, SizeOfNodes
    <3>4. m - 1 = i \/ r[w[i]] < r[w[m - 1]]
      BY <3>2, <3>3
    <3>5. w[m - 1] \in S \ {ListHead} /\ w[m] = nx[w[m - 1]] /\ w[m] # ListHead
      BY <1>2, <3>3 DEF Walks
    <3>6. r[w[m - 1]] < r[w[m]]
      BY <1>1, <3>5
    <3>7. r[w[i]] \in Int /\ r[w[m - 1]] \in Int /\ r[w[m]] \in Int
      BY <1>2, <3>3
    <3>8. QED
      BY <3>2, <3>4, <3>6, <3>7
  <2>2. j \in i + 1 .. Size
    BY <1>3, SizeOfNodes
  <2>3. QED
    BY <2>1, <2>2
<1>4. \A i, j \in 1 .. Size : i # j => w[i] # w[j]
  <2> SUFFICES ASSUME NEW i \in 1 .. Size, NEW j \in 1 .. Size, i < j
               PROVE  w[i] # w[j]
    BY SizeOfNodes
  <2>1. r[w[i]] < r[w[j]] /\ r[w[i]] \in Int
    BY <1>2, <1>3
  <2>2. QED
    BY <2>1
<1>5. IsFiniteSet(1 .. Size) /\ Cardinality(1 .. Size) = Size
  BY FS_Interval, SizeOfNodes
<1> DEFINE T == Nodes \ {ListHead}
           f == [k \in 1 .. Size |-> w[k]]
<1>6. IsFiniteSet(T) /\ Cardinality(T) = Size - 1
  BY FS_RemoveElement, SizeOfNodes DEF Size, Nodes
<1>7. f \in [1 .. Size -> T]
  BY <1>2
<1> HIDE DEF T, f
<1>8. Cardinality(T) < Cardinality(1 .. Size)
  BY <1>5, <1>6, SizeOfNodes
<1>9. \E i, j \in 1 .. Size : i # j /\ f[i] = f[j]
  BY <1>5, <1>6, <1>7, <1>8, FS_PigeonHole
<1>10. QED
  BY <1>4, <1>9 DEF f

\* A set that contains the head and that the backward pointers do not lead out of has
\* every node from which a walk comes to the head.
LEMMA BackFromHead ==
  ASSUME NEW nx, NEW pv, NEW S, Ring(nx, pv, S), NEW M, ListHead \in M, \A n \in M : pv[n] \in M,
         NEW q \in S, NEW w, Walks(nx, w, q), NEW k \in 0 .. Size, w[k] = ListHead
  PROVE  q \in M
<1> DEFINE T == {n \in 0 .. Size : w[n] \in M}
<1>1. T \subseteq Nat /\ k \in T
  BY SizeOfNodes
<1>2. PICK m \in T : \A y \in T : ~(y < m)
  BY <1>1, LeastNumber
<1>3. CASE m = 0
  BY <1>2, <1>3 DEF Walks
<1>4. CASE m # 0
  <2>1. m \in 1 .. Size /\ m - 1 \in 0 .. Size /\ m - 1 < m
    BY <1>2, <1>4, SizeOfNodes
  <2>2. w[m - 1] \in S
    BY <2>1, WalkStays DEF Ring
  <2>3. pv[w[m]] = w[m - 1]
    BY <2>1, <2>2 DEF Walks, Ring
  <2>4. w[m - 1] \in M
    BY <1>2, <2>3
  <2>5. QED
    BY <1>2, <2>1, <2>4
<1>5. QED
  BY <1>3, <1>4

\* What the walk from the head meets, of a list that is one ordered ring.
LEMMA RingIsIntact ==
  ASSUME TypeOK, Ring(next, prev, Live), Ordered(next, Live)
  PROVE  ListIntact
<1>1. /\ next \in [Nodes -> Nodes] /\ Live \in SUBSET Nodes /\ ListHead \in Live
      /\ \A n \in Live : next[n] \in Live
  BY LiveNodes DEF TypeOK, Ring
<1>2. Walks(next, Chain, ListHead)
  BY ChainWalks
<1>3. PICK k \in 1 .. Size : Chain[k] = ListHead
  BY <1>1, <1>2, WalkComesToHead
<1>4. \A j \in 0 .. Size : Chain[j] \in Live
  BY <1>1, <1>2, WalkStays
<1>5. Linked \subseteq Live \ {ListHead}
  BY <1>4, SizeOfNodes DEF Linked, Size
<1>6. \A n \in Linked \cup {ListHead} : prev[next[n]] = n
  BY <1>1, <1>5 DEF Ring
<1>7. ASSUME NEW t \in Armed
      PROVE  t \in Linked
  <2> DEFINE M == {Chain[j] : j \in 1 .. Size}
  <2>1. ListHead \in M
    BY <1>3
  <2>2. ASSUME NEW j \in 1 .. Size
        PROVE  prev[Chain[j]] \in M
    <3>1. Chain[j] = next[Chain[j - 1]] /\ Chain[j - 1] \in Live
      BY <1>2, <1>4, SizeOfNodes DEF Walks
    <3>2. prev[Chain[j]] = Chain[j - 1]
      BY <3>1 DEF Ring
    <3>3. CASE j = 1
      BY <1>2, <2>1, <3>2, <3>3 DEF Walks
    <3>4. CASE j # 1
      BY <3>2, <3>4, SizeOfNodes
    <3>5. QED
      BY <3>3, <3>4
  <2>3. \A n \in M : prev[n] \in M
    BY <2>2
  <2>4. PICK w : Walks(next, w, t)
    BY WalkFrom
  <2>5. t \in Live /\ t # ListHead
    BY TaskAssumption DEF Live, Armed
  <2>6. \E i \in 0 .. Size : w[i] = ListHead
    <3>1. PICK i \in 1 .. Size : w[i] = ListHead
      BY <1>1, <2>4, <2>5, WalkComesToHead
    <3>2. i \in 0 .. Size
      BY SizeOfNodes
    <3>3. QED
      BY <3>1, <3>2
  <2> HIDE DEF M
  <2>7. t \in M
    BY <2>1, <2>3, <2>4, <2>5, <2>6, BackFromHead
  <2>8. QED
    BY <2>5, <2>7 DEF M, Linked, Size
<1>8. Armed = Live \ {ListHead}
  BY TaskAssumption DEF Live, Armed
<1>9. QED
  BY <1>3, <1>5, <1>6, <1>7, <1>8 DEF ListIntact, Size

\* Of any number of threads and tasks: a walk of cm_task_poll ends, meets every task
\* that was started and has neither fired nor been cancelled, and meets no other.
THEOREM ListStaysIntact ==
  ASSUME CancelsFromPollLoop
  PROVE  Spec => []ListIntact
<1>1. Spec => [](Ring(next, prev, Live) /\ Ordered(next, Live))
  BY ListSound
<1>2. TypeOK /\ Ring(next, prev, Live) /\ Ordered(next, Live) => ListIntact
  BY RingIsIntact
<1>3. QED
  BY <1>1, <1>2, TypeCorrect, PTL

(***************************************************************************)
(* The list implements the set of timers.                                  *)
(***************************************************************************)

\* A callback runs in the thread that holds the mutex.
LEMMA CalledByHolder ==
  ASSUME LockInv
  PROVE  /\ mutex = NULL => Called = {}
         /\ \A th \in Threads :
              mutex = th => Called = IF pc[th] \in {"cb", "lockstart"} /\ tmp[th] # NULL
                                     THEN {tmp[th]} ELSE {}
BY TaskAssumption DEF LockInv, WalkHoldsMutex, InWalk, Called

LEMMA InitTaskIsQuiet ==
  ASSUME ListInv, NEW th \in Threads, NEW t \in Tasks,
         CallStart(th, t) \/ (CallbackRearms(th) /\ t = tmp[th])
  PROVE  Timers!SetTime
<1>1. TypeOK /\ InitTask(th, t) /\ UNCHANGED tmp
      /\ (tmp[th] # NULL => pc[th] = "cb")
      /\ pc' = [pc EXCEPT ![th] = "lockstart"]
  BY DEF ListInv, LockInv, Cursors, CallStart, CallbackRearms, Goto, walk
<1>2. Armed' = Armed /\ t \notin Armed
  BY <1>1 DEF Armed, InitTask, TypeOK
<1>3. Called' = Called
  BY <1>1 DEF Called, TypeOK
<1>4. due' \subseteq Tasks /\ \A u \in Armed : u \in due => u \in due'
  BY <1>1, <1>2 DEF InitTask, TypeOK
<1>5. QED
  BY <1>2, <1>3, <1>4 DEF Timers!SetTime

LEMMA ReadersAreTimerSteps ==
  ASSUME ListInv, NEW th \in Threads,
         \/ CallPoll(th) \/ CallDeinit(th)
         \/ \E t \in Tasks : CallCancel(th, t)
         \/ PollLocks(th) \/ DeinitLocks(th)
         \/ PollSkips(th)
         \/ PollUnlocks(th) \/ DeinitUnlocks(th)
  PROVE  UNCHANGED Timers!tvars
<1>1. TypeOK /\ UNCHANGED <<state, due>>
  BY DEF ListInv, LockInv, CallPoll, CallDeinit, CallCancel, PollLocks, DeinitLocks,
    PollSkips, PollUnlocks, DeinitUnlocks, Unlock
<1>2. /\ pc[th] \notin {"cb", "lockstart"} /\ pc'[th] \notin {"cb", "lockstart"}
      /\ \A u \in Threads \ {th} : pc'[u] = pc[u] /\ tmp'[u] = tmp[u]
  BY <1>1 DEF TypeOK, CallPoll, CallDeinit, CallCancel, PollLocks, DeinitLocks,
    PollSkips, PollUnlocks, DeinitUnlocks, Unlock, Goto, Begin, Advance, walk
<1>3. Called' = Called
  BY <1>2 DEF Called
<1>4. QED
  BY <1>1, <1>3 DEF Timers!tvars, Armed

LEMMA CallbackReturnsIsReturn ==
  ASSUME ListInv, NEW th \in Threads, CallbackReturns(th)
  PROVE  \E t \in Tasks : Timers!Return(t)
<1>1. TypeOK /\ tmp[th] \in Tasks /\ pc[th] = "cb" /\ mutex = th /\ tmp[th] # NULL
  BY TaskAssumption
  DEF ListInv, LockInv, TypeOK, WalkHoldsMutex, InWalk, CallbackReturns, Goto
<1>2. LockInv' /\ mutex' = th /\ pc'[th] = "poll" /\ UNCHANGED <<state, due>>
  BY <1>1, WalksKeepLockInv DEF ListInv, CallbackReturns, Goto, TypeOK
<1>3. Called = {tmp[th]}
  BY <1>1, CalledByHolder DEF ListInv
<1>4. Called' = {}
  BY <1>2, TaskAssumption DEF LockInv, WalkHoldsMutex, InWalk, Called
<1>5. Timers!Return(tmp[th])
  BY <1>2, <1>3, <1>4 DEF Timers!Return, Armed
<1>6. QED
  BY <1>1, <1>5

LEMMA LinkIsStart ==
  ASSUME ListInv, NEW th \in Threads, StartLinks(th)
  PROVE  \E t \in Tasks : Timers!Start(t)
<1>1. TypeOK /\ arg[th] \in Tasks /\ state[arg[th]] = "starting" /\ tmp[th] = NULL
  BY TaskAssumption
  DEF ListInv, LockInv, TypeOK, WalkHoldsMutex, InWalk, CallsOK, StartLinks, Goto
<1>2. Armed' = Armed \cup {arg[th]} /\ arg[th] \notin Armed
  BY <1>1 DEF Armed, StartLinks, TypeOK
<1>3. Called' = Called
  BY <1>1 DEF Called, StartLinks, Goto, TypeOK, walk
<1>4. Timers!Start(arg[th])
  BY <1>2, <1>3 DEF Timers!Start, StartLinks
<1>5. QED
  BY <1>1, <1>4

LEMMA UnlinkIsFireOrCancel ==
  ASSUME ListInv, NEW th \in Threads,
         CancelUnlinks(th) \/ PollFires(th) \/ DeinitUnlinks(th)
  PROVE  \E t \in Tasks : Timers!Fire(t) \/ Timers!Cancel(t)
<1>1. CASE CancelUnlinks(th)
  <2>1. TypeOK /\ arg[th] \in Armed /\ pc[th] = "lockcancel"
    BY <1>1 DEF ListInv, LockInv, TypeOK, CallsOK, CancelUnlinks, Goto, Armed
  <2>2. Armed' = Armed \ {arg[th]} /\ UNCHANGED due
    BY <1>1, <2>1 DEF Armed, CancelUnlinks, TypeOK
  <2>3. Called' = Called
    BY <1>1, <2>1 DEF Called, CancelUnlinks, Goto, TypeOK, walk
  <2>4. QED
    BY <2>1, <2>2, <2>3 DEF Timers!Cancel, Armed
<1>2. CASE PollFires(th)
  <2>1. TypeOK /\ tmp[th] \in Armed /\ tmp[th] \in due /\ pc[th] = "poll" /\ tmp[th] # NULL
    BY <1>2, TaskAssumption DEF ListInv, LockInv, TypeOK, WalkOK, PollFires, Goto, Live
  <2>2. Armed' = Armed \ {tmp[th]} /\ UNCHANGED due
    BY <1>2, <2>1 DEF Armed, PollFires, TypeOK
  <2>3. Called' = Called \cup {tmp[th]}
    BY <1>2, <2>1 DEF Called, PollFires, Goto, TypeOK, walk
  <2>4. QED
    BY <2>1, <2>2, <2>3 DEF Timers!Fire, Armed
<1>3. CASE DeinitUnlinks(th)
  <2>1. TypeOK /\ tmp[th] \in Armed /\ pc[th] = "deinit"
    BY <1>3, TaskAssumption DEF ListInv, LockInv, TypeOK, WalkOK, DeinitUnlinks, Live
  <2>2. Armed' = Armed \ {tmp[th]} /\ UNCHANGED <<due, pc>>
    BY <1>3, <2>1 DEF Armed, DeinitUnlinks, TypeOK
  <2>3. Called' = Called
    BY <1>3, <2>1, <2>2 DEF Called, DeinitUnlinks, Advance, TypeOK
  <2>4. QED
    BY <2>1, <2>2, <2>3 DEF Timers!Cancel, Armed
<1>4. QED
  BY <1>1, <1>2, <1>3

LEMMA TimerStep ==
  ASSUME ListInv, [Next]_vars
  PROVE  [Timers!Next]_(Timers!tvars)
<1>1. ASSUME NEW th \in Threads, Runs(th) PROVE [Timers!Next]_(Timers!tvars)
  BY <1>1, ReadersAreTimerSteps, CallbackReturnsIsReturn, LinkIsStart, UnlinkIsFireOrCancel
  DEF Runs, Timers!Next
<1>2. ASSUME NEW th \in Threads, Calls(th) PROVE [Timers!Next]_(Timers!tvars)
  <2>1. CASE CallbackRearms(th)
    <3>1. tmp[th] \in Tasks
      BY <2>1, TaskAssumption DEF CallbackRearms
    <3>2. QED
      BY <2>1, <3>1, InitTaskIsQuiet DEF Timers!Next
  <2>2. QED
    BY <1>2, <2>1, InitTaskIsQuiet, ReadersAreTimerSteps DEF Calls, Timers!Next
<1>3. ASSUME NEW t \in Tasks, Elapse(t) PROVE [Timers!Next]_(Timers!tvars)
  <2>1. Armed' = Armed /\ Called' = Called
    BY <1>3 DEF Elapse, Armed, Called, walk
  <2>2. QED
    BY <1>3, <2>1 DEF Elapse, ListInv, LockInv, TypeOK, Timers!Next, Timers!SetTime
<1>4. CASE UNCHANGED vars
  BY <1>4 DEF vars, Timers!tvars, Armed, Called, walk
<1>5. QED
  BY <1>1, <1>2, <1>3, <1>4 DEF Next

\* For every set of tasks and threads: the list with its lock behaves as the
\* set of timers, if tasks are only cancelled by the thread that polls.
THEOREM TimersImplemented ==
  ASSUME CancelsFromPollLoop
  PROVE  Spec => ImplementsTimers
<1>1. Init => Timers!Init
  BY TaskAssumption DEF Init, Timers!Init, Armed, Called
<1>2. ListInv /\ [Next]_vars => ListInv'
  BY ListInvInductive
<1>3. ListInv /\ [Next]_vars => [Timers!Next]_(Timers!tvars)
  BY TimerStep
<1>4. QED
  BY <1>1, <1>2, <1>3, ListInvInit, PTL DEF Spec, ImplementsTimers, Timers!Spec
=============================================================================
