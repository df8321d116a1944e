------------------------------- MODULE CmTask -------------------------------
(***************************************************************************)
(* The delayed tasks of common/cm_task.c, down to the next and prev        *)
(* pointers of the intrusive list of common/cm_list.c that they sit in.    *)
(*                                                                         *)
(* Threads call cm_task_start, cm_task_cancel, cm_task_poll and            *)
(* cm_task_deinit.  list_mutex guards the list, but cm_task_start writes   *)
(* the task before it takes the mutex, and cm_task_poll calls the tasks    *)
(* while it holds it.                                                      *)
(***************************************************************************)
EXTENDS Integers, FiniteSets

CONSTANTS
  Tasks,       \* the struct cm_task objects
  ListHead,    \* &g_task_list.head
  NULL,
  Threads,
  Starters,    \* the threads that call cm_task_start outside callbacks
  Cancellers,  \* the threads that call cm_task_cancel
  Pollers,     \* the threads that call cm_task_poll and cm_task_deinit
  Rearming     \* the tasks whose callback calls cm_task_start on them again

ASSUME TaskAssumption ==
  /\ IsFiniteSet(Tasks) /\ ListHead \notin Tasks
  /\ NULL \notin Tasks \cup {ListHead} /\ NULL \notin Threads
  /\ Starters \cup Cancellers \cup Pollers \subseteq Threads
  /\ Rearming \subseteq Tasks

Nodes == Tasks \cup {ListHead}

VARIABLES
  next, prev,  \* the pointers of every node
  due,         \* tasks whose "inter" is not after the current time
  state,       \* what the program knows of each of its tasks
  mutex,       \* list_mutex: the thread that holds it, or NULL
  pc,          \* where each thread is
  arg,         \* the task a thread is starting or cancelling
  tmp, nxt     \* the cursors of cm_list_each_safe ("nxt" is the p of the code)

list == <<next, prev>>
walk == <<tmp, nxt>>
vars == <<next, prev, due, state, mutex, pc, arg, tmp, nxt>>

\* cm_task_init: the head points to itself.
Init ==
  /\ next = [n \in Nodes |-> n]
  /\ prev = [n \in Nodes |-> n]
  /\ due = {}
  /\ state = [t \in Tasks |-> "idle"]
  /\ mutex = NULL
  /\ pc = [th \in Threads |-> "out"]
  /\ arg = [th \in Threads |-> NULL]
  /\ tmp = [th \in Threads |-> NULL]
  /\ nxt = [th \in Threads |-> NULL]

Goto(th, from, to) == pc[th] = from /\ pc' = [pc EXCEPT ![th] = to]
-----------------------------------------------------------------------------
(* cm_list.c *)

cm_list_add_front(item) ==
  LET first == next[ListHead]
  IN  /\ prev' = [prev EXCEPT ![first] = item, ![item] = ListHead]
      /\ next' = [next EXCEPT ![item] = first, ![ListHead] = item]

\* Mutant: the backward pointer is not repaired.
DelItemForwardOnly(item) ==
  /\ next' = [next EXCEPT ![prev[item]] = next[item]]
  /\ UNCHANGED prev

\* The neighbours are joined; the item keeps its own, now stale, pointers.
cm_list_del_item(item) ==
  /\ prev' = [prev EXCEPT ![next[item]] = prev[item]]
  /\ next' = [next EXCEPT ![prev[item]] = next[item]]

\* Mutant: the walk starts behind the first item.
BeginSkipsFirst(th) ==
  /\ tmp' = [tmp EXCEPT ![th] = next[next[ListHead]]]
  /\ nxt' = [nxt EXCEPT ![th] = next[next[next[ListHead]]]]

\* cm_list_each_safe: the successor is read before the body runs.
Begin(th) == /\ tmp' = [tmp EXCEPT ![th] = next[ListHead]]
             /\ nxt' = [nxt EXCEPT ![th] = next[next[ListHead]]]

Advance(th) == /\ tmp' = [tmp EXCEPT ![th] = nxt[th]]
               /\ nxt' = [nxt EXCEPT ![th] = next'[nxt[th]]]
-----------------------------------------------------------------------------
(* cm_task_start: the task is initialised without the mutex *)

InitTask(th, t) ==
  /\ state[t] = "idle"
  /\ state' = [state EXCEPT ![t] = "starting"]
  /\ next' = [next EXCEPT ![t] = t] /\ prev' = [prev EXCEPT ![t] = t]
  /\ due' \in {due \ {t}, due \cup {t}}
  /\ arg' = [arg EXCEPT ![th] = t]

CallStart(th, t) ==
  /\ th \in Starters /\ Goto(th, "out", "lockstart")
  /\ InitTask(th, t)
  /\ UNCHANGED <<mutex, walk>>

\* display_result1 and display_result2 of the test start their task again.
CallbackRearms(th) ==
  /\ tmp[th] \in Rearming /\ Goto(th, "cb", "lockstart")
  /\ InitTask(th, tmp[th])
  /\ UNCHANGED <<mutex, walk>>

\* lock, cm_list_add_front, unlock.
StartLinks(th) ==
  /\ mutex = NULL
  /\ Goto(th, "lockstart", IF tmp[th] = NULL THEN "out" ELSE "cb")
  /\ cm_list_add_front(arg[th])
  /\ state' = [state EXCEPT ![arg[th]] = "armed"]
  /\ arg' = [arg EXCEPT ![th] = NULL]
  /\ UNCHANGED <<due, mutex, walk>>
-----------------------------------------------------------------------------
(* cm_task_cancel: the program cancels a task it believes to be armed, but *)
(* may have to wait for the mutex while a poll fires it                    *)

CallCancel(th, t) ==
  /\ th \in Cancellers /\ Goto(th, "out", "lockcancel")
  /\ state[t] = "armed"
  /\ arg' = [arg EXCEPT ![th] = t]
  /\ UNCHANGED <<list, due, state, mutex, walk>>

CancelUnlinks(th) ==
  /\ mutex = NULL
  /\ Goto(th, "lockcancel", "out")
  /\ cm_list_del_item(arg[th])
  /\ state' = [state EXCEPT ![arg[th]] = "idle"]
  /\ arg' = [arg EXCEPT ![th] = NULL]
  /\ UNCHANGED <<due, mutex, walk>>
-----------------------------------------------------------------------------
(* cm_task_poll *)

CallPoll(th) ==
  /\ th \in Pollers /\ Goto(th, "out", "lockpoll")
  /\ UNCHANGED <<list, due, state, mutex, arg, walk>>

\* Mutant: the result of a trylock is ignored.
PollLocksAnyway(th) ==
  /\ mutex' = th
  /\ Goto(th, "lockpoll", "poll")
  /\ Begin(th)
  /\ UNCHANGED <<list, due, state, arg>>

PollLocks(th) ==
  /\ mutex = NULL /\ mutex' = th
  /\ Goto(th, "lockpoll", "poll")
  /\ Begin(th)
  /\ UNCHANGED <<list, due, state, arg>>

PollSkips(th) ==
  /\ pc[th] = "poll" /\ tmp[th] \in Tasks \ due
  /\ UNCHANGED <<list, due, state, mutex, pc, arg>>
  /\ Advance(th)

\* Mutant: the time is not compared.
PollFiresEarly(th) ==
  /\ Goto(th, "poll", "cb") /\ tmp[th] \in Tasks
  /\ cm_list_del_item(tmp[th])
  /\ state' = [state EXCEPT ![tmp[th]] = "idle"]
  /\ UNCHANGED <<due, mutex, arg, walk>>

\* Mutant: the walk takes the head for one more task.
PollFiresHead(th) ==
  /\ Goto(th, "poll", "cb") /\ tmp[th] \in due \cup {ListHead}
  /\ cm_list_del_item(tmp[th])
  /\ state' = [state EXCEPT ![tmp[th]] = "idle"]
  /\ UNCHANGED <<due, mutex, arg, walk>>

\* The task leaves the list and its callback is called, mutex held.
PollFires(th) ==
  /\ Goto(th, "poll", "cb") /\ tmp[th] \in due
  /\ cm_list_del_item(tmp[th])
  /\ state' = [state EXCEPT ![tmp[th]] = "idle"]
  /\ UNCHANGED <<due, mutex, arg, walk>>

CallbackReturns(th) ==
  /\ Goto(th, "cb", "poll")
  /\ UNCHANGED <<list, due, state, mutex, arg>>
  /\ Advance(th)

Unlock(th, from) ==
  /\ tmp[th] = ListHead /\ Goto(th, from, "out")
  /\ mutex' = NULL
  /\ tmp' = [tmp EXCEPT ![th] = NULL] /\ nxt' = [nxt EXCEPT ![th] = NULL]
  /\ UNCHANGED <<list, due, state, arg>>

\* Mutant: an early return keeps the mutex.
PollReturnsLocked(th) ==
  /\ tmp[th] = ListHead /\ Goto(th, "poll", "out")
  /\ tmp' = [tmp EXCEPT ![th] = NULL] /\ nxt' = [nxt EXCEPT ![th] = NULL]
  /\ UNCHANGED <<list, due, state, mutex, arg>>

PollUnlocks(th) == Unlock(th, "poll")
-----------------------------------------------------------------------------
(* cm_task_deinit *)

CallDeinit(th) ==
  /\ th \in Pollers /\ Goto(th, "out", "lockdeinit")
  /\ UNCHANGED <<list, due, state, mutex, arg, walk>>

DeinitLocks(th) ==
  /\ mutex = NULL /\ mutex' = th
  /\ Goto(th, "lockdeinit", "deinit")
  /\ Begin(th)
  /\ UNCHANGED <<list, due, state, arg>>

DeinitUnlinks(th) ==
  /\ pc[th] = "deinit" /\ tmp[th] \in Tasks
  /\ cm_list_del_item(tmp[th])
  /\ state' = [state EXCEPT ![tmp[th]] = "idle"]
  /\ Advance(th)
  /\ UNCHANGED <<due, mutex, pc, arg>>

DeinitUnlocks(th) == Unlock(th, "deinit")
-----------------------------------------------------------------------------
\* Time passes: a task's "inter" is reached.
Elapse(t) ==
  /\ t \notin due
  /\ due' = due \cup {t}
  /\ UNCHANGED <<list, state, mutex, pc, arg, walk>>

\* What a thread does once it has called in: nothing here waits for the program.
Runs(th) == \/ StartLinks(th) \/ CancelUnlinks(th)
            \/ PollLocks(th) \/ PollSkips(th) \/ PollFires(th)
            \/ CallbackReturns(th) \/ PollUnlocks(th)
            \/ DeinitLocks(th) \/ DeinitUnlinks(th) \/ DeinitUnlocks(th)

Calls(th) == \/ \E t \in Tasks : CallStart(th, t) \/ CallCancel(th, t)
             \/ CallbackRearms(th) \/ CallPoll(th) \/ CallDeinit(th)

Next == \/ \E th \in Threads : Runs(th) \/ Calls(th)
        \/ \E t \in Tasks : Elapse(t)

Spec == Init /\ [][Next]_vars

\* The pollers call cm_task_poll in a loop (test main), what was called runs
\* on, and callbacks return.
FairSpec ==
  /\ Spec
  /\ \A th \in Threads : WF_vars(Runs(th))
  /\ \A th \in Pollers : SF_vars(CallPoll(th))
-----------------------------------------------------------------------------
(* Properties *)

\* Types, and which fields belong to which control state: a cursor is in use
\* exactly inside a walk or in a callback of one.
TypeOK ==
  /\ next \in [Nodes -> Nodes] /\ prev \in [Nodes -> Nodes]
  /\ due \subseteq Tasks
  /\ state \in [Tasks -> {"idle", "starting", "armed"}]
  /\ mutex \in Threads \cup {NULL}
  /\ pc \in [Threads -> {"out", "lockstart", "lockcancel", "lockpoll", "poll", "cb",
                         "lockdeinit", "deinit"}]
  /\ arg \in [Threads -> Tasks \cup {NULL}]
  /\ tmp \in [Threads -> Nodes \cup {NULL}]
  /\ nxt \in [Threads -> Nodes \cup {NULL}]
  /\ \A th \in Threads :
       /\ pc[th] = "lockcancel" => arg[th] \in Tasks
       /\ pc[th] = "lockstart" => arg[th] \in Tasks
       /\ pc[th] \in {"poll", "deinit"} => tmp[th] \in Nodes /\ nxt[th] \in Nodes
       /\ pc[th] = "cb" => tmp[th] \in Tasks /\ nxt[th] \in Nodes
       /\ tmp[th] # NULL => nxt[th] \in Nodes

\* The mutex is held by the one thread that walks the list, callbacks and what
\* they call included: two walks never overlap.
InWalk(th) == \/ pc[th] \in {"poll", "cb", "deinit"}
              \/ pc[th] = "lockstart" /\ tmp[th] # NULL
WalkHoldsMutex == \A th \in Threads : InWalk(th) <=> mutex = th

Armed == {t \in Tasks : state[t] = "armed"}

\* The nodes met from the head along next, in order; a walk that is not back
\* at the head after all the nodes never ends.
Chain[k \in 0 .. Cardinality(Nodes)] ==
  IF k = 0 THEN ListHead ELSE next[Chain[k - 1]]

Linked == {Chain[k] : k \in 1 .. Cardinality(Nodes)} \ {ListHead}

\* The list is a ring through the head in both directions, and in it are
\* exactly the tasks that were started and have neither fired nor been
\* cancelled: cm_task_poll ends, misses no task and calls none twice.
ListIntact ==
  /\ \E k \in 1 .. Cardinality(Nodes) : Chain[k] = ListHead
  /\ \A n \in Linked \cup {ListHead} : prev[next[n]] = n
  /\ Linked = Armed

\* A thread waits for the mutex it holds itself only in the callback of a task
\* that starts a task: nothing else inside cm_task.c can stop it for good.
SelfWait(th) == mutex = th /\ pc[th] \in {"lockstart", "lockcancel", "lockpoll", "lockdeinit"}
SelfWaitOnlyWhenRearming ==
  \A th \in Threads : SelfWait(th) => pc[th] = "lockstart" /\ tmp[th] \in Rearming

\* A task is only cancelled by the thread that polls: no poll of another thread
\* fires it, and no other thread cancels it, while the cancel waits for the
\* mutex.  cm_task_cancel would take a task that left the list out once more.
CancelsFromPollLoop == \A c \in Cancellers : Pollers \cup Cancellers \subseteq {c}

\* The cursors outside a walk, and in a callback that starts a task.
Cursors ==
  \A th \in Threads :
    /\ pc[th] \in {"out", "lockcancel", "lockpoll", "lockdeinit"} => tmp[th] = NULL
    /\ pc[th] = "lockstart" /\ tmp[th] # NULL => tmp[th] \in Rearming

LockInv == TypeOK /\ WalkHoldsMutex /\ Cursors

\* cm_task.c:113, test: "cm_task_start(&t1, 5000, &display_result1, d1);", in
\* the callback of t1.  The test goes on to poll until t1 has fired three
\* times, so starting a task in its callback must not block on the mutex that
\* the polling thread holds.
CallbackMayRearm == \A th \in Threads : ~SelfWait(th)

\* The task whose callback has been called by a walk that has not moved on.
Called == {tmp[th] : th \in {u \in Threads : /\ pc[u] \in {"cb", "lockstart"}
                                            /\ tmp[u] # NULL}}

Timers == INSTANCE TimerSet WITH armed <- Armed, running <- Called

\* The linked list behaves as a set of timers: a task fires only between a
\* start and the next cancel or deinit, once per start, and only when due.
ImplementsTimers == Timers!Spec

\* A due task that stays armed is called by some later poll: insertions at the
\* front and deletions during the walk do not hide it for ever.
EveryDueTaskRuns ==
  \A t \in Tasks : (state[t] = "armed" /\ t \in due) ~> (state[t] # "armed")
=============================================================================
