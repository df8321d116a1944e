------------------------------ MODULE TimerSet ------------------------------
(***************************************************************************)
(* What cm_task promises: a set of armed tasks.  A task fires only while   *)
(* it is armed and its time has come, and firing disarms it; a cancelled   *)
(* task does not fire.  No list, no lock, no walk.                         *)
(***************************************************************************)
CONSTANT Tasks

VARIABLES armed,    \* the tasks that may fire
          due,      \* the tasks whose time has come
          running   \* the tasks whose callback has been called and not returned

tvars == <<armed, due, running>>

Init == armed = {} /\ due \subseteq Tasks /\ running = {}

SetTime == /\ due' \subseteq Tasks
           /\ \A t \in armed : t \in due => t \in due'
           /\ UNCHANGED <<armed, running>>

Start(t) == /\ t \notin armed
            /\ armed' = armed \cup {t}
            /\ UNCHANGED <<due, running>>

Fire(t) == /\ t \in armed /\ t \in due
           /\ armed' = armed \ {t}
           /\ running' = running \cup {t}
           /\ UNCHANGED due

Return(t) == /\ t \in running
             /\ running' = running \ {t}
             /\ UNCHANGED <<armed, due>>

Cancel(t) == /\ t \in armed
             /\ armed' = armed \ {t}
             /\ UNCHANGED <<due, running>>

Next == SetTime \/ \E t \in Tasks : Start(t) \/ Fire(t) \/ Return(t) \/ Cancel(t)

Spec == Init /\ [][Next]_tvars
=============================================================================
