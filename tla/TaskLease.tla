------------------------------ MODULE TaskLease -------------------------------
(***************************************************************************)
(* What the message bus promises about tasks, without journal, index,      *)
(* lock, sweeper or restarts: a task is held by at most one agent, under a *)
(* lease that ends at a known time; while the lease runs, only its holder  *)
(* and the owner can change who holds it; once closed it stays closed.     *)
(*                                                                         *)
(* This is the lifecycle the header of comms/state.go and the tool         *)
(* descriptions of claim and resolve describe. CommsStore implements it.   *)
(***************************************************************************)
EXTENDS Integers

CONSTANTS
  Ids,        \* what a task may be called
  Agents, NoAgent, Owner, LeaseTTL,
  MaxClock    \* bound of the model

VARIABLES
  task,    \* the tasks ever posted: id -> [state, holder, lease]
  clock

vars == <<task, clock>>

Closed == {"done", "cancel"}
Task == [state : {"pending", "claimed", "overdue"} \cup Closed,
         holder : Agents \cup {NoAgent}, lease : Nat]

Fresh == [state |-> "pending", holder |-> NoAgent, lease |-> 0]

Init == task = [s \in {} |-> Fresh] /\ clock = 1

Tick == clock < MaxClock /\ clock' = clock + 1 /\ UNCHANGED task

Create(s) ==
  /\ s \notin DOMAIN task
  /\ task' = [u \in DOMAIN task \cup {s} |-> IF u = s THEN Fresh ELSE task[u]]
  /\ UNCHANGED clock

\* Granted to a as of a time n that the clock has reached.
Grant(s, a, n) ==
  /\ s \in DOMAIN task /\ n <= clock
  /\ task[s].state \notin Closed
  /\ task[s].state = "pending" \/ n > task[s].lease \/ task[s].holder = a
  /\ task' = [task EXCEPT ![s] = [state |-> "claimed", holder |-> a, lease |-> n + LeaseTTL]]
  /\ UNCHANGED clock

\* By the holder, or by the owner when there is one.
Close(s, a, st) ==
  /\ s \in DOMAIN task
  /\ a = task[s].holder \/ a = Owner
  /\ task' = [task EXCEPT ![s] = [state |-> st, holder |-> a, lease |-> 0]]
  /\ UNCHANGED clock

Free(s) ==
  /\ s \in DOMAIN task
  /\ task[s].state = "claimed" /\ clock > task[s].lease
  /\ task' = [task EXCEPT ![s] = Fresh]
  /\ UNCHANGED clock

\* Late: a flag; holder and lease stay.
Flag(s) ==
  /\ s \in DOMAIN task
  /\ task[s].state \in {"pending", "claimed"}
  /\ task' = [task EXCEPT ![s].state = "overdue"]
  /\ UNCHANGED clock

\* Any agent may hold a lease it let run out: nothing forces Free before the next
\* Grant, and a flagged task is not freed at all.
Next ==
  \/ Tick
  \/ \E s \in Ids : Create(s)
  \/ \E s \in DOMAIN task :
       \/ \E a \in Agents :
            \/ \E n \in 0 .. clock : Grant(s, a, n)
            \/ \E st \in Closed : Close(s, a, st)
       \/ Free(s) \/ Flag(s)

Spec == Init /\ [][Next]_vars

-------------------------------------------------------------------------------
LeaseTypeOK ==
  /\ clock \in Nat
  /\ DOMAIN task \subseteq Ids
  /\ task \in [DOMAIN task -> Task]

\* A running lease is never taken away from its holder, except by the owner
\* closing the task.
LeaseSafe ==
  [][\A s \in DOMAIN task :
       (task[s].holder # NoAgent /\ clock <= task[s].lease) =>
         \/ task'[s].holder = task[s].holder
         \/ task'[s].state \in Closed /\ task'[s].holder = Owner]_vars

\* A closed task is never pending, claimed or overdue again.
ClosedStaysClosed ==
  [][\A s \in DOMAIN task : task[s].state \in Closed => task'[s].state \in Closed]_vars

===============================================================================
