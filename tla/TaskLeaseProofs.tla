---------------------------- MODULE TaskLeaseProofs ----------------------------
(***************************************************************************)
(* Proofs about TaskLease. Together with the refinement (CommsStoreProofs) *)
(* they make the promises hold of the journal of any CommsStore.           *)
(***************************************************************************)
EXTENDS TaskLease, TLAPS

\* A pending task has no holder: who finds it pending takes it from nobody.
PendingIsFree == \A s \in DOMAIN task : task[s].state = "pending" => task[s].holder = NoAgent

IInv == LeaseTypeOK /\ PendingIsFree

LEMMA InvInit == Init => IInv
  BY DEF Init, IInv, LeaseTypeOK, PendingIsFree

LEMMA InvNext == ASSUME LeaseTTL \in Nat PROVE IInv /\ [Next]_vars => IInv'
<1>1. SUFFICES ASSUME IInv, [Next]_vars PROVE IInv'
  OBVIOUS
<1>. USE DEF IInv, LeaseTypeOK, PendingIsFree, Task, Closed
<1>2. CASE UNCHANGED vars
  BY <1>1, <1>2 DEF vars
<1>3. CASE Tick
  BY <1>1, <1>3 DEF Tick
<1>4. ASSUME NEW s \in Ids, Create(s) PROVE IInv'
  BY <1>1, <1>4 DEF Create, Fresh
<1>5. ASSUME NEW s \in DOMAIN task, NEW a \in Agents, NEW n \in 0 .. clock, Grant(s, a, n)
      PROVE  IInv'
  BY <1>1, <1>5, LeaseTTL \in Nat DEF Grant
<1>6. ASSUME NEW s \in DOMAIN task, NEW a \in Agents, NEW st \in Closed, Close(s, a, st)
      PROVE  IInv'
  BY <1>1, <1>6 DEF Close
<1>7. ASSUME NEW s \in DOMAIN task, Free(s) PROVE IInv'
  BY <1>1, <1>7 DEF Free, Fresh
<1>8. ASSUME NEW s \in DOMAIN task, Flag(s) PROVE IInv'
  BY <1>1, <1>8 DEF Flag
<1>. QED
  BY <1>1, <1>2, <1>3, <1>4, <1>5, <1>6, <1>7, <1>8 DEF Next

\* The inductive invariant holds throughout.
THEOREM Invariant == ASSUME LeaseTTL \in Nat PROVE Spec => []IInv
  BY InvInit, InvNext, PTL DEF Spec

\* One step, task by task: what happens to a held task and to a closed one.
LEMMA StepOfTask ==
  ASSUME IInv, [Next]_vars, NEW s \in DOMAIN task
  PROVE  /\ (task[s].holder # NoAgent /\ clock <= task[s].lease) =>
              \/ task'[s].holder = task[s].holder
              \/ task'[s].state \in Closed /\ task'[s].holder = Owner
         /\ task[s].state \in Closed => task'[s].state \in Closed
<1>. USE DEF IInv, LeaseTypeOK, PendingIsFree, Task, Closed
<1>1. CASE UNCHANGED vars \/ Tick
  BY <1>1 DEF vars, Tick
<1>2. ASSUME NEW u \in Ids, Create(u) PROVE task'[s] = task[s]
  BY <1>2 DEF Create
<1>3. ASSUME NEW u \in DOMAIN task, NEW a \in Agents, NEW n \in 0 .. clock, Grant(u, a, n)
      PROVE  /\ (task[s].holder # NoAgent /\ clock <= task[s].lease) =>
                  task'[s].holder = task[s].holder
             /\ task[s].state \in Closed => task'[s] = task[s]
  BY <1>3 DEF Grant
<1>4. ASSUME NEW u \in DOMAIN task, NEW a \in Agents, NEW st \in Closed, Close(u, a, st)
      PROVE  task'[s] = task[s] \/ (task'[s].state \in Closed /\ task'[s].holder \in {task[s].holder, Owner})
  BY <1>4 DEF Close
<1>5. ASSUME NEW u \in DOMAIN task, Free(u)
      PROVE  task'[s] = task[s] \/ (task[s].state = "claimed" /\ clock > task[s].lease)
  BY <1>5 DEF Free
<1>6. ASSUME NEW u \in DOMAIN task, Flag(u)
      PROVE  task'[s].holder = task[s].holder /\ (task[s].state \in Closed => task'[s] = task[s])
  BY <1>6 DEF Flag
<1>. QED
  BY <1>1, <1>2, <1>3, <1>4, <1>5, <1>6 DEF Next

\* A running lease is taken from its holder only by the owner closing the task.
THEOREM LeaseIsSafe == ASSUME LeaseTTL \in Nat PROVE Spec => LeaseSafe
<1> DEFINE A == \A s \in DOMAIN task :
                  (task[s].holder # NoAgent /\ clock <= task[s].lease) =>
                    \/ task'[s].holder = task[s].holder
                    \/ task'[s].state \in Closed /\ task'[s].holder = Owner
<1>1. IInv /\ [Next]_vars => [A]_vars
  BY StepOfTask
<1>2. [][A]_vars => LeaseSafe
  BY DEF LeaseSafe
<1>3. Spec => []IInv
  BY Invariant
<1>. QED
  BY <1>1, <1>2, <1>3, PTL DEF Spec

\* A closed task is never pending, claimed or overdue again.
THEOREM ClosedForGood == ASSUME LeaseTTL \in Nat PROVE Spec => ClosedStaysClosed
<1> DEFINE A == \A s \in DOMAIN task : task[s].state \in Closed => task'[s].state \in Closed
<1>1. IInv /\ [Next]_vars => [A]_vars
  BY StepOfTask
<1>2. [][A]_vars => ClosedStaysClosed
  BY DEF ClosedStaysClosed
<1>3. Spec => []IInv
  BY Invariant
<1>. QED
  BY <1>1, <1>2, <1>3, PTL DEF Spec

===============================================================================
