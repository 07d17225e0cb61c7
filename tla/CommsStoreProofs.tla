--------------------------- MODULE CommsStoreProofs ---------------------------
(***************************************************************************)
(* Proofs about CommsStore: type correctness, agreement of RAM and journal *)
(* and what follows from it. The inductive invariant says, beside the      *)
(* properties themselves, what every journal prefix guarantees to a replay *)
(* (JournalInv): state events belong to a task message of the same tenant, *)
(* "the last event" exists wherever there is one, no event reopens a       *)
(* closed task, and an event that frees a task names no holder. A second,  *)
(* IndexInv, says of the index that retention had room for each message in *)
(* it, and that it has all of its tenant's that came after.                *)
(***************************************************************************)
EXTENDS CommsStore, TLAPS, SequenceTheorems, FiniteSetTheorems

\* What the events of journal j say about the tasks.
EventsOwned(j) ==
  \A e \in DOMAIN j : j[e].type = "state" =>
    j[e].task \in DOMAIN j /\ IsTask(j, j[e].task) /\ j[e].tenant = j[j[e].task].tenant

\* m is the last element of E.
IsLast(E, m) == m \in E /\ \A f \in E : f <= m

LastsExist(j) ==
  /\ \A s \in DOMAIN j : StateEvents(j, s) # {} => \E m \in StateEvents(j, s) : IsLast(StateEvents(j, s), m)
  /\ \A b \in Blobs, t \in Tenants :
       PinEvents(j, b, t) # {} => \E m \in PinEvents(j, b, t) : IsLast(PinEvents(j, b, t), m)

ClosedForever(j) ==
  \A e, f \in DOMAIN j :
    /\ e < f
    /\ j[e].type = "state" /\ j[f].type = "state"
    /\ j[e].task = j[f].task
    /\ j[e].state \in Terminal
    => j[f].state \in Terminal

\* An event that frees a task names no holder.
FreeIsUnheld(j) ==
  \A e \in DOMAIN j : (j[e].type = "state" /\ j[e].state = "pending") => j[e].by = NoAgent

JournalInv(j) == EventsOwned(j) /\ LastsExist(j) /\ ClosedForever(j) /\ FreeIsUnheld(j)

IInv == TypeOK /\ ReplayAgrees /\ JournalInv(journal)

-------------------------------------------------------------------------------
(***************************************************************************)
(* Appending a record to a journal.                                        *)
(***************************************************************************)

\* The old records keep their places, the new one comes after all of them.
LEMMA Grown ==
  ASSUME NEW j \in Seq(Record), NEW r \in Record
  PROVE  LET k == Append(j, r)
             n == Len(j) + 1
         IN /\ k \in Seq(Record)
            /\ Len(j) \in Nat /\ Len(k) = n
            /\ DOMAIN j = 1 .. Len(j) /\ DOMAIN k = DOMAIN j \cup {n}
            /\ n \notin DOMAIN j /\ n \in Nat
            /\ \A i \in DOMAIN j : i \in Nat /\ i < n /\ k[i] = j[i] /\ j[i] \in Record
            /\ k[n] = r
  OBVIOUS

\* LastOf is what its name says, wherever there is a last element.
LEMMA LastOfIsLast ==
  ASSUME NEW E, \E m \in E : IsLast(E, m)
  PROVE  IsLast(E, LastOf(E))
  BY DEF IsLast, LastOf

\* A last element that comes after all others is the one LastOf picks.
LEMMA LastOfIs ==
  ASSUME NEW E \in SUBSET Nat, NEW m, IsLast(E, m)
  PROVE  LastOf(E) = m
<1>1. IsLast(E, LastOf(E))
  BY LastOfIsLast, IsLast(E, m) DEF IsLast
<1>2. LastOf(E) \in Nat /\ m \in Nat /\ LastOf(E) <= m /\ m <= LastOf(E)
  BY <1>1 DEF IsLast
<1>. QED
  BY <1>2

\* The state events of a task after an append.
LEMMA StateEventsGrown ==
  ASSUME NEW j \in Seq(Record), NEW r \in Record, NEW s \in DOMAIN j
  PROVE  StateEvents(Append(j, r), s) =
           IF r.type = "state" /\ r.task = s /\ r.tenant = j[s].tenant
           THEN StateEvents(j, s) \cup {Len(j) + 1}
           ELSE StateEvents(j, s)
  BY Grown DEF StateEvents

LEMMA PinEventsGrown ==
  ASSUME NEW j \in Seq(Record), NEW r \in Record, NEW b, NEW t
  PROVE  PinEvents(Append(j, r), b, t) =
           IF r.type = "pin" /\ r.blob = b /\ r.tenant = t
           THEN PinEvents(j, b, t) \cup {Len(j) + 1}
           ELSE PinEvents(j, b, t)
  BY Grown DEF PinEvents

\* An event of another kind, or of another task, changes no replay of s.
LEMMA ReplayOther ==
  ASSUME NEW j \in Seq(Record), NEW r \in Record, NEW s \in DOMAIN j,
         LastsExist(j),
         ~(r.type = "state" /\ r.task = s /\ r.tenant = j[s].tenant)
  PROVE  Replayed(Append(j, r), s) = Replayed(j, s)
<1>1. StateEvents(Append(j, r), s) = StateEvents(j, s)
  BY StateEventsGrown
<1>2. StateEvents(j, s) # {} => LastOf(StateEvents(j, s)) \in DOMAIN j
  BY LastOfIsLast, ZenonT(60) DEF LastsExist, IsLast, StateEvents
<1>. QED
  BY <1>1, <1>2, Grown DEF Replayed

\* A state event of s is what a replay of s ends with.
LEMMA ReplayThis ==
  ASSUME NEW j \in Seq(Record), NEW r \in Record, NEW s \in DOMAIN j,
         r.type = "state", r.task = s, r.tenant = j[s].tenant
  PROVE  Replayed(Append(j, r), s) =
           [state |-> r.state, holder |-> r.by, lease |-> r.lease, due |-> j[s].due]
<1> DEFINE k == Append(j, r)
           n == Len(j) + 1
           E == StateEvents(k, s)
<1>1. E = StateEvents(j, s) \cup {n}
  BY StateEventsGrown
<1>2. IsLast(E, n) /\ E \in SUBSET Nat
  BY <1>1, Grown DEF IsLast, StateEvents
<1>3. LastOf(E) = n
  BY <1>2, LastOfIs
<1>. QED
  BY <1>1, <1>3, Grown DEF Replayed

\* What a replay returns is a task state.
LEMMA ReplayType ==
  ASSUME NEW j \in Seq(Record), NEW s \in DOMAIN j, LastsExist(j), IsTask(j, s)
  PROVE  Replayed(j, s) \in TaskState
<1> DEFINE E == StateEvents(j, s)
           r == j[LastOf(E)]
<1>1. j[s] \in MessageRec
  BY DEF IsTask, IsMessage, Record, MessageRec, StateRec, ClearRec, PinRec
<1>2. CASE E = {}
  BY <1>1, <1>2 DEF Replayed, Pending, TaskState, States, MessageRec
<1>3. CASE E # {}
  <2>1. LastOf(E) \in E
    BY <1>3, LastOfIsLast DEF LastsExist, IsLast
  <2>2. r \in StateRec
    BY <2>1 DEF StateEvents, Record, MessageRec, StateRec, ClearRec, PinRec
  <2>. QED
    BY <1>1, <1>3, <2>2 DEF Replayed, TaskState, StateRec, MessageRec
<1>. QED
  BY <1>2, <1>3

\* The replay of a task that has been closed is closed.
LEMMA ReplayClosed ==
  ASSUME NEW j \in Seq(Record), JournalInv(j),
         NEW e \in DOMAIN j, j[e].type = "state", j[e].state \in Terminal
  PROVE  Replayed(j, j[e].task).state \in Terminal
<1> DEFINE s == j[e].task
           E == StateEvents(j, s)
           m == LastOf(E)
<1>1. s \in DOMAIN j /\ e \in E
  BY DEF JournalInv, EventsOwned, StateEvents
<1>2. IsLast(E, m)
  BY <1>1, LastOfIsLast DEF JournalInv, LastsExist
<1>3. j[m].type = "state" /\ j[m].task = s /\ m \in DOMAIN j /\ e <= m
  BY <1>1, <1>2 DEF IsLast, StateEvents
<1>4. j[m].state \in Terminal
  <2>1. e \in Nat /\ m \in Nat
    BY <1>3
  <2>2. CASE e = m
    BY <2>2
  <2>3. CASE e < m
    BY <1>3, <2>3 DEF JournalInv, ClosedForever
  <2>. QED
    BY <1>3, <2>1, <2>2, <2>3
<1>. QED
  BY <1>1, <1>4 DEF Replayed

\* An append keeps a journal good if a state event is about a task of the same
\* tenant, does not reopen a task whose replay is closed, and frees it properly.
LEMMA JournalInvGrown ==
  ASSUME NEW j \in Seq(Record), NEW r \in Record, JournalInv(j),
         r.type = "state" =>
           /\ IsTask(j, r.task) /\ r.tenant = j[r.task].tenant
           /\ Replayed(j, r.task).state \in Terminal => r.state \in Terminal
           /\ r.state = "pending" => r.by = NoAgent
  PROVE  JournalInv(Append(j, r))
<1> DEFINE k == Append(j, r)
           n == Len(j) + 1
<1>1. /\ DOMAIN k = DOMAIN j \cup {n} /\ n \notin DOMAIN j /\ n \in Nat /\ k[n] = r
      /\ \A i \in DOMAIN j : i \in Nat /\ i < n /\ k[i] = j[i]
  BY Grown
<1>2. EventsOwned(k)
  BY <1>1 DEF JournalInv, EventsOwned, IsTask, IsMessage
<1>3. LastsExist(k)
  <2>1. ASSUME NEW s \in DOMAIN k, StateEvents(k, s) # {}
        PROVE  \E m \in StateEvents(k, s) : IsLast(StateEvents(k, s), m)
    <3>1. CASE s = n
      <4>1. \A e \in DOMAIN k : k[e].type = "state" => k[e].task # n
        BY <1>1, <1>2 DEF JournalInv, EventsOwned, IsTask, IsMessage
      <4>. QED
        BY <2>1, <3>1, <4>1 DEF StateEvents
    <3>2. CASE s \in DOMAIN j /\ StateEvents(k, s) = StateEvents(j, s)
      BY <2>1, <3>2 DEF JournalInv, LastsExist
    <3>3. CASE s \in DOMAIN j /\ StateEvents(k, s) = StateEvents(j, s) \cup {n}
      <4>1. IsLast(StateEvents(k, s), n)
        BY <1>1, <3>3 DEF IsLast, StateEvents
      <4>. QED
        BY <4>1 DEF IsLast
    <3>. QED
      BY <1>1, <3>1, <3>2, <3>3, StateEventsGrown
  <2>2. ASSUME NEW b \in Blobs, NEW t \in Tenants, PinEvents(k, b, t) # {}
        PROVE  \E m \in PinEvents(k, b, t) : IsLast(PinEvents(k, b, t), m)
    <3>1. CASE PinEvents(k, b, t) = PinEvents(j, b, t)
      BY <2>2, <3>1 DEF JournalInv, LastsExist
    <3>2. CASE PinEvents(k, b, t) = PinEvents(j, b, t) \cup {n}
      <4>1. IsLast(PinEvents(k, b, t), n)
        BY <1>1, <3>2 DEF IsLast, PinEvents
      <4>. QED
        BY <4>1 DEF IsLast
    <3>. QED
      BY <3>1, <3>2, PinEventsGrown
  <2>. QED
    BY <2>1, <2>2 DEF LastsExist
<1>4. ClosedForever(k)
  <2>1. SUFFICES ASSUME NEW e \in DOMAIN k, NEW f \in DOMAIN k, e < f,
                        k[e].type = "state", k[f].type = "state",
                        k[e].task = k[f].task, k[e].state \in Terminal
                 PROVE  k[f].state \in Terminal
    BY DEF ClosedForever
  <2>2. e \in DOMAIN j /\ k[e] = j[e]
    BY <1>1, <2>1
  <2>3. CASE f \in DOMAIN j
    BY <1>1, <2>1, <2>2, <2>3 DEF JournalInv, ClosedForever
  <2>4. CASE f = n
    <3>1. Replayed(j, j[e].task).state \in Terminal
      BY <2>1, <2>2, ReplayClosed
    <3>. QED
      BY <1>1, <2>1, <2>2, <2>4, <3>1
  <2>. QED
    BY <1>1, <2>3, <2>4
<1>5. FreeIsUnheld(k)
  BY <1>1 DEF JournalInv, FreeIsUnheld
<1>. QED
  BY <1>2, <1>3, <1>4, <1>5 DEF JournalInv

\* A pin event decides for its pair; every other append leaves the pair alone.
LEMMA PinOnGrown ==
  ASSUME NEW j \in Seq(Record), NEW r \in Record, LastsExist(j),
         NEW b \in Blobs, NEW t \in Tenants
  PROVE  PinOn(Append(j, r), b, t) <=>
           IF r.type = "pin" /\ r.blob = b /\ r.tenant = t THEN r.on ELSE PinOn(j, b, t)
<1> DEFINE k == Append(j, r)
           n == Len(j) + 1
<1>1. CASE ~(r.type = "pin" /\ r.blob = b /\ r.tenant = t)
  <2>1. PinEvents(k, b, t) = PinEvents(j, b, t)
    BY <1>1, PinEventsGrown
  <2>2. PinEvents(j, b, t) # {} => LastOf(PinEvents(j, b, t)) \in DOMAIN j
    BY LastOfIsLast DEF LastsExist, IsLast, PinEvents
  <2>. QED
    BY <1>1, <2>1, <2>2, Grown DEF PinOn
<1>2. CASE r.type = "pin" /\ r.blob = b /\ r.tenant = t
  <2>1. PinEvents(k, b, t) = PinEvents(j, b, t) \cup {n}
    BY <1>2, PinEventsGrown
  <2>2. IsLast(PinEvents(k, b, t), n) /\ PinEvents(k, b, t) \in SUBSET Nat
    BY <2>1, Grown DEF IsLast, PinEvents
  <2>3. LastOf(PinEvents(k, b, t)) = n
    BY <2>2, LastOfIs
  <2>. QED
    BY <1>2, <2>1, <2>3, Grown DEF PinOn
<1>. QED
  BY <1>1, <1>2

LEMMA ReplayedPinsOther ==
  ASSUME NEW j \in Seq(Record), NEW r \in Record, LastsExist(j), r.type # "pin"
  PROVE  ReplayedPins(Append(j, r)) = ReplayedPins(j)
<1>1. \A b \in Blobs, t \in Tenants : PinOn(Append(j, r), b, t) <=> PinOn(j, b, t)
  BY PinOnGrown
<1>. QED
  BY <1>1 DEF ReplayedPins

LEMMA ReplayedPinsThis ==
  ASSUME NEW j \in Seq(Record), NEW r \in PinRec, LastsExist(j)
  PROVE  ReplayedPins(Append(j, r)) =
           IF r.on THEN ReplayedPins(j) \cup {<<r.blob, r.tenant>>}
           ELSE ReplayedPins(j) \ {<<r.blob, r.tenant>>}
<1>1. r.blob \in Blobs /\ r.tenant \in Tenants /\ r \in Record /\ r.type = "pin"
  BY DEF Record, PinRec
<1>2. \A b \in Blobs, t \in Tenants :
        PinOn(Append(j, r), b, t) <=>
          IF r.blob = b /\ r.tenant = t THEN r.on ELSE PinOn(j, b, t)
  BY <1>1, PinOnGrown
<1>. QED
  BY <1>1, <1>2 DEF ReplayedPins

-------------------------------------------------------------------------------
(***************************************************************************)
(* Type correctness. It needs LastsExist, which gives a replay its type.   *)
(***************************************************************************)

\* What the map of task states is made of, and the positions it may use.
TasksOK(j, f) ==
  /\ DOMAIN f \subseteq {s \in DOMAIN j : IsTask(j, s)}
  /\ f \in [DOMAIN f -> TaskState]

LEMMA TypeInit == Init => TypeOK
  BY DEF Init, TypeOK, Pending, TaskState, Call

LEMMA StateEventType ==
  ASSUME NEW t \in Tenants, NEW s \in Nat, NEW st \in States,
         NEW a \in Agents \cup {NoAgent}, NEW l \in Nat
  PROVE  /\ StateEvent(t, s, st, a, l) \in Record
         /\ StateEvent(t, s, st, a, l).type = "state"
         /\ StateEvent(t, s, st, a, l).task = s
         /\ StateEvent(t, s, st, a, l).tenant = t
         /\ StateEvent(t, s, st, a, l).state = st
         /\ StateEvent(t, s, st, a, l).by = a
         /\ StateEvent(t, s, st, a, l).lease = l
  BY DEF StateEvent, Record, StateRec

LEMMA StampedType ==
  ASSUME TypeOK, NEW p \in Posts
  PROVE  /\ Stamped(p) \in MessageRec /\ Stamped(p) \in Record
         /\ Stamped(p).type = "message" /\ Stamped(p).kind = p.kind
  BY ConstantsAssumption DEF TypeOK, Stamped, Shape, Record, MessageRec, Kinds

\* The messages and tasks of a journal keep their places when it grows.
LEMMA MessagesGrown ==
  ASSUME NEW j \in Seq(Record), NEW r \in Record
  PROVE  /\ \A s \in DOMAIN j : /\ IsMessage(Append(j, r), s) <=> IsMessage(j, s)
                                /\ IsTask(Append(j, r), s) <=> IsTask(j, s)
         /\ {s \in DOMAIN j : j[s].type = "message"}
              \subseteq {s \in DOMAIN Append(j, r) : Append(j, r)[s].type = "message"}
         /\ \A f : TasksOK(j, f) => TasksOK(Append(j, r), f)
<1>1. \A s \in DOMAIN j : s \in DOMAIN Append(j, r) /\ Append(j, r)[s] = j[s]
  BY Grown
<1>. QED
  BY <1>1 DEF IsMessage, IsTask, TasksOK

\* The tenant under which a task is filed.
LEMMA TenantType ==
  ASSUME TypeOK, NEW s \in DOMAIN tasks
  PROVE  /\ s \in DOMAIN journal /\ s \in Nat /\ IsTask(journal, s)
         /\ TenantOf(s) \in Tenants /\ tasks[s] \in TaskState
  BY DEF TypeOK, TenantOf, IsTask, IsMessage, Record, MessageRec, StateRec, ClearRec, PinRec

LEMMA TypeAddEntry ==
  ASSUME TypeOK, NEW p \in Posts, AddEntry(p)
  PROVE  TypeOK'
<1> DEFINE n == Len(journal) + 1
<1>1. /\ journal' = Append(journal, Stamped(p)) /\ journal' \in Seq(Record)
      /\ DOMAIN journal' = DOMAIN journal \cup {n} /\ n \notin DOMAIN journal
      /\ journal'[n] = Stamped(p)
      /\ \A i \in DOMAIN journal : journal'[i] = journal[i]
  BY StampedType, Grown DEF AddEntry, TypeOK
<1>2. live' \subseteq {s \in DOMAIN journal' : journal'[s].type = "message"}
  BY <1>1, StampedType DEF AddEntry, Retained, TypeOK
<1>3. TasksOK(journal', tasks')
  <2>1. \A s \in DOMAIN tasks' : \/ s \in DOMAIN tasks /\ tasks'[s] = tasks[s]
                                 \/ s = n /\ p.kind = "task" /\ tasks'[s] = Pending(journal'[s].due)
    BY DEF AddEntry
  <2>2. \A s \in DOMAIN tasks : IsTask(journal', s) /\ s \in DOMAIN journal' /\ tasks[s] \in TaskState
    BY <1>1 DEF TypeOK, IsTask, IsMessage
  <2>3. p.kind = "task" => IsTask(journal', n) /\ n \in DOMAIN journal' /\ Pending(journal'[n].due) \in TaskState
    BY <1>1, StampedType DEF IsTask, IsMessage, Pending, TaskState, States, MessageRec
  <2>4. tasks' = [s \in DOMAIN tasks' |-> tasks'[s]]
    BY DEF AddEntry
  <2>. QED
    BY <2>1, <2>2, <2>3, <2>4 DEF TasksOK
<1>. QED
  BY <1>1, <1>2, <1>3 DEF TypeOK, TasksOK, AddEntry, MuFree, sweepVars

LEMMA TypeClear ==
  ASSUME TypeOK, NEW t \in Tenants, NEW a \in Areas, Clear(t, a)
  PROVE  TypeOK'
<1> DEFINE r == [type |-> "clear", tenant |-> t, area |-> a]
<1>1. r \in Record
  BY DEF Record, ClearRec
<1>2. journal \in Seq(Record) /\ journal' = Append(journal, r) /\ TasksOK(journal, tasks)
  BY DEF Clear, TypeOK, TasksOK
<1>3. /\ journal' \in Seq(Record) /\ TasksOK(journal', tasks)
      /\ {s \in DOMAIN journal : journal[s].type = "message"}
           \subseteq {s \in DOMAIN journal' : journal'[s].type = "message"}
  BY <1>1, <1>2, Grown, MessagesGrown
<1>. QED
  BY <1>3 DEF TypeOK, TasksOK, Clear, MuFree, sweepVars

LEMMA TypePin ==
  ASSUME TypeOK, NEW t \in Tenants, NEW b \in Blobs, NEW on \in BOOLEAN, Pin(t, b, on)
  PROVE  TypeOK'
<1> DEFINE r == [type |-> "pin", tenant |-> t, blob |-> b, on |-> on]
<1>1. r \in Record
  BY DEF Record, PinRec
<1>2. journal \in Seq(Record) /\ journal' = Append(journal, r) /\ TasksOK(journal, tasks)
  BY DEF Pin, TypeOK, TasksOK
<1>3. /\ journal' \in Seq(Record) /\ TasksOK(journal', tasks)
      /\ {s \in DOMAIN journal : journal[s].type = "message"}
           \subseteq {s \in DOMAIN journal' : journal'[s].type = "message"}
  BY <1>1, <1>2, Grown, MessagesGrown
<1>4. pinned' \subseteq Blobs \X Tenants
  BY DEF TypeOK, Pin
<1>. QED
  BY <1>3, <1>4 DEF TypeOK, TasksOK, Pin, MuFree, sweepVars

\* Every change of a task's state journals the event and stores the same values.
LEMMA TypeTaskChange ==
  ASSUME TypeOK, NEW s \in DOMAIN tasks, NEW st \in States,
         NEW a \in Agents \cup {NoAgent}, NEW l \in Nat,
         journal' = Append(journal, StateEvent(TenantOf(s), s, st, a, l)),
         tasks' = [tasks EXCEPT ![s].state = st, ![s].holder = a, ![s].lease = l],
         live' = live
  PROVE  /\ journal' \in Seq(Record) /\ TasksOK(journal', tasks')
         /\ DOMAIN tasks' = DOMAIN tasks
         /\ live' \subseteq {u \in DOMAIN journal' : journal'[u].type = "message"}
<1>1. StateEvent(TenantOf(s), s, st, a, l) \in Record /\ journal \in Seq(Record)
  BY TenantType, StateEventType DEF TypeOK
<1>2. TasksOK(journal, tasks')
  BY ZenonT(60) DEF TasksOK, TypeOK, TaskState
<1>. QED
  BY <1>1, <1>2, Grown, MessagesGrown DEF TypeOK

-------------------------------------------------------------------------------
(***************************************************************************)
(* The inductive invariant, one lemma for each kind of step.               *)
(***************************************************************************)

\* A record that is neither a tombstone nor a state event of s changes nothing
\* that a replay of s depends on.
LEMMA ClearedOther ==
  ASSUME NEW j \in Seq(Record), NEW r \in Record, NEW s \in DOMAIN j,
         r.type = "clear" => ~(r.tenant = j[s].tenant /\ r.area = j[s].area)
  PROVE  Cleared(Append(j, r), s) <=> Cleared(j, s)
  BY Grown DEF Cleared

\* Steps that touch neither the journal nor the rest of what IInv relates to it.
LEMMA JournalUntouched ==
  ASSUME IInv, UNCHANGED <<journal, live, tasks, pinned>>
  PROVE  ReplayAgrees' /\ JournalInv(journal')
<1>1. /\ \A s \in DOMAIN tasks' : tasks'[s] = Replayed(journal', s)
      /\ pinned' = ReplayedPins(journal')
      /\ \A s \in live' : ~Cleared(journal', s)
  BY DEF IInv, ReplayAgrees
<1>. QED
  BY <1>1 DEF IInv, ReplayAgrees

LEMMA InvAddEntry ==
  ASSUME IInv, NEW p \in Posts, AddEntry(p)
  PROVE  IInv'
<1> DEFINE n == Len(journal) + 1
           r == Stamped(p)
<1>1. /\ journal \in Seq(Record) /\ r \in Record /\ r.type = "message"
      /\ journal' = Append(journal, r) /\ LastsExist(journal) /\ EventsOwned(journal)
  BY StampedType DEF IInv, TypeOK, AddEntry, JournalInv
<1>2. /\ DOMAIN journal' = DOMAIN journal \cup {n} /\ n \notin DOMAIN journal
      /\ journal'[n] = r
      /\ \A i \in DOMAIN journal : i \in Nat /\ i < n /\ journal'[i] = journal[i]
  BY <1>1, Grown
<1>3. TypeOK'
  BY TypeAddEntry DEF IInv
<1>4. JournalInv(journal')
  BY <1>1, JournalInvGrown DEF IInv
<1>5. ASSUME NEW s \in DOMAIN tasks'
      PROVE  tasks'[s] = Replayed(journal', s)
  <2>1. CASE s \in DOMAIN tasks
    <3>1. s \in DOMAIN journal /\ tasks'[s] = tasks[s]
      BY <2>1 DEF IInv, TypeOK, AddEntry
    <3>2. Replayed(journal', s) = Replayed(journal, s)
      BY <1>1, <3>1, ReplayOther
    <3>. QED
      BY <2>1, <3>1, <3>2 DEF IInv, ReplayAgrees
  <2>2. CASE s \notin DOMAIN tasks
    <3>1. s = n /\ tasks'[s] = Pending(journal'[s].due)
      BY <1>5, <2>2 DEF AddEntry
    <3>2. StateEvents(journal', n) = {}
      BY <1>1, <1>2 DEF StateEvents, EventsOwned
    <3>. QED
      BY <3>1, <3>2 DEF Replayed
  <2>. QED
    BY <2>1, <2>2
<1>6. ASSUME NEW s \in live'
      PROVE  ~Cleared(journal', s)
  <2>1. CASE s \in DOMAIN journal /\ s \in live
    BY <1>1, <2>1, ClearedOther DEF IInv, ReplayAgrees
  <2>2. CASE s = n
    BY <1>1, <1>2, <2>2 DEF Cleared
  <2>3. s \in live \cup {n} /\ live \subseteq DOMAIN journal
    BY <1>6 DEF AddEntry, Retained, IInv, TypeOK
  <2>. QED
    BY <2>1, <2>2, <2>3
<1>7. pinned' = ReplayedPins(journal')
  BY <1>1, ReplayedPinsOther DEF IInv, ReplayAgrees, AddEntry
<1>. QED
  BY <1>3, <1>4, <1>5, <1>6, <1>7 DEF IInv, ReplayAgrees

LEMMA InvClear ==
  ASSUME IInv, NEW t \in Tenants, NEW a \in Areas, Clear(t, a)
  PROVE  IInv'
<1> DEFINE r == [type |-> "clear", tenant |-> t, area |-> a]
<1>1. /\ journal \in Seq(Record) /\ r \in Record /\ r.type = "clear"
      /\ r.tenant = t /\ r.area = a
      /\ journal' = Append(journal, r) /\ LastsExist(journal)
  BY DEF IInv, TypeOK, Clear, JournalInv, Record, ClearRec
<1>2. TypeOK'
  BY TypeClear DEF IInv
<1>3. JournalInv(journal')
  BY <1>1, JournalInvGrown DEF IInv
<1>4. ASSUME NEW s \in DOMAIN tasks'
      PROVE  tasks'[s] = Replayed(journal', s)
  <2>1. s \in DOMAIN tasks /\ s \in DOMAIN journal /\ tasks' = tasks
    BY <1>4 DEF Clear, IInv, TypeOK
  <2>2. Replayed(journal', s) = Replayed(journal, s)
    BY <1>1, <2>1, ReplayOther
  <2>. QED
    BY <2>1, <2>2 DEF IInv, ReplayAgrees
<1>5. ASSUME NEW s \in live'
      PROVE  ~Cleared(journal', s)
  <2>1. /\ s \in live /\ s \in DOMAIN journal
        /\ ~(journal[s].tenant = t /\ journal[s].area = a)
    BY <1>5 DEF Clear, IInv, TypeOK
  <2>. QED
    BY <1>1, <2>1, ClearedOther DEF IInv, ReplayAgrees
<1>6. pinned' = ReplayedPins(journal')
  BY <1>1, ReplayedPinsOther DEF IInv, ReplayAgrees, Clear
<1>. QED
  BY <1>2, <1>3, <1>4, <1>5, <1>6 DEF IInv, ReplayAgrees

LEMMA InvPin ==
  ASSUME IInv, NEW t \in Tenants, NEW b \in Blobs, NEW on \in BOOLEAN, Pin(t, b, on)
  PROVE  IInv'
<1> DEFINE r == [type |-> "pin", tenant |-> t, blob |-> b, on |-> on]
<1>1. /\ journal \in Seq(Record) /\ r \in Record /\ r \in PinRec /\ r.type = "pin"
      /\ r.tenant = t /\ r.blob = b /\ r.on = on
      /\ journal' = Append(journal, r) /\ LastsExist(journal)
  BY DEF IInv, TypeOK, Pin, JournalInv, Record, PinRec
<1>2. TypeOK'
  BY TypePin DEF IInv
<1>3. JournalInv(journal')
  BY <1>1, JournalInvGrown DEF IInv
<1>4. ASSUME NEW s \in DOMAIN tasks'
      PROVE  tasks'[s] = Replayed(journal', s)
  <2>1. s \in DOMAIN tasks /\ s \in DOMAIN journal /\ tasks' = tasks
    BY <1>4 DEF Pin, IInv, TypeOK
  <2>2. Replayed(journal', s) = Replayed(journal, s)
    BY <1>1, <2>1, ReplayOther
  <2>. QED
    BY <2>1, <2>2 DEF IInv, ReplayAgrees
<1>5. ASSUME NEW s \in live'
      PROVE  ~Cleared(journal', s)
  <2>1. s \in live /\ s \in DOMAIN journal
    BY <1>5 DEF Pin, IInv, TypeOK
  <2>. QED
    BY <1>1, <2>1, ClearedOther DEF IInv, ReplayAgrees
<1>6. pinned' = ReplayedPins(journal')
  BY <1>1, ReplayedPinsThis DEF IInv, ReplayAgrees, Pin
<1>. QED
  BY <1>2, <1>3, <1>4, <1>5, <1>6 DEF IInv, ReplayAgrees

\* Claim, Resolve and both changes of the sweeper: the event is journalled, then
\* the same values go into the map; a closed task may only be closed again.
LEMMA TaskChange ==
  ASSUME IInv, NEW s \in DOMAIN tasks, NEW st \in States,
         NEW a \in Agents \cup {NoAgent}, NEW l \in Nat,
         tasks[s].state \in Terminal => st \in Terminal,
         st = "pending" => a = NoAgent,
         journal' = Append(journal, StateEvent(TenantOf(s), s, st, a, l)),
         tasks' = [tasks EXCEPT ![s].state = st, ![s].holder = a, ![s].lease = l],
         UNCHANGED <<live, pinned>>
  PROVE  /\ journal' \in Seq(Record) /\ TasksOK(journal', tasks')
         /\ DOMAIN tasks' = DOMAIN tasks
         /\ live' \subseteq {u \in DOMAIN journal' : journal'[u].type = "message"}
         /\ ReplayAgrees' /\ JournalInv(journal')
<1> DEFINE r == StateEvent(TenantOf(s), s, st, a, l)
<1>1. TypeOK /\ journal \in Seq(Record) /\ LastsExist(journal)
  BY DEF IInv, TypeOK, JournalInv
<1>2. /\ s \in DOMAIN journal /\ s \in Nat /\ IsTask(journal, s)
      /\ TenantOf(s) \in Tenants /\ TenantOf(s) = journal[s].tenant
  BY <1>1, TenantType DEF TenantOf
<1>3. /\ r \in Record /\ r.type = "state" /\ r.task = s /\ r.tenant = journal[s].tenant
      /\ r.state = st /\ r.by = a /\ r.lease = l
  BY <1>2 DEF StateEvent, Record, StateRec
<1>4. /\ journal' \in Seq(Record) /\ TasksOK(journal', tasks')
      /\ DOMAIN tasks' = DOMAIN tasks
      /\ live' \subseteq {u \in DOMAIN journal' : journal'[u].type = "message"}
  BY <1>1, TypeTaskChange
<1>5. JournalInv(journal')
  <2>1. Replayed(journal, s) = tasks[s]
    BY DEF IInv, ReplayAgrees
  <2>. QED
    BY <1>1, <1>2, <1>3, <2>1, JournalInvGrown DEF IInv
<1>6. ASSUME NEW u \in DOMAIN tasks'
      PROVE  tasks'[u] = Replayed(journal', u)
  <2>1. /\ u \in DOMAIN tasks /\ u \in DOMAIN journal /\ tasks[u] \in TaskState
        /\ tasks[u] = Replayed(journal, u)
    BY <1>1, <1>4, <1>6, TenantType DEF IInv, ReplayAgrees
  <2>2. CASE u = s
    <3>1. Replayed(journal', u) =
            [state |-> st, holder |-> a, lease |-> l, due |-> journal[s].due]
      BY <1>1, <1>2, <1>3, <2>2, ReplayThis
    <3>2. tasks[s].due = journal[s].due
      BY <2>1, <2>2 DEF Replayed, Pending
    <3>3. tasks'[s] = [state |-> st, holder |-> a, lease |-> l, due |-> tasks[s].due]
      BY <2>1, <2>2 DEF TaskState
    <3>. QED
      BY <2>2, <3>1, <3>2, <3>3
  <2>3. CASE u # s
    <3>1. Replayed(journal', u) = Replayed(journal, u)
      BY <1>1, <1>3, <2>1, <2>3, ReplayOther
    <3>. QED
      BY <2>1, <2>3, <3>1
  <2>. QED
    BY <2>2, <2>3
<1>7. ASSUME NEW u \in live'
      PROVE  ~Cleared(journal', u)
  <2>1. u \in live /\ u \in DOMAIN journal
    BY <1>1, <1>7 DEF TypeOK
  <2>. QED
    BY <1>1, <1>3, <2>1, ClearedOther DEF IInv, ReplayAgrees
<1>8. pinned' = ReplayedPins(journal')
  BY <1>1, <1>3, ReplayedPinsOther DEF IInv, ReplayAgrees
<1>. QED
  BY <1>4, <1>5, <1>6, <1>7, <1>8 DEF ReplayAgrees

\* From what TaskChange gives to the whole invariant.
LEMMA InvTaskChange ==
  ASSUME TypeOK,
         journal' \in Seq(Record), TasksOK(journal', tasks'), DOMAIN tasks' = DOMAIN tasks,
         live' \subseteq {u \in DOMAIN journal' : journal'[u].type = "message"},
         ReplayAgrees', JournalInv(journal'),
         UNCHANGED <<pinned, presence, clock>>,
         calls' \subseteq calls,
         pc' \in {"idle", "called", "visit", "deadline"}, sweepNow' = sweepNow,
         todo' \subseteq DOMAIN tasks, pc' \in {"idle", "called"} => todo' = {},
         cur' \in Nat, pc' = "deadline" => cur' \in DOMAIN tasks
  PROVE  IInv'
<1>1. TypeOK'
  BY DEF TypeOK, TasksOK
<1>. QED
  BY <1>1 DEF IInv

LEMMA InvClaimGranted ==
  ASSUME IInv, NEW c \in calls, ClaimGranted(c)
  PROVE  IInv'
<1> DEFINE s == c.task
           l == c.now + LeaseTTL
<1>1. /\ s \in DOMAIN tasks /\ c.tenant = TenantOf(s) /\ tasks[s] \in TaskState
      /\ c.by \in Agents /\ l \in Nat
  <2>1. s \in DOMAIN tasks /\ c.tenant = TenantOf(s)
    BY DEF ClaimGranted, HasTask
  <2>2. tasks[s] \in TaskState
    BY <2>1 DEF IInv, TypeOK
  <2>3. c \in Call
    BY DEF IInv, TypeOK
  <2>4. c.by \in Agents /\ c.now \in Nat
    BY <2>3 DEF Call
  <2>5. l \in Nat
    BY <2>4, ConstantsAssumption
  <2>. QED
    BY <2>1, <2>2, <2>4, <2>5
<1>2. tasks[s].state \notin Terminal
  BY <1>1 DEF ClaimGranted, Claimable, Terminal
<1>3. /\ journal' = Append(journal, StateEvent(TenantOf(s), s, "claimed", c.by, l))
      /\ tasks' = [tasks EXCEPT ![s].state = "claimed", ![s].holder = c.by, ![s].lease = l]
      /\ UNCHANGED <<live, pinned>>
  BY <1>1 DEF ClaimGranted
<1>4. "claimed" \in States
  BY DEF States
<1>5. /\ journal' \in Seq(Record) /\ TasksOK(journal', tasks') /\ DOMAIN tasks' = DOMAIN tasks
      /\ live' \subseteq {u \in DOMAIN journal' : journal'[u].type = "message"}
      /\ ReplayAgrees' /\ JournalInv(journal')
  BY <1>1, <1>2, <1>3, <1>4, TaskChange
<1>6. /\ UNCHANGED <<pinned, presence, clock, sweepVars>> /\ calls' \subseteq calls
  BY DEF ClaimGranted
<1>. QED
  BY <1>5, <1>6, InvTaskChange DEF IInv, TypeOK, sweepVars

LEMMA InvResolve ==
  ASSUME IInv, NEW t \in Tenants, NEW a \in Agents, NEW s, NEW st \in Terminal,
         Resolve(t, a, s, st)
  PROVE  IInv'
<1>1. s \in DOMAIN tasks /\ t = TenantOf(s)
  BY DEF Resolve, HasTask
<1>2. /\ journal' = Append(journal, StateEvent(TenantOf(s), s, st, a, 0))
      /\ tasks' = [tasks EXCEPT ![s].state = st, ![s].holder = a, ![s].lease = 0]
      /\ UNCHANGED <<live, pinned>>
  BY <1>1 DEF Resolve
<1>3. st \in States /\ st # "pending" /\ 0 \in Nat /\ a \in Agents \cup {NoAgent}
  BY DEF States, Terminal
<1>4. /\ journal' \in Seq(Record) /\ TasksOK(journal', tasks') /\ DOMAIN tasks' = DOMAIN tasks
      /\ live' \subseteq {u \in DOMAIN journal' : journal'[u].type = "message"}
      /\ ReplayAgrees' /\ JournalInv(journal')
  BY <1>1, <1>2, <1>3, TaskChange
<1>5. UNCHANGED <<pinned, presence, clock, calls, sweepVars>>
  BY DEF Resolve
<1>. QED
  BY <1>4, <1>5, InvTaskChange DEF IInv, TypeOK, sweepVars

LEMMA InvSweepFree ==
  ASSUME IInv, NEW s \in todo, SweepFree(s)
  PROVE  IInv'
<1>1. s \in DOMAIN tasks /\ tasks[s].state \notin Terminal
  BY DEF IInv, TypeOK, SweepFree, LeaseOver, Terminal
<1>2. /\ journal' = Append(journal, StateEvent(TenantOf(s), s, "pending", NoAgent, 0))
      /\ tasks' = [tasks EXCEPT ![s].state = "pending", ![s].holder = NoAgent, ![s].lease = 0]
      /\ UNCHANGED <<live, pinned>>
  BY DEF SweepFree
<1>3. "pending" \in States /\ 0 \in Nat /\ NoAgent \in Agents \cup {NoAgent}
  BY DEF States
<1>4. /\ journal' \in Seq(Record) /\ TasksOK(journal', tasks') /\ DOMAIN tasks' = DOMAIN tasks
      /\ live' \subseteq {u \in DOMAIN journal' : journal'[u].type = "message"}
      /\ ReplayAgrees' /\ JournalInv(journal')
  BY <1>1, <1>2, <1>3, TaskChange
<1>5. s \in Nat
  BY <1>1, TenantType DEF IInv
<1>6. /\ UNCHANGED <<pinned, presence, clock, calls, sweepNow>>
      /\ pc' = "deadline" /\ cur' = s /\ todo' = todo \ {s}
  BY DEF SweepFree
<1>. QED
  BY <1>1, <1>4, <1>5, <1>6, InvTaskChange DEF IInv, TypeOK

LEMMA InvSweepOverdue ==
  ASSUME IInv, SweepOverdue
  PROVE  IInv'
<1> DEFINE t == tasks[cur]
<1>1. cur \in DOMAIN tasks /\ t.state \notin Terminal /\ t \in TaskState
  BY TenantType DEF IInv, TypeOK, SweepOverdue, DeadlineMissed
<1>2. t.holder \in Agents \cup {NoAgent} /\ t.lease \in Nat /\ "overdue" \in States
  BY <1>1 DEF TaskState, States
<1>3. /\ journal' = Append(journal, StateEvent(TenantOf(cur), cur, "overdue", t.holder, t.lease))
      /\ UNCHANGED <<live, pinned>>
  BY DEF SweepOverdue
<1>4. tasks' = [tasks EXCEPT ![cur].state = "overdue", ![cur].holder = t.holder,
                             ![cur].lease = t.lease]
  BY <1>1 DEF SweepOverdue, TaskState
<1>5. /\ journal' \in Seq(Record) /\ TasksOK(journal', tasks') /\ DOMAIN tasks' = DOMAIN tasks
      /\ live' \subseteq {u \in DOMAIN journal' : journal'[u].type = "message"}
      /\ ReplayAgrees' /\ JournalInv(journal')
  BY <1>1, <1>2, <1>3, <1>4, TaskChange
<1>6. pc' = "visit" /\ UNCHANGED <<pinned, presence, clock, calls, sweepNow, todo, cur>>
  BY DEF SweepOverdue
<1>. QED
  BY <1>5, <1>6, InvTaskChange DEF IInv, TypeOK

LEMMA InvSweepFinish ==
  ASSUME IInv, SweepFinish
  PROVE  IInv'
<1>1. live' \subseteq live
  BY DEF SweepFinish, Retained
<1>2. /\ DOMAIN tasks' \subseteq DOMAIN tasks /\ \A s \in DOMAIN tasks' : tasks'[s] = tasks[s]
      /\ tasks' = [s \in DOMAIN tasks' |-> tasks'[s]]
  BY DEF SweepFinish, Forget
<1>3. TasksOK(journal, tasks')
  BY <1>2 DEF IInv, TypeOK, TasksOK
<1>4. /\ DOMAIN presence' \subseteq Tenants \X Agents
      /\ presence' \in [DOMAIN presence' -> Nat]
  BY DEF IInv, TypeOK, SweepFinish, FreshSlots
<1>5. TypeOK'
  <2>1. /\ UNCHANGED <<journal, pinned, clock, calls>>
        /\ pc' = "idle" /\ sweepNow' = 0 /\ cur' = 0 /\ todo' = {}
    BY DEF SweepFinish
  <2>. QED
    BY <1>1, <1>3, <1>4, <2>1 DEF IInv, TypeOK, TasksOK
<1>6. UNCHANGED <<journal, pinned>>
  BY DEF SweepFinish
<1>7. ReplayAgrees'
  BY <1>1, <1>2, <1>6 DEF IInv, ReplayAgrees
<1>. QED
  BY <1>5, <1>6, <1>7 DEF IInv

LEMMA InvRestart ==
  ASSUME IInv, Restart
  PROVE  IInv'
<1>1. UNCHANGED <<journal, clock>> /\ LastsExist(journal) /\ journal \in Seq(Record)
  BY DEF IInv, TypeOK, JournalInv, Restart
<1>2. \A s \in live' : s \in DOMAIN journal /\ IsMessage(journal, s) /\ ~Cleared(journal, s)
  BY DEF Restart, Retained, Rebuilt
<1>3. /\ \A s \in DOMAIN tasks' : /\ s \in DOMAIN journal /\ IsTask(journal, s)
                                  /\ tasks'[s] = Replayed(journal, s)
      /\ tasks' = [s \in DOMAIN tasks' |-> tasks'[s]]
  BY <1>2 DEF Restart
<1>4. TasksOK(journal, tasks')
  BY <1>1, <1>3, ReplayType DEF TasksOK
<1>5. pinned' = ReplayedPins(journal) /\ pinned' \subseteq Blobs \X Tenants
  BY DEF Restart, ReplayedPins
<1>6. TypeOK'
  BY <1>1, <1>2, <1>4, <1>5 DEF IInv, TypeOK, TasksOK, Restart, IsMessage
<1>7. ReplayAgrees'
  BY <1>1, <1>2, <1>3, <1>5 DEF ReplayAgrees
<1>. QED
  BY <1>1, <1>6, <1>7 DEF IInv

\* The steps that leave journal, index, task states and pins alone.
LEMMA InvQuiet ==
  ASSUME IInv,
         \/ Tick \/ SweepTick \/ SweepLock \/ SweepNotOverdue \/ UNCHANGED vars
         \/ \E s \in todo : SweepFreeFails(s) \/ SweepNoFree(s)
         \/ \E c \in calls : ClaimRefused(c) \/ Heartbeat(c)
         \/ \E t \in Tenants, a \in Agents, s \in DOMAIN journal \cup {0} :
               StartCall("claim", t, a, s) \/ StartCall("heartbeat", t, a, s)
  PROVE  IInv'
<1>1. UNCHANGED <<journal, live, tasks, pinned>>
  BY DEF Tick, SweepTick, SweepLock, SweepNotOverdue, SweepFreeFails, SweepNoFree,
         ClaimRefused, Heartbeat, StartCall, vars, ramVars
<1>2. TypeOK'
  <2>1. CASE Tick
    BY <2>1 DEF IInv, TypeOK, Tick, ramVars, sweepVars, Call
  <2>2. CASE SweepTick \/ SweepLock \/ SweepNotOverdue
    BY <2>2 DEF IInv, TypeOK, SweepTick, SweepLock, SweepNotOverdue, ramVars, sweepVars
  <2>3. CASE UNCHANGED vars
    BY <2>3 DEF IInv, TypeOK, vars, ramVars, sweepVars
  <2>4. CASE \E s \in todo : SweepFreeFails(s) \/ SweepNoFree(s)
    <3>1. \A s \in todo : s \in DOMAIN tasks /\ s \in Nat
      BY TenantType DEF IInv, TypeOK
    <3>. QED
      BY <2>4, <3>1 DEF IInv, TypeOK, SweepFreeFails, SweepNoFree, ramVars, sweepVars
  <2>5. CASE \E c \in calls : ClaimRefused(c)
    BY <2>5 DEF IInv, TypeOK, ClaimRefused, ramVars, sweepVars
  <2>6. CASE \E c \in calls : Heartbeat(c)
    <3>1. PICK c \in calls : Heartbeat(c)
      BY <2>6
    <3>2. c.tenant \in Tenants /\ c.by \in Agents /\ c.now \in Nat
      BY DEF IInv, TypeOK, Call
    <3>3. /\ DOMAIN presence' \subseteq Tenants \X Agents
          /\ presence' \in [DOMAIN presence' -> Nat]
      BY <3>1, <3>2 DEF IInv, TypeOK, Heartbeat
    <3>. QED
      BY <3>1, <3>3 DEF IInv, TypeOK, Heartbeat, sweepVars
  <2>7. CASE \E t \in Tenants, a \in Agents, s \in DOMAIN journal \cup {0} :
               StartCall("claim", t, a, s) \/ StartCall("heartbeat", t, a, s)
    BY <2>7 DEF IInv, TypeOK, StartCall, Call, ramVars, sweepVars
  <2>. QED
    BY <2>1, <2>2, <2>3, <2>4, <2>5, <2>6, <2>7
<1>. QED
  BY <1>1, <1>2, JournalUntouched DEF IInv

LEMMA InvInit == Init => IInv
<1>1. Init => TypeOK
  BY TypeInit
<1>2. Init => ReplayAgrees
  BY DEF Init, ReplayAgrees, ReplayedPins, PinOn, PinEvents
<1>3. Init => JournalInv(journal)
  BY DEF Init, JournalInv, EventsOwned, LastsExist, PinEvents, ClosedForever, FreeIsUnheld
<1>. QED
  BY <1>1, <1>2, <1>3 DEF IInv

LEMMA InvNext == IInv /\ [Next]_vars => IInv'
<1>1. SUFFICES ASSUME IInv, [Next]_vars PROVE IInv'
  OBVIOUS
<1>2. CASE Client
  <2>1. ASSUME NEW p \in Posts, Post(p) \/ PostImage(p) PROVE IInv'
    BY <1>1, <2>1, InvAddEntry DEF Post, PostImage
  <2>2. ASSUME NEW t \in Tenants, NEW a \in Areas, Clear(t, a) PROVE IInv'
    BY <1>1, <2>2, InvClear
  <2>3. ASSUME NEW t \in Tenants, NEW b \in Blobs, NEW on \in BOOLEAN, Pin(t, b, on) PROVE IInv'
    BY <1>1, <2>3, InvPin
  <2>4. ASSUME NEW t \in Tenants, NEW a \in Beating, CallHeartbeat(t, a) PROVE IInv'
    <3>1. a \in Agents
      BY ConstantsAssumption
    <3>. QED
      BY <1>1, <2>4, <3>1, InvQuiet DEF CallHeartbeat
  <2>5. ASSUME NEW t \in Tenants, NEW a \in Agents, NEW s \in DOMAIN journal, CallClaim(t, a, s)
        PROVE  IInv'
    BY <1>1, <2>5, InvQuiet DEF CallClaim
  <2>6. ASSUME NEW t \in Tenants, NEW a \in Agents, NEW s \in DOMAIN journal,
               NEW st \in Terminal, Resolve(t, a, s, st)
        PROVE  IInv'
    BY <1>1, <2>6, InvResolve
  <2>7. ASSUME NEW c \in calls, ClaimGranted(c) PROVE IInv'
    BY <1>1, <2>7, InvClaimGranted
  <2>8. ASSUME NEW c \in calls, ClaimRefused(c) \/ Heartbeat(c) PROVE IInv'
    BY <1>1, <2>8, InvQuiet
  <2>. QED
    BY <1>2, <2>1, <2>2, <2>3, <2>4, <2>5, <2>6, <2>7, <2>8 DEF Client
<1>3. CASE Sweeper
  <2>1. CASE SweepTick \/ SweepLock \/ SweepNotOverdue
    BY <1>1, <2>1, InvQuiet
  <2>2. ASSUME NEW s \in todo, SweepFreeFails(s) \/ SweepNoFree(s) PROVE IInv'
    BY <1>1, <2>2, InvQuiet
  <2>3. ASSUME NEW s \in todo, SweepFree(s) PROVE IInv'
    BY <1>1, <2>3, InvSweepFree
  <2>4. CASE SweepOverdue
    BY <1>1, <2>4, InvSweepOverdue
  <2>5. CASE SweepFinish
    BY <1>1, <2>5, InvSweepFinish
  <2>. QED
    BY <1>3, <2>1, <2>2, <2>3, <2>4, <2>5 DEF Sweeper
<1>4. CASE Tick \/ UNCHANGED vars
  BY <1>1, <1>4, InvQuiet
<1>5. CASE Restart
  BY <1>1, <1>5, InvRestart
<1>. QED
  BY <1>1, <1>2, <1>3, <1>4, <1>5 DEF Next

\* The inductive invariant holds throughout.
THEOREM Invariant == Spec => []IInv
  BY InvInit, InvNext, PTL DEF Spec

-------------------------------------------------------------------------------
(***************************************************************************)
(* What follows from it.                                                   *)
(***************************************************************************)

\* The state always has its shape; in particular no client operation takes a
\* task out of the map while a sweep has still to visit it.
THEOREM TypeCorrect == Spec => []TypeOK
<1>1. IInv => TypeOK
  BY DEF IInv
<1>. QED
  BY <1>1, Invariant, PTL

\* Whatever happened, replaying the journal gives the task states and pins that
\* are in RAM, and no indexed message is covered by a tombstone.
THEOREM ReplayCorrect == Spec => []ReplayAgrees
<1>1. IInv => ReplayAgrees
  BY DEF IInv
<1>. QED
  BY <1>1, Invariant, PTL

\* No event in the journal reopens a task that an earlier event closed.
THEOREM TerminalForever == Spec => []TerminalIsForever
<1>1. IInv => TerminalIsForever
  BY DEF IInv, JournalInv, ClosedForever, TerminalIsForever
<1>. QED
  BY <1>1, Invariant, PTL

\* A pending task has no holder.
LEMMA PendingUnheld ==
  ASSUME IInv, NEW s \in DOMAIN tasks, tasks[s].state = "pending"
  PROVE  tasks[s].holder = NoAgent
<1>1. tasks[s] = Replayed(journal, s) /\ s \in DOMAIN journal
  BY TenantType DEF IInv, ReplayAgrees
<1>2. CASE StateEvents(journal, s) = {}
  BY <1>1, <1>2 DEF Replayed, Pending
<1>3. CASE StateEvents(journal, s) # {}
  <2>1. LastOf(StateEvents(journal, s)) \in StateEvents(journal, s)
    BY <1>1, <1>3, LastOfIsLast DEF IInv, JournalInv, LastsExist, IsLast
  <2>. QED
    BY <1>1, <1>3, <2>1 DEF Replayed, StateEvents, IInv, JournalInv, FreeIsUnheld
<1>. QED
  BY <1>2, <1>3

\* The holder of a task whose lease the wall clock has not passed.
Held(s) == s \in DOMAIN tasks /\ tasks[s].holder # NoAgent /\ clock <= tasks[s].lease

LEMMA LeaseStep ==
  ASSUME IInv, [Next]_vars, NEW s \in DOMAIN tasks, s \in DOMAIN tasks', Held(s)
  PROVE  \/ tasks'[s].holder = tasks[s].holder
         \/ tasks'[s].state \in Terminal /\ tasks'[s].holder = Owner
<1>1. /\ tasks[s] \in TaskState /\ s \in DOMAIN journal
      /\ tasks[s].lease \in Nat /\ clock \in Nat /\ sweepNow \in Nat /\ sweepNow <= clock
      /\ tasks[s].state # "pending" /\ DOMAIN tasks \subseteq DOMAIN journal
  BY TenantType, PendingUnheld DEF IInv, TypeOK, TaskState, Held
<1>2. CASE tasks' = tasks
  BY <1>2
<1>3. ASSUME NEW c \in calls, ClaimGranted(c)
      PROVE  tasks'[s].holder = tasks[s].holder
  <2>1. c.now \in Nat /\ c.now <= clock
    BY DEF IInv, TypeOK, Call
  <2>2. CASE c.task # s
    BY <1>3, <2>2 DEF ClaimGranted
  <2>3. CASE c.task = s
    <3>1. c.by = tasks[s].holder
      BY <1>1, <1>3, <2>1, <2>3 DEF ClaimGranted, Claimable, Held
    <3>. QED
      BY <1>1, <1>3, <2>3, <3>1 DEF ClaimGranted, TaskState
  <2>. QED
    BY <2>2, <2>3
<1>4. ASSUME NEW t \in Tenants, NEW a \in Agents, NEW u, NEW st \in Terminal, Resolve(t, a, u, st)
      PROVE  \/ tasks'[s].holder = tasks[s].holder
             \/ tasks'[s].state \in Terminal /\ tasks'[s].holder = Owner
  BY <1>1, <1>4 DEF Resolve, MayResolve, TaskState
<1>5. ASSUME NEW u \in todo, SweepFree(u)
      PROVE  tasks'[s].holder = tasks[s].holder
  BY <1>1, <1>5 DEF SweepFree, LeaseOver, Held
<1>6. ASSUME SweepOverdue
      PROVE  tasks'[s].holder = tasks[s].holder
  BY <1>1, <1>6 DEF SweepOverdue, TaskState
<1>7. ASSUME NEW p \in Posts, AddEntry(p)
      PROVE  tasks'[s].holder = tasks[s].holder
  BY <1>7 DEF AddEntry
<1>8. ASSUME SweepFinish
      PROVE  tasks'[s].holder = tasks[s].holder
  BY <1>8 DEF SweepFinish, Forget
<1>9. ASSUME Restart
      PROVE  tasks'[s].holder = tasks[s].holder
  BY <1>9 DEF Restart, IInv, ReplayAgrees
<1>10. \/ tasks' = tasks
       \/ \E c \in calls : ClaimGranted(c)
       \/ \E t \in Tenants, a \in Agents, u \in DOMAIN journal, st \in Terminal : Resolve(t, a, u, st)
       \/ \E u \in todo : SweepFree(u)
       \/ SweepOverdue
       \/ \E p \in Posts : AddEntry(p)
       \/ SweepFinish
       \/ Restart
  BY DEF Next, Client, Sweeper, Tick, Post, PostImage, Clear, Pin, CallHeartbeat, CallClaim,
         StartCall, ClaimRefused, Heartbeat, SweepTick, SweepLock, SweepFreeFails, SweepNoFree,
         SweepNotOverdue, vars, ramVars
<1>. QED
  BY <1>2, <1>3, <1>4, <1>5, <1>6, <1>7, <1>8, <1>9, <1>10

\* While a lease runs by the wall clock, no claim, sweep, failed append or restart
\* takes the task from its holder; only the owner may close it.
THEOREM LeaseIsHonoured == Spec => LeaseHonoured
<1> DEFINE A == \A s \in DOMAIN tasks \cap DOMAIN tasks' :
                  (tasks[s].holder # NoAgent /\ clock <= tasks[s].lease) =>
                    \/ tasks'[s].holder = tasks[s].holder
                    \/ tasks'[s].state \in Terminal /\ tasks'[s].holder = Owner
<1>1. IInv /\ [Next]_vars => [A]_vars
  BY LeaseStep DEF Held
<1>2. [][A]_vars => LeaseHonoured
  BY DEF LeaseHonoured
<1>. QED
  BY <1>1, <1>2, Invariant, PTL DEF Spec

-------------------------------------------------------------------------------
(***************************************************************************)
(* The index. What retention leaves is closed upwards: of the messages of  *)
(* a tenant that a replay would load, the index has all that come after    *)
(* any it has. So a restart, which retains from what it loads and not from *)
(* what RAM held, counts the same messages.                                *)
(***************************************************************************)

\* What stands in s's way: the tenant's later messages of L that are not too old.
Later(j, L, s, now) == {u \in L : u > s /\ j[u].tenant = j[s].tenant /\ ~Aged(j[u], now)}

LiveBounded == RetainN > 0 => \A s \in live : Cardinality(Later(journal, live, s, clock)) < RetainN

LiveUpClosed ==
  \A s \in live, u \in Rebuilt(journal, clock) :
    (u > s /\ journal[u].tenant = journal[s].tenant /\ ~Aged(journal[u], clock)) => u \in live

IndexInv == LiveTaskHasState /\ LiveBounded /\ LiveUpClosed

\* The messages of a journal are numbered and finitely many.
LEMMA IndexFinite ==
  ASSUME NEW j \in Seq(Record), NEW L \in SUBSET {s \in DOMAIN j : j[s].type = "message"}
  PROVE  /\ IsFiniteSet(DOMAIN j) /\ DOMAIN j \subseteq Nat
         /\ L \subseteq DOMAIN j /\ IsFiniteSet(L)
         /\ \A s \in L : j[s] \in MessageRec
         /\ \A s \in DOMAIN j : IsMessage(j, s) => j[s] \in MessageRec
<1>1. DOMAIN j = 1 .. Len(j) /\ Len(j) \in Nat
  OBVIOUS
<1>2. IsFiniteSet(DOMAIN j)
  BY <1>1, FS_Interval
<1>3. \A s \in DOMAIN j : j[s] \in Record
  OBVIOUS
<1>4. \A r \in Record : r.type = "message" => r \in MessageRec
  BY DEF Record, MessageRec, StateRec, ClearRec, PinRec
<1>. QED
  BY <1>1, <1>2, <1>3, <1>4, FS_Subset DEF IsMessage

\* Fewer messages stand in the way in a smaller index, later, and of a later message.
LEMMA LaterShrinks ==
  ASSUME NEW j, NEW L, NEW M, IsFiniteSet(M), NEW s, NEW t, NEW now,
         Later(j, L, s, now) \subseteq M, Cardinality(M) < t, t \in Nat
  PROVE  Cardinality(Later(j, L, s, now)) < t
  BY FS_Subset, FS_CardinalityType

\* What retention keeps is not too old and has few in its way; the rest is dropped.
LEMMA RetainedIs ==
  ASSUME NEW j, NEW L, NEW now
  PROVE  Retained(j, L, now) =
           {s \in L : ~Aged(j[s], now) /\ (RetainN > 0 => Cardinality(Later(j, L, s, now)) < RetainN)}
  BY DEF Retained, Later

\* Retention keeps with a message those of its tenant that come after it.
LEMMA RetainedUpClosed ==
  ASSUME NEW j, NEW L \in SUBSET Nat, IsFiniteSet(L), NEW now,
         NEW s \in Retained(j, L, now), NEW u \in L,
         u > s, j[u].tenant = j[s].tenant, ~Aged(j[u], now)
  PROVE  u \in Retained(j, L, now)
<1>1. CASE RetainN > 0
  <2>1. Later(j, L, u, now) \subseteq Later(j, L, s, now)
    <3>1. s \in L /\ s \in Nat /\ u \in Nat
      BY RetainedIs
    <3>2. ASSUME NEW v \in L, v > u, j[v].tenant = j[u].tenant
          PROVE  v > s /\ j[v].tenant = j[s].tenant
      BY <3>1, <3>2
    <3>. QED
      BY <3>2 DEF Later
  <2>2. IsFiniteSet(Later(j, L, s, now))
    BY FS_Subset DEF Later
  <2>3. Cardinality(Later(j, L, s, now)) < RetainN
    BY <1>1, RetainedIs
  <2>4. Cardinality(Later(j, L, u, now)) < RetainN
    BY <2>1, <2>2, <2>3, LaterShrinks, ConstantsAssumption
  <2>. QED
    BY <2>4, RetainedIs
<1>2. CASE ~(RetainN > 0)
  BY <1>2, RetainedIs
<1>. QED
  BY <1>1, <1>2

\* What RAM has after retention, whatever it retained from, is in order, if that had
\* all that a replay would load and is later than something kept.
LEMMA IndexRetained ==
  ASSUME TypeOK', clock' = clock, NEW L, NEW now \in Nat, now <= clock,
         L \in SUBSET (DOMAIN journal'),
         live' = Retained(journal', L, now),
         \A s \in live', u \in Rebuilt(journal', clock) :
            (u > s /\ journal'[u].tenant = journal'[s].tenant /\ ~Aged(journal'[u], clock)) => u \in L
  PROVE  LiveBounded' /\ LiveUpClosed'
<1>1. /\ IsFiniteSet(DOMAIN journal') /\ DOMAIN journal' \subseteq Nat
      /\ \A s \in DOMAIN journal' : IsMessage(journal', s) => journal'[s] \in MessageRec
      /\ \A s \in live' : journal'[s] \in MessageRec
  BY IndexFinite DEF TypeOK
<1>2. L \in SUBSET Nat /\ IsFiniteSet(L) /\ live' \subseteq L
  BY <1>1, FS_Subset, RetainedIs
<1>3. ASSUME NEW m \in MessageRec, Aged(m, now)
      PROVE  Aged(m, clock)
  BY <1>3, ConstantsAssumption DEF Aged, MessageRec, TypeOK
<1>4. LiveBounded'
  <2>1. SUFFICES ASSUME RetainN > 0, NEW s \in live'
                 PROVE  Cardinality(Later(journal', live', s, clock)) < RetainN
    BY DEF LiveBounded
  <2>2. Later(journal', live', s, clock) \subseteq Later(journal', L, s, now)
    BY <1>1, <1>2, <1>3 DEF Later
  <2>3. Cardinality(Later(journal', L, s, now)) < RetainN
    BY <2>1, RetainedIs
  <2>4. IsFiniteSet(Later(journal', L, s, now))
    BY <1>2, FS_Subset DEF Later
  <2>. QED
    BY <2>2, <2>3, <2>4, LaterShrinks, ConstantsAssumption
<1>5. LiveUpClosed'
  <2>1. SUFFICES ASSUME NEW s \in live', NEW u \in Rebuilt(journal', clock),
                        u > s, journal'[u].tenant = journal'[s].tenant, ~Aged(journal'[u], clock)
                 PROVE  u \in live'
    BY DEF LiveUpClosed
  <2>2. u \in L /\ s \in Retained(journal', L, now)
    BY <2>1
  <2>3. journal'[u] \in MessageRec
    BY <1>1 DEF Rebuilt
  <2>4. ~Aged(journal'[u], now)
    BY <1>3, <2>1, <2>3
  <2>. QED
    BY <1>2, <2>1, <2>2, <2>4, RetainedUpClosed
<1>. QED
  BY <1>4, <1>5

\* Fewer messages, at a later time, in a journal that loads fewer.
LEMMA IndexShrinks ==
  ASSUME TypeOK, TypeOK', IndexInv, live' \subseteq live, clock <= clock',
         \A s \in DOMAIN journal : s \in DOMAIN journal' /\ journal'[s] = journal[s],
         \A s \in live', u \in Rebuilt(journal', clock') :
            (journal'[u].tenant = journal'[s].tenant) =>
               u \in Rebuilt(journal, clock) /\ (u \in live => u \in live')
  PROVE  LiveBounded' /\ LiveUpClosed'
<1>1. /\ IsFiniteSet(DOMAIN journal) /\ DOMAIN journal \subseteq Nat
      /\ live \subseteq DOMAIN journal /\ IsFiniteSet(live)
      /\ \A s \in live : journal[s] \in MessageRec
      /\ \A s \in DOMAIN journal : IsMessage(journal, s) => journal[s] \in MessageRec
  BY IndexFinite DEF TypeOK
<1>2. ASSUME NEW m \in MessageRec, Aged(m, clock)
      PROVE  Aged(m, clock')
  BY <1>2, ConstantsAssumption, SMTT(40) DEF Aged, MessageRec, TypeOK
<1>3. LiveBounded'
  <2>1. SUFFICES ASSUME RetainN > 0, NEW s \in live'
                 PROVE  Cardinality(Later(journal', live', s, clock')) < RetainN
    BY DEF LiveBounded
  <2>2. Later(journal', live', s, clock') \subseteq Later(journal, live, s, clock)
    BY <1>1, <1>2 DEF Later
  <2>3. Cardinality(Later(journal, live, s, clock)) < RetainN
    BY <2>1 DEF IndexInv, LiveBounded
  <2>4. IsFiniteSet(Later(journal, live, s, clock))
    BY <1>1, FS_Subset DEF Later
  <2>. QED
    BY <2>2, <2>3, <2>4, LaterShrinks, ConstantsAssumption
<1>4. LiveUpClosed'
  <2>1. SUFFICES ASSUME NEW s \in live', NEW u \in Rebuilt(journal', clock'),
                        u > s, journal'[u].tenant = journal'[s].tenant, ~Aged(journal'[u], clock')
                 PROVE  u \in live'
    BY DEF LiveUpClosed
  <2>2. u \in Rebuilt(journal, clock) /\ (u \in live => u \in live')
    BY <2>1
  <2>3. u \in DOMAIN journal /\ journal[u] \in MessageRec /\ s \in DOMAIN journal /\ s \in live
    BY <1>1, <2>2 DEF Rebuilt
  <2>4. journal[u].tenant = journal[s].tenant /\ ~Aged(journal[u], clock)
    BY <1>2, <2>1, <2>3
  <2>. QED
    BY <2>1, <2>2, <2>3, <2>4 DEF IndexInv, LiveUpClosed
<1>. QED
  BY <1>3, <1>4

\* A record that is no message: what a replay loads, after a tombstone less.
LEMMA RebuiltGrown ==
  ASSUME NEW j \in Seq(Record), NEW r \in Record, NEW now
  PROVE  /\ r.type # "message" => Rebuilt(Append(j, r), now) \subseteq Rebuilt(j, now)
         /\ r.type = "message" => Rebuilt(Append(j, r), now) \subseteq Rebuilt(j, now) \cup {Len(j) + 1}
<1>1. ASSUME NEW s \in Rebuilt(Append(j, r), now), s \in DOMAIN j
      PROVE  s \in Rebuilt(j, now)
  <2>1. IsMessage(j, s) /\ ~Expired(j[s], now)
    BY <1>1, Grown, MessagesGrown DEF Rebuilt
  <2>2. Cleared(j, s) => Cleared(Append(j, r), s)
    BY <1>1, Grown DEF Cleared
  <2>. QED
    BY <1>1, <2>1, <2>2 DEF Rebuilt
<1>2. ASSUME NEW s \in Rebuilt(Append(j, r), now), s \notin DOMAIN j
      PROVE  s = Len(j) + 1 /\ r.type = "message"
  BY <1>2, Grown DEF Rebuilt, IsMessage
<1>. QED
  BY <1>1, <1>2

LEMMA IndexAddEntry ==
  ASSUME IInv, TypeOK', IndexInv, NEW p \in Posts, AddEntry(p)
  PROVE  IndexInv'
<1> DEFINE n == Len(journal) + 1
           r == Stamped(p)
<1>1. /\ journal \in Seq(Record) /\ r \in Record /\ r.type = "message" /\ r.kind = p.kind
      /\ journal' = Append(journal, r) /\ clock' = clock
      /\ live' = Retained(journal', live \cup {n}, clock)
  BY StampedType DEF IInv, TypeOK, AddEntry
<1>2. /\ DOMAIN journal' = DOMAIN journal \cup {n} /\ n \notin DOMAIN journal
      /\ journal'[n] = r
      /\ \A i \in DOMAIN journal : i \in Nat /\ i < n /\ journal'[i] = journal[i]
  BY <1>1, Grown
<1>3. live \subseteq DOMAIN journal /\ clock \in Nat
  BY DEF IInv, TypeOK
<1>4. ASSUME NEW s \in live', NEW u \in Rebuilt(journal', clock),
             u > s, journal'[u].tenant = journal'[s].tenant, ~Aged(journal'[u], clock)
      PROVE  u \in live \cup {n}
  <2>1. u \in Rebuilt(journal, clock) \cup {n}
    BY <1>1, RebuiltGrown
  <2>2. s \in live \cup {n}
    BY <1>1, RetainedIs
  <2>3. CASE u \in DOMAIN journal
    <3>1. s \in live /\ u \in Rebuilt(journal, clock)
      BY <1>2, <1>4, <2>1, <2>2, <2>3
    <3>2. journal[u].tenant = journal[s].tenant /\ ~Aged(journal[u], clock)
      BY <1>2, <1>3, <1>4, <2>3, <3>1
    <3>. QED
      BY <1>4, <3>1, <3>2 DEF IndexInv, LiveUpClosed
  <2>4. u \in DOMAIN journal \cup {n}
    BY <2>1 DEF Rebuilt
  <2>. QED
    BY <2>3, <2>4
<1>5. LiveBounded' /\ LiveUpClosed'
  <2>1. PICK L : L = live \cup {n}
    OBVIOUS
  <2>2. L \in SUBSET (DOMAIN journal') /\ live' = Retained(journal', L, clock) /\ clock <= clock
    BY <1>1, <1>2, <1>3, <2>1
  <2>3. \A s \in live', u \in Rebuilt(journal', clock) :
          (u > s /\ journal'[u].tenant = journal'[s].tenant /\ ~Aged(journal'[u], clock)) => u \in L
    BY <1>4, <2>1
  <2>. QED
    BY <1>1, <1>3, <2>2, <2>3, IndexRetained
<1>6. LiveTaskHasState'
  <2>1. SUFFICES ASSUME NEW s \in live', IsTask(journal', s) PROVE s \in DOMAIN tasks'
    BY DEF LiveTaskHasState
  <2>2. s \in live \cup {n}
    BY <1>1, RetainedIs
  <2>3. CASE s \in live
    <3>1. IsTask(journal, s)
      BY <1>1, <1>3, <2>1, <2>3, MessagesGrown
    <3>. QED
      BY <2>1, <2>3, <3>1 DEF AddEntry, IndexInv, LiveTaskHasState
  <2>4. CASE s = n
    BY <1>1, <1>2, <2>1, <2>4 DEF AddEntry, IsTask
  <2>. QED
    BY <2>2, <2>3, <2>4
<1>. QED
  BY <1>5, <1>6 DEF IndexInv

LEMMA IndexClear ==
  ASSUME IInv, TypeOK', IndexInv, NEW t \in Tenants, NEW a \in Areas, Clear(t, a)
  PROVE  IndexInv'
<1> DEFINE r == [type |-> "clear", tenant |-> t, area |-> a]
<1>1. /\ journal \in Seq(Record) /\ r \in Record /\ r.type = "clear"
      /\ journal' = Append(journal, r) /\ clock' = clock /\ tasks' = tasks
      /\ live' = {s \in live : ~(journal[s].tenant = t /\ journal[s].area = a)}
  BY DEF IInv, TypeOK, Clear, Record, ClearRec
<1>2. live \subseteq DOMAIN journal /\ clock \in Nat /\ TypeOK
  BY DEF IInv, TypeOK
<1>3. \A s \in DOMAIN journal : s \in DOMAIN journal' /\ journal'[s] = journal[s]
  BY <1>1, Grown
<1>4. ASSUME NEW u \in Rebuilt(journal', clock')
      PROVE  u \in Rebuilt(journal, clock) /\ (u \in live => u \in live')
  <2>1. u \in Rebuilt(journal, clock) /\ u \in DOMAIN journal
    BY <1>1, RebuiltGrown DEF Rebuilt
  <2>2. ~Cleared(journal', u)
    BY DEF Rebuilt
  <2>3. ~(journal[u].tenant = t /\ journal[u].area = a)
    BY <1>1, <2>1, <2>2, Grown DEF Cleared
  <2>. QED
    BY <1>1, <2>1, <2>3
<1>5. LiveBounded' /\ LiveUpClosed'
  <2>1. live' \subseteq live /\ clock <= clock'
    BY <1>1, <1>2
  <2>. QED
    BY <1>2, <1>3, <1>4, <2>1, IndexShrinks
<1>6. LiveTaskHasState'
  BY <1>1, <1>2, MessagesGrown DEF IndexInv, LiveTaskHasState
<1>. QED
  BY <1>5, <1>6 DEF IndexInv

\* Steps that leave the index and the set of known tasks alone and journal no message.
LEMMA IndexKept ==
  ASSUME IInv, TypeOK', IndexInv, live' = live, DOMAIN tasks' = DOMAIN tasks, clock <= clock',
         \/ journal' = journal
         \/ \E r \in Record : r.type # "message" /\ journal' = Append(journal, r)
  PROVE  IndexInv'
<1>1. /\ journal \in Seq(Record) /\ live \subseteq DOMAIN journal /\ TypeOK
      /\ clock \in Nat /\ clock' \in Nat
  BY DEF IInv, TypeOK
<1>2. \A s \in DOMAIN journal : s \in DOMAIN journal' /\ journal'[s] = journal[s]
  BY <1>1, Grown
<1>3. ASSUME NEW s \in live, IsTask(journal', s) PROVE IsTask(journal, s)
  BY <1>1, <1>3, MessagesGrown
<1>4. Rebuilt(journal', clock') \subseteq Rebuilt(journal', clock)
  <2>1. ASSUME NEW u \in DOMAIN journal', IsMessage(journal', u), Expired(journal'[u], clock)
        PROVE  Expired(journal'[u], clock')
    <3>1. journal'[u] \in MessageRec
      BY <2>1, IndexFinite DEF TypeOK
    <3>. QED
      BY <1>1, <2>1, <3>1 DEF Expired, MessageRec
  <2>. QED
    BY <2>1 DEF Rebuilt
<1>5. Rebuilt(journal', clock) \subseteq Rebuilt(journal, clock)
  BY <1>1, RebuiltGrown
<1>6. LiveBounded' /\ LiveUpClosed'
  BY <1>1, <1>2, <1>4, <1>5, IndexShrinks
<1>7. LiveTaskHasState'
  BY <1>3 DEF IndexInv, LiveTaskHasState
<1>. QED
  BY <1>6, <1>7 DEF IndexInv

LEMMA IndexSweepFinish ==
  ASSUME IInv, TypeOK', IndexInv, SweepFinish
  PROVE  IndexInv'
<1> DEFINE unexpired == {s \in live : ~Expired(journal[s], sweepNow)}
<1>1. /\ journal' = journal /\ clock' = clock
      /\ live' = Retained(journal', unexpired, sweepNow)
      /\ tasks' = Forget(live \ live')
  BY DEF SweepFinish
<1>2. /\ live \subseteq DOMAIN journal /\ clock \in Nat /\ sweepNow \in Nat /\ sweepNow <= clock
      /\ \A s \in live : journal[s] \in MessageRec
  BY IndexFinite DEF IInv, TypeOK
<1>3. ASSUME NEW s \in live', NEW u \in Rebuilt(journal', clock),
             u > s, journal'[u].tenant = journal'[s].tenant, ~Aged(journal'[u], clock)
      PROVE  u \in unexpired
  <2>1. s \in live
    BY <1>1, RetainedIs
  <2>2. u \in live
    BY <1>1, <1>3, <2>1 DEF IndexInv, LiveUpClosed
  <2>3. ~Expired(journal[u], clock)
    BY <1>1 DEF Rebuilt
  <2>4. ~Expired(journal[u], sweepNow)
    BY <1>2, <2>2, <2>3 DEF Expired, MessageRec
  <2>. QED
    BY <2>2, <2>4
<1>4. LiveBounded' /\ LiveUpClosed'
  <2>1. unexpired \in SUBSET (DOMAIN journal')
    BY <1>1, <1>2
  <2>. QED
    BY <1>1, <1>2, <1>3, <2>1, IndexRetained
<1>5. LiveTaskHasState'
  <2>1. live' \subseteq live
    BY <1>1, RetainedIs
  <2>. QED
    BY <1>1, <2>1 DEF Forget, IndexInv, LiveTaskHasState
<1>. QED
  BY <1>4, <1>5 DEF IndexInv

LEMMA IndexRestart ==
  ASSUME IInv, TypeOK', Restart
  PROVE  IndexInv'
<1>1. /\ journal' = journal /\ clock' = clock /\ clock \in Nat
      /\ live' = Retained(journal', Rebuilt(journal', clock), clock)
      /\ DOMAIN tasks' = {u \in live' : IsTask(journal', u)}
  BY DEF Restart, IInv, TypeOK
<1>2. LiveBounded' /\ LiveUpClosed'
  <2>1. Rebuilt(journal', clock) \in SUBSET (DOMAIN journal') /\ clock <= clock
    BY <1>1 DEF Rebuilt
  <2>. QED
    BY <1>1, <2>1, IndexRetained
<1>3. LiveTaskHasState'
  BY <1>1 DEF LiveTaskHasState
<1>. QED
  BY <1>2, <1>3 DEF IndexInv

LEMMA IndexInit == Init => IndexInv
  BY DEF Init, IndexInv, LiveTaskHasState, LiveBounded, LiveUpClosed

LEMMA IndexNext == IInv /\ IInv' /\ IndexInv /\ [Next]_vars => IndexInv'
<1>1. SUFFICES ASSUME IInv, TypeOK', IndexInv, [Next]_vars PROVE IndexInv'
  BY DEF IInv
<1>2. clock \in Nat /\ clock <= clock /\ DOMAIN tasks \subseteq Nat
  BY <1>1, TenantType DEF IInv, TypeOK
<1>3. ASSUME NEW p \in Posts, Post(p) \/ PostImage(p) PROVE IndexInv'
  BY <1>1, <1>3, IndexAddEntry DEF Post, PostImage
<1>4. ASSUME NEW t \in Tenants, NEW a \in Areas, Clear(t, a) PROVE IndexInv'
  BY <1>1, <1>4, IndexClear
<1>5. ASSUME NEW t \in Tenants, NEW b \in Blobs, NEW on \in BOOLEAN, Pin(t, b, on)
      PROVE  IndexInv'
  <2>1. [type |-> "pin", tenant |-> t, blob |-> b, on |-> on] \in Record
    BY DEF Record, PinRec
  <2>. QED
    BY <1>1, <1>2, <1>5, <2>1, IndexKept DEF Pin
<1>6. ASSUME NEW c \in calls, ClaimGranted(c) PROVE IndexInv'
  <2>1. StateEvent(c.tenant, c.task, "claimed", c.by, c.now + LeaseTTL) \in Record
    BY <1>1, StateEventType, ConstantsAssumption, <1>6, <1>2
       DEF IInv, TypeOK, Call, States, ClaimGranted, HasTask
  <2>2. StateEvent(c.tenant, c.task, "claimed", c.by, c.now + LeaseTTL).type # "message"
    BY DEF StateEvent
  <2>. QED
    BY <1>1, <1>2, <1>6, <2>1, <2>2, IndexKept DEF ClaimGranted
<1>7. ASSUME NEW t \in Tenants, NEW a \in Agents, NEW s \in DOMAIN journal,
             NEW st \in Terminal, Resolve(t, a, s, st)
      PROVE  IndexInv'
  <2>1. StateEvent(t, s, st, a, 0) \in Record
    BY StateEventType, <1>7, <1>2 DEF States, Resolve, HasTask
  <2>2. StateEvent(t, s, st, a, 0).type # "message"
    BY DEF StateEvent
  <2>. QED
    BY <1>1, <1>2, <1>7, <2>1, <2>2, IndexKept DEF Resolve
<1>8. ASSUME NEW s \in todo, SweepFree(s) PROVE IndexInv'
  <2>1. s \in DOMAIN tasks /\ TenantOf(s) \in Tenants /\ s \in Nat
    BY <1>1, TenantType DEF IInv, TypeOK
  <2>2. StateEvent(TenantOf(s), s, "pending", NoAgent, 0) \in Record
    BY StateEventType, <2>1 DEF States
  <2>3. StateEvent(TenantOf(s), s, "pending", NoAgent, 0).type # "message"
    BY DEF StateEvent
  <2>. QED
    BY <1>1, <1>2, <1>8, <2>2, <2>3, IndexKept DEF SweepFree
<1>9. CASE SweepOverdue
  <2> DEFINE e == StateEvent(TenantOf(cur), cur, "overdue", tasks[cur].holder, tasks[cur].lease)
  <2>1. cur \in DOMAIN tasks /\ TenantOf(cur) \in Tenants /\ cur \in Nat /\ tasks[cur] \in TaskState
    BY <1>1, <1>9, TenantType DEF IInv, TypeOK, SweepOverdue
  <2>2. e \in Record
    BY StateEventType, <2>1 DEF States, TaskState
  <2>3. e.type # "message"
    BY DEF StateEvent
  <2>. QED
    BY <1>1, <1>2, <1>9, <2>2, <2>3, IndexKept DEF SweepOverdue
<1>10. CASE SweepFinish
  BY <1>1, <1>10, IndexSweepFinish
<1>11. CASE Restart
  BY <1>1, <1>11, IndexRestart
<1>12. CASE /\ live' = live /\ tasks' = tasks /\ journal' = journal
            /\ clock' \in {clock, clock + 1}
  BY <1>1, <1>2, <1>12, IndexKept
<1>13. \/ /\ live' = live /\ tasks' = tasks /\ journal' = journal
          /\ clock' \in {clock, clock + 1}
       \/ \E p \in Posts : Post(p) \/ PostImage(p)
       \/ \E t \in Tenants, a \in Areas : Clear(t, a)
       \/ \E t \in Tenants, b \in Blobs, on \in BOOLEAN : Pin(t, b, on)
       \/ \E c \in calls : ClaimGranted(c)
       \/ \E t \in Tenants, a \in Agents, s \in DOMAIN journal, st \in Terminal : Resolve(t, a, s, st)
       \/ \E s \in todo : SweepFree(s)
       \/ SweepOverdue \/ SweepFinish \/ Restart
  BY <1>1 DEF Next, Client, Sweeper, Tick, CallHeartbeat, CallClaim, StartCall, ClaimRefused,
              Heartbeat, SweepTick, SweepLock, SweepFreeFails, SweepNoFree, SweepNotOverdue,
              vars, ramVars
<1>. QED
  BY <1>3, <1>4, <1>5, <1>6, <1>7, <1>8, <1>9, <1>10, <1>11, <1>12, <1>13

\* The index is in order throughout.
THEOREM IndexInvariant == Spec => []IndexInv
  BY IndexInit, IndexNext, Invariant, PTL DEF Spec

\* Whatever was posted, swept, pruned, cleared or replayed, every indexed task
\* message has a state and so can be claimed.
THEOREM LiveTasksHaveState == Spec => []LiveTaskHasState
<1>1. IndexInv => LiveTaskHasState
  BY DEF IndexInv
<1>. QED
  BY <1>1, IndexInvariant, PTL

LEMMA RestartStep ==
  ASSUME IInv, IndexInv, Restart, NEW s \in live,
         ~Expired(journal[s], clock), ~Aged(journal[s], clock)
  PROVE  /\ s \in live'
         /\ s \in DOMAIN tasks => s \in DOMAIN tasks' /\ tasks'[s] = tasks[s]
<1>1. /\ IsFiniteSet(DOMAIN journal) /\ DOMAIN journal \subseteq Nat
      /\ live \subseteq DOMAIN journal /\ IsFiniteSet(live)
      /\ \A u \in live : IsMessage(journal, u)
  BY IndexFinite DEF IInv, TypeOK, IsMessage
<1>2. s \in Rebuilt(journal, clock)
  BY <1>1 DEF Rebuilt, IInv, ReplayAgrees
<1>3. Later(journal, Rebuilt(journal, clock), s, clock) \subseteq Later(journal, live, s, clock)
  BY DEF Later, IndexInv, LiveUpClosed
<1>4. IsFiniteSet(Later(journal, live, s, clock))
  BY <1>1, FS_Subset DEF Later
<1>5. RetainN > 0 => Cardinality(Later(journal, Rebuilt(journal, clock), s, clock)) < RetainN
  BY <1>3, <1>4, LaterShrinks, ConstantsAssumption DEF IndexInv, LiveBounded
<1>6. s \in live'
  BY <1>2, <1>5, RetainedIs DEF Restart
<1>7. ASSUME s \in DOMAIN tasks PROVE s \in DOMAIN tasks' /\ tasks'[s] = tasks[s]
  BY <1>6, <1>7 DEF Restart, IInv, TypeOK, ReplayAgrees
<1>. QED
  BY <1>6, <1>7

\* A restart loses no indexed message that is neither expired nor too old, and
\* no task changes hands or state by it: retention from what a replay loads
\* counts no message against it that retention in RAM had not counted.
THEOREM RestartIsLossless == Spec => RestartKeepsLive
<1> DEFINE A == Restart =>
                  \A s \in live : (~Expired(journal[s], clock) /\ ~Aged(journal[s], clock)) =>
                    /\ s \in live'
                    /\ s \in DOMAIN tasks => s \in DOMAIN tasks' /\ tasks'[s] = tasks[s]
<1>1. IInv /\ IndexInv => A
  BY RestartStep
<1>2. [][A]_vars => RestartKeepsLive
  BY DEF RestartKeepsLive
<1>. QED
  BY <1>1, <1>2, Invariant, IndexInvariant, PTL

LEMMA PostStep ==
  ASSUME IInv, IndexInv, [Next]_vars, NEW n \in DOMAIN journal' \ DOMAIN journal,
         journal'[n].type = "message", NEW s \in live,
         journal[s].tenant # journal'[n].tenant, ~Aged(journal[s], clock)
  PROVE  s \in live'
<1>1. /\ IsFiniteSet(DOMAIN journal) /\ DOMAIN journal \subseteq Nat
      /\ live \subseteq DOMAIN journal /\ IsFiniteSet(live) /\ journal \in Seq(Record)
  BY IndexFinite DEF IInv, TypeOK
<1>2. ASSUME NEW r, journal' = Append(journal, r), r.type # "message" PROVE FALSE
  <2>1. n = Len(journal) + 1
    BY <1>1, <1>2
  <2>. QED
    BY <1>1, <1>2, <2>1
<1>3. ASSUME NEW p \in Posts, AddEntry(p) PROVE s \in live'
  <2>1. /\ Stamped(p) \in Record /\ journal' = Append(journal, Stamped(p))
        /\ live' = Retained(journal', live \cup {Len(journal) + 1}, clock)
    BY <1>3, StampedType DEF IInv, TypeOK, AddEntry
  <2>2. /\ n = Len(journal) + 1
        /\ \A i \in DOMAIN journal : journal'[i] = journal[i]
    BY <1>1, <2>1, Grown
  <2>3. Later(journal', live \cup {n}, s, clock) \subseteq Later(journal, live, s, clock)
    BY <1>1, <2>2 DEF Later
  <2>4. IsFiniteSet(Later(journal, live, s, clock))
    BY <1>1, FS_Subset DEF Later
  <2>5. RetainN > 0 => Cardinality(Later(journal', live \cup {n}, s, clock)) < RetainN
    BY <2>3, <2>4, LaterShrinks, ConstantsAssumption DEF IndexInv, LiveBounded
  <2>6. ~Aged(journal'[s], clock)
    BY <1>1, <2>2
  <2>. QED
    BY <2>1, <2>2, <2>5, <2>6, RetainedIs
<1>4. \/ journal' = journal
      \/ \E r : r.type # "message" /\ journal' = Append(journal, r)
      \/ \E p \in Posts : AddEntry(p)
  BY ZenonT(60) DEF Next, Client, Sweeper, Tick, Post, PostImage, Clear, Pin, CallHeartbeat, CallClaim,
         StartCall, ClaimGranted, ClaimRefused, Heartbeat, Resolve, SweepTick, SweepLock,
         SweepFree, SweepFreeFails, SweepNoFree, SweepOverdue, SweepNotOverdue, SweepFinish,
         Restart, StateEvent, vars
<1>. QED
  BY <1>2, <1>3, <1>4

\* A post evicts messages of its own tenant only, whatever the retention bounds,
\* unless they are too old.
THEOREM PostsSpareOthers == Spec => PostSparesOthers
<1> DEFINE A == \A n \in DOMAIN journal' \ DOMAIN journal :
                  journal'[n].type = "message" =>
                    \A s \in live : (/\ journal[s].tenant # journal'[n].tenant
                                     /\ ~Aged(journal[s], clock)) => s \in live'
<1>1. IInv /\ IndexInv /\ [Next]_vars => [A]_vars
  BY PostStep
<1>2. [][A]_vars => PostSparesOthers
  BY DEF PostSparesOthers
<1>. QED
  BY <1>1, <1>2, Invariant, IndexInvariant, PTL DEF Spec

LEMMA PresenceStep ==
  ASSUME IInv, [Next]_vars, ~Restart, NEW k \in DOMAIN presence,
         PresenceStale > 0 => clock - presence[k] <= PresenceStale
  PROVE  k \in DOMAIN presence'
<1>1. /\ presence[k] \in Nat /\ clock \in Nat
      /\ sweepNow \in Nat /\ sweepNow <= clock
  BY DEF IInv, TypeOK
<1>2. CASE SweepFinish
  BY <1>1, <1>2, ConstantsAssumption DEF SweepFinish, FreshSlots
<1>3. CASE \E c \in calls : Heartbeat(c)
  BY <1>3 DEF Heartbeat
<1>4. CASE presence' = presence
  BY <1>4
<1>5. presence' = presence \/ SweepFinish \/ \E c \in calls : Heartbeat(c)
  BY ZenonT(60) DEF Next, Client, Sweeper, Tick, Post, PostImage, AddEntry, Clear, Pin, CallHeartbeat,
         CallClaim, StartCall, ClaimGranted, ClaimRefused, Resolve, SweepTick, SweepLock,
         SweepFree, SweepFreeFails, SweepNoFree, SweepOverdue, SweepNotOverdue, vars, ramVars
<1>. QED
  BY <1>2, <1>3, <1>4, <1>5

\* However late a sweep gets the lock, it drops no slot that is still fresh.
THEOREM FreshPresenceStays == Spec => FreshPresenceSurvives
<1> DEFINE A == ~Restart =>
                  \A k \in DOMAIN presence :
                    (PresenceStale > 0 => clock - presence[k] <= PresenceStale) =>
                      k \in DOMAIN presence'
<1>1. IInv /\ [Next]_vars => [A]_vars
  BY PresenceStep
<1>2. [][A]_vars => FreshPresenceSurvives
  BY DEF FreshPresenceSurvives
<1>. QED
  BY <1>1, <1>2, Invariant, PTL DEF Spec

-------------------------------------------------------------------------------
(***************************************************************************)
(* CommsStore implements TaskLease: a journal-level argument. The abstract *)
(* task map is the replay of the whole journal (JournalTasks), so only the *)
(* steps that append a task message or a state event are abstract steps;   *)
(* everything else, restarts and retention included, is a stutter.         *)
(***************************************************************************)
\* What TaskLease sees of a task state.
View(t) == [state |-> t.state, holder |-> t.holder, lease |-> t.lease]

LEMMA JournalTasksAre ==
  /\ DOMAIN JournalTasks = {u \in DOMAIN journal : IsTask(journal, u)}
  /\ \A s \in DOMAIN JournalTasks : JournalTasks[s] = View(Replayed(journal, s))
  /\ JournalTasks = [s \in DOMAIN JournalTasks |-> JournalTasks[s]]
  BY DEF JournalTasks, View

\* A journalled task that is in RAM is seen with the values RAM has.
LEMMA RamView ==
  ASSUME IInv, NEW s \in DOMAIN tasks
  PROVE  /\ s \in DOMAIN JournalTasks /\ JournalTasks[s] = View(tasks[s])
         /\ tasks[s] \in TaskState
<1>1. s \in DOMAIN journal /\ IsTask(journal, s) /\ tasks[s] \in TaskState
  BY TenantType DEF IInv
<1>2. tasks[s] = Replayed(journal, s)
  BY DEF IInv, ReplayAgrees
<1>. QED
  BY <1>1, <1>2, JournalTasksAre

\* An append that is no state event: the known tasks look the same.
LEMMA NoStateEvent ==
  ASSUME IInv, NEW r \in Record, r.type # "state", journal' = Append(journal, r)
  PROVE  JournalTasks' =
           [u \in DOMAIN JournalTasks \cup
                    (IF r.type = "message" THEN IF r.kind = "task" THEN {Len(journal) + 1} ELSE {} ELSE {}) |->
              IF u \in DOMAIN JournalTasks THEN JournalTasks[u] ELSE Lease!Fresh]
<1> DEFINE n == Len(journal) + 1
           new == IF r.type = "message" THEN IF r.kind = "task" THEN {n} ELSE {} ELSE {}
<1>1. journal \in Seq(Record) /\ LastsExist(journal) /\ EventsOwned(journal)
  BY DEF IInv, TypeOK, JournalInv
<1>2. /\ DOMAIN journal' = DOMAIN journal \cup {n} /\ n \notin DOMAIN journal /\ journal'[n] = r
      /\ \A i \in DOMAIN journal : journal'[i] = journal[i]
  BY <1>1, Grown
<1>3. DOMAIN JournalTasks' = DOMAIN JournalTasks \cup new
  BY <1>2 DEF JournalTasks, IsTask, IsMessage
<1>4. ASSUME NEW u \in DOMAIN JournalTasks
      PROVE  JournalTasks'[u] = JournalTasks[u]
  <2>1. u \in DOMAIN journal
    BY <1>4 DEF JournalTasks
  <2>2. Replayed(journal', u) = Replayed(journal, u)
    BY <1>1, <2>1, ReplayOther
  <2>. QED
    BY <1>3, <1>4, <2>2 DEF JournalTasks
<1>5. ASSUME NEW u \in new
      PROVE  JournalTasks'[u] = Lease!Fresh
  <2>1. u = n /\ u \in DOMAIN JournalTasks'
    BY <1>3, <1>5
  <2>2. StateEvents(journal', n) = {}
    BY <1>1, <1>2 DEF StateEvents, EventsOwned
  <2>. QED
    BY <2>1, <2>2 DEF JournalTasks, Replayed, Pending, Lease!Fresh
<1>6. JournalTasks' = [u \in DOMAIN JournalTasks' |-> JournalTasks'[u]]
  BY DEF JournalTasks
<1>7. n \notin DOMAIN JournalTasks
  BY <1>2 DEF JournalTasks
<1>. QED
  BY <1>3, <1>4, <1>5, <1>6, <1>7

\* A state event: exactly its task changes, to the event's values.
LEMMA OneStateEvent ==
  ASSUME IInv, NEW s \in DOMAIN tasks, NEW st \in States,
         NEW a \in Agents \cup {NoAgent}, NEW l \in Nat,
         journal' = Append(journal, StateEvent(TenantOf(s), s, st, a, l))
  PROVE  JournalTasks' =
           [JournalTasks EXCEPT ![s] = [state |-> st, holder |-> a, lease |-> l]]
<1> DEFINE n == Len(journal) + 1
           r == StateEvent(TenantOf(s), s, st, a, l)
<1>1. journal \in Seq(Record) /\ LastsExist(journal) /\ TypeOK
  BY DEF IInv, TypeOK, JournalInv
<1>2. /\ s \in DOMAIN journal /\ s \in Nat /\ IsTask(journal, s)
      /\ TenantOf(s) \in Tenants /\ TenantOf(s) = journal[s].tenant
  BY <1>1, TenantType DEF TenantOf
<1>3. /\ r \in Record /\ r.type = "state" /\ r.task = s /\ r.tenant = journal[s].tenant
      /\ r.state = st /\ r.by = a /\ r.lease = l
  BY <1>2 DEF StateEvent, Record, StateRec
<1>4. /\ DOMAIN journal' = DOMAIN journal \cup {n} /\ n \notin DOMAIN journal /\ journal'[n] = r
      /\ \A i \in DOMAIN journal : journal'[i] = journal[i]
  BY <1>1, <1>3, Grown
<1>5. DOMAIN JournalTasks' = DOMAIN JournalTasks /\ s \in DOMAIN JournalTasks
  BY <1>2, <1>3, <1>4 DEF JournalTasks, IsTask, IsMessage
<1>6. JournalTasks'[s] = [state |-> st, holder |-> a, lease |-> l]
  <2>1. Replayed(journal', s) =
          [state |-> st, holder |-> a, lease |-> l, due |-> journal[s].due]
    BY <1>1, <1>2, <1>3, ReplayThis
  <2>. QED
    BY <1>5, <2>1 DEF JournalTasks
<1>7. ASSUME NEW u \in DOMAIN JournalTasks, u # s
      PROVE  JournalTasks'[u] = JournalTasks[u]
  <2>1. u \in DOMAIN journal
    BY DEF JournalTasks
  <2>2. Replayed(journal', u) = Replayed(journal, u)
    BY <1>1, <1>3, <1>7, <2>1, ReplayOther
  <2>. QED
    BY <1>5, <1>7, <2>2 DEF JournalTasks
<1>8. /\ JournalTasks' = [u \in DOMAIN JournalTasks' |-> JournalTasks'[u]]
      /\ JournalTasks = [u \in DOMAIN JournalTasks |-> JournalTasks[u]]
  BY DEF JournalTasks
<1>. QED
  BY <1>5, <1>6, <1>7, <1>8

-------------------------------------------------------------------------------
(***************************************************************************)
(* Each step is a step of TaskLease or leaves its variables unchanged.     *)
(***************************************************************************)

\* Posting a task creates it; posting anything else shows nothing.
LEMMA RefAddEntry ==
  ASSUME IInv, NEW p \in Posts, AddEntry(p)
  PROVE  Lease!Next \/ UNCHANGED Lease!vars
<1> DEFINE n == Len(journal) + 1
           r == Stamped(p)
<1>1. /\ journal \in Seq(Record) /\ r \in Record /\ r.type = "message" /\ r.kind = p.kind
      /\ journal' = Append(journal, r) /\ clock' = clock /\ Len(journal) < MaxJournal
  BY StampedType DEF IInv, TypeOK, AddEntry, Room
<1>2. n \in 1 .. MaxJournal /\ n \notin DOMAIN JournalTasks
  BY <1>1, Grown, ConstantsAssumption DEF JournalTasks
<1>3. CASE p.kind = "task"
  <2>1. JournalTasks' = [u \in DOMAIN JournalTasks \cup {n} |->
                           IF u \in DOMAIN JournalTasks THEN JournalTasks[u] ELSE Lease!Fresh]
    BY <1>1, <1>3, NoStateEvent
  <2>2. Lease!Create(n)
    BY <1>1, <1>2, <2>1 DEF Lease!Create
  <2>. QED
    BY <1>2, <2>2 DEF Lease!Next
<1>4. CASE p.kind # "task"
  <2>1. JournalTasks' = [u \in DOMAIN JournalTasks |-> JournalTasks[u]]
    BY <1>1, <1>4, NoStateEvent
  <2>. QED
    BY <1>1, <2>1, JournalTasksAre DEF Lease!vars
<1>. QED
  BY <1>3, <1>4

\* Tombstones and pins show nothing.
LEMMA RefMarks ==
  ASSUME IInv, NEW r \in ClearRec \cup PinRec, journal' = Append(journal, r), clock' = clock
  PROVE  UNCHANGED Lease!vars
<1>1. r \in Record /\ r.type # "state" /\ r.type # "message"
  BY DEF Record, ClearRec, PinRec
<1>2. JournalTasks' = [u \in DOMAIN JournalTasks |-> JournalTasks[u]]
  BY <1>1, NoStateEvent
<1>. QED
  BY <1>2, JournalTasksAre DEF Lease!vars

LEMMA RefClaimGranted ==
  ASSUME IInv, NEW c \in calls, ClaimGranted(c)
  PROVE  Lease!Next
<1> DEFINE s == c.task
           l == c.now + LeaseTTL
<1>1. /\ s \in DOMAIN tasks /\ c.tenant = TenantOf(s) /\ c.by \in Agents
      /\ c.now \in Nat /\ c.now <= clock /\ clock \in Nat /\ l \in Nat
  BY ConstantsAssumption DEF IInv, TypeOK, Call, ClaimGranted, HasTask
<1>2. /\ s \in DOMAIN JournalTasks /\ JournalTasks[s] = View(tasks[s])
      /\ tasks[s] \in TaskState
  BY <1>1, RamView
<1>3. /\ journal' = Append(journal, StateEvent(TenantOf(s), s, "claimed", c.by, l))
      /\ clock' = clock
  BY <1>1 DEF ClaimGranted
<1>4. JournalTasks' = [JournalTasks EXCEPT ![s] = [state |-> "claimed", holder |-> c.by, lease |-> l]]
  BY <1>1, <1>3, OneStateEvent, ZenonT(60) DEF States
<1>5. /\ JournalTasks[s].state \notin Lease!Closed
      /\ \/ JournalTasks[s].state = "pending"
         \/ c.now > JournalTasks[s].lease
         \/ JournalTasks[s].holder = c.by
  BY <1>2 DEF ClaimGranted, Claimable, View, Lease!Closed
<1>6. Lease!Grant(s, c.by, c.now)
  BY <1>1, <1>2, <1>3, <1>4, <1>5 DEF Lease!Grant
<1>. QED
  BY <1>1, <1>2, <1>6 DEF Lease!Next

LEMMA RefResolve ==
  ASSUME IInv, NEW t \in Tenants, NEW a \in Agents, NEW s, NEW st \in Terminal,
         Resolve(t, a, s, st)
  PROVE  Lease!Next
<1>1. /\ s \in DOMAIN tasks /\ t = TenantOf(s) /\ st \in States /\ st \in Lease!Closed
      /\ clock' = clock
  BY DEF Resolve, HasTask, States, Terminal, Lease!Closed
<1>2. s \in DOMAIN JournalTasks /\ JournalTasks[s] = View(tasks[s])
  BY <1>1, RamView
<1>3. journal' = Append(journal, StateEvent(TenantOf(s), s, st, a, 0))
  BY <1>1 DEF Resolve
<1>4. JournalTasks' = [JournalTasks EXCEPT ![s] = [state |-> st, holder |-> a, lease |-> 0]]
  BY <1>1, <1>3, OneStateEvent
<1>5. a = JournalTasks[s].holder \/ a = Owner
  BY <1>2 DEF Resolve, MayResolve, View
<1>6. Lease!Close(s, a, st)
  BY <1>1, <1>2, <1>4, <1>5 DEF Lease!Close
<1>. QED
  BY <1>1, <1>2, <1>6 DEF Lease!Next

\* What the sweeper takes for over at the time it read is over by the wall clock.
LEMMA RefSweepFree ==
  ASSUME IInv, NEW s \in todo, SweepFree(s)
  PROVE  Lease!Next
<1>1. /\ s \in DOMAIN tasks /\ clock' = clock
      /\ sweepNow \in Nat /\ clock \in Nat /\ sweepNow <= clock
      /\ tasks[s].state = "claimed" /\ sweepNow > tasks[s].lease
  BY DEF IInv, TypeOK, SweepFree, LeaseOver
<1>2. /\ s \in DOMAIN JournalTasks /\ JournalTasks[s] = View(tasks[s])
      /\ tasks[s].lease \in Nat
  BY <1>1, RamView DEF TaskState
<1>3. journal' = Append(journal, StateEvent(TenantOf(s), s, "pending", NoAgent, 0))
  BY DEF SweepFree
<1>4. JournalTasks' = [JournalTasks EXCEPT ![s] = Lease!Fresh]
  BY <1>1, <1>3, OneStateEvent DEF States, Lease!Fresh
<1>5. JournalTasks[s].state = "claimed" /\ clock > JournalTasks[s].lease
  BY <1>1, <1>2 DEF View
<1>6. Lease!Free(s)
  BY <1>1, <1>2, <1>4, <1>5 DEF Lease!Free
<1>. QED
  BY <1>2, <1>6 DEF Lease!Next

LEMMA RefSweepOverdue ==
  ASSUME IInv, SweepOverdue
  PROVE  Lease!Next
<1> DEFINE t == tasks[cur]
<1>1. cur \in DOMAIN tasks /\ clock' = clock
  BY DEF IInv, TypeOK, SweepOverdue
<1>2. /\ cur \in DOMAIN JournalTasks /\ JournalTasks[cur] = View(t)
      /\ t \in TaskState /\ t.holder \in Agents \cup {NoAgent} /\ t.lease \in Nat
  BY <1>1, RamView DEF TaskState
<1>3. journal' = Append(journal, StateEvent(TenantOf(cur), cur, "overdue", t.holder, t.lease))
  BY DEF SweepOverdue
<1>4. JournalTasks' = [JournalTasks EXCEPT
                         ![cur] = [state |-> "overdue", holder |-> t.holder, lease |-> t.lease]]
  BY <1>1, <1>2, <1>3, OneStateEvent DEF States
<1>5. JournalTasks' = [JournalTasks EXCEPT ![cur].state = "overdue"]
  <2>1. [JournalTasks[cur] EXCEPT !.state = "overdue"] =
          [state |-> "overdue", holder |-> t.holder, lease |-> t.lease]
    BY <1>2 DEF View
  <2>2. [JournalTasks EXCEPT ![cur].state = "overdue"] =
          [JournalTasks EXCEPT ![cur] = [JournalTasks[cur] EXCEPT !.state = "overdue"]]
    OBVIOUS
  <2>. QED
    BY <1>4, <2>1, <2>2
<1>6. JournalTasks[cur].state \in {"pending", "claimed"}
  BY <1>2 DEF View, SweepOverdue, DeadlineMissed, TaskState, States, Terminal
<1>7. Lease!Flag(cur)
  BY <1>1, <1>2, <1>5, <1>6 DEF Lease!Flag
<1>. QED
  BY <1>2, <1>7 DEF Lease!Next

\* Retention, index, presence, restart: nothing of this is visible.
LEMMA RefQuiet ==
  ASSUME journal' = journal, clock' = clock
  PROVE  UNCHANGED Lease!vars
  BY DEF Lease!vars, JournalTasks, Replayed, StateEvents, IsTask, IsMessage

LEMMA RefStep == IInv /\ [Next]_vars => [Lease!Next]_(Lease!vars)
<1>1. SUFFICES ASSUME IInv, [Next]_vars PROVE Lease!Next \/ UNCHANGED Lease!vars
  OBVIOUS
<1>2. CASE Client
  <2>1. ASSUME NEW p \in Posts, Post(p) \/ PostImage(p) PROVE Lease!Next \/ UNCHANGED Lease!vars
    BY <1>1, <2>1, RefAddEntry DEF Post, PostImage
  <2>2. ASSUME NEW t \in Tenants, NEW a \in Areas, Clear(t, a) PROVE UNCHANGED Lease!vars
    BY <1>1, <2>2, RefMarks DEF Clear, ClearRec
  <2>3. ASSUME NEW t \in Tenants, NEW b \in Blobs, NEW on \in BOOLEAN, Pin(t, b, on)
        PROVE  UNCHANGED Lease!vars
    BY <1>1, <2>3, RefMarks DEF Pin, PinRec
  <2>4. ASSUME NEW t \in Tenants, NEW a \in Agents, NEW s \in DOMAIN journal,
               NEW st \in Terminal, Resolve(t, a, s, st)
        PROVE  Lease!Next
    BY <1>1, <2>4, RefResolve
  <2>5. ASSUME NEW c \in calls, ClaimGranted(c) PROVE Lease!Next
    BY <1>1, <2>5, RefClaimGranted
  <2>6. CASE \/ \E t \in Tenants, a \in Beating : CallHeartbeat(t, a)
             \/ \E t \in Tenants, a \in Agents, s \in DOMAIN journal : CallClaim(t, a, s)
             \/ \E c \in calls : ClaimRefused(c) \/ Heartbeat(c)
    BY <2>6, RefQuiet DEF CallHeartbeat, CallClaim, StartCall, ClaimRefused, Heartbeat
  <2>. QED
    BY <1>2, <2>1, <2>2, <2>3, <2>4, <2>5, <2>6 DEF Client
<1>3. CASE Sweeper
  <2>1. ASSUME NEW s \in todo, SweepFree(s) PROVE Lease!Next
    BY <1>1, <2>1, RefSweepFree
  <2>2. CASE SweepOverdue
    BY <1>1, <2>2, RefSweepOverdue
  <2>3. CASE \/ SweepTick \/ SweepLock \/ SweepNotOverdue \/ SweepFinish
             \/ \E s \in todo : SweepFreeFails(s) \/ SweepNoFree(s)
    BY <2>3, RefQuiet DEF SweepTick, SweepLock, SweepNotOverdue, SweepFinish,
                          SweepFreeFails, SweepNoFree
  <2>. QED
    BY <1>3, <2>1, <2>2, <2>3 DEF Sweeper
<1>4. CASE Tick
  <2>1. JournalTasks' = JournalTasks
    BY <1>4 DEF Tick, JournalTasks, Replayed, StateEvents, IsTask, IsMessage
  <2>. QED
    BY <1>4, <2>1 DEF Tick, Lease!Tick, Lease!Next
<1>5. CASE Restart \/ UNCHANGED vars
  BY <1>5, RefQuiet DEF Restart, vars
<1>. QED
  BY <1>1, <1>2, <1>3, <1>4, <1>5 DEF Next

LEMMA RefInit == Init => Lease!Init
  BY DEF Init, Lease!Init, JournalTasks

\* The message bus implements the task lease, for any tenants, agents, posts and
\* bounds: each behaviour of CommsStore, crashes and restarts included, is one
\* of TaskLease when tasks are what replaying the journal makes of them.
THEOREM Refinement == Spec => ImplementsTaskLease
<1>1. Lease!Init /\ [][Lease!Next]_(Lease!vars) => ImplementsTaskLease
  BY DEF ImplementsTaskLease, Lease!Spec
<1>. QED
  BY <1>1, RefInit, RefStep, Invariant, PTL DEF Spec

===============================================================================
