------------------------------ MODULE CommsStore ------------------------------
(***************************************************************************)
(* The message bus of package comms: one Store wraps the event journal and *)
(* keeps, under one mutex (Store.mu), an index of live messages, the state *)
(* of every kind=task message, the blob pins and the presence slots.       *)
(*                                                                         *)
(* The journal is the only thing that survives a restart; New replays it.  *)
(* The index is a set of journal positions: an entry's contents are those  *)
(* of its record, and the order of Store.entries is the order of the seqs. *)
(*                                                                         *)
(* Every operation is one critical section of Store.mu, hence one action,  *)
(* with two exceptions where the code is not atomic: claim and heartbeat   *)
(* take the time BEFORE the lock is acquired (a call that waits carries a  *)
(* stale "now"), and a sweep journals once per task, so that a crash or a  *)
(* failed append can leave it half done.                                   *)
(***************************************************************************)
EXTENDS Integers, Sequences, FiniteSets

CONSTANTS
  Tenants, Areas, Agents, Blobs,
  NoAgent,        \* the empty label: nobody holds the task
  NoBlob,         \* the empty blob id: not an image
  Beating,        \* the agents that send heartbeats
  Owner,          \* Store.ownerLabel, NoAgent when unset
  LeaseTTL,       \* Store.leaseTTL
  RetainN,        \* Store.retainN, 0 = off
  RetainAge,      \* Store.retainAge, 0 = off
  PresenceStale,  \* Store.presenceStale, 0 = off
  Posts,          \* the messages clients may post (see Shape)
  MaxClock, MaxJournal, MaxCalls   \* bounds of the model

Kinds == {"note", "task", "image"}
Terminal == {"done", "cancel"}
States == {"pending", "claimed", "overdue"} \cup Terminal

\* What a client asks to post: ttl and dl are offsets from the append, 0 for none.
\* (The handler adds them to the time at which it was called: a post that waited
\* for the lock is one with smaller offsets.)
Shape == [tenant : Tenants, area : Areas, kind : Kinds, ttl : Nat, dl : Nat,
          blob : Blobs \cup {NoBlob}]

ASSUME ConstantsAssumption ==
  /\ NoAgent \notin Agents
  /\ NoBlob \notin Blobs
  /\ Owner \in Agents \cup {NoAgent}
  /\ Beating \subseteq Agents
  /\ LeaseTTL \in Nat \ {0}
  /\ RetainN \in Nat /\ RetainAge \in Nat /\ PresenceStale \in Nat
  /\ Posts \subseteq Shape
  /\ MaxClock \in Nat /\ MaxJournal \in Nat /\ MaxCalls \in Nat

(***************************************************************************)
(* Journal records of this package, one record set per event type.         *)
(***************************************************************************)
MessageRec == [type : {"message"}, tenant : Tenants, area : Areas, kind : Kinds,
               ts : Nat, exp : Nat, due : Nat, blob : Blobs \cup {NoBlob}]
StateRec == [type : {"state"}, tenant : Tenants, task : Nat, state : States,
             by : Agents \cup {NoAgent}, lease : Nat]
ClearRec == [type : {"clear"}, tenant : Tenants, area : Areas]
PinRec == [type : {"pin"}, tenant : Tenants, blob : Blobs, on : BOOLEAN]
Record == MessageRec \cup StateRec \cup ClearRec \cup PinRec

TaskState == [state : States, holder : Agents \cup {NoAgent}, lease : Nat, due : Nat]

\* A claim or heartbeat whose handler has read the clock and waits for Store.mu.
Call == [op : {"claim", "heartbeat"}, tenant : Tenants, by : Agents, task : Nat, now : Nat]

VARIABLES
  journal,    \* the records of this package, in seq order
  live,       \* seqs of Store.entries
  tasks,      \* Store.tasks: seq -> TaskState, for the seqs it holds
  pinned,     \* Store.pinned, as pairs <<blob, tenant>>
  presence,   \* Store.presence: <<tenant, agent>> -> time of the last heartbeat
  clock,      \* wall clock
  calls,      \* claims and heartbeats in flight
  pc,         \* the sweeper: idle, called (now taken), visit, deadline
  sweepNow,   \* the "now" of the running sweep
  todo,       \* tasks the running sweep has not visited yet
  cur         \* task whose deadline the running sweep looks at next

ramVars == <<live, tasks, pinned, presence>>
sweepVars == <<pc, sweepNow, todo, cur>>
vars == <<journal, ramVars, clock, calls, sweepVars>>

-------------------------------------------------------------------------------
(***************************************************************************)
(* Helpers. A definition named <D>_<fault> is not part of the model: it is *)
(* D with a plausible programming error, and shows that some property      *)
(* notices the error.                                                      *)
(***************************************************************************)

MuFree_unlocked == TRUE   \* sweepOnce does not take the lock

\* Store.mu is free unless a sweep is inside its critical section.
MuFree == pc \in {"idle", "called"}

\* A client operation appends only below the bound; the sweeper is not bounded
\* (it appends at most twice per claim and once per posted task).
Room == Len(journal) < MaxJournal

Pending(due) == [state |-> "pending", holder |-> NoAgent, lease |-> 0, due |-> due]

IsMessage(j, s) == s \in DOMAIN j /\ j[s].type = "message"
IsTask(j, s) == IsMessage(j, s) /\ j[s].kind = "task"

Expired(m, now) == m.exp > 0 /\ now > m.exp
Aged(m, now) == RetainAge > 0 /\ m.ts < now - RetainAge

\* A tombstone also covers what is posted after it.
Cleared_noCut(j, s) == \E c \in DOMAIN j : /\ j[c].type = "clear"
                                           /\ j[c].tenant = j[s].tenant
                                           /\ j[c].area = j[s].area

\* A tombstone appended after the message covers its tenant and area.
Cleared(j, s) == \E c \in DOMAIN j : /\ c > s
                                     /\ j[c].type = "clear"
                                     /\ j[c].tenant = j[s].tenant
                                     /\ j[c].area = j[s].area

\* The last RetainN over all tenants.
Retained_global(j, L, now) ==
  {s \in L : /\ ~Aged(j[s], now)
             /\ RetainN > 0 => Cardinality({u \in L : u > s /\ ~Aged(j[u], now)}) < RetainN}

\* pruneAt: per tenant the last RetainN that are not too old.
Retained(j, L, now) ==
  {s \in L : /\ ~Aged(j[s], now)
             /\ RetainN > 0 =>
                  Cardinality({u \in L : /\ u > s
                                         /\ j[u].tenant = j[s].tenant
                                         /\ ~Aged(j[u], now)}) < RetainN}

\* Replay of the state events of one task: the last one wins over "pending".
StateEvents(j, s) == {e \in DOMAIN j : /\ j[e].type = "state"
                                       /\ j[e].task = s
                                       /\ j[e].tenant = j[s].tenant}
LastOf(E) == CHOOSE e \in E : \A f \in E : f <= e
Replayed(j, s) ==
  LET E == StateEvents(j, s)
      r == j[LastOf(E)]
  IN IF E = {} THEN Pending(j[s].due)
     ELSE [state |-> r.state, holder |-> r.by, lease |-> r.lease, due |-> j[s].due]

\* Replay of the pins: the last pin event of the pair decides.
PinEvents(j, b, t) == {e \in DOMAIN j : /\ j[e].type = "pin"
                                        /\ j[e].blob = b
                                        /\ j[e].tenant = t}
PinOn(j, b, t) == LET E == PinEvents(j, b, t) IN E # {} /\ j[LastOf(E)].on
ReplayedPins(j) == {p \in Blobs \X Tenants : PinOn(j, p[1], p[2])}

\* Passes 1 and 2 of New: messages not expired at now and not cleared since.
Rebuilt(j, now) == {s \in DOMAIN j : /\ IsMessage(j, s)
                                     /\ ~Expired(j[s], now)
                                     /\ ~Cleared(j, s)}

\* The same map with the tasks of S removed.
Forget(S) == [s \in DOMAIN tasks \ S |-> tasks[s]]

TenantOf(s) == journal[s].tenant   \* the tenant under which Store.tasks holds s

\* s.tasks[tenant][seq]: a tenant reaches its own tasks only.
HasTask(t, s) == s \in DOMAIN tasks /\ TenantOf(s) = t

\* Without the parentheses that state.go calls load-bearing.
Claimable_noParens(t, by, now) ==
  \/ t.state = "pending"
  \/ t.state \in {"claimed", "overdue"} /\ now > t.lease
  \/ t.holder = by

\* The lease ends one instant too early.
Claimable_early(t, by, now) ==
  \/ t.state = "pending"
  \/ t.state \in {"claimed", "overdue"} /\ (now >= t.lease \/ t.holder = by)

Claimable(t, by, now) ==
  \/ t.state = "pending"
  \/ t.state \in {"claimed", "overdue"} /\ (now > t.lease \/ t.holder = by)

\* Anybody may close a task that somebody holds.
MayResolve_anyone(t, by) == t.holder # NoAgent

MayResolve(t, by) == by = t.holder \/ (Owner # NoAgent /\ by = Owner)

StateEvent(t, s, state, by, lease) ==
  [type |-> "state", tenant |-> t, task |-> s,
   state |-> state, by |-> by, lease |-> lease]

-------------------------------------------------------------------------------
Init ==
  /\ journal = <<>>
  /\ live = {}
  /\ tasks = [s \in {} |-> Pending(0)]
  /\ pinned = {}
  /\ presence = [x \in {} |-> 0]
  /\ clock = 1
  /\ calls = {}
  /\ pc = "idle" /\ sweepNow = 0 /\ todo = {} /\ cur = 0

Tick ==
  /\ clock < MaxClock
  /\ clock' = clock + 1
  /\ UNCHANGED <<journal, ramVars, calls, sweepVars>>

(***************************************************************************)
(* Post and PostImage: append, index, seed the state of a task, prune.  A  *)
(* failed append leaves everything as it was (a stuttering step).          *)
(***************************************************************************)
Stamped(p) ==
  [type |-> "message", tenant |-> p.tenant, area |-> p.area, kind |-> p.kind,
   ts |-> clock, blob |-> p.blob,
   exp |-> IF p.ttl = 0 THEN 0 ELSE clock + p.ttl,
   due |-> IF p.dl = 0 THEN 0 ELSE clock + p.dl]

AddEntry(p) ==
  LET seq == Len(journal) + 1
      j == Append(journal, Stamped(p))
      kept == Retained(j, live \cup {seq}, clock)
      seeded == IF p.kind = "task" THEN {seq} ELSE {}
  IN /\ MuFree /\ Room
     /\ journal' = j
     /\ live' = kept
     /\ tasks' = [s \in (DOMAIN tasks \cup seeded) \ ((live \cup {seq}) \ kept) |->
                    IF s \in DOMAIN tasks THEN tasks[s] ELSE Pending(j[s].due)]
     /\ UNCHANGED <<pinned, presence, clock, calls, sweepVars>>

Post(p) == p.kind # "image" /\ AddEntry(p)
PostImage(p) == p.kind = "image" /\ AddEntry(p)

\* Clear: tombstone, then drop the area's entries. The task states stay.
Clear(t, a) ==
  /\ MuFree /\ Room
  /\ journal' = Append(journal, [type |-> "clear", tenant |-> t, area |-> a])
  /\ live' = {s \in live : ~(journal[s].tenant = t /\ journal[s].area = a)}
  /\ UNCHANGED <<tasks, pinned, presence, clock, calls, sweepVars>>

\* Unpinning drops the pins of every tenant.
Pin_unpinAll(t, b, on) ==
  /\ MuFree /\ Room
  /\ journal' = Append(journal, [type |-> "pin", tenant |-> t, blob |-> b, on |-> on])
  /\ pinned' = IF on THEN pinned \cup {<<b, t>>} ELSE {p \in pinned : p[1] # b}
  /\ UNCHANGED <<live, tasks, presence, clock, calls, sweepVars>>

Pin(t, b, on) ==
  /\ MuFree /\ Room
  /\ journal' = Append(journal, [type |-> "pin", tenant |-> t, blob |-> b, on |-> on])
  /\ pinned' = IF on THEN pinned \cup {<<b, t>>} ELSE pinned \ {<<b, t>>}
  /\ UNCHANGED <<live, tasks, presence, clock, calls, sweepVars>>

(***************************************************************************)
(* Claim: the handler reads the clock (CallClaim), then the compare-and-   *)
(* swap runs under the lock with that reading, whenever it gets the lock.  *)
(***************************************************************************)
StartCall(op, t, a, s) ==
  /\ Cardinality(calls) < MaxCalls
  /\ calls' = calls \cup {[op |-> op, tenant |-> t, by |-> a, task |-> s, now |-> clock]}
  /\ UNCHANGED <<journal, ramVars, clock, sweepVars>>

CallClaim(t, a, s) == StartCall("claim", t, a, s)
CallHeartbeat(t, a) == StartCall("heartbeat", t, a, 0)


ClaimGranted(c) ==
  LET lease == c.now + LeaseTTL
  IN /\ c \in calls /\ c.op = "claim" /\ MuFree /\ Room
     /\ HasTask(c.tenant, c.task)
     /\ Claimable(tasks[c.task], c.by, c.now)
     /\ journal' = Append(journal, StateEvent(c.tenant, c.task, "claimed", c.by, lease))
     /\ tasks' = [tasks EXCEPT ![c.task].state = "claimed",
                               ![c.task].holder = c.by,
                               ![c.task].lease = lease]
     /\ calls' = calls \ {c}
     /\ UNCHANGED <<live, pinned, presence, clock, sweepVars>>

\* Not a task of this tenant, held by another agent, or the append failed.
ClaimRefused(c) ==
  /\ c \in calls /\ c.op = "claim" /\ MuFree
  /\ calls' = calls \ {c}
  /\ UNCHANGED <<journal, ramVars, clock, sweepVars>>

\* Resolve does not use its "now".
Resolve(t, a, s, state) ==
  /\ MuFree /\ Room
  /\ HasTask(t, s)
  /\ MayResolve(tasks[s], a)
  /\ journal' = Append(journal, StateEvent(t, s, state, a, 0))
  /\ tasks' = [tasks EXCEPT ![s].state = state, ![s].holder = a, ![s].lease = 0]
  /\ UNCHANGED <<live, pinned, presence, clock, calls, sweepVars>>

\* Heartbeat: the slot takes the caller's time, however old it is by now.
Heartbeat(c) ==
  /\ c \in calls /\ c.op = "heartbeat" /\ MuFree
  /\ presence' = [k \in DOMAIN presence \cup {<<c.tenant, c.by>>} |->
                    IF k = <<c.tenant, c.by>> THEN c.now ELSE presence[k]]
  /\ calls' = calls \ {c}
  /\ UNCHANGED <<journal, live, tasks, pinned, clock, sweepVars>>

(***************************************************************************)
(* The sweeper: sweepOnce(time.Now()) takes the time, then the lock, then  *)
(* visits the tasks in any order (Go map iteration), frees an expired      *)
(* claim and flags a missed deadline, journalling each change first; then  *)
(* it drops expired messages and stale slots and prunes.                   *)
(***************************************************************************)
\* The sweeper runs only while clients call, not in a quiet channel.
SweepTick_busy ==
  /\ pc = "idle" /\ calls # {}
  /\ pc' = "called" /\ sweepNow' = clock
  /\ UNCHANGED <<journal, ramVars, clock, calls, todo, cur>>

SweepTick ==
  /\ pc = "idle"
  /\ pc' = "called" /\ sweepNow' = clock
  /\ UNCHANGED <<journal, ramVars, clock, calls, todo, cur>>

SweepLock ==
  /\ pc = "called"
  /\ pc' = "visit" /\ todo' = DOMAIN tasks
  /\ UNCHANGED <<journal, ramVars, clock, calls, sweepNow, cur>>

LeaseOver(t) == t.state = "claimed" /\ sweepNow > t.lease
DeadlineMissed(t) == /\ t.state \notin Terminal \cup {"overdue"}
                     /\ t.due > 0 /\ sweepNow > t.due

SweepFree(s) ==
  /\ pc = "visit" /\ s \in todo /\ LeaseOver(tasks[s])
  /\ journal' = Append(journal, StateEvent(TenantOf(s), s, "pending", NoAgent, 0))
  /\ tasks' = [tasks EXCEPT ![s].state = "pending", ![s].holder = NoAgent, ![s].lease = 0]
  /\ pc' = "deadline" /\ cur' = s /\ todo' = todo \ {s}
  /\ UNCHANGED <<live, pinned, presence, clock, calls, sweepNow>>

\* The append of "pending" fails: the loop continues with the next task.
SweepFreeFails(s) ==
  /\ pc = "visit" /\ s \in todo /\ LeaseOver(tasks[s])
  /\ todo' = todo \ {s}
  /\ UNCHANGED <<journal, ramVars, clock, calls, pc, sweepNow, cur>>

SweepNoFree(s) ==
  /\ pc = "visit" /\ s \in todo /\ ~LeaseOver(tasks[s])
  /\ pc' = "deadline" /\ cur' = s /\ todo' = todo \ {s}
  /\ UNCHANGED <<journal, ramVars, clock, calls, sweepNow>>

\* The overdue event does not carry holder and lease.
SweepOverdue_noHolder ==
  LET t == tasks[cur]
  IN /\ pc = "deadline" /\ DeadlineMissed(t)
     /\ journal' = Append(journal, StateEvent(TenantOf(cur), cur, "overdue", NoAgent, 0))
     /\ tasks' = [tasks EXCEPT ![cur].state = "overdue"]
     /\ pc' = "visit"
     /\ UNCHANGED <<live, pinned, presence, clock, calls, sweepNow, todo, cur>>

SweepOverdue ==
  LET t == tasks[cur]
  IN /\ pc = "deadline" /\ DeadlineMissed(t)
     /\ journal' = Append(journal, StateEvent(TenantOf(cur), cur, "overdue", t.holder, t.lease))
     /\ tasks' = [tasks EXCEPT ![cur].state = "overdue"]
     /\ pc' = "visit"
     /\ UNCHANGED <<live, pinned, presence, clock, calls, sweepNow, todo, cur>>

\* No deadline missed, or the append of "overdue" failed.
SweepNotOverdue ==
  /\ pc = "deadline"
  /\ pc' = "visit"
  /\ UNCHANGED <<journal, ramVars, clock, calls, sweepNow, todo, cur>>

\* A slot exactly at the bound is dropped.
FreshSlots_atBound(now) == {k \in DOMAIN presence :
                              PresenceStale > 0 => now - presence[k] < PresenceStale}

\* pruneStalePresenceLocked
FreshSlots(now) == {k \in DOMAIN presence :
                      PresenceStale > 0 => now - presence[k] <= PresenceStale}

SweepFinish ==
  LET unexpired == {s \in live : ~Expired(journal[s], sweepNow)}
      kept == Retained(journal, unexpired, sweepNow)
      fresh == FreshSlots(sweepNow)
  IN /\ pc = "visit" /\ todo = {}
     /\ live' = kept
     /\ tasks' = Forget(live \ kept)
     /\ presence' = [k \in fresh |-> presence[k]]
     /\ pc' = "idle" /\ sweepNow' = 0 /\ cur' = 0
     /\ UNCHANGED <<journal, pinned, clock, calls, todo>>

(***************************************************************************)
(* The process stops at any point and starts again: New replays the        *)
(* journal, SetRetention prunes, before anything else can use the store.   *)
(***************************************************************************)
\* Only tasks with a state event are restored.
Restart_noSeed ==
  LET kept == Retained(journal, Rebuilt(journal, clock), clock)
  IN /\ live' = kept
     /\ tasks' = [s \in {u \in kept : IsTask(journal, u) /\ StateEvents(journal, u) # {}} |->
                    Replayed(journal, s)]
     /\ pinned' = ReplayedPins(journal)
     /\ presence' = [x \in {} |-> 0]
     /\ calls' = {}
     /\ pc' = "idle" /\ sweepNow' = 0 /\ todo' = {} /\ cur' = 0
     /\ UNCHANGED <<journal, clock>>

Restart ==
  LET loaded == Rebuilt(journal, clock)
      kept == Retained(journal, loaded, clock)
  IN /\ live' = kept
     /\ tasks' = [s \in {u \in kept : IsTask(journal, u)} |-> Replayed(journal, s)]
     /\ pinned' = ReplayedPins(journal)
     /\ presence' = [x \in {} |-> 0]
     /\ calls' = {}
     /\ pc' = "idle" /\ sweepNow' = 0 /\ todo' = {} /\ cur' = 0
     /\ UNCHANGED <<journal, clock>>

Client ==
  \/ \E p \in Posts : Post(p) \/ PostImage(p)
  \/ \E t \in Tenants :
       \/ \E a \in Areas : Clear(t, a)
       \/ \E b \in Blobs, on \in BOOLEAN : Pin(t, b, on)
       \/ \E a \in Beating : CallHeartbeat(t, a)
       \/ \E a \in Agents, s \in DOMAIN journal :
            \/ CallClaim(t, a, s)
            \/ \E st \in Terminal : Resolve(t, a, s, st)
  \/ \E c \in calls : ClaimGranted(c) \/ ClaimRefused(c) \/ Heartbeat(c)

Sweeper ==
  \/ SweepTick \/ SweepLock
  \/ \E s \in todo : SweepFree(s) \/ SweepFreeFails(s) \/ SweepNoFree(s)
  \/ SweepOverdue \/ SweepNotOverdue \/ SweepFinish

Next == Tick \/ Client \/ Sweeper \/ Restart

Spec == Init /\ [][Next]_vars

\* Start's ticker keeps sweeping until the process ends (sweep.go): the steps of
\* the sweeper are not put off forever, restarts do not hit every single sweep,
\* and the journal does not refuse the same append every time. Time passes.
FairSpec ==
  /\ Spec
  /\ WF_vars(Tick)
  /\ SF_vars(SweepTick) /\ SF_vars(SweepLock) /\ SF_vars(SweepFinish)
  /\ SF_vars(SweepOverdue) /\ SF_vars(SweepNotOverdue)
  /\ \A s \in 1 .. MaxJournal : SF_vars(SweepFree(s)) /\ SF_vars(SweepNoFree(s))

-------------------------------------------------------------------------------
(***************************************************************************)
(* Properties.                                                             *)
(***************************************************************************)

\* Shape of the state, and what the lock protects: while a sweep is inside its
\* critical section nobody takes a task it has still to visit out of the map.
TypeOK ==
  /\ journal \in Seq(Record)
  /\ live \subseteq {s \in DOMAIN journal : journal[s].type = "message"}
  /\ DOMAIN tasks \subseteq {s \in DOMAIN journal : IsTask(journal, s)}
  /\ tasks \in [DOMAIN tasks -> TaskState]
  /\ pinned \subseteq Blobs \X Tenants
  /\ DOMAIN presence \subseteq Tenants \X Agents
  /\ presence \in [DOMAIN presence -> Nat]
  /\ clock \in Nat
  /\ calls \subseteq Call /\ \A c \in calls : c.now <= clock
  /\ pc \in {"idle", "called", "visit", "deadline"}
  /\ sweepNow \in Nat /\ sweepNow <= clock
  /\ todo \subseteq DOMAIN tasks /\ (pc \in {"idle", "called"} => todo = {})
  /\ cur \in Nat /\ (pc = "deadline" => cur \in DOMAIN tasks)

\* RAM never runs ahead of the journal, nor behind it (state.go, "append-then-
\* commit"): whatever has happened, half-done sweeps and failed appends
\* included, replaying the journal yields the very task states and pins that
\* the running process holds, so a restart cannot change who holds a task.
ReplayAgrees ==
  /\ \A s \in DOMAIN tasks : tasks[s] = Replayed(journal, s)
  /\ pinned = ReplayedPins(journal)
  /\ \A s \in live : ~Cleared(journal, s)

\* A task message that is in the index has a state, so that it can be claimed:
\* also after a restart, when no state event was ever written for it.
LiveTaskHasState == \A s \in live : IsTask(journal, s) => s \in DOMAIN tasks

\* A resolved task is terminal: once done or cancel is journalled for a task no
\* later event takes it back to pending, claimed or overdue. Said of the whole
\* journal, so that it also covers tasks that leave the index and come back.
TerminalIsForever ==
  \A i, j \in DOMAIN journal :
    /\ i < j
    /\ journal[i].type = "state" /\ journal[j].type = "state"
    /\ journal[i].task = journal[j].task
    /\ journal[i].state \in Terminal
    => journal[j].state \in Terminal

\* "A second claim while the lease is live is DENIED" (claim tool): as long as
\* the wall clock has not passed the lease, a task that stays in the index keeps
\* its holder, whatever "now" the competing calls and the sweeper have captured
\* and whatever restarts happen; only the owner may close it over its head.
LeaseHonoured ==
  [][\A s \in DOMAIN tasks \cap DOMAIN tasks' :
       (tasks[s].holder # NoAgent /\ clock <= tasks[s].lease) =>
         \/ tasks'[s].holder = tasks[s].holder
         \/ tasks'[s].state \in Terminal /\ tasks'[s].holder = Owner]_vars

\* Retention is per tenant: what one tenant posts never evicts another tenant's
\* message, unless that one is past the age bound.
PostSparesOthers ==
  [][\A n \in DOMAIN journal' \ DOMAIN journal :
       journal'[n].type = "message" =>
         \A s \in live : (/\ journal[s].tenant # journal'[n].tenant
                          /\ ~Aged(journal[s], clock)) => s \in live']_vars

\* A restart loses nothing: every indexed message that is neither past its TTL
\* nor past the age bound is in the index again, with the same task state.
RestartKeepsLive ==
  [][Restart =>
       \A s \in live : (~Expired(journal[s], clock) /\ ~Aged(journal[s], clock)) =>
         /\ s \in live'
         /\ s \in DOMAIN tasks => s \in DOMAIN tasks' /\ tasks'[s] = tasks[s]]_vars

\* Presence: the sweeper drops a slot only if the agent's last recorded heartbeat
\* is really older than the stale bound, however late the sweep gets the lock.
FreshPresenceSurvives ==
  [][~Restart =>
       \A k \in DOMAIN presence :
         (PresenceStale > 0 => clock - presence[k] <= PresenceStale) =>
           k \in DOMAIN presence']_vars

\* A claimed task whose lease has run out does not stay so: it is freed, renewed,
\* taken over, closed or flagged, also in a channel where nobody posts.
Hung(s) == /\ s \in DOMAIN tasks /\ tasks[s].state = "claimed"
           /\ clock > tasks[s].lease
HungTaskMoves == \A s \in 1 .. MaxJournal : Hung(s) ~> ~Hung(s)

(***************************************************************************)
(* What the comments of the package say and the code does not do.          *)
(***************************************************************************)

\* "the window a holder keeps a task before an un-renewed lease expires and the
\* sweeper frees it" (SetLeaseTTL): whoever holds an open task beyond its lease
\* loses it.
HeldBeyondLease(s) == /\ s \in DOMAIN tasks /\ tasks[s].state \notin Terminal
                      /\ tasks[s].holder # NoAgent /\ clock > tasks[s].lease
ExpiredLeaseFreed == \A s \in 1 .. MaxJournal : HeldBeyondLease(s) ~> ~HeldBeyondLease(s)

\* The store implements TaskLease: map every task ever posted to the state that
\* replaying the journal gives it, whether or not its message is still indexed.
JournalTasks ==
  [s \in {u \in DOMAIN journal : IsTask(journal, u)} |->
     LET t == Replayed(journal, s)
     IN [state |-> t.state, holder |-> t.holder, lease |-> t.lease]]

Lease == INSTANCE TaskLease WITH task <- JournalTasks, Ids <- 1 .. MaxJournal
ImplementsTaskLease == Lease!Spec

===============================================================================
