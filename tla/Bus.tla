---------------------------------- MODULE Bus ----------------------------------
(***************************************************************************)
(* The message bus as its readers see it: messages with sequence numbers,  *)
(* some of them still in the index. Hub and Wake, the two ways in which an *)
(* agent learns of new messages, are built on it; CommsStore has the rest. *)
(***************************************************************************)
EXTENDS Integers, Sequences, FiniteSets

CONSTANTS
  Tenants, Labels, Areas,
  NoLabel,     \* the empty target: a broadcast
  MaxPosts,    \* bounds of the model: posts, and streams cut, servers
  MaxFaults    \* restarted and hooks killed

Message == [tenant : Tenants, target : Labels \cup {NoLabel}, area : Areas]

ASSUME BusAssumption == NoLabel \notin Labels /\ MaxPosts \in Nat /\ MaxFaults \in Nat

VARIABLES
  log,          \* every message posted, by sequence number
  live,         \* the numbers of those in Store.entries
  unpublished,  \* posts that have left Store.mu and not yet told the hub
  faults        \* counted against the bound

busVars == <<log, live, unpublished, faults>>

Newest(s, S) == s \in S /\ \A u \in S : u <= s

\* Store.Post inside Store.mu; the caller tells the hub after it has let go.
Post(m) ==
  /\ Len(log) < MaxPosts
  /\ log' = Append(log, m)
  /\ live' = live \cup {Len(log) + 1}
  /\ unpublished' = unpublished \cup {Len(log) + 1}
  /\ UNCHANGED faults

\* Clear, retention or the TTL sweep takes a message out of the index.
Remove(s) ==
  /\ s \in live
  /\ live' = live \ {s}
  /\ UNCHANGED <<log, unpublished, faults>>

\* One more thing goes wrong.
Fault == faults < MaxFaults /\ faults' = faults + 1

BusInit == log = <<>> /\ live = {} /\ unpublished = {} /\ faults = 0

===============================================================================
