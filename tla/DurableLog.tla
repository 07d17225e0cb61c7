------------------------------ MODULE DurableLog ------------------------------
(***************************************************************************)
(* What the journal promises its users (comms, memory, registry): a log    *)
(* whose sequence numbers are positions. A record that Append has          *)
(* acknowledged keeps its number and contents; losing power may cut the    *)
(* log, but never below the part that has been made firm (synced).         *)
(***************************************************************************)
EXTENDS Integers, Sequences

CONSTANTS Records

VARIABLES
  log,    \* the records a reader would find, by sequence number
  firm,   \* the first so many of them survive a power loss
  told    \* sequence number -> record, as acknowledged to callers

vars == <<log, firm, told>>

Init == log = <<>> /\ firm = 0 /\ told = [s \in {} |-> 0]

UpTo(f, n) == [s \in {u \in DOMAIN f : u <= n} |-> f[s]]

\* A record gets the next number; the caller does not know yet.
Write(r) == log' = Append(log, r) /\ UNCHANGED <<firm, told>>

\* The caller learns the number of the last record; maybe it is synced as well.
Acknowledge ==
  LET n == Len(log)
  IN /\ n > 0 /\ n \notin DOMAIN told
     /\ told' = [s \in DOMAIN told \cup {n} |-> log[s]]
     /\ firm' \in {firm, n}
     /\ UNCHANGED log

Harden == firm' = Len(log) /\ UNCHANGED <<log, told>>

\* Power is lost: the tail may be gone, and only what was firm is still promised.
Cut(k) ==
  /\ firm <= k
  /\ log' = SubSeq(log, 1, k)
  /\ told' = UpTo(told, firm)
  /\ UNCHANGED firm

Next ==
  \/ \E r \in Records : Write(r)
  \/ Acknowledge \/ Harden
  \/ \E k \in 0 .. Len(log) : Cut(k)

Spec == Init /\ [][Next]_vars

===============================================================================
