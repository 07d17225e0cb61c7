------------------------------- MODULE CodexRpc -------------------------------
(***************************************************************************)
(* The JSON-RPC client of one Codex app-server process (CodexAppServer in  *)
(* providerbroker/codex_session.go).                                       *)
(*                                                                         *)
(* Callers register a channel under a fresh id, write the request to the   *)
(* process's stdin, and wait for one of three things: the answer, the end  *)
(* of their context, the death of the client. One goroutine (readLoop)     *)
(* reads stdout and hands each answer to the channel registered under its  *)
(* id; another (markDead) fails what is pending when the process is gone.  *)
(*                                                                         *)
(* A message is [kind, id, of]: "of" is the number of the call it belongs  *)
(* to, which no code sees; it tells a late answer from the right one.      *)
(***************************************************************************)
EXTENDS Naturals, Sequences, FiniteSets

CONSTANTS
  Callers,          \* goroutines that use the client
  PipeCap, WireCap, \* bounds of the model: messages in stdin and in stdout
  MaxRpcCalls       \* bound of the model: calls made

ASSUME RpcAssumption == PipeCap \in Nat \ {0} /\ WireCap \in Nat \ {0} /\ MaxRpcCalls \in Nat

VARIABLES
  calls,    \* CodexAppServer.nextID: calls made so far
  stage,    \* stage[c]: "idle", "write" or "wait"
  cid,      \* cid[c]: the id of the call c makes
  got,      \* got[c]: what c's last call returned
  pending,  \* CodexAppServer.pending: the ids with a registered channel
  chan,     \* chan[i]: what is in the channel of call number i, at most one message
  chanOf,   \* chanOf[i]: the number of the call whose channel is registered under id i
  dead,     \* deadErr # nil
  done,     \* the channel "done" is closed
  victims,  \* the channels markDead took and has not sent to
  hand,     \* the message readLoop has taken and not finished with
  reading,  \* readLoop has not left its loop: "yes", "eof" or "failed"
  stdin, wire, asked, up   \* the process: its pipes, unanswered requests, alive

rpcVars == <<calls, stage, cid, got, pending, chan, chanOf, dead, done, victims,
             hand, reading, stdin, wire, asked, up>>
clientVars == <<calls, stage, cid, got>>
deadVars == <<dead, done, victims>>
procVars == <<stdin, wire, asked, up>>
chanVars == <<chan, chanOf>>
readVars == <<hand, reading>>

Nothing == [kind |-> "none", id |-> 0, of |-> 0]
Ids == 1..MaxRpcCalls
Returns == {"result", "error", "dead", "timeout", "write"}
Outcome == [how : Returns \cup {"none"}, number : 0..MaxRpcCalls, of : 0..MaxRpcCalls]
MsgSet == [kind : {"call", "answer", "error", "dead", "request", "note", "reply", "none"},
           id : 0..MaxRpcCalls, of : 0..MaxRpcCalls]

RpcShape ==
  /\ calls \in 0..MaxRpcCalls
  /\ stage \in [Callers -> {"idle", "write", "wait"}]
  /\ cid \in [Callers -> 0..MaxRpcCalls]
  /\ got \in [Callers -> Outcome]
  /\ pending \subseteq Ids
  /\ chan \in [Ids -> Seq(MsgSet)] /\ chanOf \in [Ids -> 0..MaxRpcCalls]
  /\ victims \subseteq Ids
  /\ hand \in MsgSet /\ reading \in {"yes", "eof", "failed"}
  /\ stdin \in Seq(MsgSet) /\ wire \in Seq(MsgSet)
  /\ asked \subseteq MsgSet
RpcFlags == dead \in BOOLEAN /\ done \in BOOLEAN /\ up \in BOOLEAN
RpcTypeOK == RpcShape /\ RpcFlags

RpcInit ==
  /\ calls = 0
  /\ stage = [c \in Callers |-> "idle"]
  /\ cid = [c \in Callers |-> 0]
  /\ got = [c \in Callers |-> [how |-> "none", number |-> 0, of |-> 0]]
  /\ pending = {} /\ chan = [i \in Ids |-> <<>>] /\ chanOf = [i \in Ids |-> 0]
  /\ dead = FALSE /\ done = FALSE /\ victims = {}
  /\ hand = Nothing /\ reading = "yes"
  /\ stdin = <<>> /\ wire = <<>> /\ asked = {} /\ up = TRUE

-----------------------------------------------------------------------------
\* The number of the call in whose channel c waits.
Mine(c) == got[c].number

Return(c, how, of) ==
  /\ stage' = [stage EXCEPT ![c] = "idle"]
  /\ got' = [got EXCEPT ![c].how = how, ![c].of = of]
  /\ UNCHANGED <<calls, cid>>

\* Mutant: an id free in "pending" is used again.
FreshId_recycled == 1 + Cardinality(pending)

\* nextID.Add(1)
FreshId == calls + 1

\* call(), up to the unlock: a client known to be dead refuses, any other takes
\* the caller's channel into "pending".
Register(c) ==
  /\ stage[c] = "idle" /\ calls < MaxRpcCalls
  /\ calls' = calls + 1
  /\ cid' = [cid EXCEPT ![c] = FreshId]
  /\ IF dead
     THEN /\ got' = [got EXCEPT ![c] = [how |-> "dead", number |-> calls + 1, of |-> 0]]
          /\ UNCHANGED <<stage, pending, chanOf>>
     ELSE /\ pending' = pending \cup {FreshId}
          /\ chanOf' = [chanOf EXCEPT ![FreshId] = calls + 1]
          /\ stage' = [stage EXCEPT ![c] = "write"]
          /\ got' = [got EXCEPT ![c] = [how |-> "none", number |-> calls + 1, of |-> 0]]
  /\ UNCHANGED <<chan, deadVars, readVars, procVars>>

\* writeMessage: the pipe of a live process takes a message when it has room.
Writable == up /\ Len(stdin) < PipeCap

\* call() writes the request: it blocks while the pipe is full, whatever the
\* caller's context says; the pipe of a dead process makes it fail.
Write(c) ==
  /\ stage[c] = "write"
  /\ \/ /\ Writable
        /\ stdin' = Append(stdin, [kind |-> "call", id |-> cid[c], of |-> Mine(c)])
        /\ stage' = [stage EXCEPT ![c] = "wait"]
        /\ UNCHANGED <<calls, cid, got, pending>>
     \/ /\ ~up
        /\ pending' = pending \ {cid[c]}
        /\ Return(c, "write", 0)
        /\ UNCHANGED stdin
  /\ UNCHANGED <<chanVars, deadVars, readVars, wire, asked, up>>

\* The three arms of call()'s select; when several are ready any may be taken.
TakeAnswer(c) ==
  /\ stage[c] = "wait" /\ chan[Mine(c)] # <<>>
  /\ LET m == Head(chan[Mine(c)]) IN
       Return(c, CASE m.kind = "answer" -> "result" [] m.kind = "error" -> "error"
                   [] OTHER -> "dead", m.of)
  /\ UNCHANGED <<pending, chanVars, deadVars, readVars, procVars>>

\* Mutant: a call without a deadline waits for its answer for ever.
Expire_never(c) == FALSE /\ stage' = stage

\* ctx.Done(): a call without a deadline has been given the request timeout.
Expire(c) ==
  /\ stage[c] = "wait"
  /\ pending' = pending \ {cid[c]}
  /\ Return(c, "timeout", 0)
  /\ UNCHANGED <<chanVars, deadVars, readVars, procVars>>

SeeDone(c) ==
  /\ stage[c] = "wait" /\ done
  /\ Return(c, "dead", 0)
  /\ UNCHANGED <<pending, chanVars, deadVars, readVars, procVars>>

-----------------------------------------------------------------------------
\* Mutant: the answer is sent, its entry stays.
Taken_kept(id) == {}

\* The entry readLoop removes under the lock for an answer with this id.
Taken(id) == pending \cap {id}

\* readLoop: one line. An answer nobody waits for, a notification, and a line that
\* does not parse are finished with here.
ReadLine ==
  /\ reading = "yes" /\ hand = Nothing /\ wire # <<>>
  /\ LET m == Head(wire) IN
       /\ wire' = Tail(wire)
       /\ IF m.kind \in {"answer", "error"}
          THEN /\ pending' = pending \ Taken(m.id)
               /\ hand' = IF m.id \in pending THEN m ELSE Nothing
          ELSE /\ UNCHANGED pending
               /\ hand' = IF m.kind = "request" THEN m ELSE Nothing
  /\ UNCHANGED <<clientVars, chanVars, deadVars, reading, stdin, asked, up>>

\* ch <- codexRPCResult{...}: the channel has room for one.
Deliver ==
  /\ hand.kind \in {"answer", "error"} /\ chan[chanOf[hand.id]] = <<>>
  /\ chan' = [chan EXCEPT ![chanOf[hand.id]] = <<hand>>]
  /\ hand' = Nothing
  /\ UNCHANGED <<clientVars, pending, chanOf, deadVars, reading, procVars>>

\* rejectServerRequest: the reader itself writes the refusal, and waits for room.
Reject ==
  /\ hand.kind = "request"
  /\ \/ /\ Writable
        /\ stdin' = Append(stdin, [Nothing EXCEPT !.kind = "reply"])
     \/ ~up /\ UNCHANGED stdin
  /\ hand' = Nothing
  /\ UNCHANGED <<clientVars, pending, chanVars, deadVars, reading, wire, asked, up>>

\* The loop ends: at the end of the output (which cmd.Wait may bring about with
\* lines unread), or because a line is longer than the scanner allows.
ReadEnds ==
  /\ reading = "yes" /\ hand = Nothing
  /\ reading' = IF up THEN "failed" ELSE "eof"
  /\ wire' = <<>>
  /\ UNCHANGED <<clientVars, pending, chanVars, deadVars, hand, stdin, asked, up>>

\* markDead: once, when the process was waited for or the reader failed.
MarkDead ==
  /\ ~dead /\ (~up \/ reading = "failed")
  /\ dead' = TRUE
  /\ victims' = {chanOf[i] : i \in pending}
  /\ pending' = {}
  /\ UNCHANGED <<clientVars, chanVars, done, readVars, procVars>>

FailOne ==
  /\ \E i \in victims :
       /\ chan[i] = <<>>
       /\ chan' = [chan EXCEPT ![i] = <<[kind |-> "dead", id |-> 0, of |-> i]>>]
       /\ victims' = victims \ {i}
  /\ UNCHANGED <<clientVars, pending, chanOf, dead, done, readVars, procVars>>

CloseDone ==
  /\ dead /\ victims = {} /\ ~done
  /\ done' = TRUE
  /\ UNCHANGED <<clientVars, pending, chanVars, dead, victims, readVars, procVars>>

-----------------------------------------------------------------------------
\* The process (external): it reads its input in order, answers in any order, once
\* or more than once, and sends requests of its own and lines that concern no call
\* (notifications, lines that do not parse).
ProcRead ==
  /\ up /\ stdin # <<>>
  /\ stdin' = Tail(stdin)
  /\ asked' = asked \cup {m \in {Head(stdin)} : m.kind = "call"}
  /\ UNCHANGED <<clientVars, pending, chanVars, deadVars, readVars, wire, up>>

ProcAnswer ==
  /\ up /\ Len(wire) < WireCap
  /\ \E m \in asked, kind \in {"answer", "error"} :
       /\ wire' = Append(wire, [m EXCEPT !.kind = kind])
       /\ \/ asked' = asked \ {m}
          \/ UNCHANGED asked
  /\ UNCHANGED <<clientVars, pending, chanVars, deadVars, readVars, stdin, up>>

ProcSpeak ==
  /\ up /\ Len(wire) < WireCap
  /\ \E kind \in {"request", "note"} :
       wire' = Append(wire, [Nothing EXCEPT !.kind = kind])
  /\ UNCHANGED <<clientVars, pending, chanVars, deadVars, readVars, stdin, asked, up>>

\* The process exits, or Close() kills it.
ProcExit ==
  /\ up
  /\ up' = FALSE /\ stdin' = <<>> /\ asked' = {}
  /\ UNCHANGED <<clientVars, pending, chanVars, deadVars, readVars, wire>>

RpcNext ==
  \/ \E c \in Callers : Register(c) \/ Write(c) \/ TakeAnswer(c) \/ Expire(c) \/ SeeDone(c)
  \/ ReadLine \/ Deliver \/ Reject \/ ReadEnds
  \/ MarkDead \/ FailOne \/ CloseDone
  \/ ProcRead \/ ProcAnswer \/ ProcSpeak \/ ProcExit

RpcSpec == RpcInit /\ [][RpcNext]_rpcVars

\* Goroutines run, the mutex of writeMessage is fair, contexts end; of the process
\* only that it keeps reading its input.
RpcFairness ==
  /\ \A c \in Callers : SF_rpcVars(Write(c)) /\ WF_rpcVars(TakeAnswer(c) \/ Expire(c) \/ SeeDone(c))
  /\ WF_rpcVars(ReadLine) /\ WF_rpcVars(Deliver) /\ SF_rpcVars(Reject)
  /\ WF_rpcVars(MarkDead) /\ WF_rpcVars(FailOne) /\ WF_rpcVars(CloseDone)
  /\ WF_rpcVars(ProcRead)

-----------------------------------------------------------------------------
\* A call returns the answer to its own request: never the late or repeated answer
\* to an earlier one, whatever was abandoned in between.
OwnAnswer == \A c \in Callers : got[c].of \in {0, got[c].number}

\* What is registered belongs to a call that still waits, and once the client is
\* dead nothing is: no entry outlives its call, no call waits on a dead client.
EntriesLive ==
  /\ \A i \in pending : \E c \in Callers : stage[c] # "idle" /\ Mine(c) = chanOf[i]
  /\ dead => pending = {}

\* Nobody sends to a channel that is full: readLoop, on which every caller and every
\* notification depends, and markDead never block on a caller that has gone away.
SendersFree ==
  /\ hand.kind \in {"answer", "error"} => chan[chanOf[hand.id]] = <<>>
  /\ \A i \in victims : chan[i] = <<>>

\* The bookkeeping of one client: entries do not leak and senders do not block.
PendingSound == RpcTypeOK /\ EntriesLive /\ SendersFree

\* Every call returns, whether the process answers, stays silent or dies.
CallReturns == \A c \in Callers : stage[c] # "idle" ~> stage[c] = "idle"

===============================================================================
