------------------------------ MODULE CodexProofs ------------------------------
(***************************************************************************)
(* The provider broker's client and sessions, for any number of callers,   *)
(* requests, invocations and processes.                                    *)
(*                                                                         *)
(* One section per module: the JSON-RPC client (CodexRpc), logins and      *)
(* processes (CodexLogin), invocations (CodexTurn), tools (ProviderTools). *)
(***************************************************************************)
EXTENDS CodexRpc, CodexLogin, CodexTurn, ProviderTools, SequenceTheorems, TLAPS

-------------------------------------------------------------------------------
(***************************************************************************)
(* The client. The id of a call is its number, so an answer that carries   *)
(* the right id carries the right answer (Honest); and of the three that   *)
(* may send to a call's channel, the entry in "pending" (who will), the    *)
(* reader's hand and markDead's list, one at most exists, and none once    *)
(* the channel is full (OneSender).                                        *)
(***************************************************************************)
Honest == {m \in MsgSet : m.kind \in {"call", "answer", "error"} => m.id = m.of}

Truthful ==
  /\ stdin \in Seq(Honest) /\ wire \in Seq(Honest) /\ hand \in Honest
  /\ asked \subseteq {m \in Honest : m.kind = "call"}

InHand(i) == hand.kind \in {"answer", "error"} /\ hand.id = i

Numbered ==
  /\ \A c \in Callers : stage[c] # "idle" => cid[c] = Mine(c) /\ Mine(c) \in 1..calls
  /\ \A i \in pending : chanOf[i] = i /\ i <= calls
  /\ hand.kind \in {"answer", "error"} => hand.id \in 1..calls /\ chanOf[hand.id] = hand.id

OneSender ==
  /\ \A i \in Ids : chan[i] # <<>> =>
       /\ Head(chan[i]).of = i /\ i <= calls
       /\ i \notin pending /\ i \notin victims /\ ~InHand(i)
  /\ \A i \in Ids : InHand(i) => i \notin pending /\ i \notin victims
  /\ \A i \in victims : i <= calls
  /\ victims # {} \/ done => dead
  /\ dead => pending = {}

Waited == \A i \in pending : \E c \in Callers : stage[c] # "idle" /\ Mine(c) = i

RpcInv == RpcShape /\ OwnAnswer /\ Truthful /\ Numbered /\ OneSender /\ Waited

LEMMA RpcInitInv == RpcInit => RpcInv
<1> SUFFICES ASSUME RpcInit PROVE RpcInv
  OBVIOUS
<1>1. Nothing \in MsgSet /\ <<>> \in Seq(MsgSet)
  BY RpcAssumption DEF MsgSet, Nothing
<1>2. [how |-> "none", number |-> 0, of |-> 0] \in Outcome
  BY RpcAssumption DEF Outcome
<1>3. RpcShape
  BY <1>1, <1>2, RpcAssumption DEF RpcInit, RpcShape
<1>4. OwnAnswer /\ Numbered /\ Waited
  BY DEF RpcInit, OwnAnswer, Numbered, Waited, Nothing
<1>5. Truthful
  BY <1>1 DEF RpcInit, Truthful, Honest, Nothing
<1>6. OneSender
  BY DEF RpcInit, OneSender, InHand, Nothing
<1>. QED
  BY <1>3, <1>4, <1>5, <1>6 DEF RpcInv

\* A call takes a number that nothing has had before.
LEMMA RegisterInv ==
  ASSUME RpcInv, NEW c \in Callers, Register(c)
  PROVE  RpcInv'
<1> DEFINE Got(how) == [how |-> how, number |-> calls', of |-> 0]
<1>1. /\ calls \in Nat /\ calls' = calls + 1 /\ calls' \in Ids /\ calls' \in 0..MaxRpcCalls
      /\ stage[c] = "idle" /\ cid' = [cid EXCEPT ![c] = calls'] /\ FreshId = calls'
      /\ UNCHANGED <<chan, dead, done, victims, hand, reading, stdin, wire, asked>>
  BY RpcAssumption DEF RpcInv, RpcShape, Register, FreshId, Ids, deadVars, readVars, procVars
<1>2. calls' \notin pending /\ chan[calls'] = <<>> /\ ~InHand(calls')
  BY <1>1 DEF RpcInv, Numbered, OneSender, InHand
<1>3. Got("dead") \in Outcome /\ Got("none") \in Outcome
  BY <1>1, RpcAssumption DEF Outcome, Returns
<1>4. Truthful'
  BY <1>1 DEF RpcInv, Truthful
<1>5. CASE dead
  <2>1. got' = [got EXCEPT ![c] = Got("dead")] /\ UNCHANGED <<stage, pending, chanOf>>
    BY <1>1, <1>5 DEF Register
  <2>2. RpcShape'
    BY <1>1, <1>3, <2>1 DEF RpcInv, RpcShape
  <2>3. OwnAnswer' /\ Numbered' /\ Waited'
    BY <1>1, <2>1 DEF RpcInv, RpcShape, OwnAnswer, Numbered, Waited, Mine
  <2>4. OneSender'
    BY <1>1, <2>1 DEF RpcInv, RpcShape, OneSender, InHand, Ids
  <2>. QED
    BY <1>4, <2>2, <2>3, <2>4 DEF RpcInv
<1>6. CASE ~dead
  <2>1. /\ pending' = pending \cup {calls'} /\ chanOf' = [chanOf EXCEPT ![calls'] = calls']
        /\ stage' = [stage EXCEPT ![c] = "write"] /\ got' = [got EXCEPT ![c] = Got("none")]
    BY <1>1, <1>6 DEF Register
  <2>2. RpcShape'
    BY <1>1, <1>3, <2>1 DEF RpcInv, RpcShape
  <2>3. OwnAnswer'
    BY <1>1, <2>1 DEF RpcInv, RpcShape, OwnAnswer
  <2>4. Numbered'
    BY <1>1, <2>1 DEF RpcInv, RpcShape, Numbered, Mine, Ids
  <2>5. OneSender'
    BY <1>1, <1>2, <1>6, <2>1 DEF RpcInv, OneSender, InHand
  <2>6. Waited'
    BY <1>1, <2>1 DEF RpcInv, RpcShape, Waited, Mine
  <2>. QED
    BY <1>4, <2>2, <2>3, <2>4, <2>5, <2>6 DEF RpcInv
<1>. QED
  BY <1>5, <1>6

\* A call that returns takes at most its own entry with it, which nobody else waits for.
LEMMA ReturnInv ==
  ASSUME RpcInv, NEW c \in Callers, NEW how \in Returns, NEW of, of \in {0, Mine(c)},
         stage[c] # "idle", Return(c, how, of),
         pending' \subseteq pending, pending \ {cid[c]} \subseteq pending', Mine(c) \notin pending',
         UNCHANGED <<chanVars, deadVars, readVars, procVars>>
  PROVE  RpcInv'
<1>1. /\ UNCHANGED <<chan, chanOf, dead, done, victims, hand, reading, stdin, wire, asked, calls, cid>>
      /\ stage' = [stage EXCEPT ![c] = "idle"]
      /\ got' = [got EXCEPT ![c].how = how, ![c].of = of]
      /\ cid[c] = Mine(c)
  BY DEF Return, chanVars, deadVars, readVars, procVars, RpcInv, Numbered
<1>2. got[c] \in Outcome /\ Mine(c) \in 0..MaxRpcCalls /\ of \in 0..MaxRpcCalls
  BY RpcAssumption DEF RpcInv, RpcShape, Outcome, Mine
<1>3. /\ DOMAIN got' = Callers /\ got'[c] \in Outcome
      /\ got'[c].number = got[c].number /\ got'[c].of = of
  BY <1>1, <1>2 DEF RpcInv, RpcShape, Outcome
<1>4. /\ got' \in [Callers -> Outcome]
      /\ \A d \in Callers : got'[d].number = got[d].number /\ (d # c => got'[d] = got[d])
  BY <1>1, <1>3 DEF RpcInv, RpcShape
<1>5. RpcShape'
  BY <1>1, <1>4 DEF RpcInv, RpcShape
<1>6. OwnAnswer' /\ Numbered' /\ Truthful'
  BY <1>1, <1>3, <1>4 DEF RpcInv, RpcShape, OwnAnswer, Numbered, Truthful, Mine
<1>7. OneSender'
  BY <1>1 DEF RpcInv, OneSender, InHand
<1>8. Waited'
  BY <1>1, <1>4, SMTT(40) DEF RpcInv, RpcShape, Waited, Mine
<1>. QED
  BY <1>5, <1>6, <1>7, <1>8 DEF RpcInv

LEMMA WriteInv ==
  ASSUME RpcInv, NEW c \in Callers, Write(c)
  PROVE  RpcInv'
<1>1. stage[c] = "write" /\ cid[c] = Mine(c) /\ Mine(c) \in Ids /\ Mine(c) \in 0..MaxRpcCalls
  BY DEF Write, RpcInv, RpcShape, Numbered, Ids
<1>2. CASE up
  <2> DEFINE m == [kind |-> "call", id |-> cid[c], of |-> Mine(c)]
  <2>1. /\ stdin' = Append(stdin, m) /\ stage' = [stage EXCEPT ![c] = "wait"]
        /\ UNCHANGED <<calls, cid, got, pending, chan, chanOf, dead, done, victims, hand, reading, wire, asked>>
    BY <1>2 DEF Write, chanVars, deadVars, readVars, procVars
  <2>2. m \in Honest /\ m \in MsgSet
    BY <1>1 DEF Honest, MsgSet
  <2>3. RpcShape' /\ Truthful'
    BY <2>1, <2>2 DEF RpcInv, RpcShape, Truthful
  <2>4. OwnAnswer' /\ Numbered' /\ OneSender' /\ Waited'
    BY <1>1, <2>1 DEF RpcInv, RpcShape, OwnAnswer, Numbered, OneSender, InHand, Waited, Mine
  <2>. QED
    BY <2>3, <2>4 DEF RpcInv
<1>3. CASE ~up
  <2>1. /\ Return(c, "write", 0) /\ pending' = pending \ {cid[c]}
        /\ UNCHANGED <<chanVars, deadVars, readVars, procVars>>
    BY <1>3 DEF Write, Writable, chanVars, deadVars, readVars, procVars
  <2>2. "write" \in Returns
    BY DEF Returns
  <2>. QED
    BY <1>1, <2>1, <2>2, ReturnInv
<1>. QED
  BY <1>2, <1>3

LEMMA WaitInv ==
  ASSUME RpcInv, NEW c \in Callers, TakeAnswer(c) \/ Expire(c) \/ SeeDone(c)
  PROVE  RpcInv'
<1>1. /\ stage[c] # "idle" /\ cid[c] = Mine(c) /\ Mine(c) \in Ids
      /\ UNCHANGED <<chanVars, deadVars, readVars, procVars>>
  BY DEF TakeAnswer, Expire, SeeDone, RpcInv, Numbered, Ids, RpcShape
<1>2. \A how \in {"result", "error", "dead", "timeout"} : how \in Returns
  BY DEF Returns
<1>3. CASE TakeAnswer(c)
  <2>1. PICK how \in {"result", "error", "dead"} :
          Return(c, how, Head(chan[Mine(c)]).of) /\ pending' = pending /\ chan[Mine(c)] # <<>>
    BY <1>3 DEF TakeAnswer
  <2>2. Head(chan[Mine(c)]).of = Mine(c) /\ Mine(c) \notin pending
    BY <1>1, <2>1 DEF RpcInv, OneSender
  <2>. QED
    BY <1>1, <1>2, <2>1, <2>2, ReturnInv
<1>4. CASE Expire(c)
  <2>1. Return(c, "timeout", 0) /\ pending' = pending \ {cid[c]}
    BY <1>4 DEF Expire
  <2>. QED
    BY <1>1, <1>2, <2>1, ReturnInv
<1>5. CASE SeeDone(c)
  <2>1. Return(c, "dead", 0) /\ pending' = pending /\ pending = {}
    BY <1>5 DEF SeeDone, RpcInv, OneSender
  <2>. QED
    BY <1>1, <1>2, <2>1, ReturnInv
<1>. QED
  BY <1>3, <1>4, <1>5

\* The reader takes an entry out before it sends, and finds the channel empty.
LEMMA ReadInv ==
  ASSUME RpcInv, ReadLine \/ Deliver \/ Reject \/ ReadEnds
  PROVE  RpcInv'
<1> USE DEF clientVars, chanVars, deadVars
<1>1. CASE ReadLine
  <2> DEFINE m == Head(wire)
  <2>1. /\ m \in Honest /\ m \in MsgSet /\ wire' = Tail(wire) /\ Tail(wire) \in Seq(Honest) /\ Tail(wire) \in Seq(MsgSet)
        /\ hand.kind \notin {"answer", "error"}
        /\ UNCHANGED <<calls, stage, cid, got, chan, chanOf, dead, done, victims, reading, stdin, asked>>
    BY <1>1 DEF ReadLine, RpcInv, RpcShape, Truthful, Nothing
  <2>2. CASE m.kind \in {"answer", "error"} /\ m.id \in pending
    <3>1. hand' = m /\ pending' = pending \ {m.id}
      BY <1>1, <2>2 DEF ReadLine, Taken
    <3>2. PICK i \in pending : i = m.id
      BY <2>2
    <3>3. i \in Ids /\ i \in 1..calls /\ chanOf[i] = i
      BY DEF RpcInv, RpcShape, Numbered, Ids
    <3>4. RpcShape' /\ Truthful' /\ OwnAnswer' /\ Numbered'
      BY <2>1, <3>1, <3>2, <3>3 DEF RpcInv, RpcShape, Truthful, OwnAnswer, Numbered, Mine
    <3>5. OneSender'
      BY <2>1, <2>2, <3>1, <3>2, <3>3 DEF RpcInv, OneSender, InHand
    <3>6. Waited'
      BY <2>1, <3>1 DEF RpcInv, Waited, Mine
    <3>. QED
      BY <3>4, <3>5, <3>6 DEF RpcInv
  <2>3. CASE ~(m.kind \in {"answer", "error"} /\ m.id \in pending)
    <3>1. pending' = pending /\ (hand' = Nothing \/ (hand' = m /\ m.kind = "request"))
      BY <1>1, <2>3 DEF ReadLine, Taken
    <3>2. Nothing \in MsgSet /\ Nothing \in Honest /\ Nothing.kind = "none"
      BY RpcAssumption DEF Nothing, MsgSet, Honest
    <3>3. hand' \in MsgSet /\ hand' \in Honest /\ hand'.kind \notin {"answer", "error"}
      BY <2>1, <3>1, <3>2
    <3>4. RpcShape' /\ Truthful' /\ OwnAnswer' /\ Numbered'
      BY <2>1, <3>1, <3>3 DEF RpcInv, RpcShape, Truthful, OwnAnswer, Numbered, Mine
    <3>5. OneSender' /\ Waited'
      BY <2>1, <3>1, <3>3 DEF RpcInv, OneSender, InHand, Waited, Mine
    <3>. QED
      BY <3>4, <3>5 DEF RpcInv
  <2>. QED
    BY <2>2, <2>3
<1>2. Nothing \in MsgSet /\ Nothing \in Honest /\ Nothing.kind = "none"
  BY RpcAssumption DEF Nothing, MsgSet, Honest
<1>3. CASE Deliver
  <2>0. PICK i \in 1..calls : i = hand.id /\ chanOf[i] = i /\ hand.of = i /\ InHand(i)
    BY <1>3 DEF Deliver, RpcInv, RpcShape, Truthful, Honest, Numbered, InHand
  <2>1. /\ hand.id \in Ids /\ chanOf[hand.id] = hand.id /\ hand.of = hand.id /\ hand.id <= calls
        /\ hand.id \notin pending /\ hand.id \notin victims
    <3>1. i \in Ids /\ i <= calls
      BY RpcAssumption DEF RpcInv, RpcShape, Ids
    <3>. QED
      BY <2>0, <3>1 DEF RpcInv, OneSender
  <2>2. /\ chan' = [chan EXCEPT ![hand.id] = <<hand>>] /\ hand' = Nothing
        /\ UNCHANGED <<calls, stage, cid, got, pending, chanOf, dead, done, victims, reading, stdin, wire, asked>>
    BY <1>3, <2>1 DEF Deliver, procVars
  <2>3. RpcShape' /\ Truthful' /\ OwnAnswer' /\ Numbered' /\ Waited'
    BY <1>2, <2>1, <2>2 DEF RpcInv, RpcShape, Truthful, OwnAnswer, Numbered, Waited, Mine
  <2>4. OneSender'
    BY <1>2, <2>1, <2>2 DEF RpcInv, RpcShape, OneSender, InHand
  <2>. QED
    BY <2>3, <2>4 DEF RpcInv
<1>4. CASE Reject
  <2>0. PICK m : m = [Nothing EXCEPT !.kind = "reply"]
    OBVIOUS
  <2>1. m \in MsgSet /\ m \in Honest
    BY <2>0, RpcAssumption DEF Nothing, MsgSet, Honest
  <2>2. /\ stdin' = Append(stdin, m) \/ stdin' = stdin
        /\ hand' = Nothing
        /\ UNCHANGED <<calls, stage, cid, got, pending, chan, chanOf, dead, done, victims, reading, wire, asked>>
    BY <1>4, <2>0 DEF Reject
  <2>3. stdin' \in Seq(MsgSet) /\ stdin' \in Seq(Honest)
    <3>1. stdin \in Seq(MsgSet) /\ stdin \in Seq(Honest)
      BY DEF RpcInv, RpcShape, Truthful
    <3>2. Append(stdin, m) \in Seq(MsgSet) /\ Append(stdin, m) \in Seq(Honest)
      BY <2>1, <3>1
    <3>. QED
      BY <2>2, <3>1, <3>2
  <2>4. RpcShape' /\ Truthful' /\ OwnAnswer' /\ Numbered' /\ Waited'
    BY <1>2, <2>2, <2>3 DEF RpcInv, RpcShape, Truthful, OwnAnswer, Numbered, Waited, Mine
  <2>5. OneSender'
    BY <1>2, <2>2 DEF RpcInv, OneSender, InHand
  <2>. QED
    BY <2>4, <2>5 DEF RpcInv
<1>5. CASE ReadEnds
  <2>1. /\ reading' \in {"failed", "eof"} /\ wire' = <<>>
        /\ UNCHANGED <<calls, stage, cid, got, pending, chan, chanOf, dead, done, victims, hand, stdin, asked>>
    BY <1>5 DEF ReadEnds
  <2>2. RpcShape' /\ Truthful' /\ OwnAnswer' /\ Numbered' /\ Waited'
    BY <2>1 DEF RpcInv, RpcShape, Truthful, OwnAnswer, Numbered, Waited, Mine
  <2>3. OneSender'
    BY <2>1 DEF RpcInv, OneSender, InHand
  <2>. QED
    BY <2>2, <2>3 DEF RpcInv
<1>. QED
  BY <1>1, <1>3, <1>4, <1>5

\* Whoever is pending when the client dies is told so, once.
LEMMA DeadInv ==
  ASSUME RpcInv, MarkDead \/ FailOne \/ CloseDone
  PROVE  RpcInv'
<1> USE DEF clientVars, chanVars, readVars, procVars
<1>1. CASE MarkDead
  <2>1. /\ dead' /\ victims' = pending /\ pending' = {}
        /\ UNCHANGED <<calls, stage, cid, got, chan, chanOf, done, hand, reading, stdin, wire, asked>>
    BY <1>1 DEF MarkDead, RpcInv, Numbered
  <2>2. RpcShape' /\ Truthful' /\ OwnAnswer' /\ Numbered' /\ Waited'
    BY <2>1 DEF RpcInv, RpcShape, Truthful, OwnAnswer, Numbered, Waited, Mine
  <2>3. OneSender'
    BY <2>1 DEF RpcInv, Numbered, OneSender, InHand
  <2>. QED
    BY <2>2, <2>3 DEF RpcInv
<1>2. CASE FailOne
  <2>1. PICK i \in victims : /\ chan[i] = <<>>
                             /\ chan' = [chan EXCEPT ![i] = <<[kind |-> "dead", id |-> 0, of |-> i]>>]
                             /\ victims' = victims \ {i}
    BY <1>2 DEF FailOne
  <2> DEFINE m == [kind |-> "dead", id |-> 0, of |-> i]
  <2>2. /\ i \in Ids /\ i \notin pending /\ ~InHand(i)
        /\ UNCHANGED <<calls, stage, cid, got, pending, chanOf, dead, done, hand, reading, stdin, wire, asked>>
    BY <1>2 DEF FailOne, RpcInv, RpcShape, OneSender
  <2>3. m \in MsgSet
    BY <2>2, RpcAssumption DEF MsgSet, Ids
  <2>6. chan' \in [Ids -> Seq(MsgSet)] /\ victims' \subseteq Ids
    BY <2>1, <2>2, <2>3 DEF RpcInv, RpcShape
  <2>4. RpcShape' /\ Truthful' /\ OwnAnswer' /\ Numbered' /\ Waited'
    <3>1. RpcShape'
      BY <2>2, <2>6 DEF RpcInv, RpcShape
    <3>2. Truthful' /\ OwnAnswer' /\ Numbered'
      BY <2>2 DEF RpcInv, Truthful, OwnAnswer, Numbered, Mine
    <3>3. Waited'
      BY <2>2 DEF RpcInv, Waited, Mine
    <3>. QED
      BY <3>1, <3>2, <3>3
  <2>5. OneSender'
    BY <2>1, <2>2 DEF RpcInv, RpcShape, OneSender, InHand
  <2>. QED
    BY <2>4, <2>5 DEF RpcInv
<1>3. CASE CloseDone
  <2>1. dead /\ UNCHANGED <<calls, stage, cid, got, pending, chan, chanOf, dead, victims, hand, reading, stdin, wire, asked>>
    BY <1>3 DEF CloseDone
  <2>2. RpcShape' /\ Truthful' /\ OwnAnswer' /\ Numbered' /\ Waited'
    BY <2>1 DEF RpcInv, RpcShape, Truthful, OwnAnswer, Numbered, Waited, Mine
  <2>3. OneSender'
    BY <2>1 DEF RpcInv, OneSender, InHand
  <2>. QED
    BY <2>2, <2>3 DEF RpcInv
<1>. QED
  BY <1>1, <1>2, <1>3

\* The process says nothing under an id but what was asked under it.
LEMMA ProcInv ==
  ASSUME RpcInv, ProcRead \/ ProcAnswer \/ ProcSpeak \/ ProcExit
  PROVE  RpcInv'
<1>1. UNCHANGED <<calls, stage, cid, got, pending, chan, chanOf, dead, done, victims, hand, reading>>
  BY DEF ProcRead, ProcAnswer, ProcSpeak, ProcExit, clientVars, chanVars, deadVars, readVars
<1>2. OwnAnswer' /\ Numbered' /\ OneSender' /\ Waited'
  BY <1>1 DEF RpcInv, OwnAnswer, Numbered, OneSender, InHand, Waited, Mine
<1>3. hand' \in Honest
  BY <1>1 DEF RpcInv, Truthful
<1>4. Honest \subseteq MsgSet
  BY DEF Honest
<1>5. /\ stdin' \in Seq(Honest) /\ wire' \in Seq(Honest)
      /\ asked' \subseteq {m \in Honest : m.kind = "call"}
  <2>1. CASE ProcRead
    BY <2>1 DEF ProcRead, RpcInv, Truthful
  <2>2. CASE ProcAnswer
    <3>1. PICK m \in asked, kind \in {"answer", "error"} :
            /\ wire' = Append(wire, [m EXCEPT !.kind = kind])
            /\ asked' \subseteq asked /\ stdin' = stdin
      BY <2>2 DEF ProcAnswer
    <3>2. m \in MsgSet /\ m.id = m.of
      BY DEF RpcInv, Truthful, Honest
    <3>3. [m EXCEPT !.kind = kind] \in Honest
      BY <3>2 DEF MsgSet, Honest
    <3>. QED
      BY <3>1, <3>3 DEF RpcInv, Truthful
  <2>3. CASE ProcSpeak
    <3>1. PICK kind \in {"request", "note"} : wire' = Append(wire, [Nothing EXCEPT !.kind = kind])
      BY <2>3 DEF ProcSpeak
    <3>2. [Nothing EXCEPT !.kind = kind] \in Honest
      BY RpcAssumption DEF Nothing, MsgSet, Honest
    <3>. QED
      BY <2>3, <3>1, <3>2 DEF ProcSpeak, RpcInv, Truthful
  <2>4. CASE ProcExit
    BY <2>4 DEF ProcExit, RpcInv, Truthful
  <2>. QED
    BY <2>1, <2>2, <2>3, <2>4
<1>6. stdin' \in Seq(MsgSet) /\ wire' \in Seq(MsgSet) /\ asked' \subseteq MsgSet
  BY <1>4, <1>5
<1>. QED
  BY <1>1, <1>2, <1>3, <1>5, <1>6 DEF RpcInv, RpcShape, Truthful

LEMMA RpcNextInv == RpcInv /\ [RpcNext]_rpcVars => RpcInv'
<1>1. CASE UNCHANGED rpcVars
  BY <1>1 DEF rpcVars, RpcInv, RpcShape, OwnAnswer, Truthful, Numbered, OneSender, InHand, Waited, Mine
<1>2. RpcInv /\ RpcNext => RpcInv'
  BY RegisterInv, WriteInv, WaitInv, ReadInv, DeadInv, ProcInv DEF RpcNext
<1>. QED
  BY <1>1, <1>2

LEMMA FlagsNext == RpcFlags /\ [RpcNext]_rpcVars => RpcFlags'
  BY Zenon DEF RpcFlags, RpcNext, rpcVars, Register, Write, TakeAnswer, Expire, SeeDone, ReadLine, Deliver,
     Reject, ReadEnds, MarkDead, FailOne, CloseDone, ProcRead, ProcAnswer, ProcSpeak, ProcExit,
     clientVars, chanVars, deadVars, readVars, procVars, Return

\* A call returns the answer to its own request or an error, whatever the process
\* answers late or twice, whatever was given up, and however many callers there are.
THEOREM OwnAnswers == RpcSpec => []OwnAnswer
<1>1. RpcInv => OwnAnswer
  BY DEF RpcInv
<1>. QED
  BY <1>1, RpcInitInv, RpcNextInv, PTL DEF RpcSpec

\* No entry outlives its call, none is left on a dead client, and neither the reader
\* nor markDead ever waits for room in a caller's channel.
THEOREM EntriesAreSound == RpcSpec => []PendingSound
<1>1. RpcInit => RpcFlags
  BY Zenon DEF RpcInit, RpcFlags
<1>2. RpcInv /\ RpcFlags => PendingSound
  <2>1. SUFFICES ASSUME RpcInv, RpcFlags PROVE PendingSound
    OBVIOUS
  <2>2. EntriesLive
    BY <2>1 DEF RpcInv, Waited, Numbered, OneSender, EntriesLive
  <2>3. SendersFree
    <3>1. ASSUME NEW i \in Ids, InHand(i) \/ i \in victims PROVE chan[i] = <<>>
      BY <2>1, <3>1 DEF RpcInv, OneSender
    <3>2. ASSUME hand.kind \in {"answer", "error"}
          PROVE  InHand(hand.id) /\ hand.id \in Ids /\ chanOf[hand.id] = hand.id
      BY <2>1, <3>2, RpcAssumption DEF RpcInv, RpcShape, Numbered, InHand, Ids
    <3>. QED
      BY <2>1, <3>1, <3>2 DEF RpcInv, RpcShape, SendersFree
  <2>. QED
    BY <2>1, <2>2, <2>3 DEF PendingSound, RpcTypeOK, RpcInv
<1>. QED
  BY <1>1, <1>2, RpcInitInv, RpcNextInv, FlagsNext, PTL DEF RpcSpec

-------------------------------------------------------------------------------
(***************************************************************************)
(* The tools. No tenant has a status of its own for Ollama, since what a   *)
(* tool call waits for from the daemon is about Codex.                     *)
(***************************************************************************)
Awaited == {"sent", "status first", "answered", "status answered"}

AboutCodex(j) == /\ DOMAIN j = {"tool", "tenant", "provider", "step", "code", "state"}
                 /\ j.step \in Awaited => j.provider = "codex"

ToolsInv ==
  /\ DOMAIN statuses = TenantIds /\ DOMAIN job = Clients
  /\ \A t \in TenantIds : DOMAIN statuses[t] = Providers /\ statuses[t]["ollama"] = NoStatus
  /\ \A c \in Clients : AboutCodex(job[c])

LEMMA ToolsInitInv == ToolsInit => ToolsInv
<1>1. AboutCodex(NoJob)
  BY DEF AboutCodex, NoJob, Awaited
<1>2. ToolsInit => /\ job = [c \in Clients |-> NoJob]
                   /\ statuses = [t \in TenantIds |-> [p \in Providers |-> NoStatus]]
  BY DEF ToolsInit
<1>. QED
  BY <1>1, <1>2 DEF ToolsInv, Providers

\* What the steps of a call make of its record.
LEMMA JobSteps ==
  ASSUME NEW j, AboutCodex(j), NEW step, NEW code, NEW state
  PROVE  /\ step \notin Awaited \/ j.provider = "codex" =>
              /\ AboutCodex([j EXCEPT !.step = step])
              /\ AboutCodex([j EXCEPT !.step = step, !.state = state])
              /\ AboutCodex([j EXCEPT !.step = step, !.code = code, !.state = state])
  BY DEF AboutCodex

LEMMA ToolsNextInv == ToolsInv /\ [ToolsNext]_toolVars => ToolsInv'
<1> SUFFICES ASSUME ToolsInv, [ToolsNext]_toolVars PROVE ToolsInv'
  OBVIOUS
<1>1. ASSUME statuses' = statuses, job' = job PROVE ToolsInv'
  BY <1>1 DEF ToolsInv, AboutCodex
<1>2. ASSUME NEW c \in Clients, NEW j, statuses' = statuses, job' = [job EXCEPT ![c] = j], AboutCodex(j)
      PROVE  ToolsInv'
  BY <1>2 DEF ToolsInv
<1>3. "chat" \notin Awaited /\ "out" \notin Awaited
  BY DEF Awaited
<1>4. ASSUME NEW c \in Clients, CallTool(c) \/ CallInvoke(c) PROVE ToolsInv'
  <2>1. PICK tool, t, p, start : /\ start = [NoJob EXCEPT !.tool = tool, !.tenant = t, !.provider = p]
                                 /\ statuses' = statuses
                                 /\ \/ p = "codex" /\ Request(c, start)
                                    \/ Set(c, [start EXCEPT !.step = "chat"])
                                    \/ \E state : Set(c, [start EXCEPT !.step = "out", !.state = state])
    BY <1>4 DEF CallTool, CallInvoke, Managed
  <2>2. AboutCodex(start) /\ start.provider = p
    BY <2>1 DEF NoJob, AboutCodex, Awaited
  <2>3. CASE p = "codex" /\ Request(c, start)
    <3>1. PICK step : Set(c, [start EXCEPT !.step = step])
      BY <2>3 DEF Request
    <3>. QED
      BY <1>2, <2>1, <2>2, <2>3, <3>1, JobSteps DEF Set
  <2>4. CASE Set(c, [start EXCEPT !.step = "chat"])
    BY <1>2, <1>3, <2>1, <2>2, <2>4, JobSteps DEF Set
  <2>5. ASSUME NEW state, Set(c, [start EXCEPT !.step = "out", !.state = state]) PROVE ToolsInv'
    BY <1>2, <1>3, <2>1, <2>2, <2>5, JobSteps DEF Set
  <2>. QED
    BY <2>1, <2>3, <2>4, <2>5
<1>5. ASSUME NEW c \in Clients, Chat(c) \/ Unavailable(c) \/ Handle(c) \/ InvokeNext(c) PROVE ToolsInv'
  <2>1. AboutCodex(job[c]) /\ statuses' = statuses
    BY <1>5 DEF ToolsInv, Chat, Unavailable, Handle, InvokeNext
  <2>2. ASSUME NEW state, Reply(c, state) PROVE ToolsInv'
    BY <1>2, <1>3, <2>1, <2>2, JobSteps DEF Reply, Set
  <2>3. ASSUME job[c].step \in Awaited, NEW code, NEW state, Respond(c, code, state) PROVE ToolsInv'
    <3>1. job[c].provider = "codex"
      BY <2>1, <2>3 DEF AboutCodex
    <3>2. PICK step : Set(c, [job[c] EXCEPT !.step = step, !.code = code, !.state = state])
      BY <2>3 DEF Respond
    <3>. QED
      BY <1>2, <2>1, <3>1, <3>2, JobSteps DEF Set
  <2>4. ASSUME job[c].step \in Awaited, Request(c, job[c]) PROVE ToolsInv'
    <3>1. job[c].provider = "codex"
      BY <2>1, <2>4 DEF AboutCodex
    <3>2. PICK step : Set(c, [job[c] EXCEPT !.step = step])
      BY <2>4 DEF Request
    <3>. QED
      BY <1>2, <2>1, <3>1, <3>2, JobSteps DEF Set
  <2>5. CASE Chat(c) \/ Unavailable(c) \/ InvokeNext(c)
    BY <2>2, <2>4, <2>5 DEF Chat, Unavailable, InvokeNext, Awaited
  <2>6. CASE Handle(c)
    <3>1. job[c].step \in Awaited
      BY <2>6 DEF Handle, Awaited
    <3>2. \/ Respond(c, 401, "error") \/ Respond(c, 502, "error") \/ Respond(c, 200, Remote(job[c].tenant))
          \/ Respond(c, 409, "error") \/ Respond(c, 200, "connecting") \/ Respond(c, 200, "disconnected")
          \/ Respond(c, 200, "text") \/ \E code \in {400, 413, 504} : Respond(c, code, "error")
      BY <2>6 DEF Handle
    <3>3. PICK code, state : Respond(c, code, state)
      BY <3>2
    <3>. QED
      BY <2>3, <3>1, <3>3
  <2>. QED
    BY <1>5, <2>5, <2>6
<1>6. ASSUME NEW c \in Clients, ApplyStatus(c) \/ ApplyAction(c) PROVE ToolsInv'
  <2>1. /\ AboutCodex(job[c]) /\ job[c].provider = "codex"
        /\ \/ SetStatus(job[c].tenant, "codex", job[c].state)
           \/ statuses' = statuses
        /\ Reply(c, job[c].state)
    BY <1>6, ZenonT(60) DEF ToolsInv, AboutCodex, Awaited, ApplyStatus, ApplyAction
  <2>2. /\ DOMAIN statuses' = TenantIds
        /\ \A t \in TenantIds : DOMAIN statuses'[t] = Providers /\ statuses'[t]["ollama"] = NoStatus
    BY <2>1 DEF SetStatus, ToolsInv, Providers
  <2>3. DOMAIN job' = Clients /\ \A d \in Clients : AboutCodex(job'[d])
    BY <1>3, <2>1, JobSteps DEF Reply, Set, ToolsInv
  <2>. QED
    BY <2>2, <2>3 DEF ToolsInv
<1>7. CASE Probe \/ Refresh \/ (World /\ UNCHANGED <<defaults, statuses, probe, sameToken, job>>)
  BY <1>1, <1>7 DEF Probe, Refresh
<1>8. CASE UNCHANGED toolVars
  BY <1>1, <1>8 DEF toolVars
<1>. QED
  BY <1>4, <1>5, <1>6, <1>7, <1>8 DEF ToolsNext

\* Whatever the tenants' tool calls store, and however late, each of them sees what
\* the monitor's last probe of Ollama found.
THEOREM ProbesReach == ToolsSpec => []ProbeReaches
<1>1. ToolsInv => ProbeReaches
  BY DEF ToolsInv, ProbeReaches, Status
<1>. QED
  BY <1>1, ToolsInitInv, ToolsNextInv, PTL DEF ToolsSpec

-------------------------------------------------------------------------------
(***************************************************************************)
(* Invocations. Answers and events come through one pipe in order, and a   *)
(* deleted thread is silent (Ordered): so once the answer to thread/delete *)
(* is read nothing more is heard of that turn, nor of one that was never   *)
(* started (Silent). What the current invocation hears of is then its own  *)
(* turn or one whose deletion went unanswered, and it takes in nothing     *)
(* before it knows a thread (Owned).                                       *)
(***************************************************************************)
Places == Calls \cup {"new", "listen", "out"}
Late == {"turn/interrupt", "thread/unsubscribe", "thread/delete", "out"}
Early == {"new", "account/read", "thread/start"}
Out == [kind : {"answer"} \cup Events, src : Invocations, what : Calls \cup {""}, ok : BOOLEAN]
Asked == [by : Invocations, what : Calls]

InvShape(v) ==
  /\ DOMAIN v = {"thread", "turn", "deltas", "final", "status", "failure", "done", "seen"}
  /\ v.thread \in Nat /\ v.turn \in Nat /\ v.final \in Nat /\ v.deltas \in Seq(Nat)

TurnShape ==
  /\ place \in [Invocations -> Places] /\ outcome \in [Invocations -> {"none", "ok", "error"}]
  /\ invokeMu \subseteq Invocations
  /\ requests \subseteq Asked /\ output \in Seq(Out)
  /\ running \subseteq Invocations

\* Every turn whose text or ids v has taken in.
Sources(v) == ({v.thread, v.turn, v.final} \cup {v.deltas[k] : k \in DOMAIN v.deltas}) \ {0}

Seen(v) == v.seen => v.failure # ""

Owned(i, v) ==
  /\ Sources(v) \ {i} \subseteq lost
  /\ v.thread = i => Sources(v) \subseteq {i}
  /\ v.thread = 0 => Sources(v) = {}

CaughtOut == \A i \in Invocations : i \in caught => outcome[i] = "error" /\ place[i] \in Late

Holder ==
  /\ \A i \in Invocations : i \in invokeMu <=> place[i] \notin {"new", "out"}
  /\ \A i, j \in invokeMu : i = j
  /\ current # 0 => current \in invokeMu
  /\ current = 0 => inv = Fresh
  /\ \A i \in invokeMu : place[i] # "account/read" => current = i
  /\ \A i \in invokeMu : place[i] \notin {"account/read", "thread/start"} => inv.thread # 0

Eventless(q, j) == \A k \in DOMAIN q : ~(q[k].kind \in Events /\ q[k].src = j)

Ordered ==
  /\ \A j \in running : j \notin gone
  /\ \A k \in DOMAIN output : (output[k].kind = "answer" /\ output[k].what = "thread/delete") =>
       /\ output[k].src \in gone
       /\ \A l \in DOMAIN output : l > k => ~(output[l].kind \in Events /\ output[l].src = output[k].src)

Silenced(j) ==
  /\ j \notin running /\ Eventless(output, j)
  /\ j \in gone \/ [by |-> j, what |-> "turn/start"] \notin requests

Silent == \A j \in Invocations : place[j] \in Early \/ (place[j] = "out" /\ j \notin lost) => Silenced(j)

InvInv == InvShape(inv) /\ Seen(inv) /\ \A i \in invokeMu : Owned(i, inv)

TurnInv == TurnShape /\ CaughtOut /\ Holder /\ Ordered /\ Silent /\ InvInv

LEMMA FreshInv == InvShape(Fresh) /\ Seen(Fresh) /\ Sources(Fresh) = {}
  BY DEF InvShape, Fresh, Seen, Sources

LEMMA TurnInitInv == TurnInit => TurnInv
<1> SUFFICES ASSUME TurnInit PROVE TurnInv
  OBVIOUS
<1>1. TurnShape /\ CaughtOut
  BY DEF TurnInit, TurnShape, CaughtOut, Places
<1>2. Holder
  BY DEF TurnInit, Holder
<1>3. Ordered /\ Silent
  BY DEF TurnInit, Ordered, Silent, Silenced, Eventless
<1>4. InvInv
  BY FreshInv DEF TurnInit, InvInv
<1>. QED
  BY <1>1, <1>2, <1>3, <1>4 DEF TurnInv

\* An event is taken in, or it is not; taken in it comes from the turn it names, which
\* is the one the invocation knows if it knows one.
LEMMA HeardIs ==
  ASSUME NEW v, InvShape(v), Seen(v), NEW m \in Out, m.kind \in Events
  PROVE  LET w == Heard(v, m) IN
         /\ InvShape(w) /\ Seen(w)
         /\ \/ w.thread = v.thread /\ Sources(w) = Sources(v)
            \/ /\ v.thread \in {0, m.src} /\ w.thread = m.src
               /\ Sources(w) \subseteq Sources(v) \cup {m.src}
<1> DEFINE u == Adopt(v, m.src)
<1>1. m.src \in Nat \ {0}
  BY TurnAssumption DEF Out
<1>2. CASE m.kind = "error"
  <2>1. Heard(v, m) = [v EXCEPT !.failure = "other"]
    BY <1>2 DEF Heard
  <2>. QED
    <3>1. /\ Heard(v, m).thread = v.thread /\ Heard(v, m).turn = v.turn
          /\ Heard(v, m).final = v.final /\ Heard(v, m).deltas = v.deltas
          /\ DOMAIN Heard(v, m) = DOMAIN v /\ Heard(v, m).failure = "other"
      BY <2>1 DEF InvShape
    <3>. QED
      BY <3>1 DEF InvShape, Seen, Sources
<1>3. CASE m.kind # "error" /\ ~Accepts(v, m.src)
  BY <1>3 DEF Heard
<1>4. CASE m.kind # "error" /\ Accepts(v, m.src)
  <2>1. Heard(v, m) = Handled(u, m)
    BY <1>4 DEF Heard
  <2>2. /\ InvShape(u) /\ Seen(u) /\ u.thread = m.src /\ v.thread \in {0, m.src}
        /\ u.turn = m.src /\ u.final = v.final /\ u.deltas = v.deltas
    BY <1>1, <1>4 DEF Accepts, Adopt, InvShape, Seen
  <2> DEFINE h == Handled(u, m)
  <2>3. /\ DOMAIN h = DOMAIN u /\ h.thread = u.thread /\ h.turn = u.turn
        /\ h.final \in {u.final, m.src}
        /\ h.deltas = u.deltas \/ h.deltas = Append(u.deltas, m.src)
        /\ Seen(h)
    <3>1. \/ h = [u EXCEPT !.failure = "large", !.done = TRUE]
          \/ h = [u EXCEPT !.deltas = Append(@, m.src)]
          \/ h = [u EXCEPT !.final = m.src]
          \/ h = [u EXCEPT !.failure = "tool", !.done = TRUE, !.seen = TRUE]
          \/ h = [u EXCEPT !.status = "completed", !.final = m.src, !.done = TRUE]
          \/ h = [u EXCEPT !.status = "completed", !.failure = "tool", !.done = TRUE, !.seen = TRUE]
          \/ h = [u EXCEPT !.status = "failed", !.failure = "other", !.done = TRUE]
      BY <1>4 DEF Handled, Events, Forbidden
    <3>. QED
      BY <2>2, <3>1 DEF InvShape, Seen
  <2>4. h.final \in Nat /\ h.deltas \in Seq(Nat)
    BY <1>1, <2>2, <2>3, SMTT(40) DEF InvShape
  <2>5. \A k \in DOMAIN h.deltas : (k \in DOMAIN v.deltas /\ h.deltas[k] = v.deltas[k]) \/ h.deltas[k] = m.src
    BY <1>1, <2>2, <2>3 DEF InvShape
  <2>6. Sources(h) \subseteq Sources(v) \cup {m.src}
    BY <2>2, <2>3, <2>5 DEF Sources
  <2>7. InvShape(h)
    BY <2>2, <2>3, <2>4 DEF InvShape
  <2> HIDE DEF h
  <2>. QED
    BY <2>1, <2>2, <2>3, <2>6, <2>7 DEF h
<1>. QED
  BY <1>2, <1>3, <1>4

\* A step of the session reads at most the next line, and the process's part stays.
Reads == /\ output' = output \/ (output # <<>> /\ output' = Tail(output))
         /\ UNCHANGED <<running, gone>>

LEMMA ReadsKeep ==
  ASSUME TurnInv, Reads
  PROVE  /\ output' \in Seq(Out) /\ Ordered'
         /\ \A j : Eventless(output, j) => Eventless(output', j)
<1>1. output \in Seq(Out)
  BY DEF TurnInv, TurnShape
<1>2. CASE output' = output
  BY <1>1, <1>2 DEF Reads, TurnInv, Ordered
<1>3. CASE output # <<>> /\ output' = Tail(output)
  <2>1. /\ output' \in Seq(Out)
        /\ \A k \in DOMAIN output' : k \in Nat /\ k + 1 \in DOMAIN output /\ output'[k] = output[k + 1]
    BY <1>1, <1>3
  <2>2. Ordered'
    <3>1. ASSUME NEW k \in DOMAIN output', output'[k].kind = "answer", output'[k].what = "thread/delete"
          PROVE  /\ output'[k].src \in gone
                 /\ \A l \in DOMAIN output' : l > k => ~(output'[l].kind \in Events /\ output'[l].src = output'[k].src)
      <4>1. k + 1 \in DOMAIN output /\ output[k + 1] = output'[k]
        BY <2>1
      <4>2. \A l \in DOMAIN output' : l > k => l + 1 > k + 1
        BY <2>1
      <4>. QED
        BY <2>1, <3>1, <4>1, <4>2 DEF TurnInv, Ordered
    <3>. QED
      BY <3>1 DEF Reads, TurnInv, Ordered
  <2>. QED
    BY <2>1, <2>2 DEF Eventless
<1>. QED
  BY <1>2, <1>3 DEF Reads

\* The holder goes on: to its next call, or to listen.
LEMMA Moves ==
  ASSUME TurnInv, Reads, NEW i \in invokeMu, NEW w \in Places \ {"new", "out"},
         place' = [place EXCEPT ![i] = w], UNCHANGED <<invokeMu, lost>>,
         requests' = requests \/ (w \in Calls /\ requests' = requests \cup {[by |-> i, what |-> w]}),
         w \in Early => w = "thread/start" /\ place[i] = "account/read",
         caught' \subseteq caught \cup {i},
         outcome' \in [Invocations -> {"none", "ok", "error"}],
         \A j \in Invocations : j # i => outcome'[j] = outcome[j],
         i \in caught' => outcome'[i] = "error" /\ w \in Late,
         InvInv', current' = i, w # "thread/start" => inv'.thread # 0
  PROVE  TurnInv'
<1>1. i \in Invocations /\ i # 0 /\ w # "account/read"
  BY TurnAssumption DEF TurnInv, TurnShape, Early
<1>2. TurnShape'
  <2>1. place' \in [Invocations -> Places]
    BY <1>1 DEF TurnInv, TurnShape
  <2>2. requests' \subseteq Asked
    BY <1>1 DEF TurnInv, TurnShape, Asked
  <2>. QED
    BY <2>1, <2>2, ReadsKeep DEF TurnInv, TurnShape, Reads
<1>3. CaughtOut'
  BY <1>1 DEF TurnInv, TurnShape, CaughtOut
<1>4. Holder'
  BY <1>1 DEF TurnInv, TurnShape, Holder
<1>5. Silent'
  <2>1. SUFFICES ASSUME NEW j \in Invocations,
                        place'[j] \in Early \/ (place'[j] = "out" /\ j \notin lost)
                 PROVE  Silenced(j)'
    BY DEF Silent
  <2>2. Silenced(j)
    BY <1>1, <2>1 DEF TurnInv, TurnShape, Silent, Early
  <2>3. [by |-> j, what |-> "turn/start"] \in requests' => [by |-> j, what |-> "turn/start"] \in requests
    BY <1>1, <2>1 DEF TurnInv, TurnShape, Early
  <2>. QED
    BY <2>2, <2>3, ReadsKeep DEF Silenced, Reads
<1>. QED
  BY <1>2, <1>3, <1>4, <1>5, ReadsKeep DEF TurnInv

\* The holder leaves: its turn is silent, or its deletion is lost.
LEMMA Leaves ==
  ASSUME TurnInv, Reads, NEW i \in invokeMu, NEW how \in {"none", "ok", "error"}, Leave(i, how),
         caught' = caught, i \in caught => how = "error", lost \subseteq lost',
         requests' = requests \/ requests' = requests \cup {[by |-> i, what |-> "thread/delete"]},
         i \in lost' \/ Silenced(i)
  PROVE  TurnInv'
<1>1. i \in Invocations
  BY DEF TurnInv, TurnShape
<1>2. TurnShape'
  BY <1>1, ReadsKeep DEF TurnInv, TurnShape, Asked, Reads, Leave, Go, Places, Calls
<1>3. CaughtOut'
  BY <1>1 DEF TurnInv, TurnShape, CaughtOut, Leave, Go, Late
<1>4. Holder'
  BY <1>1 DEF TurnInv, TurnShape, Holder, Leave, Go
<1>5. Silent'
  <2>1. SUFFICES ASSUME NEW j \in Invocations,
                        place'[j] \in Early \/ (place'[j] = "out" /\ j \notin lost')
                 PROVE  Silenced(j)'
    BY DEF Silent
  <2>2. Silenced(j)
    BY <1>1, <2>1 DEF TurnInv, TurnShape, Silent, Early, Leave, Go
  <2>3. [by |-> j, what |-> "turn/start"] \in requests' => [by |-> j, what |-> "turn/start"] \in requests
    OBVIOUS
  <2>. QED
    BY <2>2, <2>3, ReadsKeep DEF Silenced, Reads
<1>6. InvInv'
  BY FreshInv DEF InvInv, Leave
<1>. QED
  BY <1>2, <1>3, <1>4, <1>5, <1>6, ReadsKeep DEF TurnInv

\* The cleanup and the interrupt are moves of the holder.
LEMMA EndsTurn ==
  ASSUME TurnInv, Reads, NEW i \in invokeMu, NEW how \in {"none", "ok", "error"},
         Cleanup(i, how) \/ Interrupt(i, how), UNCHANGED <<invokeMu, current, inv, lost>>,
         place[i] \notin {"account/read", "thread/start"},
         caught' \subseteq caught \cup {i}, i \in caught' => how = "error"
  PROVE  TurnInv'
<1>1. PICK w \in {"thread/unsubscribe", "turn/interrupt"} :
        /\ place' = [place EXCEPT ![i] = w]
        /\ requests' = requests \cup {[by |-> i, what |-> w]}
        /\ outcome' = [outcome EXCEPT ![i] = how]
  BY DEF Cleanup, Interrupt, Send, Go
<1>2. /\ w \in Places \ {"new", "out"} /\ w \in Calls /\ w \notin Early /\ w \in Late
  BY <1>1 DEF Places, Calls, Early, Late
<1>3. i \in Invocations
  BY DEF TurnInv, TurnShape
<1>4. /\ outcome' \in [Invocations -> {"none", "ok", "error"}] /\ outcome'[i] = how
      /\ \A j \in Invocations : j # i => outcome'[j] = outcome[j]
  BY <1>1, <1>3 DEF TurnInv, TurnShape
<1>5. InvInv' /\ current' = i /\ inv'.thread # 0
  BY DEF TurnInv, InvInv, Owned, Holder
<1>. QED
  BY <1>1, <1>2, <1>4, <1>5, Moves

LEMMA InvokeInv ==
  ASSUME TurnInv, NEW i \in Invocations, Invoke(i)
  PROVE  TurnInv'
<1>1. /\ place[i] = "new" /\ invokeMu = {} /\ invokeMu' = {i} /\ place' = [place EXCEPT ![i] = "account/read"]
      /\ requests' = requests \cup {[by |-> i, what |-> "account/read"]}
      /\ UNCHANGED <<current, inv, caught, outcome, stopped, lost, output, running, gone>>
  BY DEF Invoke, Send, Go
<1>2. TurnShape'
  BY <1>1 DEF TurnInv, TurnShape, Asked, Places, Calls
<1>3. CaughtOut'
  BY <1>1 DEF TurnInv, TurnShape, CaughtOut, Late
<1>4. current = 0 /\ inv = Fresh
  BY <1>1 DEF TurnInv, Holder
<1>5. Holder'
  BY <1>1, <1>4 DEF TurnInv, TurnShape, Holder
<1>6. Ordered'
  BY <1>1 DEF TurnInv, Ordered
<1>7. Silent'
  BY <1>1 DEF TurnInv, TurnShape, Silent, Silenced, Eventless, Early
<1>8. InvInv'
  BY <1>1, <1>4, FreshInv DEF InvInv, Owned, Fresh
<1>. QED
  BY <1>2, <1>3, <1>5, <1>6, <1>7, <1>8 DEF TurnInv

\* Who waits holds invokeMu.
LEMMA Waiting ==
  ASSUME TurnInv, NEW i \in Invocations, place[i] \notin {"new", "out"}
  PROVE  /\ i \in invokeMu /\ outcome[i] \in {"none", "ok", "error"}
         /\ i \in caught => outcome[i] = "error"
  BY DEF TurnInv, TurnShape, Holder, CaughtOut

LEMMA TurnDoneInv ==
  ASSUME TurnInv, NEW i \in Invocations, TurnDone(i)
  PROVE  TurnInv'
<1>1. /\ i \in invokeMu /\ Reads /\ UNCHANGED <<invokeMu, current, inv, lost>>
      /\ i \notin caught /\ place[i] = "listen"
  BY Waiting DEF TurnDone, Reads, TurnInv, CaughtOut, Late
<1>2. caught' \subseteq caught \cup {i} /\ (i \in caught' => inv.failure # "")
  BY <1>1 DEF TurnDone, TurnInv, InvInv, Seen
<1>3. CASE inv.failure \in {"tool", "large"}
  <2>1. Interrupt(i, "error")
    BY <1>3 DEF TurnDone
  <2>. QED
    BY <1>1, <1>2, <2>1, EndsTurn
<1>4. CASE inv.failure \notin {"tool", "large"}
  <2>1. Cleanup(i, Verdict(inv))
    BY <1>4 DEF TurnDone
  <2>2. Verdict(inv) \in {"ok", "error"} /\ (i \in caught' => Verdict(inv) = "error")
    BY <1>2 DEF Verdict
  <2>. QED
    BY <1>1, <1>2, <2>1, <2>2, EndsTurn
<1>. QED
  BY <1>3, <1>4

LEMMA TimeOutInv ==
  ASSUME TurnInv, NEW i \in Invocations, TimeOut(i)
  PROVE  TurnInv'
<1>1. i \in invokeMu /\ Reads /\ caught' = caught /\ lost' = lost /\ i \notin caught
  BY Waiting DEF TimeOut, Reads, TurnInv, CaughtOut, Late
<1>2. CASE place[i] \in {"account/read", "thread/start"}
  <2>1. Leave(i, "error") /\ requests' = requests
    BY <1>2 DEF TimeOut
  <2>2. Silenced(i)
    BY <1>2 DEF TurnInv, Silent, Early
  <2>. QED
    BY <1>1, <2>1, <2>2, Leaves
<1>3. CASE place[i] \in {"turn/start", "listen"}
  <2>1. Cleanup(i, "error") \/ Interrupt(i, "error")
    BY <1>3 DEF TimeOut
  <2>2. UNCHANGED <<invokeMu, current, inv>>
    BY <1>3 DEF TimeOut
  <2>. QED
    BY <1>1, <1>3, <2>1, <2>2, EndsTurn
<1>. QED
  BY <1>2, <1>3 DEF TimeOut

LEMMA GiveUpInv ==
  ASSUME TurnInv, NEW i \in Invocations, GiveUp(i)
  PROVE  TurnInv'
<1>1. /\ i \in invokeMu /\ Reads /\ caught' = caught
      /\ outcome[i] \in {"none", "ok", "error"} /\ (i \in caught => outcome[i] = "error")
  BY Waiting DEF GiveUp, Reads
<1>2. CASE place[i] = "turn/interrupt"
  <2>1. Cleanup(i, outcome[i]) /\ UNCHANGED <<invokeMu, current, inv, lost>>
    BY <1>2 DEF GiveUp
  <2>. QED
    BY <1>1, <1>2, <2>1, EndsTurn
<1>3. CASE place[i] \in {"thread/unsubscribe", "thread/delete"}
  <2>1. /\ Leave(i, outcome[i]) /\ lost' = lost \cup {i}
        /\ requests' = requests \/ requests' = requests \cup {[by |-> i, what |-> "thread/delete"]}
    BY <1>3 DEF GiveUp, Send
  <2>. QED
    BY <1>1, <2>1, Leaves
<1>. QED
  BY <1>2, <1>3 DEF GiveUp

\* The id the invocation is told is its own is taken over only where it knows none.
LEMMA ToldInv ==
  ASSUME TurnInv, NEW i \in invokeMu, UNCHANGED <<invokeMu, lost>>,
         \/ inv' = inv
         \/ inv' = [inv EXCEPT !.thread = IF @ = 0 THEN i ELSE @]
         \/ inv' = [inv EXCEPT !.turn = IF @ = 0 THEN i ELSE @] /\ inv.thread # 0
  PROVE  InvInv'
<1>1. /\ i \in Nat \ {0} /\ InvShape(inv) /\ Seen(inv) /\ Owned(i, inv)
      /\ \A j \in invokeMu' : j = i
  BY TurnAssumption DEF TurnInv, TurnShape, InvInv, Holder
<1>2. InvShape(inv)' /\ Seen(inv)' /\ inv'.final = inv.final /\ inv'.deltas = inv.deltas
  BY <1>1 DEF InvShape, Seen
<1>3. /\ inv'.thread = inv.thread \/ (inv.thread = 0 /\ inv'.thread = i /\ inv'.turn = inv.turn)
      /\ inv'.turn = inv.turn \/ (inv'.turn = i /\ inv.thread # 0 /\ inv'.thread = inv.thread)
  BY <1>1 DEF InvShape
<1>4. /\ Sources(inv') \subseteq Sources(inv) \cup {i}
      /\ inv'.thread = 0 => Sources(inv') = Sources(inv)
  BY <1>2, <1>3 DEF Sources
<1>5. Owned(i, inv)'
  BY <1>1, <1>2, <1>3, <1>4 DEF Owned
<1>. QED
  BY <1>1, <1>2, <1>5 DEF InvInv

LEMMA AnsweredInv ==
  ASSUME TurnInv, output # <<>>, output' = Tail(output), UNCHANGED <<caught, running, gone>>,
         NEW m, m = Head(output), m.kind = "answer", place[m.src] = m.what, Answered(m.src, m)
  PROVE  TurnInv'
<1> DEFINE i == m.src
<1>1. /\ i \in Invocations /\ m \in Out /\ Reads /\ output \in Seq(Out)
      /\ 1 \in DOMAIN output /\ output[1] = m
  <2>1. output \in Seq(Out)
    BY DEF TurnInv, TurnShape
  <2>2. m \in Out /\ 1 \in DOMAIN output /\ output[1] = m
    BY <2>1
  <2>3. m.src \in Invocations
    BY <2>2 DEF Out
  <2>. QED
    BY <2>1, <2>2, <2>3 DEF Reads
<1>2. place[i] \in Calls => i \in invokeMu /\ outcome[i] \in {"none", "ok", "error"}
                            /\ (i \in caught => outcome[i] = "error")
  BY <1>1, Waiting DEF Calls
<1>3. i \in caught => place[i] \in Late
  BY <1>1 DEF TurnInv, CaughtOut
<1>4. outcome' = outcome => outcome' \in [Invocations -> {"none", "ok", "error"}]
  BY DEF TurnInv, TurnShape
<1>5. (i \in invokeMu /\ place[i] # "account/read") => current = i
  BY DEF TurnInv, Holder
<1>6. CASE m.what = "account/read"
  <2>1. i \in invokeMu /\ Silenced(i)
    BY <1>1, <1>2, <1>6 DEF Calls, TurnInv, Silent, Early
  <2>2. CASE /\ place' = [place EXCEPT ![i] = "thread/start"] /\ current' = i
             /\ requests' = requests \cup {[by |-> i, what |-> "thread/start"]}
             /\ UNCHANGED <<invokeMu, inv, outcome, lost>>
    <3>1. InvInv'
      BY <2>1, <2>2, ToldInv
    <3>2. "thread/start" \in Places \ {"new", "out"} /\ "thread/start" \in Calls
      BY DEF Places, Calls
    <3>3. i \notin caught /\ i # 0
      BY <1>1, <1>3, <1>6, TurnAssumption DEF Late
    <3>. QED
      BY <1>1, <1>4, <1>6, <2>1, <2>2, <3>1, <3>2, <3>3, Moves
  <2>3. CASE Leave(i, "error") /\ UNCHANGED <<requests, lost>>
    BY <1>1, <2>1, <2>3, Leaves
  <2>. QED
    BY <1>6, <2>2, <2>3 DEF Answered, Send, Go
<1>7. CASE m.what = "thread/start"
  <2>1. i \in invokeMu /\ Silenced(i)
    BY <1>1, <1>2, <1>7 DEF Calls, TurnInv, Silent, Early
  <2>2. CASE /\ place' = [place EXCEPT ![i] = "turn/start"]
             /\ requests' = requests \cup {[by |-> i, what |-> "turn/start"]}
             /\ inv' = [inv EXCEPT !.thread = IF @ = 0 THEN i ELSE @]
             /\ UNCHANGED <<invokeMu, current, outcome, lost>>
    <3>1. InvInv'
      BY <2>1, <2>2, ToldInv
    <3>2. "turn/start" \in Places \ {"new", "out"} /\ "turn/start" \in Calls /\ "turn/start" \notin Early
      BY DEF Places, Calls, Early
    <3>3. i \notin caught
      BY <1>3, <1>7 DEF Late
    <3>4. current' = i /\ inv'.thread # 0
      BY <1>1, <1>5, <1>7, <2>1, <2>2, TurnAssumption DEF TurnInv, InvInv, InvShape
    <3>. QED
      BY <1>1, <1>4, <1>5, <2>1, <2>2, <3>1, <3>2, <3>3, <3>4, Moves
  <2>3. CASE Leave(i, "error") /\ UNCHANGED <<requests, lost>>
    BY <1>1, <2>1, <2>3, Leaves
  <2>. QED
    BY <1>7, <2>2, <2>3 DEF Answered, Send, Go
<1>8. CASE m.what = "turn/start"
  <2>1. i \in invokeMu /\ i \notin caught
    BY <1>2, <1>3, <1>8 DEF Calls, Late
  <2>2. CASE /\ place' = [place EXCEPT ![i] = "listen"]
             /\ inv' = [inv EXCEPT !.turn = IF @ = 0 THEN i ELSE @]
             /\ UNCHANGED <<invokeMu, current, outcome, requests, lost>>
    <3>1. inv.thread # 0 /\ current = i
      BY <1>5, <1>8, <2>1 DEF TurnInv, Holder
    <3>2. InvInv'
      BY <2>1, <2>2, <3>1, ToldInv
    <3>3. "listen" \in Places \ {"new", "out"} /\ "listen" \notin Early
      BY DEF Places, Calls, Early
    <3>4. inv'.thread # 0
      BY <2>2, <3>1 DEF TurnInv, InvInv, InvShape
    <3>. QED
      BY <1>1, <1>4, <2>1, <2>2, <3>1, <3>2, <3>3, <3>4, Moves
  <2>3. CASE Cleanup(i, "error") /\ UNCHANGED <<invokeMu, current, inv, lost>>
    BY <1>1, <1>8, <2>1, <2>3, EndsTurn
  <2>. QED
    BY <1>8, <2>2, <2>3 DEF Answered, Go
<1>9. CASE m.what = "turn/interrupt"
  <2>1. Cleanup(i, outcome[i]) /\ UNCHANGED <<invokeMu, current, inv, lost>>
    BY <1>9 DEF Answered
  <2>. QED
    BY <1>1, <1>2, <1>9, <2>1, EndsTurn DEF Calls
<1>10. CASE m.what = "thread/unsubscribe"
  <2>1. /\ place' = [place EXCEPT ![i] = "thread/delete"]
        /\ requests' = requests \cup {[by |-> i, what |-> "thread/delete"]}
        /\ UNCHANGED <<invokeMu, current, inv, outcome, lost>>
    BY <1>10 DEF Answered, Send, Go
  <2>2. /\ "thread/delete" \in Places \ {"new", "out"} /\ "thread/delete" \in Calls
        /\ "thread/delete" \notin Early /\ "thread/delete" \in Late
    BY DEF Places, Calls, Early, Late
  <2>3. InvInv' /\ current' = i /\ inv'.thread # 0
    BY <1>2, <1>10, <2>1 DEF Calls, TurnInv, InvInv, Owned, Holder
  <2>. QED
    BY <1>1, <1>2, <1>4, <1>5, <1>10, <2>1, <2>2, <2>3, Moves DEF Calls
<1>11. CASE m.what = "thread/delete"
  <2>1. i \in invokeMu /\ Leave(i, outcome[i]) /\ UNCHANGED <<lost, requests>>
    BY <1>2, <1>11 DEF Answered, Calls
  <2>2. i \in gone /\ i \notin running
    BY <1>1, <1>11 DEF TurnInv, Ordered
  <2>3. Eventless(output, i)
    <3>1. ASSUME NEW k \in DOMAIN output, k # 1 PROVE k > 1
      BY <1>1, <3>1
    <3>2. m.kind \notin Events
      BY DEF Events, Forbidden
    <3>. QED
      BY <1>1, <1>11, <3>1, <3>2 DEF Eventless, TurnInv, Ordered
  <2>4. Silenced(i)
    BY <2>2, <2>3 DEF Silenced
  <2>. QED
    BY <1>1, <1>2, <1>11, <2>1, <2>4, Leaves DEF Calls
<1>. QED
  BY <1>6, <1>7, <1>8, <1>9, <1>10, <1>11 DEF Answered

\* What the current invocation hears of is its own turn or a lost one.
LEMMA HearsInv ==
  ASSUME TurnInv, UNCHANGED <<invokeMu, lost>>,
         NEW m \in Out, NEW n \in DOMAIN output, output[n] = m, m.kind \in Events,
         inv' = IF current # 0 THEN Heard(inv, m) ELSE inv
  PROVE  InvInv' /\ (inv.thread # 0 => inv'.thread # 0)
<1>1. InvShape(inv) /\ Seen(inv)
  BY DEF TurnInv, InvInv
<1>2. CASE current = 0
  BY <1>2 DEF TurnInv, InvInv, Owned
<1>3. CASE current # 0
  <2>1. current \in invokeMu /\ current \in Invocations /\ Owned(current, inv) /\ \A j \in invokeMu : j = current
    BY <1>3 DEF TurnInv, TurnShape, Holder, InvInv
  <2>2. m.src \in Invocations /\ m.src \in Nat \ {0}
    BY TurnAssumption DEF Out
  <2>3. m.src = current \/ m.src \in lost
    <3>1. ~Silenced(m.src)
      BY DEF Silenced, Eventless
    <3>2. m.src # current => place[m.src] \in {"new", "out"}
      BY <2>1, <2>2 DEF TurnInv, Holder
    <3>. QED
      BY <2>2, <3>1, <3>2 DEF TurnInv, Silent, Early
  <2>4. PICK w : w = Heard(inv, m)
    OBVIOUS
  <2>5. inv' = w
    BY <1>3, <2>4
  <2>6. /\ InvShape(w) /\ Seen(w)
        /\ \/ w.thread = inv.thread /\ Sources(w) = Sources(inv)
           \/ /\ inv.thread \in {0, m.src} /\ w.thread = m.src
              /\ Sources(w) \subseteq Sources(inv) \cup {m.src}
    BY <1>1, <2>4, HeardIs
  <2>7. Owned(current, w)
    BY <2>1, <2>2, <2>3, <2>6 DEF Owned
  <2>8. \A j \in invokeMu' : Owned(j, inv)'
    BY <2>1, <2>5, <2>7 DEF Owned, Sources
  <2>9. InvShape(inv)' /\ Seen(inv)'
    BY <2>5, <2>6 DEF InvShape, Seen
  <2>. QED
    BY <2>2, <2>5, <2>6, <2>8, <2>9 DEF InvInv
<1>. QED
  BY <1>2, <1>3

LEMMA LineInv ==
  ASSUME TurnInv, Line
  PROVE  TurnInv'
<1>1. PICK m : m = Head(output)
  OBVIOUS
<1>2. /\ output # <<>> /\ output' = Tail(output) /\ UNCHANGED <<caught, running, gone>> /\ Reads
      /\ output \in Seq(Out)
  BY DEF Line, Reads, TurnInv, TurnShape
<1>3. m \in Out /\ 1 \in DOMAIN output /\ output[1] = m
  BY <1>1, <1>2
<1>4. ASSUME UNCHANGED <<place, invokeMu, current, outcome, stopped, lost, requests>>, InvInv',
             current = 0 => inv' = inv, inv.thread # 0 => inv'.thread # 0
      PROVE  TurnInv'
  <2>1. TurnShape' /\ CaughtOut' /\ Ordered'
    BY <1>2, <1>4, ReadsKeep DEF TurnInv, TurnShape, CaughtOut
  <2>2. Holder'
    BY <1>4 DEF TurnInv, Holder
  <2>3. Silent'
    BY <1>2, <1>4, ReadsKeep DEF TurnInv, Silent, Silenced
  <2>. QED
    BY <1>4, <2>1, <2>2, <2>3 DEF TurnInv
<1>5. CASE m.kind = "answer" /\ place[m.src] = m.what /\ Answered(m.src, m)
  BY <1>1, <1>2, <1>5, AnsweredInv
<1>6. CASE UNCHANGED <<place, invokeMu, current, inv, outcome, stopped, lost, requests>>
  <2>1. InvInv'
    BY <1>6 DEF TurnInv, InvInv, Owned
  <2>. QED
    BY <1>4, <1>6, <2>1
<1>7. CASE /\ m.kind \in Events
           /\ inv' = IF current # 0 THEN Heard(inv, m) ELSE inv
           /\ UNCHANGED <<place, invokeMu, current, outcome, stopped, lost, requests>>
  <2>1. InvInv' /\ (inv.thread # 0 => inv'.thread # 0)
    BY <1>3, <1>7, HearsInv
  <2>. QED
    BY <1>4, <1>7, <2>1
<1>. QED
  BY <1>1, <1>5, <1>6, <1>7 DEF Line

\* The process does its part, the session's state stays.
LEMMA SpeaksInv ==
  ASSUME TurnInv, NEW e \in Out, output' = Append(output, e), requests' \subseteq requests,
         running' \subseteq Invocations, \A j \in running' : j \notin gone', gone \subseteq gone',
         e.kind \in Events => e.src \in running /\ gone' = gone,
         e.kind = "answer" /\ e.what = "thread/delete" => e.src \in gone',
         \A j \in running' \ running : j \notin gone /\ [by |-> j, what |-> "turn/start"] \in requests,
         UNCHANGED <<place, invokeMu, current, inv, caught, outcome, stopped, lost>>
  PROVE  TurnInv'
<1>1. /\ output \in Seq(Out) /\ output' \in Seq(Out) /\ DOMAIN output' = DOMAIN output \cup {Len(output) + 1}
      /\ Len(output) \in Nat /\ \A k \in DOMAIN output : k \in Nat /\ k <= Len(output) /\ output'[k] = output[k]
      /\ output'[Len(output) + 1] = e
  BY DEF TurnInv, TurnShape
<1>2. TurnShape' /\ CaughtOut' /\ Holder'
  BY <1>1 DEF TurnInv, TurnShape, CaughtOut, Holder
<1>3. Ordered'
  <2>1. ASSUME NEW k \in DOMAIN output', output'[k].kind = "answer", output'[k].what = "thread/delete"
        PROVE  /\ output'[k].src \in gone'
               /\ \A l \in DOMAIN output' : l > k => ~(output'[l].kind \in Events /\ output'[l].src = output'[k].src)
    <3>1. CASE k \in DOMAIN output
      <4>1. output[k].src \in gone
        BY <1>1, <2>1, <3>1 DEF TurnInv, Ordered
      <4>2. ~(e.kind \in Events /\ e.src = output[k].src)
        BY <4>1 DEF TurnInv, Ordered
      <4>3. ASSUME NEW l \in DOMAIN output', l > k
            PROVE  ~(output'[l].kind \in Events /\ output'[l].src = output'[k].src)
        <5>1. CASE l \in DOMAIN output
          BY <1>1, <2>1, <3>1, <4>3, <5>1 DEF TurnInv, Ordered
        <5>2. CASE l = Len(output) + 1
          BY <1>1, <3>1, <4>2, <5>2
        <5>. QED
          BY <1>1, <5>1, <5>2
      <4>. QED
        BY <1>1, <3>1, <4>1, <4>3
    <3>2. CASE k = Len(output) + 1
      <4>1. output'[k] = e
        BY <1>1, <3>2
      <4>2. \A l \in DOMAIN output' : ~(l > k)
        BY <1>1, <3>2
      <4>. QED
        BY <2>1, <4>1, <4>2
    <3>. QED
      BY <1>1, <3>1, <3>2
  <2>. QED
    BY <2>1 DEF Ordered
<1>4. Silent'
  <2>1. ASSUME NEW j, Silenced(j) PROVE Silenced(j)'
    <3>1. ~(e.kind \in Events /\ e.src = j)
      BY <2>1 DEF Silenced
    <3>2. Eventless(output', j)
      BY <1>1, <2>1, <3>1 DEF Silenced, Eventless
    <3>. QED
      BY <2>1, <3>2 DEF Silenced
  <2>. QED
    BY <2>1 DEF TurnInv, Silent
<1>5. InvInv'
  BY DEF TurnInv, InvInv, Owned
<1>. QED
  BY <1>2, <1>3, <1>4, <1>5 DEF TurnInv

LEMMA ProcessInv ==
  ASSUME TurnInv, Process
  PROVE  TurnInv'
<1>1. PICK q \in requests, ok \in BOOLEAN :
        /\ requests' = requests \ {q}
        /\ q.what = "turn/start" /\ q.by \in gone => ~ok
        /\ output' = Append(output, [kind |-> "answer", src |-> q.by, what |-> q.what, ok |-> ok])
        /\ running' = CASE q.what = "turn/start" /\ ok -> running \cup {q.by}
                        [] q.what = "thread/delete" -> running \ {q.by}
                        [] OTHER -> running
        /\ gone' = IF q.what = "thread/delete" THEN gone \cup {q.by} ELSE gone
  BY DEF Process
<1>2. PICK e : e = [kind |-> "answer", src |-> q.by, what |-> q.what, ok |-> ok]
  OBVIOUS
<1>3. /\ q \in Asked /\ q.by \in Invocations /\ q.what \in Calls /\ q = [by |-> q.by, what |-> q.what]
      /\ running \subseteq Invocations
  BY DEF TurnInv, TurnShape, Asked
<1>4. e \in Out /\ e.kind = "answer" /\ e.what = q.what /\ e.src = q.by /\ e.kind \notin Events
  BY <1>2, <1>3 DEF Out, Events, Forbidden
<1>5. \A j \in running : j \notin gone
  BY DEF TurnInv, Ordered
<1>6. CASE q.what = "turn/start" /\ ok
  <2>1. running' = running \cup {q.by} /\ gone' = gone /\ q.by \notin gone
    BY <1>1, <1>6
  <2>. QED
    BY <1>1, <1>2, <1>3, <1>4, <1>5, <1>6, <2>1, SpeaksInv DEF Process
<1>7. CASE q.what = "thread/delete"
  <2>1. running' = running \ {q.by} /\ gone' = gone \cup {q.by}
    BY <1>1, <1>7
  <2>. QED
    BY <1>1, <1>2, <1>3, <1>4, <1>5, <2>1, SpeaksInv DEF Process
<1>8. CASE ~(q.what = "turn/start" /\ ok) /\ q.what # "thread/delete"
  <2>1. running' = running /\ gone' = gone
    BY <1>1, <1>8
  <2>. QED
    BY <1>1, <1>2, <1>3, <1>4, <1>5, <1>8, <2>1, SpeaksInv DEF Process
<1>. QED
  BY <1>6, <1>7, <1>8

LEMMA EmitInv ==
  ASSUME TurnInv, Emit
  PROVE  TurnInv'
<1>1. PICK i \in running, kind \in Events :
        /\ output' = Append(output, [kind |-> kind, src |-> i, what |-> "", ok |-> TRUE])
        /\ running' = IF kind \in {"completed", "completed tool", "failed"} THEN running \ {i} ELSE running
  BY DEF Emit
<1>2. PICK e : e = [kind |-> kind, src |-> i, what |-> "", ok |-> TRUE]
  OBVIOUS
<1>3. running \subseteq Invocations /\ running' \subseteq running /\ \A j \in running : j \notin gone
  BY <1>1 DEF TurnInv, TurnShape, Ordered
<1>4. e \in Out /\ e.kind # "answer" /\ e.src = i
  BY <1>2, <1>3 DEF Out, Events, Forbidden
<1>. QED
  BY <1>1, <1>2, <1>3, <1>4, SpeaksInv DEF Emit

LEMMA TurnNextInv == TurnInv /\ [TurnNext]_turnVars => TurnInv'
<1> SUFFICES ASSUME TurnInv, [TurnNext]_turnVars PROVE TurnInv'
  OBVIOUS
<1>1. CASE TurnNext
  BY <1>1, InvokeInv, TurnDoneInv, TimeOutInv, GiveUpInv, LineInv, ProcessInv, EmitInv DEF TurnNext
<1>2. CASE UNCHANGED turnVars
  <2>1. TurnShape' /\ CaughtOut' /\ Holder'
    BY <1>2 DEF turnVars, TurnInv, TurnShape, CaughtOut, Holder
  <2>2. Ordered' /\ Silent'
    BY <1>2 DEF turnVars, TurnInv, Ordered, Silent, Silenced, Eventless
  <2>3. InvInv'
    BY <1>2 DEF turnVars, TurnInv, InvInv, Owned
  <2>. QED
    BY <2>1, <2>2, <2>3 DEF TurnInv
<1>. QED
  BY <1>1, <1>2

\* Text and ids of another turn reach an invocation only if that turn's deletion went
\* unanswered, and none once it knows its own thread: the events Heard lets in, over
\* the pipe and the cleanup that Line, Process and GiveUp model.
THEOREM OwnTexts == TurnSpec => []OwnText
<1>1. TurnInv => OwnText
  <2> SUFFICES ASSUME TurnInv, NEW i \in invokeMu
               PROVE  LET foreign == (Content(inv) \cup {inv.thread, inv.turn}) \ {0, i} IN
                        foreign \subseteq lost /\ (inv.thread = i => foreign = {})
    BY DEF OwnText
  <2>1. Owned(i, inv)
    BY DEF TurnInv, InvInv
  <2>2. (Content(inv) \cup {inv.thread, inv.turn}) \ {0, i} \subseteq Sources(inv) \ {i}
    BY DEF Content, Sources
  <2>. QED
    BY <2>1, <2>2 DEF Owned
<1>. QED
  BY TurnInitInv, TurnNextInv, <1>1, PTL DEF TurnSpec

\* An invocation that had taken in a forbidden item when it read what came of its turn
\* (TurnDone) ends with an error, whatever is reported before or after.
THEOREM TextOnlyHolds == TurnSpec => []TextOnly
<1>1. TurnInit => TurnInv /\ caught \subseteq Invocations
  BY TurnInitInv DEF TurnInit
<1>2. TurnInv /\ caught \subseteq Invocations /\ [TurnNext]_turnVars => TurnInv' /\ (caught \subseteq Invocations)'
  <2>1. caught \subseteq Invocations /\ [TurnNext]_turnVars => caught' \subseteq Invocations
    BY DEF TurnNext, turnVars, Invoke, TurnDone, TimeOut, GiveUp, Line, Process, Emit
  <2>. QED
    BY <2>1, TurnNextInv
<1>3. TurnInv /\ caught \subseteq Invocations => TextOnly
  BY DEF TurnInv, CaughtOut, TextOnly
<1>. QED
  BY <1>1, <1>2, <1>3, PTL DEF TurnSpec

(***************************************************************************)
(* Processes. One is published, or is in the hands of the request that     *)
(* started it, or of Close; before Close no session waits to be killed.    *)
(***************************************************************************)
ProcessesKnown ==
  /\ born \in Nat /\ \A n \in alive : n \in 1..born
  /\ DOMAIN at = Requests /\ DOMAIN sess = Requests
  /\ ~closed => closing = {}
  /\ OneProcess

\* A request elsewhere than at "publish" holds no process.
LEMMA HandsStay ==
  ASSUME ProcessesKnown, NEW r \in Requests, at[r] # "publish",
         \A p \in Requests : p # r => at'[p] = at[p] /\ sess'[p] = sess[p],
         UNCHANGED managerVars, alive' = alive, DOMAIN at' = Requests, DOMAIN sess' = Requests
  PROVE  ProcessesKnown'
<1>1. \A p \in Requests : at[p] = "publish" => at'[p] = "publish" /\ sess'[p] = sess[p]
  BY DEF ProcessesKnown
<1>. QED
  BY <1>1 DEF ProcessesKnown, OneProcess, managerVars

LEMMA ProcessesInit == LoginInit => ProcessesKnown
  BY DEF LoginInit, ProcessesKnown, OneProcess

LEMMA SpawnKnown ==
  ASSUME ProcessesKnown, NEW r \in Requests, Spawn(r)
  PROVE  ProcessesKnown'
<1>1. PICK ok \in BOOLEAN :
        /\ alive' = IF ok THEN alive \cup {born + 1} ELSE alive
        /\ sess' = IF ok THEN [sess EXCEPT ![r] = born + 1] ELSE sess
        /\ at' = [at EXCEPT ![r] = IF ok THEN "publish" ELSE "failed"]
  BY DEF Spawn, StartCodexAppServer, Finish, Goto
<1>2. at[r] = "spawn" /\ born' = born + 1 /\ UNCHANGED <<closed, published, closing>>
  BY DEF Spawn
<1>3. born' \in Nat /\ \A n \in alive' : n \in 1..born'
  BY <1>1, <1>2 DEF ProcessesKnown
<1>4. \A p \in Requests : at[p] = "publish" => at'[p] = "publish" /\ sess'[p] = sess[p]
  BY <1>1, <1>2 DEF ProcessesKnown
<1>5. ok => at'[r] = "publish" /\ sess'[r] = born + 1
  BY <1>1 DEF ProcessesKnown
<1>6. OneProcess'
  BY <1>1, <1>2, <1>4, <1>5 DEF ProcessesKnown, OneProcess
<1>. QED
  BY <1>1, <1>2, <1>3, <1>6 DEF ProcessesKnown

LEMMA PublishKnown ==
  ASSUME ProcessesKnown, NEW r \in Requests, Publish(r)
  PROVE  ProcessesKnown'
<1>1. /\ \A p \in Requests : p # r => at'[p] = at[p] /\ sess'[p] = sess[p]
      /\ DOMAIN at' = Requests /\ DOMAIN sess' = Requests
  BY DEF Publish, Finish, Goto, ProcessesKnown
<1>2. UNCHANGED <<closed, closing, born>> /\ at[r] = "publish"
  BY DEF Publish
<1>3. \/ alive' = alive \ {sess[r]} /\ published' = published
      \/ alive' = alive /\ published = 0 /\ published' = sess[r]
  BY DEF Publish
<1>4. 0 \notin alive
  BY DEF ProcessesKnown
<1>5. OneProcess'
  BY <1>1, <1>2, <1>3, <1>4 DEF ProcessesKnown, OneProcess
<1>. QED
  BY <1>1, <1>2, <1>3, <1>5 DEF ProcessesKnown

LEMMA ProcessesNext == ProcessesKnown /\ [LoginNext]_loginVars => ProcessesKnown'
<1> SUFFICES ASSUME ProcessesKnown, [LoginNext]_loginVars PROVE ProcessesKnown'
  OBVIOUS
<1>1. ASSUME NEW r \in Requests, Begin(r) \/ Lookup(r) PROVE ProcessesKnown'
  <2>1. /\ \A p \in Requests : p # r => at'[p] = at[p] /\ sess'[p] = sess[p]
        /\ DOMAIN at' = Requests /\ DOMAIN sess' = Requests
    BY <1>1 DEF Begin, Lookup, Finish, Goto, ProcessesKnown
  <2>2. at[r] # "publish" /\ UNCHANGED managerVars /\ alive' = alive
    BY <1>1 DEF Begin, Lookup
  <2>. QED
    BY <2>1, <2>2, HandsStay
<1>2. ASSUME NEW r \in Requests, Lock(r) \/ Ask(r) \/ Fail(r) PROVE ProcessesKnown'
  <2>1. (\A p \in Requests : p # r => at'[p] = at[p]) /\ DOMAIN at' = Requests
    BY <1>2 DEF Lock, LockStart, LockCancel, LockLogout, Locked, Ask, Fail, Finish, Goto, ProcessesKnown
  <2>2. at[r] # "publish" /\ UNCHANGED <<managerVars, alive, sess>>
    BY <1>2 DEF Lock, Ask, Fail
  <2>. QED
    BY <2>1, <2>2, HandsStay DEF ProcessesKnown
<1>3. ASSUME NEW r \in Requests,
             ResumeStatus(r) \/ ResumeRead(r) \/ ResumeLogin(r) \/ ResumeCancel(r) \/ ResumeLogout(r)
      PROVE  ProcessesKnown'
  <2>1. (\A p \in Requests : p # r => at'[p] = at[p]) /\ DOMAIN at' = Requests
    BY <1>3 DEF ResumeStatus, ResumeRead, ResumeLogin, ResumeCancel, ResumeLogout, Finish, Goto, ProcessesKnown
  <2>2. at[r] # "publish" /\ UNCHANGED <<managerVars, alive, sess>>
    BY <1>3 DEF ResumeStatus, ResumeRead, ResumeLogin, ResumeCancel, ResumeLogout, Resume
  <2>. QED
    BY <2>1, <2>2, HandsStay DEF ProcessesKnown
<1>4. ASSUME NEW n \in Sessions, Receive(n) \/ Serve(n) \/ UserEnds(n) \/ Die(n) PROVE ProcessesKnown'
  <2>1. UNCHANGED <<closed, published, closing, born, at, sess>> /\ alive' \subseteq alive
    BY <1>4 DEF Receive, Serve, UserEnds, Die, managerVars, requestVars
  <2>. QED
    BY <2>1 DEF ProcessesKnown, OneProcess
<1>5. CASE CloseManager
  BY <1>5 DEF CloseManager, requestVars, ProcessesKnown, OneProcess
<1>6. CASE Kill
  <2>1. /\ UNCHANGED <<closed, published, born, at, sess>>
        /\ \E n \in closing : closing' = closing \ {n} /\ alive' = alive \ {n}
    BY <1>6 DEF Kill, requestVars
  <2>. QED
    BY <2>1 DEF ProcessesKnown, OneProcess
<1>7. CASE UNCHANGED loginVars
  BY <1>7 DEF loginVars, managerVars, requestVars, ProcessesKnown, OneProcess
<1>. QED
  BY <1>1, <1>2, <1>3, <1>4, <1>5, <1>6, <1>7, SpawnKnown, PublishKnown DEF LoginNext

\* A tenant's processes are the published one, those Close is about to kill and those a
\* request has started and not published: none runs that nobody knows of, whichever
\* requests race through session() and whenever Close comes between its two sections.
THEOREM OneProcessOnly == LoginSpec => []OneProcess
<1>1. ProcessesKnown => OneProcess
  BY DEF ProcessesKnown
<1>. QED
  BY ProcessesInit, ProcessesNext, <1>1, PTL DEF LoginSpec

(***************************************************************************)
(* Logins. A request has at most one message on its way, its request or    *)
(* the answer to it (OneAnswer), so an answer that comes while it waits    *)
(* for a login names the login it started. Such a login is no session's    *)
(* pending login yet, is in the hands of one request only, and can still   *)
(* be completed, or its end is on its way or has been noted (Accounted):   *)
(* whichever of the answer and the notification is handled first.          *)
(***************************************************************************)
Before == {"new", "lookup", "spawn", "publish", "lock", "ask"}
Messages == [by : Requests, what : {"account/read", "login/start", "login/cancel", "logout"}, login : Nat]
Spoken == [kind : {"answer"}, by : Requests, val : BOOLEAN \cup Nat] \cup [kind : {"completed"}, login : Nat]

LoginShape ==
  /\ born \in 0..MaxProcs /\ published \in 0..born /\ \A n \in alive : n \in 1..born
  /\ pend \in [Sessions -> Nat] /\ issued \in Nat
  /\ DOMAIN completed = Sessions /\ open \in [Sessions -> SUBSET Nat] /\ arg \in [Requests -> Nat]
  /\ DOMAIN at = Requests /\ DOMAIN sess = Requests /\ DOMAIN call = Requests /\ DOMAIN slot = Requests
  /\ inbox \in [Sessions -> SUBSET Messages] /\ lines \in [Sessions -> Seq(Spoken)]
  /\ \A r \in Requests : at[r] \in {"publish", "lock", "ask", "wait"} => sess[r] \in 1..born
  /\ \A n \in Sessions : pend[n] <= issued /\ (n > born => pend[n] = 0)
LoginFlags == account \in BOOLEAN

Requested(n, r) == \E q \in inbox[n] : q.by = r
Replies(n, k, r) == lines[n][k].kind = "answer" /\ lines[n][k].by = r
Written(n, r) == \E k \in DOMAIN lines[n] : Replies(n, k, r)
Clear(r) == slot[r] = <<>> /\ \A n \in Sessions : ~Requested(n, r) /\ ~Written(n, r)

Waits(r) ==
  \A n \in Sessions :
    /\ Requested(n, r) => /\ n = sess[r] /\ slot[r] = <<>> /\ \A p \in Sessions : ~Written(p, r)
                          /\ \A q \in inbox[n] : q.by = r => q.what = call[r]
                          /\ \A q1, q2 \in inbox[n] : q1.by = r /\ q2.by = r => q1 = q2
    /\ Written(n, r) => /\ n = sess[r] /\ slot[r] = <<>>
                        /\ \A j, k \in DOMAIN lines[n] : Replies(n, j, r) /\ Replies(n, k, r) => j = k

OneAnswer == \A r \in Requests : (at[r] \in Before => Clear(r)) /\ (at[r] = "wait" => Waits(r))

\* r is about to be told that its login is l.
Due(r, l) ==
  /\ at[r] = "wait" /\ call[r] = "login/start"
  /\ slot[r] = <<l>> \/ \E n \in Sessions : \E k \in DOMAIN lines[n] : Replies(n, k, r) /\ lines[n][k].val = l

Ended(n, l) == \E k \in DOMAIN lines[n] : lines[n][k] = Over(l)
Placed(n, l) == l \in open[n] \cup silent \cup completed[n] \/ Ended(n, l)

Accounted ==
  \A r \in Requests, l \in Logins : Due(r, l) =>
    /\ l <= issued /\ \A n \in Sessions : pend[n] # l
    /\ \A p \in Requests : Due(p, l) => p = r
    /\ sess[r] \in alive => Placed(sess[r], l)

LoginInv == LoginShape /\ OneAnswer /\ Accounted /\ PendingIsOpen

LEMMA LoginInitInv == LoginInit => LoginInv /\ LoginFlags
<1> SUFFICES ASSUME LoginInit PROVE LoginInv /\ LoginFlags
  OBVIOUS
<1>1. LoginShape
  BY LoginAssumption DEF LoginInit, LoginShape, Sessions
<1>2. OneAnswer /\ Accounted
  BY DEF LoginInit, OneAnswer, Before, Clear, Requested, Written, Accounted, Due
<1>3. PendingIsOpen
  BY DEF LoginInit, PendingIsOpen
<1>4. LoginFlags
  BY DEF LoginInit, LoginFlags
<1>. QED
  BY <1>1, <1>2, <1>3, <1>4 DEF LoginInv

\* What a process writes is read in order, nothing else changes in a pipe.
Longer(n) == /\ lines' \in [Sessions -> Seq(Spoken)]
             /\ \A p \in Sessions : p # n => lines'[p] = lines[p]
             /\ \A k \in DOMAIN lines[n] : k \in DOMAIN lines'[n] /\ lines'[n][k] = lines[n][k]

Fresher(n) == DOMAIN lines'[n] \ DOMAIN lines[n]
Writes(n, s) ==
  /\ Longer(n)
  /\ \A k \in Fresher(n) : \E j \in DOMAIN s : lines'[n][k] = s[j] /\ k = Len(lines[n]) + j
  /\ \A j \in DOMAIN s : Len(lines[n]) + j \in Fresher(n) /\ lines'[n][Len(lines[n]) + j] = s[j]

LEMMA PipeGrows ==
  ASSUME LoginShape, NEW n \in Sessions, NEW s \in Seq(Spoken), lines' = [lines EXCEPT ![n] = @ \o s]
  PROVE  Writes(n, s)
<1>1. PICK t : t = lines[n]
  OBVIOUS
<1>2. t \in Seq(Spoken) /\ lines'[n] = t \o s
  BY <1>1 DEF LoginShape
<1>3. /\ t \o s \in Seq(Spoken) /\ Len(t \o s) = Len(t) + Len(s)
      /\ \A i \in 1 .. Len(t) + Len(s) : (t \o s)[i] = IF i <= Len(t) THEN t[i] ELSE s[i - Len(t)]
  BY <1>2, ConcatProperties
<1>4. /\ DOMAIN t = 1..Len(t) /\ DOMAIN s = 1..Len(s) /\ DOMAIN (t \o s) = 1..(Len(t) + Len(s))
      /\ Len(t) \in Nat /\ Len(s) \in Nat
  BY <1>2, <1>3
<1>5. \A k \in DOMAIN t : k \in DOMAIN (t \o s) /\ (t \o s)[k] = t[k]
  BY <1>3, <1>4
<1>6. lines' \in [Sessions -> Seq(Spoken)] /\ \A p \in Sessions : p # n => lines'[p] = lines[p]
  BY <1>2, <1>3 DEF LoginShape
<1>7. ASSUME NEW j \in DOMAIN s
      PROVE  Len(t) + j \in DOMAIN (t \o s) \ DOMAIN t /\ (t \o s)[Len(t) + j] = s[j]
  <2>1. j \in 1..Len(s) /\ ~(Len(t) + j <= Len(t)) /\ (Len(t) + j) - Len(t) = j /\ Len(t) + j \in 1..(Len(t) + Len(s))
    BY <1>4, <1>7
  <2>. QED
    BY <1>3, <1>4, <2>1
<1>8. ASSUME NEW k \in DOMAIN (t \o s), k \notin DOMAIN t
      PROVE  \E j \in DOMAIN s : (t \o s)[k] = s[j] /\ k = Len(t) + j
  <2>1. k - Len(t) \in DOMAIN s /\ k = Len(t) + (k - Len(t))
    BY <1>4, <1>8
  <2>. QED
    BY <1>7, <2>1
<1>. QED
  BY <1>1, <1>2, <1>5, <1>6, <1>7, <1>8 DEF Longer, Writes, Fresher

\* A login that is open, or whose end is silent or on its way, stays so.
Kept(n, l) == l \in open[n] \cup silent \/ Ended(n, l)
KeptOnes == \A n \in Sessions, l \in Nat : Kept(n, l) => Kept(n, l)'

LEMMA OpenIsKept ==
  ASSUME NEW n \in Sessions, Longer(n), silent \subseteq silent', DOMAIN open = Sessions, DOMAIN open' = Sessions,
         \A p \in Sessions : p # n => open[p] \subseteq open'[p],
         \A l \in open[n] : l \in open'[n] \/ l \in silent' \/ \E k \in DOMAIN lines'[n] : lines'[n][k] = Over(l)
  PROVE  KeptOnes
<1> SUFFICES ASSUME NEW p \in Sessions, NEW l \in Nat, Kept(p, l) PROVE Kept(p, l)'
  BY DEF KeptOnes
<1>1. CASE l \in silent
  BY <1>1 DEF Kept
<1>2. CASE l \in open[p]
  BY <1>2 DEF Kept, Ended, Longer, Over
<1>3. CASE Ended(p, l)
  BY <1>3 DEF Kept, Ended, Longer, Over
<1>. QED
  BY <1>1, <1>2, <1>3 DEF Kept

Responds(n, q, v) ==
  \E a \in Fresher(n) : /\ lines'[n][a] = Answer(q, v)
                        /\ \A k \in Fresher(n) : k # a => lines'[n][k].kind = "completed"

\* Serve takes one request and answers it; what it writes besides are ends of logins.
Served(n, q, v) ==
  /\ inbox' = [inbox EXCEPT ![n] = @ \ {q}]
  /\ Longer(n)
  /\ Responds(n, q, v)
  /\ issued' \in Nat /\ issued' >= issued /\ open' \in [Sessions -> SUBSET Nat]
  /\ q.what = "login/start" /\ v # 0 => v = issued + 1 /\ issued' = v /\ v \in open'[n]
  /\ KeptOnes

LEMMA ServeIs ==
  ASSUME LoginShape, LoginFlags, NEW n \in Sessions, Serve(n)
  PROVE  \E q \in inbox[n] : \E v : Served(n, q, v)
<1>1. PICK q \in inbox[n] :
       /\ inbox' = [inbox EXCEPT ![n] = @ \ {q}]
       /\ \/ /\ q.what = "account/read"
             /\ lines' = [lines EXCEPT ![n] = Append(@, Answer(q, account))]
             /\ UNCHANGED <<account, open, silent, issued>>
          \/ /\ q.what = "login/start" /\ issued < MaxLogins
             /\ issued' = issued + 1
             /\ open' = [open EXCEPT ![n] = @ \cup {issued + 1}]
             /\ lines' = [lines EXCEPT ![n] = Append(@, Answer(q, issued + 1))]
             /\ UNCHANGED <<account, silent>>
          \/ /\ q.what = "login/start"
             /\ lines' = [lines EXCEPT ![n] = Append(@, Answer(q, 0))]
             /\ UNCHANGED <<account, open, silent, issued>>
          \/ /\ q.what = "login/cancel" /\ q.login \in open[n]
             /\ open' = [open EXCEPT ![n] = @ \ {q.login}]
             /\ EndLogin(n, q, q.login)
             /\ UNCHANGED <<account, issued>>
          \/ /\ q.what \in {"login/cancel", "logout"} /\ q.login \notin open[n]
             /\ account' = (account /\ q.what = "login/cancel")
             /\ lines' = [lines EXCEPT ![n] = Append(@, Answer(q, TRUE))]
             /\ UNCHANGED <<open, silent, issued>>
  BY DEF Serve
<1>2. q.by \in Requests /\ q.login \in Nat /\ issued \in Nat /\ open \in [Sessions -> SUBSET Nat]
  BY DEF LoginShape, Messages
<1>3. TRUE \in BOOLEAN \cup Nat /\ 0 \in BOOLEAN \cup Nat /\ account \in BOOLEAN \cup Nat /\ issued + 1 \in BOOLEAN \cup Nat
  BY <1>2 DEF LoginFlags
<1>4. \A v \in BOOLEAN \cup Nat : Answer(q, v) \in Spoken /\ Answer(q, v).kind = "answer" /\ Answer(q, v).by = q.by
  BY <1>2 DEF Answer, Spoken
<1>5. \A l \in Nat : Over(l) \in Spoken /\ Over(l).kind = "completed"
  BY DEF Over, Spoken
<1>6. ASSUME NEW v \in BOOLEAN \cup Nat, NEW s \in Seq(Spoken), lines' = [lines EXCEPT ![n] = @ \o s],
             \/ s = <<Answer(q, v)>>
             \/ s = <<Answer(q, v), Over(q.login)>>
             \/ s = <<Over(q.login), Answer(q, v)>>
      PROVE  /\ Longer(n)
             /\ Responds(n, q, v)
             /\ Len(s) = 2 => \E k \in DOMAIN lines'[n] : lines'[n][k] = Over(q.login)
  <2>1. Writes(n, s)
    BY <1>6, PipeGrows
  <2>2. PICK i \in DOMAIN s : s[i] = Answer(q, v) /\ \A j \in DOMAIN s : j # i => s[j] = Over(q.login)
    <3>1. CASE s = <<Answer(q, v)>>
      BY <3>1, 1 \in DOMAIN s
    <3>2. CASE s = <<Answer(q, v), Over(q.login)>>
      BY <3>2, 1 \in DOMAIN s
    <3>3. CASE s = <<Over(q.login), Answer(q, v)>>
      BY <3>3, 2 \in DOMAIN s
    <3>. QED
      BY <1>6, <3>1, <3>2, <3>3
  <2>3. ASSUME NEW k \in Fresher(n), k # Len(lines[n]) + i
        PROVE  lines'[n][k].kind = "completed"
    <3>1. PICK j \in DOMAIN s : lines'[n][k] = s[j] /\ k = Len(lines[n]) + j
      BY <2>1 DEF Writes
    <3>2. lines'[n][k] = Over(q.login)
      BY <2>2, <2>3, <3>1
    <3>. QED
      BY <1>2, <1>5, <3>2
  <2>4. ASSUME Len(s) = 2 PROVE \E j \in DOMAIN s : s[j] = Over(q.login)
    <3>1. 1 \in DOMAIN s /\ 2 \in DOMAIN s
      BY <2>4
    <3>. QED
      BY <2>2, <3>1
  <2>. QED
    BY <2>1, <2>2, <2>3, <2>4 DEF Writes, Responds, Fresher
<1>7. ASSUME NEW v \in BOOLEAN \cup Nat, lines' = [lines EXCEPT ![n] = Append(@, Answer(q, v))]
      PROVE  /\ Longer(n)
             /\ Responds(n, q, v)
  <2>1. Answer(q, v) \in Spoken /\ lines[n] \in Seq(Spoken) /\ <<Answer(q, v)>> \in Seq(Spoken)
    BY <1>4 DEF LoginShape
  <2>2. Append(lines[n], Answer(q, v)) = lines[n] \o <<Answer(q, v)>>
    BY <2>1, AppendIsConcat
  <2>3. lines' = [lines EXCEPT ![n] = @ \o <<Answer(q, v)>>]
    BY <1>7, <2>2
  <2>. QED
    BY <1>6, <2>1, <2>3
<1>8. ASSUME UNCHANGED <<open, silent>>, Longer(n) PROVE KeptOnes
  BY <1>2, <1>8, OpenIsKept
<1>9. CASE /\ q.what = "account/read"
           /\ lines' = [lines EXCEPT ![n] = Append(@, Answer(q, account))]
           /\ UNCHANGED <<account, open, silent, issued>>
  <2>1. Longer(n) /\ Responds(n, q, account)
    BY <1>3, <1>7, <1>9
  <2>2. Served(n, q, account)
    BY <1>1, <1>2, <1>8, <1>9, <2>1 DEF Served
  <2>. QED
    BY <2>2
<1>10. CASE /\ q.what = "login/start" /\ issued < MaxLogins
            /\ issued' = issued + 1
            /\ open' = [open EXCEPT ![n] = @ \cup {issued + 1}]
            /\ lines' = [lines EXCEPT ![n] = Append(@, Answer(q, issued + 1))]
            /\ UNCHANGED <<account, silent>>
  <2>1. issued' \in Nat /\ issued' >= issued
    BY <1>2, <1>10
  <2>2. open' \in [Sessions -> SUBSET Nat] /\ issued + 1 \in open'[n] /\ \A p \in Sessions : open[p] \subseteq open'[p]
    BY <1>2, <1>10
  <2>3. Longer(n) /\ Responds(n, q, issued + 1)
    BY <1>3, <1>7, <1>10
  <2>4. KeptOnes
    BY <1>2, <1>10, <2>2, <2>3, OpenIsKept
  <2>5. Served(n, q, issued + 1)
    BY <1>1, <1>10, <2>1, <2>2, <2>3, <2>4 DEF Served
  <2>. QED
    BY <2>5
<1>11. CASE /\ q.what = "login/start"
            /\ lines' = [lines EXCEPT ![n] = Append(@, Answer(q, 0))]
            /\ UNCHANGED <<account, open, silent, issued>>
  <2>1. Longer(n) /\ Responds(n, q, 0)
    BY <1>3, <1>7, <1>11
  <2>2. Served(n, q, 0)
    BY <1>1, <1>2, <1>8, <1>11, <2>1 DEF Served
  <2>. QED
    BY <2>2
<1>12. CASE /\ q.what = "login/cancel" /\ q.login \in open[n]
            /\ open' = [open EXCEPT ![n] = @ \ {q.login}]
            /\ EndLogin(n, q, q.login)
            /\ UNCHANGED <<account, issued>>
  <2>0. PICK v \in BOOLEAN \cup Nat : v = TRUE
    BY <1>3
  <2>1. /\ open' \in [Sessions -> SUBSET Nat] /\ \A p \in Sessions : p # n => open[p] \subseteq open'[p]
        /\ \A l \in open[n] : l \in open'[n] \/ l = q.login
    BY <1>2, <1>12
  <2>2. Answer(q, v) \in Spoken /\ Over(q.login) \in Spoken
    BY <1>2, <1>3, <1>4, <1>5
  <2>3. /\ Longer(n) /\ Responds(n, q, v)
        /\ silent \subseteq silent'
        /\ q.login \in silent' \/ \E k \in DOMAIN lines'[n] : lines'[n][k] = Over(q.login)
    <3>1. CASE lines' = [lines EXCEPT ![n] = Append(@, Answer(q, TRUE))] /\ silent' = silent \cup {q.login}
      BY <1>7, <2>0, <3>1
    <3>2. ASSUME NEW s \in Seq(Spoken), lines' = [lines EXCEPT ![n] = @ \o s], UNCHANGED silent, Len(s) = 2,
                 s = <<Answer(q, v), Over(q.login)>> \/ s = <<Over(q.login), Answer(q, v)>>
          PROVE  /\ Longer(n) /\ Responds(n, q, v)
                 /\ \E k \in DOMAIN lines'[n] : lines'[n][k] = Over(q.login)
      BY <1>6, <3>2
    <3>3. CASE lines' = [lines EXCEPT ![n] = @ \o <<Answer(q, TRUE), Over(q.login)>>] /\ silent' = silent
      <4>1. PICK s : s = <<Answer(q, v), Over(q.login)>>
        OBVIOUS
      <4>2. s \in Seq(Spoken) /\ Len(s) = 2
        BY <2>2, <4>1
      <4>3. lines' = [lines EXCEPT ![n] = @ \o s]
        BY <2>0, <3>3, <4>1
      <4>. QED
        BY <4>2, <4>3, <3>2, <3>3, <4>1
    <3>4. CASE lines' = [lines EXCEPT ![n] = @ \o <<Over(q.login), Answer(q, TRUE)>>] /\ silent' = silent
      <4>1. PICK s : s = <<Over(q.login), Answer(q, v)>>
        OBVIOUS
      <4>2. s \in Seq(Spoken) /\ Len(s) = 2
        BY <2>2, <4>1
      <4>3. lines' = [lines EXCEPT ![n] = @ \o s]
        BY <2>0, <3>4, <4>1
      <4>. QED
        BY <4>2, <4>3, <3>2, <3>4, <4>1
    <3>. QED
      BY <1>12, <3>1, <3>3, <3>4 DEF EndLogin
  <2>4. KeptOnes
    BY <1>2, <2>1, <2>3, OpenIsKept
  <2>5. Served(n, q, v)
    BY <1>1, <1>2, <1>12, <2>1, <2>3, <2>4 DEF Served
  <2>. QED
    BY <2>5
<1>13. CASE /\ q.what \in {"login/cancel", "logout"} /\ q.login \notin open[n]
            /\ lines' = [lines EXCEPT ![n] = Append(@, Answer(q, TRUE))]
            /\ UNCHANGED <<open, silent, issued>>
  <2>0. PICK v \in BOOLEAN \cup Nat : v = TRUE
    BY <1>3
  <2>1. Longer(n) /\ Responds(n, q, v)
    BY <1>7, <1>13, <2>0
  <2>2. Served(n, q, v)
    BY <1>1, <1>2, <1>8, <1>13, <2>1 DEF Served
  <2>. QED
    BY <2>2
<1>. QED
  BY <1>1, <1>9, <1>10, <1>11, <1>12, <1>13

\* What a request's messages do when they are only read or lost.
LEMMA Quieter ==
  ASSUME LoginShape, NEW r \in Requests,
         at'[r] = at[r], sess'[r] = sess[r], call'[r] = call[r], slot'[r] = slot[r],
         \A n \in Sessions : /\ inbox'[n] \subseteq inbox[n]
                             /\ \/ lines'[n] = lines[n] \/ lines'[n] = <<>>
                                \/ lines[n] # <<>> /\ lines'[n] = Tail(lines[n])
  PROVE  /\ Waits(r) => Waits(r)'
         /\ Clear(r) => Clear(r)'
         /\ \A l \in Logins : Due(r, l)' => Due(r, l)
<1>1. ASSUME NEW n \in Sessions
      PROVE  \E d \in {0, 1} : \A k \in DOMAIN lines'[n] : k + d \in DOMAIN lines[n] /\ lines'[n][k] = lines[n][k + d] /\ k \in Int
  <2>1. lines[n] \in Seq(Spoken)
    BY DEF LoginShape
  <2>2. CASE lines'[n] = lines[n]
    <3>1. \A k \in DOMAIN lines'[n] : k + 0 = k /\ k \in Int
      BY <2>1, <2>2
    <3>. QED
      BY <2>2, <3>1
  <2>3. CASE lines'[n] = <<>>
    BY <2>3
  <2>4. CASE lines[n] # <<>> /\ lines'[n] = Tail(lines[n])
    <3>1. \A k \in DOMAIN lines'[n] : k + 1 \in DOMAIN lines[n] /\ lines'[n][k] = lines[n][k + 1] /\ k \in Int
      BY <2>1, <2>4
    <3>. QED
      BY <3>1
  <2>. QED
    BY <2>2, <2>3, <2>4
<1>2. ASSUME NEW n \in Sessions
      PROVE  /\ Requested(n, r)' => Requested(n, r)
             /\ Written(n, r)' => Written(n, r)
             /\ (\A j, k \in DOMAIN lines[n] : Replies(n, j, r) /\ Replies(n, k, r) => j = k)
                  => (\A j, k \in DOMAIN lines'[n] : Replies(n, j, r)' /\ Replies(n, k, r)' => j = k)
             /\ \A l : (\E k \in DOMAIN lines'[n] : Replies(n, k, r)' /\ lines'[n][k].val = l)
                  => (\E k \in DOMAIN lines[n] : Replies(n, k, r) /\ lines[n][k].val = l)
  <2>1. PICK d \in {0, 1} : \A k \in DOMAIN lines'[n] : k + d \in DOMAIN lines[n] /\ lines'[n][k] = lines[n][k + d] /\ k \in Int
    BY <1>1
  <2>2. ASSUME NEW k \in DOMAIN lines'[n], Replies(n, k, r)' PROVE Replies(n, k + d, r)
    BY <2>1, <2>2 DEF Replies
  <2>3. Requested(n, r)' => Requested(n, r)
    BY DEF Requested
  <2>4. \A j, k \in DOMAIN lines'[n] : j + d = k + d => j = k
    BY <2>1
  <2>. QED
    BY <2>1, <2>2, <2>3, <2>4 DEF Written
<1>3. Clear(r) => Clear(r)'
  BY <1>2 DEF Clear
<1>4. Waits(r) => Waits(r)'
  BY <1>2 DEF Waits
<1>5. \A l \in Logins : Due(r, l)' => Due(r, l)
  BY <1>2 DEF Due
<1>. QED
  BY <1>3, <1>4, <1>5

\* The facts about logins go on to hold when none is newly told and none is forgotten.
LEMMA AccountedKeeps ==
  ASSUME Accounted, issued \in Nat, issued' \in Nat, issued' >= issued,
         \A r \in Requests, l \in Logins : Due(r, l)' =>
           /\ Due(r, l) /\ sess'[r] = sess[r]
           /\ sess[r] \in alive' => sess[r] \in alive
           /\ \A n \in Sessions : pend'[n] # l
           /\ sess[r] \in alive' /\ Placed(sess[r], l) => Placed(sess[r], l)'
  PROVE  Accounted'
<1> SUFFICES ASSUME NEW r \in Requests, NEW l \in Logins, Due(r, l)'
             PROVE  /\ l <= issued' /\ \A n \in Sessions : pend'[n] # l
                    /\ \A p \in Requests : Due(p, l)' => p = r
                    /\ sess'[r] \in alive' => Placed(sess[r], l)'
  BY DEF Accounted
<1>1. l <= issued /\ l \in Nat
  BY DEF Accounted, Logins
<1>2. l <= issued'
  BY <1>1
<1>. QED
  BY <1>2 DEF Accounted

\* A request that does not begin to wait says nothing.
Aside(r) ==
  /\ \A p \in Requests : p # r => at'[p] = at[p] /\ sess'[p] = sess[p] /\ call'[p] = call[p] /\ slot'[p] = slot[p]
  /\ DOMAIN at' = Requests /\ DOMAIN sess' = Requests /\ DOMAIN call' = Requests /\ DOMAIN slot' = Requests
  /\ at'[r] # "wait"
  /\ at'[r] \in Before => /\ slot'[r] = <<>>
                          /\ at[r] \in Before \/ (at[r] = "wait" /\ slot[r] # <<>>)
  /\ at'[r] \in {"publish", "lock", "ask"} => sess'[r] \in 1..born'
  /\ UNCHANGED <<inbox, lines, issued, open, silent>>
  /\ born' \in 0..MaxProcs /\ born' >= born /\ published' \in 0..born' /\ arg' \in [Requests -> Nat]
  /\ \A n \in alive' : n \in 1..born' /\ (n \in alive \/ n > born)

LEMMA AsideKeeps ==
  ASSUME LoginShape, OneAnswer, NEW r \in Requests, Aside(r)
  PROVE  OneAnswer' /\ \A p \in Requests, l \in Logins : Due(p, l)' => Due(p, l) /\ p # r /\ sess'[p] = sess[p]
<1>1. \A n \in Sessions : inbox'[n] \subseteq inbox[n] /\ lines'[n] = lines[n]
  BY DEF Aside
<1>2. ASSUME NEW p \in Requests, p # r
      PROVE  /\ (at'[p] \in Before => Clear(p)') /\ (at'[p] = "wait" => Waits(p)')
             /\ \A l \in Logins : Due(p, l)' => Due(p, l)
  <2>1. at'[p] = at[p] /\ sess'[p] = sess[p] /\ call'[p] = call[p] /\ slot'[p] = slot[p]
    BY <1>2 DEF Aside
  <2>. QED
    BY <1>1, <2>1, Quieter DEF OneAnswer
<1>3. at'[r] # "wait"
  BY DEF Aside
<1>4. ASSUME at'[r] \in Before PROVE Clear(r)'
  <2>1. slot'[r] = <<>> /\ (at[r] \in Before \/ (at[r] = "wait" /\ slot[r] # <<>>)) /\ UNCHANGED <<inbox, lines>>
    BY <1>4 DEF Aside
  <2>2. \A n \in Sessions : ~Requested(n, r) /\ ~Written(n, r)
    BY <2>1 DEF OneAnswer, Clear, Waits
  <2>. QED
    BY <2>1, <2>2 DEF Clear, Requested, Written, Replies
<1>5. \A l \in Logins : ~Due(r, l)'
  BY <1>3 DEF Due
<1>6. \A p \in Requests : p # r => sess'[p] = sess[p]
  BY DEF Aside
<1>. QED
  BY <1>2, <1>3, <1>4, <1>5, <1>6 DEF OneAnswer

LEMMA AsideShape ==
  ASSUME LoginShape, NEW r \in Requests, Aside(r), pend' \in [Sessions -> Nat], DOMAIN completed' = Sessions,
         \A n \in Sessions : pend'[n] <= issued /\ (n > born' => pend'[n] = 0)
  PROVE  LoginShape'
<1>1. \A p \in Requests : at'[p] \in {"publish", "lock", "ask", "wait"} => sess'[p] \in 1..born'
  <2>1. \A p \in Requests : p # r => at'[p] = at[p] /\ sess'[p] = sess[p]
    BY DEF Aside
  <2>2. \A x \in 1..born : x \in 1..born'
    BY DEF Aside, LoginShape
  <2>. QED
    BY <2>1, <2>2 DEF Aside, LoginShape
<1>. QED
  BY <1>1 DEF Aside, LoginShape

\* ... and unless it has to do with the pending login it is all that changes.
LEMMA AsideInv ==
  ASSUME LoginInv, NEW r \in Requests, Aside(r), UNCHANGED sessionVars
  PROVE  LoginInv'
<1>1. UNCHANGED <<pend, completed, issued, open, silent, lines>>
  BY DEF Aside, sessionVars
<1>2. born \in Nat /\ born' \in Nat /\ born' >= born /\ issued \in Nat /\ \A n \in Sessions : n \in Nat
  BY LoginAssumption DEF LoginInv, LoginShape, Aside, Sessions
<1>3. \A n \in Sessions : n > born' => pend'[n] = 0
  BY <1>1, <1>2 DEF LoginInv, LoginShape
<1>4. LoginShape'
  BY <1>1, <1>3, AsideShape DEF LoginInv, LoginShape
<1>5. OneAnswer' /\ \A p \in Requests, l \in Logins : Due(p, l)' => Due(p, l) /\ p # r /\ sess'[p] = sess[p]
  BY AsideKeeps DEF LoginInv
<1>6. ASSUME NEW p \in Requests, NEW l \in Logins, Due(p, l), sess'[p] = sess[p]
      PROVE  /\ sess[p] \in alive' => sess[p] \in alive
             /\ Placed(sess[p], l) => Placed(sess[p], l)'
             /\ \A n \in Sessions : pend'[n] # l
  <2>1. sess[p] \in 1..born
    BY <1>6 DEF Due, LoginInv, LoginShape
  <2>2. sess[p] \in alive' => sess[p] \in alive
    BY <1>2, <2>1 DEF Aside
  <2>3. Placed(sess[p], l) => Placed(sess[p], l)'
    BY <1>1, <1>6 DEF Placed, Ended
  <2>4. \A n \in Sessions : pend'[n] # l
    BY <1>1, <1>6 DEF LoginInv, Accounted
  <2>. QED
    BY <2>2, <2>3, <2>4
<1>7. Accounted'
  BY <1>1, <1>2, <1>5, <1>6, AccountedKeeps DEF LoginInv
<1>8. PendingIsOpen'
  <2>1. ASSUME NEW n \in alive', pend'[n] # 0 PROVE Kept(n, pend[n])
    <3>1. n \in Sessions
      BY LoginAssumption DEF Aside, Sessions
    <3>2. n \in alive
      BY <1>1, <1>2, <2>1, <3>1 DEF Aside, LoginInv, LoginShape
    <3>. QED
      BY <1>1, <2>1, <3>2 DEF LoginInv, PendingIsOpen, Kept, Ended
  <2>. QED
    BY <1>1, <2>1 DEF PendingIsOpen, Kept, Ended
<1>. QED
  BY <1>4, <1>5, <1>7, <1>8 DEF LoginInv

\* Looking the session up, starting it, publishing it, taking its lock, failing: aside.
LEMMA FirstSteps ==
  ASSUME LoginInv, NEW r \in Requests, Begin(r) \/ Lookup(r) \/ Spawn(r) \/ Publish(r) \/ Lock(r) \/ Fail(r)
  PROVE  Aside(r) /\ UNCHANGED sessionVars
<1>1. /\ LoginShape /\ born \in Nat /\ DOMAIN at = Requests /\ DOMAIN sess = Requests /\ arg \in [Requests -> Nat]
      /\ DOMAIN call = Requests /\ DOMAIN slot = Requests
      /\ \A n \in alive : n \in 1..born
      /\ at[r] \in Before => slot[r] = <<>>
  BY DEF LoginInv, LoginShape, OneAnswer, Clear
<1>2. /\ UNCHANGED <<inbox, lines, issued, open, silent, call, slot, sessionVars>>
      /\ DOMAIN at' = Requests /\ DOMAIN sess' = Requests
      /\ \A p \in Requests : p # r => at'[p] = at[p] /\ sess'[p] = sess[p]
  BY <1>1 DEF Begin, Lookup, Spawn, Publish, Lock, LockStart, LockCancel, LockLogout, Locked, Fail, Finish, Goto, loginProcVars
<1>3. CASE Begin(r)
  <2>1. at[r] = "new" /\ at'[r] = "lookup" /\ UNCHANGED <<managerVars, alive>>
    BY <1>1, <1>3 DEF Begin, Goto
  <2>2. arg' \in [Requests -> Nat]
    BY <1>1, <1>3, LoginAssumption DEF Begin, Logins
  <2>. QED
    BY <1>1, <1>2, <2>1, <2>2 DEF Aside, Before, managerVars, LoginShape
<1>4. CASE Lookup(r)
  <2>1. /\ at[r] = "lookup" /\ UNCHANGED <<managerVars, alive, arg>>
        /\ \/ at'[r] = "closed"
           \/ at'[r] = "spawn"
           \/ at'[r] \in {"ask", "lock"} /\ sess'[r] = published /\ published # 0
    BY <1>1, <1>4 DEF Lookup, Finish, Goto, Entry
  <2>. QED
    BY <1>1, <1>2, <2>1 DEF Aside, Before, managerVars, LoginShape
<1>5. CASE Spawn(r)
  <2>1. /\ at[r] = "spawn" /\ UNCHANGED <<published, arg>> /\ born' = born + 1 /\ born < MaxProcs
        /\ \A n \in alive' : n \in alive \/ n = born + 1
        /\ at'[r] = "failed" \/ (at'[r] = "publish" /\ sess'[r] = born + 1)
    BY <1>1, <1>5 DEF Spawn, StartCodexAppServer, Finish, Goto
  <2>2. born' \in 0..MaxProcs /\ published' \in 0..born' /\ \A n \in alive' : n \in 1..born' /\ (n \in alive \/ n > born)
    BY <1>1, <2>1, LoginAssumption DEF LoginShape
  <2>. QED
    BY <1>1, <1>2, <2>1, <2>2 DEF Aside, Before
<1>6. CASE Publish(r)
  <2>1. /\ at[r] = "publish" /\ UNCHANGED <<born, arg>> /\ alive' \subseteq alive
        /\ \/ at'[r] = "closed" /\ published' = published
           \/ at'[r] \in {"ask", "lock"} /\ sess'[r] = published /\ published # 0 /\ published' = published
           \/ at'[r] \in {"ask", "lock"} /\ sess'[r] = sess[r] /\ published' = sess[r]
    BY <1>1, <1>6 DEF Publish, Finish, Goto, Entry
  <2>2. sess[r] \in 1..born
    BY <2>1 DEF LoginInv, LoginShape
  <2>. QED
    BY <1>1, <1>2, <2>1, <2>2 DEF Aside, Before, LoginShape
<1>7. CASE Lock(r)
  <2>1. /\ at[r] = "lock" /\ UNCHANGED <<managerVars, alive, arg, sess>>
        /\ at'[r] \in {"login", "nologin", "ask"}
    BY <1>1, <1>7 DEF Lock, LockStart, LockCancel, LockLogout, Locked, Goto
  <2>. QED
    BY <1>1, <1>2, <2>1 DEF Aside, Before, managerVars, LoginShape
<1>8. CASE Fail(r)
  <2>1. UNCHANGED <<managerVars, alive, arg, sess>> /\ at'[r] = "failed"
    BY <1>1, <1>8 DEF Fail, Finish, Goto
  <2>. QED
    BY <1>1, <1>2, <2>1 DEF Aside, Before, managerVars, LoginShape
<1>. QED
  BY <1>3, <1>4, <1>5, <1>6, <1>7, <1>8

\* So is going on with an answer.
LEMMA ResumesAside ==
  ASSUME LoginInv, NEW r \in Requests, NEW a, Resume(r, a), NEW how,
         at' = [at EXCEPT ![r] = how], how \notin (Before \cup {"wait"}) \ {"ask"}
  PROVE  Aside(r) /\ alive' = alive
<1>1. /\ LoginShape /\ DOMAIN at = Requests /\ DOMAIN sess = Requests /\ DOMAIN slot = Requests
  BY DEF LoginInv, LoginShape
<1>2. /\ at[r] = "wait" /\ slot[r] # <<>> /\ slot' = [slot EXCEPT ![r] = <<>>]
      /\ UNCHANGED <<managerVars, alive, arg, sess, call, inbox, lines, issued, open, silent>>
  BY DEF Resume, loginProcVars
<1>3. sess[r] \in 1..born /\ at'[r] = how
  BY <1>1, <1>2 DEF LoginShape
<1>. QED
  BY <1>1, <1>2, <1>3 DEF Aside, Before, managerVars, LoginShape

LEMMA ResumesQuietly ==
  ASSUME LoginInv, NEW r \in Requests, ResumeStatus(r) \/ ResumeRead(r)
  PROVE  LoginInv'
<1>1. PICK a : Resume(r, a) /\ UNCHANGED sessionVars
  BY DEF ResumeStatus, ResumeRead
<1>2. \E how : how \notin (Before \cup {"wait"}) \ {"ask"} /\ at' = [at EXCEPT ![r] = how]
  <2>1. CASE ResumeStatus(r)
    <3>1. PICK how \in {"connected", "connecting", "disconnected"} : at' = [at EXCEPT ![r] = how]
      BY <2>1 DEF ResumeStatus, Finish, Goto
    <3>. QED
      BY <3>1 DEF Before
  <2>2. CASE ResumeRead(r)
    <3>1. PICK how \in {"refused", "ask"} : at' = [at EXCEPT ![r] = how]
      BY <2>2 DEF ResumeRead, Finish, Goto
    <3>. QED
      BY <3>1 DEF Before
  <2>. QED
    BY <2>1, <2>2
<1>. QED
  BY <1>1, <1>2, ResumesAside, AsideInv

\* The pending login is taken out, by CancelLogin or Logout.
LEMMA ResumesOut ==
  ASSUME LoginInv, NEW r \in Requests, ResumeCancel(r) \/ ResumeLogout(r)
  PROVE  LoginInv'
<1>1. \E a : Resume(r, a) /\ at' = [at EXCEPT ![r] = "ok"]
  BY DEF ResumeCancel, ResumeLogout, Finish, Goto
<1>2. Aside(r) /\ alive' = alive
  BY <1>1, ResumesAside DEF Before
<1>3. /\ LoginShape /\ OneAnswer /\ Accounted /\ PendingIsOpen /\ 0 \in Nat
      /\ issued \in Nat /\ issued' = issued /\ born' = born /\ UNCHANGED <<open, silent, lines>>
  BY <1>1, <1>2 DEF LoginInv, LoginShape, Aside, Resume, managerVars
<1>4. pend' = pend \/ pend' = [pend EXCEPT ![sess[r]] = 0]
  BY DEF ResumeCancel, ResumeLogout
<1>5. completed' = completed
  BY DEF ResumeCancel, ResumeLogout
<1>6. pend' \in [Sessions -> Nat] /\ \A n \in Sessions : pend'[n] = pend[n] \/ pend'[n] = 0
  <2>1. pend \in [Sessions -> Nat]
    BY <1>3 DEF LoginShape
  <2>. QED
    BY <1>4, <2>1
<1>7. LoginShape'
  BY <1>2, <1>3, <1>5, <1>6, AsideShape DEF LoginShape
<1>8. OneAnswer' /\ \A p \in Requests, l \in Logins : Due(p, l)' => Due(p, l) /\ p # r /\ sess'[p] = sess[p]
  BY <1>2, <1>3, AsideKeeps
<1>9. ASSUME NEW p \in Requests, NEW l \in Logins, Due(p, l), sess'[p] = sess[p]
      PROVE  /\ \A n \in Sessions : pend'[n] # l
             /\ Placed(sess[p], l) => Placed(sess[p], l)'
  <2>1. l # 0 /\ \A n \in Sessions : pend[n] # l
    BY <1>3, <1>9, LoginAssumption DEF Accounted, Logins
  <2>. QED
    BY <1>3, <1>5, <1>6, <1>9, <2>1 DEF Placed, Ended
<1>10. Accounted'
  BY <1>2, <1>3, <1>8, <1>9, AccountedKeeps
<1>11. PendingIsOpen'
  <2>1. \A n \in alive : n \in Sessions
    BY <1>3, LoginAssumption DEF LoginShape, Sessions
  <2>. QED
    BY <1>2, <1>3, <1>6, <2>1 DEF PendingIsOpen
<1>. QED
  BY <1>7, <1>8, <1>10, <1>11 DEF LoginInv

\* The login a request was told of becomes the pending one, unless its end has been
\* noted already.
LEMMA ResumesLogin ==
  ASSUME LoginInv, NEW r \in Requests, ResumeLogin(r)
  PROVE  LoginInv'
<1>1. PICK n \in Nat : n = sess[r] /\ at[r] = "wait" /\ n \in 1..born /\ n \in Sessions
  BY LoginAssumption DEF ResumeLogin, Resume, LoginInv, LoginShape, Sessions
<1>2. PICK l \in Logins \cup {0} :
        /\ call[r] = "login/start" /\ Resume(r, l)
        /\ IF l = 0 THEN Finish(r, "failed") /\ UNCHANGED sessionVars
           ELSE /\ IF l \in completed[n]
                   THEN completed' = [completed EXCEPT ![n] = @ \ {l}] /\ UNCHANGED pend
                   ELSE pend' = [pend EXCEPT ![n] = l] /\ UNCHANGED completed
                /\ Finish(r, "login")
  BY <1>1 DEF ResumeLogin
<1>3. Aside(r) /\ alive' = alive
  <2>1. at' = [at EXCEPT ![r] = "failed"] \/ at' = [at EXCEPT ![r] = "login"]
    BY <1>2 DEF Finish, Goto
  <2>2. "failed" \notin (Before \cup {"wait"}) \ {"ask"} /\ "login" \notin (Before \cup {"wait"}) \ {"ask"}
    BY DEF Before
  <2>. QED
    BY <1>2, <2>1, <2>2, ResumesAside
<1>4. CASE l = 0
  BY <1>2, <1>3, <1>4, AsideInv
<1>5. CASE l # 0
  <2>1. /\ LoginShape /\ OneAnswer /\ Accounted /\ PendingIsOpen
        /\ issued \in Nat /\ issued' = issued /\ born' = born /\ born \in Nat
        /\ UNCHANGED <<open, silent, lines>> /\ l \in Logins /\ l \in Nat
    BY <1>2, <1>3, <1>5, LoginAssumption DEF LoginInv, LoginShape, Aside, Resume, managerVars, Logins
  <2>2. Due(r, l)
    BY <1>1, <1>2 DEF Due, Resume
  <2>3. /\ l <= issued /\ \A p \in Requests : Due(p, l) => p = r
        /\ n \in alive => Placed(n, l)
    BY <1>1, <2>1, <2>2 DEF Accounted
  <2>4. /\ pend' \in [Sessions -> Nat] /\ DOMAIN completed' = Sessions
        /\ \A p \in Sessions : pend'[p] = pend[p] \/ (p = n /\ pend'[p] = l /\ l \notin completed[n])
        /\ \A p \in Sessions : completed[p] \ {l} \subseteq completed'[p]
    BY <1>1, <1>2, <1>5, <2>1 DEF LoginShape
  <2>5. LoginShape'
    <3>1. \A p \in Sessions : pend'[p] <= issued /\ (p > born' => pend'[p] = 0)
      BY <1>1, <2>1, <2>3, <2>4 DEF LoginShape
    <3>. QED
      BY <1>3, <2>1, <2>4, <3>1, AsideShape
  <2>6. OneAnswer' /\ \A p \in Requests, k \in Logins : Due(p, k)' => Due(p, k) /\ p # r /\ sess'[p] = sess[p]
    BY <1>3, <2>1, AsideKeeps
  <2>7. ASSUME NEW p \in Requests, NEW k \in Logins, Due(p, k), p # r, sess'[p] = sess[p]
        PROVE  /\ \A m \in Sessions : pend'[m] # k
               /\ Placed(sess[p], k) => Placed(sess[p], k)'
    <3>1. k # l /\ \A m \in Sessions : pend[m] # k
      BY <2>1, <2>3, <2>7 DEF Accounted
    <3>2. sess[p] \in Sessions
      BY <2>1, <2>7, LoginAssumption DEF Due, LoginShape, Sessions
    <3>3. PICK m \in Sessions : m = sess[p]
      BY <3>2
    <3>4. Placed(m, k) => Placed(m, k)'
      BY <2>1, <2>4, <3>1 DEF Placed, Ended
    <3>5. \A o \in Sessions : pend'[o] # k
      BY <2>4, <3>1
    <3>6. Placed(sess[p], k)' <=> Placed(m, k)'
      BY <2>7, <3>3 DEF Placed, Ended
    <3>. QED
      BY <3>3, <3>4, <3>5, <3>6
  <2>8. Accounted'
    <3>1. issued' \in Nat /\ issued' >= issued
      BY <2>1
    <3>2. \A p \in Requests, k \in Logins : Due(p, k)' =>
            /\ Due(p, k) /\ sess'[p] = sess[p]
            /\ sess[p] \in alive' => sess[p] \in alive
            /\ \A m \in Sessions : pend'[m] # k
            /\ sess[p] \in alive' /\ Placed(sess[p], k) => Placed(sess[p], k)'
      BY <1>3, <2>6, <2>7
    <3>. QED
      BY <2>1, <3>1, <3>2, AccountedKeeps
  <2>9. PendingIsOpen'
    <3>1. \A m \in alive : m \in Sessions
      BY <2>1, LoginAssumption DEF LoginShape, Sessions
    <3>2. n \in alive /\ l \notin completed[n] => l \in open[n] \cup silent \/ Ended(n, l)
      BY <2>3 DEF Placed
    <3>. QED
      BY <1>3, <2>1, <2>4, <3>1, <3>2 DEF PendingIsOpen, Ended
  <2>. QED
    BY <2>5, <2>6, <2>8, <2>9 DEF LoginInv
<1>. QED
  BY <1>4, <1>5

\* A request that asks has nothing on its way but the request it makes.
LEMMA AskInv ==
  ASSUME LoginInv, NEW r \in Requests, Ask(r)
  PROVE  LoginInv'
<1>1. PICK n \in Nat : n = sess[r] /\ n \in Sessions /\ n \in 1..born
  BY LoginAssumption DEF Ask, LoginInv, LoginShape, Sessions
<1>2. PICK q : q = [by |-> r, what |-> Method(r), login |-> arg[r]]
  OBVIOUS
<1>0. LoginShape /\ OneAnswer /\ Accounted /\ PendingIsOpen
  BY DEF LoginInv
<1>3. /\ at[r] = "ask" /\ at' = [at EXCEPT ![r] = "wait"] /\ call' = [call EXCEPT ![r] = Method(r)]
      /\ inbox' = [inbox EXCEPT ![n] = @ \cup {q}]
      /\ UNCHANGED <<managerVars, alive, pend, completed, arg, sess, slot, lines, open, silent, issued>>
  BY <1>1, <1>2 DEF Ask, Goto, sessionVars
<1>4. q \in Messages /\ q.by = r /\ q.what = Method(r)
  <2>1. Method(r) \in {"account/read", "login/start", "login/cancel", "logout"} /\ arg[r] \in Nat
    BY <1>0 DEF Method, LoginShape
  <2>. QED
    BY <1>2, <2>1 DEF Messages
<1>5. Clear(r)
  BY <1>0, <1>3 DEF OneAnswer, Before
<1>6. LoginShape'
  <2>1. inbox' \in [Sessions -> SUBSET Messages]
    BY <1>0, <1>3, <1>4 DEF LoginShape
  <2>. QED
    BY <1>0, <1>1, <1>3, <2>1 DEF LoginShape, managerVars
<1>7. \A m \in Sessions, p \in Requests : Written(m, p)' <=> Written(m, p)
  BY <1>0, <1>3 DEF Written, Replies
<1>8. \A m, p, k : Replies(m, k, p)' <=> Replies(m, k, p)
  BY <1>0, <1>3 DEF Replies
<1>9. Waits(r)'
  <2>1. \A m \in Sessions : Requested(m, r)' => m = n
    BY <1>0, <1>3, <1>4, <1>5 DEF Requested, Clear, LoginShape
  <2>2. \A u \in inbox'[n] : u.by = r => u = q
    BY <1>0, <1>1, <1>3, <1>4, <1>5 DEF Requested, Clear, LoginShape
  <2>3. call'[r] = Method(r)
    BY <1>0, <1>3 DEF LoginShape
  <2>. QED
    BY <1>0, <1>1, <1>3, <1>4, <1>5, <1>7, <2>1, <2>2, <2>3 DEF Waits, Clear
<1>10. ASSUME NEW p \in Requests, p # r
       PROVE  /\ (at'[p] \in Before => Clear(p)') /\ (at'[p] = "wait" => Waits(p)')
              /\ \A l \in Logins : Due(p, l)' => Due(p, l)
  <2>1. at'[p] = at[p] /\ call'[p] = call[p] /\ slot' = slot /\ sess' = sess
    BY <1>0, <1>3, <1>10 DEF LoginShape
  <2>2. \A m \in Sessions : \A u : u.by = p => (u \in inbox'[m] <=> u \in inbox[m])
    BY <1>0, <1>3, <1>4, <1>10 DEF LoginShape
  <2>3. \A m \in Sessions : Requested(m, p)' <=> Requested(m, p)
    BY <2>2 DEF Requested
  <2>4. Clear(p) => Clear(p)'
    BY <1>7, <2>1, <2>3 DEF Clear
  <2>5. Waits(p) => Waits(p)'
    BY <1>0, <1>3, <1>7, <1>8, <2>1, <2>2, <2>3 DEF Waits
  <2>6. \A l \in Logins : Due(p, l)' => Due(p, l)
    BY <1>3, <1>8, <2>1 DEF Due
  <2>. QED
    BY <1>0, <2>1, <2>4, <2>5, <2>6 DEF OneAnswer
<1>11. at'[r] = "wait" /\ "wait" \notin Before
  BY <1>0, <1>3 DEF LoginShape, Before
<1>12. \A l \in Logins : ~Due(r, l)'
  BY <1>0, <1>3, <1>5, <1>8 DEF Due, Clear, Written
<1>13. OneAnswer'
  BY <1>9, <1>10, <1>11 DEF OneAnswer
<1>14. Accounted'
  <2>1. \A m, l : Placed(m, l) => Placed(m, l)'
    BY <1>0, <1>3 DEF Placed, Ended
  <2>2. issued \in Nat /\ issued' = issued /\ sess' = sess /\ pend' = pend /\ alive' = alive
    BY <1>0, <1>3 DEF LoginShape
  <2>3. \A p \in Requests, l \in Logins : Due(p, l)' => Due(p, l)
    BY <1>10, <1>12
  <2>4. \A p \in Requests, l \in Logins : Due(p, l) => \A m \in Sessions : pend'[m] # l
    BY <1>0, <1>3 DEF Accounted
  <2>. QED
    BY <1>0, <1>3, <2>1, <2>2, <2>3, <2>4, AccountedKeeps
<1>15. PendingIsOpen'
  BY <1>0, <1>3 DEF PendingIsOpen
<1>. QED
  BY <1>6, <1>13, <1>14, <1>15 DEF LoginInv

\* The process and the reader leave the requests where they are.
LEMMA StillAccounted ==
  ASSUME LoginInv, issued' \in Nat, issued' >= issued, sess' = sess, alive' \subseteq alive,
         \A r \in Requests, l \in Logins : Due(r, l)' => Due(r, l),
         \A p \in Sessions, l \in Logins : pend[p] # l => pend'[p] # l,
         \A p \in Sessions, l \in Logins :
           p \in alive' /\ (\A m \in Sessions : pend[m] # l) /\ Placed(p, l) => Placed(p, l)'
  PROVE  Accounted'
<1>1. Accounted /\ issued \in Nat
  BY DEF LoginInv, LoginShape
<1>2. ASSUME NEW r \in Requests, NEW l \in Logins, Due(r, l)'
      PROVE  /\ Due(r, l) /\ \A p \in Sessions : pend'[p] # l
             /\ sess[r] \in alive' /\ Placed(sess[r], l) => Placed(sess[r], l)'
  <2>1. Due(r, l) /\ \A p \in Sessions : pend[p] # l
    BY <1>1, <1>2 DEF Accounted
  <2>2. PICK p \in Sessions : p = sess[r] /\ p = sess'[r]
    BY <2>1, LoginAssumption DEF Due, LoginInv, LoginShape, Sessions
  <2>3. Placed(sess[r], l)' <=> Placed(p, l)'
    BY <2>2 DEF Placed, Ended
  <2>. QED
    BY <2>1, <2>2, <2>3
<1>. QED
  BY <1>1, <1>2, AccountedKeeps

\* The next line, an answer: it reaches the request that waits for it.
LEMMA ReceiveAnswer ==
  ASSUME LoginInv, NEW n \in Sessions, Receive(n), Head(lines[n]).kind = "answer"
  PROVE  LoginInv'
<1>1. PICK m : m = Head(lines[n])
  OBVIOUS
<1>2. LoginShape /\ OneAnswer /\ Accounted /\ PendingIsOpen
  BY DEF LoginInv
<1>3. /\ lines[n] # <<>> /\ lines' = [lines EXCEPT ![n] = Tail(@)] /\ m.kind = "answer"
      /\ slot' = IF at[m.by] = "wait" THEN [slot EXCEPT ![m.by] = <<m.val>>] ELSE slot
      /\ UNCHANGED <<pend, completed, closed, published, closing, born, alive, arg, at, sess, call, inbox, open, silent, issued>>
  BY <1>1 DEF Receive, sessionVars, managerVars
<1>4. lines[n] \in Seq(Spoken) /\ lines \in [Sessions -> Seq(Spoken)]
  BY <1>2 DEF LoginShape
<1>5. m \in Spoken /\ 1 \in DOMAIN lines[n] /\ lines[n][1] = m /\ Tail(lines[n]) \in Seq(Spoken)
  BY <1>1, <1>3, <1>4
<1>6. m.by \in Requests
  BY <1>3, <1>5 DEF Spoken
<1>7. LoginShape'
  <2>1. lines' \in [Sessions -> Seq(Spoken)] /\ DOMAIN slot' = Requests
    BY <1>2, <1>3, <1>4, <1>5 DEF LoginShape
  <2>. QED
    BY <1>2, <1>3, <2>1 DEF LoginShape
<1>8. \A p \in Sessions : /\ inbox'[p] \subseteq inbox[p]
                          /\ \/ lines'[p] = lines[p] \/ lines'[p] = <<>>
                             \/ lines[p] # <<>> /\ lines'[p] = Tail(lines[p])
  BY <1>3, <1>4
<1>9. ASSUME NEW r \in Requests, r # m.by \/ at[r] # "wait"
      PROVE  /\ (at'[r] \in Before => Clear(r)') /\ (at'[r] = "wait" => Waits(r)')
             /\ \A l \in Logins : Due(r, l)' => Due(r, l)
  <2>1. at'[r] = at[r] /\ sess'[r] = sess[r] /\ call'[r] = call[r] /\ slot'[r] = slot[r]
    BY <1>2, <1>3, <1>9 DEF LoginShape
  <2>. QED
    BY <1>2, <1>8, <2>1, Quieter DEF OneAnswer
<1>10. ASSUME NEW r \in Requests, r = m.by, at[r] = "wait"
       PROVE  /\ (at'[r] \in Before => Clear(r)') /\ (at'[r] = "wait" => Waits(r)')
              /\ \A l \in Logins : Due(r, l)' => Due(r, l)
  <2>1. Replies(n, 1, r) /\ Written(n, r)
    BY <1>3, <1>5, <1>10 DEF Replies, Written
  <2>2. /\ Waits(r) /\ slot[r] = <<>>
        /\ \A j \in DOMAIN lines[n] : Replies(n, j, r) => j = 1
    BY <1>2, <1>5, <1>10, <2>1 DEF OneAnswer, Waits
  <2>3. \A p \in Sessions : ~Requested(p, r)
    BY <2>1, <2>2 DEF Waits
  <2>4. \A p \in Sessions : p # n => ~Written(p, r)
    BY <2>1, <2>2 DEF Waits
  <2>5. \A k \in DOMAIN lines'[n] : k + 1 \in DOMAIN lines[n] /\ lines'[n][k] = lines[n][k + 1] /\ k \in Nat \ {0}
    BY <1>3, <1>4
  <2>6. \A k \in DOMAIN lines'[n] : ~Replies(n, k, r)'
    <3>1. ASSUME NEW k \in DOMAIN lines'[n], Replies(n, k, r)' PROVE FALSE
      <4>1. Replies(n, k + 1, r) /\ k + 1 # 1
        BY <2>5, <3>1 DEF Replies
      <4>. QED
        BY <2>2, <2>5, <4>1
    <3>. QED
      BY <3>1
  <2>7. \A p \in Sessions : ~Written(p, r)' /\ ~Requested(p, r)'
    <3>1. \A p \in Sessions : p # n => ~Written(p, r)'
      BY <1>3, <1>4, <2>4 DEF Written, Replies
    <3>. QED
      BY <1>3, <2>3, <2>6, <3>1 DEF Written, Requested
  <2>8. Waits(r)'
    BY <2>7 DEF Waits
  <2>9. at'[r] = "wait" /\ "wait" \notin Before
    BY <1>3, <1>10 DEF Before
  <2>10. ASSUME NEW l \in Logins, Due(r, l)' PROVE Due(r, l)
    <3>1. slot'[r] = <<l>> /\ at[r] = "wait" /\ call[r] = "login/start"
      BY <1>3, <2>7, <2>10 DEF Due, Written
    <3>2. slot'[r] = <<m.val>>
      BY <1>2, <1>3, <1>10 DEF LoginShape
    <3>3. m.val = l
      BY <3>1, <3>2
    <3>. QED
      BY <1>5, <2>1, <3>1, <3>3 DEF Due
  <2>. QED
    BY <2>8, <2>9, <2>10
<1>11. OneAnswer' /\ \A r \in Requests, l \in Logins : Due(r, l)' => Due(r, l)
  BY <1>9, <1>10 DEF OneAnswer
<1>12. ASSUME NEW p \in Sessions, NEW l, Ended(p, l) PROVE Ended(p, l)'
  <2>1. PICK k \in DOMAIN lines[p] : lines[p][k] = Over(l)
    BY <1>12 DEF Ended
  <2>2. CASE p # n
    BY <1>3, <1>4, <2>1, <2>2 DEF Ended
  <2>3. CASE p = n
    <3>1. k # 1
      BY <1>3, <1>5, <2>1, <2>3 DEF Over
    <3>2. k - 1 \in DOMAIN lines'[n] /\ lines'[n][k - 1] = lines[n][k]
      BY <1>3, <1>4, <2>1, <2>3, <3>1
    <3>. QED
      BY <2>1, <2>3, <3>2 DEF Ended
  <2>. QED
    BY <2>2, <2>3
<1>13. Accounted'
  <2>1. \A p \in Sessions, l \in Logins : Placed(p, l) => Placed(p, l)'
    BY <1>3, <1>12 DEF Placed
  <2>2. issued' \in Nat /\ issued' >= issued /\ alive' = alive /\ sess' = sess /\ pend' = pend
    BY <1>2, <1>3 DEF LoginShape
  <2>. QED
    BY <1>11, <2>1, <2>2, StillAccounted
<1>14. PendingIsOpen'
  <2>1. \A p \in alive : p \in Sessions
    BY <1>2, LoginAssumption DEF LoginShape, Sessions
  <2>2. UNCHANGED <<alive, pend, open, silent>>
    BY <1>3
  <2>. QED
    BY <1>2, <1>12, <2>1, <2>2 DEF PendingIsOpen, Ended
<1>. QED
  BY <1>7, <1>11, <1>13, <1>14 DEF LoginInv

\* The next line, the end of a login: the pending one is pending no more, any other is
\* noted.
LEMMA ReceiveCompleted ==
  ASSUME LoginInv, NEW n \in Sessions, Receive(n), Head(lines[n]).kind = "completed"
  PROVE  LoginInv'
<1>1. PICK m : m = Head(lines[n])
  OBVIOUS
<1>2. LoginShape /\ OneAnswer /\ Accounted /\ PendingIsOpen
  BY DEF LoginInv
<1>3. /\ lines[n] # <<>> /\ lines' = [lines EXCEPT ![n] = Tail(@)] /\ m.kind = "completed"
      /\ IF pend[n] = m.login
         THEN pend' = [pend EXCEPT ![n] = 0] /\ UNCHANGED completed
         ELSE completed' = [completed EXCEPT ![n] = @ \cup {m.login}] /\ UNCHANGED pend
      /\ UNCHANGED <<slot, closed, published, closing, born, alive, arg, at, sess, call, inbox, open, silent, issued>>
  BY <1>1 DEF Receive, LoginCompleted, managerVars
<1>4. lines[n] \in Seq(Spoken) /\ lines \in [Sessions -> Seq(Spoken)] /\ pend \in [Sessions -> Nat] /\ DOMAIN completed = Sessions
  BY <1>2 DEF LoginShape
<1>5. 1 \in DOMAIN lines[n] /\ lines[n][1] = m /\ Tail(lines[n]) \in Seq(Spoken)
  BY <1>1, <1>3, <1>4
<1>6. /\ pend' \in [Sessions -> Nat] /\ DOMAIN completed' = Sessions
      /\ \A p \in Sessions : pend'[p] = pend[p] \/ pend'[p] = 0
      /\ pend'[n] # m.login \/ pend'[n] = 0
      /\ \A p \in Sessions : completed[p] \subseteq completed'[p]
      /\ pend[n] # m.login => m.login \in completed'[n]
  <2>1. CASE pend[n] = m.login
    BY <1>3, <1>4, <2>1
  <2>2. CASE pend[n] # m.login
    BY <1>3, <1>4, <2>2
  <2>. QED
    BY <2>1, <2>2
<1>7. LoginShape'
  <2>1. lines' \in [Sessions -> Seq(Spoken)]
    BY <1>3, <1>4, <1>5
  <2>2. \A p \in Sessions : pend'[p] <= issued /\ (p > born => pend'[p] = 0)
    BY <1>2, <1>6 DEF LoginShape
  <2>. QED
    BY <1>2, <1>3, <1>6, <2>1, <2>2 DEF LoginShape
<1>8. \A p \in Sessions : /\ inbox'[p] \subseteq inbox[p]
                          /\ \/ lines'[p] = lines[p] \/ lines'[p] = <<>>
                             \/ lines[p] # <<>> /\ lines'[p] = Tail(lines[p])
  BY <1>3, <1>4
<1>9. OneAnswer' /\ \A r \in Requests, l \in Logins : Due(r, l)' => Due(r, l)
  <2>1. at' = at /\ sess' = sess /\ call' = call /\ slot' = slot
    BY <1>3
  <2>. QED
    BY <1>2, <1>8, <2>1, Quieter DEF OneAnswer
<1>10. ASSUME NEW p \in Sessions, NEW l, Ended(p, l), p # n \/ l # m.login PROVE Ended(p, l)'
  <2>1. PICK k \in DOMAIN lines[p] : lines[p][k] = Over(l)
    BY <1>10 DEF Ended
  <2>2. CASE p # n
    BY <1>3, <1>4, <2>1, <2>2 DEF Ended
  <2>3. CASE p = n
    <3>1. k # 1
      BY <1>5, <1>10, <2>1, <2>3 DEF Over
    <3>2. k - 1 \in DOMAIN lines'[n] /\ lines'[n][k - 1] = lines[n][k]
      BY <1>3, <1>4, <2>1, <2>3, <3>1
    <3>. QED
      BY <2>1, <2>3, <3>2 DEF Ended
  <2>. QED
    BY <2>2, <2>3
<1>11. Accounted'
  <2>1. ASSUME NEW p \in Sessions, NEW l \in Logins, \A o \in Sessions : pend[o] # l, Placed(p, l)
        PROVE  Placed(p, l)'
    BY <1>3, <1>6, <1>10, <2>1 DEF Placed
  <2>2. \A l \in Logins : l # 0
    BY LoginAssumption DEF Logins
  <2>3. issued' \in Nat /\ issued' >= issued /\ alive' = alive /\ sess' = sess
    BY <1>2, <1>3 DEF LoginShape
  <2>4. \A p \in Sessions, l \in Logins : pend[p] # l => pend'[p] # l
    BY <1>6, <2>2
  <2>. QED
    BY <1>9, <2>1, <2>3, <2>4, StillAccounted
<1>12. PendingIsOpen'
  <2>1. ASSUME NEW p \in alive, pend'[p] # 0
        PROVE  pend'[p] \in open[p] \cup silent \/ \E k \in DOMAIN lines'[p] : lines'[p][k] = Over(pend'[p])
    <3>1. p \in Sessions
      BY <1>2, LoginAssumption DEF LoginShape, Sessions
    <3>2. pend'[p] = pend[p] /\ (p # n \/ pend[p] # m.login)
      BY <1>6, <2>1, <3>1
    <3>3. pend[p] \in open[p] \cup silent \/ Ended(p, pend[p])
      BY <1>2, <2>1, <3>2 DEF PendingIsOpen, Ended
    <3>4. PICK l : l = pend[p]
      OBVIOUS
    <3>5. Ended(p, l) => Ended(p, l)'
      BY <1>10, <3>1, <3>2, <3>4
    <3>. QED
      BY <3>2, <3>3, <3>4, <3>5 DEF Ended
  <2>2. UNCHANGED <<alive, open, silent>>
    BY <1>3
  <2>. QED
    BY <2>1, <2>2 DEF PendingIsOpen
<1>. QED
  BY <1>7, <1>9, <1>11, <1>12 DEF LoginInv

\* What has been written since, ends of logins but for the answers to r, changes
\* nothing for any other request.
LEMMA LongerSpares ==
  ASSUME LoginShape, NEW n \in Sessions, Longer(n), NEW r \in Requests,
         \A k \in Fresher(n) : ~Replies(n, k, r)',
         UNCHANGED <<at, sess, call, slot>>, \A p \in Sessions : \A q : q.by = r => (q \in inbox'[p] <=> q \in inbox[p])
  PROVE  /\ Clear(r) => Clear(r)'
         /\ Waits(r) => Waits(r)'
         /\ \A l \in Logins : Due(r, l)' => Due(r, l)
<1>1. \A p \in Sessions : Requested(p, r)' <=> Requested(p, r)
  BY DEF Requested
<1>2. ASSUME NEW p \in Sessions, NEW k \in DOMAIN lines'[p], Replies(p, k, r)'
      PROVE  k \in DOMAIN lines[p] /\ Replies(p, k, r) /\ lines'[p][k] = lines[p][k]
  BY <1>2 DEF Longer, Fresher, Replies
<1>3. \A p \in Sessions : Written(p, r)' => Written(p, r)
  BY <1>2 DEF Written
<1>4. Clear(r) => Clear(r)'
  BY <1>1, <1>3 DEF Clear
<1>5. Waits(r) => Waits(r)'
  BY <1>1, <1>2, <1>3 DEF Waits
<1>6. \A l \in Logins : Due(r, l)' => Due(r, l)
  BY <1>2 DEF Due
<1>. QED
  BY <1>4, <1>5, <1>6

\* The open logins stay accounted for whatever the process does with them.
LEMMA KeptInv ==
  ASSUME LoginInv, KeptOnes, UNCHANGED <<completed, pend>>, alive' \subseteq alive
  PROVE  /\ PendingIsOpen'
         /\ \A p \in Sessions, l \in Logins : Placed(p, l) => Placed(p, l)'
<1>1. \A p \in Sessions, l \in Logins : Placed(p, l) => Placed(p, l)'
  BY LoginAssumption DEF KeptOnes, Kept, Placed, Logins
<1>2. ASSUME NEW n \in alive', pend[n] # 0
      PROVE  pend[n] \in open'[n] \cup silent' \/ \E k \in DOMAIN lines'[n] : lines'[n][k] = Over(pend[n])
  <2>1. n \in alive /\ n \in Sessions
    BY LoginAssumption DEF LoginInv, LoginShape, Sessions
  <2>2. PICK l \in Nat : l = pend[n]
    BY <2>1 DEF LoginInv, LoginShape
  <2>3. Kept(n, l)
    BY <1>2, <2>1, <2>2 DEF LoginInv, PendingIsOpen, Kept, Ended
  <2>. QED
    BY <2>1, <2>2, <2>3 DEF KeptOnes, Kept, Ended
<1>. QED
  BY <1>1, <1>2 DEF PendingIsOpen

\* Serve: the request that is served is answered.
LEMMA ServeInv ==
  ASSUME LoginInv, LoginFlags, NEW n \in Sessions, Serve(n)
  PROVE  LoginInv'
<1>0. PICK q \in inbox[n] : \E v : Served(n, q, v)
  BY ServeIs DEF LoginInv
<1>1. PICK v : Served(n, q, v)
  BY <1>0
<1>2. /\ UNCHANGED <<closed, published, closing, born, alive, pend, completed, op, arg, at, sess, call, slot>>
      /\ LoginShape /\ OneAnswer /\ Accounted
  BY DEF Serve, managerVars, sessionVars, requestVars, LoginInv
<1>3. /\ inbox' = [inbox EXCEPT ![n] = @ \ {q}] /\ Longer(n)
      /\ issued' \in Nat /\ issued' >= issued /\ open' \in [Sessions -> SUBSET Nat]
      /\ q.what = "login/start" /\ v # 0 => v = issued + 1 /\ issued' = v /\ v \in open'[n]
      /\ KeptOnes
  BY <1>1 DEF Served
<1>4. PICK a \in Fresher(n) : /\ lines'[n][a] = Answer(q, v)
                             /\ \A k \in Fresher(n) : k # a => lines'[n][k].kind = "completed"
  BY <1>1 DEF Served, Responds
<1>5. PICK r \in Requests : r = q.by
  BY <1>2 DEF LoginShape, Messages
<1>6. issued \in Nat /\ lines' \in [Sessions -> Seq(Spoken)] /\ inbox' \in [Sessions -> SUBSET Messages]
  BY <1>2, <1>3 DEF LoginShape, Longer
<1>7. LoginShape'
  <2>1. \A m \in Sessions : pend'[m] <= issued' /\ (m > born' => pend'[m] = 0)
    BY <1>2, <1>3, <1>6 DEF LoginShape
  <2>. QED
    BY <1>2, <1>3, <1>6, <2>1 DEF LoginShape
<1>8. Answer(q, v).kind = "answer" /\ Answer(q, v).by = r /\ Answer(q, v).val = v
  BY <1>5 DEF Answer
<1>9. ASSUME NEW p \in Requests, p # r
      PROVE  /\ (at'[p] \in Before => Clear(p)') /\ (at'[p] = "wait" => Waits(p)')
             /\ \A l \in Logins : Due(p, l)' => Due(p, l)
  <2>1. \A k \in Fresher(n) : ~Replies(n, k, p)'
    BY <1>4, <1>8, <1>9 DEF Replies
  <2>2. \A m \in Sessions : \A u : u.by = p => (u \in inbox'[m] <=> u \in inbox[m])
    BY <1>2, <1>3, <1>5, <1>9 DEF LoginShape
  <2>. QED
    BY <1>2, <1>3, <2>1, <2>2, LongerSpares DEF OneAnswer
<1>10. Requested(n, r)
  BY <1>5 DEF Requested
<1>11. at[r] \notin Before
  BY <1>2, <1>10 DEF OneAnswer, Clear
<1>12. ASSUME at[r] = "wait"
       PROVE  /\ Waits(r)' /\ sess[r] = n /\ q.what = call[r] /\ slot[r] = <<>>
              /\ \A m \in Sessions : \A k \in DOMAIN lines'[m] : Replies(m, k, r)' => m = n /\ k = a
  <2>1. /\ n = sess[r] /\ slot[r] = <<>> /\ \A p \in Sessions : ~Written(p, r)
        /\ \A u \in inbox[n] : u.by = r => u.what = call[r]
        /\ \A u \in inbox[n] : u.by = r => u = q
        /\ \A m \in Sessions : Requested(m, r) => m = n
    BY <1>2, <1>5, <1>10, <1>12 DEF OneAnswer, Waits
  <2>2. \A m \in Sessions : ~Requested(m, r)'
    BY <1>2, <1>3, <2>1 DEF Requested, LoginShape
  <2>3. ASSUME NEW m \in Sessions, NEW k \in DOMAIN lines'[m], Replies(m, k, r)' PROVE m = n /\ k = a
    <3>1. ~(k \in DOMAIN lines[m] /\ lines'[m][k] = lines[m][k])
      BY <2>1, <2>3 DEF Written, Replies
    <3>2. m = n /\ k \in Fresher(n)
      BY <1>3, <2>3, <3>1 DEF Longer, Fresher
    <3>. QED
      BY <1>4, <2>3, <3>2 DEF Replies
  <2>4. Waits(r)'
    BY <1>2, <2>1, <2>2, <2>3 DEF Waits, Written
  <2>. QED
    BY <1>5, <2>1, <2>3, <2>4
<1>13. OneAnswer'
  BY <1>2, <1>9, <1>11, <1>12 DEF OneAnswer
<1>14. ASSUME NEW l \in Logins, Due(r, l)' PROVE l = issued + 1 /\ issued' = l /\ l \in open'[n] /\ sess[r] = n
  <2>1. at[r] = "wait" /\ call[r] = "login/start" /\ slot' = slot
    BY <1>2, <1>14 DEF Due
  <2>2. \E m \in Sessions : \E k \in DOMAIN lines'[m] : Replies(m, k, r)' /\ lines'[m][k].val = l
    BY <1>12, <1>14, <2>1, SMTT(40) DEF Due
  <2>3. l = v
    BY <1>4, <1>8, <1>12, <2>1, <2>2
  <2>4. l # 0
    BY LoginAssumption DEF Logins
  <2>. QED
    BY <1>3, <1>12, <2>1, <2>3, <2>4
<1>15. PendingIsOpen' /\ \A p \in Sessions, l \in Logins : Placed(p, l) => Placed(p, l)'
  BY <1>2, <1>3, KeptInv
<1>16. Accounted'
  <2>1. ASSUME NEW p \in Requests, NEW l \in Logins, Due(p, l)', p # r
        PROVE  /\ l <= issued /\ \A m \in Sessions : pend[m] # l
               /\ \A o \in Requests : Due(o, l)' => o = p
               /\ sess[p] \in alive => Placed(sess[p], l)'
    <3>1. Due(p, l)
      BY <1>9, <2>1
    <3>2. /\ l <= issued /\ \A m \in Sessions : pend[m] # l
          /\ \A o \in Requests : Due(o, l) => o = p
          /\ sess[p] \in alive => Placed(sess[p], l)
      BY <1>2, <3>1 DEF Accounted
    <3>3. ~Due(r, l)'
      BY <1>6, <1>14, <3>2
    <3>4. PICK m \in Sessions : m = sess[p] /\ m = sess'[p]
      BY <1>2, <3>1, LoginAssumption DEF Due, LoginShape, Sessions
    <3>5. Placed(sess[p], l)' <=> Placed(m, l)'
      BY <3>4 DEF Placed, Ended
    <3>. QED
      BY <1>9, <1>15, <3>2, <3>3, <3>4, <3>5
  <2>2. ASSUME NEW l \in Logins, Due(r, l)'
        PROVE  /\ l <= issued' /\ \A m \in Sessions : pend[m] # l
               /\ \A o \in Requests : Due(o, l)' => o = r
               /\ Placed(sess[r], l)'
    <3>1. l = issued + 1 /\ issued' = l /\ l \in open'[n] /\ sess'[r] = n
      BY <1>2, <1>14, <2>2
    <3>2. \A m \in Sessions : pend[m] # l
      BY <1>2, <1>6, <3>1 DEF LoginShape
    <3>3. \A o \in Requests : Due(o, l)' => o = r
      BY <1>6, <2>1, <3>1
    <3>4. Placed(sess[r], l)'
      BY <3>1 DEF Placed
    <3>. QED
      BY <1>3, <3>1, <3>2, <3>3, <3>4
  <2>3. \A p \in Requests, l \in Logins : l <= issued => l <= issued'
    BY <1>3, <1>6, LoginAssumption DEF Logins
  <2>4. UNCHANGED <<pend, alive, sess>>
    BY <1>2
  <2>. QED
    BY <2>1, <2>2, <2>3, <2>4 DEF Accounted
<1>. QED
  BY <1>7, <1>13, <1>15, <1>16 DEF LoginInv

LEMMA UserEndsInv ==
  ASSUME LoginInv, NEW n \in Sessions, UserEnds(n)
  PROVE  LoginInv'
<1>1. LoginShape /\ OneAnswer /\ open \in [Sessions -> SUBSET Nat] /\ issued \in Nat /\ lines[n] \in Seq(Spoken)
  BY DEF LoginInv, LoginShape
<1>2. PICK l \in open[n] : /\ open' = [open EXCEPT ![n] = @ \ {l}]
                           /\ lines' = [lines EXCEPT ![n] = Append(@, Over(l))]
  BY DEF UserEnds
<1>3. UNCHANGED <<closed, published, closing, born, alive, pend, completed, arg, at, sess, call, slot, inbox, silent, issued>>
  BY DEF UserEnds, managerVars, sessionVars, requestVars
<1>4. Over(l) \in Spoken /\ Over(l).kind # "answer"
  BY <1>1 DEF Over, Spoken
<1>5. PICK s : s = <<Over(l)>>
  OBVIOUS
<1>6. s \in Seq(Spoken) /\ Append(lines[n], Over(l)) = lines[n] \o s /\ \A j \in DOMAIN s : s[j] = Over(l)
  BY <1>1, <1>4, <1>5, AppendIsConcat
<1>7. Writes(n, s)
  <2>1. lines' = [lines EXCEPT ![n] = @ \o s]
    BY <1>2, <1>6
  <2>. QED
    BY <1>1, <1>6, <2>1, PipeGrows
<1>8. Longer(n) /\ (\A k \in Fresher(n) : lines'[n][k] = Over(l)) /\ \E k \in DOMAIN lines'[n] : lines'[n][k] = Over(l)
  <2>1. 1 \in DOMAIN s
    BY <1>5
  <2>. QED
    BY <1>6, <1>7, <2>1 DEF Writes, Fresher
<1>9. KeptOnes /\ open' \in [Sessions -> SUBSET Nat]
  <2>1. open' \in [Sessions -> SUBSET Nat] /\ \A p \in Sessions : p # n => open[p] \subseteq open'[p]
    BY <1>1, <1>2
  <2>2. \A k \in open[n] : k \in open'[n] \/ k = l
    BY <1>1, <1>2
  <2>. QED
    BY <1>1, <1>3, <1>8, <2>1, <2>2, OpenIsKept
<1>10. LoginShape'
  <2>1. lines' \in [Sessions -> Seq(Spoken)]
    BY <1>8 DEF Longer
  <2>. QED
    BY <1>1, <1>3, <1>9, <2>1 DEF LoginShape
<1>11. ASSUME NEW r \in Requests
       PROVE  /\ (at'[r] \in Before => Clear(r)') /\ (at'[r] = "wait" => Waits(r)')
              /\ \A k \in Logins : Due(r, k)' => Due(r, k)
  <2>1. \A k \in Fresher(n) : ~Replies(n, k, r)'
    BY <1>4, <1>8 DEF Replies
  <2>. QED
    BY <1>1, <1>3, <1>8, <2>1, LongerSpares DEF OneAnswer
<1>12. PendingIsOpen' /\ \A p \in Sessions, k \in Logins : Placed(p, k) => Placed(p, k)'
  BY <1>3, <1>9, KeptInv
<1>13. Accounted'
  BY <1>1, <1>3, <1>11, <1>12, StillAccounted
<1>. QED
  BY <1>10, <1>11, <1>12, <1>13 DEF LoginInv, OneAnswer

LEMMA DieInv ==
  ASSUME LoginInv, NEW n \in Sessions, Die(n)
  PROVE  LoginInv'
<1>1. LoginShape /\ OneAnswer
  BY DEF LoginInv
<1>2. /\ alive' = alive \ {n} /\ lines' = [lines EXCEPT ![n] = <<>>] /\ inbox' = [inbox EXCEPT ![n] = {}]
      /\ UNCHANGED <<closed, published, closing, born, pend, completed, arg, at, sess, call, slot, open, silent, issued>>
  BY DEF Die, managerVars, sessionVars, requestVars
<1>3. LoginShape'
  <2>1. lines' \in [Sessions -> Seq(Spoken)] /\ inbox' \in [Sessions -> SUBSET Messages]
    BY <1>1, <1>2 DEF LoginShape
  <2>. QED
    BY <1>1, <1>2, <2>1 DEF LoginShape
<1>4. \A p \in Sessions : inbox'[p] \subseteq inbox[p] /\ (lines'[p] = lines[p] \/ lines'[p] = <<>>)
  BY <1>1, <1>2 DEF LoginShape
<1>5. OneAnswer' /\ \A r \in Requests, l \in Logins : Due(r, l)' => Due(r, l)
  BY <1>1, <1>2, <1>4, Quieter DEF OneAnswer
<1>6. \A p \in Sessions : p # n => lines'[p] = lines[p]
  BY <1>1, <1>2 DEF LoginShape
<1>7. Accounted'
  <2>1. ASSUME NEW p \in Sessions, NEW l \in Logins, p \in alive', Placed(p, l) PROVE Placed(p, l)'
    BY <1>2, <1>6, <2>1 DEF Placed, Ended
  <2>2. issued' \in Nat /\ issued' >= issued /\ sess' = sess /\ pend' = pend /\ alive' \subseteq alive
    BY <1>1, <1>2 DEF LoginShape
  <2>. QED
    BY <1>5, <2>1, <2>2, StillAccounted
<1>8. PendingIsOpen'
  <2>1. \A p \in alive' : p \in Sessions /\ p \in alive /\ p # n
    BY <1>1, <1>2, LoginAssumption DEF LoginShape, Sessions
  <2>. QED
    BY <1>2, <1>6, <2>1 DEF LoginInv, PendingIsOpen
<1>. QED
  BY <1>3, <1>5, <1>7, <1>8 DEF LoginInv

\* Close and Kill only take sessions out and end processes.
LEMMA StopsInv ==
  ASSUME LoginInv, published' \in {published, 0}, alive' \subseteq alive,
         UNCHANGED <<born, pend, completed, arg, at, sess, call, slot, inbox, lines, open, silent, issued>>
  PROVE  LoginInv'
<1>1. LoginShape /\ OneAnswer /\ issued \in Nat
  BY DEF LoginInv, LoginShape
<1>2. LoginShape'
  BY <1>1 DEF LoginShape
<1>3. OneAnswer' /\ \A r \in Requests, l \in Logins : Due(r, l)' => Due(r, l)
  BY <1>1, Quieter DEF OneAnswer
<1>4. Accounted'
  <2>1. \A p \in Sessions, l \in Logins : Placed(p, l) => Placed(p, l)'
    BY DEF Placed, Ended
  <2>. QED
    BY <1>1, <1>3, <2>1, StillAccounted
<1>5. PendingIsOpen'
  BY DEF LoginInv, PendingIsOpen
<1>. QED
  BY <1>2, <1>3, <1>4, <1>5 DEF LoginInv

LEMMA LoginNextInv == LoginInv /\ LoginFlags /\ [LoginNext]_loginVars => LoginInv' /\ LoginFlags'
<1> SUFFICES ASSUME LoginInv, LoginFlags, [LoginNext]_loginVars PROVE LoginInv' /\ LoginFlags'
  OBVIOUS
<1>1. ASSUME NEW r \in Requests,
             \/ Begin(r) \/ Lookup(r) \/ Spawn(r) \/ Publish(r) \/ Lock(r) \/ Ask(r) \/ Fail(r)
             \/ ResumeStatus(r) \/ ResumeRead(r) \/ ResumeLogin(r) \/ ResumeCancel(r) \/ ResumeLogout(r)
      PROVE  LoginInv'
  BY <1>1, FirstSteps, AsideInv, AskInv, ResumesQuietly, ResumesLogin, ResumesOut
<1>2. ASSUME NEW n \in Sessions, Receive(n) PROVE LoginInv'
  <2>1. Head(lines[n]).kind \in {"answer", "completed"}
    BY <1>2 DEF Receive
  <2>. QED
    BY <1>2, <2>1, ReceiveAnswer, ReceiveCompleted
<1>3. CASE CloseManager \/ Kill
  <2>1. /\ published' \in {published, 0} /\ alive' \subseteq alive
        /\ UNCHANGED <<born, pend, completed, arg, at, sess, call, slot, inbox, lines, open, silent, issued>>
    BY <1>3 DEF CloseManager, Kill, sessionVars, requestVars, loginProcVars
  <2>. QED
    BY <1>3, <2>1, StopsInv DEF CloseManager, Kill, loginProcVars, LoginFlags
<1>4. CASE UNCHANGED loginVars
  <2>1. /\ published' = published /\ alive' = alive /\ account' = account
        /\ UNCHANGED <<born, pend, completed, arg, at, sess, call, slot, inbox, lines, open, silent, issued>>
    BY <1>4 DEF loginVars, managerVars, sessionVars, requestVars, loginProcVars
  <2>. QED
    BY <2>1, StopsInv DEF LoginFlags
<1>5. LoginFlags'
  <2>1. account' = account \/ account' \in BOOLEAN
    BY DEF LoginFlags, LoginNext, Begin, Lookup, Spawn, Publish, Lock, Ask, Fail,
           ResumeStatus, ResumeRead, ResumeLogin, ResumeCancel, ResumeLogout, Resume,
           Receive, Serve, UserEnds, Die, CloseManager, Kill, loginVars, loginProcVars
  <2>. QED
    BY <2>1 DEF LoginFlags
<1>. QED
  BY <1>1, <1>2, <1>3, <1>4, <1>5, ServeInv, UserEndsInv, DieInv DEF LoginNext

\* A login shown as pending can still be completed, or the end of it is on its way,
\* whichever of the answer that names it and the notification of its end the session
\* handles first (StartLogin's look at "completed").
THEOREM PendingStaysOpen == LoginSpec => []PendingIsOpen
<1>1. LoginInv => PendingIsOpen
  BY DEF LoginInv
<1>. QED
  BY LoginInitInv, LoginNextInv, <1>1, PTL DEF LoginSpec

===============================================================================
