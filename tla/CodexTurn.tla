------------------------------- MODULE CodexTurn -------------------------------
(***************************************************************************)
(* Invocations of a connected Codex session (Invoke and codexInvocation in *)
(* providerbroker/codex_invoke.go), one at a time under invokeMu.          *)
(*                                                                         *)
(* An invocation starts a thread, starts a turn in it, and listens to the  *)
(* process's notifications until the turn is completed or the time is up;  *)
(* then it interrupts the turn if it must, unsubscribes from the thread    *)
(* and deletes it, each of these a call that may go unanswered.            *)
(*                                                                         *)
(* Invocation i starts thread i and turn i: an id is the number of the     *)
(* invocation it belongs to, 0 the empty string. Text is the number of the *)
(* turn that wrote it.                                                     *)
(***************************************************************************)
EXTENDS Naturals, Sequences, FiniteSets

CONSTANTS
  Invocations,       \* 1..n
  MaxOutput,         \* maxCodexOutputBytes, in deltas
  EventCap           \* bound of the model: messages in stdout

ASSUME TurnAssumption == /\ Invocations \subseteq Nat \ {0} /\ IsFiniteSet(Invocations)
                         /\ MaxOutput \in Nat /\ EventCap \in Nat \ {0}

VARIABLES
  place,     \* place[i]: the call i waits for, or where it is otherwise
  invokeMu,  \* who holds managedCodexSession.invokeMu
  current,   \* managedCodexSession.invocation, 0 for nil
  inv,       \* the codexInvocation of whoever holds invokeMu
  caught,    \* invocations that had taken in a forbidden item at their snapshot
  outcome,   \* outcome[i]: "none", "ok" or "error"
  stopped,   \* invocations that sent turn/interrupt
  lost,      \* invocations whose thread/delete was given up unanswered
  requests,  \* what the process was asked and has not handled
  output,    \* its output pipe
  running,   \* turns it works on
  gone       \* threads it has deleted

turnVars == <<place, invokeMu, current, inv, caught, outcome, stopped, lost, requests, output, running, gone>>

Calls == {"account/read", "thread/start", "turn/start", "turn/interrupt",
          "thread/unsubscribe", "thread/delete"}
Forbidden == {"tool", "completed tool"}
Events == {"delta", "message", "large", "completed", "failed", "error"} \cup Forbidden

\* newCodexInvocation; "seen" is no field of the code: a forbidden item was accepted.
Fresh == [thread |-> 0, turn |-> 0, deltas |-> <<>>, final |-> 0, status |-> "",
          failure |-> "", done |-> FALSE, seen |-> FALSE]

TurnInit ==
  /\ place = [i \in Invocations |-> "new"]
  /\ invokeMu = {} /\ current = 0
  /\ inv = Fresh /\ caught = {}
  /\ outcome = [i \in Invocations |-> "none"]
  /\ stopped = {} /\ lost = {}
  /\ requests = {} /\ output = <<>> /\ running = {} /\ gone = {}

-----------------------------------------------------------------------------
(* The invocation's state, fed by notifications.                            *)

\* Mutant: ids are kept, not compared.
Accepts_any(v, src) == TRUE

\* acceptIDs: an event with another thread or turn is not ours, one that comes
\* before we know our own names them.
Accepts(v, src) == v.thread \in {0, src} /\ v.turn \in {0, src}
Adopt(v, src) == [v EXCEPT !.thread = IF @ = 0 THEN src ELSE @, !.turn = IF @ = 0 THEN src ELSE @]

\* Mutant: a turn that reports completion has no failure.
Handled_clears(v, m) ==
  CASE m.kind \in {"completed", "completed tool"} ->
         [v EXCEPT !.status = "completed", !.final = m.src, !.failure = "", !.done = TRUE]
    [] m.kind = "tool" -> [v EXCEPT !.failure = "tool", !.done = TRUE, !.seen = TRUE]
    [] OTHER -> v

\* handle(), for an event of turn src whose ids are accepted.
Handled(v, m) ==
  CASE m.kind = "delta" ->
         IF Len(v.deltas) >= MaxOutput THEN [v EXCEPT !.failure = "large", !.done = TRUE]
                                       ELSE [v EXCEPT !.deltas = Append(@, m.src)]
    [] m.kind = "message" -> [v EXCEPT !.final = m.src]
    [] m.kind = "large" -> [v EXCEPT !.failure = "large", !.done = TRUE]
    [] m.kind = "tool" -> [v EXCEPT !.failure = "tool", !.done = TRUE, !.seen = TRUE]
    [] m.kind = "completed" ->
         [v EXCEPT !.status = "completed", !.final = m.src, !.done = TRUE]
    [] m.kind = "completed tool" ->
         [v EXCEPT !.status = "completed", !.failure = "tool", !.done = TRUE, !.seen = TRUE]
    [] m.kind = "failed" -> [v EXCEPT !.status = "failed", !.failure = "other", !.done = TRUE]

\* handleInvocationNotification: only the current invocation hears, and an "error"
\* carries no ids.
Heard(v, m) ==
  CASE m.kind = "error" -> [v EXCEPT !.failure = "other"]
    [] m.kind # "error" /\ Accepts(v, m.src) -> Handled(Adopt(v, m.src), m)
    [] OTHER -> v

\* snapshot: the final message, or what was streamed.
Content(v) == IF v.final # 0 THEN {v.final} ELSE {v.deltas[k] : k \in DOMAIN v.deltas}

Verdict(v) == IF v.failure = "" /\ v.status = "completed" /\ Content(v) # {} THEN "ok" ELSE "error"

-----------------------------------------------------------------------------
(* The invocation's calls.                                                  *)
Send(i, method) == requests' = requests \cup {[by |-> i, what |-> method]}
Go(i, where) == place' = [place EXCEPT ![i] = where]

\* Invoke up to AccountRead.
Invoke(i) ==
  /\ place[i] = "new" /\ invokeMu = {}
  /\ invokeMu' = {i}
  /\ Send(i, "account/read") /\ Go(i, "account/read")
  /\ UNCHANGED <<current, inv, caught, outcome, stopped, lost, output, running, gone>>

\* The deferred functions: the invocation is taken out, then invokeMu is released.
Leave(i, how) ==
  /\ outcome' = [outcome EXCEPT ![i] = how]
  /\ Go(i, "out")
  /\ current' = 0 /\ inv' = Fresh
  /\ invokeMu' = {}

\* The cleanup, deferred once the thread is known; how the invocation will return is
\* settled.
Cleanup(i, how) ==
  /\ outcome' = [outcome EXCEPT ![i] = how]
  /\ UNCHANGED stopped
  /\ Send(i, "thread/unsubscribe") /\ Go(i, "thread/unsubscribe")

Interrupt(i, how) ==
  /\ outcome' = [outcome EXCEPT ![i] = how]
  /\ stopped' = stopped \cup {i}
  /\ Send(i, "turn/interrupt") /\ Go(i, "turn/interrupt")

\* What i does when the answer to the call it waits for is there.
Answered(i, m) ==
  \/ /\ m.what = "account/read"
     /\ \/ /\ m.ok
           /\ current' = i
           /\ Send(i, "thread/start") /\ Go(i, "thread/start")
           /\ UNCHANGED <<invokeMu, inv, outcome>>
        \/ ~m.ok /\ Leave(i, "error") /\ UNCHANGED requests
     /\ UNCHANGED <<stopped, lost>>
  \/ /\ m.what = "thread/start"
     /\ \/ /\ m.ok
           /\ inv' = [inv EXCEPT !.thread = IF @ = 0 THEN i ELSE @]
           /\ Send(i, "turn/start") /\ Go(i, "turn/start")
           /\ UNCHANGED <<invokeMu, current, outcome>>
        \/ ~m.ok /\ Leave(i, "error") /\ UNCHANGED requests
     /\ UNCHANGED <<stopped, lost>>
  \/ /\ m.what = "turn/start"
     /\ \/ /\ m.ok
           /\ inv' = [inv EXCEPT !.turn = IF @ = 0 THEN i ELSE @]
           /\ Go(i, "listen")
           /\ UNCHANGED <<outcome, stopped, requests>>
        \/ ~m.ok /\ Cleanup(i, "error") /\ UNCHANGED inv
     /\ UNCHANGED <<invokeMu, current, lost>>
  \/ /\ m.what = "turn/interrupt"
     /\ Cleanup(i, outcome[i])
     /\ UNCHANGED <<invokeMu, current, inv, lost>>
  \/ /\ m.what = "thread/unsubscribe"
     /\ Send(i, "thread/delete") /\ Go(i, "thread/delete")
     /\ UNCHANGED <<invokeMu, current, inv, outcome, stopped, lost>>
  \/ /\ m.what = "thread/delete"
     /\ Leave(i, outcome[i])
     /\ UNCHANGED <<stopped, lost, requests>>

\* readLoop: the next line is an answer for the call i waits for, an answer nobody
\* waits for any more, or an event. (A caller resumes with its answer at once: what
\* it does then reads nothing that later lines change but the ids, and setThreadID
\* does the same after them as before.)
Line ==
  /\ output # <<>>
  /\ output' = Tail(output)
  /\ LET m == Head(output) IN
       \/ /\ m.kind = "answer" /\ place[m.src] = m.what
          /\ Answered(m.src, m)
       \/ /\ m.kind = "answer" /\ place[m.src] # m.what
          /\ UNCHANGED <<place, invokeMu, current, inv, outcome, stopped, lost, requests>>
       \/ /\ m.kind \in Events
          /\ inv' = IF current # 0 THEN Heard(inv, m) ELSE inv
          /\ UNCHANGED <<place, invokeMu, current, outcome, stopped, lost, requests>>
  /\ UNCHANGED <<caught, running, gone>>

\* The turn is done: what came of it is read once.
TurnDone(i) ==
  /\ place[i] = "listen" /\ inv.done
  /\ caught' = IF inv.seen THEN caught \cup {i} ELSE caught
  /\ IF inv.failure \in {"tool", "large"} THEN Interrupt(i, "error")
                                             ELSE Cleanup(i, Verdict(inv))
  /\ UNCHANGED <<invokeMu, current, inv, lost, output, running, gone>>

\* The invocation's time is over, while it waits for an answer or for the turn.
TimeOut(i) ==
  /\ \/ /\ place[i] \in {"account/read", "thread/start"}
        /\ Leave(i, "error")
        /\ UNCHANGED <<stopped, requests>>
     \/ /\ place[i] = "turn/start"
        /\ Cleanup(i, "error")
        /\ UNCHANGED <<invokeMu, current, inv>>
     \/ /\ place[i] = "listen"
        /\ Interrupt(i, "error")
        /\ UNCHANGED <<invokeMu, current, inv>>
  /\ UNCHANGED <<caught, lost, output, running, gone>>

\* The five seconds of an interrupt, or of the two cleanup calls together, are over:
\* the second call then fails as soon as it is made.
GiveUp(i) ==
  /\ \/ /\ place[i] = "turn/interrupt"
        /\ Cleanup(i, outcome[i])
        /\ UNCHANGED <<invokeMu, current, inv, lost>>
     \/ /\ place[i] = "thread/unsubscribe"
           /\ Send(i, "thread/delete")
        /\ lost' = lost \cup {i}
        /\ Leave(i, outcome[i])
        /\ UNCHANGED stopped
     \/ /\ place[i] = "thread/delete"
        /\ lost' = lost \cup {i}
        /\ Leave(i, outcome[i])
        /\ UNCHANGED <<stopped, requests>>
  /\ UNCHANGED <<caught, output, running, gone>>

-----------------------------------------------------------------------------
\* The process (external) handles its requests one beside the other; a thread it has
\* deleted is silent.
Process ==
  /\ Len(output) < EventCap
  /\ \E q \in requests, ok \in BOOLEAN :
         /\ requests' = requests \ {q}
         /\ q.what \notin {"account/read", "thread/start", "turn/start"} => ok
         /\ q.what = "turn/start" /\ q.by \in gone => ~ok
         /\ output' = Append(output, [kind |-> "answer", src |-> q.by, what |-> q.what, ok |-> ok])
         /\ running' = CASE q.what = "turn/start" /\ ok -> running \cup {q.by}
                         [] q.what = "thread/delete" -> running \ {q.by}
                         [] OTHER -> running
         /\ gone' = IF q.what = "thread/delete" THEN gone \cup {q.by} ELSE gone
  /\ UNCHANGED <<place, invokeMu, current, inv, caught, outcome, stopped, lost>>

\* A running turn streams, shows items, completes or fails.
Emit ==
  /\ Len(output) < EventCap
  /\ \E i \in running, kind \in Events :
       /\ output' = Append(output, [kind |-> kind, src |-> i, what |-> "", ok |-> TRUE])
       /\ running' = IF kind \in {"completed", "completed tool", "failed"} THEN running \ {i} ELSE running
  /\ UNCHANGED <<place, invokeMu, current, inv, caught, outcome, stopped, lost, requests, gone>>

TurnNext ==
  \/ \E i \in Invocations : Invoke(i) \/ TurnDone(i) \/ TimeOut(i) \/ GiveUp(i)
  \/ Line \/ Process \/ Emit

TurnSpec == TurnInit /\ [][TurnNext]_turnVars

-----------------------------------------------------------------------------
\* An invocation takes in text of another turn, or another turn's ids, only if that
\* turn's thread/delete went unanswered: a turn abandoned in order, however slow the
\* process, never leaks into the next. One abandoned without an answer can, because
\* an invocation binds to the first ids it hears; but not once it knows its own.
OwnText ==
  \A i \in invokeMu :
    LET foreign == (Content(inv) \cup {inv.thread, inv.turn}) \ {0, i} IN
      /\ foreign \subseteq lost
      /\ inv.thread = i => foreign = {}

\* An invocation that had taken in a forbidden item when it took its snapshot does not
\* succeed, whatever the turn reported before and after it.
TextOnly == \A i \in caught : outcome[i] = "error"

===============================================================================
