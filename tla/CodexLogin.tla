------------------------------ MODULE CodexLogin ------------------------------
(***************************************************************************)
(* The session manager of the provider broker (CodexSessionManager in      *)
(* providerbroker/codex_session.go), for one tenant: requests look the     *)
(* tenant's session up or start a Codex process for it, and drive its      *)
(* device-code login. Tenants share nothing but the manager's mutex; the   *)
(* processes of one tenant share its profile, hence the account.           *)
(*                                                                         *)
(* A call to the process is a request in its input, an answer in its       *)
(* output, and a caller that takes the answer or gives up: module CodexRpc *)
(* shows that the caller gets its own answer or an error. Answers and      *)
(* notifications come through one pipe, in order; what the caller of an    *)
(* answer does next is not ordered with the notifications behind it.       *)
(***************************************************************************)
EXTENDS Naturals, Sequences, FiniteSets

CONSTANTS
  Requests,             \* requests, one operation each
  Asks,                 \* Asks[r]: the operations r may ask for
  MaxProcs, MaxLogins   \* bounds of the model

Ops == {"status", "start", "cancel", "logout"}

ASSUME LoginAssumption ==
  /\ MaxProcs \in Nat /\ MaxLogins \in Nat
  /\ Asks \in [Requests -> SUBSET Ops]

VARIABLES
  closed,     \* CodexSessionManager.closed
  published,  \* CodexSessionManager.sessions[tenant]: a session, 0 for none
  closing,    \* the sessions Close took out and has still to kill
  born,       \* sessions created so far; session n has process n
  alive,      \* the processes that run
  pend,       \* pend[n]: managedCodexSession.pending, 0 for nil
  completed,  \* completed[n]: managedCodexSession.completed
  opMu,       \* opMu[n]: the request that holds it, or {}
  op, arg,    \* op[r], arg[r]: what r asks for, the login it wants cancelled
  at, sess,   \* at[r]: where r is; sess[r]: the session it uses
  call,       \* call[r]: the method r waits for
  slot,       \* slot[r]: the answer delivered to r
  inbox,      \* inbox[n]: requests process n has not handled
  lines,       \* lines[n]: what process n has written and the client not read
  account,    \* the profile holds an account
  open,       \* open[n]: logins process n waits for the user to complete
  silent,     \* logins the process ended without a notification
  issued      \* login ids handed out

managerVars == <<closed, published, closing, born>>
sessionVars == <<pend, completed>>
requestVars == <<op, arg, at, sess, call, slot>>
loginProcVars == <<inbox, lines, account, open, silent, issued>>
loginVars == <<managerVars, alive, sessionVars, opMu, requestVars, loginProcVars>>

Sessions == 1..MaxProcs
Logins == 1..MaxLogins

LoginInit ==
  /\ closed = FALSE /\ published = 0 /\ closing = {} /\ born = 0 /\ alive = {}
  /\ pend = [n \in Sessions |-> 0] /\ completed = [n \in Sessions |-> {}]
  /\ opMu = [n \in Sessions |-> {}]
  /\ op = [r \in Requests |-> "status"] /\ arg = [r \in Requests |-> 0]
  /\ at = [r \in Requests |-> "new"] /\ sess = [r \in Requests |-> 0]
  /\ call = [r \in Requests |-> "none"] /\ slot = [r \in Requests |-> <<>>]
  /\ inbox = [n \in Sessions |-> {}] /\ lines = [n \in Sessions |-> <<>>]
  /\ account = FALSE /\ open = [n \in Sessions |-> {}] /\ silent = {} /\ issued = 0

-----------------------------------------------------------------------------
Goto(r, place) == at' = [at EXCEPT ![r] = place]

\* A request returns; a deferred Unlock releases what it holds.
Finish(r, how) ==
  /\ Goto(r, how)
  /\ opMu' = [n \in Sessions |-> opMu[n] \ {r}]

\* The place an operation goes to once it has its session.
Entry(r) == IF op[r] = "status" THEN "ask" ELSE "lock"

Begin(r) ==
  /\ at[r] = "new"
  /\ \E o \in Asks[r], l \in Logins :
       /\ op' = [op EXCEPT ![r] = o]
       /\ arg' = [arg EXCEPT ![r] = IF o = "cancel" THEN l ELSE 0]
  /\ Goto(r, "lookup")
  /\ UNCHANGED <<managerVars, alive, sessionVars, opMu, sess, call, slot, loginProcVars>>

\* session(), first critical section.
Lookup(r) ==
  /\ at[r] = "lookup"
  /\ IF closed
     THEN Finish(r, "closed") /\ UNCHANGED sess
     ELSE /\ Goto(r, IF published = 0 THEN "spawn" ELSE Entry(r))
          /\ sess' = [sess EXCEPT ![r] = published]
          /\ UNCHANGED opMu
  /\ UNCHANGED <<managerVars, alive, sessionVars, op, arg, call, slot, loginProcVars>>

\* StartCodexAppServer: a process that does not come up, or does not answer
\* "initialize", is killed.
StartCodexAppServer(n, ok) == alive' = IF ok THEN alive \cup {n} ELSE alive

\* session() starts a process outside the mutex.
Spawn(r) ==
  /\ at[r] = "spawn" /\ born < MaxProcs
  /\ born' = born + 1
  /\ \E ok \in BOOLEAN :
       /\ StartCodexAppServer(born + 1, ok)
       /\ sess' = IF ok THEN [sess EXCEPT ![r] = born + 1] ELSE sess
       /\ IF ok THEN Goto(r, "publish") /\ UNCHANGED opMu ELSE Finish(r, "failed")
  /\ UNCHANGED <<closed, published, closing, sessionVars, op, arg, call, slot, loginProcVars>>

\* Mutant: the second look at the manager is left out.
Publish_blind(r) ==
  /\ at[r] = "publish"
  /\ published' = sess[r]
  /\ Goto(r, Entry(r))
  /\ UNCHANGED <<closed, closing, born, alive, sess, opMu, sessionVars, op, arg, call, slot, loginProcVars>>

\* session(), second critical section: the manager may be closed by now, or another
\* request may have published a session first.
Publish(r) ==
  /\ at[r] = "publish"
  /\ \/ /\ closed
        /\ alive' = alive \ {sess[r]}
        /\ Finish(r, "closed")
        /\ UNCHANGED <<published, sess>>
     \/ /\ ~closed /\ published # 0
        /\ alive' = alive \ {sess[r]}
        /\ sess' = [sess EXCEPT ![r] = published]
        /\ Goto(r, Entry(r))
        /\ UNCHANGED <<published, opMu>>
     \/ /\ ~closed /\ published = 0
        /\ published' = sess[r]
        /\ Goto(r, Entry(r))
        /\ UNCHANGED <<alive, sess, opMu>>
  /\ UNCHANGED <<closed, closing, born, sessionVars, op, arg, call, slot, loginProcVars>>

\* opMu is taken for the rest of an operation that goes on to ask the process.
Locked(r) ==
  /\ opMu' = [opMu EXCEPT ![sess[r]] = {r}]
  /\ Goto(r, "ask")

\* StartLogin: a login that is pending is returned again.
LockStart(r) ==
  /\ op[r] = "start"
  /\ IF pend[sess[r]] # 0 THEN Goto(r, "login") /\ UNCHANGED opMu ELSE Locked(r)

\* CancelLogin: only the pending login can be cancelled.
LockCancel(r) ==
  /\ op[r] = "cancel"
  /\ IF pend[sess[r]] # arg[r] THEN Goto(r, "nologin") /\ UNCHANGED opMu ELSE Locked(r)

LockLogout(r) == op[r] = "logout" /\ Locked(r)

Lock(r) ==
  /\ at[r] = "lock" /\ opMu[sess[r]] = {}
  /\ LockStart(r) \/ LockCancel(r) \/ LockLogout(r)
  /\ UNCHANGED <<managerVars, alive, sessionVars, op, arg, sess, call, slot, loginProcVars>>

\* The methods an operation calls, in turn.
Method(r) == CASE op[r] \in {"status", "start"} /\ call[r] = "none" -> "account/read"
               [] op[r] = "start" /\ call[r] = "account/read" -> "login/start"
               [] op[r] = "cancel" -> "login/cancel"
               [] OTHER -> "logout"

\* AccountRead, StartDeviceCodeLogin, CancelLogin, Logout: the request is written.
Ask(r) ==
  LET n == sess[r] IN
  /\ at[r] = "ask" /\ n \in alive
  /\ call' = [call EXCEPT ![r] = Method(r)]
  /\ inbox' = [inbox EXCEPT ![n] = @ \cup {[by |-> r, what |-> Method(r), login |-> arg[r]]}]
  /\ Goto(r, "wait")
  /\ UNCHANGED <<managerVars, alive, sessionVars, opMu, op, arg, sess, slot,
                 lines, account, open, silent, issued>>

\* The call fails: its time is over, or the process is dead.
Fail(r) ==
  /\ at[r] = "wait" \/ (at[r] = "ask" /\ sess[r] \notin alive)
  /\ Finish(r, "failed")
  /\ UNCHANGED <<managerVars, alive, sessionVars, op, arg, sess, call, slot, loginProcVars>>

-----------------------------------------------------------------------------
\* What an operation does with the answer it waited for.
Resume(r, answer) ==
  /\ at[r] = "wait" /\ slot[r] = <<answer>>
  /\ slot' = [slot EXCEPT ![r] = <<>>]
  /\ UNCHANGED <<managerVars, alive, op, arg, sess, call, loginProcVars>>

\* Status: "connecting" is what "pending" says when the account is not there.
ResumeStatus(r) ==
  \E a \in BOOLEAN :
    /\ op[r] = "status" /\ Resume(r, a)
    /\ Finish(r, CASE a -> "connected" [] pend[sess[r]] # 0 -> "connecting"
                   [] OTHER -> "disconnected")
    /\ UNCHANGED sessionVars

\* StartLogin, after AccountRead.
ResumeRead(r) ==
  \E a \in BOOLEAN :
    /\ op[r] = "start" /\ call[r] = "account/read" /\ Resume(r, a)
    /\ IF a THEN Finish(r, "refused") ELSE Goto(r, "ask") /\ UNCHANGED opMu
    /\ UNCHANGED sessionVars

\* Mutant: a login that is over already is made pending all the same.
ResumeLogin_late(r) ==
  \E l \in Logins :
    /\ op[r] = "start" /\ call[r] = "login/start" /\ Resume(r, l)
    /\ pend' = [pend EXCEPT ![sess[r]] = l] /\ UNCHANGED completed
    /\ Finish(r, "login")

\* StartLogin, after StartDeviceCodeLogin: the login may be over already. (0 is an
\* answer without an id, which is refused.)
ResumeLogin(r) ==
  LET n == sess[r] IN
  \E l \in Logins \cup {0} :
    /\ op[r] = "start" /\ call[r] = "login/start" /\ Resume(r, l)
    /\ IF l = 0
       THEN Finish(r, "failed") /\ UNCHANGED sessionVars
       ELSE /\ IF l \in completed[n]
               THEN completed' = [completed EXCEPT ![n] = @ \ {l}] /\ UNCHANGED pend
               ELSE pend' = [pend EXCEPT ![n] = l] /\ UNCHANGED completed
            /\ Finish(r, "login")

\* CancelLogin and Logout, after the process agreed.
ResumeCancel(r) ==
  LET n == sess[r] IN
  /\ op[r] = "cancel" /\ Resume(r, TRUE)
  /\ pend' = IF pend[n] = arg[r] THEN [pend EXCEPT ![n] = 0] ELSE pend
  /\ Finish(r, "ok")
  /\ UNCHANGED completed

ResumeLogout(r) ==
  /\ op[r] = "logout" /\ Resume(r, TRUE)
  /\ pend' = [pend EXCEPT ![sess[r]] = 0]
  /\ Finish(r, "ok")
  /\ UNCHANGED completed

\* handleNotification of account/login/completed, whether or not it succeeded.
LoginCompleted(n, l) ==
  IF pend[n] = l
  THEN pend' = [pend EXCEPT ![n] = 0] /\ UNCHANGED completed
  ELSE completed' = [completed EXCEPT ![n] = @ \cup {l}] /\ UNCHANGED pend

\* readLoop: the next line. An answer nobody waits for any more is dropped.
Receive(n) ==
  /\ lines[n] # <<>>
  /\ lines' = [lines EXCEPT ![n] = Tail(@)]
  /\ LET m == Head(lines[n]) IN
       \/ /\ m.kind = "completed"
          /\ LoginCompleted(n, m.login)
          /\ UNCHANGED slot
       \/ /\ m.kind = "answer"
          /\ slot' = IF at[m.by] = "wait" THEN [slot EXCEPT ![m.by] = <<m.val>>] ELSE slot
          /\ UNCHANGED sessionVars
  /\ UNCHANGED <<managerVars, alive, opMu, op, arg, at, sess, call, inbox, account, open,
                 silent, issued>>

\* Close(): the sessions are taken out under the mutex and killed after it.
CloseManager ==
  /\ ~closed
  /\ closed' = TRUE
  /\ closing' = {published} \ {0}
  /\ published' = 0
  /\ UNCHANGED <<born, alive, sessionVars, opMu, requestVars, loginProcVars>>

Kill ==
  /\ \E n \in closing : closing' = closing \ {n} /\ alive' = alive \ {n}
  /\ UNCHANGED <<closed, published, born, sessionVars, opMu, requestVars, loginProcVars>>

-----------------------------------------------------------------------------
(* The process (external), and the user at the login page.                  *)
Answer(q, val) == [kind |-> "answer", by |-> q.by, val |-> val]
Over(l) == [kind |-> "completed", login |-> l]

\* A login ends with a notification before or after the answer, or without one.
EndLogin(n, q, l) ==
  \/ lines' = [lines EXCEPT ![n] = @ \o <<Over(l), Answer(q, TRUE)>>] /\ UNCHANGED silent
  \/ lines' = [lines EXCEPT ![n] = @ \o <<Answer(q, TRUE), Over(l)>>] /\ UNCHANGED silent
  \/ lines' = [lines EXCEPT ![n] = Append(@, Answer(q, TRUE))] /\ silent' = silent \cup {l}

Serve(n) ==
  /\ n \in alive
  /\ \E q \in inbox[n] :
       /\ inbox' = [inbox EXCEPT ![n] = @ \ {q}]
       /\ \/ /\ q.what = "account/read"
             /\ lines' = [lines EXCEPT ![n] = Append(@, Answer(q, account))]
             /\ UNCHANGED <<account, open, silent, issued>>
          \/ /\ q.what = "login/start" /\ issued < MaxLogins
             /\ issued' = issued + 1
             /\ open' = [open EXCEPT ![n] = @ \cup {issued + 1}]
             /\ lines' = [lines EXCEPT ![n] = Append(@, Answer(q, issued + 1))]
             /\ UNCHANGED <<account, silent>>
          \/ /\ q.what = "login/start"
             /\ lines' = [lines EXCEPT ![n] = Append(@, Answer(q, 0))]
             /\ UNCHANGED <<account, open, silent, issued>>
          \/ /\ q.what = "login/cancel" /\ q.login \in open[n]
             /\ open' = [open EXCEPT ![n] = @ \ {q.login}]
             /\ EndLogin(n, q, q.login)
             /\ UNCHANGED <<account, issued>>
          \/ /\ q.what \in {"login/cancel", "logout"} /\ q.login \notin open[n]
             /\ account' = (account /\ q.what = "login/cancel")
             /\ lines' = [lines EXCEPT ![n] = Append(@, Answer(q, TRUE))]
             /\ UNCHANGED <<open, silent, issued>>
  /\ UNCHANGED <<managerVars, alive, sessionVars, opMu, requestVars>>

\* The user completes a login, or it expires.
UserEnds(n) ==
  /\ n \in alive
  /\ \E l \in open[n] :
       /\ open' = [open EXCEPT ![n] = @ \ {l}]
       /\ lines' = [lines EXCEPT ![n] = Append(@, Over(l))]
  /\ account' \in {account, TRUE}
  /\ UNCHANGED <<managerVars, alive, sessionVars, opMu, requestVars, inbox, silent, issued>>

\* The process dies; what it wrote and nobody read is lost with it.
Die(n) ==
  /\ n \in alive
  /\ alive' = alive \ {n}
  /\ lines' = [lines EXCEPT ![n] = <<>>] /\ inbox' = [inbox EXCEPT ![n] = {}]
  /\ UNCHANGED <<managerVars, sessionVars, opMu, requestVars, account, open, silent, issued>>

LoginNext ==
  \/ \E r \in Requests : \/ Begin(r) \/ Lookup(r) \/ Spawn(r) \/ Publish(r) \/ Lock(r)
                         \/ Ask(r) \/ Fail(r)
                         \/ ResumeStatus(r) \/ ResumeRead(r) \/ ResumeLogin(r) \/ ResumeCancel(r) \/ ResumeLogout(r)
  \/ \E n \in Sessions : Receive(n) \/ Serve(n) \/ UserEnds(n) \/ Die(n)
  \/ CloseManager \/ Kill

LoginSpec == LoginInit /\ [][LoginNext]_loginVars

-----------------------------------------------------------------------------
\* A login the session shows as pending is one the user can still complete, or whose
\* end is on its way: it never outlives its completion, in whatever order the answer
\* that names it and the notification of its end are handled. (The exception is a
\* process that ends logins without saying so.)
PendingIsOpen ==
  \A n \in alive : pend[n] # 0 =>
    \/ pend[n] \in open[n] \cup silent
    \/ \E i \in DOMAIN lines[n] : lines[n][i] = Over(pend[n])

\* The tenant has one process: any other that runs is one a request has started and
\* not yet published, or one that Close is about to kill.
OneProcess ==
  \A n \in alive : \/ n \in {published} \cup closing
                   \/ \E r \in Requests : at[r] = "publish" /\ sess[r] = n

===============================================================================
