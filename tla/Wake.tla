--------------------------------- MODULE Wake ----------------------------------
(***************************************************************************)
(* The Stop hook cmd/sentry-wake. At the end of every turn of an agent the *)
(* hook reads its cursor file, fetches the agent's inbox, and either wakes *)
(* the agent (saves the cursor, prints the new messages), asks it to       *)
(* reflect, or lets it stop and posts a note. Every run is a process that  *)
(* may be killed (hooks have a time limit), and every call it makes may    *)
(* fail without the agent noticing.                                        *)
(***************************************************************************)
EXTENDS Bus

CONSTANTS
  Agent, AgentTenant, AgentArea,   \* whose hook it is
  MaxSessions,                     \* the agent's sessions, one after the other
  MaxSaveFailures                  \* bounds of the model

ASSUME WakeAssumption ==
  /\ Agent \in Labels /\ AgentTenant \in Tenants /\ AgentArea \in Areas
  /\ MaxSessions \in Nat \ {0} /\ MaxSaveFailures \in Nat

VARIABLES
  session,     \* the running session of the agent
  file,        \* the cursor in its state file, 0 if there is none
  continuing,  \* the turn was blocked before: stop_hook_active
  pc,          \* the hook: idle, fetch, decide, print
  st,          \* the cursor the hook has read
  got,         \* the messages it has fetched
  shown,       \* the messages printed for the agent in this session
  dropped,     \* those a killed hook had saved and not printed
  saveFailures   \* counted against the bound

wakeVars == <<session, file, continuing, pc, st, got, shown, dropped, saveFailures>>

-------------------------------------------------------------------------------
\* Store.Inbox: messages directed at the agent, in any area.
Directed(s) == log[s].tenant = AgentTenant /\ log[s].target = Agent

\* The cursor taken for the number of the first message to bring.
Inbox_offByOne(since) == {s \in live : s > since + 1 /\ Directed(s)}

Inbox(since) == {s \in live : s > since /\ Directed(s)}

\* The messages decide calls new.
New == {s \in got : s > st}

\* writeState goes wrong, which nobody looks at: the file is as it was, or emptied.
BadSave ==
  /\ saveFailures < MaxSaveFailures /\ saveFailures' = saveFailures + 1
  /\ file' \in {file, 0}

\* The hook's process ends, and the turn goes on or does not.
Ends(goesOn) == pc' = "idle" /\ st' = 0 /\ got' = {} /\ continuing' = goesOn

WakeInit ==
  /\ session = 1 /\ file = 0
  /\ continuing = FALSE /\ pc = "idle" /\ st = 0 /\ got = {}
  /\ shown = {} /\ dropped = {} /\ saveFailures = 0

\* A turn ends: the hook starts and reads its state file.
TurnEnds ==
  /\ pc = "idle" /\ pc' = "fetch"
  /\ st' = file /\ got' = {}
  /\ UNCHANGED <<busVars, session, file, continuing, shown, dropped, saveFailures>>

\* The inbox call; a failing one brings nothing.
Fetch ==
  /\ pc = "fetch" /\ pc' = "decide"
  /\ got' = Inbox(st)
  /\ UNCHANGED <<busVars, session, file, continuing, st, shown, dropped, saveFailures>>

FetchFails ==
  /\ pc = "fetch" /\ pc' = "decide"
  /\ got' = {}
  /\ UNCHANGED <<busVars, session, file, continuing, st, shown, dropped, saveFailures>>

\* decide without the continuation guard's care: held messages count as delivered.
Hold_advance ==
  /\ pc = "decide" /\ continuing /\ New # {}
  /\ \E s \in got : Newest(s, got) /\ file' = s
  /\ Ends(FALSE)
  /\ \/ Post([tenant |-> AgentTenant, target |-> NoLabel, area |-> AgentArea])
     \/ UNCHANGED busVars
  /\ UNCHANGED <<session, shown, dropped, saveFailures>>

\* actBlockAlert and actClose: a note is posted, if it gets through, the turn ends.
Hold ==
  /\ pc = "decide" /\ continuing /\ New # {}
  /\ Ends(FALSE)
  /\ \/ Post([tenant |-> AgentTenant, target |-> NoLabel, area |-> AgentArea])
     \/ UNCHANGED busVars
  /\ UNCHANGED <<session, file, shown, dropped, saveFailures>>

LetStop ==
  /\ pc = "decide" /\ New = {}
  /\ Ends(FALSE)
  /\ \/ Post([tenant |-> AgentTenant, target |-> NoLabel, area |-> AgentArea])
     \/ UNCHANGED busVars
  /\ UNCHANGED <<session, file, shown, dropped, saveFailures>>

\* actReflect: enough tool calls since the last time, and nothing new. The state is
\* saved with the cursor as it was read.
Reflect ==
  /\ pc = "decide" /\ ~continuing /\ New = {}
  /\ Ends(TRUE)
  /\ \/ file' = st /\ UNCHANGED saveFailures
     \/ BadSave
  /\ UNCHANGED <<busVars, session, shown, dropped>>

\* The cursor is not moved.
Save_noAdvance ==
  /\ pc = "decide" /\ ~continuing /\ New # {}
  /\ pc' = "print"
  /\ UNCHANGED <<busVars, session, file, continuing, st, got, shown, dropped, saveFailures>>

\* actWake: first the cursor is saved ...
Save ==
  /\ pc = "decide" /\ ~continuing /\ New # {}
  /\ pc' = "print"
  /\ \E s \in got : Newest(s, got) /\ file' = s
  /\ UNCHANGED <<busVars, session, continuing, st, got, shown, dropped, saveFailures>>

\* ... or not, which is ignored, ...
SaveFails ==
  /\ pc = "decide" /\ ~continuing /\ New # {}
  /\ pc' = "print" /\ BadSave
  /\ UNCHANGED <<busVars, session, continuing, st, got, shown, dropped>>

\* ... then the messages are printed, and the turn goes on.
PrintWake ==
  /\ pc = "print" /\ Ends(TRUE)
  /\ shown' = shown \cup New
  /\ UNCHANGED <<busVars, session, file, dropped, saveFailures>>

\* The hook is killed, perhaps while it writes the file: no output, the turn ends.
KillHook ==
  /\ pc # "idle" /\ Fault
  /\ Ends(FALSE)
  /\ \/ UNCHANGED <<file, saveFailures>>
     \/ pc = "decide" /\ ~continuing /\ BadSave
  /\ dropped' = IF pc = "print" THEN dropped \cup New ELSE dropped
  /\ UNCHANGED <<log, live, unpublished, session, shown>>

\* The agent starts a new session, which has no state file.
NewSession ==
  /\ pc = "idle" /\ session < MaxSessions
  /\ session' = session + 1 /\ file' = 0
  /\ continuing' = FALSE /\ shown' = {} /\ dropped' = {}
  /\ UNCHANGED <<busVars, pc, st, got, saveFailures>>

WakeNext ==
  \/ TurnEnds \/ Fetch \/ FetchFails \/ Hold \/ LetStop \/ Reflect
  \/ Save \/ SaveFails \/ PrintWake \/ KillHook \/ NewSession

\* The agent goes on taking turns, the hook goes on, and the server answers some of
\* the calls of a turn that is not a continuation.
WakeFairness ==
  /\ WF_<<busVars, wakeVars>>(TurnEnds)
  /\ SF_<<busVars, wakeVars>>(Fetch /\ ~continuing) /\ SF_<<busVars, wakeVars>>(Save)
  /\ WF_<<busVars, wakeVars>>(Fetch \/ FetchFails)
  /\ WF_<<busVars, wakeVars>>(Hold \/ LetStop \/ Reflect \/ Save \/ SaveFails)
  /\ WF_<<busVars, wakeVars>>(PrintWake)

-------------------------------------------------------------------------------
\* The cursor never passes a message that the agent has not been shown, whatever
\* failed, except for those a hook had in hand when it was killed between saving and
\* printing.
CursorMeansShown ==
  \A s \in live :
    (Directed(s) /\ s <= file) => s \in shown \cup dropped \/ (pc = "print" /\ s \in New)

\* "the loop guard so the same messages never wake twice" (decide): holds as long as
\* the state file can be written.
WokenOnce ==
  [][(PrintWake /\ saveFailures = 0) => New \cap shown = {}]_wakeVars

\* A message directed at the agent is shown to it in the end, unless it is removed, or
\* was in the hands of a hook that was killed.
ShownInTheEnd ==
  \A s \in 1 .. MaxPosts :
    (s \in live /\ Directed(s)) ~> (s \notin live \/ s \in shown \cup dropped)

===============================================================================
