-------------------------------- MODULE MCCodex --------------------------------
(***************************************************************************)
(* The provider broker: its sessions and logins, its invocations, and  *)
(* the tools and the daemon in front of it. Each module takes the one      *)
(* below it as what that module is shown to promise, so they are checked   *)
(* side by side: "part" says which of them a behaviour is of.              *)
(***************************************************************************)
EXTENDS CodexLogin, CodexTurn, ProviderTools, TLC

CONSTANTS r1, r2, r3

VARIABLE part

vars == <<part, loginVars, turnVars, toolVars>>

\* Two logins race with each other, with a status, and with what ends one.
MCAsks == (r1 :> {"start"}) @@ (r2 :> {"start", "status"}) @@ (r3 :> {"cancel", "logout"})

MCInit == /\ part \in {"login", "turn", "tools"}
          /\ LoginInit /\ TurnInit /\ ToolsInit
          /\ part # "tools" => ollamaUp /\ sameToken

MCNext ==
  \/ part = "login" /\ LoginNext /\ UNCHANGED <<part, turnVars, toolVars>>
  \/ part = "turn" /\ TurnNext /\ UNCHANGED <<part, loginVars, toolVars>>
  \/ part = "tools" /\ ToolsNext /\ UNCHANGED <<part, loginVars, turnVars>>

MCSpec == MCInit /\ [][MCNext]_vars
===============================================================================
