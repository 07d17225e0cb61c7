------------------------------ MODULE MCServices ------------------------------
(***************************************************************************)
(* What stands beside the messages in the same server and in the agents'   *)
(* hooks, and the vector index it grew from: memory, accounts, the log of  *)
(* accesses, what is predicted from it, the index, the reflect hook. They  *)
(* share no state but the journal's file and the tenant of a request, so   *)
(* they are checked side by side: "part" says which a behaviour is of.     *)
(***************************************************************************)
EXTENDS Memory, Accounts, AccessLog, Prediction, IndexSearch, Reflect, TLC

CONSTANTS ta, tb, tc

VARIABLE part

vars == <<part, memVars, accVars, logVars, predVars, indexVars, reflectVars>>

\* Three texts on a line: tb one from both, ta and tc three apart.
MCDist == (ta :> ((ta :> 0) @@ (tb :> 1) @@ (tc :> 3))) @@ (tb :> ((ta :> 1) @@ (tb :> 0) @@ (tc :> 1)))
            @@ (tc :> ((ta :> 3) @@ (tb :> 1) @@ (tc :> 0)))
MCCanon == ("A" :> "a") @@ ("a" :> "a") @@ (" " :> "")
MCRawTags == {<<"A", " ", "a">>}

\* One redirect that only the owner's list of hosts allows, and one that nothing does.
MCRedirect == ("u" :> [scheme |-> "https", host |-> "grok.com", user |-> FALSE])
                @@ ("v" :> [scheme |-> "http", host |-> "claude.ai", user |-> FALSE])
Entry(s, t) == [secret |-> s, tenant |-> t]
MCRegistries == {{}, {Entry("s1", 1), Entry("s1", 2)}, {Entry("s1", 1)}, {Entry("s1", 1), Entry("s2", 2)}}

\* Tool calls by what looks like a path in them, with a line number or a dash.
MCTools == {<<"a", "-x", "a:3">>, <<"b", "a">>}
MCFileOf == ("a" :> "A") @@ ("a:3" :> "A") @@ ("b" :> "B") @@ ("-x" :> "none")

\* Vectors in the plane, of which a run takes some; three quantizers: coarse enough
\* that the quantised order is not the exact one, with more cells than a query
\* probes, and with one cell, in which every order of the scan occurs.
MCPoint == <<(<<0, 0>>), <<3, 0>>, <<5, 1>>, <<6, -2>>, <<9, 0>>>>
MCQuantizers == {[coarse |-> <<(<<1, 0>>), <<7, 0>>>>, books |-> <<(<<-2, 1>>), <<-1, 1>>>>],
                 [coarse |-> <<(<<0, 0>>), <<4, 0>>, <<9, 0>>>>, books |-> <<(<<0, 2>>), <<0, 2>>>>],
                 [coarse |-> <<(<<4, 0>>)>>, books |-> <<(<<-4, -1, 2, 5>>), <<0, 1>>>>]}
MCQueries == {<<4, 0>>, <<8, 1>>}

MCInit == /\ part \in {"memory", "accounts", "log", "prediction", "index", "reflect"}
          /\ MemInit /\ AccInit /\ LogInit /\ PredInit /\ IndexInit /\ ReflectInit

MCNext ==
  \/ part = "memory" /\ MemNext /\ UNCHANGED <<part, accVars, logVars, predVars, indexVars, reflectVars>>
  \/ part = "accounts" /\ AccNext /\ UNCHANGED <<part, memVars, logVars, predVars, indexVars, reflectVars>>
  \/ part = "log" /\ LogNext /\ UNCHANGED <<part, memVars, accVars, predVars, indexVars, reflectVars>>
  \/ part = "prediction" /\ PredNext /\ UNCHANGED <<part, memVars, accVars, logVars, indexVars, reflectVars>>
  \/ part = "index" /\ IndexNext /\ UNCHANGED <<part, memVars, accVars, logVars, predVars, reflectVars>>
  \/ part = "reflect" /\ ReflectNext /\ UNCHANGED <<part, memVars, accVars, logVars, predVars, indexVars>>

MCSpec == MCInit /\ [][MCNext]_vars
===============================================================================
