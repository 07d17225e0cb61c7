------------------------------- MODULE AccessLog -------------------------------
(***************************************************************************)
(* The real access stream: the PostToolUse hook (cmd/sentry-record), the   *)
(* record_access tool, and the registry of paths behind it                 *)
(* (sentry/registry.go), which lives in the journal.                       *)
(*                                                                         *)
(* The hook sends one request and never again. server.mu is held over the  *)
(* whole request, each path is a look-up and up to two appends, and the    *)
(* process may die between them. A refused append left nothing in the      *)
(* file, or its record is there all the same (a failed sync).              *)
(***************************************************************************)
EXTENDS Naturals, Sequences, FiniteSets, SequencesExt

CONSTANTS
  AccTenants, Paths,   \* tenants, and existing regular files
  Tools,               \* tools the hook knows, by the tokens they leave: sequences
  FileOf,              \* FileOf[token]: the file it resolves to, or NoFile
  NoFile,
  MaxLog, MaxServers, MaxRefusals   \* bounds of the model

VARIABLES
  log,        \* the EventPathMap and EventAccess records, in sequence order
  refusedAt,  \* positions of those whose Append reported an error
  pathIDs,    \* Registry.paths: tenant -> path -> id
  topID,      \* Registry.nextID: tenant -> the highest id given out
  work,       \* the request that holds server.mu
  told,       \* <<tenant, path, id>> in replies
  servers     \* starts of the server

logVars == <<log, refusedAt, pathIDs, topID, work, told, servers>>

NoWork == [tenant |-> 0]
EmptyMap == [t \in AccTenants |-> << >>]

LogInit ==
  /\ log = <<>> /\ refusedAt = {} /\ pathIDs = EmptyMap /\ topID = [t \in AccTenants |-> 0]
  /\ work = NoWork /\ told = {} /\ servers = 0

-----------------------------------------------------------------------------
\* extractPaths: the files among the tokens, each once, in order.
ExtractPaths(tokens) ==
  FoldLeft(LAMBDA out, tok : IF FileOf[tok] = NoFile \/ Contains(out, FileOf[tok])
                             THEN out ELSE Append(out, FileOf[tok]), <<>>, tokens)

\* The hook's post reaches the server, which takes server.mu. A hook with no
\* path, a lost post, an answer after the 700 ms: nothing.
Post(t, tokens) ==
  /\ servers > 0 /\ work = NoWork /\ ExtractPaths(tokens) # <<>>
  /\ work' = [tenant |-> t, todo |-> ExtractPaths(tokens), at |-> "resolve", ids |-> {}]
  /\ UNCHANGED <<log, refusedAt, pathIDs, topID, told, servers>>

\* Registry.put.
Put(maps, t, p, id) ==
  [maps EXCEPT ![t] = [q \in DOMAIN maps[t] \union {p} |-> IF q = p THEN id ELSE maps[t][q]]]

\* Store.Append, or the tool's error: the paths before this one stay recorded.
Refuse(rec) ==
  /\ work' = NoWork /\ UNCHANGED <<pathIDs, topID, told, servers>>
  /\ \/ UNCHANGED <<log, refusedAt>>
     \/ /\ Cardinality(refusedAt) < MaxRefusals
        /\ log' = Append(log, rec) /\ refusedAt' = refusedAt \union {Len(log) + 1}

\* Registry.Resolve.
Resolve ==
  /\ work # NoWork /\ work.at = "resolve" /\ Len(log) < MaxLog
  /\ LET t == work.tenant
         p == Head(work.todo)
         rec == [type |-> "map", tenant |-> t, path |-> p, id |-> topID[t] + 1]
     IN  IF p \in DOMAIN pathIDs[t]
         THEN work' = [work EXCEPT !.at = "access"]
              /\ UNCHANGED <<log, refusedAt, pathIDs, topID, told, servers>>
         ELSE \/ /\ log' = Append(log, rec) /\ pathIDs' = Put(pathIDs, t, p, rec.id)
                 /\ topID' = [topID EXCEPT ![t] = IF rec.id > @ THEN rec.id ELSE @]
                 /\ work' = [work EXCEPT !.at = "access"]
                 /\ UNCHANGED <<refusedAt, told, servers>>
              \/ Refuse(rec)

\* The rest of Registry.Record; after the last path the reply, with every id.
RecordAccess ==
  /\ work # NoWork /\ work.at = "access" /\ Len(log) < MaxLog
  /\ LET t == work.tenant
         id == pathIDs[t][Head(work.todo)]
         rec == [type |-> "access", tenant |-> t, id |-> id, item |-> FALSE]
         ids == work.ids \union {<<t, Head(work.todo), id>>}
     IN  \/ /\ log' = Append(log, rec)
            /\ IF Len(work.todo) = 1
               THEN work' = NoWork /\ told' = told \union ids
               ELSE /\ work' = [work EXCEPT !.todo = Tail(@), !.at = "resolve", !.ids = ids]
                    /\ told' = told
            /\ UNCHANGED <<refusedAt, pathIDs, topID, servers>>
         \/ Refuse(rec)

\* record_access with a number of the agent's own: the registry has no part in it.
RecordItem(t, item) ==
  /\ servers > 0 /\ work = NoWork /\ Len(log) < MaxLog
  /\ log' = Append(log, [type |-> "access", tenant |-> t, id |-> item, item |-> TRUE])
  /\ UNCHANGED <<refusedAt, pathIDs, topID, work, told, servers>>

\* NewRegistry: the dictionary is read back from the journal, a later record of
\* the same path over an earlier one.
MapRecords(t) == {i \in DOMAIN log : log[i].type = "map" /\ log[i].tenant = t}
PathRecords(t, p) == {i \in MapRecords(t) : log[i].path = p}
Dictionary(t) == [p \in {log[i].path : i \in MapRecords(t)} |-> log[Max(PathRecords(t, p))].id]

\* Mutant: only the map is put back together.
Restored_mapOnly(t) == 0
Restored(t) == Max({0} \union {log[i].id : i \in MapRecords(t)})

NewRegistry ==
  /\ servers < MaxServers /\ servers' = servers + 1
  /\ pathIDs' = [t \in AccTenants |-> Dictionary(t)]
  /\ topID' = [t \in AccTenants |-> Restored(t)]
  /\ work' = NoWork /\ refusedAt' = refusedAt /\ UNCHANGED <<log, told>>

LogNext ==
  \/ \E t \in AccTenants, tokens \in Tools : Post(t, tokens)
  \/ Resolve \/ RecordAccess \/ NewRegistry
  \/ \E t \in AccTenants : RecordItem(t, 1)

LogSpec == LogInit /\ [][LogNext]_logVars

-----------------------------------------------------------------------------
(* Properties *)

MapsOf(t, id) == {i \in MapRecords(t) : log[i].id = id}

\* An id, once a client was told it, names the same path for the same tenant
\* through every restart, failed request and death in between, no other path has
\* it, and every access by path in the journal can be traced to its path by a record that
\* stands before it. The exception is an id whose record was refused after it had
\* been written: Resolve gives it out again (Registry.Resolve, NewRegistry).
IdsKeepTheirPath ==
  /\ \A e \in told : MapsOf(e[1], e[3]) \intersect refusedAt = {} =>
       /\ e[2] \in DOMAIN pathIDs[e[1]] /\ pathIDs[e[1]][e[2]] = e[3]
       /\ \A p \in DOMAIN pathIDs[e[1]] : pathIDs[e[1]][p] = e[3] => p = e[2]
  /\ \A i \in DOMAIN log : log[i].type = "access" /\ ~log[i].item =>
       \E j \in MapsOf(log[i].tenant, log[i].id) : j < i
===============================================================================
