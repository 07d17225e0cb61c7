-------------------------------- MODULE Memory ---------------------------------
(***************************************************************************)
(* The semantic memory (memory/memory.go) and its tools in sentrymcp:      *)
(* remember, recall and forget over a table in RAM, a journal of memories  *)
(* and tombstones, and the two passes that rebuild the table at a start.   *)
(*                                                                         *)
(* server.mu is held over a whole remember or forget, the embedding        *)
(* included, so each is one step. A recall looks at the table once, under  *)
(* Store.mu, and nothing can change what it found: its reply comes before  *)
(* the next step, and the log of it (EventRecall, server.recallRing), which *)
(* nothing reads back but statistics, is left out. A vector is its text,   *)
(* Dist the distance of two. A refused append that left nothing in the     *)
(* file, a failed embedding and a duplicate change nothing: no step.       *)
(***************************************************************************)
EXTENDS Naturals, Sequences, FiniteSets, SequencesExt

CONSTANTS
  MemTenants, Texts, Dist,   \* Dist[a][b]: squared distance of two texts
  Tau, Gap,                  \* Store.DedupThreshold, Store.RecallGap
  RawTags, Canon,            \* tag lists clients send; trimmed lower case of a tag, or ""
  Dims,                      \* the embedders' dimensions a start may be given
  Ks,                        \* how many hits clients ask for
  MaxRecords, MaxStarts, MaxRefused   \* bounds of the model

ASSUME MemoryAssumption ==
  /\ Dist \in [Texts -> [Texts -> Nat]] /\ \A a, b \in Texts : Dist[a][b] = Dist[b][a]
  /\ Tau \in Nat /\ Gap \in Nat /\ 0 \notin Dims
  /\ Ks \subseteq Nat \ {0}   \* the recall tool takes no other k

VARIABLES
  mjournal,   \* the memories and the tombstones, in sequence order
  refused,    \* those whose Append reported an error to this process
  entries,    \* Store.entries
  memNextID,  \* Store.nextID
  dim,        \* the embedder's dimension; 0: no embedder, memory tools disabled
  up,         \* the process runs
  asked,      \* the recall to be answered and what it found
  starts      \* counted against MaxStarts

memVars == <<mjournal, refused, entries, memNextID, dim, up, asked, starts>>

NoRecall == [tenant |-> 0]

MemInit ==
  /\ mjournal = <<>> /\ refused = {} /\ entries = <<>> /\ memNextID = 1
  /\ dim = 0 /\ up = FALSE /\ asked = NoRecall /\ starts = 0

-----------------------------------------------------------------------------
(* The table *)

\* Lower case, trimmed, first occurrences only.
NormalizeTags(raw) ==
  FoldLeft(LAMBDA out, g : IF Canon[g] = "" \/ Contains(out, Canon[g])
                           THEN out ELSE Append(out, Canon[g]), <<>>, raw)

MemoryRecord(t, x, tags, sup) ==
  [type |-> "memory", tenant |-> t, id |-> memNextID, text |-> x, tags |-> tags,
   sup |-> sup, dim |-> dim]

EntryOf(r) == [tenant |-> r.tenant, id |-> r.id, text |-> r.text,
               tags |-> NormalizeTags(r.tags), dim |-> r.dim]

HasEntry(t, id) == \E i \in DOMAIN entries : entries[i].tenant = t /\ entries[i].id = id

\* The first entry of that name goes, if there is one.
DropEntry(es, t, id) ==
  LET at == {i \in DOMAIN es : es[i].tenant = t /\ es[i].id = id}
  IN  IF at = {} THEN es ELSE RemoveAt(es, CHOOSE i \in at : \A j \in at : i <= j)

\* List: where a tenant's entries are; they stand in the order they were stored.
List(t) == {i \in DOMAIN entries : entries[i].tenant = t}

\* New. First the memories, each dropping what it supersedes, then the tombstones.
Replay(es, r) ==
  IF r.type = "memory" THEN DropEntry(Append(es, EntryOf(r)), r.tenant, r.sup)
                       ELSE DropEntry(es, r.tenant, r.id)

\* One scan of the journal for records of a type (sentry.Filter).
Scan(es, type) ==
  LET after[n \in 0 .. Len(mjournal)] ==
        IF n = 0 THEN es
        ELSE IF mjournal[n].type = type THEN Replay(after[n - 1], mjournal[n]) ELSE after[n - 1]
  IN  after[Len(mjournal)]

\* Mutant: the tombstones are applied before there is anything to drop.
Rebuilt_forgetFirst == Scan(Scan(<<>>, "forget"), "memory")
Rebuilt == Scan(Scan(<<>>, "memory"), "forget")

NextID ==
  LET ids == {mjournal[i].id : i \in {j \in DOMAIN mjournal : mjournal[j].type = "memory"}}
  IN  IF ids = {} THEN 1 ELSE Max(ids) + 1

\* main: without an embedder memory stays off and the journal alone; New fails,
\* and the start with it, when a stored vector has another dimension.
Start(d) ==
  /\ ~up /\ starts < MaxStarts
  /\ d # 0 => \A i \in DOMAIN mjournal : mjournal[i].type = "memory" => mjournal[i].dim = d
  /\ up' = TRUE /\ dim' = d /\ starts' = starts + 1
  /\ entries' = IF d = 0 THEN <<>> ELSE Rebuilt
  /\ memNextID' = IF d = 0 THEN 1 ELSE NextID
  /\ refused' = {}
  /\ UNCHANGED <<mjournal, asked>>

\* The process ends anywhere; calls under way end with it.
Stop == /\ up /\ up' = FALSE /\ entries' = <<>> /\ asked' = NoRecall
        /\ UNCHANGED <<mjournal, refused, memNextID, dim, starts>>

-----------------------------------------------------------------------------
(* Remember and Forget *)

\* A bound of the model.
Room == Len(mjournal) < MaxRecords

\* Append, then the table; or the sync after the write fails: the record is in
\* the file, the caller is told of an error and the table stays.
Persist(r, es, next) ==
  /\ mjournal' = Append(mjournal, r)
  /\ \/ entries' = es /\ memNextID' = next /\ refused' = refused
     \/ /\ Cardinality(refused) < MaxRefused /\ refused' = refused \union {Len(mjournal) + 1}
        /\ UNCHANGED <<entries, memNextID>>
  /\ UNCHANGED <<dim, up, asked, starts>>

\* The nearest of the tenant's memories is strictly within Tau.
Duplicate(t, x) == Tau > 0 /\ \E i \in List(t) : Dist[x][entries[i].text] < Tau

Remember(t, x, raw, sup, force) ==
  /\ up /\ dim # 0 /\ Room
  /\ LET r == MemoryRecord(t, x, NormalizeTags(raw), IF HasEntry(t, sup) THEN sup ELSE 0)
     IN  /\ r.sup # 0 \/ force \/ ~Duplicate(t, x)
         /\ Persist(r, Append(DropEntry(entries, t, r.sup), EntryOf(r)), memNextID + 1)

Forget(t, id) ==
  /\ up /\ dim # 0 /\ Room /\ HasEntry(t, id)
  /\ Persist([type |-> "forget", tenant |-> t, id |-> id], DropEntry(entries, t, id), memNextID)

-----------------------------------------------------------------------------
(* Recall *)

Nearer(a, b) == a.score < b.score \/ (a.score = b.score /\ a.id < b.id)

\* The first cliff: a distance more than Gap times the one before it.
Cliffs(s) == {i \in 2 .. Len(s) : s[i].score > s[i - 1].score * Gap}

\* Mutant: the cliff itself is kept.
CutAtCliff_late(s) == IF Gap <= 1 \/ Cliffs(s) = {} THEN s ELSE SubSeq(s, 1, Min(Cliffs(s)))
CutAtCliff(s) == IF Gap <= 1 \/ Cliffs(s) = {} THEN s ELSE SubSeq(s, 1, Min(Cliffs(s)) - 1)

\* sort.Slice: the tenant's entries, none after one that is nearer.
Scored(q, i) == [id |-> entries[i].id, score |-> Dist[q][entries[i].text]]
Ranked(q, own) == CHOOSE rank \in [1 .. Cardinality(own) -> own] :
  /\ \A i \in own : \E n \in DOMAIN rank : rank[n] = i
  /\ \A m, n \in DOMAIN rank : m < n => ~Nearer(Scored(q, rank[n]), Scored(q, rank[m]))

Hits(t, q, k) ==
  LET rank == Ranked(q, List(t))
      asMany == IF Cardinality(List(t)) > k THEN k ELSE Cardinality(List(t))
  IN  CutAtCliff([n \in 1 .. asMany |-> Scored(q, rank[n])])

Recall(t, q, k) ==
  /\ up /\ dim # 0
  /\ asked' = [tenant |-> t, query |-> q, k |-> k, hits |-> Hits(t, q, k)]
  /\ UNCHANGED <<mjournal, refused, entries, memNextID, dim, up, starts>>

Reply == /\ asked # NoRecall /\ asked' = NoRecall
         /\ UNCHANGED <<mjournal, refused, entries, memNextID, dim, up, starts>>

MemStep ==
  \/ \E d \in Dims \union {0} : Start(d)
  \/ Stop
  \/ \E t \in MemTenants, x \in Texts, raw \in RawTags, sup \in 0 .. memNextID, force \in BOOLEAN :
        Remember(t, x, raw, sup, force)
  \/ \E t \in MemTenants, id \in 1 .. memNextID : Forget(t, id)
  \/ \E t \in MemTenants, q \in Texts, k \in Ks : Recall(t, q, k)

MemNext == Reply \/ (asked = NoRecall /\ MemStep)

-----------------------------------------------------------------------------
(* Properties *)

Counted == DOMAIN mjournal \ refused
Memories == {i \in Counted : mjournal[i].type = "memory"}

\* j ends what record i says.
Ends(j, i) ==
  /\ j > i /\ mjournal[j].tenant = mjournal[i].tenant
  /\ mjournal[i].id = IF mjournal[j].type = "memory" THEN mjournal[j].sup ELSE mjournal[j].id

\* The same tenant's memory has that id too: after an append refused too late,
\* Remember gives the id out again.
Shared(i) == \E j \in DOMAIN mjournal \ {i} :
  /\ mjournal[j].type = "memory" /\ mjournal[j].tenant = mjournal[i].tenant
  /\ mjournal[j].id = mjournal[i].id

\* es is the table of the memories that S names, in the order of the journal js.
Lists(js, es, S) == \E of \in [DOMAIN es -> S] :
  /\ \A m, n \in DOMAIN es : m < n => of[m] < of[n]
  /\ \A i \in S : \E n \in DOMAIN es : of[n] = i
  /\ \A n \in DOMAIN es : es[n] = EntryOf(js[of[n]])

\* The table holds, through any starts and stops, exactly the memories that
\* were stored and neither superseded nor forgotten afterwards, in the order of
\* the journal and with their tags: what was taken back never returns (Remember,
\* Forget, New's two passes). The exception is an id given out twice.
TruthKept ==
  up /\ dim # 0 /\ (\A i \in DOMAIN mjournal : mjournal[i].type = "memory" => ~Shared(i)) =>
    LET live == {i \in Memories : \A j \in Counted : ~Ends(j, i)}
    IN  /\ Lists(mjournal, entries, live)
        /\ \A i \in Memories : mjournal[i].id < memNextID
        /\ \A e \in ToSet(entries) : e.dim = dim

\* A recall returns memories of its tenant only, nearest first, and leaves out
\* none that is nearer than one it returns; it returns fewer than asked for only
\* when there are no more or the next is beyond the cliff (Recall).
RecallIsNearest ==
  asked # NoRecall =>
    LET own == {entries[i] : i \in List(asked.tenant)}
        ids == {asked.hits[i].id : i \in DOMAIN asked.hits}
        left == {Dist[asked.query][e.text] : e \in {o \in own : o.id \notin ids}}
        last == asked.hits[Len(asked.hits)].score
    IN  /\ ids \subseteq {e.id : e \in own} /\ Len(asked.hits) <= asked.k
        /\ \A i, j \in DOMAIN asked.hits : i < j => asked.hits[i].score <= asked.hits[j].score
        /\ own # {} => asked.hits # <<>> /\ \A d \in left : d >= last
        /\ own # {} /\ Gap > 1 =>
             \A i \in 2 .. Len(asked.hits) : asked.hits[i].score <= asked.hits[i - 1].score * Gap
        /\ own # {} /\ left # {} /\ Len(asked.hits) < asked.k => Min(left) > last * Gap
===============================================================================
