------------------------------ MODULE VectorIndex ------------------------------
(***************************************************************************)
(* The content-addressed IVFADC index (ivf.Index): what is stored where    *)
(* and what an exact Recall finds; IndexSearch adds the searches. A vector *)
(* is named by its hash; Point gives its coordinates, one per subspace of  *)
(* the PQ. What training learns (k-means over the learn set) is one of     *)
(* Quantizers. The map byCode is written and never read, and left out.     *)
(***************************************************************************)
EXTENDS Integers, Sequences, FiniteSets, SequencesExt

CONSTANTS
  Hashes,      \* the vectors, by content hash
  Subspaces,   \* pq.M, each of one coordinate
  Point,       \* hash -> coordinates
  Quantizers,  \* what Train may learn: records [coarse, books]
  MaxBatch     \* length of a batch given to Add

Coordinates == [1 .. Subspaces -> Int]

\* trainResidual and PQ.Train fail rather than learn nothing.
ASSUME IndexAssumption ==
  /\ Hashes \subseteq Nat /\ IsFiniteSet(Hashes)
  /\ Subspaces \in Nat \ {0} /\ MaxBatch \in Nat
  /\ \A h \in Hashes : Point[h] \in Coordinates
  /\ \A qz \in Quantizers :
       /\ qz.coarse \in Seq(Coordinates) \ {<<>>}
       /\ qz.books \in [1 .. Subspaces -> Seq(Int) \ {<<>>}]

Untrained == [coarse |-> <<>>, books |-> <<>>]

VARIABLES
  quant,    \* coarse (centroids) and pq.Codebooks
  handles,  \* position -> handle [hash, cell, code]
  lists,    \* cell -> positions
  byHash    \* hash -> position

indexVars == <<quant, handles, lists, byHash>>

IndexInit == quant = Untrained /\ handles = <<>> /\ lists = <<>> /\ byHash = << >>

-----------------------------------------------------------------------------
(* Distances and codes *)

Sq(n) == n * n

SqL2(a, b) ==
  LET sum[n \in 0 .. Len(a)] == IF n = 0 THEN 0 ELSE sum[n - 1] + Sq(a[n] - b[n])
  IN  sum[Len(a)]

Minus(a, b) == [i \in DOMAIN a |-> a[i] - b[i]]

\* The closest of a sequence of centroids, ties to the lower index.
Nearest(centroids, v) ==
  CHOOSE c \in DOMAIN centroids : \A d \in DOMAIN centroids \ {c} :
    \/ SqL2(centroids[c], v) < SqL2(centroids[d], v)
    \/ SqL2(centroids[c], v) = SqL2(centroids[d], v) /\ c < d

\* One centroid index per subspace of a residual.
Encode(residual) ==
  [m \in DOMAIN residual |-> Nearest([k \in DOMAIN quant.books[m] |-> <<quant.books[m][k]>>], <<residual[m]>>)]

HandleOf(h) ==
  LET c == Nearest(quant.coarse, Point[h])
  IN  [hash |-> h, cell |-> c, code |-> Encode(Minus(Point[h], quant.coarse[c]))]

\* The distance a search sees: of the query's residual to the code's centroids.
Adc(q, handle) ==
  LET residual == Minus(q, quant.coarse[handle.cell])
  IN  SqL2(residual, [m \in DOMAIN residual |-> quant.books[m][handle.code[m]]])

-----------------------------------------------------------------------------
(* What is known of a vector *)

\* The closest entry of v's cell whose code differs in at most tol subspaces: {} or one.
Known(v, tol) ==
  LET c == Nearest(quant.coarse, v)
      code == Encode(Minus(v, quant.coarse[c]))
      near == {i \in DOMAIN lists[c] :
                 Cardinality({m \in DOMAIN code : code[m] # handles[lists[c][i]].code[m]}) <= tol}
      dist(i) == Adc(v, handles[lists[c][i]])
  IN  {handles[lists[c][i]] : i \in
         {n \in near : \A o \in near \ {n} : dist(n) < dist(o) \/ (dist(n) = dist(o) /\ n < o)}}

-----------------------------------------------------------------------------
(* The operations that change the index *)

Train(learned) ==
  /\ quant = Untrained
  /\ quant' = learned
  /\ lists' = [c \in DOMAIN learned.coarse |-> <<>>]
  /\ UNCHANGED <<handles, byHash>>

Inserted(ix, h) ==
  LET pos == Len(ix.handles) + 1
  IN  [handles |-> Append(ix.handles, HandleOf(h)),
       lists   |-> [ix.lists EXCEPT ![HandleOf(h).cell] = Append(@, pos)],
       byHash  |-> [g \in DOMAIN ix.byHash \union {h} |-> IF g = h THEN pos ELSE ix.byHash[g]]]

\* One vector of a batch: stored unless its exact hash is there already.
\* Mutant: only the vector stored last is looked at.
Stored_afterLast(ix, h) ==
  IF ix.handles # <<>> /\ ix.handles[Len(ix.handles)].hash = h THEN ix ELSE Inserted(ix, h)
Stored(ix, h) == IF h \in DOMAIN ix.byHash THEN ix ELSE Inserted(ix, h)

Add(batch) ==
  /\ quant # Untrained
  /\ LET after[n \in 0 .. Len(batch)] ==
           IF n = 0 THEN [handles |-> handles, lists |-> lists, byHash |-> byHash]
           ELSE Stored(after[n - 1], batch[n])
         ix == after[Len(batch)]
     IN  handles' = ix.handles /\ lists' = ix.lists /\ byHash' = ix.byHash
  /\ UNCHANGED quant

\* Save, then Load in another process: the map of hashes is derived again.
Reload ==
  /\ quant # Untrained
  /\ byHash' = [h \in {handles[p].hash : p \in DOMAIN handles} |->
                  Max({p \in DOMAIN handles : handles[p].hash = h})]
  /\ UNCHANGED <<quant, handles, lists>>

IndexNext ==
  \/ \E learned \in Quantizers : Train(learned)
  \/ \E batch \in SeqOf(Hashes, MaxBatch) \ {<<>>} : Add(batch)
  \/ Reload

-----------------------------------------------------------------------------
(* Properties *)

\* Every stored vector is stored once, found under its hash, listed in its cell
\* and nowhere else, and known again by Recall: with no tolerance by an entry of
\* its own cell and code. Also after a batch with duplicates in it and after Load
\* derived the map again (ivf.Index: Add, Recall, Load).
StoredOnce ==
  /\ \A h \in DOMAIN byHash : handles[byHash[h]].hash = h
  /\ \A c \in DOMAIN lists : IsInjective(lists[c])
  /\ \A p \in DOMAIN handles :
       /\ byHash[handles[p].hash] = p
       /\ {c \in DOMAIN lists : p \in ToSet(lists[c])} = {handles[p].cell}
       /\ \A tol \in 0 .. Subspaces : \E e \in Known(Point[handles[p].hash], tol) :
            e.cell = handles[p].cell /\ (tol = 0 => e.code = handles[p].code)
===============================================================================
