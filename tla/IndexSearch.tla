------------------------------ MODULE IndexSearch ------------------------------
(***************************************************************************)
(* The searches of ivf.Index: the bounded heap, and on it the search by    *)
(* the quantised distance (ADC) alone, with a tier of items held exactly,  *)
(* and with an exact re-rank of the best candidates. They change nothing.  *)
(* A candidate is a record [pos, dist], a hit a record [handle, dist].     *)
(***************************************************************************)
EXTENDS VectorIndex

CONSTANTS
  Queries,   \* coordinates asked for
  Wanted     \* how many cells, hits and candidates clients ask for

ASSUME SearchAssumption == Queries \subseteq Coordinates /\ Wanted \subseteq Nat \ {0}

-----------------------------------------------------------------------------
(* Orders *)

\* sort.Slice by distance, then by a number no two share: where the first of the
\* table dist is, where the second is, and so on.
Sorted(dist, tie) ==
  CHOOSE rank \in [1 .. Cardinality(DOMAIN dist) -> DOMAIN dist] :
    /\ \A x \in DOMAIN dist : \E n \in DOMAIN rank : rank[n] = x
    /\ \A m, n \in DOMAIN rank : m < n =>
         \/ dist[rank[m]] < dist[rank[n]]
         \/ dist[rank[m]] = dist[rank[n]] /\ tie[rank[m]] <= tie[rank[n]]

Cut(s, n) == [i \in 1 .. IF n < Len(s) THEN n ELSE Len(s) |-> s[i]]

ProbeCells(q, nprobe) ==
  Cut(Sorted([c \in DOMAIN quant.coarse |-> SqL2(quant.coarse[c], q)], [c \in DOMAIN quant.coarse |-> c]), nprobe)

-----------------------------------------------------------------------------
(* The bounded max-heap: the farthest of the candidates at 1 *)

Exchanged(h, i, j) == [h EXCEPT ![i] = h[j], ![j] = h[i]]

\* A round of the loop of push or of replaceTop; one that has ended stays as it is.
Lifted(s) ==
  IF s.at = 1 \/ s.heap[s.at \div 2].dist >= s.heap[s.at].dist THEN s
  ELSE [heap |-> Exchanged(s.heap, s.at, s.at \div 2), at |-> s.at \div 2]

Sunk(s) ==
  LET children == {2 * s.at, 2 * s.at + 1} \intersect DOMAIN s.heap
      d(i) == s.heap[i].dist
      above == {j \in children : d(j) > d(s.at) /\ \A k \in children \ {j} : d(k) < d(j) \/ (d(k) = d(j) /\ j < k)}
  IN  IF above = {} THEN s
      ELSE LET j == CHOOSE k \in above : TRUE IN [heap |-> Exchanged(s.heap, s.at, j), at |-> j]

Push(h, r) ==
  LET round[n \in 0 .. Len(h) + 1] ==
        IF n = 0 THEN [heap |-> Append(h, r), at |-> Len(h) + 1] ELSE Lifted(round[n - 1])
  IN  round[Len(h) + 1].heap

ReplaceTop(h, r) ==
  LET round[n \in 0 .. Len(h)] == IF n = 0 THEN [heap |-> [h EXCEPT ![1] = r], at |-> 1] ELSE Sunk(round[n - 1])
  IN  round[Len(h)].heap

\* One candidate of a scan against a heap of at most topK.
Offered(h, r, topK) ==
  IF Len(h) < topK THEN Push(h, r) ELSE IF r.dist < h[1].dist THEN ReplaceTop(h, r) ELSE h

Drained(h) ==
  LET rank == Sorted([i \in DOMAIN h |-> h[i].dist], [i \in DOMAIN h |-> h[i].pos])
  IN  [n \in DOMAIN rank |-> h[rank[n]]]

-----------------------------------------------------------------------------
(* The searches: sequences of hits, the best first *)

CandidateAt(q, pos) == [pos |-> pos, dist |-> Adc(q, handles[pos])]

ScanCell(heap, q, c, topK) ==
  LET after[n \in 0 .. Len(lists[c])] ==
        IF n = 0 THEN heap ELSE Offered(after[n - 1], CandidateAt(q, lists[c][n]), topK)
  IN  after[Len(lists[c])]

Gathered(q, nprobe, topK) ==
  LET cells == ProbeCells(q, nprobe)
      after[n \in 0 .. Len(cells)] == IF n = 0 THEN <<>> ELSE ScanCell(after[n - 1], q, cells[n], topK)
  IN  after[Len(cells)]

Search(q, nprobe, topK) ==
  LET ranked == Drained(Gathered(q, nprobe, topK))
  IN  [n \in DOMAIN ranked |-> [handle |-> handles[ranked[n].pos], dist |-> ranked[n].dist]]

ExactHit(q, h) == [handle |-> handles[byHash[h]], dist |-> SqL2(q, Point[h])]

\* The hits of a set, no two of one hash, by distance and then hash.
ByDistThenHash(hits) == Sorted([x \in hits |-> x.dist], [x \in hits |-> x.handle.hash])

WithResidents(q, nprobe, topK, depth, tier) ==
  LET adc == {x \in ToSet(Search(q, nprobe, depth)) : x.handle.hash \notin tier}
  IN  Cut(ByDistThenHash(adc \union {ExactHit(q, h) : h \in tier \intersect DOMAIN byHash}), topK)

\* Mutant: the candidates are not gathered deeper for the residents they lose.
SearchTiered_shallow(q, nprobe, topK, tier) ==
  IF tier = {} THEN Search(q, nprobe, topK) ELSE WithResidents(q, nprobe, topK, topK, tier)
SearchTiered(q, nprobe, topK, tier) ==
  IF tier = {} THEN Search(q, nprobe, topK)
  ELSE WithResidents(q, nprobe, topK, topK + Cardinality(tier), tier)

\* The first cut hits, with the exact distance of those that fetch answers for
\* (originals), in their new order; the others stay behind them.
Reranked(q, adc, cut, originals) ==
  LET head == [i \in 1 .. cut |-> IF adc[i].handle.hash \in originals
                                  THEN [adc[i] EXCEPT !.dist = SqL2(q, Point[adc[i].handle.hash])] ELSE adc[i]]
      rank == Sorted([i \in 1 .. cut |-> head[i].dist], [i \in 1 .. cut |-> head[i].handle.hash])
  IN  [i \in DOMAIN adc |-> IF i <= cut THEN head[rank[i]] ELSE adc[i]]

SearchRerank(q, nprobe, topK, rerankK, originals) ==
  IF rerankK <= 0 THEN Search(q, nprobe, topK)
  ELSE LET adc == Search(q, nprobe, IF rerankK < topK THEN topK ELSE rerankK)
       IN  Cut(Reranked(q, adc, IF rerankK > Len(adc) THEN Len(adc) ELSE rerankK, originals), topK)

-----------------------------------------------------------------------------
(* Properties *)

\* hits are n of the candidates, or all of them, the best first: score is the
\* table of the candidates' distances by hash.
AreBest(hits, n, score) ==
  LET found == {hits[i].handle.hash : i \in DOMAIN hits}
  IN  /\ found \subseteq DOMAIN score /\ Len(hits) <= n
      /\ \A i \in DOMAIN hits : LET h == hits[i].handle.hash
                                IN  hits[i] = [handle |-> handles[byHash[h]], dist |-> score[h]]
      /\ \A i, j \in DOMAIN hits : i < j =>
           hits[i].handle.hash # hits[j].handle.hash /\ hits[i].dist <= hits[j].dist
      /\ \A h \in DOMAIN score \ found : Len(hits) = n /\ score[h] >= hits[n].dist

\* What stands in the cells a query probes.
Probed(q, nprobe) == {h \in DOMAIN byHash : handles[byHash[h]].cell \in ToSet(ProbeCells(q, nprobe))}

\* The distances of some stored vectors, exact for those in a set.
Score(q, stored, exactly) ==
  [h \in stored |-> IF h \in exactly THEN SqL2(q, Point[h]) ELSE Adc(q, handles[byHash[h]])]

\* Every search returns distinct items, the topK nearest by the score it promises,
\* however the cells order the scan and the heap replaces its top: the quantised
\* one over the probed cells; with a tier, the exact one for its residents
\* whatever cell they are in (a resident that falls out leaves its place to the
\* next candidate, index.go: "each vacated slot must backfill"); with a re-rank of
\* all candidates, the exact one for those whose original is at hand; and with no
\* original at hand, that of the plain search however many are re-ranked.
SearchIsExact == quant # Untrained =>
  \A q \in Queries, nprobe \in Wanted, topK \in Wanted :
    LET probed == Probed(q, nprobe)
    IN  /\ AreBest(Search(q, nprobe, topK), topK, Score(q, probed, {}))
        /\ \A tier \in SUBSET Hashes :
             AreBest(SearchTiered(q, nprobe, topK, tier), topK,
                     Score(q, probed \union (tier \intersect DOMAIN byHash), tier))
        /\ \A originals \in SUBSET Hashes, rerankK \in Wanted \union {0} :
             rerankK >= Cardinality(probed) \/ originals = {} =>
               AreBest(SearchRerank(q, nprobe, topK, rerankK, originals), topK, Score(q, probed, originals))

\* What the index holds is what was given to it, and every search finds in it
\* the best there is (ivf.Index).
IndexSound == StoredOnce /\ SearchIsExact
===============================================================================
