------------------------------ MODULE Prediction -------------------------------
(***************************************************************************)
(* What the access stream is used for: the online Markov model and its     *)
(* lift over the marginal guess (internal/refine), and the caches that run *)
(* on the stream (internal/cache): LRU, LFU, LRU with Markov prefetch, and *)
(* the tier of exact vectors that mirrors a policy's members. Items are    *)
(* numbers; the ratios of a report are left as the counts they divide.     *)
(***************************************************************************)
EXTENDS Naturals, Sequences, FiniteSets, SequencesExt

CONSTANTS Items, Capacity, MaxStream

ASSUME PredictionAssumption == Items \subseteq Nat /\ Capacity \in Nat \ {0} /\ MaxStream \in Nat

VARIABLES
  stream,     \* the accesses so far
  counts,     \* Markov.counts: <<from, to>> -> how often
  lru,        \* lru.order, the most recent first
  lfu,        \* lfu.freq
  prefetch,   \* the order of the LRU under the prefetcher
  loads,      \* markovPrefetch.prefetchLoads
  misses,     \* how often each policy answered false
  vecs,       \* ExactTier.vecs of each policy: the items whose vectors it holds
  fetches     \* ExactTier.fetches of each

predVars == <<stream, counts, lru, lfu, prefetch, loads, misses, vecs, fetches>>

Policies == {"lru", "lfu", "markov"}

PredInit ==
  /\ stream = <<>> /\ counts = << >> /\ lru = <<>> /\ lfu = << >> /\ prefetch = <<>>
  /\ loads = 0 /\ misses = [p \in Policies |-> 0]
  /\ vecs = [p \in Policies |-> {}] /\ fetches = [p \in Policies |-> 0]

-----------------------------------------------------------------------------
(* The Markov model and its lift *)

Times(c, from, to) == IF <<from, to>> \in DOMAIN c THEN c[<<from, to>>] ELSE 0

Observe(c, from, to) ==
  [e \in DOMAIN c \union {<<from, to>>} |-> Times(c, e[1], e[2]) + (IF e = <<from, to>> THEN 1 ELSE 0)]

\* Of the keys of a table of counts the one with the highest, then the lowest.
MostFrequent(table) ==
  CHOOSE i \in DOMAIN table : \A j \in DOMAIN table \ {i} :
    table[j] < table[i] \/ (table[j] = table[i] /\ i < j)

\* Predict(from, 1): nothing for a state not left before.
Predict(c, from) ==
  LET row == [to \in {e[2] : e \in {d \in DOMAIN c : d[1] = from}} |-> c[<<from, to>>]]
  IN  IF DOMAIN row = {} THEN {} ELSE {MostFrequent(row)}

Marginal(table) == IF DOMAIN table = {} THEN {} ELSE {MostFrequent(table)}

Count(b) == IF b THEN 1 ELSE 0

\* Guess from the history, then learn.
LiftStep(l, prev, curr) ==
  [counts |-> Observe(l.counts, prev, curr),
   marginal |-> [i \in DOMAIN l.marginal \union {curr} |->
                   (IF i \in DOMAIN l.marginal THEN l.marginal[i] ELSE 0) + Count(i = curr)],
   predictable |-> l.predictable + Count(Predict(l.counts, prev) # {}),
   markovHits |-> l.markovHits + Count(curr \in Predict(l.counts, prev)),
   marginalHits |-> l.marginalHits + Count(curr \in Marginal(l.marginal))]

NoLift == [counts |-> << >>, marginal |-> << >>, predictable |-> 0, markovHits |-> 0, marginalHits |-> 0]

StreamLift(items) ==
  LET lift[t \in 0 .. Len(items)] == IF t < 2 THEN NoLift ELSE LiftStep(lift[t - 1], items[t - 1], items[t])
      l == lift[Len(items)]
  IN  [predictable |-> l.predictable, markovHits |-> l.markovHits,
       marginalHits |-> IF l.predictable = 0 THEN 0 ELSE l.marginalHits]

-----------------------------------------------------------------------------
(* The policies *)

\* lru.touch: an item of the order comes to the front.
Touch(order, item) ==
  LET at == CHOOSE i \in DOMAIN order : order[i] = item
  IN  [i \in DOMAIN order |-> IF i = 1 THEN item ELSE IF i <= at THEN order[i - 1] ELSE order[i]]

\* lru.admit: a new one too, and the tail goes when there are too many.
Admit(order, item) ==
  IF item \in ToSet(order) THEN Touch(order, item)
  ELSE [i \in 1 .. IF Len(order) < Capacity THEN Len(order) + 1 ELSE Capacity |->
          IF i = 1 THEN item ELSE order[i - 1]]

\* lfu.evict: the least used goes, of these the lowest.
Evict(freq) ==
  LET out == CHOOSE i \in DOMAIN freq : \A j \in DOMAIN freq \ {i} :
               freq[i] < freq[j] \/ (freq[i] = freq[j] /\ i < j)
  IN  [i \in DOMAIN freq \ {out} |-> freq[i]]

\* Mutant: room is made one item too late.
Uses_late(freq, item) ==
  LET room == IF item \in DOMAIN freq \/ Cardinality(DOMAIN freq) <= Capacity
              THEN freq ELSE Evict(freq)
  IN  [i \in DOMAIN room \union {item} |->
         (IF i \in DOMAIN room THEN room[i] ELSE 0) + Count(i = item)]
Uses(freq, item) ==
  LET room == IF item \in DOMAIN freq \/ Cardinality(DOMAIN freq) < Capacity
              THEN freq ELSE Evict(freq)
  IN  [i \in DOMAIN room \union {item} |->
         (IF i \in DOMAIN room THEN room[i] ELSE 0) + Count(i = item)]

Members(p) == CASE p = "lru" -> ToSet(lru)
                [] p = "lfu" -> DOMAIN lfu
                [] p = "markov" -> ToSet(prefetch)

\* markovPrefetch.Access, once the item is in: what most often came next comes in
\* too, and counts as a load when it was not there.
Prefetched(order, guess) == IF guess = {} THEN order ELSE Admit(order, CHOOSE g \in guess : TRUE)
IsLoad(order, guess) == guess # {} /\ ~(guess \subseteq ToSet(order))

\* One access, seen by every policy and by the tier over it: the policy first,
\* then reconcile, which loads what came in and drops what went out.
Access(item) ==
  /\ Len(stream) < MaxStream
  /\ stream' = Append(stream, item)
  /\ counts' = IF stream = <<>> THEN counts ELSE Observe(counts, Last(stream), item)
  /\ lru' = Admit(lru, item)
  /\ lfu' = Uses(lfu, item)
  /\ LET seen == Admit(prefetch, item)
         guess == Predict(counts', item)
     IN  prefetch' = Prefetched(seen, guess) /\ loads' = loads + Count(IsLoad(seen, guess))
  /\ misses' = [p \in Policies |-> misses[p] + Count(item \notin Members(p))]
  /\ vecs' = [p \in Policies |-> Members(p)']
  /\ fetches' = [p \in Policies |-> fetches[p] + Cardinality(Members(p)' \ vecs[p])]

\* The items of one tenant's accesses, in sequence order (Analyze); an access by
\* anyone else changes nothing here.
PredNext == \E item \in Items : Access(item)

-----------------------------------------------------------------------------
(* Properties *)

\* How often b came right after a in the first n accesses.
Followed(a, b, n) == Cardinality({i \in 1 .. n - 1 : stream[i] = a /\ stream[i + 1] = b})

\* Position t could be guessed from the positions before it, and what the guess was.
Guessable(t) == \E i \in 1 .. t - 2 : stream[i] = stream[t - 1]
Guess(t) == CHOOSE b \in Items :
  \A c \in Items \ {b} : \/ Followed(stream[t - 1], c, t - 1) < Followed(stream[t - 1], b, t - 1)
                         \/ /\ Followed(stream[t - 1], c, t - 1) = Followed(stream[t - 1], b, t - 1)
                            /\ b < c

\* The report of analyze_access counts what can be guessed from the past alone
\* and what of it was right, ties to the lower id (refine.StreamLift); the model
\* the prefetcher learns along the way has seen the same transitions.
LiftIsCausal ==
  LET l == StreamLift(stream)
      steps == {t \in 2 .. Len(stream) : Guessable(t)}
  IN  /\ l.predictable = Cardinality(steps)
      /\ l.markovHits = Cardinality({t \in steps : Guess(t) = stream[t]})
      /\ \A a, b \in Items : Times(counts, a, b) = Followed(a, b, Len(stream))

\* After each access the accessed item is held (by the prefetcher only if it has
\* room for a second one), no policy holds more than its capacity, and the tier of
\* vectors never loads more than the misses and the prefetches that were counted
\* account for, without prefetches exactly that (ExactTier.reconcile, Stats).
TierMirrors ==
  \A p \in Policies :
    /\ Cardinality(Members(p)) <= Capacity
    /\ stream # <<>> /\ (p # "markov" \/ Capacity > 1) => Last(stream) \in Members(p)
    /\ fetches[p] <= misses[p] + (IF p = "markov" THEN loads ELSE 0)
    /\ p # "markov" => fetches[p] = misses[p]

\* The figures of both reports are about the stream as it came.
ReportsHold == LiftIsCausal /\ TierMirrors
===============================================================================
