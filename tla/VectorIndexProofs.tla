--------------------------- MODULE VectorIndexProofs --------------------------
(***************************************************************************)
(* IndexSound holds for any vectors, quantizers and queries, however many  *)
(* are stored, asked for or re-ranked.                                     *)
(*                                                                         *)
(* IndexInv says of an index that is trained that its cells, its table of  *)
(* hashes and its list of handles are three views of one set. A search is  *)
(* then followed from the bottom: a scan offers each candidate of a cell   *)
(* to the heap once (Holds: the heap has these candidates, each once, and  *)
(* is ordered); a heap offered a set keeps the nearest of it (Keeps);      *)
(* drained and cut it is the best hits (BestHits), place by place. The     *)
(* residents of a tier take no more places than the deeper search leaves   *)
(* for them (LeftByTier), and a re-rank moves hits only among places that  *)
(* stay best (RerankedIsBest). ServicesProofs cites the lemmas on numbers  *)
(* and sequences at the start too.                                         *)
(***************************************************************************)
EXTENDS IndexSearch, SequenceTheorems, FiniteSetTheorems, FunctionTheorems, WellFoundedInduction, TLAPS

(***************************************************************************)
(* Numbers: the least and the greatest of a set, induction as a statement  *)
(* about sets.                                                             *)
(***************************************************************************)
LEMMA LeastNumber ==
  ASSUME NEW S \in SUBSET Nat, S # {}
  PROVE  \E m \in S : \A k \in S : m <= k
<1>1. IsWellFoundedOn(OpToRel(<, Nat), Nat)
  BY NatLessThanWellFounded
<1>2. PICK m \in S : \A y \in S : ~ (<<y, m>> \in OpToRel(<, Nat))
  BY <1>1, WFMin, Zenon
<1>3. \A k \in S : ~ (k < m)
  BY <1>2 DEF OpToRel
<1>. QED
  BY <1>3

LEMMA Induction ==
  ASSUME NEW S, 0 \in S, \A n \in S : n \in Nat => n + 1 \in S
  PROVE  Nat \subseteq S
<1>1. SUFFICES ASSUME Nat \ S # {} PROVE FALSE
  OBVIOUS
<1>2. PICK m \in Nat \ S : \A k \in Nat \ S : m <= k
  BY <1>1, LeastNumber
<1>3. m # 0
  BY <1>2
<1>4. PICK n : n = m - 1
  OBVIOUS
<1>5. n \in Nat /\ n + 1 = m /\ n \in S
  BY <1>2, <1>3, <1>4
<1>6. m \in S
  BY <1>5
<1>. QED
  BY <1>2, <1>6

LEMMA LeastUsed ==
  ASSUME NEW table, DOMAIN table \subseteq Nat, \A i \in DOMAIN table : table[i] \in Nat, DOMAIN table # {}
  PROVE  \E i \in DOMAIN table : \A j \in DOMAIN table \ {i} :
           table[i] < table[j] \/ (table[i] = table[j] /\ i < j)
<1>. DEFINE V == {table[i] : i \in DOMAIN table}
<1>1. V \in SUBSET Nat /\ V # {}
  OBVIOUS
<1>2. PICK v \in V : \A u \in V : v <= u
  BY <1>1, LeastNumber
<1>. DEFINE I == {i \in DOMAIN table : table[i] = v}
<1>3. I \in SUBSET Nat /\ I # {}
  OBVIOUS
<1>4. PICK i \in I : \A j \in I : i <= j
  BY <1>3, LeastNumber
<1>5. ASSUME NEW j \in DOMAIN table \ {i} PROVE table[i] < table[j] \/ (table[i] = table[j] /\ i < j)
  <2>1. table[i] = v /\ v <= table[j] /\ table[j] \in Nat /\ v \in Nat /\ i \in Nat /\ j \in Nat
    BY <1>1, <1>2
  <2>2. table[j] = v => i <= j
    BY <1>4
  <2>. QED
    BY <2>1, <2>2
<1>. QED
  BY <1>5

LEMMA GreatestNumber ==
  ASSUME NEW S \in SUBSET Nat, S # {}, NEW b \in Nat, \A x \in S : x <= b
  PROVE  Max(S) \in S /\ \A x \in S : x <= Max(S)
<1>. DEFINE U == {u \in Nat : \A x \in S : x <= u}
<1>1. PICK m \in U : \A u \in U : m <= u
  <2>1. U \in SUBSET Nat /\ U # {}
    OBVIOUS
  <2>. HIDE DEF U
  <2>. QED
    BY <2>1, LeastNumber
<1>2. m \in S
  <2>. SUFFICES ASSUME m \notin S PROVE FALSE
    OBVIOUS
  <2>0. m \in Nat /\ \A x \in S : x \in Nat /\ x <= m /\ x # m
    BY <1>1
  <2>1. m # 0
    <3>1. PICK x \in S : TRUE
      OBVIOUS
    <3>. QED
      BY <2>0, <3>1
  <2>2. m - 1 \in U
    BY <2>0, <2>1
  <2>. QED
    BY <1>1, <2>0, <2>1, <2>2
<1>3. \E g \in S : \A x \in S : g >= x
  BY <1>1, <1>2
<1>4. Max(S) = CHOOSE g \in S : \A x \in S : g >= x
  BY DEF Max
<1>5. Max(S) \in S /\ \A x \in S : Max(S) >= x
  BY <1>3, <1>4, Zenon
<1>. QED
  BY <1>5

LEMMA UpTo == \A k \in Nat : IsFiniteSet(1 .. k) /\ Cardinality(1 .. k) = k
  BY FS_Interval

(***************************************************************************)
(* Sequences.                                                              *)
(***************************************************************************)
IsSeq(s) == s \in Seq(ToSet(s))

LEMMA SeqShape ==
  ASSUME NEW s, IsSeq(s)
  PROVE  /\ Len(s) \in Nat /\ DOMAIN s = 1 .. Len(s)
         /\ ToSet(s) = {s[i] : i \in 1 .. Len(s)}
<1>1. Len(s) \in Nat /\ DOMAIN s = 1 .. Len(s)
  BY LenProperties DEF IsSeq
<1>. QED
  BY <1>1 DEF ToSet

LEMMA SeqIs ==
  ASSUME NEW S, NEW s \in Seq(S)
  PROVE  IsSeq(s)
<1>1. DOMAIN s = 1 .. Len(s) /\ Len(s) \in Nat /\ s \in [1 .. Len(s) -> S]
  BY LenProperties
<1>2. s \in [1 .. Len(s) -> ToSet(s)]
  BY <1>1 DEF ToSet
<1>. QED
  BY <1>1, <1>2, SeqDef DEF IsSeq

LEMMA Appended ==
  ASSUME NEW s, IsSeq(s), NEW x, NEW t, t = Append(s, x)
  PROVE  /\ IsSeq(t) /\ Len(t) = Len(s) + 1 /\ DOMAIN t = 1 .. Len(s) + 1
         /\ t[Len(s) + 1] = x /\ \A i \in 1 .. Len(s) : t[i] = s[i]
         /\ ToSet(t) = ToSet(s) \union {x}
<1>. PICK S : S = ToSet(s) \union {x}
  OBVIOUS
<1>1. s \in Seq(S) /\ x \in S
  BY SeqMonotonic DEF IsSeq
<1>2. /\ t \in Seq(S) /\ Len(t) = Len(s) + 1
      /\ t[Len(s) + 1] = x /\ \A i \in 1 .. Len(s) : t[i] = s[i]
  BY <1>1, AppendProperties
<1>3. IsSeq(t)
  BY <1>2, SeqIs
<1>4. /\ Len(s) \in Nat /\ DOMAIN s = 1 .. Len(s) /\ DOMAIN t = 1 .. Len(s) + 1
  BY <1>2, <1>3, SeqShape
<1>5. ToSet(t) = ToSet(s) \union {x}
  <2>1. \A y \in ToSet(t) : y \in ToSet(s) \union {x}
    BY <1>2, <1>4 DEF ToSet
  <2>2. \A y \in ToSet(s) : y \in ToSet(t)
    BY <1>2, <1>4 DEF ToSet
  <2>3. x \in ToSet(t)
    BY <1>2, <1>4 DEF ToSet
  <2>. QED
    BY <2>1, <2>2, <2>3
<1>. QED
  BY <1>2, <1>3, <1>4, <1>5

-----------------------------------------------------------------------------
(***************************************************************************)
(* The vector index: distances, and the nearest of some centroids.         *)
(***************************************************************************)
Vectors(d) == [1 .. d -> Int]

IsSum(f, a, b, m) == f = [n \in 0 .. m |-> IF n = 0 THEN 0 ELSE f[n - 1] + Sq(a[n] - b[n])]

LEMMA SquaresFunction ==
  ASSUME NEW a, NEW b, NEW m \in Nat
  PROVE  \E f : IsSum(f, a, b, m)
<1>. DEFINE Step(f, i) == IF i = 0 THEN 0 ELSE f[i - 1] + Sq(a[i] - b[i])
            Good == {n \in Nat : \E f : f = [i \in 0 .. n |-> Step(f, i)]}
<1>1. 0 \in Good
  <2>1. [i \in 0 .. 0 |-> 0] = [i \in 0 .. 0 |-> Step([j \in 0 .. 0 |-> 0], i)]
    OBVIOUS
  <2>. QED
    BY <2>1
<1>2. ASSUME NEW n \in Good, n \in Nat PROVE n + 1 \in Good
  <2>1. PICK f : f = [i \in 0 .. n |-> Step(f, i)]
    BY <1>2
  <2>. DEFINE g == [i \in 0 .. n + 1 |-> IF i <= n THEN f[i] ELSE Step(f, i)]
  <2>2. ASSUME NEW i \in 0 .. n + 1 PROVE g[i] = Step(g, i)
    <3>1. i # 0 => i - 1 \in 0 .. n /\ g[i - 1] = f[i - 1]
      BY <1>2
    <3>2. g[i] = Step(f, i)
      <4>1. CASE i <= n
        <5>1. g[i] = f[i] /\ i \in 0 .. n
          BY <1>2, <4>1
        <5>. HIDE DEF g
        <5>. QED
          BY <2>1, <5>1
      <4>2. CASE i = n + 1
        BY <1>2, <4>2
      <4>. QED
        BY <1>2, <4>1, <4>2
    <3>. HIDE DEF g
    <3>. QED
      BY <3>1, <3>2
  <2>3. g = [i \in 0 .. n + 1 |-> Step(g, i)]
    BY <2>2
  <2>. HIDE DEF g
  <2>. QED
    BY <1>2, <2>3
<1>. HIDE DEF Good
<1>3. Nat \subseteq Good
  BY <1>1, <1>2, Induction
<1>. QED
  BY <1>3 DEF Good, IsSum

LEMMA SumIs ==
  ASSUME NEW a, NEW b, NEW m \in Nat, m = Len(a)
  PROVE  \E f : IsSum(f, a, b, m) /\ SqL2(a, b) = f[m]
<1>1. \E g : g = [n \in 0 .. m |-> IF n = 0 THEN 0 ELSE g[n - 1] + Sq(a[n] - b[n])]
  <2>1. \E g : IsSum(g, a, b, m)
    BY SquaresFunction
  <2>. QED
    BY <2>1 DEF IsSum
<1>. DEFINE sum[n \in 0 .. m] == IF n = 0 THEN 0 ELSE sum[n - 1] + Sq(a[n] - b[n])
<1>2. sum = [n \in 0 .. m |-> IF n = 0 THEN 0 ELSE sum[n - 1] + Sq(a[n] - b[n])]
  BY <1>1, Zenon
<1>3. SqL2(a, b) = sum[m]
  BY DEF SqL2
<1>. HIDE DEF sum
<1>. QED
  BY <1>2, <1>3 DEF IsSum

LEMMA SquareIsNat == ASSUME NEW n \in Int PROVE Sq(n) \in Nat
<1>1. n >= 0 => n * n \in Nat
  OBVIOUS
<1>2. n < 0 => (-n) * (-n) \in Nat /\ n * n = (-n) * (-n)
  OBVIOUS
<1>. QED
  BY <1>1, <1>2 DEF Sq

LEMMA DistanceIsNat ==
  ASSUME NEW d \in Nat, NEW a \in Vectors(d), NEW b \in Vectors(d)
  PROVE  SqL2(a, b) \in Nat
<1>1. a \in Seq(Int) /\ Len(a) = d
  BY SeqDef, LenProperties DEF Vectors
<1>2. PICK f : IsSum(f, a, b, d) /\ SqL2(a, b) = f[d]
  BY <1>1, SumIs
<1>. DEFINE Good == {n \in Nat : n <= d => f[n] \in Nat}
<1>3. 0 \in Good
  BY <1>2 DEF IsSum
<1>4. ASSUME NEW n \in Good, n \in Nat PROVE n + 1 \in Good
  <2>. SUFFICES ASSUME n + 1 <= d PROVE f[n + 1] \in Nat
    BY <1>4
  <2>1. f[n + 1] = f[n] + Sq(a[n + 1] - b[n + 1])
    BY <1>2, <1>4 DEF IsSum
  <2>2. a[n + 1] \in Int /\ b[n + 1] \in Int
    BY <1>4 DEF Vectors
  <2>3. Sq(a[n + 1] - b[n + 1]) \in Nat
    BY <2>2, SquareIsNat
  <2>4. f[n] \in Nat
    BY <1>4
  <2>. QED
    BY <2>1, <2>3, <2>4
<1>. HIDE DEF Good
<1>5. Nat \subseteq Good
  BY <1>3, <1>4, Induction
<1>. QED
  BY <1>2, <1>5 DEF Good

LEMMA NearestIn ==
  ASSUME NEW d \in Nat, NEW v \in Vectors(d), NEW cs, DOMAIN cs \subseteq Nat, DOMAIN cs # {},
         \A c \in DOMAIN cs : cs[c] \in Vectors(d)
  PROVE  Nearest(cs, v) \in DOMAIN cs
<1>. DEFINE table == [c \in DOMAIN cs |-> SqL2(cs[c], v)]
<1>1. \A c \in DOMAIN cs : table[c] \in Nat
  BY DistanceIsNat
<1>2. \E c \in DOMAIN table : \A e \in DOMAIN table \ {c} :
        table[c] < table[e] \/ (table[c] = table[e] /\ c < e)
  <2>1. DOMAIN table = DOMAIN cs
    OBVIOUS
  <2>. HIDE DEF table
  <2>. QED
    BY <1>1, <2>1, LeastUsed
<1>3. \E c \in DOMAIN cs : \A e \in DOMAIN cs \ {c} :
        \/ SqL2(cs[c], v) < SqL2(cs[e], v)
        \/ SqL2(cs[c], v) = SqL2(cs[e], v) /\ c < e
  BY <1>2
<1>. QED
  BY <1>3 DEF Nearest

LEMMA MinusIs ==
  ASSUME NEW d \in Nat, NEW a \in Vectors(d), NEW b \in Vectors(d)
  PROVE  Minus(a, b) \in Vectors(d)
BY DEF Minus, Vectors

\* What training learned has cells and a codebook for each subspace.
Trained ==
  /\ DOMAIN quant.coarse \subseteq Nat /\ DOMAIN quant.coarse # {}
  /\ \A c \in DOMAIN quant.coarse : quant.coarse[c] \in Vectors(Subspaces)
  /\ \A m \in 1 .. Subspaces :
       /\ DOMAIN quant.books[m] \subseteq Nat /\ DOMAIN quant.books[m] # {}
       /\ \A k \in DOMAIN quant.books[m] : quant.books[m][k] \in Int

LEMMA LearnedIsTrained == ASSUME IndexAssumption, quant \in Quantizers PROVE Trained
<1>1. /\ Subspaces \in Nat
      /\ quant.coarse \in Seq(Coordinates) \ {<<>>}
      /\ quant.books \in [1 .. Subspaces -> Seq(Int) \ {<<>>}]
  BY DEF IndexAssumption
<1>2. \A S : \A s \in Seq(S) \ {<<>>} : DOMAIN s \subseteq Nat /\ DOMAIN s # {} /\ \A i \in DOMAIN s : s[i] \in S
  <2>. SUFFICES ASSUME NEW S, NEW s \in Seq(S) \ {<<>>}
                PROVE  DOMAIN s \subseteq Nat /\ DOMAIN s # {} /\ \A i \in DOMAIN s : s[i] \in S
    OBVIOUS
  <2>1. Len(s) \in Nat /\ DOMAIN s = 1 .. Len(s) /\ s \in [1 .. Len(s) -> S]
    BY LenProperties
  <2>2. Len(s) # 0
    BY EmptySeq
  <2>3. 1 \in 1 .. Len(s)
    BY <2>1, <2>2
  <2>4. \A i \in 1 .. Len(s) : s[i] \in S
    BY <2>1
  <2>. QED
    BY <2>1, <2>3, <2>4
<1>3. Coordinates = Vectors(Subspaces)
  BY DEF Coordinates, Vectors
<1>4. \A m \in 1 .. Subspaces : quant.books[m] \in Seq(Int) \ {<<>>}
  BY <1>1
<1>. QED
  BY <1>1, <1>2, <1>3, <1>4 DEF Trained

LEMMA EncodeIs ==
  ASSUME Subspaces \in Nat, Trained, NEW r \in Vectors(Subspaces)
  PROVE  /\ DOMAIN Encode(r) = 1 .. Subspaces
         /\ \A m \in 1 .. Subspaces : Encode(r)[m] \in DOMAIN quant.books[m]
<1>1. DOMAIN r = 1 .. Subspaces
  BY DEF Vectors
<1>2. ASSUME NEW m \in 1 .. Subspaces PROVE Encode(r)[m] \in DOMAIN quant.books[m]
  <2>. DEFINE cs == [k \in DOMAIN quant.books[m] |-> <<quant.books[m][k]>>]
              v == <<r[m]>>
  <2>1. DOMAIN cs \subseteq Nat /\ DOMAIN cs # {} /\ DOMAIN cs = DOMAIN quant.books[m]
    BY DEF Trained
  <2>2. \A x \in Int : <<x>> \in Vectors(1)
    BY DEF Vectors
  <2>3. \A k \in DOMAIN cs : cs[k] \in Vectors(1)
    BY <2>2 DEF Trained
  <2>4. v \in Vectors(1)
    BY <2>2 DEF Vectors
  <2>5. Encode(r)[m] = Nearest(cs, v)
    BY <1>1 DEF Encode
  <2>. HIDE DEF cs, v
  <2>6. Nearest(cs, v) \in DOMAIN cs
    BY <2>1, <2>3, <2>4, NearestIn
  <2>. QED
    BY <2>1, <2>5, <2>6
<1>3. DOMAIN Encode(r) = 1 .. Subspaces
  BY <1>1 DEF Encode
<1>. QED
  BY <1>2, <1>3

\* Every handle is that of a vector.
AllHandles == {HandleOf(h) : h \in Hashes}

LEMMA HandleIs ==
  ASSUME IndexAssumption, Trained, NEW h \in Hashes
  PROVE  /\ HandleOf(h).hash = h /\ HandleOf(h).cell \in DOMAIN quant.coarse
         /\ HandleOf(h).cell = Nearest(quant.coarse, Point[h])
         /\ HandleOf(h).code = Encode(Minus(Point[h], quant.coarse[HandleOf(h).cell]))
         /\ DOMAIN HandleOf(h).code = 1 .. Subspaces
         /\ \A m \in 1 .. Subspaces : HandleOf(h).code[m] \in DOMAIN quant.books[m]
<1>1. Subspaces \in Nat /\ Point[h] \in Vectors(Subspaces)
  BY DEF IndexAssumption, Coordinates, Vectors
<1>2. PICK c : c = Nearest(quant.coarse, Point[h])
  OBVIOUS
<1>3. c \in DOMAIN quant.coarse
  BY <1>1, <1>2, NearestIn DEF Trained
<1>4. Minus(Point[h], quant.coarse[c]) \in Vectors(Subspaces)
  BY <1>1, <1>3, MinusIs DEF Trained
<1>5. HandleOf(h) = [hash |-> h, cell |-> c, code |-> Encode(Minus(Point[h], quant.coarse[c]))]
  BY <1>2 DEF HandleOf
<1>. QED
  BY <1>1, <1>2, <1>3, <1>4, <1>5, EncodeIs

LEMMA AdcIsNat ==
  ASSUME IndexAssumption, Trained, NEW v \in Vectors(Subspaces), NEW e \in AllHandles
  PROVE  Adc(v, e) \in Nat
<1>1. PICK h \in Hashes : e = HandleOf(h)
  BY DEF AllHandles
<1>. DEFINE r == Minus(v, quant.coarse[e.cell])
            b == [m \in DOMAIN r |-> quant.books[m][e.code[m]]]
<1>2. Subspaces \in Nat
  BY DEF IndexAssumption
<1>3. r \in Vectors(Subspaces)
  BY <1>1, <1>2, HandleIs, MinusIs DEF Trained
<1>4. b \in Vectors(Subspaces)
  <2>1. DOMAIN r = 1 .. Subspaces
    BY <1>3 DEF Vectors
  <2>2. \A m \in 1 .. Subspaces : quant.books[m][e.code[m]] \in Int
    BY <1>1, HandleIs DEF Trained
  <2>. HIDE DEF r
  <2>. QED
    BY <2>1, <2>2 DEF Vectors
<1>5. Adc(v, e) = SqL2(r, b)
  BY DEF Adc
<1>. HIDE DEF r, b
<1>. QED
  BY <1>2, <1>3, <1>4, <1>5, DistanceIsNat

-----------------------------------------------------------------------------
(***************************************************************************)
(* What is stored where.                                                   *)
(***************************************************************************)
IndexOK(cells, all, hs, ls, bh) ==
  /\ hs \in Seq(all)
  /\ DOMAIN ls = cells /\ \A c \in cells : ls[c] \in Seq(DOMAIN hs)
  /\ \A p \in DOMAIN hs, c \in cells : p \in ToSet(ls[c]) <=> c = hs[p].cell
  /\ \A c \in cells : IsInjective(ls[c])
  /\ DOMAIN bh = {hs[p].hash : p \in DOMAIN hs}
  /\ \A p \in DOMAIN hs : bh[hs[p].hash] = p

LEMMA StoredKeeps ==
  ASSUME NEW cells, NEW all, NEW ix, IndexOK(cells, all, ix.handles, ix.lists, ix.byHash),
         NEW h, HandleOf(h) \in all, HandleOf(h).hash = h, HandleOf(h).cell \in cells,
         NEW jx, jx = Stored(ix, h)
  PROVE  IndexOK(cells, all, jx.handles, jx.lists, jx.byHash)
<1>1. CASE h \in DOMAIN ix.byHash
  BY <1>1 DEF Stored
<1>2. CASE h \notin DOMAIN ix.byHash
  <2>. DEFINE hs == ix.handles
              ls == ix.lists
              bh == ix.byHash
              e == HandleOf(h)
              pos == Len(hs) + 1
              hs1 == Append(hs, e)
              ls1 == [ls EXCEPT ![e.cell] = Append(@, pos)]
              bh1 == [g \in DOMAIN bh \union {h} |-> IF g = h THEN pos ELSE bh[g]]
  <2>1. jx = [handles |-> hs1, lists |-> ls1, byHash |-> bh1]
    BY <1>2 DEF Stored, Inserted
  <2>2. jx.handles = hs1 /\ jx.lists = ls1 /\ jx.byHash = bh1
    BY <2>1
  <2>3. IndexOK(cells, all, hs, ls, bh)
    OBVIOUS
  <2>4. h \notin DOMAIN bh
    BY <1>2
  <2>. HIDE DEF hs, ls, bh, e
  <2>5. e \in all /\ e.hash = h /\ e.cell \in cells
    BY DEF e
  <2>6. hs \in Seq(all) /\ IsSeq(hs) /\ Len(hs) \in Nat /\ DOMAIN hs = 1 .. Len(hs)
    BY <2>3, SeqIs, LenProperties DEF IndexOK
  <2>7. /\ DOMAIN hs1 = 1 .. pos /\ hs1[pos] = e /\ \A i \in 1 .. Len(hs) : hs1[i] = hs[i]
        /\ hs1 \in Seq(all)
    BY <2>5, <2>6, Appended, AppendProperties
  <2>8. DOMAIN hs1 = DOMAIN hs \union {pos} /\ pos \notin DOMAIN hs
    BY <2>6, <2>7
  <2>9. DOMAIN ls1 = cells /\ \A c \in cells : ls1[c] = IF c = e.cell THEN Append(ls[c], pos) ELSE ls[c]
    BY <2>3 DEF IndexOK
  <2>10. ASSUME NEW c \in cells
         PROVE  /\ ls1[c] \in Seq(DOMAIN hs1)
                /\ ToSet(ls1[c]) = IF c = e.cell THEN ToSet(ls[c]) \union {pos} ELSE ToSet(ls[c])
    <3>1. ls[c] \in Seq(DOMAIN hs)
      BY <2>3 DEF IndexOK
    <3>2. ls[c] \in Seq(DOMAIN hs1) /\ IsSeq(ls[c])
      BY <2>8, <3>1, SeqMonotonic, SeqIs
    <3>3. pos \in DOMAIN hs1
      BY <2>8
    <3>. HIDE DEF pos, hs1, ls1
    <3>4. Append(ls[c], pos) \in Seq(DOMAIN hs1)
      BY <3>2, <3>3, AppendProperties
    <3>5. ToSet(Append(ls[c], pos)) = ToSet(ls[c]) \union {pos}
      BY <3>2, Appended
    <3>. QED
      BY <2>9, <3>2, <3>4, <3>5
  <2>11. \A c \in cells : ToSet(ls[c]) \subseteq DOMAIN hs
    <3>. SUFFICES ASSUME NEW c \in cells PROVE ToSet(ls[c]) \subseteq DOMAIN hs
      OBVIOUS
    <3>1. ls[c] \in Seq(DOMAIN hs)
      BY <2>3 DEF IndexOK
    <3>2. \A i \in DOMAIN ls[c] : ls[c][i] \in DOMAIN hs
      BY <3>1, LenProperties
    <3>. QED
      BY <3>2 DEF ToSet
  <2>15. ASSUME NEW c \in cells PROVE IsInjective(ls1[c])
    <3>1. IsInjective(ls[c]) /\ IsSeq(ls[c]) /\ pos \notin ToSet(ls[c])
      BY <2>3, <2>8, <2>11, SeqIs DEF IndexOK
    <3>2. ASSUME NEW s, s = Append(ls[c], pos) PROVE IsInjective(s)
      <4>. HIDE DEF pos, ls1
      <4>1. /\ DOMAIN s = 1 .. Len(ls[c]) + 1 /\ s[Len(ls[c]) + 1] = pos
            /\ \A i \in 1 .. Len(ls[c]) : s[i] = ls[c][i]
        BY <3>1, <3>2, Appended
      <4>2. Len(ls[c]) \in Nat /\ DOMAIN ls[c] = 1 .. Len(ls[c]) /\ \A i \in 1 .. Len(ls[c]) : ls[c][i] # pos
        BY <3>1, SeqShape
      <4>3. \A i \in DOMAIN s : i = Len(ls[c]) + 1 \/ i \in 1 .. Len(ls[c])
        BY <4>1, <4>2
      <4>. QED
        BY <3>1, <4>1, <4>2, <4>3 DEF IsInjective
    <3>. QED
      BY <2>9, <3>1, <3>2
  <2>12. ASSUME NEW p \in DOMAIN hs1, NEW c \in cells
         PROVE  p \in ToSet(ls1[c]) <=> c = hs1[p].cell
    <3>. HIDE DEF pos, hs1, ls1
    <3>0. p \in ToSet(ls1[c]) <=> p \in ToSet(ls[c]) \/ (c = e.cell /\ p = pos)
      BY <2>10
    <3>1. CASE p = pos
      BY <2>7, <2>8, <2>11, <3>0, <3>1
    <3>2. CASE p \in DOMAIN hs
      <4>1. p \in ToSet(ls[c]) <=> c = hs[p].cell
        BY <2>3, <3>2 DEF IndexOK
      <4>2. hs1[p] = hs[p] /\ p # pos
        BY <2>6, <2>7, <2>8, <3>2
      <4>. QED
        BY <3>0, <4>1, <4>2
    <3>. QED
      BY <2>8, <3>1, <3>2
  <2>13. DOMAIN bh1 = {hs1[p].hash : p \in DOMAIN hs1}
    <3>1. DOMAIN bh1 = DOMAIN bh \union {h} /\ DOMAIN bh = {hs[p].hash : p \in DOMAIN hs}
      BY <2>3 DEF IndexOK
    <3>2. \A p \in DOMAIN hs : hs1[p].hash = hs[p].hash
      BY <2>6, <2>7
    <3>3. hs1[pos].hash = h
      BY <2>5, <2>7
    <3>. HIDE DEF bh1, hs1, pos
    <3>. QED
      BY <2>8, <3>1, <3>2, <3>3
  <2>14. ASSUME NEW p \in DOMAIN hs1 PROVE bh1[hs1[p].hash] = p
    <3>1. CASE p = pos
      <4>1. hs1[p].hash = h
        BY <2>5, <2>7, <3>1
      <4>. QED
        BY <3>1, <4>1
    <3>2. CASE p \in DOMAIN hs
      <4>1. hs1[p] = hs[p] /\ hs[p].hash \in DOMAIN bh /\ bh[hs[p].hash] = p
        BY <2>3, <2>6, <2>7, <3>2 DEF IndexOK
      <4>2. hs[p].hash # h
        BY <2>4, <4>1
      <4>. QED
        BY <4>1, <4>2
    <3>. QED
      BY <2>8, <3>1, <3>2
  <2>. HIDE DEF hs1, ls1, bh1
  <2>. QED
    BY <2>2, <2>7, <2>9, <2>10, <2>12, <2>13, <2>14, <2>15 DEF IndexOK
<1>. QED
  BY <1>1, <1>2

IsBatch(f, ix, batch, m) == f = [n \in 0 .. m |-> IF n = 0 THEN ix ELSE Stored(f[n - 1], batch[n])]

LEMMA BatchFunction ==
  ASSUME NEW ix, NEW batch, NEW m \in Nat
  PROVE  \E f : IsBatch(f, ix, batch, m)
<1>. DEFINE Step(f, i) == IF i = 0 THEN ix ELSE Stored(f[i - 1], batch[i])
            Good == {n \in Nat : \E f : f = [i \in 0 .. n |-> Step(f, i)]}
<1>1. 0 \in Good
  <2>1. [i \in 0 .. 0 |-> ix] = [i \in 0 .. 0 |-> Step([j \in 0 .. 0 |-> ix], i)]
    OBVIOUS
  <2>. QED
    BY <2>1
<1>2. ASSUME NEW n \in Good, n \in Nat PROVE n + 1 \in Good
  <2>1. PICK f : f = [i \in 0 .. n |-> Step(f, i)]
    BY <1>2
  <2>. DEFINE g == [i \in 0 .. n + 1 |-> IF i <= n THEN f[i] ELSE Step(f, i)]
  <2>2. ASSUME NEW i \in 0 .. n + 1 PROVE g[i] = Step(g, i)
    <3>1. i # 0 => i - 1 \in 0 .. n /\ g[i - 1] = f[i - 1]
      BY <1>2
    <3>2. g[i] = Step(f, i)
      <4>1. CASE i <= n
        <5>1. g[i] = f[i] /\ i \in 0 .. n
          BY <1>2, <4>1
        <5>. HIDE DEF g
        <5>. QED
          BY <2>1, <5>1
      <4>2. CASE i = n + 1
        BY <1>2, <4>2
      <4>. QED
        BY <1>2, <4>1, <4>2
    <3>. HIDE DEF g
    <3>. QED
      BY <3>1, <3>2
  <2>3. g = [i \in 0 .. n + 1 |-> Step(g, i)]
    BY <2>2
  <2>. HIDE DEF g
  <2>. QED
    BY <1>2, <2>3
<1>. HIDE DEF Good
<1>3. Nat \subseteq Good
  BY <1>1, <1>2, Induction
<1>. QED
  BY <1>3 DEF Good, IsBatch

LEMMA AddIs ==
  ASSUME NEW batch, NEW m \in Nat, m = Len(batch), Add(batch)
  PROVE  \E f : /\ IsBatch(f, [handles |-> handles, lists |-> lists, byHash |-> byHash], batch, m)
                /\ handles' = f[m].handles /\ lists' = f[m].lists /\ byHash' = f[m].byHash
<1>1. \E g : g = [n \in 0 .. m |-> IF n = 0 THEN [handles |-> handles, lists |-> lists, byHash |-> byHash]
                                  ELSE Stored(g[n - 1], batch[n])]
  <2>1. \E g : IsBatch(g, [handles |-> handles, lists |-> lists, byHash |-> byHash], batch, m)
    BY BatchFunction
  <2>. QED
    BY <2>1 DEF IsBatch
<1>. DEFINE after[n \in 0 .. m] ==
        IF n = 0 THEN [handles |-> handles, lists |-> lists, byHash |-> byHash]
        ELSE Stored(after[n - 1], batch[n])
<1>2. after = [n \in 0 .. m |-> IF n = 0 THEN [handles |-> handles, lists |-> lists, byHash |-> byHash]
                                ELSE Stored(after[n - 1], batch[n])]
  BY <1>1, Zenon
<1>3. handles' = after[m].handles /\ lists' = after[m].lists /\ byHash' = after[m].byHash
  BY DEF Add
<1>. HIDE DEF after
<1>. QED
  BY <1>2, <1>3 DEF IsBatch

LEMMA BatchKeeps ==
  ASSUME IndexAssumption, Trained, NEW ix, NEW batch \in Seq(Hashes), NEW f,
         IsBatch(f, ix, batch, Len(batch)),
         IndexOK(DOMAIN quant.coarse, AllHandles, ix.handles, ix.lists, ix.byHash)
  PROVE  LET jx == f[Len(batch)]
         IN  IndexOK(DOMAIN quant.coarse, AllHandles, jx.handles, jx.lists, jx.byHash)
<1>. DEFINE Holds(x) == IndexOK(DOMAIN quant.coarse, AllHandles, x.handles, x.lists, x.byHash)
            m == Len(batch)
            Good == {n \in Nat : n <= m => Holds(f[n])}
<1>0. m \in Nat /\ \A n \in 1 .. m : batch[n] \in Hashes
  BY LenProperties
<1>. HIDE DEF m
<1>1. 0 \in Good
  BY <1>0 DEF m, IsBatch
<1>2. ASSUME NEW n \in Good, n \in Nat PROVE n + 1 \in Good
  <2>. SUFFICES ASSUME n + 1 <= m PROVE Holds(f[n + 1])
    BY <1>2
  <2>1. Holds(f[n])
    BY <1>0, <1>2
  <2>2. batch[n + 1] \in Hashes
    BY <1>0, <1>2
  <2>3. f[n + 1] = Stored(f[n], batch[n + 1])
    BY <1>0, <1>2 DEF m, IsBatch
  <2>4. HandleOf(batch[n + 1]) \in AllHandles
    BY <2>2 DEF AllHandles
  <2>5. HandleOf(batch[n + 1]).hash = batch[n + 1] /\ HandleOf(batch[n + 1]).cell \in DOMAIN quant.coarse
    BY <2>2, HandleIs
  <2>. QED
    BY <2>1, <2>3, <2>4, <2>5, StoredKeeps
<1>. HIDE DEF Good
<1>3. Nat \subseteq Good
  BY <1>1, <1>2, Induction
<1>4. Holds(f[m])
  <2>1. m \in Good
    BY <1>0, <1>3
  <2>. HIDE DEF Holds
  <2>. QED
    BY <1>0, <2>1 DEF Good
<1>. QED
  BY <1>4 DEF m

\* Before training there is nothing; afterwards every vector stands in its cell.
IndexInv ==
  \/ quant = Untrained /\ handles = <<>> /\ lists = <<>> /\ byHash = << >>
  \/ quant \in Quantizers /\ IndexOK(DOMAIN quant.coarse, AllHandles, handles, lists, byHash)

LEMMA QuantizersLearned == ASSUME IndexAssumption PROVE Untrained \notin Quantizers
<1>1. Untrained.coarse = <<>>
  BY DEF Untrained
<1>. QED
  BY <1>1 DEF IndexAssumption

LEMMA IndexStep == ASSUME IndexAssumption, IndexInv, [IndexNext]_indexVars PROVE IndexInv'
<1>1. ASSUME NEW learned \in Quantizers, Train(learned) PROVE IndexInv'
  <2>1. handles = <<>> /\ byHash = << >>
    BY <1>1, QuantizersLearned DEF IndexInv, Train
  <2>2. /\ quant' = learned /\ handles' = <<>> /\ byHash' = << >>
        /\ lists' = [c \in DOMAIN learned.coarse |-> <<>>]
    BY <1>1, <2>1 DEF Train
  <2>3. \A S : <<>> \in Seq(S) /\ DOMAIN <<>> = {}
    BY EmptySeq
  <2>4. IndexOK(DOMAIN learned.coarse, AllHandles', <<>>, lists', << >>)
    BY <2>2, <2>3 DEF IndexOK, IsInjective, ToSet
  <2>. QED
    BY <2>2, <2>4 DEF IndexInv
<1>2. ASSUME NEW batch \in SeqOf(Hashes, MaxBatch), Add(batch) PROVE IndexInv'
  <2>1. quant \in Quantizers /\ quant' = quant /\ IndexOK(DOMAIN quant.coarse, AllHandles, handles, lists, byHash)
    BY <1>2 DEF Add, IndexInv
  <2>2. Trained
    BY <2>1, LearnedIsTrained
  <2>3. batch \in Seq(Hashes)
    BY SeqDef DEF SeqOf
  <2>. DEFINE ix == [handles |-> handles, lists |-> lists, byHash |-> byHash]
  <2>4. IndexOK(DOMAIN quant.coarse, AllHandles, ix.handles, ix.lists, ix.byHash)
    BY <2>1
  <2>5. Len(batch) \in Nat
    BY <2>3, LenProperties
  <2>. PICK m : m = Len(batch)
    OBVIOUS
  <2>6. PICK f : /\ IsBatch(f, ix, batch, m)
                 /\ handles' = f[m].handles /\ lists' = f[m].lists /\ byHash' = f[m].byHash
    <3>1. m \in Nat /\ Add(batch)
      BY <1>2, <2>5
    <3>. QED
      BY <3>1, AddIs
  <2>. HIDE DEF ix
  <2>7. PICK jx : jx = f[m]
    OBVIOUS
  <2>8. IndexOK(DOMAIN quant.coarse, AllHandles, jx.handles, jx.lists, jx.byHash)
    BY <2>2, <2>3, <2>4, <2>6, <2>7, BatchKeeps
  <2>9. AllHandles' = AllHandles
    BY <2>1 DEF AllHandles, HandleOf, Encode
  <2>. QED
    BY <2>1, <2>6, <2>7, <2>8, <2>9 DEF IndexInv
<1>3. ASSUME Reload PROVE IndexInv'
  <2>1. /\ quant \in Quantizers /\ IndexOK(DOMAIN quant.coarse, AllHandles, handles, lists, byHash)
        /\ quant' = quant /\ handles' = handles /\ lists' = lists
        /\ byHash' = [h \in {handles[p].hash : p \in DOMAIN handles} |->
                        Max({p \in DOMAIN handles : handles[p].hash = h})]
    BY <1>3 DEF Reload, IndexInv
  <2>2. ASSUME NEW p \in DOMAIN handles PROVE byHash'[handles[p].hash] = p
    <3>. DEFINE S == {o \in DOMAIN handles : handles[o].hash = handles[p].hash}
    <3>1. \A o \in S : o = byHash[handles[p].hash]
      BY <2>1 DEF IndexOK
    <3>2. S = {p}
      BY <3>1
    <3>3. p \in Nat
      BY <2>1, LenProperties DEF IndexOK
    <3>4. Max(S) = p
      <4>1. S \in SUBSET Nat /\ S # {} /\ \A x \in S : x <= p
        BY <3>2, <3>3
      <4>. HIDE DEF S
      <4>. QED
        BY <3>2, <3>3, <4>1, GreatestNumber
    <3>. QED
      BY <2>1, <3>4
  <2>3. AllHandles' = AllHandles
    BY <2>1 DEF AllHandles, HandleOf, Encode
  <2>4. IndexOK(DOMAIN quant.coarse, AllHandles, handles, lists, byHash')
    BY <2>1, <2>2 DEF IndexOK
  <2>. QED
    BY <2>1, <2>3, <2>4 DEF IndexInv
<1>4. ASSUME UNCHANGED indexVars PROVE IndexInv'
  <2>1. AllHandles' = AllHandles
    BY <1>4 DEF indexVars, AllHandles, HandleOf, Encode
  <2>. QED
    BY <1>4, <2>1 DEF indexVars, IndexInv
<1>. QED
  BY <1>1, <1>2, <1>3, <1>4 DEF IndexNext

LEMMA KnownAgain ==
  ASSUME IndexAssumption, quant \in Quantizers,
         IndexOK(DOMAIN quant.coarse, AllHandles, handles, lists, byHash),
         NEW p \in DOMAIN handles, NEW tol \in Nat
  PROVE  \E e \in Known(Point[handles[p].hash], tol) :
           e.cell = handles[p].cell /\ (tol = 0 => e.code = handles[p].code)
<1>. DEFINE v == Point[handles[p].hash]
            c == handles[p].cell
            code == handles[p].code
            Differ(i) == {m \in DOMAIN code : code[m] # handles[lists[c][i]].code[m]}
            near == {i \in DOMAIN lists[c] : Cardinality(Differ(i)) <= tol}
            dist(i) == Adc(v, handles[lists[c][i]])
            best == {n \in near : \A o \in near \ {n} : dist(n) < dist(o) \/ (dist(n) = dist(o) /\ n < o)}
<1>1. Trained /\ Subspaces \in Nat
  BY LearnedIsTrained DEF IndexAssumption
<1>2. \A q \in DOMAIN handles : handles[q] \in AllHandles
  BY LenProperties DEF IndexOK
<1>3. PICK h \in Hashes : handles[p] = HandleOf(h)
  BY <1>2 DEF AllHandles
<1>4. /\ v = Point[h] /\ c = Nearest(quant.coarse, v) /\ c \in DOMAIN quant.coarse
      /\ code = Encode(Minus(v, quant.coarse[c])) /\ DOMAIN code = 1 .. Subspaces
  BY <1>1, <1>3, HandleIs
<1>5. Known(v, tol) = {handles[lists[c][i]] : i \in best}
  BY <1>4 DEF Known
<1>6. v \in Vectors(Subspaces)
  BY <1>4 DEF IndexAssumption, Coordinates, Vectors
<1>7. lists[c] \in Seq(DOMAIN handles) /\ DOMAIN lists[c] \subseteq Nat
  BY <1>4, LenProperties DEF IndexOK
<1>8. ASSUME NEW i \in DOMAIN lists[c]
      PROVE  lists[c][i] \in DOMAIN handles /\ handles[lists[c][i]].cell = c
  <2>1. lists[c][i] \in DOMAIN handles /\ lists[c][i] \in ToSet(lists[c])
    BY <1>7, LenProperties DEF ToSet
  <2>. QED
    BY <1>4, <2>1 DEF IndexOK
<1>9. \A i \in near : dist(i) \in Nat
  BY <1>1, <1>2, <1>6, <1>8, AdcIsNat
<1>10. near # {}
  <2>1. p \in ToSet(lists[c])
    BY <1>4 DEF IndexOK
  <2>2. PICK i \in DOMAIN lists[c] : lists[c][i] = p
    BY <2>1 DEF ToSet
  <2>3. Differ(i) = {}
    BY <2>2
  <2>4. Cardinality(Differ(i)) <= tol
    <3>1. Cardinality({}) = 0
      BY FS_EmptySet
    <3>. HIDE DEF Differ
    <3>. QED
      BY <2>3, <3>1
  <2>. QED
    BY <2>4
<1>11. PICK n \in near : n \in best
  <2>. DEFINE table == [i \in near |-> dist(i)]
  <2>1. DOMAIN table = near /\ near \subseteq Nat /\ \A i \in near : table[i] = dist(i) /\ table[i] \in Nat
    BY <1>7, <1>9
  <2>. HIDE DEF table, near, dist
  <2>2. \E i \in DOMAIN table : \A j \in DOMAIN table \ {i} :
          table[i] < table[j] \/ (table[i] = table[j] /\ i < j)
    BY <1>10, <2>1, LeastUsed
  <2>. QED
    BY <2>1, <2>2
<1>. PICK e : e = handles[lists[c][n]]
  OBVIOUS
<1>12. e \in Known(v, tol) /\ e.cell = c
  BY <1>5, <1>8, <1>11
<1>13. ASSUME tol = 0 PROVE e.code = code
  <2>1. Differ(n) \subseteq 1 .. Subspaces /\ IsFiniteSet(1 .. Subspaces)
    <3>1. IsFiniteSet(1 .. Subspaces)
      BY <1>1, UpTo
    <3>. QED
      BY <1>4, <3>1
  <2>2. IsFiniteSet(Differ(n)) /\ Cardinality(Differ(n)) \in Nat
    <3>1. IsFiniteSet(Differ(n))
      BY <2>1, FS_Subset
    <3>. QED
      BY <3>1, FS_CardinalityType
  <2>3. Cardinality(Differ(n)) = 0
    <3>1. Cardinality(Differ(n)) <= tol
      BY <1>11
    <3>. HIDE DEF Differ
    <3>. QED
      BY <1>13, <2>2, <3>1
  <2>4. Differ(n) = {}
    BY <2>2, <2>3, FS_EmptySet
  <2>5. \A m \in 1 .. Subspaces : code[m] = e.code[m]
    BY <1>4, <2>4
  <2>6. PICK g \in Hashes : e = HandleOf(g)
    BY <1>2, <1>8 DEF AllHandles
  <2>7. DOMAIN e.code = 1 .. Subspaces
    BY <1>1, <2>6, HandleIs
  <2>8. e.code = Encode(Minus(Point[g], quant.coarse[e.cell]))
    BY <1>1, <2>6, HandleIs
  <2>9. \A r : Encode(r) = [m \in DOMAIN Encode(r) |-> Encode(r)[m]]
    BY DEF Encode
  <2>10. /\ e.code = [m \in 1 .. Subspaces |-> e.code[m]]
         /\ code = [m \in 1 .. Subspaces |-> code[m]]
    BY <1>4, <2>7, <2>8, <2>9
  <2>. HIDE DEF code
  <2>. QED
    BY <2>5, <2>10
<1>. QED
  BY <1>12, <1>13

LEMMA IndexStored == ASSUME IndexAssumption, IndexInv PROVE StoredOnce
<1>1. CASE quant = Untrained /\ handles = <<>> /\ lists = <<>> /\ byHash = << >>
  <2>1. DOMAIN handles = {} /\ DOMAIN byHash = {}
    BY <1>1, EmptySeq
  <2>2. DOMAIN lists = {}
    BY <1>1, EmptySeq
  <2>. QED
    BY <2>1, <2>2 DEF StoredOnce
<1>2. CASE quant \in Quantizers /\ IndexOK(DOMAIN quant.coarse, AllHandles, handles, lists, byHash)
  <2>1. /\ \A h \in DOMAIN byHash : handles[byHash[h]].hash = h
        /\ \A c \in DOMAIN lists : IsInjective(lists[c])
    BY <1>2 DEF IndexOK
  <2>2. ASSUME NEW p \in DOMAIN handles
        PROVE  {c \in DOMAIN lists : p \in ToSet(lists[c])} = {handles[p].cell}
    <3>1. handles[p] \in AllHandles
      BY <1>2, LenProperties DEF IndexOK
    <3>2. handles[p].cell \in DOMAIN quant.coarse
      BY <1>2, <3>1, LearnedIsTrained, HandleIs DEF AllHandles
    <3>. QED
      BY <1>2, <3>2 DEF IndexOK
  <2>3. \A p \in DOMAIN handles : byHash[handles[p].hash] = p
    BY <1>2 DEF IndexOK
  <2>4. \A p \in DOMAIN handles, tol \in 0 .. Subspaces : \E e \in Known(Point[handles[p].hash], tol) :
          e.cell = handles[p].cell /\ (tol = 0 => e.code = handles[p].code)
    BY <1>2, KnownAgain DEF IndexAssumption
  <2>. QED
    BY <2>1, <2>2, <2>3, <2>4 DEF StoredOnce
<1>. QED
  BY <1>1, <1>2 DEF IndexInv

-----------------------------------------------------------------------------
(***************************************************************************)
(* Orders: any finite table of distances can be sorted.                    *)
(***************************************************************************)
Before(dist, tie, x, y) == dist[x] < dist[y] \/ (dist[x] = dist[y] /\ tie[x] <= tie[y])

SortsUpTo(dist, tie, own, n, rank) ==
  /\ rank \in [1 .. n -> own]
  /\ \A x \in own : \E i \in 1 .. n : rank[i] = x
  /\ \A i, j \in 1 .. n : i < j => Before(dist, tie, rank[i], rank[j])

LEMMA FirstOf ==
  ASSUME NEW all, NEW dist \in [all -> Nat], NEW tie \in [all -> Nat], NEW own \in SUBSET all, own # {}
  PROVE  \E x \in own : \A y \in own : Before(dist, tie, x, y)
<1>1. PICK a \in own : \A y \in own : dist[a] <= dist[y]
  <2>1. PICK A : A = {dist[x] : x \in own}
    OBVIOUS
  <2>2. A \in SUBSET Nat /\ A # {}
    BY <2>1
  <2>3. PICK m \in A : \A k \in A : m <= k
    BY <2>2, LeastNumber
  <2>. QED
    BY <2>1, <2>3
<1>2. PICK B : B = {x \in own : dist[x] = dist[a]}
  OBVIOUS
<1>3. PICK b \in B : \A y \in B : tie[b] <= tie[y]
  <2>1. PICK A : A = {tie[x] : x \in B}
    OBVIOUS
  <2>2. A \in SUBSET Nat /\ A # {}
    BY <1>2, <2>1
  <2>3. PICK m \in A : \A k \in A : m <= k
    BY <2>2, LeastNumber
  <2>. QED
    BY <2>1, <2>3
<1>4. ASSUME NEW y \in own PROVE Before(dist, tie, b, y)
  <2>1. dist[b] = dist[a] /\ dist[a] <= dist[y] /\ dist[a] \in Nat /\ dist[y] \in Nat
    BY <1>1, <1>2
  <2>2. dist[y] = dist[a] => tie[b] <= tie[y]
    BY <1>2, <1>3
  <2>. QED
    BY <2>1, <2>2 DEF Before
<1>. QED
  BY <1>2, <1>4

LEMMA SortingExists ==
  ASSUME NEW all, IsFiniteSet(all), NEW dist \in [all -> Nat], NEW tie \in [all -> Nat]
  PROVE  \E rank : SortsUpTo(dist, tie, all, Cardinality(all), rank)
<1>. DEFINE Good == {n \in Nat : \A own \in SUBSET all :
                       Cardinality(own) = n => \E rank : SortsUpTo(dist, tie, own, n, rank)}
<1>1. 0 \in Good
  <2>. SUFFICES ASSUME NEW own \in SUBSET all, Cardinality(own) = 0
                PROVE  \E rank : SortsUpTo(dist, tie, own, 0, rank)
    OBVIOUS
  <2>1. own = {}
    BY FS_Subset, FS_EmptySet
  <2>2. PICK rank : rank = [n \in {} |-> 0]
    OBVIOUS
  <2>3. 1 .. 0 = {} /\ rank \in [1 .. 0 -> own]
    BY <2>2
  <2>. QED
    BY <2>1, <2>3 DEF SortsUpTo
<1>2. ASSUME NEW n \in Good, n \in Nat PROVE n + 1 \in Good
  <2>. SUFFICES ASSUME NEW own \in SUBSET all, Cardinality(own) = n + 1
                PROVE  \E rank : SortsUpTo(dist, tie, own, n + 1, rank)
    BY <1>2
  <2>1. IsFiniteSet(own) /\ own # {}
    <3>1. IsFiniteSet(own)
      BY FS_Subset
    <3>2. Cardinality({}) = 0
      BY FS_EmptySet
    <3>. QED
      BY <1>2, <3>1, <3>2
  <2>2. PICK x \in own : \A y \in own : Before(dist, tie, x, y)
    BY <2>1, FirstOf
  <2>3. PICK rest : rest = own \ {x}
    OBVIOUS
  <2>4. rest \in SUBSET all /\ Cardinality(rest) = n
    <3>1. Cardinality(own \ {x}) = Cardinality(own) - 1
      BY <2>1, FS_RemoveElement
    <3>. QED
      BY <1>2, <2>3, <3>1
  <2>5. PICK g : SortsUpTo(dist, tie, rest, n, g)
    BY <1>2, <2>4
  <2>. HIDE DEF Good
  <2>6. /\ \A i \in 1 .. n : g[i] \in rest
        /\ \A y \in rest : \E i \in 1 .. n : g[i] = y
        /\ \A i, j \in 1 .. n : i < j => Before(dist, tie, g[i], g[j])
    BY <2>5 DEF SortsUpTo
  <2>7. PICK h : h = [m \in 1 .. n + 1 |-> IF m = 1 THEN x ELSE g[m - 1]]
    OBVIOUS
  <2>8. h[1] = x /\ \A m \in 2 .. n + 1 : h[m] = g[m - 1] /\ m - 1 \in 1 .. n
    <3>1. 1 \in 1 .. n + 1
      BY <1>2
    <3>2. \A m \in 2 .. n + 1 : m \in 1 .. n + 1 /\ m # 1 /\ m - 1 \in 1 .. n
      BY <1>2
    <3>. QED
      BY <2>7, <3>1, <3>2
  <2>9. \A m \in 1 .. n + 1 : m = 1 \/ m \in 2 .. n + 1
    BY <1>2
  <2>10. \A m \in 1 .. n + 1 : h[m] \in own
    BY <2>3, <2>6, <2>8, <2>9
  <2>11. ASSUME NEW y \in own PROVE \E m \in 1 .. n + 1 : h[m] = y
    <3>1. CASE y = x
      BY <1>2, <2>8, <3>1
    <3>2. CASE y # x
      <4>1. PICK m \in 1 .. n : g[m] = y
        BY <2>3, <2>6, <3>2
      <4>2. m + 1 \in 2 .. n + 1 /\ m + 1 - 1 = m /\ m + 1 \in 1 .. n + 1
        BY <1>2
      <4>. QED
        BY <2>8, <4>1, <4>2
    <3>. QED
      BY <3>1, <3>2
  <2>12. ASSUME NEW i \in 1 .. n + 1, NEW j \in 1 .. n + 1, i < j
         PROVE  Before(dist, tie, h[i], h[j])
    <3>1. CASE i = 1
      BY <2>2, <2>8, <2>10, <3>1
    <3>2. CASE i # 1
      <4>1. i \in 2 .. n + 1 /\ j \in 2 .. n + 1 /\ i - 1 < j - 1
        BY <1>2, <2>12, <3>2
      <4>2. h[i] = g[i - 1] /\ h[j] = g[j - 1] /\ i - 1 \in 1 .. n /\ j - 1 \in 1 .. n
        BY <2>8, <4>1
      <4>. QED
        BY <2>6, <4>1, <4>2
    <3>. QED
      BY <3>1, <3>2
  <2>13. h \in [1 .. n + 1 -> own]
    BY <2>7, <2>10
  <2>14. SortsUpTo(dist, tie, own, n + 1, h)
    BY <2>11, <2>12, <2>13 DEF SortsUpTo
  <2>. QED
    BY <2>14
<1>. HIDE DEF Good
<1>3. Nat \subseteq Good
  BY <1>1, <1>2, Induction
<1>4. Cardinality(all) \in Good
  BY <1>3, FS_CardinalityType
<1>. QED
  BY <1>4 DEF Good

LEMMA SortedIs ==
  ASSUME NEW all, IsFiniteSet(all), NEW dist \in [all -> Nat], NEW tie \in [all -> Nat],
         NEW n, n = Cardinality(all)
  PROVE  /\ n \in Nat /\ SortsUpTo(dist, tie, all, n, Sorted(dist, tie))
         /\ IsInjective(Sorted(dist, tie))
<1>1. n \in Nat
  BY FS_CardinalityType
<1>2. PICK g : SortsUpTo(dist, tie, all, n, g)
  BY SortingExists
<1>3. DOMAIN dist = all
  OBVIOUS
<1>. DEFINE Fits(rank) ==
        /\ \A x \in all : \E i \in DOMAIN rank : rank[i] = x
        /\ \A i, j \in DOMAIN rank : i < j =>
             \/ dist[rank[i]] < dist[rank[j]]
             \/ dist[rank[i]] = dist[rank[j]] /\ tie[rank[i]] <= tie[rank[j]]
<1>4. g \in [1 .. n -> all] /\ Fits(g)
  <2>1. g \in [1 .. n -> all] /\ DOMAIN g = 1 .. n
    BY <1>2 DEF SortsUpTo
  <2>. QED
    BY <1>2, <2>1 DEF SortsUpTo, Before
<1>5. Sorted(dist, tie) = CHOOSE rank \in [1 .. n -> all] : Fits(rank)
  BY <1>3 DEF Sorted
<1>. PICK r : r = Sorted(dist, tie)
  OBVIOUS
<1>6. r \in [1 .. n -> all] /\ Fits(r)
  <2>. HIDE DEF Fits
  <2>. QED
    BY <1>4, <1>5
<1>7. SortsUpTo(dist, tie, all, n, r)
  BY <1>6 DEF SortsUpTo, Before
<1>8. IsInjective(r)
  <2>1. r \in Surjection(1 .. n, all)
    BY <1>6 DEF Surjection
  <2>2. IsFiniteSet(1 .. n) /\ Cardinality(1 .. n) = n
    BY <1>1, FS_Interval
  <2>3. r \in Injection(1 .. n, all)
    BY <2>1, <2>2, FS_SurjSameCardinalityImpliesInj
  <2>. QED
    BY <2>3 DEF Injection
<1>. QED
  BY <1>1, <1>7, <1>8

-----------------------------------------------------------------------------
(***************************************************************************)
(* The loops of the searches, each a step applied again and again.         *)
(***************************************************************************)
StepOf(loop, x, s, n) ==
  IF loop = "lift" THEN Lifted(s)
  ELSE IF loop = "sink" THEN Sunk(s)
  ELSE IF loop = "scan" THEN Offered(s, CandidateAt(x.q, lists[x.cell][n]), x.topK)
  ELSE ScanCell(s, x.q, x.cells[n], x.topK)

IsLoop(f, loop, x, s, m) == f = [n \in 0 .. m |-> IF n = 0 THEN s ELSE StepOf(loop, x, f[n - 1], n)]

LEMMA LoopFunction ==
  ASSUME NEW loop, NEW x, NEW s, NEW m \in Nat
  PROVE  \E f : IsLoop(f, loop, x, s, m)
<1>. DEFINE Step(f, i) == IF i = 0 THEN s ELSE StepOf(loop, x, f[i - 1], i)
            Good == {n \in Nat : \E f : f = [i \in 0 .. n |-> Step(f, i)]}
<1>1. 0 \in Good
  <2>1. [i \in 0 .. 0 |-> s] = [i \in 0 .. 0 |-> Step([j \in 0 .. 0 |-> s], i)]
    OBVIOUS
  <2>. QED
    BY <2>1
<1>2. ASSUME NEW n \in Good, n \in Nat PROVE n + 1 \in Good
  <2>1. PICK f : f = [i \in 0 .. n |-> Step(f, i)]
    BY <1>2
  <2>. DEFINE g == [i \in 0 .. n + 1 |-> IF i <= n THEN f[i] ELSE Step(f, i)]
  <2>2. ASSUME NEW i \in 0 .. n + 1 PROVE g[i] = Step(g, i)
    <3>1. i # 0 => i - 1 \in 0 .. n /\ g[i - 1] = f[i - 1]
      BY <1>2
    <3>2. g[i] = Step(f, i)
      <4>1. CASE i <= n
        <5>1. g[i] = f[i] /\ i \in 0 .. n
          BY <1>2, <4>1
        <5>. HIDE DEF g
        <5>. QED
          BY <2>1, <5>1
      <4>2. CASE i = n + 1
        BY <1>2, <4>2
      <4>. QED
        BY <1>2, <4>1, <4>2
    <3>. HIDE DEF g
    <3>. QED
      BY <3>1, <3>2
  <2>3. g = [i \in 0 .. n + 1 |-> Step(g, i)]
    BY <2>2
  <2>. HIDE DEF g
  <2>. QED
    BY <1>2, <2>3
<1>. HIDE DEF Good
<1>3. Nat \subseteq Good
  BY <1>1, <1>2, Induction
<1>. QED
  BY <1>3 DEF Good, IsLoop

LEMMA LoopIs ==
  ASSUME NEW loop, NEW x, NEW s, NEW m, NEW f, IsLoop(f, loop, x, s, m), m \in Nat
  PROVE  f[0] = s /\ \A n \in 0 .. m - 1 : n + 1 \in 1 .. m /\ f[n + 1] = StepOf(loop, x, f[n], n + 1)
<1>1. f[0] = s
  BY DEF IsLoop
<1>2. ASSUME NEW n \in 0 .. m - 1 PROVE n + 1 \in 1 .. m /\ f[n + 1] = StepOf(loop, x, f[n], n + 1)
  <2>1. n + 1 \in 1 .. m /\ n + 1 \in 0 .. m /\ n + 1 # 0 /\ n + 1 - 1 = n
    OBVIOUS
  <2>2. f[n + 1] = StepOf(loop, x, f[n + 1 - 1], n + 1)
    BY <2>1 DEF IsLoop
  <2>. QED
    BY <2>1, <2>2
<1>. QED
  BY <1>1, <1>2

LEMMA PushIs ==
  ASSUME NEW h, NEW r, NEW m \in Nat, m = Len(h) + 1
  PROVE  \E f : IsLoop(f, "lift", 0, [heap |-> Append(h, r), at |-> Len(h) + 1], m) /\ Push(h, r) = f[m].heap
<1>. PICK s : s = [heap |-> Append(h, r), at |-> Len(h) + 1]
  OBVIOUS
<1>1. \E g : g = [n \in 0 .. m |-> IF n = 0 THEN s ELSE Lifted(g[n - 1])]
  <2>1. \E g : IsLoop(g, "lift", 0, s, m)
    BY LoopFunction
  <2>. QED
    BY <2>1 DEF IsLoop, StepOf
<1>. DEFINE round[n \in 0 .. m] == IF n = 0 THEN s ELSE Lifted(round[n - 1])
<1>2. round = [n \in 0 .. m |-> IF n = 0 THEN s ELSE Lifted(round[n - 1])]
  BY <1>1, Zenon
<1>3. Push(h, r) = round[m].heap
  BY DEF Push
<1>. HIDE DEF round
<1>. QED
  BY <1>2, <1>3 DEF IsLoop, StepOf

LEMMA ReplaceTopIs ==
  ASSUME NEW h, NEW r, NEW m \in Nat, m = Len(h)
  PROVE  \E f : IsLoop(f, "sink", 0, [heap |-> [h EXCEPT ![1] = r], at |-> 1], m) /\ ReplaceTop(h, r) = f[m].heap
<1>. PICK s : s = [heap |-> [h EXCEPT ![1] = r], at |-> 1]
  OBVIOUS
<1>1. \E g : g = [n \in 0 .. m |-> IF n = 0 THEN s ELSE Sunk(g[n - 1])]
  <2>1. \E g : IsLoop(g, "sink", 0, s, m)
    BY LoopFunction
  <2>. QED
    BY <2>1 DEF IsLoop, StepOf
<1>. DEFINE round[n \in 0 .. m] == IF n = 0 THEN s ELSE Sunk(round[n - 1])
<1>2. round = [n \in 0 .. m |-> IF n = 0 THEN s ELSE Sunk(round[n - 1])]
  BY <1>1, Zenon
<1>3. ReplaceTop(h, r) = round[m].heap
  BY DEF ReplaceTop
<1>. HIDE DEF round
<1>. QED
  BY <1>2, <1>3 DEF IsLoop, StepOf

LEMMA ScanCellIs ==
  ASSUME NEW heap, NEW q, NEW c, NEW topK, NEW m \in Nat, m = Len(lists[c])
  PROVE  \E f : /\ IsLoop(f, "scan", [q |-> q, cell |-> c, topK |-> topK], heap, m)
                /\ ScanCell(heap, q, c, topK) = f[m]
<1>. PICK x : x = [q |-> q, cell |-> c, topK |-> topK]
  OBVIOUS
<1>0. x.q = q /\ x.cell = c /\ x.topK = topK
  OBVIOUS
<1>1. \E g : g = [n \in 0 .. m |-> IF n = 0 THEN heap ELSE Offered(g[n - 1], CandidateAt(q, lists[c][n]), topK)]
  <2>1. \E g : IsLoop(g, "scan", x, heap, m)
    BY LoopFunction
  <2>. QED
    BY <1>0, <2>1 DEF IsLoop, StepOf
<1>. DEFINE after[n \in 0 .. m] ==
        IF n = 0 THEN heap ELSE Offered(after[n - 1], CandidateAt(q, lists[c][n]), topK)
<1>2. after = [n \in 0 .. m |-> IF n = 0 THEN heap ELSE Offered(after[n - 1], CandidateAt(q, lists[c][n]), topK)]
  BY <1>1, Zenon
<1>3. ScanCell(heap, q, c, topK) = after[m]
  BY DEF ScanCell
<1>. HIDE DEF after
<1>. QED
  BY <1>0, <1>2, <1>3 DEF IsLoop, StepOf

LEMMA GatheredIs ==
  ASSUME NEW q, NEW nprobe, NEW topK, NEW cells, cells = ProbeCells(q, nprobe), NEW m \in Nat, m = Len(cells)
  PROVE  \E f : /\ IsLoop(f, "probe", [q |-> q, cells |-> cells, topK |-> topK], <<>>, m)
                /\ Gathered(q, nprobe, topK) = f[m]
<1>. PICK x : x = [q |-> q, cells |-> cells, topK |-> topK]
  OBVIOUS
<1>0. x.q = q /\ x.cells = cells /\ x.topK = topK
  OBVIOUS
<1>1. \E g : g = [n \in 0 .. m |-> IF n = 0 THEN <<>> ELSE ScanCell(g[n - 1], q, cells[n], topK)]
  <2>1. \E g : IsLoop(g, "probe", x, <<>>, m)
    BY LoopFunction
  <2>. QED
    BY <1>0, <2>1 DEF IsLoop, StepOf
<1>. DEFINE after[n \in 0 .. m] == IF n = 0 THEN <<>> ELSE ScanCell(after[n - 1], q, cells[n], topK)
<1>2. after = [n \in 0 .. m |-> IF n = 0 THEN <<>> ELSE ScanCell(after[n - 1], q, cells[n], topK)]
  BY <1>1, Zenon
<1>3. Gathered(q, nprobe, topK) = after[m]
  BY DEF Gathered
<1>. HIDE DEF after
<1>. QED
  BY <1>0, <1>2, <1>3 DEF IsLoop, StepOf

-----------------------------------------------------------------------------
(***************************************************************************)
(* The heap: no candidate is farther than its parent, at half its place.   *)
(***************************************************************************)
LEMMA HalfIs ==
  ASSUME NEW i \in Nat, i >= 2
  PROVE  i \div 2 \in Nat /\ i \div 2 >= 1 /\ i \div 2 < i /\ (i = 2 * (i \div 2) \/ i = 2 * (i \div 2) + 1)
OBVIOUS

Numbered(E) == \A e \in E : e.pos \in Nat /\ e.dist \in Nat

\* Candidates of E in m places, all those of S, no two the same.
Holds(h, m, E, S) == h \in [1 .. m -> E] /\ ToSet(h) = S /\ IsInjective(h)

LEMMA ExchangedIs ==
  ASSUME NEW m, NEW E, NEW S, NEW h, Holds(h, m, E, S), NEW i, NEW j, i \in 1 .. m, j \in 1 .. m, i # j,
         NEW g, g = Exchanged(h, i, j)
  PROVE  /\ Holds(g, m, E, S) /\ g[i] = h[j] /\ g[j] = h[i]
         /\ \A k \in (1 .. m) \ {i, j} : g[k] = h[k]
<1>0. h \in [1 .. m -> E] /\ ToSet(h) = S /\ IsInjective(h)
  BY DEF Holds
<1>1. /\ g \in [1 .. m -> E] /\ g[i] = h[j] /\ g[j] = h[i] /\ \A k \in (1 .. m) \ {i, j} : g[k] = h[k]
  BY <1>0 DEF Exchanged
<1>2. DOMAIN g = 1 .. m /\ DOMAIN h = 1 .. m
  BY <1>0, <1>1
<1>3. ToSet(g) = ToSet(h)
  <2>1. \A k \in 1 .. m : \E l \in 1 .. m : g[k] = h[l]
    BY <1>1
  <2>2. \A k \in 1 .. m : \E l \in 1 .. m : h[k] = g[l]
    BY <1>1
  <2>3. ToSet(g) = {g[k] : k \in 1 .. m} /\ ToSet(h) = {h[k] : k \in 1 .. m}
    BY <1>2 DEF ToSet
  <2>4. ToSet(g) \subseteq ToSet(h)
    BY <2>1, <2>3
  <2>5. ToSet(h) \subseteq ToSet(g)
    BY <2>2, <2>3
  <2>. QED
    BY <2>4, <2>5
<1>4. IsInjective(g)
  <2>1. \A k, l \in 1 .. m : h[k] = h[l] => k = l
    BY <1>0, <1>2 DEF IsInjective
  <2>2. ASSUME NEW k \in 1 .. m, NEW l \in 1 .. m, g[k] = g[l] PROVE k = l
    BY <1>1, <2>1, <2>2
  <2>. QED
    BY <1>2, <2>2 DEF IsInjective
<1>. QED
  BY <1>0, <1>1, <1>3, <1>4 DEF Holds

Ordered(h, m) == \A i \in 2 .. m : h[i \div 2].dist >= h[i].dist

\* In order but for one place: under that of push, above that of replaceTop.
Lifting(h, a, m) ==
  /\ a \in 1 .. m
  /\ \A i \in 2 .. m : i # a => h[i \div 2].dist >= h[i].dist
  /\ a >= 2 => \A i \in 2 .. m : i \div 2 = a => h[a \div 2].dist >= h[i].dist

Sinking(h, a, m) ==
  /\ a \in 1 .. m
  /\ \A i \in 2 .. m : i \div 2 # a => h[i \div 2].dist >= h[i].dist
  /\ a >= 2 => \A i \in 2 .. m : i \div 2 = a => h[a \div 2].dist >= h[i].dist

LEMMA LiftedKeeps ==
  ASSUME NEW m \in Nat, NEW E, Numbered(E), NEW S, NEW s, Holds(s.heap, m, E, S), Lifting(s.heap, s.at, m),
         NEW t, t = Lifted(s)
  PROVE  /\ Holds(t.heap, m, E, S) /\ Lifting(t.heap, t.at, m)
         /\ t.at < s.at \/ (t = s /\ Ordered(t.heap, m))
<1>0. PICK h, a, p : h = s.heap /\ a = s.at /\ p = a \div 2
  OBVIOUS
<1>1. a \in 1 .. m /\ h \in [1 .. m -> E] /\ (a >= 2 => p \in 1 .. m /\ p < a)
  BY <1>0, HalfIs DEF Holds, Lifting
<1>2. CASE a = 1
  <2>1. Ordered(h, m)
    BY <1>0, <1>2 DEF Lifting, Ordered
  <2>. QED
    BY <1>0, <1>2, <2>1 DEF Lifted
<1>3. CASE a >= 2 /\ h[p].dist >= h[a].dist
  <2>1. Ordered(h, m)
    BY <1>0, <1>3 DEF Lifting, Ordered
  <2>. QED
    BY <1>0, <1>3, <2>1 DEF Lifted
<1>4. CASE a >= 2 /\ ~ (h[p].dist >= h[a].dist)
  <2>1. PICK g : g = Exchanged(h, a, p)
    OBVIOUS
  <2>2. t = [heap |-> g, at |-> p]
    BY <1>0, <1>4, <2>1 DEF Lifted
  <2>0. a # p /\ p \in 1 .. m /\ Holds(h, m, E, S)
    BY <1>0, <1>1, <1>4
  <2>3. /\ Holds(g, m, E, S) /\ g[a] = h[p] /\ g[p] = h[a]
        /\ \A k \in (1 .. m) \ {a, p} : g[k] = h[k]
    BY <1>1, <2>0, <2>1, ExchangedIs
  <2>4. /\ p \in 1 .. m /\ p < a /\ a \in 1 .. m
        /\ g[a] = h[p] /\ g[p] = h[a] /\ \A k \in (1 .. m) \ {a, p} : g[k] = h[k]
    BY <1>1, <1>4, <2>3
  <2>5. \A k \in 1 .. m : h[k].dist \in Nat
    BY <1>1 DEF Numbered
  <2>6. h[p].dist < h[a].dist
    BY <1>4, <2>4, <2>5
  <2>7. \A i \in 2 .. m : i \div 2 \in 1 .. m /\ i \div 2 < i
    BY HalfIs
  <2>8. \A i \in 2 .. m : i # a => h[i \div 2].dist >= h[i].dist
    BY <1>0 DEF Lifting
  <2>9. \A i \in 2 .. m : i \div 2 = a => h[p].dist >= h[i].dist
    BY <1>0, <1>4 DEF Lifting
  <2>10. ASSUME NEW i \in 2 .. m, i # p PROVE g[i \div 2].dist >= g[i].dist
    <3>. PICK u : u = i \div 2
      OBVIOUS
    <3>1. u \in 1 .. m /\ u < i /\ i \in 1 .. m
      BY <2>7
    <3>2. CASE i = a
      BY <1>0, <2>4, <2>5, <2>6, <3>2
    <3>3. CASE i # a /\ u = a
      BY <2>4, <2>9, <2>10, <3>1, <3>3
    <3>4. CASE i # a /\ u = p
      <4>1. h[p].dist >= h[i].dist /\ g[u] = h[a] /\ g[i] = h[i]
        BY <2>4, <2>8, <2>10, <3>1, <3>4
      <4>. QED
        BY <2>4, <2>5, <2>6, <3>1, <4>1
    <3>5. CASE i # a /\ u # a /\ u # p
      BY <2>4, <2>8, <2>10, <3>1, <3>5
    <3>. QED
      BY <3>2, <3>3, <3>4, <3>5
  <2>11. ASSUME p >= 2, NEW i \in 2 .. m, i \div 2 = p PROVE g[p \div 2].dist >= g[i].dist
    <3>. PICK u : u = p \div 2
      OBVIOUS
    <3>1. u \in 1 .. m /\ u < p /\ p \in 2 .. m
      BY <2>4, <2>7, <2>11
    <3>2. g[u] = h[u] /\ h[u].dist >= h[p].dist
      BY <2>4, <2>8, <3>1
    <3>3. i \in 1 .. m /\ p < i
      BY <2>7, <2>11
    <3>4. CASE i = a
      BY <2>4, <3>2, <3>4
    <3>5. CASE i # a
      <4>1. g[i] = h[i] /\ h[p].dist >= h[i].dist
        BY <2>4, <2>8, <2>11, <3>3, <3>5
      <4>. QED
        BY <2>4, <2>5, <3>1, <3>2, <3>3, <4>1
    <3>. QED
      BY <3>4, <3>5
  <2>12. Lifting(g, p, m)
    BY <2>4, <2>10, <2>11 DEF Lifting
  <2>. QED
    BY <1>0, <2>2, <2>3, <2>4, <2>12
<1>. QED
  BY <1>0, <1>1, <1>2, <1>3, <1>4

LEMMA SunkKeeps ==
  ASSUME NEW m \in Nat, NEW E, Numbered(E), NEW S, NEW s, Holds(s.heap, m, E, S), Sinking(s.heap, s.at, m),
         NEW t, t = Sunk(s)
  PROVE  /\ Holds(t.heap, m, E, S) /\ Sinking(t.heap, t.at, m)
         /\ t.at > s.at \/ (t = s /\ Ordered(t.heap, m))
<1>0. PICK h, a : h = s.heap /\ a = s.at
  OBVIOUS
<1>. DEFINE children == {2 * a, 2 * a + 1} \intersect DOMAIN h
            d(i) == h[i].dist
            above == {j \in children : d(j) > d(a) /\ \A k \in children \ {j} : d(k) < d(j) \/ (d(k) = d(j) /\ j < k)}
<1>1. a \in 1 .. m /\ h \in [1 .. m -> E] /\ DOMAIN h = 1 .. m
  BY <1>0 DEF Holds, Sinking
<1>2. t = IF above = {} THEN s ELSE LET j == CHOOSE k \in above : TRUE IN [heap |-> Exchanged(h, a, j), at |-> j]
  BY <1>0 DEF Sunk
<1>3. \A k \in 1 .. m : h[k].dist \in Nat
  BY <1>1 DEF Numbered
<1>4. \A i \in 2 .. m : i \div 2 \in 1 .. m /\ i \div 2 < i
  BY HalfIs
<1>5. \A i \in 2 .. m : i \div 2 = a => i \in children
  BY <1>1, HalfIs
<1>6. CASE above = {}
  <2>1. ASSUME NEW i \in children PROVE d(a) >= d(i)
    <3>1. i \in 1 .. m /\ \A k \in children : k \in 1 .. m
      BY <1>1
    <3>2. \A k, l \in children : k # l => \A o \in children : o = k \/ o = l
      OBVIOUS
    <3>3. \A k \in children : d(k) \in Nat
      BY <1>3, <3>1
    <3>4. d(a) \in Nat
      BY <1>1, <1>3
    <3>. HIDE DEF children, d
    <3>5. CASE \A k \in children : k = i
      BY <1>6, <3>3, <3>4, <3>5
    <3>6. CASE \E k \in children : k # i
      <4>1. PICK k \in children : k # i
        BY <3>6
      <4>2. \A o \in children : o = i \/ o = k
        BY <3>2, <4>1
      <4>. QED
        BY <1>6, <3>1, <3>3, <3>4, <4>1, <4>2
    <3>. QED
      BY <3>5, <3>6
  <2>2. Ordered(h, m)
    BY <1>0, <1>5, <2>1 DEF Ordered, Sinking
  <2>. QED
    BY <1>0, <1>2, <1>6, <2>2
<1>7. CASE above # {}
  <2>1. PICK j \in above : t = [heap |-> Exchanged(h, a, j), at |-> j]
    BY <1>2, <1>7
  <2>2. /\ j \in 1 .. m /\ j \in 2 .. m /\ a < j /\ j \div 2 = a
        /\ h[a].dist < h[j].dist
    BY <1>1
  <2>3. ASSUME NEW i \in 2 .. m, i \div 2 = a PROVE h[j].dist >= h[i].dist
    <3>1. i \in children /\ i \in 1 .. m
      BY <1>5, <2>3
    <3>2. i # j => h[i].dist < h[j].dist \/ h[i].dist = h[j].dist
      BY <2>1, <3>1
    <3>. QED
      BY <1>3, <2>2, <3>1, <3>2
  <2>. HIDE DEF above, d, children
  <2>4. PICK g : g = Exchanged(h, a, j)
    OBVIOUS
  <2>5. t = [heap |-> g, at |-> j]
    BY <2>1, <2>4
  <2>6. a # j /\ Holds(h, m, E, S)
    BY <1>0, <1>1, <2>2
  <2>7. /\ Holds(g, m, E, S) /\ g[a] = h[j] /\ g[j] = h[a]
        /\ \A k \in (1 .. m) \ {a, j} : g[k] = h[k]
    BY <1>1, <2>2, <2>4, <2>6, ExchangedIs
  <2>8. \A i \in 2 .. m : i \div 2 # a => h[i \div 2].dist >= h[i].dist
    BY <1>0 DEF Sinking
  <2>9. a >= 2 => h[a \div 2].dist >= h[j].dist
    BY <1>0, <2>2 DEF Sinking
  <2>10. ASSUME NEW i \in 2 .. m, i \div 2 # j PROVE g[i \div 2].dist >= g[i].dist
    <3>. PICK u : u = i \div 2
      OBVIOUS
    <3>1. u \in 1 .. m /\ u < i /\ i \in 1 .. m
      BY <1>4
    <3>2. CASE i = j
      BY <1>1, <1>3, <2>2, <2>7, <3>2
    <3>3. CASE i # j /\ u = a
      BY <2>3, <2>7, <3>1, <3>3
    <3>4. CASE i = a
      <4>1. u # a /\ u # j
        BY <1>4, <2>10, <3>4
      <4>. QED
        BY <2>7, <2>9, <3>1, <3>4, <4>1
    <3>5. CASE i # j /\ u # a /\ i # a
      BY <2>7, <2>8, <2>10, <3>1, <3>5
    <3>. QED
      BY <3>2, <3>3, <3>4, <3>5
  <2>11. ASSUME NEW i \in 2 .. m, i \div 2 = j PROVE g[j \div 2].dist >= g[i].dist
    <3>1. j # a /\ i \in 1 .. m /\ i # j /\ i # a
      BY <1>4, <2>2, <2>11
    <3>2. g[i] = h[i] /\ h[j].dist >= h[i].dist
      BY <2>7, <2>8, <2>11, <3>1
    <3>. QED
      BY <2>2, <2>7, <3>2
  <2>12. Sinking(g, j, m)
    BY <2>2, <2>10, <2>11 DEF Sinking
  <2>. QED
    BY <1>0, <2>2, <2>5, <2>7, <2>12
<1>. QED
  BY <1>6, <1>7

LEMMA TopIsFarthest ==
  ASSUME NEW m \in Nat, NEW E, Numbered(E), NEW h \in [1 .. m -> E], Ordered(h, m), NEW i \in 1 .. m
  PROVE  h[1].dist >= h[i].dist
<1>1. \A k \in 1 .. m : h[k].dist \in Nat
  BY DEF Numbered
<1>2. PICK B : B = {k \in 1 .. m : ~ (h[1].dist >= h[k].dist)}
  OBVIOUS
<1>3. CASE B = {}
  BY <1>2, <1>3
<1>4. CASE B # {}
  <2>1. PICK k \in B : \A l \in B : k <= l
    <3>1. B \in SUBSET Nat
      BY <1>2
    <3>. QED
      BY <1>4, <3>1, LeastNumber
  <2>2. k \in 2 .. m
    BY <1>1, <1>2
  <2>3. k \div 2 \in 1 .. m /\ k \div 2 < k
    BY <2>2, HalfIs
  <2>4. h[k \div 2].dist >= h[k].dist
    BY <2>2 DEF Ordered
  <2>5. h[1].dist >= h[k \div 2].dist
    BY <1>2, <2>1, <2>2, <2>3
  <2>6. 1 \in 1 .. m
    OBVIOUS
  <2>. QED
    BY <1>1, <1>2, <2>2, <2>3, <2>4, <2>5, <2>6
<1>. QED
  BY <1>3, <1>4

LEMMA HeapIsSeq ==
  ASSUME NEW m \in Nat, NEW E, NEW S, NEW h, Holds(h, m, E, S)
  PROVE  h \in Seq(E) /\ IsSeq(h) /\ Len(h) = m /\ DOMAIN h = 1 .. m /\ S = {h[i] : i \in 1 .. m} /\ S \subseteq E
<1>1. h \in [1 .. m -> E] /\ ToSet(h) = S
  BY DEF Holds
<1>2. h \in Seq(E) /\ Len(h) = m
  BY <1>1, SeqDef, LenProperties
<1>3. DOMAIN h = 1 .. m
  BY <1>1
<1>. QED
  BY <1>1, <1>2, <1>3, SeqIs DEF ToSet

LEMMA PushHolds ==
  ASSUME NEW m \in Nat, NEW E, Numbered(E), NEW S, NEW h, Holds(h, m, E, S), Ordered(h, m),
         NEW r \in E, r \notin S
  PROVE  Holds(Push(h, r), m + 1, E, S \union {r}) /\ Ordered(Push(h, r), m + 1)
<1>. DEFINE T == S \union {r}
<1>1. h \in Seq(E) /\ IsSeq(h) /\ Len(h) = m /\ DOMAIN h = 1 .. m /\ S = {h[i] : i \in 1 .. m}
  BY HeapIsSeq
<1>2. PICK k : k = m + 1
  OBVIOUS
<1>3. PICK s : s = [heap |-> Append(h, r), at |-> Len(h) + 1]
  OBVIOUS
<1>4. PICK f : IsLoop(f, "lift", 0, s, k) /\ Push(h, r) = f[k].heap
  BY <1>1, <1>2, <1>3, PushIs
<1>5. f[0] = s /\ \A n \in 0 .. k - 1 : f[n + 1] = Lifted(f[n])
  <2>1. k \in Nat /\ IsLoop(f, "lift", 0, s, k)
    BY <1>2, <1>4
  <2>2. \A x, n : StepOf("lift", 0, x, n) = Lifted(x)
    BY DEF StepOf
  <2>3. f[0] = s /\ \A n \in 0 .. k - 1 : f[n + 1] = StepOf("lift", 0, f[n], n + 1)
    BY <2>1, LoopIs
  <2>. QED
    BY <2>2, <2>3
<1>6. Holds(s.heap, k, E, T) /\ Lifting(s.heap, s.at, k) /\ s.at = k
  <2>1. PICK g : g = Append(h, r)
    OBVIOUS
  <2>2. s.heap = g /\ s.at = k
    BY <1>1, <1>2, <1>3, <2>1
  <2>3. /\ g \in Seq(E) /\ Len(g) = k /\ DOMAIN g = 1 .. k /\ ToSet(g) = S \union {r}
        /\ g[k] = r /\ \A i \in 1 .. m : g[i] = h[i]
    <3>1. g \in Seq(E) /\ Len(g) = k /\ g[k] = r /\ \A i \in 1 .. m : g[i] = h[i]
      BY <1>1, <1>2, <2>1, AppendProperties
    <3>2. DOMAIN g = 1 .. k
      BY <3>1, LenProperties
    <3>3. \A i \in 1 .. k : i = k \/ i \in 1 .. m
      BY <1>2
    <3>4. k \in 1 .. k /\ \A i \in 1 .. m : i \in 1 .. k
      BY <1>2
    <3>5. ToSet(g) = {g[i] : i \in 1 .. k}
      BY <3>2 DEF ToSet
    <3>6. ToSet(g) = S \union {r}
      BY <1>1, <3>1, <3>3, <3>4, <3>5
    <3>. QED
      BY <3>1, <3>2, <3>6
  <2>4. g \in [1 .. k -> E]
    BY <2>3, LenProperties
  <2>5. IsInjective(g)
    <3>1. \A i, j \in 1 .. m : h[i] = h[j] => i = j
      BY <1>1 DEF Holds, IsInjective
    <3>2. \A i \in 1 .. m : h[i] # r
      BY <1>1
    <3>3. \A i \in 1 .. k : i = k \/ i \in 1 .. m
      BY <1>2
    <3>4. ASSUME NEW i \in 1 .. k, NEW j \in 1 .. k, g[i] = g[j] PROVE i = j
      BY <2>3, <3>1, <3>2, <3>3, <3>4
    <3>. QED
      BY <2>3, <3>4 DEF IsInjective
  <2>6. Holds(g, k, E, T)
    BY <2>3, <2>4, <2>5 DEF Holds
  <2>7. Lifting(g, k, k)
    <3>1. ASSUME NEW i \in 2 .. k, i # k PROVE g[i \div 2].dist >= g[i].dist
      <4>1. i \in 2 .. m /\ i \in 1 .. m
        BY <1>2, <3>1
      <4>2. i \div 2 \in 1 .. m
        BY <4>1, HalfIs
      <4>3. h[i \div 2].dist >= h[i].dist
        BY <4>1 DEF Ordered
      <4>. QED
        BY <2>3, <4>1, <4>2, <4>3
    <3>2. ASSUME NEW i \in 2 .. k PROVE i \div 2 # k
      BY <1>2, HalfIs
    <3>3. k \in 1 .. k
      BY <1>2
    <3>. QED
      BY <3>1, <3>2, <3>3 DEF Lifting
  <2>. QED
    BY <2>2, <2>6, <2>7
<1>. DEFINE Inv(x, n) == /\ Holds(x.heap, k, E, T) /\ Lifting(x.heap, x.at, k)
                         /\ x.at + n <= k \/ (Lifted(x) = x /\ Ordered(x.heap, k))
            Good == {n \in Nat : n <= k => Inv(f[n], n)}
<1>7. 0 \in Good
  <2>1. Inv(s, 0)
    BY <1>2, <1>6
  <2>. QED
    BY <1>5, <2>1
<1>8. ASSUME NEW n \in Good, n \in Nat PROVE n + 1 \in Good
  <2>. SUFFICES ASSUME n + 1 <= k PROVE Inv(f[n + 1], n + 1)
    BY <1>8
  <2>1. PICK x, y : x = f[n] /\ y = f[n + 1]
    OBVIOUS
  <2>2. Inv(x, n) /\ y = Lifted(x)
    BY <1>2, <1>5, <1>8, <2>1
  <2>3. /\ Holds(y.heap, k, E, T) /\ Lifting(y.heap, y.at, k)
        /\ y.at < x.at \/ (y = x /\ Ordered(y.heap, k))
    BY <1>2, <2>2, LiftedKeeps
  <2>4. x.at \in 1 .. k /\ y.at \in 1 .. k
    BY <2>2, <2>3 DEF Lifting
  <2>5. y.at + (n + 1) <= k \/ (Lifted(y) = y /\ Ordered(y.heap, k))
    BY <1>2, <1>8, <2>2, <2>3, <2>4
  <2>. HIDE DEF T
  <2>6. Inv(y, n + 1)
    BY <2>3, <2>5
  <2>. QED
    BY <2>1, <2>6
<1>. HIDE DEF Good
<1>9. Nat \subseteq Good
  BY <1>7, <1>8, Induction
<1>. PICK x : x = f[k]
  OBVIOUS
<1>10. Inv(x, k)
  <2>1. k \in Good
    BY <1>2, <1>9
  <2>. HIDE DEF Inv
  <2>. QED
    BY <1>2, <2>1 DEF Good
<1>11. x.at \in 1 .. k
  BY <1>10 DEF Lifting
<1>. HIDE DEF T
<1>12. Holds(x.heap, k, E, T) /\ Ordered(x.heap, k)
  BY <1>2, <1>10, <1>11
<1>. QED
  BY <1>2, <1>4, <1>12 DEF T

LEMMA ReplaceTopHolds ==
  ASSUME NEW m \in Nat \ {0}, NEW E, Numbered(E), NEW S, NEW h, Holds(h, m, E, S), Ordered(h, m),
         NEW r \in E, r \notin S
  PROVE  /\ Holds(ReplaceTop(h, r), m, E, (S \ {h[1]}) \union {r})
         /\ Ordered(ReplaceTop(h, r), m)
<1>. DEFINE T == (S \ {h[1]}) \union {r}
<1>1. h \in Seq(E) /\ IsSeq(h) /\ Len(h) = m /\ DOMAIN h = 1 .. m /\ S = {h[i] : i \in 1 .. m}
  BY HeapIsSeq
<1>2. PICK s : s = [heap |-> [h EXCEPT ![1] = r], at |-> 1]
  OBVIOUS
<1>3. PICK f : IsLoop(f, "sink", 0, s, m) /\ ReplaceTop(h, r) = f[m].heap
  BY <1>1, <1>2, ReplaceTopIs, SMTT(30)
<1>4. f[0] = s /\ \A n \in 0 .. m - 1 : f[n + 1] = Sunk(f[n])
  <2>1. m \in Nat /\ IsLoop(f, "sink", 0, s, m)
    BY <1>3
  <2>2. \A x, n : StepOf("sink", 0, x, n) = Sunk(x)
    BY DEF StepOf
  <2>3. f[0] = s /\ \A n \in 0 .. m - 1 : f[n + 1] = StepOf("sink", 0, f[n], n + 1)
    BY <2>1, LoopIs
  <2>. QED
    BY <2>2, <2>3
<1>5. Holds(s.heap, m, E, T) /\ Sinking(s.heap, s.at, m) /\ s.at = 1
  <2>1. PICK g : g = [h EXCEPT ![1] = r]
    OBVIOUS
  <2>2. s.heap = g /\ s.at = 1
    BY <1>2, <2>1
  <2>3. h \in [1 .. m -> E] /\ 1 \in 1 .. m
    BY DEF Holds
  <2>4. g \in [1 .. m -> E] /\ g[1] = r /\ DOMAIN g = 1 .. m /\ \A i \in 2 .. m : i \in 1 .. m /\ g[i] = h[i]
    BY <2>1, <2>3
  <2>5. \A i \in 1 .. m : i = 1 \/ i \in 2 .. m
    OBVIOUS
  <2>6. \A i, j \in 1 .. m : h[i] = h[j] => i = j
    BY <1>1 DEF Holds, IsInjective
  <2>7. \A i \in 1 .. m : h[i] # r
    BY <1>1
  <2>8. IsInjective(g)
    <3>1. ASSUME NEW i \in 1 .. m, NEW j \in 1 .. m, g[i] = g[j] PROVE i = j
      BY <2>4, <2>5, <2>6, <2>7, <3>1
    <3>. QED
      BY <2>4, <3>1 DEF IsInjective
  <2>9. ToSet(g) = T
    <3>1. ToSet(g) = {g[i] : i \in 1 .. m}
      BY <2>4 DEF ToSet
    <3>2. \A i \in 1 .. m : g[i] \in T
      <4>1. \A i \in 2 .. m : h[i] # h[1] /\ h[i] \in S
        BY <1>1, <2>3, <2>4, <2>6
      <4>. QED
        BY <2>4, <2>5, <4>1
    <3>3. \A e \in T : \E i \in 1 .. m : g[i] = e
      <4>1. ASSUME NEW e \in T PROVE \E i \in 1 .. m : g[i] = e
        <5>1. CASE e = r
          BY <2>3, <2>4, <5>1
        <5>2. CASE e # r
          <6>1. PICK i \in 1 .. m : h[i] = e /\ e # h[1]
            BY <1>1, <5>2
          <6>. QED
            BY <2>4, <2>5, <6>1
        <5>. QED
          BY <5>1, <5>2
      <4>. QED
        BY <4>1
    <3>. HIDE DEF T
    <3>4. ToSet(g) \subseteq T
      BY <3>1, <3>2
    <3>5. T \subseteq ToSet(g)
      BY <3>1, <3>3
    <3>. QED
      BY <3>4, <3>5
  <2>10. Holds(g, m, E, T)
    BY <2>4, <2>8, <2>9 DEF Holds
  <2>11. Sinking(g, 1, m)
    <3>1. ASSUME NEW i \in 2 .. m, i \div 2 # 1 PROVE g[i \div 2].dist >= g[i].dist
      <4>1. i \div 2 \in 2 .. m
        BY <3>1, HalfIs
      <4>2. h[i \div 2].dist >= h[i].dist
        BY DEF Ordered
      <4>. QED
        BY <2>4, <4>1, <4>2
    <3>. QED
      BY <2>3, <3>1 DEF Sinking
  <2>. QED
    BY <2>2, <2>10, <2>11
<1>. DEFINE Inv(x, n) == /\ Holds(x.heap, m, E, T) /\ Sinking(x.heap, x.at, m)
                         /\ x.at > n \/ (Sunk(x) = x /\ Ordered(x.heap, m))
            Good == {n \in Nat : n <= m => Inv(f[n], n)}
<1>6. 0 \in Good
  <2>1. Inv(s, 0)
    BY <1>5
  <2>. QED
    BY <1>4, <2>1
<1>7. ASSUME NEW n \in Good, n \in Nat PROVE n + 1 \in Good
  <2>. SUFFICES ASSUME n + 1 <= m PROVE Inv(f[n + 1], n + 1)
    BY <1>7
  <2>1. PICK x, y : x = f[n] /\ y = f[n + 1]
    OBVIOUS
  <2>2. Inv(x, n) /\ y = Sunk(x)
    BY <1>4, <1>7, <2>1
  <2>3. /\ Holds(y.heap, m, E, T) /\ Sinking(y.heap, y.at, m)
        /\ y.at > x.at \/ (y = x /\ Ordered(y.heap, m))
    BY <2>2, SunkKeeps
  <2>4. x.at \in 1 .. m /\ y.at \in 1 .. m
    BY <2>2, <2>3 DEF Sinking
  <2>5. y.at > n + 1 \/ (Sunk(y) = y /\ Ordered(y.heap, m))
    BY <1>7, <2>2, <2>3, <2>4
  <2>. HIDE DEF T
  <2>6. Inv(y, n + 1)
    BY <2>3, <2>5
  <2>. QED
    BY <2>1, <2>6
<1>. HIDE DEF Good
<1>8. Nat \subseteq Good
  BY <1>6, <1>7, Induction
<1>. PICK x : x = f[m]
  OBVIOUS
<1>9. Inv(x, m)
  <2>1. m \in Good
    BY <1>8
  <2>. HIDE DEF Inv
  <2>. QED
    BY <2>1 DEF Good
<1>10. x.at \in 1 .. m
  BY <1>9 DEF Sinking
<1>. HIDE DEF T
<1>11. Holds(x.heap, m, E, T) /\ Ordered(x.heap, m)
  BY <1>9, <1>10
<1>. QED
  BY <1>3, <1>11 DEF T

-----------------------------------------------------------------------------
(***************************************************************************)
(* The heap keeps the topK nearest of what it was offered.                 *)
(***************************************************************************)
Keeps(h, E, S, topK) ==
  /\ S \subseteq E
  /\ \E T \in SUBSET S, m \in 0 .. topK :
       /\ Holds(h, m, E, T) /\ Ordered(h, m)
       /\ \A e \in S \ T : m = topK /\ \A x \in T : x.dist <= e.dist

LEMMA NothingKept == ASSUME NEW E, NEW topK \in Nat PROVE Keeps(<<>>, E, {}, topK)
<1>1. Holds(<<>>, 0, E, {}) /\ Ordered(<<>>, 0)
  <2>1. <<>> \in [1 .. 0 -> E] /\ DOMAIN <<>> = {}
    BY EmptySeq, SeqDef
  <2>. QED
    BY <2>1 DEF Holds, Ordered, ToSet, IsInjective
<1>2. 0 \in 0 .. topK /\ {} \in SUBSET {}
  OBVIOUS
<1>. QED
  BY <1>1, <1>2 DEF Keeps

LEMMA OfferedKeeps ==
  ASSUME NEW E, Numbered(E), NEW S, NEW topK \in Nat \ {0}, NEW h, Keeps(h, E, S, topK), NEW r \in E, r \notin S
  PROVE  Keeps(Offered(h, r, topK), E, S \union {r}, topK)
<1>1. PICK T \in SUBSET S, m \in 0 .. topK :
        /\ Holds(h, m, E, T) /\ Ordered(h, m)
        /\ \A e \in S \ T : m = topK /\ \A x \in T : x.dist <= e.dist
  BY DEF Keeps
<1>2. m \in Nat /\ Len(h) = m /\ T = {h[i] : i \in 1 .. m} /\ r \notin T
  BY <1>1, HeapIsSeq
<1>3. S \subseteq E /\ S \union {r} \subseteq E /\ \A e \in S \union {r} : e.dist \in Nat
  BY DEF Keeps, Numbered
<1>4. PICK g : g = Offered(h, r, topK)
  OBVIOUS
<1>5. CASE m < topK
  <2>1. T = S
    BY <1>1, <1>5
  <2>2. g = Push(h, r)
    BY <1>2, <1>4, <1>5 DEF Offered
  <2>3. Holds(g, m + 1, E, S \union {r}) /\ Ordered(g, m + 1)
    BY <1>1, <1>2, <2>1, <2>2, PushHolds
  <2>4. m + 1 \in 0 .. topK
    BY <1>2, <1>5
  <2>5. S \union {r} \in SUBSET (S \union {r}) /\ (S \union {r}) \ (S \union {r}) = {}
    OBVIOUS
  <2>. QED
    BY <1>3, <1>4, <2>3, <2>4, <2>5 DEF Keeps
<1>6. CASE m = topK
  <2>1. h[1] \in T /\ h[1] \in S /\ \A x \in T : x.dist <= h[1].dist
    <3>1. 1 \in 1 .. m
      BY <1>6
    <3>2. h \in [1 .. m -> E]
      BY <1>1 DEF Holds
    <3>3. \A i \in 1 .. m : h[1].dist >= h[i].dist
      BY <1>1, <1>2, <3>2, TopIsFarthest
    <3>4. h[1] \in T
      BY <1>2, <3>1
    <3>5. \A i \in 1 .. m : h[i] \in E /\ h[1] \in E /\ h[i].dist <= h[1].dist
      BY <3>1, <3>2, <3>3 DEF Numbered
    <3>. QED
      BY <1>2, <3>4, <3>5
  <2>2. CASE r.dist < h[1].dist
    <3>1. g = ReplaceTop(h, r)
      BY <1>2, <1>4, <1>6, <2>2 DEF Offered
    <3>2. PICK U : U = (T \ {h[1]}) \union {r}
      OBVIOUS
    <3>3. Holds(g, m, E, U) /\ Ordered(g, m)
      BY <1>1, <1>2, <1>6, <3>1, <3>2, ReplaceTopHolds
    <3>4. ASSUME NEW e \in (S \union {r}) \ U, NEW x \in U PROVE x.dist <= e.dist
      <4>1. x.dist <= h[1].dist /\ x.dist \in Nat /\ h[1].dist \in Nat /\ e.dist \in Nat
        BY <1>3, <2>1, <2>2, <3>2
      <4>2. e = h[1] \/ e \in S \ T
        BY <3>2
      <4>3. e \in S \ T => h[1].dist <= e.dist
        BY <1>1, <2>1
      <4>. QED
        BY <4>1, <4>2, <4>3
    <3>5. U \in SUBSET (S \union {r}) /\ m \in 0 .. topK
      BY <3>2
    <3>. QED
      BY <1>3, <1>4, <1>6, <3>3, <3>4, <3>5 DEF Keeps
  <2>3. CASE ~ (r.dist < h[1].dist)
    <3>1. g = h
      BY <1>2, <1>4, <1>6, <2>3 DEF Offered
    <3>2. ASSUME NEW e \in (S \union {r}) \ T, NEW x \in T PROVE x.dist <= e.dist
      <4>1. e \in S \ T => x.dist <= e.dist
        BY <1>1
      <4>2. x.dist <= h[1].dist /\ x.dist \in Nat /\ h[1].dist \in Nat /\ r.dist \in Nat
        BY <1>3, <2>1
      <4>3. x.dist <= r.dist
        BY <2>3, <4>2
      <4>. QED
        BY <4>1, <4>3
    <3>3. T \in SUBSET (S \union {r})
      OBVIOUS
    <3>. QED
      BY <1>1, <1>3, <1>4, <1>6, <3>1, <3>2, <3>3 DEF Keeps
  <2>. QED
    BY <2>2, <2>3
<1>. QED
  BY <1>2, <1>5, <1>6

-----------------------------------------------------------------------------
(***************************************************************************)
(* A scan of the probed cells offers each stored vector of them once.      *)
(***************************************************************************)
TrainedIndex == quant \in Quantizers /\ IndexOK(DOMAIN quant.coarse, AllHandles, handles, lists, byHash)

Candidates(q, P) == {CandidateAt(q, p) : p \in P}

\* The positions in some cells.
InCells(C) == {p \in DOMAIN handles : handles[p].cell \in C}

LEMMA CandidateIs ==
  ASSUME IndexAssumption, TrainedIndex, NEW q \in Vectors(Subspaces), NEW p \in DOMAIN handles
  PROVE  /\ handles[p] \in AllHandles /\ p \in Nat
         /\ CandidateAt(q, p).pos = p /\ CandidateAt(q, p).dist = Adc(q, handles[p]) /\ Adc(q, handles[p]) \in Nat
<1>1. handles \in Seq(AllHandles)
  BY DEF TrainedIndex, IndexOK
<1>2. handles[p] \in AllHandles /\ p \in Nat
  BY <1>1, LenProperties
<1>3. Trained
  BY LearnedIsTrained DEF TrainedIndex
<1>4. Adc(q, handles[p]) \in Nat
  BY <1>2, <1>3, AdcIsNat
<1>. QED
  BY <1>2, <1>4 DEF CandidateAt

LEMMA CandidatesAre ==
  ASSUME IndexAssumption, TrainedIndex, NEW q \in Vectors(Subspaces)
  PROVE  Numbered(Candidates(q, DOMAIN handles))
BY CandidateIs DEF Candidates, Numbered

LEMMA ListsAre ==
  ASSUME TrainedIndex, NEW c \in DOMAIN quant.coarse
  PROVE  /\ c \in DOMAIN lists /\ Len(lists[c]) \in Nat /\ DOMAIN lists[c] = 1 .. Len(lists[c])
         /\ \A i \in 1 .. Len(lists[c]) : lists[c][i] \in DOMAIN handles
         /\ \A i, j \in 1 .. Len(lists[c]) : lists[c][i] = lists[c][j] => i = j
         /\ {lists[c][i] : i \in 1 .. Len(lists[c])} = InCells({c})
<1>1. c \in DOMAIN lists /\ lists[c] \in Seq(DOMAIN handles) /\ IsInjective(lists[c])
  BY DEF TrainedIndex, IndexOK
<1>2. /\ Len(lists[c]) \in Nat /\ DOMAIN lists[c] = 1 .. Len(lists[c])
      /\ \A i \in 1 .. Len(lists[c]) : lists[c][i] \in DOMAIN handles
  BY <1>1, LenProperties
<1>3. \A i, j \in 1 .. Len(lists[c]) : lists[c][i] = lists[c][j] => i = j
  BY <1>1, <1>2 DEF IsInjective
<1>4. \A p \in DOMAIN handles : p \in ToSet(lists[c]) <=> handles[p].cell = c
  BY DEF TrainedIndex, IndexOK
<1>5. ToSet(lists[c]) = {lists[c][i] : i \in 1 .. Len(lists[c])}
  BY <1>2 DEF ToSet
<1>6. ToSet(lists[c]) \subseteq DOMAIN handles
  BY <1>2, <1>5
<1>7. ToSet(lists[c]) = InCells({c})
  BY <1>4, <1>6 DEF InCells
<1>. QED
  BY <1>1, <1>2, <1>3, <1>5, <1>7

LEMMA ScanKeeps ==
  ASSUME IndexAssumption, TrainedIndex, NEW q \in Vectors(Subspaces), NEW topK \in Nat \ {0},
         NEW c \in DOMAIN quant.coarse, NEW P \in SUBSET DOMAIN handles, P \intersect InCells({c}) = {},
         NEW heap, Keeps(heap, Candidates(q, DOMAIN handles), Candidates(q, P), topK)
  PROVE  Keeps(ScanCell(heap, q, c, topK), Candidates(q, DOMAIN handles), Candidates(q, P \union InCells({c})), topK)
<1>. DEFINE E == Candidates(q, DOMAIN handles)
            m == Len(lists[c])
            Upto(n) == P \union {lists[c][i] : i \in 1 .. n}
<1>1. /\ m \in Nat /\ \A i \in 1 .. m : lists[c][i] \in DOMAIN handles
      /\ \A i, j \in 1 .. m : lists[c][i] = lists[c][j] => i = j
      /\ Upto(m) = P \union InCells({c})
      /\ \A i \in 1 .. m : lists[c][i] \notin P
  <2>1. /\ m \in Nat /\ \A i \in 1 .. m : lists[c][i] \in DOMAIN handles
        /\ \A i, j \in 1 .. m : lists[c][i] = lists[c][j] => i = j
        /\ {lists[c][i] : i \in 1 .. m} = InCells({c})
    BY ListsAre
  <2>. HIDE DEF m
  <2>2. \A i \in 1 .. m : lists[c][i] \in InCells({c})
    BY <2>1
  <2>3. \A i \in 1 .. m : lists[c][i] \notin P
    BY <2>2
  <2>. QED
    BY <2>1, <2>3
<1>0. m \in Nat
  BY <1>1
<1>2. PICK f : /\ IsLoop(f, "scan", [q |-> q, cell |-> c, topK |-> topK], heap, m)
               /\ ScanCell(heap, q, c, topK) = f[m]
  BY <1>1, ScanCellIs
<1>. HIDE DEF m
<1>3. f[0] = heap /\ \A n \in 0 .. m - 1 : f[n + 1] = Offered(f[n], CandidateAt(q, lists[c][n + 1]), topK)
  <2>1. PICK x : x = [q |-> q, cell |-> c, topK |-> topK]
    OBVIOUS
  <2>2. x.q = q /\ x.cell = c /\ x.topK = topK
    BY <2>1
  <2>3. f[0] = heap /\ \A n \in 0 .. m - 1 : f[n + 1] = StepOf("scan", x, f[n], n + 1)
    <3>1. m \in Nat /\ IsLoop(f, "scan", x, heap, m)
      BY <1>0, <1>2, <2>1
    <3>. HIDE DEF Upto
    <3>. QED
      BY <3>1, LoopIs
  <2>4. \A s, n : StepOf("scan", x, s, n) = Offered(s, CandidateAt(q, lists[c][n]), topK)
    BY <2>2 DEF StepOf
  <2>. QED
    BY <2>3, <2>4
<1>. DEFINE Good == {n \in Nat : n <= m => Keeps(f[n], E, Candidates(q, Upto(n)), topK)}
<1>4. 0 \in Good
  <2>1. Upto(0) = P
    OBVIOUS
  <2>. QED
    BY <1>3, <2>1
<1>5. ASSUME NEW n \in Good, n \in Nat PROVE n + 1 \in Good
  <2>. SUFFICES ASSUME n + 1 <= m PROVE Keeps(f[n + 1], E, Candidates(q, Upto(n + 1)), topK)
    BY <1>5
  <2>1. PICK p : p = lists[c][n + 1]
    OBVIOUS
  <2>2. n \in 0 .. m - 1 /\ n + 1 \in 1 .. m /\ p \in DOMAIN handles
    BY <1>1, <1>5, <2>1
  <2>3. p \notin Upto(n)
    <3>1. \A i \in 1 .. n : i \in 1 .. m /\ i # n + 1
      BY <1>1, <1>5, <2>2
    <3>2. \A i \in 1 .. n : lists[c][i] # p
      BY <1>1, <2>1, <2>2, <3>1
    <3>. QED
      BY <1>1, <2>1, <2>2, <3>2
  <2>4. Upto(n + 1) = Upto(n) \union {p}
    <3>1. \A i \in 1 .. n + 1 : i \in 1 .. n \/ i = n + 1
      BY <1>5
    <3>2. \A i \in 1 .. n : i \in 1 .. n + 1
      BY <1>5
    <3>3. n + 1 \in 1 .. n + 1
      BY <1>5
    <3>. QED
      BY <2>1, <3>1, <3>2, <3>3
  <2>5. Upto(n) \subseteq DOMAIN handles
    BY <1>1, <1>5, <2>2
  <2>. HIDE DEF Upto
  <2>6. CandidateAt(q, p) \in E /\ CandidateAt(q, p) \notin Candidates(q, Upto(n))
    <3>1. CandidateAt(q, p) \in E
      BY <2>2 DEF Candidates
    <3>2. ASSUME NEW o \in Upto(n) PROVE CandidateAt(q, o) # CandidateAt(q, p)
      <4>1. CandidateAt(q, o).pos = o /\ CandidateAt(q, p).pos = p
        BY <2>2, <2>5, CandidateIs
      <4>. QED
        BY <2>3, <4>1
    <3>. QED
      BY <3>1, <3>2 DEF Candidates
  <2>7. Candidates(q, Upto(n + 1)) = Candidates(q, Upto(n)) \union {CandidateAt(q, p)}
    BY <2>4 DEF Candidates
  <2>8. Keeps(f[n], E, Candidates(q, Upto(n)), topK)
    BY <1>1, <1>5, <2>2
  <2>9. Numbered(E)
    BY CandidatesAre
  <2>10. f[n + 1] = Offered(f[n], CandidateAt(q, p), topK)
    BY <1>3, <2>1, <2>2
  <2>. HIDE DEF E
  <2>. QED
    BY <2>6, <2>7, <2>8, <2>9, <2>10, OfferedKeeps
<1>. HIDE DEF Good
<1>6. Nat \subseteq Good
  BY <1>4, <1>5, Induction
<1>7. Keeps(f[m], E, Candidates(q, Upto(m)), topK)
  <2>1. m \in Good
    BY <1>0, <1>6
  <2>. HIDE DEF Upto, E
  <2>. QED
    BY <1>0, <2>1 DEF Good
<1>. QED
  BY <1>1, <1>2, <1>7

\* k is the length of m items cut to n.
CutTo(k, m, n) == m \in Nat /\ n \in Nat /\ k = IF n < m THEN n ELSE m

LEMMA CutIs ==
  ASSUME NEW s, IsSeq(s), NEW n, NEW k, CutTo(k, Len(s), n)
  PROVE  /\ k \in Nat /\ k <= n /\ k <= Len(s) /\ (k = n \/ k = Len(s))
         /\ IsSeq(Cut(s, n)) /\ Len(Cut(s, n)) = k /\ DOMAIN Cut(s, n) = 1 .. k
         /\ \A i \in 1 .. k : i \in 1 .. Len(s) /\ Cut(s, n)[i] = s[i]
<1>1. Len(s) \in Nat /\ n \in Nat /\ k = IF n < Len(s) THEN n ELSE Len(s)
  BY DEF CutTo
<1>2. k \in Nat /\ k <= n /\ k <= Len(s) /\ (k = n \/ k = Len(s)) /\ \A i \in 1 .. k : i \in 1 .. Len(s)
  BY <1>1
<1>3. PICK m : m = Len(s)
  OBVIOUS
<1>4. PICK t : t = [i \in 1 .. k |-> s[i]]
  OBVIOUS
<1>5. Cut(s, n) = t
  BY <1>1, <1>4 DEF Cut
<1>6. PICK S : S = {s[i] : i \in 1 .. k}
  OBVIOUS
<1>7. t \in [1 .. k -> S] /\ DOMAIN t = 1 .. k /\ \A i \in 1 .. k : t[i] = s[i]
  BY <1>4, <1>6
<1>8. t \in Seq(S) /\ Len(t) = k
  BY <1>2, <1>7, SeqDef, LenProperties
<1>9. IsSeq(t)
  BY <1>8, SeqIs
<1>. QED
  BY <1>2, <1>5, <1>7, <1>8, <1>9

LEMMA CellsFinite ==
  ASSUME IndexAssumption, TrainedIndex
  PROVE  IsFiniteSet(DOMAIN quant.coarse) /\ DOMAIN quant.coarse \subseteq Nat
<1>1. quant.coarse \in Seq(Coordinates)
  BY DEF IndexAssumption, TrainedIndex
<1>2. Len(quant.coarse) \in Nat /\ DOMAIN quant.coarse = 1 .. Len(quant.coarse)
  BY <1>1, LenProperties
<1>. QED
  BY <1>2, FS_Interval

LEMMA ProbeCellsAre ==
  ASSUME IndexAssumption, TrainedIndex, NEW q \in Vectors(Subspaces), NEW nprobe \in Nat,
         NEW cells, cells = ProbeCells(q, nprobe)
  PROVE  /\ Len(cells) \in Nat /\ DOMAIN cells = 1 .. Len(cells)
         /\ \A i \in 1 .. Len(cells) : cells[i] \in DOMAIN quant.coarse
         /\ \A i, j \in 1 .. Len(cells) : cells[i] = cells[j] => i = j
<1>. DEFINE C == DOMAIN quant.coarse
            dist == [c \in C |-> SqL2(quant.coarse[c], q)]
            tie == [c \in C |-> c]
<1>1. IsFiniteSet(C) /\ C \subseteq Nat
  BY CellsFinite
<1>2. dist \in [C -> Nat]
  <2>1. Trained /\ Subspaces \in Nat
    BY LearnedIsTrained DEF TrainedIndex, IndexAssumption
  <2>2. \A c \in C : SqL2(quant.coarse[c], q) \in Nat
    BY <2>1, DistanceIsNat DEF Trained
  <2>. QED
    BY <2>2
<1>3. tie \in [C -> Nat]
  BY <1>1
<1>4. cells = Cut(Sorted(dist, tie), nprobe)
  BY DEF ProbeCells
<1>. HIDE DEF C, dist, tie
<1>5. PICK n, r : n = Cardinality(C) /\ r = Sorted(dist, tie)
  OBVIOUS
<1>6. n \in Nat /\ r \in [1 .. n -> C] /\ IsInjective(r)
  BY <1>1, <1>2, <1>3, <1>5, SortedIs DEF SortsUpTo
<1>7. PICK k : k = IF nprobe < n THEN nprobe ELSE n
  OBVIOUS
<1>8. /\ k \in Nat /\ Len(cells) = k /\ DOMAIN cells = 1 .. k
      /\ \A i \in 1 .. k : i \in 1 .. n /\ cells[i] = r[i]
  <2>1. /\ k \in Nat /\ Len(Cut(r, nprobe)) = k /\ DOMAIN Cut(r, nprobe) = 1 .. k
        /\ \A i \in 1 .. k : i \in 1 .. n /\ Cut(r, nprobe)[i] = r[i]
    <3>1. r \in Seq(C)
      BY <1>6, SeqDef
    <3>2. IsSeq(r) /\ Len(r) = n
      BY <1>6, <3>1, SeqIs, LenProperties
    <3>3. CutTo(k, Len(r), nprobe)
      BY <1>6, <1>7, <3>2 DEF CutTo
    <3>. QED
      BY <3>2, <3>3, CutIs
  <2>. QED
    BY <1>4, <1>5, <2>1
<1>9. \A i, j \in 1 .. n : r[i] = r[j] => i = j
  BY <1>6 DEF IsInjective
<1>. QED
  BY <1>6, <1>8, <1>9 DEF C

LEMMA GatheredKeeps ==
  ASSUME IndexAssumption, TrainedIndex, NEW q \in Vectors(Subspaces), NEW topK \in Nat \ {0}, NEW nprobe \in Nat
  PROVE  Keeps(Gathered(q, nprobe, topK), Candidates(q, DOMAIN handles),
               Candidates(q, InCells(ToSet(ProbeCells(q, nprobe)))), topK)
<1>1. PICK cells : cells = ProbeCells(q, nprobe)
  OBVIOUS
<1>2. PICK m : m = Len(cells)
  OBVIOUS
<1>3. /\ m \in Nat /\ DOMAIN cells = 1 .. m
      /\ \A i \in 1 .. m : cells[i] \in DOMAIN quant.coarse
      /\ \A i, j \in 1 .. m : cells[i] = cells[j] => i = j
  <2>1. /\ Len(cells) \in Nat /\ DOMAIN cells = 1 .. Len(cells)
        /\ \A i \in 1 .. Len(cells) : cells[i] \in DOMAIN quant.coarse
        /\ \A i, j \in 1 .. Len(cells) : cells[i] = cells[j] => i = j
    BY <1>1, ProbeCellsAre
  <2>. QED
    BY <1>2, <2>1
<1>4. PICK f : /\ IsLoop(f, "probe", [q |-> q, cells |-> cells, topK |-> topK], <<>>, m)
               /\ Gathered(q, nprobe, topK) = f[m]
  BY <1>1, <1>2, <1>3, GatheredIs
<1>5. f[0] = <<>> /\ \A n \in 0 .. m - 1 : f[n + 1] = ScanCell(f[n], q, cells[n + 1], topK)
  <2>1. PICK x : x = [q |-> q, cells |-> cells, topK |-> topK]
    OBVIOUS
  <2>2. x.q = q /\ x.cells = cells /\ x.topK = topK
    BY <2>1
  <2>3. f[0] = <<>> /\ \A n \in 0 .. m - 1 : f[n + 1] = StepOf("probe", x, f[n], n + 1)
    <3>1. PICK e : e = <<>>
      OBVIOUS
    <3>2. m \in Nat /\ IsLoop(f, "probe", x, e, m)
      BY <1>3, <1>4, <2>1, <3>1
    <3>3. f[0] = e /\ \A n \in 0 .. m - 1 : f[n + 1] = StepOf("probe", x, f[n], n + 1)
      BY <3>2, LoopIs
    <3>. QED
      BY <3>1, <3>3
  <2>4. \A s, n : StepOf("probe", x, s, n) = ScanCell(s, q, cells[n], topK)
    BY <2>2 DEF StepOf
  <2>. QED
    BY <2>3, <2>4
<1>. DEFINE E == Candidates(q, DOMAIN handles)
            Upto(n) == InCells({cells[i] : i \in 1 .. n})
            Good == {n \in Nat : n <= m => Keeps(f[n], E, Candidates(q, Upto(n)), topK)}
<1>6. 0 \in Good
  <2>1. Candidates(q, Upto(0)) = {}
    <3>1. Upto(0) = {}
      BY DEF InCells
    <3>. QED
      BY <3>1 DEF Candidates
  <2>2. Keeps(<<>>, E, {}, topK)
    BY NothingKept
  <2>. QED
    BY <1>5, <2>1, <2>2
<1>7. ASSUME NEW n \in Good, n \in Nat PROVE n + 1 \in Good
  <2>. SUFFICES ASSUME n + 1 <= m PROVE Keeps(f[n + 1], E, Candidates(q, Upto(n + 1)), topK)
    BY <1>7
  <2>1. PICK c : c = cells[n + 1]
    OBVIOUS
  <2>2. n \in 0 .. m - 1 /\ n + 1 \in 1 .. m /\ c \in DOMAIN quant.coarse
    BY <1>3, <1>7, <2>1
  <2>3. c \notin {cells[i] : i \in 1 .. n}
    <3>1. \A i \in 1 .. n : i \in 1 .. m /\ i # n + 1
      BY <1>3, <1>7, <2>2
    <3>. QED
      BY <1>3, <2>1, <2>2, <3>1
  <2>4. {cells[i] : i \in 1 .. n + 1} = {cells[i] : i \in 1 .. n} \union {c}
    <3>1. \A i \in 1 .. n + 1 : i \in 1 .. n \/ i = n + 1
      BY <1>7
    <3>2. \A i \in 1 .. n : i \in 1 .. n + 1
      BY <1>7
    <3>3. n + 1 \in 1 .. n + 1
      BY <1>7
    <3>. QED
      BY <2>1, <3>1, <3>2, <3>3
  <2>5. Upto(n) \in SUBSET DOMAIN handles /\ Upto(n) \intersect InCells({c}) = {}
    BY <2>3 DEF InCells
  <2>6. Upto(n + 1) = Upto(n) \union InCells({c})
    BY <2>4 DEF InCells
  <2>7. Keeps(f[n], E, Candidates(q, Upto(n)), topK)
    BY <1>3, <1>7, <2>2
  <2>8. f[n + 1] = ScanCell(f[n], q, c, topK)
    BY <1>5, <2>1, <2>2
  <2>. PICK P, heap : P = Upto(n) /\ heap = f[n]
    OBVIOUS
  <2>9. P \in SUBSET DOMAIN handles /\ P \intersect InCells({c}) = {} /\ Keeps(heap, E, Candidates(q, P), topK)
    BY <2>5, <2>7
  <2>. HIDE DEF Upto
  <2>10. Keeps(ScanCell(heap, q, c, topK), E, Candidates(q, P \union InCells({c})), topK)
    BY <2>2, <2>9, ScanKeeps
  <2>. QED
    BY <2>6, <2>8, <2>10
<1>. HIDE DEF Good
<1>8. Nat \subseteq Good
  BY <1>6, <1>7, Induction
<1>9. Keeps(f[m], E, Candidates(q, Upto(m)), topK)
  <2>1. m \in Good
    BY <1>3, <1>8
  <2>. HIDE DEF Upto, E
  <2>. QED
    BY <1>3, <2>1 DEF Good
<1>10. {cells[i] : i \in 1 .. m} = ToSet(cells)
  BY <1>3 DEF ToSet
<1>. QED
  BY <1>1, <1>4, <1>9, <1>10

-----------------------------------------------------------------------------
(***************************************************************************)
(* The search by the quantised distance.                                   *)
(***************************************************************************)
\* The topK nearest of S, the nearest first.
Drains(d, E, S, topK) ==
  \E T \in SUBSET S, m \in 0 .. topK :
    /\ Holds(d, m, E, T) /\ \A i, j \in 1 .. m : i < j => d[i].dist <= d[j].dist
    /\ \A e \in S \ T : m = topK /\ \A x \in T : x.dist <= e.dist

LEMMA DrainedIs ==
  ASSUME NEW E, Numbered(E), NEW S, NEW topK \in Nat, NEW h, Keeps(h, E, S, topK),
         NEW d, d = Drained(h)
  PROVE  Drains(d, E, S, topK)
<1>1. PICK T \in SUBSET S, m \in 0 .. topK :
        Holds(h, m, E, T) /\ \A e \in S \ T : m = topK /\ \A x \in T : x.dist <= e.dist
  BY DEF Keeps
<1>2. m \in Nat /\ DOMAIN h = 1 .. m /\ h \in [1 .. m -> E] /\ T = {h[i] : i \in 1 .. m}
  <2>1. m \in Nat /\ Holds(h, m, E, T)
    BY <1>1
  <2>2. DOMAIN h = 1 .. m /\ T = {h[i] : i \in 1 .. m}
    BY <2>1, HeapIsSeq
  <2>. QED
    BY <2>1, <2>2 DEF Holds
<1>. DEFINE dist == [i \in DOMAIN h |-> h[i].dist]
            tie == [i \in DOMAIN h |-> h[i].pos]
<1>3. dist \in [1 .. m -> Nat] /\ tie \in [1 .. m -> Nat] /\ \A i \in 1 .. m : dist[i] = h[i].dist
  BY <1>2 DEF Numbered
<1>4. PICK r : r = Sorted(dist, tie)
  OBVIOUS
<1>5. d = [n \in DOMAIN r |-> h[r[n]]]
  BY <1>4 DEF Drained
<1>. HIDE DEF dist, tie
<1>6. IsFiniteSet(1 .. m) /\ m = Cardinality(1 .. m)
  BY <1>2, FS_Interval
<1>7. SortsUpTo(dist, tie, 1 .. m, m, r) /\ IsInjective(r)
  BY <1>3, <1>4, <1>6, SortedIs
<1>8. /\ r \in [1 .. m -> 1 .. m] /\ DOMAIN r = 1 .. m /\ \A x \in 1 .. m : \E i \in 1 .. m : r[i] = x
      /\ \A i, j \in 1 .. m : i < j => Before(dist, tie, r[i], r[j])
      /\ \A i, j \in 1 .. m : r[i] = r[j] => i = j
  BY <1>7 DEF SortsUpTo, IsInjective
<1>9. d \in [1 .. m -> E] /\ DOMAIN d = 1 .. m /\ \A i \in 1 .. m : r[i] \in 1 .. m /\ d[i] = h[r[i]]
  <2>1. \A i \in 1 .. m : r[i] \in 1 .. m /\ h[r[i]] \in E
    BY <1>2, <1>8
  <2>2. d = [i \in 1 .. m |-> h[r[i]]]
    BY <1>5, <1>8
  <2>. QED
    BY <2>1, <2>2
<1>10. IsInjective(d)
  <2>1. \A i, j \in 1 .. m : h[i] = h[j] => i = j
    BY <1>1, <1>2 DEF Holds, IsInjective
  <2>2. ASSUME NEW i \in 1 .. m, NEW j \in 1 .. m, d[i] = d[j] PROVE i = j
    <3>1. r[i] = r[j]
      BY <1>9, <2>1, <2>2
    <3>. QED
      BY <1>8, <3>1
  <2>. QED
    BY <1>9, <2>2 DEF IsInjective
<1>11. ToSet(d) = T
  <2>1. ToSet(d) = {d[i] : i \in 1 .. m}
    BY <1>9 DEF ToSet
  <2>2. \A i \in 1 .. m : d[i] \in T
    BY <1>2, <1>9
  <2>3. \A e \in T : \E i \in 1 .. m : d[i] = e
    BY <1>2, <1>8, <1>9
  <2>4. ToSet(d) \subseteq T
    BY <2>1, <2>2
  <2>5. T \subseteq ToSet(d)
    BY <2>1, <2>3
  <2>. QED
    BY <2>4, <2>5
<1>12. ASSUME NEW i \in 1 .. m, NEW j \in 1 .. m, i < j PROVE d[i].dist <= d[j].dist
  <2>1. Before(dist, tie, r[i], r[j]) /\ r[i] \in 1 .. m /\ r[j] \in 1 .. m
    <3>1. \A a, b \in 1 .. m : a < b => Before(dist, tie, r[a], r[b])
      BY <1>8
    <3>2. Before(dist, tie, r[i], r[j])
      BY <1>12, <3>1, Zenon
    <3>. QED
      BY <1>9, <3>2
  <2>2. dist[r[i]] <= dist[r[j]]
    <3>1. dist[r[i]] \in Nat /\ dist[r[j]] \in Nat
      BY <1>3, <2>1
    <3>2. dist[r[i]] < dist[r[j]] \/ dist[r[i]] = dist[r[j]]
      BY <2>1 DEF Before
    <3>. QED
      BY <3>1, <3>2
  <2>. QED
    BY <1>3, <1>9, <2>1, <2>2
<1>13. Holds(d, m, E, T)
  BY <1>9, <1>10, <1>11 DEF Holds
<1>. QED
  BY <1>1, <1>12, <1>13 DEF Drains

LEMMA HashIs ==
  ASSUME IndexAssumption, TrainedIndex, NEW h \in DOMAIN byHash
  PROVE  /\ h \in Hashes /\ byHash[h] \in DOMAIN handles /\ handles[byHash[h]].hash = h
         /\ handles[byHash[h]] \in AllHandles
<1>1. PICK p \in DOMAIN handles : handles[p].hash = h /\ byHash[h] = p
  BY DEF TrainedIndex, IndexOK
<1>2. handles[p] \in AllHandles
  BY <1>1, LenProperties DEF TrainedIndex, IndexOK
<1>3. Trained
  BY LearnedIsTrained DEF TrainedIndex
<1>4. h \in Hashes
  BY <1>1, <1>2, <1>3, HandleIs DEF AllHandles
<1>. QED
  BY <1>1, <1>2, <1>4

LEMMA ScoreIs ==
  ASSUME IndexAssumption, TrainedIndex, NEW q \in Vectors(Subspaces), NEW st \in SUBSET DOMAIN byHash, NEW X
  PROVE  /\ DOMAIN Score(q, st, X) = st
         /\ \A h \in st : /\ Score(q, st, X)[h] = IF h \in X THEN SqL2(q, Point[h]) ELSE Adc(q, handles[byHash[h]])
                          /\ Score(q, st, X)[h] \in Nat
<1>1. ASSUME NEW h \in st
      PROVE  SqL2(q, Point[h]) \in Nat /\ Adc(q, handles[byHash[h]]) \in Nat
  <2>1. h \in Hashes /\ byHash[h] \in DOMAIN handles
    BY HashIs
  <2>2. Subspaces \in Nat /\ Point[h] \in Vectors(Subspaces)
    BY <2>1 DEF IndexAssumption, Coordinates, Vectors
  <2>. QED
    BY <2>1, <2>2, DistanceIsNat, CandidateIs
<1>. QED
  BY <1>1 DEF Score

LEMMA SearchIsBest ==
  ASSUME IndexAssumption, TrainedIndex, NEW q \in Vectors(Subspaces), NEW topK \in Nat \ {0}, NEW nprobe \in Nat
  PROVE  /\ IsSeq(Search(q, nprobe, topK))
         /\ AreBest(Search(q, nprobe, topK), topK, Score(q, Probed(q, nprobe), {}))
<1>1. PICK P, E, h, d, s, st, score :
        /\ P = InCells(ToSet(ProbeCells(q, nprobe))) /\ E = Candidates(q, DOMAIN handles)
        /\ h = Gathered(q, nprobe, topK) /\ d = Drained(h) /\ s = Search(q, nprobe, topK)
        /\ st = Probed(q, nprobe) /\ score = Score(q, st, {})
  OBVIOUS
<1>2. Keeps(h, E, Candidates(q, P), topK)
  BY <1>1, GatheredKeeps
<1>3. Numbered(E)
  BY <1>1, CandidatesAre
<1>4. PICK T \in SUBSET Candidates(q, P), m \in 0 .. topK :
        /\ Holds(d, m, E, T) /\ \A i, j \in 1 .. m : i < j => d[i].dist <= d[j].dist
        /\ \A e \in Candidates(q, P) \ T : m = topK /\ \A x \in T : x.dist <= e.dist
  <2>1. d = Drained(h) /\ topK \in Nat
    BY <1>1
  <2>2. Drains(d, E, Candidates(q, P), topK)
    BY <1>2, <1>3, <2>1, DrainedIs
  <2>. QED
    BY <2>2 DEF Drains
<1>5. m \in Nat /\ DOMAIN d = 1 .. m /\ T = {d[i] : i \in 1 .. m} /\ \A i, j \in 1 .. m : d[i] = d[j] => i = j
  <2>1. m \in Nat /\ Holds(d, m, E, T)
    BY <1>4
  <2>2. DOMAIN d = 1 .. m /\ T = {d[i] : i \in 1 .. m}
    BY <2>1, HeapIsSeq
  <2>3. \A i, j \in 1 .. m : d[i] = d[j] => i = j
    BY <2>1, <2>2 DEF Holds, IsInjective
  <2>. QED
    BY <2>1, <2>2, <2>3
<1>6. s = [n \in 1 .. m |-> [handle |-> handles[d[n].pos], dist |-> d[n].dist]]
  BY <1>1, <1>5 DEF Search
<1>7. IsSeq(s) /\ Len(s) = m /\ DOMAIN s = 1 .. m
  <2>1. PICK S : S = {s[i] : i \in 1 .. m}
    OBVIOUS
  <2>2. s \in [1 .. m -> S] /\ DOMAIN s = 1 .. m
    BY <1>6, <2>1
  <2>3. s \in Seq(S) /\ Len(s) = m
    BY <1>5, <2>2, SeqDef, LenProperties
  <2>. QED
    BY <2>2, <2>3, SeqIs
<1>8. P \subseteq DOMAIN handles /\ \A p \in P : handles[p].hash \in st /\ byHash[handles[p].hash] = p
  BY <1>1 DEF InCells, Probed, TrainedIndex, IndexOK
<1>9. st \subseteq DOMAIN byHash /\ \A g \in st : byHash[g] \in P /\ handles[byHash[g]].hash = g
  BY <1>1, HashIs DEF InCells, Probed
<1>10. DOMAIN score = st /\ \A g \in st : score[g] = Adc(q, handles[byHash[g]])
  BY <1>1, <1>9, ScoreIs
<1>11. \A p \in P : CandidateAt(q, p).pos = p /\ CandidateAt(q, p).dist = Adc(q, handles[p])
  BY <1>8, CandidateIs
<1>12. ASSUME NEW i \in 1 .. m
       PROVE  /\ d[i].pos \in P /\ s[i].handle.hash = handles[d[i].pos].hash /\ d[i] = CandidateAt(q, d[i].pos)
              /\ s[i].handle.hash \in st /\ byHash[s[i].handle.hash] = d[i].pos
              /\ s[i] = [handle |-> handles[byHash[s[i].handle.hash]], dist |-> score[s[i].handle.hash]]
              /\ s[i].dist = d[i].dist /\ s[i].dist = score[s[i].handle.hash]
  <2>1. d[i] \in Candidates(q, P)
    BY <1>4, <1>5
  <2>2. PICK p \in P : d[i] = CandidateAt(q, p)
    BY <2>1 DEF Candidates
  <2>3. d[i].pos = p /\ d[i].dist = Adc(q, handles[p])
    BY <1>11, <2>2
  <2>4. s[i] = [handle |-> handles[p], dist |-> d[i].dist]
    BY <1>6, <2>3
  <2>5. handles[p].hash \in st /\ byHash[handles[p].hash] = p
    BY <1>8
  <2>6. score[handles[p].hash] = d[i].dist
    BY <1>10, <2>3, <2>5
  <2>. QED
    BY <2>2, <2>3, <2>4, <2>5, <2>6
<1>13. ASSUME NEW i \in 1 .. m, NEW j \in 1 .. m, i < j
       PROVE  s[i].handle.hash # s[j].handle.hash /\ s[i].dist <= s[j].dist
  <2>1. s[i].dist <= s[j].dist
    <3>1. d[i].dist <= d[j].dist
      BY <1>4, <1>13
    <3>2. s[i].dist = d[i].dist /\ s[j].dist = d[j].dist
      BY <1>12
    <3>. QED
      BY <3>1, <3>2
  <2>2. ASSUME s[i].handle.hash = s[j].handle.hash PROVE FALSE
    <3>1. d[i].pos = d[j].pos
      <4>1. byHash[s[i].handle.hash] = d[i].pos /\ byHash[s[j].handle.hash] = d[j].pos
        BY <1>12
      <4>. QED
        BY <2>2, <4>1
    <3>2. d[i] = d[j]
      BY <1>12, <3>1
    <3>. QED
      BY <1>5, <1>13, <3>2
  <2>. QED
    BY <2>1, <2>2
<1>14. ASSUME NEW g \in st, \A i \in 1 .. m : s[i].handle.hash # g
       PROVE  m = topK /\ score[g] >= s[topK].dist
  <2>1. PICK p : p = byHash[g]
    OBVIOUS
  <2>2. p \in P /\ handles[p].hash = g
    BY <1>9, <2>1
  <2>3. PICK e : e = CandidateAt(q, p)
    OBVIOUS
  <2>4. e \in Candidates(q, P) /\ e.pos = p /\ e.dist = score[g]
    BY <1>10, <1>11, <2>1, <2>2, <2>3 DEF Candidates
  <2>5. e \notin T
    <3>1. ASSUME NEW i \in 1 .. m, d[i] = e PROVE FALSE
      BY <1>12, <1>14, <2>2, <2>4, <3>1
    <3>. QED
      BY <1>5, <3>1
  <2>6. m = topK /\ \A x \in T : x.dist <= e.dist
    BY <1>4, <2>4, <2>5
  <2>7. topK \in 1 .. m
    BY <2>6
  <2>8. s[topK].dist = d[topK].dist /\ d[topK] \in T
    BY <1>5, <1>12, <2>7
  <2>9. s[topK].dist <= score[g]
    BY <2>4, <2>6, <2>8
  <2>10. s[topK].dist \in Nat /\ score[g] \in Nat
    <3>1. score[g] \in Nat
      BY <1>1, <1>9, ScoreIs
    <3>2. s[topK].dist \in Nat
      <4>1. PICK o : o = s[topK].handle.hash
        OBVIOUS
      <4>2. o \in st /\ s[topK].dist = score[o]
        BY <1>12, <2>7, <4>1
      <4>. QED
        BY <1>1, <1>9, <4>2, ScoreIs
    <3>. QED
      BY <3>1, <3>2
  <2>. QED
    BY <2>6, <2>9, <2>10
<1>15. AreBest(s, topK, score)
  <2>1. {s[i].handle.hash : i \in DOMAIN s} \subseteq DOMAIN score /\ Len(s) <= topK
    BY <1>4, <1>7, <1>10, <1>12
  <2>2. \A g \in DOMAIN score \ {s[i].handle.hash : i \in DOMAIN s} : Len(s) = topK /\ score[g] >= s[topK].dist
    BY <1>7, <1>10, <1>14
  <2>. QED
    BY <1>7, <1>12, <1>13, <2>1, <2>2 DEF AreBest
<1>. QED
  BY <1>1, <1>7, <1>15

-----------------------------------------------------------------------------
(***************************************************************************)
(* What the other searches make of it: the same, place by place.           *)
(***************************************************************************)
HitOf(score, g) == [handle |-> handles[byHash[g]], dist |-> score[g]]

BestHits(s, m, n, score) ==
  /\ m \in Nat /\ m <= n
  /\ \A i \in 1 .. m : s[i].handle.hash \in DOMAIN score /\ s[i] = HitOf(score, s[i].handle.hash)
  /\ \A i, j \in 1 .. m : i < j => s[i].handle.hash # s[j].handle.hash /\ s[i].dist <= s[j].dist
  /\ \A g \in DOMAIN score : (\A i \in 1 .. m : s[i].handle.hash # g) => m = n /\ score[g] >= s[n].dist

LEMMA BestHitsAre ==
  ASSUME NEW s, IsSeq(s), NEW m, m = Len(s), NEW n, NEW score
  PROVE  AreBest(s, n, score) <=> BestHits(s, m, n, score)
<1>1. m \in Nat /\ DOMAIN s = 1 .. m
  BY SeqShape
<1>2. ASSUME AreBest(s, n, score) PROVE BestHits(s, m, n, score)
  <2>1. m <= n /\ \A i \in 1 .. m : s[i].handle.hash \in DOMAIN score
    BY <1>1, <1>2 DEF AreBest
  <2>2. \A i \in 1 .. m : s[i] = HitOf(score, s[i].handle.hash)
    BY <1>1, <1>2 DEF AreBest, HitOf
  <2>3. \A i, j \in 1 .. m : i < j => s[i].handle.hash # s[j].handle.hash /\ s[i].dist <= s[j].dist
    BY <1>1, <1>2 DEF AreBest
  <2>4. ASSUME NEW g \in DOMAIN score, \A i \in 1 .. m : s[i].handle.hash # g
        PROVE  m = n /\ score[g] >= s[n].dist
    <3>1. g \in DOMAIN score \ {s[i].handle.hash : i \in DOMAIN s}
      BY <1>1, <2>4
    <3>. QED
      BY <1>2, <3>1 DEF AreBest
  <2>. QED
    BY <1>1, <2>1, <2>2, <2>3, <2>4 DEF BestHits
<1>3. ASSUME BestHits(s, m, n, score) PROVE AreBest(s, n, score)
  <2>1. {s[i].handle.hash : i \in DOMAIN s} \subseteq DOMAIN score /\ Len(s) <= n
    BY <1>1, <1>3 DEF BestHits
  <2>2. \A i \in DOMAIN s : s[i] = [handle |-> handles[byHash[s[i].handle.hash]], dist |-> score[s[i].handle.hash]]
    BY <1>1, <1>3 DEF BestHits, HitOf
  <2>3. \A i, j \in DOMAIN s : i < j => s[i].handle.hash # s[j].handle.hash /\ s[i].dist <= s[j].dist
    BY <1>1, <1>3 DEF BestHits
  <2>4. ASSUME NEW g \in DOMAIN score \ {s[i].handle.hash : i \in DOMAIN s}
        PROVE  Len(s) = n /\ score[g] >= s[n].dist
    <3>1. \A i \in 1 .. m : s[i].handle.hash # g
      BY <1>1
    <3>. QED
      BY <1>3, <3>1 DEF BestHits
  <2>. QED
    BY <2>1, <2>2, <2>3, <2>4 DEF AreBest
<1>. QED
  BY <1>2, <1>3

ScoresAreNat(score) == \A g \in DOMAIN score : score[g] \in Nat

LEMMA HitIs ==
  ASSUME NEW s, NEW m, NEW n, NEW score, BestHits(s, m, n, score), ScoresAreNat(score), NEW i \in 1 .. m
  PROVE  /\ s[i].handle.hash \in DOMAIN score /\ s[i].dist = score[s[i].handle.hash] /\ s[i].dist \in Nat
         /\ s[i] = HitOf(score, s[i].handle.hash)
<1>1. PICK g : g = s[i].handle.hash
  OBVIOUS
<1>2. g \in DOMAIN score /\ s[i] = HitOf(score, g)
  BY <1>1 DEF BestHits
<1>3. s[i].dist = score[g] /\ score[g] \in Nat
  BY <1>2 DEF HitOf, ScoresAreNat
<1>. QED
  BY <1>1, <1>2, <1>3

LEMMA CutIsBest ==
  ASSUME NEW s, IsSeq(s), NEW n, NEW topK, NEW score, AreBest(s, n, score), ScoresAreNat(score),
         topK \in Nat \ {0} /\ n \in Nat /\ topK <= n
  PROVE  IsSeq(Cut(s, topK)) /\ AreBest(Cut(s, topK), topK, score)
<1>1. PICK m, t : m = Len(s) /\ t = Cut(s, topK)
  OBVIOUS
<1>2. BestHits(s, m, n, score) /\ m \in Nat
  <2>1. BestHits(s, m, n, score)
    BY <1>1, BestHitsAre
  <2>. QED
    BY <2>1 DEF BestHits
<1>3. PICK k : k = IF topK < m THEN topK ELSE m
  OBVIOUS
<1>4. /\ k \in Nat /\ k <= topK /\ k <= m /\ (k = topK \/ k = m)
      /\ IsSeq(t) /\ Len(t) = k /\ \A i \in 1 .. k : i \in 1 .. m /\ t[i] = s[i]
  <2>1. CutTo(k, Len(s), topK)
    BY <1>1, <1>2, <1>3 DEF CutTo
  <2>2. /\ k \in Nat /\ k <= topK /\ k <= Len(s) /\ (k = topK \/ k = Len(s))
        /\ IsSeq(Cut(s, topK)) /\ Len(Cut(s, topK)) = k
        /\ \A i \in 1 .. k : i \in 1 .. Len(s) /\ Cut(s, topK)[i] = s[i]
    BY <2>1, CutIs
  <2>. QED
    BY <1>1, <2>2
<1>5. /\ \A i \in 1 .. m : s[i].handle.hash \in DOMAIN score /\ s[i] = HitOf(score, s[i].handle.hash)
      /\ \A i, j \in 1 .. m : i < j => s[i].handle.hash # s[j].handle.hash /\ s[i].dist <= s[j].dist
      /\ \A g \in DOMAIN score : (\A i \in 1 .. m : s[i].handle.hash # g) => m = n /\ score[g] >= s[n].dist
  BY <1>2 DEF BestHits
<1>6. \A i \in 1 .. m : s[i].dist = score[s[i].handle.hash] /\ s[i].dist \in Nat
  BY <1>2, HitIs
<1>7. ASSUME NEW g \in DOMAIN score, \A i \in 1 .. k : t[i].handle.hash # g
      PROVE  k = topK /\ score[g] >= t[topK].dist
  <2>0. score[g] \in Nat
    BY DEF ScoresAreNat
  <2>1. CASE \A i \in 1 .. m : s[i].handle.hash # g
    <3>1. m = n /\ score[g] >= s[n].dist
      BY <1>5, <2>1
    <3>2. k = topK /\ topK \in 1 .. m /\ n \in 1 .. m /\ t[topK] = s[topK] /\ topK \in 1 .. k
      BY <1>4, <3>1
    <3>3. s[topK].dist <= s[n].dist
      BY <1>5, <1>6, <3>1, <3>2
    <3>4. s[topK].dist \in Nat /\ s[n].dist \in Nat
      BY <1>6, <3>2
    <3>. QED
      BY <2>0, <3>1, <3>2, <3>3, <3>4
  <2>2. CASE \E i \in 1 .. m : s[i].handle.hash = g
    <3>1. PICK i \in 1 .. m : s[i].handle.hash = g
      BY <2>2
    <3>2. i \notin 1 .. k
      BY <1>4, <1>7, <3>1
    <3>3. k = topK /\ topK \in 1 .. m /\ topK < i /\ t[topK] = s[topK]
      BY <1>4, <3>2
    <3>4. s[topK].dist <= s[i].dist /\ s[i].dist = score[g] /\ s[topK].dist \in Nat
      BY <1>5, <1>6, <3>1, <3>3
    <3>. QED
      BY <2>0, <3>3, <3>4
  <2>. QED
    BY <2>1, <2>2
<1>8. BestHits(t, k, topK, score)
  <2>1. \A i \in 1 .. k : t[i].handle.hash \in DOMAIN score /\ t[i] = HitOf(score, t[i].handle.hash)
    BY <1>4, <1>5
  <2>2. \A i, j \in 1 .. k : i < j => t[i].handle.hash # t[j].handle.hash /\ t[i].dist <= t[j].dist
    BY <1>4, <1>5
  <2>. QED
    BY <1>4, <1>7, <2>1, <2>2 DEF BestHits
<1>. QED
  BY <1>1, <1>4, <1>8, BestHitsAre

-----------------------------------------------------------------------------
(***************************************************************************)
(* The search with residents. A tier takes at most its own number of hits  *)
(* from a deeper search, so enough candidates are left for every place.    *)
(***************************************************************************)
LEMMA AtMost ==
  ASSUME NEW A, NEW B, IsFiniteSet(B), NEW f \in [A -> B], \A x, y \in A : f[x] = f[y] => x = y
  PROVE  IsFiniteSet(A) /\ Cardinality(A) \in Nat /\ Cardinality(B) \in Nat /\ Cardinality(A) <= Cardinality(B)
<1>1. f \in Injection(A, B)
  BY DEF Injection, IsInjective
<1>2. IsFiniteSet(A) /\ Cardinality(A) <= Cardinality(B)
  BY <1>1, FS_Injection
<1>. QED
  BY <1>2, FS_CardinalityType

LEMMA LeftByTier ==
  ASSUME NEW s, IsSeq(s), NEW m, m = Len(s), NEW n, NEW score, BestHits(s, m, n, score),
         NEW tier, IsFiniteSet(tier), NEW adc, adc = {x \in ToSet(s) : x.handle.hash \notin tier}
  PROVE  IsFiniteSet(adc) /\ Cardinality(adc) \in Nat /\ Cardinality(tier) \in Nat
         /\ Cardinality(adc) + Cardinality(tier) >= m
<1>1. m \in Nat /\ DOMAIN s = 1 .. m /\ ToSet(s) = {s[i] : i \in 1 .. m}
  BY SeqShape
<1>2. \A i, j \in 1 .. m : s[i].handle.hash = s[j].handle.hash => i = j
  BY <1>1 DEF BestHits
<1>3. IsFiniteSet(1 .. m) /\ Cardinality(1 .. m) = m
  BY <1>1, UpTo
<1>4. PICK I, J : I = {i \in 1 .. m : s[i].handle.hash \in tier} /\ J = (1 .. m) \ I
  OBVIOUS
<1>5. IsFiniteSet(I) /\ Cardinality(I) \in Nat /\ Cardinality(tier) \in Nat /\ Cardinality(I) <= Cardinality(tier)
  <2>1. PICK f : f = [i \in I |-> s[i].handle.hash]
    OBVIOUS
  <2>2. f \in [I -> tier] /\ \A i, j \in I : f[i] = f[j] => i = j
    BY <1>2, <1>4, <2>1
  <2>. QED
    BY <2>2, AtMost
<1>6. IsFiniteSet(adc) /\ \E g \in [J -> adc] : \A i, j \in J : g[i] = g[j] => i = j
  <2>1. \A i \in J : s[i] \in adc
    BY <1>1, <1>4
  <2>2. PICK g : g = [i \in J |-> s[i]]
    OBVIOUS
  <2>3. g \in [J -> adc] /\ \A i, j \in J : g[i] = g[j] => i = j
    BY <1>2, <1>4, <2>1, <2>2
  <2>4. PICK h : h = [x \in adc |-> CHOOSE i \in 1 .. m : s[i] = x]
    OBVIOUS
  <2>5. \A x \in adc : h[x] \in 1 .. m /\ s[h[x]] = x
    <3>1. \A x \in adc : \E i \in 1 .. m : s[i] = x
      BY <1>1
    <3>2. \A x \in adc : h[x] = CHOOSE i \in 1 .. m : s[i] = x
      BY <2>4
    <3>. QED
      BY <3>1, <3>2
  <2>6. h \in [adc -> 1 .. m] /\ \A x, y \in adc : h[x] = h[y] => x = y
    <3>1. h \in [adc -> 1 .. m]
      BY <2>4, <2>5
    <3>2. \A x, y \in adc : h[x] = h[y] => x = y
      BY <2>5
    <3>. QED
      BY <3>1, <3>2
  <2>7. IsFiniteSet(adc)
    BY <1>3, <2>6, AtMost
  <2>. QED
    BY <2>3, <2>7
<1>7. Cardinality(adc) \in Nat /\ Cardinality(J) \in Nat /\ Cardinality(J) <= Cardinality(adc)
  <2>1. PICK g \in [J -> adc] : \A i, j \in J : g[i] = g[j] => i = j
    BY <1>6
  <2>2. IsFiniteSet(adc)
    BY <1>6
  <2>. QED
    BY <2>1, <2>2, AtMost
<1>8. Cardinality(J) = m - Cardinality(I)
  <2>1. I \intersect (1 .. m) = I /\ (1 .. m) \intersect I = I
    BY <1>4
  <2>2. Cardinality((1 .. m) \ I) = Cardinality(1 .. m) - Cardinality((1 .. m) \intersect I)
    BY <1>3, FS_Difference
  <2>. QED
    BY <1>3, <1>4, <2>1, <2>2
<1>. QED
  BY <1>1, <1>5, <1>6, <1>7, <1>8

LEMMA ResidentsAreBest ==
  ASSUME IndexAssumption, TrainedIndex, NEW q \in Vectors(Subspaces), NEW topK \in Nat \ {0}, NEW nprobe \in Nat,
         NEW tier \in SUBSET Hashes, NEW depth, depth = topK + Cardinality(tier)
  PROVE  AreBest(WithResidents(q, nprobe, topK, depth, tier), topK,
                 Score(q, Probed(q, nprobe) \union (tier \intersect DOMAIN byHash), tier))
<1>1. /\ IsFiniteSet(tier) /\ Cardinality(tier) \in Nat /\ depth \in Nat \ {0}
      /\ IsFiniteSet(Hashes) /\ Hashes \subseteq Nat
  <2>1. IsFiniteSet(Hashes) /\ Hashes \subseteq Nat
    BY DEF IndexAssumption
  <2>2. IsFiniteSet(tier)
    BY <2>1, FS_Subset
  <2>3. Cardinality(tier) \in Nat
    BY <2>2, FS_CardinalityType
  <2>. QED
    BY <2>1, <2>2, <2>3
<1>2. PICK s, m, probed, all, score1, score2 :
        /\ s = Search(q, nprobe, depth) /\ m = Len(s) /\ probed = Probed(q, nprobe)
        /\ all = probed \union (tier \intersect DOMAIN byHash)
        /\ score1 = Score(q, probed, {}) /\ score2 = Score(q, all, tier)
  OBVIOUS
<1>3. probed \in SUBSET DOMAIN byHash /\ all \in SUBSET DOMAIN byHash /\ DOMAIN byHash \subseteq Hashes
  BY <1>2, HashIs DEF Probed
<1>4. /\ DOMAIN score1 = probed /\ DOMAIN score2 = all /\ ScoresAreNat(score1) /\ ScoresAreNat(score2)
      /\ \A g \in probed \ tier : score2[g] = score1[g]
      /\ \A g \in all : g \in tier => score2[g] = SqL2(q, Point[g])
  <2>1. /\ DOMAIN score1 = probed
        /\ \A g \in probed : score1[g] = Adc(q, handles[byHash[g]]) /\ score1[g] \in Nat
    <3>1. /\ DOMAIN Score(q, probed, {}) = probed
          /\ \A g \in probed : /\ Score(q, probed, {})[g] = Adc(q, handles[byHash[g]])
                              /\ Score(q, probed, {})[g] \in Nat
      BY <1>3, ScoreIs
    <3>. QED
      BY <1>2, <3>1
  <2>2. /\ DOMAIN score2 = all
        /\ \A g \in all : /\ score2[g] = IF g \in tier THEN SqL2(q, Point[g]) ELSE Adc(q, handles[byHash[g]])
                          /\ score2[g] \in Nat
    <3>1. /\ DOMAIN Score(q, all, tier) = all
          /\ \A g \in all :
               /\ Score(q, all, tier)[g] = IF g \in tier THEN SqL2(q, Point[g]) ELSE Adc(q, handles[byHash[g]])
               /\ Score(q, all, tier)[g] \in Nat
      BY <1>3, ScoreIs
    <3>. QED
      BY <1>2, <3>1
  <2>3. probed \subseteq all
    BY <1>2
  <2>. QED
    BY <2>1, <2>2, <2>3 DEF ScoresAreNat
<1>5. IsSeq(s) /\ BestHits(s, m, depth, score1)
  BY <1>1, <1>2, SearchIsBest, BestHitsAre
<1>6. m \in Nat /\ ToSet(s) = {s[i] : i \in 1 .. m}
  BY <1>2, <1>5, SeqShape
<1>7. PICK adc, H : /\ adc = {x \in ToSet(s) : x.handle.hash \notin tier}
                    /\ H = adc \union {ExactHit(q, h) : h \in tier \intersect DOMAIN byHash}
  OBVIOUS
<1>8. ASSUME NEW x \in H
      PROVE  x.handle.hash \in all /\ x = HitOf(score2, x.handle.hash) /\ x.dist = score2[x.handle.hash]
  <2>1. CASE x \in adc
    <3>1. PICK i \in 1 .. m : x = s[i] /\ s[i].handle.hash \notin tier
      BY <1>6, <1>7, <2>1
    <3>2. PICK g : g = s[i].handle.hash
      OBVIOUS
    <3>3. g \in probed /\ x = HitOf(score1, g) /\ x.dist = score1[g] /\ g \notin tier
      BY <1>4, <1>5, <3>1, <3>2, HitIs
    <3>4. score2[g] = score1[g] /\ g \in all
      BY <1>2, <1>4, <3>3
    <3>5. x = HitOf(score2, g)
      BY <3>3, <3>4 DEF HitOf
    <3>. QED
      BY <3>1, <3>2, <3>3, <3>4, <3>5
  <2>2. CASE x \notin adc
    <3>1. PICK g \in tier \intersect DOMAIN byHash : x = ExactHit(q, g)
      BY <1>7, <2>2
    <3>2. g \in all /\ score2[g] = SqL2(q, Point[g])
      BY <1>2, <1>4, <3>1
    <3>3. x = HitOf(score2, g)
      BY <3>1, <3>2 DEF HitOf, ExactHit
    <3>4. x.handle.hash = g /\ x.dist = score2[g]
      BY <3>1, <3>3, HashIs DEF HitOf
    <3>. QED
      BY <3>2, <3>3, <3>4
  <2>. QED
    BY <2>1, <2>2
<1>9. \A x, y \in H : x.handle.hash = y.handle.hash => x = y
  <2>. SUFFICES ASSUME NEW x \in H, NEW y \in H, x.handle.hash = y.handle.hash PROVE x = y
    OBVIOUS
  <2>. QED
    BY <1>8
<1>10. \A x \in H : x.handle.hash \in Hashes /\ x.dist \in Nat /\ x.handle.hash \in Nat
  <2>. SUFFICES ASSUME NEW x \in H PROVE x.handle.hash \in Hashes /\ x.dist \in Nat /\ x.handle.hash \in Nat
    OBVIOUS
  <2>1. PICK g : g = x.handle.hash
    OBVIOUS
  <2>2. g \in all /\ x.dist = score2[g]
    BY <1>8, <2>1
  <2>. QED
    BY <1>1, <1>3, <1>4, <2>1, <2>2 DEF ScoresAreNat
<1>11. IsFiniteSet(H)
  <2>1. PICK f : f = [x \in H |-> x.handle.hash]
    OBVIOUS
  <2>2. f \in [H -> Hashes] /\ \A x, y \in H : f[x] = f[y] => x = y
    BY <1>9, <1>10, <2>1
  <2>. QED
    BY <1>1, <2>2, AtMost
<1>12. PICK c, r, dist, tie : /\ c = Cardinality(H) /\ r = ByDistThenHash(H)
                              /\ dist = [x \in H |-> x.dist] /\ tie = [x \in H |-> x.handle.hash]
  OBVIOUS
<1>13. dist \in [H -> Nat] /\ tie \in [H -> Nat] /\ r = Sorted(dist, tie) /\ \A x \in H : dist[x] = x.dist
  BY <1>10, <1>12 DEF ByDistThenHash
<1>14. c \in Nat /\ SortsUpTo(dist, tie, H, c, r) /\ IsInjective(r)
  <2>1. IsFiniteSet(H) /\ c = Cardinality(H)
    BY <1>11, <1>12
  <2>. QED
    BY <1>13, <2>1, SortedIs
<1>15. /\ r \in [1 .. c -> H] /\ DOMAIN r = 1 .. c /\ \A x \in H : \E i \in 1 .. c : r[i] = x
       /\ \A i, j \in 1 .. c : r[i] = r[j] => i = j
  BY <1>14 DEF SortsUpTo, IsInjective
<1>16. ASSUME NEW i \in 1 .. c, NEW j \in 1 .. c, i < j PROVE r[i].dist <= r[j].dist
  <2>1. Before(dist, tie, r[i], r[j]) /\ r[i] \in H /\ r[j] \in H
    BY <1>14, <1>15, <1>16 DEF SortsUpTo
  <2>2. dist[r[i]] <= dist[r[j]]
    BY <1>13, <2>1 DEF Before
  <2>. QED
    BY <1>13, <2>1, <2>2
<1>17. IsSeq(r) /\ Len(r) = c
  <2>1. r \in Seq(H) /\ Len(r) = c
    BY <1>14, <1>15, SeqDef, LenProperties
  <2>. QED
    BY <2>1, SeqIs
<1>18. PICK k, t : k = (IF topK < c THEN topK ELSE c) /\ t = Cut(r, topK)
  OBVIOUS
<1>19. /\ k \in Nat /\ k <= topK /\ k <= c /\ (k = topK \/ k = c)
       /\ IsSeq(t) /\ Len(t) = k /\ \A i \in 1 .. k : i \in 1 .. c /\ t[i] = r[i]
  <2>1. CutTo(k, Len(r), topK)
    BY <1>14, <1>17, <1>18 DEF CutTo
  <2>2. /\ k \in Nat /\ k <= topK /\ k <= Len(r) /\ (k = topK \/ k = Len(r))
        /\ IsSeq(Cut(r, topK)) /\ Len(Cut(r, topK)) = k
        /\ \A i \in 1 .. k : i \in 1 .. Len(r) /\ Cut(r, topK)[i] = r[i]
    BY <1>17, <2>1, CutIs
  <2>. QED
    BY <1>17, <1>18, <2>2
<1>20. t = WithResidents(q, nprobe, topK, depth, tier)
  BY <1>2, <1>7, <1>12, <1>18 DEF WithResidents
<1>21. \A i \in 1 .. c : r[i] \in H /\ r[i].dist \in Nat
  BY <1>10, <1>15
<1>22. ASSUME NEW g \in all, \A i \in 1 .. k : t[i].handle.hash # g
       PROVE  k = topK /\ score2[g] >= t[topK].dist
  <2>0. score2[g] \in Nat
    BY <1>4 DEF ScoresAreNat
  <2>1. CASE \E x \in H : x.handle.hash = g
    <3>1. PICK i \in 1 .. c : r[i].handle.hash = g
      BY <1>15, <2>1
    <3>2. i \notin 1 .. k
      BY <1>19, <1>22, <3>1
    <3>3. k = topK /\ topK \in 1 .. c /\ topK \in 1 .. k /\ topK < i /\ t[topK] = r[topK]
      BY <1>14, <1>19, <3>2
    <3>4. r[topK].dist <= r[i].dist /\ r[topK].dist \in Nat
      BY <1>16, <1>21, <3>3
    <3>5. r[i].dist = score2[g]
      BY <1>8, <1>21, <3>1
    <3>. QED
      BY <2>0, <3>3, <3>4, <3>5
  <2>2. CASE \A x \in H : x.handle.hash # g
    <3>1. g \notin tier
      <4>1. ASSUME g \in tier PROVE FALSE
        <5>1. g \in tier \intersect DOMAIN byHash
          BY <1>3, <4>1
        <5>2. ExactHit(q, g) \in H /\ ExactHit(q, g).handle.hash = g
          BY <1>7, <5>1, HashIs DEF ExactHit
        <5>. QED
          BY <2>2, <5>2
      <4>. QED
        BY <4>1
    <3>2. g \in probed /\ score2[g] = score1[g]
      BY <1>2, <1>4, <3>1
    <3>3. \A i \in 1 .. m : s[i].handle.hash # g
      BY <1>6, <1>7, <2>2, <3>1
    <3>4. m = depth /\ score1[g] >= s[depth].dist
      BY <1>4, <1>5, <3>2, <3>3 DEF BestHits
    <3>5. depth \in 1 .. m /\ s[depth].dist \in Nat
      <4>1. depth \in 1 .. m
        BY <1>1, <3>4
      <4>. QED
        BY <1>4, <1>5, <4>1, HitIs
    <3>6. ASSUME NEW x \in adc PROVE x.dist <= score2[g]
      <4>1. PICK i \in 1 .. m : x = s[i]
        BY <1>6, <1>7
      <4>2. s[i].dist \in Nat
        BY <1>4, <1>5, HitIs
      <4>3. s[i].dist <= s[depth].dist
        <5>1. i = depth \/ i < depth
          BY <1>1, <1>6, <3>4
        <5>2. i < depth => s[i].dist <= s[depth].dist
          BY <1>5, <3>5 DEF BestHits
        <5>. QED
          BY <4>2, <5>1, <5>2
      <4>. QED
        BY <2>0, <3>2, <3>4, <3>5, <4>1, <4>2, <4>3
    <3>7. IsFiniteSet(adc) /\ Cardinality(adc) \in Nat /\ Cardinality(adc) >= topK
      <4>1. IsFiniteSet(adc) /\ Cardinality(adc) \in Nat /\ Cardinality(adc) + Cardinality(tier) >= m
        BY <1>1, <1>2, <1>5, <1>7, LeftByTier
      <4>. QED
        BY <1>1, <3>4, <4>1
    <3>8. adc \subseteq H /\ Cardinality(adc) <= c
      <4>1. adc \in SUBSET H
        BY <1>7
      <4>. QED
        BY <1>11, <1>12, <4>1, FS_Subset
    <3>9. k = topK /\ topK \in 1 .. c /\ topK \in 1 .. k /\ t[topK] = r[topK] /\ r[topK].dist \in Nat
      <4>1. k = topK /\ topK \in 1 .. c /\ topK \in 1 .. k
        BY <1>14, <1>18, <1>19, <3>7, <3>8
      <4>. QED
        BY <1>19, <1>21, <4>1
    <3>10. ASSUME ~ (score2[g] >= r[topK].dist) PROVE FALSE
      <4>1. PICK f : f = [x \in adc |-> CHOOSE i \in 1 .. c : r[i] = x]
        OBVIOUS
      <4>2. ASSUME NEW x \in adc PROVE f[x] \in 1 .. topK - 1 /\ r[f[x]] = x
        <5>1. f[x] \in 1 .. c /\ r[f[x]] = x
          BY <1>15, <3>8, <4>1
        <5>2. x.dist \in Nat /\ x.dist < r[topK].dist
          BY <1>21, <2>0, <3>6, <3>9, <3>10, <5>1
        <5>3. f[x] # topK
          BY <3>9, <5>1, <5>2
        <5>4. ~ (topK < f[x])
          <6>1. topK < f[x] => r[topK].dist <= x.dist
            BY <1>16, <3>9, <5>1
          <6>. QED
            BY <3>9, <5>2, <6>1
        <5>. QED
          BY <1>14, <5>1, <5>3, <5>4
      <4>3. f \in [adc -> 1 .. topK - 1] /\ \A x, y \in adc : f[x] = f[y] => x = y
        BY <4>1, <4>2
      <4>4. IsFiniteSet(1 .. topK - 1) /\ Cardinality(1 .. topK - 1) = topK - 1
        BY FS_Interval
      <4>5. Cardinality(adc) <= topK - 1
        BY <4>3, <4>4, AtMost
      <4>. QED
        BY <3>7, <4>5
    <3>. QED
      BY <3>9, <3>10
  <2>. QED
    BY <2>1, <2>2
<1>23. BestHits(t, k, topK, score2)
  <2>1. \A i \in 1 .. k : t[i].handle.hash \in DOMAIN score2 /\ t[i] = HitOf(score2, t[i].handle.hash)
    BY <1>4, <1>8, <1>19, <1>21
  <2>2. ASSUME NEW i \in 1 .. k, NEW j \in 1 .. k, i < j
        PROVE  t[i].handle.hash # t[j].handle.hash /\ t[i].dist <= t[j].dist
    <3>1. i \in 1 .. c /\ j \in 1 .. c /\ t[i] = r[i] /\ t[j] = r[j] /\ r[i] # r[j]
      BY <1>15, <1>19, <2>2
    <3>2. r[i].dist <= r[j].dist
      BY <1>16, <2>2, <3>1
    <3>3. r[i].handle.hash # r[j].handle.hash
      BY <1>9, <1>21, <3>1
    <3>. QED
      BY <3>1, <3>2, <3>3
  <2>. QED
    BY <1>4, <1>19, <1>22, <2>1, <2>2 DEF BestHits
<1>24. AreBest(t, topK, score2)
  BY <1>19, <1>23, BestHitsAre
<1>. QED
  BY <1>2, <1>20, <1>24

-----------------------------------------------------------------------------
(***************************************************************************)
(* The search with a re-rank: the first hits change places by their exact  *)
(* distances. Those behind them must have the same distance before and     *)
(* after: there are none, or no original was at hand.                      *)
(***************************************************************************)
RerankOf(q, s, m, n, score1, score2, originals, cut) ==
  /\ IsSeq(s) /\ m = Len(s) /\ n \in Nat \ {0} /\ cut \in Nat /\ cut <= m
  /\ BestHits(s, m, n, score1) /\ ScoresAreNat(score1) /\ ScoresAreNat(score2)
  /\ DOMAIN score2 = DOMAIN score1 /\ DOMAIN score1 \subseteq Nat
  /\ \A g \in DOMAIN score1 : /\ handles[byHash[g]].hash = g
                              /\ score2[g] = IF g \in originals THEN SqL2(q, Point[g]) ELSE score1[g]
  /\ originals = {} \/ (cut = m /\ \A g \in DOMAIN score1 : \E i \in 1 .. m : s[i].handle.hash = g)

LEMMA RerankedIsBest ==
  ASSUME NEW q, NEW s, NEW m, NEW n, NEW score1, NEW score2, NEW originals, NEW cut,
         RerankOf(q, s, m, n, score1, score2, originals, cut),
         NEW t, t = Reranked(q, s, cut, originals)
  PROVE  IsSeq(t) /\ Len(t) = m /\ BestHits(t, m, n, score2)
<1>1. m \in Nat /\ DOMAIN s = 1 .. m /\ n \in Nat \ {0} /\ cut \in Nat /\ cut <= m
  BY SeqShape DEF RerankOf
<1>1a. /\ BestHits(s, m, n, score1) /\ ScoresAreNat(score1)
      /\ DOMAIN score2 = DOMAIN score1
      /\ \A g \in DOMAIN score1 : g \in Nat /\ handles[byHash[g]].hash = g /\ score2[g] \in Nat
  BY DEF RerankOf, ScoresAreNat
<1>1b. \A g \in DOMAIN score1 : score2[g] = IF g \in originals THEN SqL2(q, Point[g]) ELSE score1[g]
  BY DEF RerankOf
<1>1c. originals = {} \/ (cut = m /\ \A g \in DOMAIN score1 : \E i \in 1 .. m : s[i].handle.hash = g)
  BY DEF RerankOf
<1>. DEFINE head == [i \in 1 .. cut |-> IF s[i].handle.hash \in originals
                       THEN [s[i] EXCEPT !.dist = SqL2(q, Point[s[i].handle.hash])] ELSE s[i]]
            dist == [i \in 1 .. cut |-> head[i].dist]
            tie == [i \in 1 .. cut |-> head[i].handle.hash]
            rank == Sorted(dist, tie)
<1>2. t = [i \in DOMAIN s |-> IF i <= cut THEN head[rank[i]] ELSE s[i]]
  BY DEF Reranked
<1>3. \A i \in 1 .. cut : head[i] = IF s[i].handle.hash \in originals
                                    THEN [s[i] EXCEPT !.dist = SqL2(q, Point[s[i].handle.hash])] ELSE s[i]
  OBVIOUS
<1>4. /\ rank = Sorted(dist, tie)
      /\ dist = [i \in 1 .. cut |-> head[i].dist] /\ tie = [i \in 1 .. cut |-> head[i].handle.hash]
  OBVIOUS
<1>. HIDE DEF rank, tie, dist, head
<1>5. t = [i \in 1 .. m |-> IF i <= cut THEN head[rank[i]] ELSE s[i]]
  BY <1>1, <1>2
<1>6. ASSUME NEW i \in 1 .. m
      PROVE  /\ s[i].handle.hash \in DOMAIN score1 /\ s[i].dist = score1[s[i].handle.hash]
             /\ s[i] = HitOf(score1, s[i].handle.hash)
  BY <1>1a, HitIs
<1>7. ASSUME NEW i \in 1 .. cut
      PROVE  /\ i \in 1 .. m /\ head[i] = HitOf(score2, s[i].handle.hash) /\ head[i].handle.hash = s[i].handle.hash
             /\ head[i].dist = score2[s[i].handle.hash] /\ head[i].dist \in Nat /\ head[i].handle.hash \in Nat
  <2>1. i \in 1 .. m
    BY <1>1
  <2>2. PICK g : g = s[i].handle.hash
    OBVIOUS
  <2>3. g \in DOMAIN score1 /\ s[i] = HitOf(score1, g) /\ g \in Nat /\ handles[byHash[g]].hash = g
    BY <1>1a, <1>6, <2>1, <2>2
  <2>4. s[i] = [handle |-> handles[byHash[g]], dist |-> score1[g]]
    BY <2>3 DEF HitOf
  <2>5. head[i] = IF g \in originals THEN [s[i] EXCEPT !.dist = SqL2(q, Point[g])] ELSE s[i]
    BY <1>3, <2>2
  <2>6. head[i] = [handle |-> handles[byHash[g]], dist |-> score2[g]]
    <3>1. CASE g \in originals
      <4>1. head[i] = [s[i] EXCEPT !.dist = SqL2(q, Point[g])] /\ score2[g] = SqL2(q, Point[g])
        BY <1>1b, <2>3, <2>5, <3>1
      <4>. QED
        BY <2>4, <4>1
    <3>2. CASE g \notin originals
      <4>1. head[i] = s[i] /\ score2[g] = score1[g]
        BY <1>1b, <2>3, <2>5, <3>2
      <4>. QED
        BY <2>4, <4>1
    <3>. QED
      BY <3>1, <3>2
  <2>7. score2[g] \in Nat
    BY <1>1a, <2>3
  <2>8. head[i] = HitOf(score2, g) /\ head[i].handle.hash = g /\ head[i].dist = score2[g]
    BY <2>3, <2>6 DEF HitOf
  <2>. QED
    BY <2>1, <2>2, <2>3, <2>7, <2>8
<1>8. dist \in [1 .. cut -> Nat] /\ tie \in [1 .. cut -> Nat] /\ \A i \in 1 .. cut : dist[i] = head[i].dist
  BY <1>4, <1>7
<1>9. SortsUpTo(dist, tie, 1 .. cut, cut, rank) /\ IsInjective(rank)
  <2>2. IsFiniteSet(1 .. cut) /\ cut = Cardinality(1 .. cut)
    BY <1>1, UpTo
  <2>. QED
    BY <1>4, <1>8, <2>2, SortedIs
<1>10. /\ rank \in [1 .. cut -> 1 .. cut] /\ \A x \in 1 .. cut : \E i \in 1 .. cut : rank[i] = x
       /\ \A i, j \in 1 .. cut : i < j => Before(dist, tie, rank[i], rank[j])
       /\ \A i, j \in 1 .. cut : rank[i] = rank[j] => i = j
  BY <1>9 DEF SortsUpTo, IsInjective
<1>11. PICK place : place = [i \in 1 .. m |-> IF i <= cut THEN rank[i] ELSE i]
  OBVIOUS
<1>12. /\ \A i \in 1 .. cut : i \in 1 .. m /\ place[i] = rank[i] /\ place[i] \in 1 .. cut
       /\ \A i \in 1 .. m : i \notin 1 .. cut => place[i] = i /\ cut < i
  <2>1. ASSUME NEW i \in 1 .. cut PROVE i \in 1 .. m /\ place[i] = rank[i] /\ place[i] \in 1 .. cut
    <3>1. i \in 1 .. m /\ i <= cut /\ rank[i] \in 1 .. cut
      BY <1>1, <1>10
    <3>. QED
      BY <1>11, <3>1
  <2>2. ASSUME NEW i \in 1 .. m, i \notin 1 .. cut PROVE place[i] = i /\ cut < i
    BY <1>1, <1>11, <2>2
  <2>. QED
    BY <2>1, <2>2
<1>13. /\ \A i \in 1 .. m : place[i] \in 1 .. m
       /\ \A i, j \in 1 .. m : place[i] = place[j] => i = j
       /\ \A x \in 1 .. m : \E i \in 1 .. m : place[i] = x
  <2>1. \A i \in 1 .. m : place[i] \in 1 .. m
    BY <1>12
  <2>2. \A i, j \in 1 .. m : place[i] = place[j] => i = j
    BY <1>10, <1>12
  <2>3. ASSUME NEW x \in 1 .. m PROVE \E i \in 1 .. m : place[i] = x
    <3>1. CASE x \in 1 .. cut
      <4>1. PICK i \in 1 .. cut : rank[i] = x
        BY <1>10, <3>1
      <4>. QED
        BY <1>12, <4>1
    <3>2. CASE x \notin 1 .. cut
      BY <1>12, <3>2
    <3>. QED
      BY <3>1, <3>2
  <2>. QED
    BY <2>1, <2>2, <2>3
<1>14. ASSUME NEW i \in 1 .. m
       PROVE  /\ t[i] = HitOf(score2, s[place[i]].handle.hash)
              /\ t[i].handle.hash = s[place[i]].handle.hash /\ t[i].handle.hash \in DOMAIN score2
              /\ t[i].dist = score2[s[place[i]].handle.hash] /\ t[i].dist \in Nat
  <2>1. PICK g : g = s[place[i]].handle.hash
    OBVIOUS
  <2>2. g \in DOMAIN score1 /\ score2[g] \in Nat /\ handles[byHash[g]].hash = g
    BY <1>1a, <1>6, <1>13, <2>1
  <2>3. t[i] = HitOf(score2, g)
    <3>1. CASE i \in 1 .. cut
      <4>1. t[i] = head[rank[i]] /\ place[i] = rank[i] /\ rank[i] \in 1 .. cut
        BY <1>5, <1>12, <3>1
      <4>. QED
        BY <1>7, <2>1, <4>1
    <3>2. CASE i \notin 1 .. cut
      <4>1. t[i] = s[i] /\ place[i] = i /\ originals = {}
        BY <1>1c, <1>1, <1>5, <1>12, <3>2
      <4>2. s[i] = HitOf(score1, g)
        BY <1>6, <2>1, <4>1
      <4>3. score2[g] = score1[g]
        BY <1>1b, <2>2, <4>1
      <4>. QED
        BY <4>1, <4>2, <4>3 DEF HitOf
    <3>. QED
      BY <3>1, <3>2
  <2>4. t[i].handle.hash = g /\ t[i].dist = score2[g]
    BY <2>2, <2>3 DEF HitOf
  <2>. QED
    BY <1>1a, <2>1, <2>2, <2>3, <2>4
<1>15. ASSUME originals = {}, NEW i \in 1 .. m PROVE t[i].dist = s[place[i]].dist
  <2>1. PICK g : g = s[place[i]].handle.hash
    OBVIOUS
  <2>2. g \in DOMAIN score1 /\ s[place[i]].dist = score1[g] /\ t[i].dist = score2[g]
    BY <1>6, <1>13, <1>14, <2>1
  <2>. QED
    BY <1>1b, <1>15, <2>2
<1>16. /\ \A i, j \in 1 .. m : i < j => s[i].handle.hash # s[j].handle.hash /\ s[i].dist <= s[j].dist
       /\ \A g \in DOMAIN score1 : (\A i \in 1 .. m : s[i].handle.hash # g) => m = n /\ score1[g] >= s[n].dist
       /\ m <= n
  BY <1>1a DEF BestHits
<1>17. ASSUME NEW i \in 1 .. m, NEW j \in 1 .. m, i < j
       PROVE  t[i].handle.hash # t[j].handle.hash /\ t[i].dist <= t[j].dist
  <2>1. t[i].handle.hash # t[j].handle.hash
    <3>1. PICK x, y : x = place[i] /\ y = place[j]
      OBVIOUS
    <3>2. x \in 1 .. m /\ y \in 1 .. m /\ x # y
      BY <1>13, <1>17, <3>1
    <3>3. s[x].handle.hash # s[y].handle.hash
      BY <1>16, <3>2
    <3>. QED
      BY <1>14, <3>1, <3>3
  <2>2. CASE j \in 1 .. cut
    <3>1. i \in 1 .. cut /\ rank[i] \in 1 .. cut /\ rank[j] \in 1 .. cut
      BY <1>1, <1>10, <1>17, <2>2
    <3>2. Before(dist, tie, rank[i], rank[j])
      BY <1>10, <1>17, <2>2, <3>1
    <3>3. dist[rank[i]] <= dist[rank[j]]
      BY <1>8, <3>1, <3>2 DEF Before
    <3>4. t[i] = head[rank[i]] /\ t[j] = head[rank[j]]
      BY <1>5, <2>2, <3>1
    <3>. QED
      BY <1>8, <2>1, <3>1, <3>3, <3>4
  <2>3. CASE j \notin 1 .. cut
    <3>1. originals = {} /\ place[j] = j
      BY <1>1c, <1>1, <1>12, <2>3
    <3>2. place[i] \in 1 .. m /\ place[i] < j
      <4>1. place[i] \in 1 .. m /\ cut < j
        BY <1>12, <1>13, <2>3
      <4>2. CASE i \in 1 .. cut
        <5>1. place[i] \in 1 .. cut
          BY <1>12, <4>2
        <5>. QED
          BY <1>1, <4>1, <5>1
      <4>3. CASE i \notin 1 .. cut
        BY <1>12, <1>17, <4>1, <4>3
      <4>. QED
        BY <4>2, <4>3
    <3>3. t[i].dist = s[place[i]].dist /\ t[j].dist = s[j].dist
      BY <1>15, <3>1
    <3>. QED
      BY <1>16, <2>1, <3>2, <3>3
  <2>. QED
    BY <2>2, <2>3
<1>18. ASSUME NEW g \in DOMAIN score2, \A i \in 1 .. m : t[i].handle.hash # g
       PROVE  m = n /\ score2[g] >= t[n].dist
  <2>1. \A i \in 1 .. m : s[i].handle.hash # g
    <3>1. ASSUME NEW x \in 1 .. m PROVE s[x].handle.hash # g
      <4>1. PICK i \in 1 .. m : place[i] = x
        BY <1>13
      <4>. QED
        BY <1>14, <1>18, <4>1
    <3>. QED
      BY <3>1
  <2>2. originals = {} /\ score2[g] = score1[g] /\ score2[g] \in Nat
    BY <1>1a, <1>1b, <1>1c, <1>18, <2>1
  <2>3. m = n /\ score1[g] >= s[n].dist
    BY <1>1a, <1>16, <1>18, <2>1
  <2>4. PICK x : x = place[n]
    OBVIOUS
  <2>5. n \in 1 .. m /\ x \in 1 .. m
    <3>1. n \in 1 .. m
      BY <1>1, <2>3
    <3>. QED
      BY <1>13, <2>4, <3>1
  <2>6. t[n].dist = s[x].dist /\ t[n].dist \in Nat
    BY <1>14, <1>15, <2>2, <2>4, <2>5
  <2>7. s[n].dist \in Nat
    BY <1>1a, <2>5, HitIs
  <2>8. s[x].dist <= s[n].dist
    <3>1. x = n \/ x < n
      BY <2>3, <2>5
    <3>2. x < n => s[x].dist <= s[n].dist
      BY <1>16, <2>5
    <3>. QED
      BY <2>7, <3>1, <3>2
  <2>. QED
    BY <2>2, <2>3, <2>6, <2>7, <2>8
<1>19. IsSeq(t) /\ Len(t) = m
  <2>1. PICK S : S = {t[i] : i \in 1 .. m}
    OBVIOUS
  <2>2. t \in [1 .. m -> S] /\ DOMAIN t = 1 .. m
    BY <1>5, <2>1
  <2>3. t \in Seq(S) /\ Len(t) = m
    BY <1>1, <2>2, SeqDef, LenProperties
  <2>. QED
    BY <2>2, <2>3, SeqIs
<1>20. BestHits(t, m, n, score2)
  <2>1. \A i \in 1 .. m : t[i].handle.hash \in DOMAIN score2 /\ t[i] = HitOf(score2, t[i].handle.hash)
    BY <1>14
  <2>. QED
    BY <1>1a, <1>1, <1>16, <1>17, <1>18, <2>1 DEF BestHits
<1>. QED
  BY <1>19, <1>20

LEMMA AllProbedAreHit ==
  ASSUME NEW s, NEW m, NEW n, NEW score, BestHits(s, m, n, score), IsFiniteSet(DOMAIN score),
         NEW most, most \in Nat, most <= n, Cardinality(DOMAIN score) <= most
  PROVE  m <= most /\ \A g \in DOMAIN score : \E i \in 1 .. m : s[i].handle.hash = g
<1>1. /\ m \in Nat /\ \A i \in 1 .. m : s[i].handle.hash \in DOMAIN score
      /\ \A i, j \in 1 .. m : i < j => s[i].handle.hash # s[j].handle.hash
      /\ \A g \in DOMAIN score : (\A i \in 1 .. m : s[i].handle.hash # g) => m = n
  BY DEF BestHits
<1>2. Cardinality(DOMAIN score) \in Nat
  BY FS_CardinalityType
<1>3. PICK f : f = [i \in 1 .. m |-> s[i].handle.hash]
  OBVIOUS
<1>4. \A i, j \in 1 .. m : f[i] = f[j] => i = j
  <2>. SUFFICES ASSUME NEW i \in 1 .. m, NEW j \in 1 .. m, f[i] = f[j], i # j PROVE FALSE
    OBVIOUS
  <2>1. i < j \/ j < i
    BY <1>1
  <2>. QED
    BY <1>1, <1>3, <2>1
<1>5. Cardinality(1 .. m) = m
  BY <1>1, UpTo
<1>6. m <= Cardinality(DOMAIN score)
  <2>1. f \in [1 .. m -> DOMAIN score]
    BY <1>1, <1>3
  <2>2. Cardinality(1 .. m) <= Cardinality(DOMAIN score)
    BY <1>4, <2>1, AtMost
  <2>. QED
    BY <1>5, <2>2
<1>7. ASSUME NEW g \in DOMAIN score, \A i \in 1 .. m : s[i].handle.hash # g PROVE FALSE
  <2>1. PICK B : B = DOMAIN score \ {g}
    OBVIOUS
  <2>2. IsFiniteSet(B) /\ Cardinality(B) = Cardinality(DOMAIN score) - 1
    BY <2>1, FS_RemoveElement
  <2>3. f \in [1 .. m -> B]
    BY <1>1, <1>3, <1>7, <2>1
  <2>4. Cardinality(1 .. m) <= Cardinality(B)
    BY <1>4, <2>2, <2>3, AtMost
  <2>5. m = n
    BY <1>1, <1>7
  <2>. QED
    BY <1>1, <1>2, <1>5, <2>2, <2>4, <2>5
<1>. QED
  BY <1>1, <1>2, <1>6, <1>7

LEMMA RerankIsBest ==
  ASSUME IndexAssumption, TrainedIndex, NEW q \in Vectors(Subspaces), NEW topK \in Nat \ {0}, NEW nprobe \in Nat,
         NEW rerankK \in Nat, NEW originals, rerankK >= Cardinality(Probed(q, nprobe)) \/ originals = {}
  PROVE  AreBest(SearchRerank(q, nprobe, topK, rerankK, originals), topK, Score(q, Probed(q, nprobe), originals))
<1>1. PICK probed : probed = Probed(q, nprobe)
  OBVIOUS
<1>2. probed \in SUBSET DOMAIN byHash /\ DOMAIN byHash \subseteq Hashes /\ Hashes \subseteq Nat /\ IsFiniteSet(probed)
  <2>1. probed \in SUBSET DOMAIN byHash /\ DOMAIN byHash \subseteq Hashes
    BY <1>1, HashIs DEF Probed
  <2>2. IsFiniteSet(Hashes) /\ Hashes \subseteq Nat
    BY DEF IndexAssumption
  <2>3. probed \in SUBSET Hashes
    BY <2>1
  <2>4. IsFiniteSet(probed)
    BY <2>2, <2>3, FS_Subset
  <2>. QED
    BY <2>1, <2>2, <2>4
<1>3. PICK score1, score2 : score1 = Score(q, probed, {}) /\ score2 = Score(q, probed, originals)
  OBVIOUS
<1>4. /\ DOMAIN score1 = probed /\ DOMAIN score2 = probed /\ ScoresAreNat(score1) /\ ScoresAreNat(score2)
      /\ \A g \in probed : score2[g] = IF g \in originals THEN SqL2(q, Point[g]) ELSE score1[g]
  <2>1. /\ DOMAIN score1 = probed
        /\ \A g \in probed : score1[g] = Adc(q, handles[byHash[g]]) /\ score1[g] \in Nat
    <3>1. /\ DOMAIN Score(q, probed, {}) = probed
          /\ \A g \in probed : /\ Score(q, probed, {})[g] = Adc(q, handles[byHash[g]])
                              /\ Score(q, probed, {})[g] \in Nat
      BY <1>2, ScoreIs
    <3>. QED
      BY <1>3, <3>1
  <2>2. /\ DOMAIN score2 = probed
        /\ \A g \in probed : /\ score2[g] = IF g \in originals THEN SqL2(q, Point[g]) ELSE Adc(q, handles[byHash[g]])
                             /\ score2[g] \in Nat
    <3>1. /\ DOMAIN Score(q, probed, originals) = probed
          /\ \A g \in probed :
               /\ Score(q, probed, originals)[g] = IF g \in originals THEN SqL2(q, Point[g])
                                                   ELSE Adc(q, handles[byHash[g]])
               /\ Score(q, probed, originals)[g] \in Nat
      BY <1>2, ScoreIs
    <3>. QED
      BY <1>3, <3>1
  <2>. QED
    BY <2>1, <2>2 DEF ScoresAreNat
<1>5. CASE rerankK = 0
  <2>1. originals = {} \/ probed = {}
    <3>1. Cardinality(probed) \in Nat /\ (Cardinality(probed) = 0 => probed = {})
      BY <1>2, FS_CardinalityType, FS_EmptySet
    <3>. QED
      BY <1>1, <1>5, <3>1
  <2>2. Score(q, probed, originals) = Score(q, probed, {})
    BY <2>1 DEF Score
  <2>3. SearchRerank(q, nprobe, topK, rerankK, originals) = Search(q, nprobe, topK)
    BY <1>5 DEF SearchRerank
  <2>4. AreBest(Search(q, nprobe, topK), topK, Score(q, Probed(q, nprobe), {}))
    BY SearchIsBest
  <2>. QED
    BY <1>1, <2>2, <2>3, <2>4
<1>6. CASE rerankK # 0
  <2>1. PICK n : n = IF rerankK < topK THEN topK ELSE rerankK
    OBVIOUS
  <2>2. n \in Nat \ {0} /\ topK <= n /\ rerankK <= n
    BY <1>6, <2>1
  <2>3. PICK s : s = Search(q, nprobe, n)
    OBVIOUS
  <2>4. PICK m : m = Len(s)
    OBVIOUS
  <2>5. IsSeq(s) /\ BestHits(s, m, n, score1) /\ m \in Nat
    <3>1. IsSeq(Search(q, nprobe, n)) /\ AreBest(Search(q, nprobe, n), n, Score(q, Probed(q, nprobe), {}))
      BY <2>2, SearchIsBest
    <3>2. IsSeq(s) /\ AreBest(s, n, score1)
      BY <1>1, <1>3, <2>3, <3>1
    <3>3. BestHits(s, m, n, score1)
      BY <2>4, <3>2, BestHitsAre
    <3>. QED
      BY <3>2, <3>3 DEF BestHits
  <2>6. PICK cut : cut = IF rerankK > m THEN m ELSE rerankK
    OBVIOUS
  <2>7. cut \in Nat /\ cut <= m
    BY <2>5, <2>6
  <2>8. originals = {} \/ (cut = m /\ \A g \in DOMAIN score1 : \E i \in 1 .. m : s[i].handle.hash = g)
    <3>1. CASE originals = {}
      BY <3>1
    <3>2. CASE originals # {}
      <4>1. IsFiniteSet(DOMAIN score1) /\ Cardinality(DOMAIN score1) <= rerankK
        <5>1. IsFiniteSet(DOMAIN score1) /\ Cardinality(DOMAIN score1) \in Nat
          BY <1>2, <1>4, FS_CardinalityType
        <5>2. rerankK >= Cardinality(DOMAIN score1)
          BY <1>1, <1>4, <3>2
        <5>. QED
          BY <5>1, <5>2
      <4>2. m <= rerankK /\ \A g \in DOMAIN score1 : \E i \in 1 .. m : s[i].handle.hash = g
        BY <2>2, <2>5, <4>1, AllProbedAreHit
      <4>. QED
        BY <2>5, <2>6, <4>2
    <3>. QED
      BY <3>1, <3>2
  <2>9. RerankOf(q, s, m, n, score1, score2, originals, cut)
    <3>1. \A g \in DOMAIN score1 : g \in Nat /\ handles[byHash[g]].hash = g
      BY <1>2, <1>4, HashIs
    <3>. QED
      BY <1>4, <2>2, <2>4, <2>5, <2>7, <2>8, <3>1 DEF RerankOf
  <2>10. PICK t : t = Reranked(q, s, cut, originals)
    OBVIOUS
  <2>11. IsSeq(t) /\ AreBest(t, n, score2)
    <3>1. IsSeq(t) /\ Len(t) = m /\ BestHits(t, m, n, score2)
      BY <2>9, <2>10, RerankedIsBest
    <3>. QED
      BY <3>1, BestHitsAre
  <2>12. AreBest(Cut(t, topK), topK, score2)
    BY <1>4, <2>2, <2>11, CutIsBest
  <2>13. SearchRerank(q, nprobe, topK, rerankK, originals) = Cut(t, topK)
    <3>1. ~ (rerankK <= 0)
      BY <1>6
    <3>. QED
      BY <2>1, <2>3, <2>4, <2>6, <2>10, <3>1 DEF SearchRerank
  <2>. QED
    BY <1>1, <1>3, <2>12, <2>13
<1>. QED
  BY <1>5, <1>6

LEMMA TieredIsBest ==
  ASSUME IndexAssumption, TrainedIndex, NEW q \in Vectors(Subspaces), NEW topK \in Nat \ {0}, NEW nprobe \in Nat,
         NEW tier \in SUBSET Hashes
  PROVE  AreBest(SearchTiered(q, nprobe, topK, tier), topK,
                 Score(q, Probed(q, nprobe) \union (tier \intersect DOMAIN byHash), tier))
<1>1. CASE tier = {}
  <2>1. Probed(q, nprobe) \union (tier \intersect DOMAIN byHash) = Probed(q, nprobe)
    BY <1>1
  <2>2. SearchTiered(q, nprobe, topK, tier) = Search(q, nprobe, topK)
    BY <1>1 DEF SearchTiered
  <2>3. AreBest(Search(q, nprobe, topK), topK, Score(q, Probed(q, nprobe), {}))
    BY SearchIsBest
  <2>. QED
    BY <1>1, <2>1, <2>2, <2>3
<1>2. CASE tier # {}
  <2>1. SearchTiered(q, nprobe, topK, tier) = WithResidents(q, nprobe, topK, topK + Cardinality(tier), tier)
    BY <1>2 DEF SearchTiered
  <2>2. AreBest(WithResidents(q, nprobe, topK, topK + Cardinality(tier), tier), topK,
                Score(q, Probed(q, nprobe) \union (tier \intersect DOMAIN byHash), tier))
    BY ResidentsAreBest
  <2>. QED
    BY <2>1, <2>2
<1>. QED
  BY <1>1, <1>2

LEMMA SearchesAreBest == ASSUME IndexAssumption, SearchAssumption, IndexInv PROVE SearchIsExact
<1>. SUFFICES ASSUME quant # Untrained, NEW q \in Queries, NEW nprobe \in Wanted, NEW topK \in Wanted
     PROVE  LET probed == Probed(q, nprobe)
            IN  /\ AreBest(Search(q, nprobe, topK), topK, Score(q, probed, {}))
                /\ \A tier \in SUBSET Hashes :
                     AreBest(SearchTiered(q, nprobe, topK, tier), topK,
                             Score(q, probed \union (tier \intersect DOMAIN byHash), tier))
                /\ \A originals \in SUBSET Hashes, rerankK \in Wanted \union {0} :
                     rerankK >= Cardinality(probed) \/ originals = {} =>
                       AreBest(SearchRerank(q, nprobe, topK, rerankK, originals), topK, Score(q, probed, originals))
  BY DEF SearchIsExact
<1>1. TrainedIndex
  BY DEF IndexInv, TrainedIndex
<1>2. q \in Vectors(Subspaces) /\ nprobe \in Nat /\ topK \in Nat \ {0}
  BY DEF SearchAssumption, Coordinates, Vectors
<1>3. AreBest(Search(q, nprobe, topK), topK, Score(q, Probed(q, nprobe), {}))
  BY <1>1, <1>2, SearchIsBest
<1>4. \A tier \in SUBSET Hashes :
        AreBest(SearchTiered(q, nprobe, topK, tier), topK,
                Score(q, Probed(q, nprobe) \union (tier \intersect DOMAIN byHash), tier))
  BY <1>1, <1>2, TieredIsBest
<1>5. ASSUME NEW originals \in SUBSET Hashes, NEW rerankK \in Wanted \union {0},
             rerankK >= Cardinality(Probed(q, nprobe)) \/ originals = {}
      PROVE  AreBest(SearchRerank(q, nprobe, topK, rerankK, originals), topK, Score(q, Probed(q, nprobe), originals))
  <2>1. rerankK \in Nat
    BY DEF SearchAssumption
  <2>. QED
    BY <1>1, <1>2, <1>5, <2>1, RerankIsBest
<1>. QED
  BY <1>3, <1>4, <1>5

\* The index holds each vector once, under its hash and in its cell, and knows it
\* again, whatever was added and however often it was saved and loaded; and every
\* search, plain, with residents or with a re-rank, finds in it the topK nearest of
\* what it promises to look at (ivf.Index).
THEOREM SearchesAreExact == IndexInit /\ [][IndexNext]_indexVars => []IndexSound
<1>0. IndexAssumption /\ SearchAssumption
  BY IndexAssumption, SearchAssumption
<1>1. IndexInit => IndexInv
  BY DEF IndexInit, IndexInv
<1>2. IndexInv /\ [IndexNext]_indexVars => IndexInv'
  BY <1>0, IndexStep
<1>3. IndexInv => IndexSound
  BY <1>0, IndexStored, SearchesAreBest DEF IndexSound
<1>. QED
  BY <1>1, <1>2, <1>3, PTL
===============================================================================
