----------------------------- MODULE JournalProofs -----------------------------
(***************************************************************************)
(* Proofs about the event journal (Journal), for every set of records, all *)
(* frame lengths, every segment size and every number of appends, crashes  *)
(* and failing calls:                                                      *)
(*                                                                         *)
(*   Bounds                   no segment outgrows SegmentMax               *)
(*   AlwaysRecovers           Open never refuses the files                 *)
(*   AcksAreRecoverable       a restart finds what was acknowledged        *)
(*   ReadsWork                so does Read, in the running process         *)
(*   AcksStay                 whatever fails, only a power loss costs a    *)
(*                            record, and only one that was not synced     *)
(*   JournalImplementsLog     the journal implements DurableLog            *)
(*                                                                         *)
(* Where recovery stops is a CHOOSE of the first bad piece. That there is  *)
(* one is the least number principle, which LeastNumber gets from the      *)
(* well-foundedness of < on Nat.                                           *)
(***************************************************************************)
EXTENDS Journal, SequenceTheorems, WellFoundedInduction, TLAPS

LEMMA NatOrder ==
  \E R : IsWellFoundedOn(R, Nat) /\ \A x, y \in Nat : y < x => <<y, x>> \in R
<1>1. IsWellFoundedOn(OpToRel(<, Nat), Nat)
  BY NatLessThanWellFounded
<1>2. \A x, y \in Nat : y < x => <<y, x>> \in OpToRel(<, Nat)
  BY DEF OpToRel
<1>. QED
  BY <1>1, <1>2, Zenon

LEMMA LeastNumber ==
  ASSUME NEW S \in SUBSET Nat, S # {}
  PROVE  \E m \in S : \A k \in S : m <= k
<1>1. PICK R : IsWellFoundedOn(R, Nat) /\ \A x, y \in Nat : y < x => <<y, x>> \in R
  BY NatOrder
<1>2. PICK m \in S : \A y \in S : ~ (<<y, m>> \in R)
  BY <1>1, WFMin
<1>3. \A k \in S : m <= k
  <2>1. SUFFICES ASSUME NEW k \in S PROVE ~ (k < m)
    OBVIOUS
  <2>. QED
    BY <2>1, <1>2, <1>1
<1>. QED
  BY <1>3

-------------------------------------------------------------------------------
(***************************************************************************)
(* What recovery keeps of a sequence of pieces.                            *)
(***************************************************************************)
LEMMA FirstBadIsBad ==
  ASSUME NEW d \in Seq(Piece), Damaged(d)
  PROVE  IsBad(d, FirstBad(d))
<1>1. DOMAIN d = 1 .. Len(d) /\ Len(d) \in Nat
  BY LenProperties
<1>. DEFINE Bad == {b \in DOMAIN d : ~Sound(d[b])}
<1>2. Bad \in SUBSET Nat /\ Bad # {}
  BY <1>1 DEF Damaged
<1>3. PICK b \in Bad : \A k \in Bad : b <= k
  BY <1>2, LeastNumber
<1>4. IsBad(d, b)
  BY <1>1, <1>3 DEF IsBad
<1>. QED
  BY <1>4 DEF FirstBad

\* The good part is the longest run of sound pieces at the start.
LEMMA GoodPartIs ==
  ASSUME NEW d \in Seq(Piece)
  PROVE  /\ GoodPart(d) \in Seq(Piece)
         /\ Len(GoodPart(d)) \in 0 .. Len(d)
         /\ \A i \in 1 .. Len(GoodPart(d)) : GoodPart(d)[i] = d[i] /\ Sound(d[i])
         /\ Damaged(d) => /\ FirstBad(d) = Len(GoodPart(d)) + 1
                          /\ FirstBad(d) \in DOMAIN d /\ ~Sound(d[FirstBad(d)])
         /\ ~Damaged(d) => GoodPart(d) = d
<1>1. DOMAIN d = 1 .. Len(d) /\ Len(d) \in Nat /\ \A i \in 1 .. Len(d) : d[i] \in Piece
  BY LenProperties, ElementOfSeq
<1>2. CASE ~Damaged(d)
  BY <1>1, <1>2 DEF GoodPart, Damaged
<1>3. CASE Damaged(d)
  <2>. PICK b : b = FirstBad(d)
    OBVIOUS
  <2>1. IsBad(d, b)
    BY <1>3, FirstBadIsBad
  <2>2. b \in 1 .. Len(d) /\ ~Sound(d[b]) /\ \A i \in 1 .. b - 1 : Sound(d[i])
    BY <1>1, <2>1 DEF IsBad
  <2>3. GoodPart(d) = SubSeq(d, 1, b - 1)
    BY <1>3 DEF GoodPart
  <2>4. \A i \in 1 .. b - 1 : d[i] \in Piece
    BY <1>1, <2>2
  <2>5. /\ GoodPart(d) \in Seq(Piece)
        /\ Len(GoodPart(d)) = b - 1
        /\ \A i \in 1 .. b - 1 : GoodPart(d)[i] = d[i]
    BY <2>2, <2>3, <2>4, SubSeqProperties
  <2>. QED
    BY <1>1, <1>3, <2>2, <2>5
<1>. QED
  BY <1>2, <1>3

LEMMA GoodLength ==
  ASSUME NEW d \in Seq(Piece), NEW n \in 0 .. Len(d),
         \A i \in 1 .. n : Sound(d[i]),
         n < Len(d) => ~Sound(d[n + 1])
  PROVE  Len(GoodPart(d)) = n
<1>1. DOMAIN d = 1 .. Len(d) /\ Len(d) \in Nat
  BY LenProperties
<1>2. CASE ~Damaged(d)
  BY <1>1, <1>2, GoodPartIs DEF Damaged
<1>3. CASE Damaged(d)
  <2>. PICK g : g = Len(GoodPart(d))
    OBVIOUS
  <2>1. /\ g \in 0 .. Len(d) /\ g + 1 \in 1 .. Len(d) /\ ~Sound(d[g + 1])
        /\ \A i \in 1 .. g : Sound(d[i])
    BY <1>1, <1>3, GoodPartIs
  <2>2. g = n
    BY <1>1, <2>1
  <2>. QED
    BY <2>2
<1>. QED
  BY <1>2, <1>3

\* Sound pieces at the start are in the good part.
LEMMA GoodCovers ==
  ASSUME NEW d \in Seq(Piece), NEW n \in 0 .. Len(d), \A i \in 1 .. n : Sound(d[i])
  PROVE  n <= Len(GoodPart(d))
<1>1. DOMAIN d = 1 .. Len(d) /\ Len(d) \in Nat /\ n \in Nat /\ n <= Len(d)
  BY LenProperties
<1>2. Len(GoodPart(d)) \in Nat
  BY <1>1, GoodPartIs
<1>3. CASE ~Damaged(d)
  BY <1>1, <1>3, GoodPartIs
<1>4. CASE Damaged(d)
  <2>. PICK b : b = FirstBad(d)
    OBVIOUS
  <2>1. b \in 1 .. Len(d) /\ ~Sound(d[b]) /\ b = Len(GoodPart(d)) + 1
    BY <1>1, <1>4, GoodPartIs
  <2>2. ~ (b \in 1 .. n)
    BY <2>1
  <2>. QED
    BY <1>1, <1>2, <2>1, <2>2
<1>. QED
  BY <1>3, <1>4

LEMMA LogOfIs ==
  ASSUME NEW d \in Seq(Piece)
  PROVE  /\ LogOf(d) \in Seq(Records)
         /\ Len(LogOf(d)) = Len(GoodPart(d))
         /\ DOMAIN LogOf(d) = 1 .. Len(GoodPart(d))
         /\ \A i \in 1 .. Len(GoodPart(d)) : LogOf(d)[i] = d[i].rec
<1>1. Len(d) \in Nat /\ Len(GoodPart(d)) \in 0 .. Len(d)
  BY GoodPartIs, LenProperties
<1>. PICK g : g = Len(GoodPart(d))
  OBVIOUS
<1>2. \A i \in 1 .. g : d[i] \in Piece
  BY <1>1, ElementOfSeq
<1>3. \A i \in 1 .. g : d[i].rec \in Records
  BY <1>2 DEF Piece
<1>4. g \in Nat
  BY <1>1
<1>5. LogOf(d) = [i \in 1 .. g |-> d[i].rec]
  BY DEF LogOf
<1>6. LogOf(d) \in Seq(Records)
  BY <1>3, <1>4, <1>5, IsASeq
<1>7. DOMAIN LogOf(d) = 1 .. g /\ \A i \in 1 .. g : LogOf(d)[i] = d[i].rec
  BY <1>5
<1>8. Len(LogOf(d)) = g
  BY <1>4, <1>6, <1>7, LenProperties
<1>. QED
  BY <1>6, <1>7, <1>8

-------------------------------------------------------------------------------
(***************************************************************************)
(* The inductive invariant. Whatever fails, the segments follow each other *)
(* and only the last one grows (Layered). While no call has failed the     *)
(* store knows where its file ends (Aligned). If recovery can read every   *)
(* record besides, then all that is not synced is in the last segment,     *)
(* only the last piece may be torn, and only until recovery has cut it;    *)
(* the directory has one entry per piece (Intact).                         *)
(***************************************************************************)
Running == {"open", "append", "written"}

InOrder(d, top) ==
  /\ \A i, j \in DOMAIN d : i <= j => d[i].seg <= d[j].seg
  /\ \A i \in DOMAIN d : d[i].seg <= top /\ (d[i].whole => d[i].len = Size[d[i].rec])

Layered == InOrder(disk, lastSeg) /\ (pc \in Running => curSeg = lastSeg)

Aligned ==
  /\ \A i \in DOMAIN disk : disk[i].off + disk[i].len <= SegmentMax
  /\ pc \in {"open", "append"} => curOff = FileEnd(disk, curSeg)
  /\ pc = "written" => disk # <<>> /\ disk[Len(disk)] = Frame(pend, curSeg, curOff)

PlaceOf(piece) == [seg |-> piece.seg, off |-> piece.off, size |-> piece.len]

FilesIntact ==
  /\ pc # "refused"
  /\ \A i \in DOMAIN disk : i > firm => disk[i].seg = lastSeg
  /\ \A i \in DOMAIN disk : ~Sound(disk[i]) => i = Len(disk) /\ i > firm /\ pc = "closed"

DirectoryIntact ==
  /\ pc \in Running => \A i \in DOMAIN keydir : keydir[i] = PlaceOf(disk[i])
  /\ pc \in {"open", "append"} => Len(keydir) = Len(disk)
  /\ pc = "written" => Len(keydir) + 1 = Len(disk)

ToldIntact ==
  /\ \A s \in DOMAIN told : s \in DOMAIN disk /\ Sound(disk[s]) /\ disk[s].rec = told[s]
  /\ pc \in Running => DOMAIN told \subseteq DOMAIN keydir

Intact == FilesIntact /\ DirectoryIntact /\ ToldIntact

JournalInv ==
  /\ JournalTypeOK /\ Layered
  /\ NoFaults => Aligned
  /\ Undisturbed => Intact

\* The files after a power loss that leaves k pieces and n bytes of the next one.
CutAt(d, k, n) ==
  IF k < Len(d) /\ n \in 1 .. d[k + 1].len - 1
  THEN Append(SubSeq(d, 1, k), [d[k + 1] EXCEPT !.len = n, !.whole = FALSE])
  ELSE SubSeq(d, 1, k)

LEMMA FrameIsPiece ==
  ASSUME NEW r \in Records, NEW seg \in Nat, NEW off \in Nat
  PROVE  /\ Frame(r, seg, off) \in Piece
         /\ \A n \in Nat : Part(r, seg, off, n) \in Piece
         /\ Size[r] \in 1 .. SegmentMax /\ SegmentMax \in Nat
<1>1. Size[r] \in 1 .. SegmentMax /\ SegmentMax \in Nat
  BY JournalAssumption
<1>. QED
  BY <1>1 DEF Frame, Part, Piece

LEMMA PiecesAre ==
  ASSUME NEW d \in Seq(Piece)
  PROVE  /\ Len(d) \in Nat /\ DOMAIN d = 1 .. Len(d)
         /\ \A i \in 1 .. Len(d) :
              /\ d[i] \in Piece /\ d[i].rec \in Records
              /\ d[i].seg \in Nat /\ d[i].off \in Nat /\ d[i].len \in Nat
<1>1. Len(d) \in Nat /\ DOMAIN d = 1 .. Len(d) /\ \A i \in 1 .. Len(d) : d[i] \in Piece
  BY LenProperties, ElementOfSeq
<1>2. \A p \in Piece : p.rec \in Records /\ p.seg \in Nat /\ p.off \in Nat /\ p.len \in Nat
  BY DEF Piece
<1>. QED
  BY <1>1, <1>2

LEMMA FileEndIs ==
  ASSUME NEW d \in Seq(Piece), NEW seg
  PROVE  /\ FileEnd(d, seg) \in Nat
         /\ (\A i \in DOMAIN d : d[i].seg # seg) => FileEnd(d, seg) = 0
         /\ d # <<>> /\ d[Len(d)].seg = seg => FileEnd(d, seg) = d[Len(d)].off + d[Len(d)].len
<1>1. d # <<>> => Len(d) \in DOMAIN d /\ d[Len(d)] \in Piece
  BY EmptySeq, LenProperties, ElementOfSeq
<1>. QED
  BY <1>1 DEF FileEnd, Piece

LEMMA TornIsPiece ==
  ASSUME NEW p \in Piece, NEW n \in 1 .. p.len - 1
  PROVE  LET last == [p EXCEPT !.len = n, !.whole = FALSE]
         IN /\ last \in Piece /\ last.seg = p.seg /\ last.off = p.off
            /\ last.len <= p.len /\ last.whole = FALSE
<1>1. p.len \in Nat /\ n \in Nat /\ n <= p.len
  BY DEF Piece
<1>2. [p EXCEPT !.len = n, !.whole = FALSE] \in Piece
  BY <1>1, Zenon DEF Piece
<1>3. LET last == [p EXCEPT !.len = n, !.whole = FALSE]
      IN last.seg = p.seg /\ last.off = p.off /\ last.len = n /\ last.whole = FALSE
  BY Zenon DEF Piece
<1>. QED
  BY <1>1, <1>2, <1>3, Zenon

LEMMA CutAtIs ==
  ASSUME NEW d \in Seq(Piece), NEW k \in 0 .. Len(d), NEW n \in Nat
  PROVE  /\ CutAt(d, k, n) \in Seq(Piece)
         /\ Len(CutAt(d, k, n)) \in k .. Len(d) /\ Len(CutAt(d, k, n)) <= k + 1
         /\ \A i \in 1 .. k : CutAt(d, k, n)[i] = d[i]
         /\ \A i \in 1 .. Len(CutAt(d, k, n)) :
              /\ CutAt(d, k, n)[i].seg = d[i].seg /\ CutAt(d, k, n)[i].off = d[i].off
              /\ CutAt(d, k, n)[i].len <= d[i].len
              /\ CutAt(d, k, n)[i].whole => i <= k
<1>1. Len(d) \in Nat /\ \A i \in 1 .. Len(d) : d[i] \in Piece
  BY LenProperties, ElementOfSeq
<1>. DEFINE kept == SubSeq(d, 1, k)
<1>2. /\ kept \in Seq(Piece) /\ Len(kept) = k
      /\ \A i \in 1 .. k : kept[i] = d[i]
  BY <1>1, SubSeqProperties
<1>3. \A i \in 1 .. k : d[i] \in Piece /\ d[i].len <= d[i].len
  BY <1>1 DEF Piece
<1>. HIDE DEF kept
<1>4. CASE k < Len(d) /\ n \in 1 .. d[k + 1].len - 1
  <2>. DEFINE last == [d[k + 1] EXCEPT !.len = n, !.whole = FALSE]
  <2>1. d[k + 1] \in Piece
    BY <1>1, <1>4
  <2>2. /\ last \in Piece /\ last.seg = d[k + 1].seg /\ last.off = d[k + 1].off
        /\ last.len <= d[k + 1].len /\ last.whole = FALSE
    BY <2>1, <1>4, TornIsPiece
  <2>. HIDE DEF last
  <2>3. CutAt(d, k, n) = Append(kept, last)
    BY <1>4 DEF CutAt, kept, last
  <2>4. /\ CutAt(d, k, n) \in Seq(Piece) /\ Len(CutAt(d, k, n)) = k + 1
        /\ \A i \in 1 .. k : CutAt(d, k, n)[i] = kept[i]
        /\ CutAt(d, k, n)[k + 1] = last
    BY <1>2, <2>2, <2>3, AppendProperties
  <2>5. \A i \in 1 .. k + 1 : i \in 1 .. k \/ i = k + 1
    BY <1>1
  <2>. QED
    BY <1>1, <1>2, <1>3, <1>4, <2>2, <2>4, <2>5
<1>5. CASE ~(k < Len(d) /\ n \in 1 .. d[k + 1].len - 1)
  <2>1. CutAt(d, k, n) = kept
    BY <1>5 DEF CutAt, kept
  <2>. QED
    BY <1>1, <1>2, <1>3, <2>1
<1>. QED
  BY <1>4, <1>5

-------------------------------------------------------------------------------
(***************************************************************************)
(* Types.                                                                  *)
(***************************************************************************)
LEMMA JournalTypesInit == Init => JournalTypeOK
<1>1. <<>> \in Seq(Piece) /\ <<>> \in Seq(Location) /\ Len(<<>>) = 0
  BY EmptySeq
<1>2. ASSUME Init PROVE DOMAIN told \subseteq Nat \ {0} /\ told \in [DOMAIN told -> Records]
  <2>1. told = [s \in {} |-> pend]
    BY <1>2 DEF Init
  <2>. QED
    BY <2>1
<1>3. Init => handle \in BOOLEAN
  BY Zenon DEF Init
<1>4. Init => disk \in Seq(Piece) /\ keydir \in Seq(Location) /\ firm \in 0 .. Len(disk)
  BY <1>1 DEF Init
<1>5. Init => /\ lastSeg \in Nat /\ curSeg \in Nat /\ curOff \in Nat
              /\ appends \in Nat /\ crashes \in Nat /\ faults \in Nat
  BY DEF Init
<1>6. Init => pend \in Records /\ pc \in {"closed", "open", "append", "written", "refused"}
  BY DEF Init
<1>. QED
  BY <1>2, <1>3, <1>4, <1>5, <1>6 DEF JournalTypeOK

\* The directory that recovery builds describes the good part.
LEMMA DirectoryIs ==
  ASSUME NEW d \in Seq(Piece)
  PROVE  LET dir == [i \in 1 .. Len(d) |->
                       [seg |-> d[i].seg, off |-> d[i].off, size |-> d[i].len]]
         IN /\ dir \in Seq(Location) /\ Len(dir) = Len(d) /\ DOMAIN dir = 1 .. Len(d)
            /\ \A i \in 1 .. Len(d) : dir[i] = PlaceOf(d[i])
<1>. PICK n : n = Len(d)
  OBVIOUS
<1>1. n \in Nat /\ \A i \in 1 .. n : d[i] \in Piece
  BY LenProperties, ElementOfSeq
<1>2. \A i \in 1 .. n : [seg |-> d[i].seg, off |-> d[i].off, size |-> d[i].len] \in Location
  BY <1>1 DEF Piece, Location
<1>3. [i \in 1 .. n |-> [seg |-> d[i].seg, off |-> d[i].off, size |-> d[i].len]]
        \in Seq(Location)
  BY <1>1, <1>2, IsASeq
<1>. DEFINE dir == [i \in 1 .. n |-> [seg |-> d[i].seg, off |-> d[i].off, size |-> d[i].len]]
<1>4. DOMAIN dir = 1 .. n /\ \A i \in 1 .. n : dir[i] = PlaceOf(d[i])
  BY DEF PlaceOf
<1>5. Len(dir) = n
  BY <1>1, <1>3, <1>4, LenProperties
<1>. QED
  BY <1>3, <1>4, <1>5

LEMMA JournalTypesNext == JournalTypeOK /\ [Next]_vars => JournalTypeOK'
<1> SUFFICES ASSUME JournalTypeOK, [Next]_vars PROVE JournalTypeOK'
  OBVIOUS
<1>1. /\ disk \in Seq(Piece) /\ lastSeg \in Nat /\ firm \in 0 .. Len(disk)
      /\ pc \in {"closed", "open", "append", "written", "refused"}
      /\ pend \in Records /\ keydir \in Seq(Location)
      /\ curSeg \in Nat /\ curOff \in Nat /\ handle \in BOOLEAN
      /\ DOMAIN told \subseteq Nat \ {0} /\ told \in [DOMAIN told -> Records]
      /\ appends \in Nat /\ crashes \in Nat /\ faults \in Nat
  BY DEF JournalTypeOK
<1>2. Len(disk) \in Nat /\ \A i \in 1 .. Len(disk) : disk[i] \in Piece
  BY <1>1, LenProperties, ElementOfSeq
<1>3. /\ Size[pend] \in 1 .. SegmentMax /\ SegmentMax \in Nat
      /\ FileEnd(disk, curSeg) \in Nat
  BY <1>1, FrameIsPiece, FileEndIs
<1>4. \A n \in Nat : LET part == Part(pend, curSeg, FileEnd(disk, curSeg), n)
                     IN /\ Append(disk, part) \in Seq(Piece)
                        /\ Len(Append(disk, part)) = Len(disk) + 1
  BY <1>1, <1>3, FrameIsPiece, AppendProperties
<1>5. CASE Recover
  <2>. DEFINE good == GoodPart(disk)
  <2>1. good \in Seq(Piece) /\ Len(good) \in Nat
    BY <1>1, <1>2, GoodPartIs
  <2>2. /\ keydir' \in Seq(Location) /\ disk' = good
        /\ firm' = IF firm <= Len(good) THEN firm ELSE Len(good)
    BY <1>5, <2>1, DirectoryIs DEF Recover
  <2>3. curOff' \in Nat
    BY <1>5, <2>1, FileEndIs DEF Recover
  <2>4. /\ pc' = "open" /\ curSeg' = lastSeg /\ handle' = TRUE
        /\ UNCHANGED <<lastSeg, pend, told, counters>>
    BY <1>5 DEF Recover
  <2>5. firm' \in 0 .. Len(disk')
    BY <1>1, <1>2, <2>1, <2>2
  <2>. QED
    BY <1>1, <2>1, <2>2, <2>3, <2>4, <2>5 DEF JournalTypeOK, counters
<1>6. CASE RecoverFails \/ Retry \/ WriteRefused \/ SyncFails \/ UNCHANGED vars
  BY <1>1, <1>6
     DEF JournalTypeOK, RecoverFails, Retry, WriteRefused, SyncFails, Fault, vars, diskVars,
         ramVars, counters
<1>7. CASE \E r \in Records : StartAppend(r)
  BY <1>1, <1>7 DEF JournalTypeOK, StartAppend, diskVars, ramVars
<1>8. CASE Rotate \/ RotateUnsynced \/ RotateFails \/ Close
  <2>1. CASE Rotate
    BY <1>1, <1>2, <2>1 DEF JournalTypeOK, Rotate, counters
  <2>2. CASE RotateUnsynced
    BY <1>1, <1>2, <2>2 DEF JournalTypeOK, RotateUnsynced, Fault
  <2>3. CASE RotateFails
    <3>1. handle' \in BOOLEAN
      BY <2>3, Zenon DEF RotateFails
    <3>2. /\ firm' = Len(disk) /\ pc' = "open" /\ faults' \in Nat
          /\ UNCHANGED <<disk, lastSeg, pend, keydir, curSeg, curOff, told, appends, crashes>>
      BY <1>1, <2>3 DEF RotateFails, Fault
    <3>. QED
      BY <1>1, <1>2, <3>1, <3>2 DEF JournalTypeOK
  <2>4. CASE Close
    BY <1>1, <1>2, <2>4 DEF JournalTypeOK, Close, ramVars, counters
  <2>. QED
    BY <1>8, <2>1, <2>2, <2>3, <2>4
<1>9. CASE Write
  <2>1. disk' \in Seq(Piece) /\ Len(disk') = Len(disk) + 1
    BY <1>1, <1>3, <1>9, FrameIsPiece, AppendProperties DEF Write
  <2>. QED
    BY <1>1, <1>2, <1>9, <2>1 DEF JournalTypeOK, Write, ramVars, counters
<1>10. ASSUME NEW sync \in BOOLEAN, Commit(sync) PROVE JournalTypeOK'
  <2>1. Len(keydir) + 1 \in Nat \ {0}
    BY <1>1, LenProperties
  <2>2. [seg |-> curSeg, off |-> curOff, size |-> Size[pend]] \in Location
    BY <1>1, <1>3 DEF Location
  <2>3. keydir' \in Seq(Location)
    BY <1>1, <1>10, <2>2, AppendProperties DEF Commit
  <2>4. DOMAIN told' \subseteq Nat \ {0} /\ told' \in [DOMAIN told' -> Records]
    BY <1>1, <1>10, <2>1 DEF Commit
  <2>5. firm' \in 0 .. Len(disk') /\ curOff' \in Nat
    BY <1>1, <1>2, <1>3, <1>10 DEF Commit
  <2>. QED
    BY <1>1, <1>10, <2>3, <2>4, <2>5 DEF JournalTypeOK, Commit, counters
<1>11. ASSUME NEW n \in Lengths, Kill(n) PROVE JournalTypeOK'
  <2>. DEFINE part == Part(pend, curSeg, FileEnd(disk, curSeg), n)
  <2>0. Append(disk, part) \in Seq(Piece) /\ Len(Append(disk, part)) = Len(disk) + 1
    BY <1>3, <1>4 DEF Lengths
  <2>. HIDE DEF part
  <2>01. disk' = Append(disk, part) \/ disk' = disk
    BY <1>11 DEF Kill, part
  <2>1. disk' \in Seq(Piece) /\ Len(disk') \in Nat /\ Len(disk) <= Len(disk')
    BY <1>1, <1>2, <2>0, <2>01, SMTT(40)
  <2>. QED
    BY <1>1, <1>2, <1>11, <2>1 DEF JournalTypeOK, Kill, ramVars
<1>12. ASSUME NEW n \in Lengths, WriteFails(n) PROVE JournalTypeOK'
  <2>1. disk' \in Seq(Piece) /\ Len(disk') \in Nat /\ Len(disk) <= Len(disk')
    BY <1>1, <1>2, <1>3, <1>4, <1>12 DEF WriteFails, Lengths
  <2>. QED
    BY <1>1, <1>2, <1>12, <2>1 DEF JournalTypeOK, WriteFails, Fault, ramVars
<1>13. ASSUME NEW k \in 0 .. Len(disk), NEW n \in Lengths, PowerLoss(k, n)
       PROVE  JournalTypeOK'
  <2>1. disk' = CutAt(disk, k, n) /\ k >= firm /\ n \in Nat
    BY <1>13, <1>3 DEF PowerLoss, CutAt, Lengths
  <2>. PICK cut : cut = CutAt(disk, k, n)
    OBVIOUS
  <2>0. cut \in Seq(Piece) /\ Len(cut) \in k .. Len(disk)
    BY <1>1, <2>1, CutAtIs
  <2>2. disk' \in Seq(Piece) /\ Len(disk') \in Nat /\ firm <= Len(disk')
    BY <1>1, <1>2, <2>0, <2>1
  <2>3. lastSeg' \in Nat
    <3>1. disk' # <<>> => disk'[Len(disk')] \in Piece
      BY <2>2, ElementOfSeq, EmptySeq
    <3>2. lastSeg' \in {IF disk' = <<>> THEN 0 ELSE disk'[Len(disk')].seg, lastSeg}
      BY <1>13 DEF PowerLoss
    <3>. QED
      BY <1>1, <3>1, <3>2 DEF Piece
  <2>4. DOMAIN told' \subseteq Nat \ {0} /\ told' \in [DOMAIN told' -> Records]
    BY <1>1, <1>13 DEF PowerLoss, UpTo
  <2>5. /\ pc' = "closed" /\ crashes' = crashes + 1
        /\ UNCHANGED <<firm, pend, keydir, curSeg, curOff, handle, appends, faults>>
    BY <1>13 DEF PowerLoss, ramVars
  <2>6. firm' \in 0 .. Len(disk')
    BY <1>1, <2>2, <2>5
  <2>. QED
    BY <1>1, <2>2, <2>3, <2>4, <2>5, <2>6 DEF JournalTypeOK
<1>. QED
  BY <1>5, <1>6, <1>7, <1>8, <1>9, <1>10, <1>11, <1>12, <1>13 DEF Next

-------------------------------------------------------------------------------
(***************************************************************************)
(* The segments follow each other, whatever fails.                         *)
(***************************************************************************)
LEMMA InOrderAppend ==
  ASSUME NEW d \in Seq(Piece), NEW top \in Nat, InOrder(d, top),
         NEW p \in Piece, p.seg = top, p.whole => p.len = Size[p.rec]
  PROVE  InOrder(Append(d, p), top)
<1>1. Len(d) \in Nat /\ DOMAIN d = 1 .. Len(d) /\ \A i \in 1 .. Len(d) : d[i].seg \in Nat
  BY PiecesAre
<1>2. PICK e : e = Append(d, p)
  OBVIOUS
<1>3. /\ e \in Seq(Piece) /\ Len(e) = Len(d) + 1
      /\ \A i \in 1 .. Len(d) : e[i] = d[i]
      /\ e[Len(d) + 1] = p
  BY <1>2, AppendProperties
<1>4. DOMAIN e = 1 .. Len(d) + 1
  BY <1>3, LenProperties
<1>5. \A i \in 1 .. Len(d) + 1 : i \in 1 .. Len(d) \/ i = Len(d) + 1
  BY <1>1
<1>6. \A i \in DOMAIN e : e[i].seg <= top /\ (e[i].whole => e[i].len = Size[e[i].rec])
  BY <1>1, <1>3, <1>4, <1>5 DEF InOrder
<1>7. \A i, j \in DOMAIN e : i <= j => e[i].seg <= e[j].seg
  <2> SUFFICES ASSUME NEW i \in DOMAIN e, NEW j \in DOMAIN e, i <= j
               PROVE  e[i].seg <= e[j].seg
    OBVIOUS
  <2>1. CASE j = Len(d) + 1
    BY <1>3, <1>6, <2>1
  <2>2. CASE j \in 1 .. Len(d)
    <3>1. i \in 1 .. Len(d)
      BY <1>1, <1>4, <2>2
    <3>. QED
      BY <1>1, <1>3, <2>2, <3>1 DEF InOrder
  <2>. QED
    BY <1>4, <1>5, <2>1, <2>2
<1>. QED
  BY <1>2, <1>6, <1>7 DEF InOrder

LEMMA InOrderShorter ==
  ASSUME NEW d \in Seq(Piece), NEW top \in Nat, InOrder(d, top),
         NEW e \in Seq(Piece), Len(e) <= Len(d),
         \A i \in 1 .. Len(e) : e[i].seg = d[i].seg /\ (e[i].whole => e[i] = d[i]),
         NEW newTop \in Nat, e # <<>> => e[Len(e)].seg <= newTop
  PROVE  InOrder(e, newTop)
<1>1. /\ Len(d) \in Nat /\ DOMAIN d = 1 .. Len(d) /\ Len(e) \in Nat /\ DOMAIN e = 1 .. Len(e)
      /\ \A i \in 1 .. Len(d) : d[i].seg \in Nat
  BY PiecesAre
<1>2. DOMAIN e \subseteq DOMAIN d
  BY <1>1
<1>3. \A i, j \in DOMAIN e : i <= j => e[i].seg <= e[j].seg
  BY <1>1, <1>2 DEF InOrder
<1>4. \A i \in DOMAIN e : e[i].seg <= newTop
  <2> SUFFICES ASSUME NEW i \in DOMAIN e PROVE e[i].seg <= newTop
    OBVIOUS
  <2>1. Len(e) \in DOMAIN e /\ i <= Len(e) /\ e # <<>>
    BY <1>1, EmptySeq
  <2>2. e[i].seg <= e[Len(e)].seg /\ e[Len(e)].seg <= newTop
    BY <1>3, <2>1
  <2>3. e[i].seg \in Nat /\ e[Len(e)].seg \in Nat
    BY <1>1, <1>2, <2>1
  <2>. QED
    BY <2>2, <2>3
<1>5. \A i \in DOMAIN e : e[i].whole => e[i].len = Size[e[i].rec]
  BY <1>1, <1>2 DEF InOrder
<1>. QED
  BY <1>3, <1>4, <1>5 DEF InOrder

LEMMA LayeredInit == Init => Layered
<1>1. Init => DOMAIN disk = {}
  BY DEF Init
<1>2. Init => pc \notin Running
  BY DEF Init, Running
<1>. QED
  BY <1>1, <1>2 DEF Layered, InOrder

LEMMA LayeredNext == JournalTypeOK /\ Layered /\ [Next]_vars => Layered'
<1> SUFFICES ASSUME JournalTypeOK, Layered, [Next]_vars PROVE Layered'
  OBVIOUS
<1>1. /\ disk \in Seq(Piece) /\ lastSeg \in Nat /\ firm \in 0 .. Len(disk)
      /\ pend \in Records /\ curSeg \in Nat
  BY DEF JournalTypeOK
<1>2. /\ Len(disk) \in Nat /\ DOMAIN disk = 1 .. Len(disk)
      /\ \A i \in 1 .. Len(disk) : disk[i] \in Piece /\ disk[i].seg \in Nat
  BY <1>1, PiecesAre
<1>3. InOrder(disk, lastSeg) /\ (pc \in Running => curSeg = lastSeg)
  BY DEF Layered
<1>4. \A n \in Nat : LET part == Part(pend, curSeg, FileEnd(disk, curSeg), n)
                     IN part \in Piece /\ part.seg = curSeg /\ part.whole = FALSE
  BY <1>1, FileEndIs, FrameIsPiece DEF Part
<1>5. CASE Recover
  <2>. PICK good : good = GoodPart(disk)
    OBVIOUS
  <2>1. /\ good \in Seq(Piece) /\ Len(good) \in Nat /\ Len(good) <= Len(disk)
        /\ \A i \in 1 .. Len(good) : good[i] = disk[i]
    BY <1>1, <1>2, GoodPartIs
  <2>2. good # <<>> => good[Len(good)].seg <= lastSeg
    <3>1. good # <<>> => Len(good) \in 1 .. Len(good) /\ Len(good) \in 1 .. Len(disk)
      BY <1>2, <2>1, EmptySeq
    <3>. QED
      BY <1>2, <1>3, <2>1, <3>1 DEF InOrder
  <2>3. InOrder(good, lastSeg)
    BY <1>1, <1>3, <2>1, <2>2, InOrderShorter
  <2>4. disk' = good /\ lastSeg' = lastSeg /\ curSeg' = lastSeg
    BY <1>5 DEF Recover
  <2>. QED
    BY <2>3, <2>4 DEF Layered
<1>6. CASE RecoverFails \/ Retry \/ WriteRefused \/ SyncFails \/ UNCHANGED vars
  BY <1>3, <1>6
     DEF Layered, RecoverFails, Retry, WriteRefused, SyncFails, vars, diskVars, ramVars, Running
<1>7. CASE \E r \in Records : StartAppend(r)
  BY <1>3, <1>7 DEF Layered, StartAppend, diskVars, ramVars, Running
<1>8. CASE Rotate \/ RotateUnsynced
  <2>1. disk' = disk /\ lastSeg' = lastSeg + 1 /\ curSeg' = lastSeg + 1
    BY <1>8 DEF Rotate, RotateUnsynced
  <2>2. InOrder(disk, lastSeg + 1)
    BY <1>1, <1>2, <1>3 DEF InOrder
  <2>. QED
    BY <2>1, <2>2 DEF Layered
<1>9. CASE RotateFails \/ Close
  BY <1>3, <1>9 DEF Layered, RotateFails, Close, Running, ramVars
<1>10. CASE Write
  <2>. DEFINE frame == Frame(pend, curSeg, FileEnd(disk, curSeg))
  <2>1. frame \in Piece /\ frame.seg = curSeg /\ frame.len = Size[frame.rec]
    BY <1>1, FileEndIs, FrameIsPiece DEF Frame
  <2>2. /\ disk' = Append(disk, frame) /\ curSeg = lastSeg /\ UNCHANGED <<lastSeg, curSeg>>
    BY <1>3, <1>10 DEF Write, Running, ramVars
  <2>. HIDE DEF frame
  <2>3. InOrder(Append(disk, frame), lastSeg)
    BY <1>1, <1>3, <2>1, <2>2, InOrderAppend
  <2>. QED
    BY <2>2, <2>3 DEF Layered
<1>11. ASSUME NEW sync \in BOOLEAN, Commit(sync) PROVE Layered'
  BY <1>3, <1>11 DEF Layered, Commit, Running
<1>12. ASSUME NEW n \in Lengths, Kill(n) \/ WriteFails(n) PROVE Layered'
  <2>. DEFINE part == Part(pend, curSeg, FileEnd(disk, curSeg), n)
  <2>1. part \in Piece /\ part.seg = curSeg /\ part.whole = FALSE
    BY <1>1, <1>4, FrameIsPiece DEF Lengths
  <2>. HIDE DEF part
  <2>2. disk' = disk \/ (pc = "append" /\ disk' = Append(disk, part))
    BY <1>12 DEF Kill, WriteFails, part
  <2>3. curSeg = lastSeg /\ UNCHANGED <<lastSeg, curSeg>>
    BY <1>3, <1>12 DEF Kill, WriteFails, Running, ramVars
  <2>4. InOrder(Append(disk, part), lastSeg)
    BY <1>1, <1>3, <2>1, <2>3, InOrderAppend
  <2>. QED
    BY <1>3, <2>2, <2>3, <2>4 DEF Layered
<1>13. ASSUME NEW k \in 0 .. Len(disk), NEW n \in Lengths, PowerLoss(k, n) PROVE Layered'
  <2>. PICK cut : cut = CutAt(disk, k, n)
    OBVIOUS
  <2>1. disk' = cut /\ pc' = "closed"
    BY <1>13 DEF PowerLoss, CutAt
  <2>2. n \in Nat
    BY <1>1, FrameIsPiece DEF Lengths
  <2>3. /\ cut \in Seq(Piece) /\ Len(cut) \in k .. Len(disk)
        /\ \A i \in 1 .. k : cut[i] = disk[i]
        /\ \A i \in 1 .. Len(cut) : cut[i].seg = disk[i].seg /\ (cut[i].whole => i <= k)
    BY <1>1, <2>2, CutAtIs
  <2>4. \A i \in 1 .. Len(cut) : cut[i].seg = disk[i].seg /\ (cut[i].whole => cut[i] = disk[i])
    BY <1>2, <2>3
  <2>5. cut # <<>> => Len(cut) \in 1 .. Len(cut) /\ Len(cut) \in 1 .. Len(disk)
    BY <1>2, <2>3, EmptySeq
  <2>6. lastSeg' \in Nat /\ (cut # <<>> => cut[Len(cut)].seg <= lastSeg')
    <3>1. lastSeg' \in {IF cut = <<>> THEN 0 ELSE cut[Len(cut)].seg, lastSeg}
      BY <1>13, <2>1 DEF PowerLoss
    <3>2. cut # <<>> => cut[Len(cut)].seg \in Nat /\ cut[Len(cut)].seg <= lastSeg
      BY <1>2, <1>3, <2>4, <2>5 DEF InOrder
    <3>. QED
      BY <1>1, <3>1, <3>2
  <2>7. InOrder(cut, lastSeg')
    BY <1>1, <1>2, <1>3, <2>3, <2>4, <2>6, InOrderShorter
  <2>. QED
    BY <2>1, <2>7 DEF Layered, Running
<1>. QED
  BY <1>5, <1>6, <1>7, <1>8, <1>9, <1>10, <1>11, <1>12, <1>13 DEF Next

-------------------------------------------------------------------------------
(***************************************************************************)
(* While no call has failed, the store knows where its file ends, and no   *)
(* segment outgrows SegmentMax.                                            *)
(***************************************************************************)
LEMMA AlignedInit == Init => Aligned
<1>1. Init => DOMAIN disk = {} /\ pc = "closed"
  BY DEF Init
<1>. QED
  BY <1>1 DEF Aligned

LEMMA NoFaultsBefore == JournalTypeOK /\ [Next]_vars /\ NoFaults' => NoFaults
<1> SUFFICES ASSUME JournalTypeOK, [Next]_vars, faults' = 0 PROVE faults = 0
  BY DEF NoFaults
<1>1. faults \in Nat
  BY DEF JournalTypeOK
<1>2. CASE Fault
  BY <1>1, <1>2 DEF Fault
<1>3. CASE faults' = faults
  BY <1>3
<1>4. Fault \/ faults' = faults
  BY DEF Next, Recover, RecoverFails, Retry, StartAppend, Rotate, Write, WriteRefused, Close,
         Commit, Kill, PowerLoss, WriteFails, SyncFails, RotateUnsynced, RotateFails, vars,
         counters
<1>. QED
  BY <1>2, <1>3, <1>4

LEMMA AlignedNext ==
  JournalTypeOK /\ Layered /\ (NoFaults => Aligned) /\ [Next]_vars => (NoFaults' => Aligned')
<1> SUFFICES ASSUME JournalTypeOK, Layered, NoFaults => Aligned, [Next]_vars, NoFaults'
             PROVE  Aligned'
  OBVIOUS
<1>1. /\ disk \in Seq(Piece) /\ lastSeg \in Nat /\ firm \in 0 .. Len(disk)
      /\ pend \in Records /\ curSeg \in Nat /\ curOff \in Nat /\ faults \in Nat
  BY DEF JournalTypeOK
<1>2. /\ Len(disk) \in Nat /\ DOMAIN disk = 1 .. Len(disk)
      /\ \A i \in 1 .. Len(disk) :
           disk[i] \in Piece /\ disk[i].seg \in Nat /\ disk[i].off \in Nat /\ disk[i].len \in Nat
  BY <1>1, PiecesAre
<1>3. Size[pend] \in Nat /\ SegmentMax \in Nat
  BY <1>1, FrameIsPiece
<1>4. Aligned
  BY NoFaultsBefore
<1>5. \A i \in 1 .. Len(disk) : disk[i].off + disk[i].len <= SegmentMax
  BY <1>2, <1>4 DEF Aligned
<1>6. pc \in {"open", "append"} => curOff = FileEnd(disk, curSeg)
  BY <1>4 DEF Aligned
<1>7. ~Fault
  <2>1. Fault => faults' # 0
    BY <1>1 DEF Fault
  <2>. QED
    BY <2>1 DEF NoFaults
<1>8. CASE Recover
  <2>. PICK good : good = GoodPart(disk)
    OBVIOUS
  <2>1. /\ good \in Seq(Piece) /\ Len(good) \in Nat /\ Len(good) <= Len(disk)
        /\ \A i \in 1 .. Len(good) : good[i] = disk[i]
        /\ DOMAIN good = 1 .. Len(good)
    BY <1>1, <1>2, GoodPartIs, LenProperties, SMTT(40)
  <2>2. \A i \in DOMAIN good : good[i].off + good[i].len <= SegmentMax
    BY <1>2, <1>5, <2>1
  <2>3. disk' = good /\ pc' = "open" /\ curSeg' = lastSeg /\ curOff' = FileEnd(good, lastSeg)
    BY <1>8 DEF Recover
  <2>. QED
    BY <2>2, <2>3 DEF Aligned
<1>9. CASE RecoverFails \/ Retry \/ WriteRefused \/ UNCHANGED vars
  BY <1>4, <1>9
     DEF Aligned, RecoverFails, Retry, WriteRefused, vars, diskVars, ramVars
<1>10. CASE \E r \in Records : StartAppend(r)
  BY <1>4, <1>10 DEF Aligned, StartAppend, diskVars, ramVars
<1>11. CASE Rotate
  <2>1. disk' = disk /\ curSeg' = lastSeg + 1 /\ curOff' = 0 /\ pc' = "append"
    BY <1>11 DEF Rotate
  <2>2. \A i \in DOMAIN disk : disk[i].seg # lastSeg + 1
    BY <1>1, <1>2 DEF Layered, InOrder
  <2>3. FileEnd(disk, lastSeg + 1) = 0
    BY <1>1, <2>2, FileEndIs
  <2>. QED
    BY <1>2, <1>5, <2>1, <2>3 DEF Aligned
<1>12. CASE Close
  BY <1>4, <1>12 DEF Aligned, Close, ramVars
<1>13. CASE Write
  <2>. DEFINE frame == Frame(pend, curSeg, curOff)
  <2>1. /\ frame \in Piece /\ frame.off = curOff /\ frame.len = Size[pend]
    BY <1>1, FrameIsPiece DEF Frame
  <2>2. /\ disk' = Append(disk, frame) /\ pc' = "written"
        /\ UNCHANGED <<pend, curSeg, curOff>>
    BY <1>6, <1>13 DEF Write, ramVars
  <2>3. curOff + Size[pend] <= SegmentMax
    BY <1>1, <1>3, <1>13 DEF Write, RotationNeeded
  <2>4. frame = Frame(pend, curSeg, curOff)
    OBVIOUS
  <2>. HIDE DEF frame
  <2>5. /\ disk' \in Seq(Piece) /\ disk' # <<>> /\ Len(disk') = Len(disk) + 1
        /\ \A i \in 1 .. Len(disk) : disk'[i] = disk[i]
        /\ disk'[Len(disk) + 1] = frame
    BY <1>1, <2>1, <2>2, AppendProperties
  <2>6. \A i \in DOMAIN disk' : i \in 1 .. Len(disk) \/ i = Len(disk) + 1
    BY <1>2, <2>5, LenProperties
  <2>7. \A i \in DOMAIN disk' : disk'[i].off + disk'[i].len <= SegmentMax
    BY <1>5, <2>1, <2>3, <2>5, <2>6
  <2>8. disk'[Len(disk')] = Frame(pend', curSeg', curOff')
    BY <2>2, <2>4, <2>5
  <2>. QED
    BY <2>2, <2>5, <2>7, <2>8 DEF Aligned
<1>14. ASSUME NEW sync \in BOOLEAN, Commit(sync) PROVE Aligned'
  <2>1. disk # <<>> /\ disk[Len(disk)] = Frame(pend, curSeg, curOff)
    BY <1>4, <1>14 DEF Aligned, Commit
  <2>2. disk[Len(disk)].seg = curSeg /\ disk[Len(disk)].off + disk[Len(disk)].len = curOff + Size[pend]
    BY <2>1 DEF Frame
  <2>3. FileEnd(disk, curSeg) = curOff + Size[pend]
    BY <1>1, <2>1, <2>2, FileEndIs
  <2>4. disk' = disk /\ curSeg' = curSeg /\ curOff' = curOff + Size[pend] /\ pc' = "open"
    BY <1>14 DEF Commit
  <2>. QED
    BY <1>2, <1>5, <2>3, <2>4 DEF Aligned
<1>15. ASSUME NEW n \in Lengths, Kill(n) PROVE Aligned'
  <2>. DEFINE part == Part(pend, curSeg, FileEnd(disk, curSeg), n)
  <2>0. n \in Nat
    BY <1>3 DEF Lengths
  <2>01. part \in Piece
    BY <1>1, <2>0, FileEndIs, FrameIsPiece
  <2>1. part \in Piece /\ part.off = FileEnd(disk, curSeg) /\ part.len = n /\ n \in Nat
    BY <2>0, <2>01, Zenon DEF Part
  <2>. HIDE DEF part
  <2>2. pc' = "closed"
    BY <1>15 DEF Kill
  <2>3. CASE disk' = disk
    BY <1>2, <1>5, <2>2, <2>3 DEF Aligned
  <2>4. CASE disk' # disk
    <3>1. /\ disk' = Append(disk, part) /\ n <= Size[pend] /\ pc = "append"
          /\ curOff + Size[pend] <= SegmentMax
      BY <1>1, <1>3, <1>15, <2>1, <2>4 DEF Kill, RotationNeeded, part
    <3>2. part.off + part.len <= SegmentMax
      BY <1>1, <1>3, <1>6, <2>1, <3>1
    <3>3. /\ disk' \in Seq(Piece) /\ Len(disk') = Len(disk) + 1
          /\ \A i \in 1 .. Len(disk) : disk'[i] = disk[i]
          /\ disk'[Len(disk) + 1] = part
      BY <1>1, <2>1, <3>1, AppendProperties
    <3>4. \A i \in DOMAIN disk' : i \in 1 .. Len(disk) \/ i = Len(disk) + 1
      BY <1>2, <3>3, LenProperties
    <3>5. \A i \in DOMAIN disk' : disk'[i].off + disk'[i].len <= SegmentMax
      BY <1>5, <3>2, <3>3, <3>4
    <3>. QED
      BY <2>2, <3>5 DEF Aligned
  <2>. QED
    BY <2>3, <2>4
<1>16. ASSUME NEW k \in 0 .. Len(disk), NEW n \in Lengths, PowerLoss(k, n) PROVE Aligned'
  <2>. PICK cut : cut = CutAt(disk, k, n)
    OBVIOUS
  <2>1. disk' = cut /\ pc' = "closed"
    BY <1>16 DEF PowerLoss, CutAt
  <2>2. n \in Nat
    BY <1>3 DEF Lengths
  <2>3. /\ cut \in Seq(Piece) /\ Len(cut) \in k .. Len(disk)
        /\ \A i \in 1 .. Len(cut) : cut[i].off = disk[i].off /\ cut[i].len <= disk[i].len
    BY <1>1, <2>2, CutAtIs
  <2>4. DOMAIN cut = 1 .. Len(cut) /\ \A i \in 1 .. Len(cut) : cut[i].len \in Nat
    BY <2>3, PiecesAre
  <2>5. \A i \in DOMAIN cut : cut[i].off + cut[i].len <= SegmentMax
    BY <1>2, <1>3, <1>5, <2>3, <2>4
  <2>. QED
    BY <2>1, <2>5 DEF Aligned
<1>17. ~ (SyncFails \/ RotateUnsynced \/ RotateFails \/ \E n \in Lengths : WriteFails(n))
  BY <1>7 DEF SyncFails, RotateUnsynced, RotateFails, WriteFails
<1>. QED
  BY <1>8, <1>9, <1>10, <1>11, <1>12, <1>13, <1>14, <1>15, <1>16, <1>17 DEF Next

-------------------------------------------------------------------------------
(***************************************************************************)
(* While no call has failed and recovery can read every record: what is    *)
(* not synced is in the last segment, and only its end may be torn.        *)
(***************************************************************************)
LEMMA SoundFrame ==
  ASSUME Readable, NEW r \in Records, NEW seg, NEW off
  PROVE  Sound(Frame(r, seg, off))
BY Zenon DEF Readable, Sound, Frame

\* Where recovery would stop, all that counts as synced lies before it.
LEMMA FirmIsSound ==
  ASSUME JournalTypeOK, FilesIntact
  PROVE  /\ firm <= Len(GoodPart(disk))
         /\ \A i \in 1 .. firm : Sound(disk[i])
         /\ Len(GoodPart(SubSeq(disk, 1, firm))) = firm
<1>1. disk \in Seq(Piece) /\ firm \in 0 .. Len(disk)
  BY DEF JournalTypeOK
<1>2. /\ Len(disk) \in Nat /\ DOMAIN disk = 1 .. Len(disk)
      /\ \A i \in 1 .. Len(disk) : disk[i] \in Piece
  BY <1>1, PiecesAre
<1>3. \A i \in 1 .. firm : Sound(disk[i])
  <2> SUFFICES ASSUME NEW i \in 1 .. firm, ~Sound(disk[i]) PROVE FALSE
    OBVIOUS
  <2>1. i \in DOMAIN disk
    BY <1>1, <1>2
  <2>2. i > firm
    BY <2>1 DEF FilesIntact
  <2>. QED
    BY <1>1, <2>2
<1>4. firm <= Len(GoodPart(disk))
  BY <1>1, <1>3, GoodCovers
<1>. PICK e : e = SubSeq(disk, 1, firm)
  OBVIOUS
<1>5. e \in Seq(Piece) /\ Len(e) = firm /\ \A i \in 1 .. firm : e[i] = disk[i]
  BY <1>1, <1>2, SubSeqProperties
<1>6. firm \in 0 .. Len(e) /\ ~(firm < Len(e)) /\ \A i \in 1 .. firm : Sound(e[i])
  BY <1>1, <1>2, <1>3, <1>5
<1>7. Len(GoodPart(e)) = firm
  BY <1>5, <1>6, GoodLength
<1>. QED
  BY <1>3, <1>4, <1>7

LEMMA FilesNext ==
  JournalTypeOK /\ Layered /\ (NoFaults => Aligned) /\ FilesIntact /\ Undisturbed'
    /\ [Next]_vars => FilesIntact'
<1> SUFFICES ASSUME JournalTypeOK, Layered, NoFaults => Aligned, FilesIntact, Undisturbed',
                    [Next]_vars
             PROVE  FilesIntact'
  OBVIOUS
<1>1. /\ disk \in Seq(Piece) /\ lastSeg \in Nat /\ firm \in 0 .. Len(disk)
      /\ pend \in Records /\ curSeg \in Nat /\ faults \in Nat
  BY DEF JournalTypeOK
<1>2. /\ Len(disk) \in Nat /\ DOMAIN disk = 1 .. Len(disk)
      /\ \A i \in 1 .. Len(disk) : disk[i] \in Piece
      /\ SegmentMax \in Nat
  BY <1>1, PiecesAre, JournalAssumption
<1>3. Readable
  BY DEF Undisturbed, Readable
<1>4. /\ pc # "refused"
      /\ \A i \in 1 .. Len(disk) : i > firm => disk[i].seg = lastSeg
      /\ \A i \in 1 .. Len(disk) : ~Sound(disk[i]) => i = Len(disk) /\ i > firm /\ pc = "closed"
  BY <1>2 DEF FilesIntact
<1>5. pc \in Running => curSeg = lastSeg
  BY DEF Layered
<1>6. ~Fault
  <2>1. Fault => faults' # 0
    BY <1>1 DEF Fault
  <2>. QED
    BY <2>1 DEF Undisturbed, NoFaults
<1>7. CASE Recover
  <2>. PICK good : good = GoodPart(disk)
    OBVIOUS
  <2>1. /\ good \in Seq(Piece) /\ Len(good) \in Nat /\ Len(good) <= Len(disk)
        /\ \A i \in 1 .. Len(good) : good[i] = disk[i] /\ Sound(disk[i])
        /\ DOMAIN good = 1 .. Len(good)
    BY <1>1, <1>2, GoodPartIs, LenProperties
  <2>2. firm <= Len(good)
    BY FirmIsSound
  <2>3. disk' = good /\ pc' = "open" /\ firm' = firm /\ lastSeg' = lastSeg
    BY <1>7, <2>2 DEF Recover
  <2>4. \A i \in DOMAIN good : i \in 1 .. Len(disk) /\ good[i] = disk[i] /\ Sound(good[i])
    BY <1>2, <2>1
  <2>. QED
    BY <1>4, <2>3, <2>4 DEF FilesIntact
<1>8. ~RecoverFails
  <2> SUFFICES ASSUME Damaged(disk), disk[FirstBad(disk)].seg # lastSeg PROVE FALSE
    BY DEF RecoverFails
  <2>1. FirstBad(disk) \in 1 .. Len(disk) /\ ~Sound(disk[FirstBad(disk)])
    BY <1>1, <1>2, GoodPartIs
  <2>. QED
    BY <1>4, <2>1
<1>9. ~Retry
  BY <1>4 DEF Retry
<1>10. CASE WriteRefused \/ UNCHANGED vars \/ \E r \in Records : StartAppend(r)
  BY <1>10 DEF FilesIntact, WriteRefused, StartAppend, vars, diskVars, ramVars
<1>11. CASE Rotate
  <2>1. disk' = disk /\ firm' = Len(disk) /\ pc = "append" /\ pc' = pc
    BY <1>11 DEF Rotate
  <2>. QED
    BY <1>2, <1>4, <2>1 DEF FilesIntact
<1>12. CASE Close
  <2>1. /\ disk' = disk /\ firm' \in {firm, Len(disk)} /\ lastSeg' = lastSeg
        /\ pc = "open" /\ pc' = "closed"
    BY <1>12 DEF Close
  <2>. QED
    BY <1>1, <1>2, <1>4, <2>1 DEF FilesIntact
<1>13. CASE Write
  <2>. DEFINE frame == Frame(pend, curSeg, FileEnd(disk, curSeg))
  <2>1. frame \in Piece /\ frame.seg = curSeg
    BY <1>1, FileEndIs, FrameIsPiece DEF Frame
  <2>2. Sound(frame)
    BY <1>1, <1>3, SoundFrame
  <2>3. /\ disk' = Append(disk, frame) /\ pc' = "written" /\ pc = "append"
        /\ UNCHANGED <<lastSeg, firm>>
    BY <1>13 DEF Write
  <2>. HIDE DEF frame
  <2>4. /\ disk' \in Seq(Piece) /\ Len(disk') = Len(disk) + 1
        /\ \A i \in 1 .. Len(disk) : disk'[i] = disk[i]
        /\ disk'[Len(disk) + 1] = frame
    BY <1>1, <2>1, <2>3, AppendProperties
  <2>5. \A i \in DOMAIN disk' : i \in 1 .. Len(disk) \/ i = Len(disk) + 1
    BY <1>2, <2>4, LenProperties
  <2>6. \A i \in DOMAIN disk' : Sound(disk'[i])
    BY <1>4, <2>2, <2>3, <2>4, <2>5
  <2>7. \A i \in DOMAIN disk' : i > firm => disk'[i].seg = lastSeg
    BY <1>4, <1>5, <2>1, <2>3, <2>4, <2>5 DEF Running
  <2>. QED
    BY <2>3, <2>6, <2>7 DEF FilesIntact
<1>14. ASSUME NEW sync \in BOOLEAN, Commit(sync) PROVE FilesIntact'
  <2>1. /\ disk' = disk /\ firm' \in {firm, Len(disk)} /\ lastSeg' = lastSeg
        /\ pc = "written" /\ pc' = "open"
    BY <1>14 DEF Commit
  <2>. QED
    BY <1>1, <1>2, <1>4, <2>1 DEF FilesIntact
<1>15. ASSUME NEW n \in Lengths, Kill(n) PROVE FilesIntact'
  <2>. DEFINE part == Part(pend, curSeg, FileEnd(disk, curSeg), n)
  <2>0. n \in Nat
    BY <1>2 DEF Lengths
  <2>01. part \in Piece
    BY <1>1, <2>0, FileEndIs, FrameIsPiece
  <2>1. part \in Piece /\ part.seg = curSeg
    BY <2>01, Zenon DEF Part
  <2>. HIDE DEF part
  <2>2. /\ pc' = "closed" /\ pc \in Running /\ UNCHANGED <<lastSeg, firm>>
        /\ disk' \in {disk, Append(disk, part)}
    BY <1>15 DEF Kill, part, Running
  <2>3. CASE disk' = disk
    BY <1>2, <1>4, <2>2, <2>3 DEF FilesIntact
  <2>4. CASE disk' = Append(disk, part)
    <3>1. /\ disk' \in Seq(Piece) /\ Len(disk') = Len(disk) + 1
          /\ \A i \in 1 .. Len(disk) : disk'[i] = disk[i]
          /\ disk'[Len(disk) + 1] = part
      BY <1>1, <2>1, <2>4, AppendProperties
    <3>2. \A i \in DOMAIN disk' : i \in 1 .. Len(disk) \/ i = Len(disk) + 1
      BY <1>2, <3>1, LenProperties
    <3>3. \A i \in DOMAIN disk' : i > firm => disk'[i].seg = lastSeg
      BY <1>4, <1>5, <2>1, <2>2, <3>1, <3>2
    <3>4. \A i \in DOMAIN disk' : ~Sound(disk'[i]) => i = Len(disk) + 1
      BY <1>4, <2>2, <3>1, <3>2 DEF Running
    <3>5. Len(disk) + 1 > firm
      BY <1>1, <1>2
    <3>. QED
      BY <2>2, <3>1, <3>3, <3>4, <3>5 DEF FilesIntact
  <2>. QED
    BY <2>2, <2>3, <2>4
<1>16. ASSUME NEW k \in 0 .. Len(disk), NEW n \in Lengths, PowerLoss(k, n)
       PROVE  FilesIntact'
  <2>. PICK cut : cut = CutAt(disk, k, n)
    OBVIOUS
  <2>1. disk' = cut /\ pc' = "closed" /\ firm' = firm /\ firm <= k
    BY <1>1, <1>2, <1>16 DEF PowerLoss, CutAt
  <2>2. n \in Nat
    BY <1>2 DEF Lengths
  <2>3. /\ cut \in Seq(Piece) /\ Len(cut) \in k .. Len(disk) /\ Len(cut) <= k + 1
        /\ \A i \in 1 .. k : cut[i] = disk[i]
        /\ \A i \in 1 .. Len(cut) : cut[i].seg = disk[i].seg
    BY <1>1, <2>2, CutAtIs
  <2>4. DOMAIN cut = 1 .. Len(cut)
    BY <2>3, PiecesAre
  <2>5. ASSUME NEW i \in DOMAIN cut, i > firm PROVE cut[i].seg = lastSeg'
    <3>1. cut # <<>> /\ Len(cut) \in 1 .. Len(cut) /\ Len(cut) > firm
      BY <1>1, <1>2, <2>3, <2>4, <2>5, EmptySeq
    <3>2. i \in 1 .. Len(disk) /\ Len(cut) \in 1 .. Len(disk)
      BY <1>2, <2>3, <2>4, <3>1
    <3>3. cut[Len(cut)].seg = lastSeg /\ cut[i].seg = lastSeg
      BY <1>4, <2>3, <2>4, <2>5, <3>1, <3>2
    <3>4. lastSeg' \in {cut[Len(cut)].seg, lastSeg}
      BY <1>16, <2>1, <3>1 DEF PowerLoss
    <3>. QED
      BY <3>3, <3>4
  <2>6. ASSUME NEW i \in DOMAIN cut, ~Sound(cut[i]) PROVE i = Len(cut) /\ i > firm
    <3>1. CASE i \in 1 .. k
      <4>1. i \in 1 .. Len(disk) /\ ~Sound(disk[i])
        BY <1>2, <2>3, <2>6, <3>1
      <4>2. i = Len(disk) /\ i > firm
        BY <1>4, <4>1
      <4>3. Len(cut) \in Nat /\ i <= Len(cut) /\ Len(cut) <= Len(disk)
        BY <1>2, <2>3, <2>4
      <4>. QED
        BY <1>2, <4>2, <4>3
    <3>2. CASE i > k
      BY <1>1, <1>2, <2>1, <2>3, <2>4, <3>2
    <3>. QED
      BY <1>2, <2>3, <2>4, <3>1, <3>2
  <2>. QED
    BY <2>1, <2>5, <2>6 DEF FilesIntact
<1>17. ~ (SyncFails \/ RotateUnsynced \/ RotateFails \/ \E n \in Lengths : WriteFails(n))
  BY <1>6 DEF SyncFails, RotateUnsynced, RotateFails, WriteFails
<1>. QED
  BY <1>7, <1>8, <1>9, <1>10, <1>11, <1>12, <1>13, <1>14, <1>15, <1>16, <1>17 DEF Next

-------------------------------------------------------------------------------
(***************************************************************************)
(* The directory has the place of every piece, and what was acknowledged   *)
(* is a sound piece under its number.                                      *)
(***************************************************************************)
LEMMA CommitPlaces ==
  ASSUME JournalTypeOK, Aligned, DirectoryIntact, pc = "written"
  PROVE  /\ disk # <<>> /\ Len(disk) \in DOMAIN disk /\ Len(disk) = Len(keydir) + 1
         /\ disk[Len(disk)] = Frame(pend, curSeg, curOff)
         /\ PlaceOf(disk[Len(disk)]) = [seg |-> curSeg, off |-> curOff, size |-> Size[pend]]
<1>1. disk \in Seq(Piece)
  BY DEF JournalTypeOK
<1>2. disk # <<>> /\ disk[Len(disk)] = Frame(pend, curSeg, curOff)
  BY DEF Aligned
<1>3. Len(disk) \in DOMAIN disk
  BY <1>1, <1>2, EmptySeq, LenProperties
<1>4. PlaceOf(disk[Len(disk)]) = [seg |-> curSeg, off |-> curOff, size |-> Size[pend]]
  <2>1. PlaceOf(Frame(pend, curSeg, curOff))
          = [seg |-> curSeg, off |-> curOff, size |-> Size[pend]]
    BY DEF PlaceOf, Frame
  <2>. QED
    BY <1>2, <2>1
<1>5. Len(disk) = Len(keydir) + 1
  BY DEF DirectoryIntact
<1>. QED
  BY <1>2, <1>3, <1>4, <1>5

LEMMA DirectoryNext ==
  ASSUME JournalTypeOK, Aligned, DirectoryIntact, Undisturbed', [Next]_vars
  PROVE  DirectoryIntact'
<1>1. disk \in Seq(Piece) /\ keydir \in Seq(Location) /\ faults \in Nat /\ pend \in Records
      /\ curSeg \in Nat /\ curOff \in Nat
  BY DEF JournalTypeOK
<1>2. /\ Len(disk) \in Nat /\ DOMAIN disk = 1 .. Len(disk)
      /\ Len(keydir) \in Nat /\ DOMAIN keydir = 1 .. Len(keydir)
  BY <1>1, LenProperties
<1>3. /\ pc \in Running => \A i \in DOMAIN keydir : keydir[i] = PlaceOf(disk[i])
      /\ pc \in {"open", "append"} => Len(keydir) = Len(disk)
      /\ pc = "written" => Len(keydir) + 1 = Len(disk)
  BY DEF DirectoryIntact
<1>4. ~Fault
  <2>1. Fault => faults' # 0
    BY <1>1 DEF Fault
  <2>. QED
    BY <2>1 DEF Undisturbed, NoFaults
<1>5. CASE Recover
  <2>. PICK good : good = GoodPart(disk)
    OBVIOUS
  <2>1. good \in Seq(Piece)
    BY <1>1, GoodPartIs
  <2>. DEFINE dir == [i \in 1 .. Len(good) |->
                        [seg |-> good[i].seg, off |-> good[i].off, size |-> good[i].len]]
  <2>2. Len(dir) = Len(good) /\ DOMAIN dir = 1 .. Len(good)
        /\ \A i \in 1 .. Len(good) : dir[i] = PlaceOf(good[i])
    BY <2>1, DirectoryIs
  <2>3. disk' = good /\ keydir' = dir /\ pc' = "open"
    BY <1>5 DEF Recover
  <2>. HIDE DEF dir
  <2>. QED
    BY <2>2, <2>3 DEF DirectoryIntact
<1>6. CASE WriteRefused \/ UNCHANGED vars \/ Rotate \/ \E r \in Records : StartAppend(r)
  BY <1>3, <1>6
     DEF DirectoryIntact, WriteRefused, StartAppend, Rotate, vars, diskVars, ramVars, Running
<1>7. CASE Write
  <2>. DEFINE frame == Frame(pend, curSeg, FileEnd(disk, curSeg))
  <2>1. frame \in Piece
    BY <1>1, FileEndIs, FrameIsPiece
  <2>2. /\ disk' = Append(disk, frame) /\ pc' = "written" /\ pc = "append" /\ keydir' = keydir
    BY <1>7 DEF Write, ramVars
  <2>. HIDE DEF frame
  <2>3. /\ Len(disk') = Len(disk) + 1 /\ \A i \in 1 .. Len(disk) : disk'[i] = disk[i]
    BY <1>1, <2>1, <2>2, AppendProperties
  <2>4. Len(keydir) = Len(disk) /\ \A i \in DOMAIN keydir : keydir[i] = PlaceOf(disk[i])
    BY <1>3, <2>2 DEF Running
  <2>5. \A i \in DOMAIN keydir : keydir[i] = PlaceOf(disk'[i])
    BY <1>2, <2>3, <2>4
  <2>. QED
    BY <2>2, <2>3, <2>4, <2>5 DEF DirectoryIntact
<1>8. ASSUME NEW sync \in BOOLEAN, Commit(sync) PROVE DirectoryIntact'
  <2>. PICK place : place = PlaceOf(disk[Len(disk)])
    OBVIOUS
  <2>1. pc = "written"
    BY <1>8 DEF Commit
  <2>2. /\ Len(disk) = Len(keydir) + 1
        /\ place = [seg |-> curSeg, off |-> curOff, size |-> Size[pend]]
    BY <2>1, CommitPlaces
  <2>3. place \in Location
    BY <1>1, <2>2, FrameIsPiece DEF Location
  <2>4. disk' = disk /\ keydir' = Append(keydir, place) /\ pc' = "open"
    BY <1>8, <2>2 DEF Commit
  <2>5. /\ keydir' \in Seq(Location) /\ Len(keydir') = Len(keydir) + 1
        /\ \A i \in 1 .. Len(keydir) : keydir'[i] = keydir[i]
        /\ keydir'[Len(keydir) + 1] = place
    BY <1>1, <2>3, <2>4, AppendProperties
  <2>6. \A i \in DOMAIN keydir' : i \in 1 .. Len(keydir) \/ i = Len(keydir) + 1
    BY <1>2, <2>5, LenProperties
  <2>7. \A i \in 1 .. Len(keydir) : keydir[i] = PlaceOf(disk[i])
    BY <1>2, <1>3, <2>1 DEF Running
  <2>8. \A i \in DOMAIN keydir' : keydir'[i] = PlaceOf(disk[i])
    BY <2>2, <2>5, <2>6, <2>7
  <2>. QED
    BY <2>2, <2>4, <2>5, <2>8 DEF DirectoryIntact
<1>9. CASE \/ RecoverFails \/ Retry \/ Close
           \/ \E n \in Lengths : Kill(n)
           \/ \E k \in 0 .. Len(disk), n \in Lengths : PowerLoss(k, n)
  <2>1. pc' \in {"closed", "refused"}
    BY <1>9 DEF RecoverFails, Retry, Close, Kill, PowerLoss
  <2>. QED
    BY <2>1 DEF DirectoryIntact, Running
<1>10. ~ (SyncFails \/ RotateUnsynced \/ RotateFails \/ \E n \in Lengths : WriteFails(n))
  BY <1>4 DEF SyncFails, RotateUnsynced, RotateFails, WriteFails
<1>. QED
  BY <1>5, <1>6, <1>7, <1>8, <1>9, <1>10 DEF Next

LEMMA ToldNext ==
  ASSUME JournalTypeOK, Aligned, Intact, Undisturbed', [Next]_vars
  PROVE  ToldIntact'
<1>1. disk \in Seq(Piece) /\ keydir \in Seq(Location) /\ faults \in Nat /\ pend \in Records
      /\ curSeg \in Nat /\ curOff \in Nat /\ firm \in 0 .. Len(disk)
      /\ DOMAIN told \subseteq Nat
  BY DEF JournalTypeOK
<1>2. /\ Len(disk) \in Nat /\ DOMAIN disk = 1 .. Len(disk)
      /\ Len(keydir) \in Nat /\ DOMAIN keydir = 1 .. Len(keydir)
      /\ SegmentMax \in Nat
  BY <1>1, LenProperties, JournalAssumption
<1>3. /\ \A s \in DOMAIN told : s \in 1 .. Len(disk) /\ Sound(disk[s]) /\ disk[s].rec = told[s]
      /\ pc \in Running => DOMAIN told \subseteq DOMAIN keydir
  BY <1>2 DEF Intact, ToldIntact
<1>4. ~Fault
  <2>1. Fault => faults' # 0
    BY <1>1 DEF Fault
  <2>. QED
    BY <2>1 DEF Undisturbed, NoFaults
<1>5. FilesIntact /\ DirectoryIntact
  BY DEF Intact
<1>6. ASSUME NEW p \in Piece, disk' = Append(disk, p)
      PROVE  \A s \in DOMAIN told : s \in DOMAIN disk' /\ disk'[s] = disk[s]
  <2>1. /\ disk' \in Seq(Piece) /\ Len(disk') = Len(disk) + 1
        /\ \A i \in 1 .. Len(disk) : disk'[i] = disk[i]
    BY <1>1, <1>6, AppendProperties
  <2>2. DOMAIN disk' = 1 .. Len(disk) + 1
    BY <2>1, LenProperties
  <2>. QED
    BY <1>2, <1>3, <2>1, <2>2
<1>7. CASE Recover
  <2>. PICK good : good = GoodPart(disk)
    OBVIOUS
  <2>1. /\ good \in Seq(Piece) /\ Len(good) \in Nat
        /\ \A i \in 1 .. Len(good) : good[i] = disk[i]
        /\ Damaged(disk) => Len(good) + 1 \in 1 .. Len(disk) /\ ~Sound(disk[Len(good) + 1])
        /\ ~Damaged(disk) => good = disk
    BY <1>1, <1>2, GoodPartIs
  <2>2. Damaged(disk) => Len(good) + 1 = Len(disk)
    BY <1>2, <1>5, <2>1 DEF FilesIntact
  <2>3. \A s \in DOMAIN told : s \in 1 .. Len(good)
    <3>1. CASE Damaged(disk)
      <4>1. \A s \in DOMAIN told : s \in 1 .. Len(disk) /\ s # Len(disk)
        BY <1>3, <2>1, <2>2, <3>1
      <4>. QED
        BY <1>2, <2>1, <2>2, <3>1, <4>1
    <3>2. CASE ~Damaged(disk)
      BY <1>3, <2>1, <3>2
    <3>. QED
      BY <3>1, <3>2
  <2>4. disk' = good /\ told' = told /\ DOMAIN keydir' = 1 .. Len(good)
    BY <1>7 DEF Recover
  <2>5. DOMAIN good = 1 .. Len(good)
    BY <2>1, LenProperties
  <2>. QED
    BY <1>3, <2>1, <2>3, <2>4, <2>5 DEF ToldIntact
<1>8. CASE \/ RecoverFails \/ Retry \/ WriteRefused \/ UNCHANGED vars \/ Rotate \/ Close
           \/ \E r \in Records : StartAppend(r)
  <2>1. disk' = disk /\ told' = told /\ keydir' = keydir
    BY <1>8 DEF RecoverFails, Retry, WriteRefused, StartAppend, Rotate, Close, vars, diskVars,
                ramVars
  <2>2. pc' \in Running => pc \in Running
    BY <1>5, <1>8
       DEF RecoverFails, Retry, WriteRefused, StartAppend, Rotate, Close, vars, Running
  <2>. QED
    BY <1>2, <1>3, <2>1, <2>2 DEF ToldIntact
<1>9. CASE Write
  <2>. DEFINE frame == Frame(pend, curSeg, FileEnd(disk, curSeg))
  <2>1. frame \in Piece
    BY <1>1, FileEndIs, FrameIsPiece
  <2>2. /\ disk' = Append(disk, frame) /\ pc = "append" /\ keydir' = keydir /\ told' = told
    BY <1>9 DEF Write, ramVars
  <2>. HIDE DEF frame
  <2>. QED
    BY <1>3, <1>6, <2>1, <2>2 DEF ToldIntact, Running
<1>10. ASSUME NEW sync \in BOOLEAN, Commit(sync) PROVE ToldIntact'
  <2>1. pc = "written"
    BY <1>10 DEF Commit
  <2>2. /\ Len(disk) \in DOMAIN disk /\ Len(disk) = Len(keydir) + 1
        /\ disk[Len(disk)] = Frame(pend, curSeg, curOff)
    BY <1>5, <2>1, CommitPlaces
  <2>3. Readable
    BY DEF Undisturbed, Readable
  <2>4. Sound(disk[Len(disk)]) /\ disk[Len(disk)].rec = pend
    <3>1. Frame(pend, curSeg, curOff).rec = pend
      BY Zenon DEF Frame
    <3>. QED
      BY <1>1, <2>2, <2>3, <3>1, SoundFrame
  <2>5. /\ disk' = disk /\ pc' = "open"
        /\ told' = [s \in DOMAIN told \cup {Len(disk)} |->
                      IF s = Len(disk) THEN pend ELSE told[s]]
    BY <1>10, <2>2 DEF Commit
  <2>6. Len(keydir') = Len(disk) /\ keydir' \in Seq(Location)
    <3>1. [seg |-> curSeg, off |-> curOff, size |-> Size[pend]] \in Location
      BY <1>1, FrameIsPiece DEF Location
    <3>. QED
      BY <1>1, <1>10, <2>2, <3>1, AppendProperties DEF Commit
  <2>7. DOMAIN told' \subseteq DOMAIN keydir'
    BY <1>2, <1>3, <2>5, <2>6, <2>2, LenProperties
  <2>8. \A s \in DOMAIN told' : s \in DOMAIN disk /\ Sound(disk[s]) /\ disk[s].rec = told'[s]
    BY <1>2, <1>3, <2>2, <2>4, <2>5
  <2>. QED
    BY <2>5, <2>7, <2>8 DEF ToldIntact
<1>11. ASSUME NEW n \in Lengths, Kill(n) PROVE ToldIntact'
  <2>. DEFINE part == Part(pend, curSeg, FileEnd(disk, curSeg), n)
  <2>1. n \in Nat
    BY <1>2 DEF Lengths
  <2>2. part \in Piece
    BY <1>1, <2>1, FileEndIs, FrameIsPiece
  <2>3. /\ pc' = "closed" /\ told' = told /\ disk' \in {disk, Append(disk, part)}
    BY <1>11 DEF Kill
  <2>. HIDE DEF part
  <2>. QED
    BY <1>2, <1>3, <1>6, <2>2, <2>3 DEF ToldIntact, Running
<1>12. ASSUME NEW k \in 0 .. Len(disk), NEW n \in Lengths, PowerLoss(k, n) PROVE ToldIntact'
  <2>. PICK cut : cut = CutAt(disk, k, n)
    OBVIOUS
  <2>1. disk' = cut /\ pc' = "closed" /\ firm <= k
    BY <1>1, <1>2, <1>12 DEF PowerLoss, CutAt
  <2>2. n \in Nat
    BY <1>2 DEF Lengths
  <2>3. /\ cut \in Seq(Piece) /\ Len(cut) \in k .. Len(disk)
        /\ \A i \in 1 .. k : cut[i] = disk[i]
    BY <1>1, <2>2, CutAtIs
  <2>4. DOMAIN cut = 1 .. Len(cut)
    BY <2>3, PiecesAre
  <2>5. told' = UpTo(told, firm)
    BY <1>5, <1>12, FirmIsSound DEF PowerLoss
  <2>6. \A s \in DOMAIN told' : s \in DOMAIN told /\ told'[s] = told[s] /\ s <= firm
    BY <2>5 DEF UpTo
  <2>7. \A s \in DOMAIN told' : s \in 1 .. k /\ s \in DOMAIN cut
    BY <1>1, <1>2, <1>3, <2>1, <2>3, <2>4, <2>6
  <2>. QED
    BY <1>3, <2>1, <2>3, <2>6, <2>7 DEF ToldIntact, Running
<1>13. ~ (SyncFails \/ RotateUnsynced \/ RotateFails \/ \E n \in Lengths : WriteFails(n))
  BY <1>4 DEF SyncFails, RotateUnsynced, RotateFails, WriteFails
<1>. QED
  BY <1>7, <1>8, <1>9, <1>10, <1>11, <1>12, <1>13 DEF Next

-------------------------------------------------------------------------------
(***************************************************************************)
(* The inductive invariant, and what follows from it.                      *)
(***************************************************************************)
LEMMA JournalInitInv == Init => JournalInv
<1> SUFFICES ASSUME Init PROVE JournalInv
  OBVIOUS
<1>1. disk = <<>> /\ keydir = <<>> /\ pc = "closed" /\ DOMAIN told = {} /\ DOMAIN disk = {}
  BY DEF Init
<1>2. Intact
  BY <1>1 DEF Intact, FilesIntact, DirectoryIntact, ToldIntact, Running
<1>. QED
  BY <1>2, JournalTypesInit, LayeredInit, AlignedInit DEF JournalInv

LEMMA JournalNextInv == JournalInv /\ [Next]_vars => JournalInv'
<1> SUFFICES ASSUME JournalInv, [Next]_vars PROVE JournalInv'
  OBVIOUS
<1>1. JournalTypeOK /\ Layered /\ (NoFaults => Aligned) /\ (Undisturbed => Intact)
  BY DEF JournalInv
<1>2. JournalTypeOK' /\ Layered' /\ (NoFaults' => Aligned')
  BY <1>1, JournalTypesNext, LayeredNext, AlignedNext
<1>3. ASSUME Undisturbed' PROVE Intact'
  <2>1. NoFaults'
    BY <1>3 DEF Undisturbed
  <2>2. NoFaults
    BY <1>1, <2>1, NoFaultsBefore
  <2>3. Undisturbed
    BY <1>3, <2>2 DEF Undisturbed, Readable
  <2>4. Aligned /\ FilesIntact /\ DirectoryIntact /\ Intact
    BY <1>1, <2>2, <2>3 DEF Intact
  <2>5. FilesIntact' /\ DirectoryIntact' /\ ToldIntact'
    BY <1>1, <1>3, <2>4, FilesNext, DirectoryNext, ToldNext
  <2>. QED
    BY <2>5 DEF Intact
<1>. QED
  BY <1>2, <1>3 DEF JournalInv

\* The files are a sequence of pieces, and whatever fails the segments follow each
\* other and only the last one is appended to.
THEOREM JournalInvariant == Spec => []JournalInv
BY JournalInitInv, JournalNextInv, PTL DEF Spec

\* No segment outgrows SegmentMax while no system call has failed, whatever is
\* appended, torn and recovered (rotation in Store.Append).
THEOREM Bounds == Spec => []SegmentsBounded
<1>1. JournalInv => SegmentsBounded
  BY DEF JournalInv, SegmentsBounded, Aligned
<1>. QED
  BY <1>1, JournalInvariant, PTL

\* A crash never leaves files that Open refuses.
THEOREM AlwaysRecovers == Spec => []AlwaysOpens
<1>1. JournalInv => AlwaysOpens
  BY DEF JournalInv, AlwaysOpens, Intact, FilesIntact
<1>. QED
  BY <1>1, JournalInvariant, PTL

\* What Append has acknowledged is found by a restart, right now, and after a power
\* loss if it had been synced.
THEOREM AcksAreRecoverable == Spec => []AckedRecoverable
<1>1. JournalInv => AckedRecoverable
  <2> SUFFICES ASSUME JournalInv, Undisturbed, NEW s \in DOMAIN told PROVE Recoverable(s)
    BY DEF AckedRecoverable
  <2>1. disk \in Seq(Piece) /\ FilesIntact /\ ToldIntact /\ DOMAIN told \subseteq Nat \ {0}
    BY DEF JournalInv, JournalTypeOK, Intact
  <2>2. /\ Len(disk) \in Nat /\ DOMAIN disk = 1 .. Len(disk)
        /\ s \in 1 .. Len(disk) /\ Sound(disk[s]) /\ disk[s].rec = told[s]
    BY <2>1, LenProperties DEF ToldIntact
  <2>3. \A i \in 1 .. s : Sound(disk[i])
    <3> SUFFICES ASSUME NEW i \in 1 .. s, ~Sound(disk[i]) PROVE FALSE
      OBVIOUS
    <3>1. i \in DOMAIN disk /\ i # s
      BY <2>2
    <3>2. i = Len(disk)
      BY <2>1, <3>1 DEF FilesIntact
    <3>. QED
      BY <2>2, <3>1, <3>2
  <2>4. s \in 0 .. Len(disk) /\ s \in Nat
    BY <2>2
  <2>5. s <= Len(GoodPart(disk))
    BY <2>1, <2>3, <2>4, GoodCovers
  <2>6. s \in 1 .. Len(GoodPart(disk))
    BY <2>1, <2>2, <2>4, <2>5, GoodPartIs
  <2>. QED
    BY <2>1, <2>2, <2>6, LogOfIs DEF Recoverable
<1>. QED
  BY <1>1, JournalInvariant, PTL

\* Read(seq) returns the record that was acknowledged under seq.
THEOREM ReadsWork == Spec => []ReadBack
<1>1. JournalInv => ReadBack
  <2> SUFFICES ASSUME JournalInv, Undisturbed, pc \in Running, NEW s \in DOMAIN told
               PROVE  s \in DOMAIN keydir /\ ReadsAs(s, told[s])
    BY DEF ReadBack, Running
  <2>1. DirectoryIntact /\ ToldIntact
    BY DEF JournalInv, Intact
  <2>2. s \in DOMAIN keydir
    BY <2>1 DEF ToldIntact
  <2>3. keydir[s] = PlaceOf(disk[s])
    BY <2>1, <2>2 DEF DirectoryIntact
  <2>4. s \in DOMAIN disk /\ disk[s].whole /\ disk[s].rec = told[s]
    BY <2>1 DEF ToldIntact, Sound
  <2>. QED
    BY <2>2, <2>3, <2>4 DEF ReadsAs, PlaceOf
<1>. QED
  BY <1>1, JournalInvariant, PTL

-------------------------------------------------------------------------------
(***************************************************************************)
(* What holds whatever fails.                                              *)
(***************************************************************************)
LEMMA RecordKept ==
  ASSUME NEW d \in Seq(Piece), NEW s \in 1 .. Len(GoodPart(d)),
         NEW e \in Seq(Piece), s \in 0 .. Len(e), \A i \in 1 .. s : e[i] = d[i]
  PROVE  s \in DOMAIN LogOf(e) /\ LogOf(e)[s] = LogOf(d)[s]
<1>1. /\ Len(GoodPart(d)) \in Nat /\ Len(GoodPart(e)) \in Nat /\ s \in Nat
      /\ \A i \in 1 .. Len(GoodPart(d)) : Sound(d[i])
  BY GoodPartIs, LenProperties
<1>2. \A i \in 1 .. s : Sound(e[i])
  BY <1>1
<1>3. s <= Len(GoodPart(e))
  BY <1>2, GoodCovers
<1>4. s \in 1 .. Len(GoodPart(e)) /\ e[s] = d[s]
  BY <1>1, <1>3
<1>. QED
  BY <1>4, LogOfIs

\* What a step leaves of the good part: all of it, but for a power loss, which
\* leaves what was synced.
LEMMA GoodStays ==
  ASSUME JournalTypeOK, [Next]_vars,
         NEW s \in 1 .. Len(GoodPart(disk)),
         (\E k \in 0 .. Len(disk), n \in Lengths : PowerLoss(k, n)) => s <= firm
  PROVE  disk' \in Seq(Piece) /\ s \in 0 .. Len(disk') /\ \A i \in 1 .. s : disk'[i] = disk[i]
<1>1. disk \in Seq(Piece) /\ firm \in 0 .. Len(disk) /\ pend \in Records /\ curSeg \in Nat
  BY DEF JournalTypeOK
<1>2. /\ Len(disk) \in Nat /\ Len(GoodPart(disk)) \in 0 .. Len(disk)
      /\ s \in Nat /\ s <= Len(disk) /\ s <= Len(GoodPart(disk)) /\ SegmentMax \in Nat
  BY <1>1, GoodPartIs, LenProperties, JournalAssumption
<1>3. disk' \in Seq(Piece)
  BY JournalTypesNext DEF JournalTypeOK
<1>4. CASE disk' = disk
  BY <1>1, <1>2, <1>4
<1>5. ASSUME NEW p \in Piece, disk' = Append(disk, p)
      PROVE  s \in 0 .. Len(disk') /\ \A i \in 1 .. s : disk'[i] = disk[i]
  <2>1. Len(disk') = Len(disk) + 1 /\ \A i \in 1 .. Len(disk) : disk'[i] = disk[i]
    BY <1>1, <1>5, AppendProperties
  <2>. QED
    BY <1>2, <2>1
<1>6. CASE Recover
  <2>. PICK good : good = GoodPart(disk)
    OBVIOUS
  <2>1. disk' = good
    BY <1>6 DEF Recover
  <2>2. \A i \in 1 .. Len(good) : good[i] = disk[i]
    BY <1>1, GoodPartIs
  <2>3. Len(good) \in Nat /\ s <= Len(good)
    BY <1>2
  <2>. QED
    BY <1>2, <1>3, <2>1, <2>2, <2>3
<1>7. CASE \/ RecoverFails \/ Retry \/ Rotate \/ WriteRefused \/ Close \/ SyncFails
           \/ RotateUnsynced \/ RotateFails \/ UNCHANGED vars
           \/ \E r \in Records : StartAppend(r)
           \/ \E sync \in BOOLEAN : Commit(sync)
  <2>1. disk' = disk
    BY <1>7 DEF RecoverFails, Retry, Rotate, WriteRefused, Close, SyncFails, RotateUnsynced,
                RotateFails, vars, diskVars, StartAppend, Commit
  <2>. QED
    BY <1>4, <2>1
<1>8. CASE Write
  <2>1. Frame(pend, curSeg, FileEnd(disk, curSeg)) \in Piece
    BY <1>1, FileEndIs, FrameIsPiece
  <2>. QED
    BY <1>3, <1>5, <1>8, <2>1 DEF Write
<1>9. ASSUME NEW n \in Lengths, Kill(n) \/ WriteFails(n)
      PROVE  s \in 0 .. Len(disk') /\ \A i \in 1 .. s : disk'[i] = disk[i]
  <2>. PICK part : part = Part(pend, curSeg, FileEnd(disk, curSeg), n)
    OBVIOUS
  <2>1. n \in Nat
    BY <1>2 DEF Lengths
  <2>2. part \in Piece
    BY <1>1, <2>1, FileEndIs, FrameIsPiece
  <2>3. disk' \in {disk, Append(disk, part)}
    BY <1>9 DEF Kill, WriteFails
  <2>. QED
    BY <1>2, <1>5, <2>2, <2>3
<1>10. ASSUME NEW k \in 0 .. Len(disk), NEW n \in Lengths, PowerLoss(k, n)
       PROVE  s \in 0 .. Len(disk') /\ \A i \in 1 .. s : disk'[i] = disk[i]
  <2>. PICK cut : cut = CutAt(disk, k, n)
    OBVIOUS
  <2>1. disk' = cut /\ firm <= k
    <3>1. k \in firm .. Len(disk)
      BY <1>10 DEF PowerLoss
    <3>2. disk' = cut
      BY <1>10 DEF PowerLoss, CutAt
    <3>. QED
      BY <1>1, <1>2, <3>1, <3>2
  <2>2. n \in Nat
    BY <1>2 DEF Lengths
  <2>3. /\ cut \in Seq(Piece) /\ Len(cut) \in k .. Len(disk)
        /\ \A i \in 1 .. k : cut[i] = disk[i]
    BY <1>1, <2>2, CutAtIs
  <2>4. s <= firm
    BY <1>10
  <2>. QED
    BY <1>1, <1>2, <2>1, <2>3, <2>4
<1>. QED
  BY <1>3, <1>4, <1>6, <1>7, <1>8, <1>9, <1>10 DEF Next

\* A failing append, rotation or restart never costs a record that was acknowledged
\* and recoverable; only a power loss may, and only one that was not synced.
THEOREM AcksStay == Spec => AckedStays
<1>1. JournalInv /\ [Next]_vars =>
        \A s \in DOMAIN told \cap DOMAIN told' :
          Readable /\ told'[s] = told[s] /\ Recoverable(s) => Recoverable(s)'
  <2> SUFFICES ASSUME JournalInv, [Next]_vars, NEW s \in DOMAIN told, s \in DOMAIN told',
                      told'[s] = told[s], Recoverable(s)
               PROVE  Recoverable(s)'
    OBVIOUS
  <2>1. JournalTypeOK /\ disk \in Seq(Piece) /\ firm \in 0 .. Len(disk)
    BY DEF JournalInv, JournalTypeOK
  <2>2. s \in 1 .. Len(GoodPart(disk)) /\ LogOf(disk)[s] = told[s]
    BY <2>1, LogOfIs DEF Recoverable
  <2>3. ASSUME NEW k \in 0 .. Len(disk), NEW n \in Lengths, PowerLoss(k, n) PROVE s <= firm
    <3>. PICK e : e = SubSeq(disk, 1, firm)
      OBVIOUS
    <3>1. \A i \in 1 .. firm : disk[i] \in Piece
      BY <2>1, PiecesAre
    <3>2. e \in Seq(Piece) /\ Len(e) = firm
      BY <2>1, <3>1, PiecesAre, SubSeqProperties
    <3>3. Len(GoodPart(e)) \in 0 .. firm
      BY <3>2, GoodPartIs
    <3>4. s <= Len(GoodPart(e))
      BY <2>3 DEF PowerLoss, UpTo
    <3>5. s \in Nat /\ firm \in Nat
      BY <2>1, <2>2, PiecesAre, GoodPartIs
    <3>. QED
      BY <3>3, <3>4, <3>5
  <2>4. disk' \in Seq(Piece) /\ s \in 0 .. Len(disk') /\ \A i \in 1 .. s : disk'[i] = disk[i]
    BY <2>1, <2>2, <2>3, GoodStays
  <2>5. s \in DOMAIN LogOf(disk') /\ LogOf(disk')[s] = LogOf(disk)[s]
    BY <2>1, <2>2, <2>4, RecordKept
  <2>. QED
    BY <2>2, <2>5 DEF Recoverable
<1>. QED
  BY <1>1, JournalInvariant, PTL DEF Spec, AckedStays

-------------------------------------------------------------------------------
(***************************************************************************)
(* The journal implements DurableLog.                                      *)
(***************************************************************************)
LEMMA SameLog ==
  ASSUME NEW d \in Seq(Piece), NEW e \in Seq(Piece),
         Len(GoodPart(e)) = Len(GoodPart(d)),
         \A i \in 1 .. Len(GoodPart(d)) : e[i] = d[i]
  PROVE  LogOf(e) = LogOf(d)
BY LogOfIs, SeqEqual

LEMMA LogOfSound ==
  ASSUME NEW d \in Seq(Piece), \A i \in 1 .. Len(d) : Sound(d[i])
  PROVE  Len(GoodPart(d)) = Len(d)
<1>1. Len(d) \in Nat
  BY LenProperties
<1>. QED
  BY <1>1, GoodLength

\* Files of which only the last piece may be torn: cutting them cuts the log.
LEMMA CutCutsLog ==
  ASSUME NEW d \in Seq(Piece), \A i \in 1 .. Len(d) : ~Sound(d[i]) => i = Len(d),
         NEW k \in 0 .. Len(d), NEW n \in Nat
  PROVE  \E m \in 0 .. Len(LogOf(d)) :
           /\ m = k \/ m = Len(LogOf(d))
           /\ LogOf(CutAt(d, k, n)) = SubSeq(LogOf(d), 1, m)
<1>1. PICK cut : cut = CutAt(d, k, n)
  OBVIOUS
<1>2. PICK log : log = LogOf(d)
  OBVIOUS
<1>3. /\ cut \in Seq(Piece) /\ Len(cut) \in k .. Len(d) /\ Len(cut) <= k + 1
      /\ \A i \in 1 .. k : cut[i] = d[i]
      /\ \A i \in 1 .. Len(cut) : cut[i].whole => i <= k
  BY <1>1, CutAtIs
<1>4. PICK g \in 0 .. Len(d) :
        /\ g = Len(GoodPart(d)) /\ g = Len(log)
        /\ \A i \in 1 .. g : Sound(d[i]) /\ log[i] = d[i].rec
        /\ g = Len(d) \/ ~Sound(d[g + 1])
  <2>1. Len(GoodPart(d)) \in 0 .. Len(d)
    BY GoodPartIs
  <2>2. Len(GoodPart(d)) = Len(d) \/ ~Sound(d[Len(GoodPart(d)) + 1])
    <3>1. CASE Damaged(d)
      BY <3>1, GoodPartIs
    <3>2. CASE ~Damaged(d)
      BY <3>2, GoodPartIs
    <3>. QED
      BY <3>1, <3>2
  <2>. QED
    BY <1>2, <2>1, <2>2, GoodPartIs, LogOfIs
<1>5. Len(d) \in Nat /\ g \in Nat /\ g <= Len(d) /\ k \in Nat /\ k <= Len(d)
  BY LenProperties
<1>6. log \in Seq(Records) /\ \A i \in 1 .. g : log[i] \in Records
  BY <1>2, <1>4, LogOfIs, ElementOfSeq
<1>7. ASSUME NEW m \in 0 .. g, m <= Len(cut), m <= k, m < Len(cut) => ~Sound(cut[m + 1])
      PROVE  LogOf(cut) = SubSeq(log, 1, m)
  <2>1. m \in 0 .. Len(cut) /\ m \in Nat
    BY <1>3, <1>5, <1>7
  <2>2. \A i \in 1 .. m : cut[i] = d[i] /\ Sound(cut[i]) /\ log[i] = d[i].rec /\ log[i] \in Records
    BY <1>3, <1>4, <1>5, <1>6, <1>7, <2>1
  <2>3. Len(GoodPart(cut)) = m
    BY <1>3, <1>7, <2>1, <2>2, GoodLength
  <2>4. /\ LogOf(cut) \in Seq(Records) /\ Len(LogOf(cut)) = m
        /\ \A i \in 1 .. m : LogOf(cut)[i] = cut[i].rec
    BY <1>3, <2>3, LogOfIs
  <2>5. /\ SubSeq(log, 1, m) \in Seq(Records) /\ Len(SubSeq(log, 1, m)) = m
        /\ \A i \in 1 .. m : SubSeq(log, 1, m)[i] = log[i]
    BY <2>1, <2>2, SubSeqProperties
  <2>. QED
    BY <2>2, <2>4, <2>5, SeqEqual
<1>8. CASE k <= g
  <2>1. k <= Len(cut) /\ k \in 0 .. g
    BY <1>3, <1>5, <1>8
  <2>2. ASSUME k < Len(cut) PROVE ~Sound(cut[k + 1])
    <3>1. k + 1 \in 1 .. Len(cut)
      BY <1>3, <1>5, <2>2
    <3>2. ~cut[k + 1].whole
      BY <1>3, <1>5, <3>1
    <3>. QED
      BY <3>2 DEF Sound
  <2>3. LogOf(cut) = SubSeq(log, 1, k)
    BY <1>5, <1>7, <2>1, <2>2
  <2>. QED
    BY <1>1, <1>2, <1>4, <2>1, <2>3
<1>9. CASE g < k
  <2>1. g + 1 \in 1 .. Len(d) /\ ~Sound(d[g + 1])
    BY <1>4, <1>5, <1>9
  <2>2. g + 1 = Len(d)
    BY <2>1
  <2>3. k = g + 1 /\ cut[g + 1] = d[g + 1]
    BY <1>3, <1>5, <1>9, <2>2
  <2>4. g \in 0 .. g /\ g <= Len(cut) /\ g <= k
    BY <1>3, <1>5, <1>9
  <2>5. LogOf(cut) = SubSeq(log, 1, g)
    BY <1>7, <2>1, <2>3, <2>4
  <2>. QED
    BY <1>1, <1>2, <1>4, <2>4, <2>5
<1>. QED
  BY <1>5, <1>8, <1>9

LEMMA RefInit == Init => Abstract!Init
<1> SUFFICES ASSUME Init PROVE Abstract!Init
  OBVIOUS
<1>1. disk = <<>> /\ firm = 0 /\ told = [s \in {} |-> pend] /\ <<>> \in Seq(Piece)
  BY EmptySeq DEF Init
<1>2. PICK d : d = <<>>
  OBVIOUS
<1>3. d \in Seq(Piece) /\ Len(d) = 0
  BY <1>1, <1>2, EmptySeq
<1>4. Len(LogOf(d)) = 0 /\ LogOf(d) \in Seq(Records)
  <2>1. Len(GoodPart(d)) = 0
    <3>1. Len(GoodPart(d)) \in 0 .. Len(d)
      BY <1>3, GoodPartIs
    <3>. QED
      BY <1>3, <3>1
  <2>2. Len(LogOf(d)) = Len(GoodPart(d)) /\ LogOf(d) \in Seq(Records)
    BY <1>3, LogOfIs
  <2>. QED
    BY <2>1, <2>2
<1>5. LogOf(disk) = <<>>
  BY <1>1, <1>2, <1>4, EmptySeq
<1>6. told = [s \in {} |-> 0]
  BY <1>1
<1>. QED
  BY <1>1, <1>5, <1>6 DEF Abstract!Init

LEMMA RefStep ==
  ASSUME JournalTypeOK, Layered, Aligned, Intact, Undisturbed', [Next]_vars
  PROVE  [Abstract!Next]_(Abstract!vars)
<1>1. /\ disk \in Seq(Piece) /\ keydir \in Seq(Location) /\ faults \in Nat /\ pend \in Records
      /\ curSeg \in Nat /\ curOff \in Nat /\ firm \in 0 .. Len(disk)
      /\ DOMAIN told \subseteq Nat
  BY DEF JournalTypeOK
<1>2. /\ Len(disk) \in Nat /\ DOMAIN disk = 1 .. Len(disk)
      /\ Len(keydir) \in Nat /\ DOMAIN keydir = 1 .. Len(keydir)
      /\ SegmentMax \in Nat
  BY <1>1, LenProperties, JournalAssumption
<1>3. FilesIntact /\ DirectoryIntact /\ ToldIntact /\ Readable
  BY DEF Intact, Undisturbed, Readable
<1>4. ~Fault
  <2>1. Fault => faults' # 0
    BY <1>1 DEF Fault
  <2>. QED
    BY <2>1 DEF Undisturbed, NoFaults
<1>5. pc # "closed" => \A i \in 1 .. Len(disk) : Sound(disk[i])
  BY <1>2, <1>3 DEF FilesIntact
<1>6. pc # "closed" => Len(GoodPart(disk)) = Len(disk) /\ Len(LogOf(disk)) = Len(disk)
  BY <1>1, <1>5, LogOfSound, LogOfIs
<1>. DEFINE log == LogOf(disk)
<1>7. LogOf(disk)' = LogOf(disk') /\ log \in Seq(Records)
  BY <1>1, LogOfIs DEF LogOf, GoodPart, Damaged, FirstBad, IsBad, Sound
<1>8. CASE Recover
  <2>. PICK good : good = GoodPart(disk)
    OBVIOUS
  <2>1. /\ good \in Seq(Piece) /\ Len(good) \in Nat
        /\ \A i \in 1 .. Len(good) : good[i] = disk[i] /\ Sound(good[i])
    BY <1>1, <1>2, GoodPartIs
  <2>2. Len(GoodPart(good)) = Len(good)
    BY <2>1, LogOfSound
  <2>3. LogOf(good) = LogOf(disk)
    BY <1>1, <2>1, <2>2, SameLog
  <2>4. firm <= Len(good)
    BY <1>3, FirmIsSound
  <2>5. disk' = good /\ told' = told /\ firm' = firm
    BY <1>8, <2>4 DEF Recover
  <2>. QED
    BY <1>7, <2>3, <2>5 DEF Abstract!vars
<1>9. CASE RecoverFails \/ Retry \/ WriteRefused \/ UNCHANGED vars
           \/ \E r \in Records : StartAppend(r)
  <2>1. disk' = disk /\ told' = told /\ firm' = firm
    BY <1>9 DEF RecoverFails, Retry, WriteRefused, StartAppend, vars, diskVars
  <2>. QED
    BY <1>7, <2>1 DEF Abstract!vars
<1>10. CASE Rotate
  <2>1. disk' = disk /\ told' = told /\ firm' = Len(disk) /\ pc = "append"
    BY <1>10 DEF Rotate
  <2>2. Abstract!Harden
    BY <1>6, <1>7, <2>1 DEF Abstract!Harden
  <2>. QED
    BY <2>2 DEF Abstract!Next
<1>11. CASE Close
  <2>1. disk' = disk /\ told' = told /\ firm' \in {Len(disk), firm} /\ pc = "open"
    BY <1>11 DEF Close
  <2>2. CASE firm' = Len(disk)
    <3>1. Abstract!Harden
      BY <1>6, <1>7, <2>1, <2>2 DEF Abstract!Harden
    <3>. QED
      BY <3>1 DEF Abstract!Next
  <2>3. CASE firm' = firm
    BY <1>7, <2>1, <2>3 DEF Abstract!vars
  <2>. QED
    BY <2>1, <2>2, <2>3
<1>12. CASE Write
  <2>. DEFINE frame == Frame(pend, curSeg, FileEnd(disk, curSeg))
  <2>1. frame \in Piece /\ frame.rec = pend
    BY <1>1, FileEndIs, FrameIsPiece DEF Frame
  <2>2. Sound(frame)
    BY <1>1, <1>3, SoundFrame
  <2>3. /\ disk' = Append(disk, frame) /\ pc = "append" /\ told' = told /\ firm' = firm
    BY <1>12 DEF Write
  <2>. HIDE DEF frame
  <2>4. /\ disk' \in Seq(Piece) /\ Len(disk') = Len(disk) + 1
        /\ \A i \in 1 .. Len(disk) : disk'[i] = disk[i]
        /\ disk'[Len(disk) + 1] = frame
    BY <1>1, <2>1, <2>3, AppendProperties
  <2>5. \A i \in 1 .. Len(disk') : i \in 1 .. Len(disk) \/ i = Len(disk) + 1
    BY <1>2, <2>4
  <2>6. \A i \in 1 .. Len(disk') : Sound(disk'[i])
    BY <1>5, <2>2, <2>3, <2>4, <2>5
  <2>7. /\ LogOf(disk') \in Seq(Records) /\ Len(LogOf(disk')) = Len(disk) + 1
        /\ \A i \in 1 .. Len(disk) + 1 : LogOf(disk')[i] = disk'[i].rec
    <3>1. Len(GoodPart(disk')) = Len(disk) + 1
      BY <2>4, <2>6, LogOfSound
    <3>. QED
      BY <2>4, <3>1, LogOfIs
  <2>8. /\ Len(log) = Len(disk) /\ \A i \in 1 .. Len(disk) : log[i] = disk[i].rec
    BY <1>1, <1>6, <2>3, LogOfIs
  <2>. HIDE DEF log
  <2>9. /\ Append(log, pend) \in Seq(Records) /\ Len(Append(log, pend)) = Len(disk) + 1
        /\ \A i \in 1 .. Len(disk) : Append(log, pend)[i] = log[i]
        /\ Append(log, pend)[Len(disk) + 1] = pend
    BY <1>1, <1>7, <2>8, AppendProperties
  <2>10. \A i \in 1 .. Len(disk) + 1 : LogOf(disk')[i] = Append(log, pend)[i]
    BY <1>2, <2>1, <2>4, <2>5, <2>7, <2>8, <2>9
  <2>11. LogOf(disk') = Append(log, pend)
    BY <2>7, <2>9, <2>10, SeqEqual
  <2>12. Abstract!Write(pend)
    BY <1>7, <2>3, <2>11 DEF Abstract!Write, log
  <2>. QED
    BY <1>1, <2>12 DEF Abstract!Next
<1>13. ASSUME NEW sync \in BOOLEAN, Commit(sync) PROVE Abstract!Next
  <2>1. pc = "written"
    BY <1>13 DEF Commit
  <2>2. /\ Len(disk) \in DOMAIN disk /\ Len(disk) = Len(keydir) + 1
        /\ disk[Len(disk)] = Frame(pend, curSeg, curOff)
    BY <1>3, <2>1, CommitPlaces
  <2>3. disk[Len(disk)].rec = pend
    <3>1. Frame(pend, curSeg, curOff).rec = pend
      BY Zenon DEF Frame
    <3>. QED
      BY <2>2, <3>1
  <2>4. /\ disk' = disk /\ firm' \in {firm, Len(disk)}
        /\ told' = [s \in DOMAIN told \cup {Len(disk)} |->
                      IF s = Len(disk) THEN pend ELSE told[s]]
    BY <1>13, <2>2 DEF Commit
  <2>5. /\ Len(log) = Len(disk) /\ \A i \in 1 .. Len(disk) : log[i] = disk[i].rec
    BY <1>1, <1>6, <2>1, LogOfIs
  <2>6. \A s \in DOMAIN told : s \in DOMAIN keydir /\ s \in 1 .. Len(disk) /\ disk[s].rec = told[s]
    BY <1>2, <1>3, <2>1 DEF ToldIntact, Running
  <2>. HIDE DEF log
  <2>7. told' = [s \in DOMAIN told \cup {Len(log)} |-> log[s]]
    BY <1>2, <2>2, <2>3, <2>4, <2>5, <2>6
  <2>8. Len(log) > 0 /\ Len(log) \notin DOMAIN told
    BY <1>2, <2>2, <2>5, <2>6
  <2>9. LogOf(disk)' = log
    BY <1>7, <2>4 DEF log
  <2>10. Abstract!Acknowledge
    BY <2>4, <2>5, <2>7, <2>8, <2>9 DEF Abstract!Acknowledge, log
  <2>. QED
    BY <2>10 DEF Abstract!Next
<1>14. ASSUME NEW n \in Lengths, Kill(n) PROVE UNCHANGED Abstract!vars
  <2>. PICK part : part = Part(pend, curSeg, FileEnd(disk, curSeg), n)
    OBVIOUS
  <2>1. n \in Nat
    BY <1>2 DEF Lengths
  <2>2. part \in Piece
    BY <1>1, <2>1, FileEndIs, FrameIsPiece
  <2>3. ~Sound(part)
    BY Zenon DEF Sound, Part
  <2>4. /\ disk' \in {disk, Append(disk, part)} /\ told' = told /\ firm' = firm
        /\ pc # "closed"
    BY <1>14 DEF Kill
  <2>5. CASE disk' = Append(disk, part)
    <3>1. /\ disk' \in Seq(Piece) /\ Len(disk') = Len(disk) + 1
          /\ \A i \in 1 .. Len(disk) : disk'[i] = disk[i]
          /\ disk'[Len(disk) + 1] = part
      BY <1>1, <2>2, <2>5, AppendProperties
    <3>2. /\ Len(disk) \in 0 .. Len(disk')
          /\ \A i \in 1 .. Len(disk) : Sound(disk'[i])
          /\ ~Sound(disk'[Len(disk) + 1])
      BY <1>2, <1>5, <2>3, <2>4, <3>1
    <3>3. Len(GoodPart(disk')) = Len(disk)
      BY <3>1, <3>2, GoodLength
    <3>4. LogOf(disk') = LogOf(disk)
      BY <1>1, <1>6, <2>4, <3>1, <3>3, SameLog
    <3>. QED
      BY <1>7, <2>4, <3>4 DEF Abstract!vars
  <2>. QED
    BY <1>7, <2>4, <2>5 DEF Abstract!vars
<1>15. ASSUME NEW k \in 0 .. Len(disk), NEW n \in Lengths, PowerLoss(k, n)
       PROVE  Abstract!Next
  <2>. PICK cut : cut = CutAt(disk, k, n)
    OBVIOUS
  <2>1. disk' = cut /\ firm <= k /\ firm' = firm
    <3>1. k \in firm .. Len(disk) /\ firm' = firm
      BY <1>15 DEF PowerLoss
    <3>2. disk' = cut
      BY <1>15 DEF PowerLoss, CutAt
    <3>. QED
      BY <1>1, <1>2, <3>1, <3>2
  <2>2. n \in Nat
    BY <1>2 DEF Lengths
  <2>4. told' = UpTo(told, firm)
    BY <1>3, <1>15, FirmIsSound DEF PowerLoss
  <2>5. \A i \in 1 .. Len(disk) : ~Sound(disk[i]) => i = Len(disk)
    BY <1>2, <1>3 DEF FilesIntact
  <2>6. PICK m \in 0 .. Len(LogOf(disk)) :
          /\ m = k \/ m = Len(LogOf(disk))
          /\ LogOf(cut) = SubSeq(LogOf(disk), 1, m)
    BY <1>1, <2>2, <2>5, CutCutsLog
  <2>7. firm <= m
    BY <1>1, <1>3, <2>1, <2>6, FirmIsSound, LogOfIs
  <2>8. Abstract!Cut(m)
    BY <1>7, <2>1, <2>4, <2>6, <2>7 DEF Abstract!Cut, Abstract!UpTo, UpTo
  <2>. QED
    BY <2>6, <2>8 DEF Abstract!Next
<1>16. ~ (SyncFails \/ RotateUnsynced \/ RotateFails \/ \E n \in Lengths : WriteFails(n))
  BY <1>4 DEF SyncFails, RotateUnsynced, RotateFails, WriteFails
<1>. QED
  BY <1>8, <1>9, <1>10, <1>11, <1>12, <1>13, <1>14, <1>15, <1>16 DEF Next

\* The journal implements DurableLog, whatever the records, the segment size and the
\* crashes, as long as no system call has failed and recovery can read every record.
THEOREM JournalImplementsLog == Spec => ImplementsLog
<1>1. JournalInv /\ [Next]_vars => (Undisturbed' => [Abstract!Next]_(Abstract!vars))
  <2> SUFFICES ASSUME JournalInv, [Next]_vars, Undisturbed'
               PROVE  [Abstract!Next]_(Abstract!vars)
    OBVIOUS
  <2>1. JournalTypeOK /\ Layered /\ (NoFaults => Aligned) /\ (Undisturbed => Intact)
    BY DEF JournalInv
  <2>2. NoFaults
    BY <2>1, NoFaultsBefore DEF Undisturbed
  <2>3. Undisturbed
    BY <2>2 DEF Undisturbed, Readable
  <2>. QED
    BY <2>1, <2>2, <2>3, RefStep
<1>. QED
  BY <1>1, RefInit, JournalInvariant, PTL DEF Spec, ImplementsLog

===============================================================================
