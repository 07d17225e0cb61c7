-------------------------------- MODULE Journal --------------------------------
(***************************************************************************)
(* The event journal, sentry.Store: framed records appended to segment     *)
(* files, an in-RAM directory (keydir) from sequence number to place, and  *)
(* recovery, which reads the segments back and cuts a torn tail.           *)
(*                                                                         *)
(* The segment files are one sequence of pieces in file order: appends go  *)
(* only to the last segment. A piece is a whole frame or the part of one   *)
(* that reached the file. Bytes are abstracted to lengths; the checksum    *)
(* always tells a whole frame from anything else.                          *)
(*                                                                         *)
(* Store.mu makes an append exclusive, but a crash can hit it anywhere:    *)
(* between rotation, write, sync and the update of the directory. Failing  *)
(* system calls are modelled too, MaxFaults of them.                       *)
(***************************************************************************)
EXTENDS Integers, Sequences

CONSTANTS
  Records, Size,         \* what may be appended, and the length of its frame
  SegmentMax,            \* Options.SegmentMax
  RecoverMax,            \* the longest frame recovery takes for a record
  AlwaysSync,            \* Options.FsyncEvery = 0
  MaxAppends, MaxCrashes, MaxFaults   \* bounds of the model

ASSUME JournalAssumption ==
  /\ SegmentMax \in Nat /\ RecoverMax \in 1 .. SegmentMax
  /\ Size \in [Records -> 1 .. SegmentMax]
  /\ AlwaysSync \in BOOLEAN
  /\ MaxAppends \in Nat /\ MaxCrashes \in Nat /\ MaxFaults \in Nat

VARIABLES
  disk,      \* the pieces in the segment files, in order
  lastSeg,   \* the highest segment file there is
  firm,      \* the first so many pieces have been synced
  pc,        \* closed, open, append (rotate and write), written, refused
  pend,      \* the record of the append under way
  keydir,    \* Store.keydir; nextSeq is Len(keydir) + 1
  curSeg,    \* Store.curSeg
  curOff,    \* Store.curOff
  handle,    \* Store.cur is an open file
  told,      \* sequence number -> record, as Append has returned it to callers
  appends, crashes, faults   \* counted against the bounds

diskVars == <<disk, lastSeg, firm>>
ramVars == <<keydir, curSeg, curOff, handle>>
counters == <<appends, crashes, faults>>
vars == <<diskVars, pc, pend, ramVars, told, counters>>

Piece == [rec : Records, seg : Nat, off : Nat, len : Nat, whole : BOOLEAN]
Location == [seg : Nat, off : Nat, size : Nat]

-------------------------------------------------------------------------------
\* Where the next byte goes: the end of the last segment file.
FileEnd(d, seg) ==
  IF d # <<>> /\ d[Len(d)].seg = seg THEN d[Len(d)].off + d[Len(d)].len ELSE 0

Frame(r, seg, off) == [rec |-> r, seg |-> seg, off |-> off, len |-> Size[r], whole |-> TRUE]
Part(r, seg, off, n) == [rec |-> r, seg |-> seg, off |-> off, len |-> n, whole |-> FALSE]

\* What recovery reads on over: a whole frame that is not too long.
Sound(piece) == piece.whole /\ piece.len <= RecoverMax

\* The piece at which it stops.
IsBad(d, b) == b \in DOMAIN d /\ ~Sound(d[b]) /\ \A i \in 1 .. b - 1 : Sound(d[i])
Damaged(d) == \E b \in DOMAIN d : ~Sound(d[b])
FirstBad(d) == CHOOSE b \in DOMAIN d : IsBad(d, b)
GoodPart(d) == IF Damaged(d) THEN SubSeq(d, 1, FirstBad(d) - 1) ELSE d

\* What a restart would find: sequence number -> record.
LogOf(d) == [i \in 1 .. Len(GoodPart(d)) |-> d[i].rec]

UpTo(f, n) == [s \in {u \in DOMAIN f : u <= n} |-> f[s]]

\* Store.Read: the frame at the place the directory gives, or an error.
ReadsAs(s, r) == \E i \in DOMAIN disk :
  /\ disk[i].whole /\ disk[i].rec = r
  /\ keydir[s] = [seg |-> disk[i].seg, off |-> disk[i].off, size |-> disk[i].len]

\* The rule of the design document: a segment is full once it has the size.
RotationNeeded_whenFull == curOff >= SegmentMax

RotationNeeded == curOff + Size[pend] > SegmentMax

-------------------------------------------------------------------------------
Init ==
  /\ disk = <<>> /\ lastSeg = 0 /\ firm = 0
  /\ pc = "closed" /\ pend \in Records
  /\ keydir = <<>> /\ curSeg = 0 /\ curOff = 0 /\ handle = FALSE
  /\ told = [s \in {} |-> pend]
  /\ appends = 0 /\ crashes = 0 /\ faults = 0

(***************************************************************************)
(* Open: read all segments, cut a torn tail, position at the end. Damage   *)
(* in a segment that is not the last makes it fail.                        *)
(***************************************************************************)
\* Nothing is cut: the file is used as it is.
Recover_noTruncate ==
  /\ pc = "closed"
  /\ Damaged(disk) => disk[FirstBad(disk)].seg = lastSeg
  /\ pc' = "open"
  /\ LET good == GoodPart(disk)
     IN /\ keydir' = [i \in 1 .. Len(good) |->
                        [seg |-> good[i].seg, off |-> good[i].off, size |-> good[i].len]]
        /\ curSeg' = lastSeg /\ curOff' = FileEnd(disk, lastSeg) /\ handle' = TRUE
  /\ UNCHANGED <<diskVars, pend, told, counters>>

\* The last whole record is cut away with the torn one.
Recover_cutOneMore ==
  /\ pc = "closed"
  /\ Damaged(disk) => disk[FirstBad(disk)].seg = lastSeg
  /\ pc' = "open"
  /\ LET good == IF Damaged(disk) /\ FirstBad(disk) > 1
                 THEN SubSeq(disk, 1, FirstBad(disk) - 2) ELSE GoodPart(disk)
     IN /\ disk' = good
        /\ keydir' = [i \in 1 .. Len(good) |->
                        [seg |-> good[i].seg, off |-> good[i].off, size |-> good[i].len]]
        /\ curSeg' = lastSeg /\ curOff' = FileEnd(good, lastSeg) /\ handle' = TRUE
  /\ UNCHANGED <<lastSeg, firm, pend, told, counters>>

Recover ==
  /\ pc = "closed"
  /\ Damaged(disk) => disk[FirstBad(disk)].seg = lastSeg
  /\ pc' = "open"
  /\ LET good == GoodPart(disk)
     IN /\ disk' = good
        /\ firm' = IF firm <= Len(good) THEN firm ELSE Len(good)
        /\ keydir' = [i \in 1 .. Len(good) |->
                        [seg |-> good[i].seg, off |-> good[i].off, size |-> good[i].len]]
        /\ curSeg' = lastSeg /\ curOff' = FileEnd(good, lastSeg) /\ handle' = TRUE
  /\ UNCHANGED <<lastSeg, pend, told, counters>>

RecoverFails ==
  /\ pc = "closed"
  /\ Damaged(disk) /\ disk[FirstBad(disk)].seg # lastSeg
  /\ pc' = "refused"
  /\ UNCHANGED <<diskVars, pend, ramVars, told, counters>>

\* The process has exited and is started again.
Retry ==
  /\ pc = "refused" /\ pc' = "closed"
  /\ UNCHANGED <<diskVars, pend, ramVars, told, counters>>

(***************************************************************************)
(* Append.                                                                 *)
(***************************************************************************)
StartAppend(r) ==
  /\ pc = "open" /\ appends < MaxAppends
  /\ pc' = "append" /\ pend' = r /\ appends' = appends + 1
  /\ UNCHANGED <<diskVars, ramVars, told, crashes, faults>>

\* The old segment is not synced before the next one is opened.
Rotate_noSync ==
  /\ pc = "append" /\ RotationNeeded
  /\ lastSeg' = lastSeg + 1 /\ curSeg' = lastSeg + 1 /\ curOff' = 0 /\ handle' = TRUE
  /\ UNCHANGED <<disk, firm, pc, pend, keydir, told, counters>>

\* The old offset is carried into the new segment.
Rotate_keepOff ==
  /\ pc = "append" /\ RotationNeeded
  /\ firm' = Len(disk)
  /\ lastSeg' = lastSeg + 1 /\ curSeg' = lastSeg + 1
  /\ curOff' = SegmentMax - Size[pend] /\ handle' = TRUE
  /\ UNCHANGED <<disk, pc, pend, keydir, told, counters>>

\* openSegment syncs and closes the old segment, then creates the next one.
Rotate ==
  /\ pc = "append" /\ RotationNeeded
  /\ firm' = Len(disk)
  /\ lastSeg' = lastSeg + 1 /\ curSeg' = lastSeg + 1 /\ curOff' = 0 /\ handle' = TRUE
  /\ UNCHANGED <<disk, pc, pend, keydir, told, counters>>

Write ==
  /\ pc = "append" /\ ~RotationNeeded /\ handle
  /\ disk' = Append(disk, Frame(pend, curSeg, FileEnd(disk, curSeg)))
  /\ pc' = "written"
  /\ UNCHANGED <<lastSeg, firm, pend, ramVars, told, counters>>

\* Sync if it is due (the clock decides), then publish the record: keydir, nextSeq
\* and curOff move together, and the caller gets the number.
Commit(sync) ==
  LET n == Len(keydir) + 1
  IN /\ pc = "written" /\ (AlwaysSync => sync)
     /\ firm' = IF sync THEN Len(disk) ELSE firm
     /\ keydir' = Append(keydir, [seg |-> curSeg, off |-> curOff, size |-> Size[pend]])
     /\ curOff' = curOff + Size[pend]
     /\ told' = [s \in DOMAIN told \cup {n} |-> IF s = n THEN pend ELSE told[s]]
     /\ pc' = "open"
     /\ UNCHANGED <<disk, lastSeg, pend, curSeg, handle, counters>>

\* Store.cur was closed by a rotation that failed: no write gets through until a
\* record comes along that needs a new segment.
WriteRefused ==
  /\ pc = "append" /\ ~RotationNeeded /\ ~handle
  /\ pc' = "open"
  /\ UNCHANGED <<diskVars, pend, ramVars, told, counters>>

\* Close: sync, then close.
Close ==
  /\ pc = "open"
  /\ firm' = (IF handle THEN Len(disk) ELSE firm) /\ pc' = "closed"
  /\ UNCHANGED <<disk, lastSeg, pend, ramVars, told, counters>>

(***************************************************************************)
(* Crashes. What is in RAM is rebuilt by Recover.                          *)
(***************************************************************************)
\* The process dies: everything written is in the files, the write under way
\* perhaps in part.
Kill(n) ==
  /\ pc \in {"open", "append", "written"} /\ crashes < MaxCrashes
  /\ pc' = "closed" /\ crashes' = crashes + 1
  /\ IF pc = "append" /\ ~RotationNeeded /\ handle /\ n \in 1 .. Size[pend] - 1
     THEN disk' = Append(disk, Part(pend, curSeg, FileEnd(disk, curSeg), n))
     ELSE disk' = disk
  /\ UNCHANGED <<lastSeg, firm, pend, ramVars, told, appends, faults>>

\* The machine loses power: of the pieces not synced the first k - firm are there,
\* the next one perhaps in part, and so is a segment file that holds none of them.
PowerLoss(k, n) ==
  /\ crashes < MaxCrashes /\ pc # "refused"
  /\ k \in firm .. Len(disk)
  /\ LET kept == SubSeq(disk, 1, k)
         cut == IF k < Len(disk) /\ n \in 1 .. disk[k + 1].len - 1
                THEN Append(kept, [disk[k + 1] EXCEPT !.len = n, !.whole = FALSE])
                ELSE kept
         top == IF cut = <<>> THEN 0 ELSE cut[Len(cut)].seg
     IN /\ disk' = cut
        /\ lastSeg' \in {top, lastSeg}
  /\ told' = UpTo(told, Len(GoodPart(SubSeq(disk, 1, firm))))
  /\ pc' = "closed" /\ crashes' = crashes + 1
  /\ UNCHANGED <<firm, pend, ramVars, appends, faults>>

(***************************************************************************)
(* Failing system calls: Append returns the error.                         *)
(***************************************************************************)
Fault == faults < MaxFaults /\ faults' = faults + 1

\* Write fails after n bytes: the file has grown, curOff has not.
WriteFails(n) ==
  /\ Fault /\ pc = "append" /\ ~RotationNeeded /\ handle
  /\ n < Size[pend]
  /\ disk' = IF n = 0 THEN disk
             ELSE Append(disk, Part(pend, curSeg, FileEnd(disk, curSeg), n))
  /\ pc' = "open"
  /\ UNCHANGED <<lastSeg, firm, pend, ramVars, told, appends, crashes>>

\* Sync fails after the write: the record is in the file, but not in keydir.
SyncFails ==
  /\ Fault /\ pc = "written"
  /\ pc' = "open"
  /\ UNCHANGED <<diskVars, pend, ramVars, told, appends, crashes>>

\* openSegment ignores the error of the sync of the old segment...
RotateUnsynced ==
  /\ Fault /\ pc = "append" /\ RotationNeeded
  /\ lastSeg' = lastSeg + 1 /\ curSeg' = lastSeg + 1 /\ curOff' = 0 /\ handle' = TRUE
  /\ UNCHANGED <<disk, firm, pc, pend, keydir, told, appends, crashes>>

\* ... and returns the one of opening the new one, the old one being closed.
RotateFails ==
  /\ Fault /\ pc = "append" /\ RotationNeeded
  /\ firm' = Len(disk) /\ handle' = FALSE /\ pc' = "open"
  /\ UNCHANGED <<disk, lastSeg, pend, keydir, curSeg, curOff, told, appends, crashes>>

Lengths == 0 .. SegmentMax

Next ==
  \/ Recover \/ RecoverFails \/ Retry
  \/ \E r \in Records : StartAppend(r)
  \/ Rotate \/ Write \/ WriteRefused \/ Close
  \/ \E sync \in BOOLEAN : Commit(sync)
  \/ \E n \in Lengths : Kill(n) \/ WriteFails(n)
  \/ \E k \in 0 .. Len(disk), n \in Lengths : PowerLoss(k, n)
  \/ SyncFails \/ RotateUnsynced \/ RotateFails

Spec == Init /\ [][Next]_vars

-------------------------------------------------------------------------------
\* Types; and the firm part is part of what is on disk.
JournalTypeOK ==
  /\ disk \in Seq(Piece)
  /\ lastSeg \in Nat /\ firm \in 0 .. Len(disk)
  /\ pc \in {"closed", "open", "append", "written", "refused"}
  /\ pend \in Records
  /\ keydir \in Seq(Location)
  /\ curSeg \in Nat /\ curOff \in Nat /\ handle \in BOOLEAN
  /\ DOMAIN told \subseteq Nat \ {0} /\ told \in [DOMAIN told -> Records]
  /\ appends \in Nat /\ crashes \in Nat /\ faults \in Nat

(***************************************************************************)
(* What holds as long as no system call has failed and no record is longer *)
(* than recovery reads.                                                    *)
(***************************************************************************)
NoFaults == faults = 0
Readable == \A r \in Records : Size[r] <= RecoverMax
Undisturbed == NoFaults /\ Readable

\* Recovery finds the record that s names in the files as they are.
Recoverable(s) == s \in DOMAIN LogOf(disk) /\ LogOf(disk)[s] = told[s]

\* Whatever record Append has acknowledged, recovery would find under that number,
\* were the process killed right now; and after a power loss this still holds of
\* all that had been synced.
AckedRecoverable == Undisturbed => \A s \in DOMAIN told : Recoverable(s)

\* Read(seq) returns the record that Append acknowledged under seq, whatever was
\* rotated, torn and recovered before.
ReadBack ==
  Undisturbed /\ pc \in {"open", "append", "written"} =>
    \A s \in DOMAIN told : s \in DOMAIN keydir /\ ReadsAs(s, told[s])

\* A crash never leaves files that Open refuses: damage is only ever at the tail of
\* the last segment, because rotation syncs a segment before it leaves it.
AlwaysOpens == Undisturbed => pc # "refused"

\* No segment outgrows SegmentMax.
SegmentsBounded ==
  /\ JournalTypeOK
  /\ NoFaults => \A i \in DOMAIN disk : disk[i].off + disk[i].len <= SegmentMax

\* The journal implements DurableLog: each step is one of DurableLog's or leaves
\* its variables alone.
Abstract == INSTANCE DurableLog WITH log <- LogOf(disk)
ImplementsLog ==
  /\ Abstract!Init
  /\ [][Undisturbed' => [Abstract!Next]_(Abstract!vars)]_vars

(***************************************************************************)
(* What holds whatever fails, of records that recovery can read.           *)
(***************************************************************************)

\* A failing append, rotation or restart never costs a record that was acknowledged
\* and recoverable before it; only a power loss may, and only if it was not synced.
AckedStays ==
  [][\A s \in DOMAIN told \cap DOMAIN told' :
       Readable /\ told'[s] = told[s] /\ Recoverable(s) => Recoverable(s)']_vars

(***************************************************************************)
(* What the comments say and the code does not do once a call has failed.  *)
(***************************************************************************)

\* "An append error aborts with no mutation, so RAM never runs ahead of the journal"
\* (contract in comms/state.go): what the directory in RAM has a number for, a
\* restart would find.
RamIsDurable == pc = "open" => Len(keydir) <= Len(LogOf(disk))

===============================================================================
