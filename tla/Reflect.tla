-------------------------------- MODULE Reflect --------------------------------
(***************************************************************************)
(* The reflect hook (cmd/sentry-reflect) over a session's transcript       *)
(* (internal/transcript): at a stop it counts the tool uses, and when K    *)
(* new ones have accrued since the number in its counter file it stores    *)
(* the new number and blocks the stop. The file can be lost, the write can *)
(* fail unnoticed, the hook can be killed between any two of its steps,    *)
(* and the transcript grows while it is read. The windows of the yield     *)
(* measurement segment the same transcript.                                *)
(***************************************************************************)
EXTENDS Integers, Sequences, FiniteSets, SequencesExt

CONSTANTS
  K,         \* reflectEvery
  MaxLines,  \* length of the transcript
  MaxFaults  \* how often a write fails or the cache directory is emptied

ASSUME ReflectAssumption == K \in Nat \ {0} /\ MaxLines \in Nat /\ MaxFaults \in Nat

\* A line of more than 16 MiB, at which the scanner gives up.
Huge == <<"huge">>

\* A line of the transcript by its blocks; one that does not parse has none.
Lines == {<<"tool">>, <<"text", "tool", "tool">>, <<"text">>, <<>>, Huge}

Absent == -1

VARIABLES
  script,   \* the transcript
  torn,     \* its last line is half written
  counter,  \* the number in the counter file; one that holds no number reads 0
  hook,     \* the hook process: its step, stop_hook_active, the count it holds
  blocks,   \* ghost: the counts at which it blocked a stop, and whether its write reached the file
  faults

reflectVars == <<script, torn, counter, hook, blocks, faults>>

Off == [step |-> "off", active |-> FALSE, count |-> 0, kept |-> TRUE]

ReflectInit == script = <<>> /\ torn = FALSE /\ counter = Absent /\ hook = Off /\ blocks = <<>> /\ faults = 0

-----------------------------------------------------------------------------
(* Reading a transcript *)

\* What the scanner delivers: the lines before the first it cannot hold.
Scannable(lines) ==
  IF Huge \in ToSet(lines) THEN SubSeq(lines, 1, SelectInSeq(lines, LAMBDA l : l = Huge) - 1) ELSE lines

ToolsOf(line) == Cardinality({i \in DOMAIN line : line[i] = "tool"})

CountToolUses(lines) ==
  LET read == Scannable(lines)
      uses[n \in 0 .. Len(read)] == IF n = 0 THEN 0 ELSE uses[n - 1] + ToolsOf(read[n])
  IN  uses[Len(read)]

\* One block against the windows closed so far and the open one.
Closed(w) == [closed |-> Append(w.closed, w.tu), tu |-> 0, text |-> FALSE]

Window(w, b, k) ==
  LET counted == [w EXCEPT !.tu = @ + 1]
  IN  IF b = "text" THEN [w EXCEPT !.text = TRUE]
      ELSE IF b # "tool" THEN w
      ELSE IF counted.tu >= k THEN Closed(counted) ELSE counted

NoWindow == [closed |-> <<>>, tu |-> 0, text |-> FALSE]

Through(w, line, k) ==
  LET after[i \in 0 .. Len(line)] == IF i = 0 THEN w ELSE Window(after[i - 1], line[i], k)
  IN  after[Len(line)]

\* The tool uses of each window, k of them or fewer in the last.
Windows(lines, k) ==
  LET read == Scannable(lines)
      after[n \in 0 .. Len(read)] == IF n = 0 THEN NoWindow ELSE Through(after[n - 1], read[n], k)
      w == after[Len(read)]
  IN  (IF w.tu > 0 \/ w.text THEN Closed(w) ELSE w).closed

-----------------------------------------------------------------------------
(* The session and the hook *)

\* The agent works; its transcript grows, also while a hook reads it.
Grow ==
  /\ \/ /\ ~torn /\ Len(script) < MaxLines
        /\ \E line \in Lines : script' = Append(script, line)
        /\ torn' \in BOOLEAN
     \/ torn /\ torn' = FALSE /\ UNCHANGED script
  /\ UNCHANGED <<counter, hook, blocks, faults>>

\* A stop runs the hook; without a server configured it ends at once.
StopHook ==
  /\ hook.step = "off"
  /\ \E active \in BOOLEAN : hook' = [Off EXCEPT !.step = "opened", !.active = active]
  /\ UNCHANGED <<script, torn, counter, blocks, faults>>

ReadCount == IF counter = Absent THEN 0 ELSE counter

\* Mutant: the guard against its own block is not looked at.
ShouldReflect_again(delta, active) == delta >= K

ShouldReflect(delta, active) == ~active /\ delta >= K

\* Without a half-written last line, which does not parse.
Readable == IF torn THEN Front(script) ELSE script

\* The transcript is counted; then the number is stored, or the hook ends.
Decide ==
  /\ hook.step = "opened"
  /\ LET current == CountToolUses(Readable)
     IN  hook' = IF Huge \notin ToSet(Readable) /\ ShouldReflect(current - ReadCount, hook.active)
                 THEN [hook EXCEPT !.step = "due", !.count = current] ELSE Off
  /\ UNCHANGED <<script, torn, counter, blocks, faults>>

\* writeCount, whose error nobody looks at; a write cut short leaves no number.
WriteCount ==
  /\ hook.step = "due"
  /\ \/ counter' = hook.count /\ hook' = [hook EXCEPT !.step = "stored"] /\ UNCHANGED faults
     \/ faults < MaxFaults /\ faults' = faults + 1
        /\ \/ UNCHANGED counter
           \/ counter' = 0
        /\ hook' = [hook EXCEPT !.step = "stored", !.kept = FALSE]
  /\ UNCHANGED <<script, torn, blocks>>

Block ==
  /\ hook.step = "stored"
  /\ blocks' = Append(blocks, [at |-> hook.count, kept |-> hook.kept, active |-> hook.active])
  /\ hook' = Off
  /\ UNCHANGED <<script, torn, counter, faults>>

\* The hook is killed, or not configured, or cannot open the transcript.
Killed == hook.step # "off" /\ hook' = Off /\ UNCHANGED <<script, torn, counter, blocks, faults>>

\* The cache directory is cleared.
Lost ==
  /\ counter # Absent /\ faults < MaxFaults
  /\ counter' = Absent /\ faults' = faults + 1
  /\ blocks' = [i \in DOMAIN blocks |-> [blocks[i] EXCEPT !.kept = FALSE]]
  /\ hook' = IF hook.step = "stored" THEN [hook EXCEPT !.kept = FALSE] ELSE hook
  /\ UNCHANGED <<script, torn>>

ReflectNext == Grow \/ StopHook \/ Decide \/ WriteCount \/ Block \/ Killed \/ Lost

-----------------------------------------------------------------------------
(* Properties *)

\* Two blocks of one session are K tool uses apart unless what the first stored
\* was lost, however stops, kills and half-written lines interleave; the hook
\* never blocks the stop its own block led to; and it counts as the measurement
\* its K comes from does (transcript.go: "the calibrated K is only meaningful
\* if they agree"): the windows hold every counted use, K in each but the last.
ReflectSpaced ==
  /\ \A i \in DOMAIN blocks :
       /\ ~blocks[i].active
       /\ i > 1 /\ blocks[i - 1].kept => blocks[i].at - blocks[i - 1].at >= K
  /\ LET w == Windows(script, K)
     IN  /\ CountToolUses(script) = IF w = <<>> THEN 0 ELSE K * (Len(w) - 1) + w[Len(w)]
         /\ \A i \in DOMAIN w : IF i < Len(w) THEN w[i] = K ELSE w[i] <= K
===============================================================================
