----------------------------- MODULE DeliveryProofs -----------------------------
(***************************************************************************)
(* What a client has not read is announced to it, and the hook's cursor    *)
(* passes only what the agent has been shown: for any number of clients,   *)
(* messages, faults and sessions.                                          *)
(*                                                                         *)
(* NothingMissed is inductive over the types. For the hook, what it has in *)
(* hand must be all there was up to its newest message (GotAll), its copy  *)
(* of the cursor must be the file's until it saves (CopyIsFile), and as    *)
(* long as every save has worked the file is past all that was shown       *)
(* (ShownBehind).                                                          *)
(***************************************************************************)
EXTENDS Delivery, TLAPS

BusInv ==
  /\ log \in Seq(Message)
  /\ live \subseteq DOMAIN log /\ unpublished \subseteq DOMAIN log

HubInv ==
  /\ wire \in [Clients -> BOOLEAN] /\ chan \in [Clients -> BOOLEAN]
  /\ stage \in [Clients -> {"off", "connected", "registered", "streaming"}]
  /\ cursor \in [Clients -> Nat]
  /\ NothingMissed

WakeTypes ==
  /\ file \in 0 .. Len(log) /\ st \in 0 .. Len(log) /\ got \subseteq DOMAIN log
  /\ pc \in {"idle", "fetch", "decide", "print"}
  /\ shown \subseteq DOMAIN log /\ saveFailures \in Nat

GotAll ==
  pc \in {"decide", "print"} =>
    \A s \in live : \A u \in got : (Directed(s) /\ st < s /\ s <= u) => s \in got

CopyIsFile == pc \in {"fetch", "decide"} => st = file

ShownBehind ==
  saveFailures = 0 =>
    /\ \A s \in shown : s <= file /\ (pc # "idle" => s <= st)
    /\ pc = "print" => \A s \in got : s <= file

WakeInv == WakeTypes /\ GotAll /\ CopyIsFile /\ ShownBehind /\ CursorMeansShown

-------------------------------------------------------------------------------
\* What the index can do between two steps of a reader: grow at the end, or shrink.
BusStep ==
  \/ \E m \in Message : Post(m)
  \/ \E s \in live : Remove(s)
  \/ UNCHANGED <<log, live, unpublished>>

\* A longer log says the same of the messages it had.
LEMMA Posted ==
  ASSUME BusInv, NEW m \in Message, Post(m)
  PROVE  /\ Len(log') = Len(log) + 1 /\ Len(log) \in Nat /\ log' \in Seq(Message)
         /\ DOMAIN log' = DOMAIN log \cup {Len(log) + 1}
         /\ live' = live \cup {Len(log) + 1} /\ unpublished' = unpublished \cup {Len(log) + 1}
         /\ \A s \in DOMAIN log : log'[s] = log[s] /\ s \in Nat /\ s <= Len(log)
  BY DEF Post, BusInv

\* The index stays well formed.
LEMMA BusKept == ASSUME BusInv, BusStep PROVE BusInv'
<1>1. CASE \E m \in Message : Post(m)
  BY <1>1, Posted DEF BusInv
<1>2. CASE \E s \in live : Remove(s)
  BY <1>2 DEF Remove, BusInv
<1>3. CASE UNCHANGED <<log, live, unpublished>>
  BY <1>3 DEF BusInv
<1>. QED
  BY <1>1, <1>2, <1>3 DEF BusStep

\* No change of the index alone makes a client miss anything: a post is unpublished.
LEMMA HubKept == ASSUME BusInv, HubInv, BusStep, UNCHANGED hubVars PROVE HubInv'
<1>1. UNCHANGED <<stage, chan, wire, cursor>>
  BY DEF hubVars
<1>2. SUFFICES NothingMissed'
  BY <1>1 DEF HubInv
<1>3. CASE \E m \in Message : Post(m)
  <2>1. PICK m \in Message : Post(m)
    BY <1>3
  <2>2. \A c \in Clients : Unread(c)' \subseteq Unread(c) \cup {Len(log) + 1}
    BY <1>1, <2>1, Posted DEF BusInv, Unread, Matches
  <2>. QED
    BY <1>1, <2>1, <2>2, Posted DEF HubInv, NothingMissed
<1>4. CASE \E s \in live : Remove(s)
  <2>1. \A c \in Clients : Unread(c)' \subseteq Unread(c)
    BY <1>1, <1>4 DEF Remove, Unread, Matches
  <2>2. unpublished' = unpublished
    BY <1>4 DEF Remove
  <2>. QED
    BY <1>1, <2>1, <2>2 DEF HubInv, NothingMissed
<1>5. CASE UNCHANGED <<log, live, unpublished>>
  BY <1>1, <1>5 DEF HubInv, NothingMissed, Unread, Matches
<1>. QED
  BY <1>3, <1>4, <1>5 DEF BusStep

\* A step of the hub, of a stream or of a client keeps what it must announce.
LEMMA HubStep == ASSUME BusInv, HubInv, HubNext PROVE BusInv' /\ HubInv'
<1>1. CASE \E s \in unpublished : Publish(s)
  <2>1. PICK s \in unpublished : Publish(s)
    BY <1>1
  <2>2. /\ unpublished' = unpublished \ {s} /\ UNCHANGED <<log, live, stage, wire, cursor>>
        /\ chan' = [c \in Clients |-> chan[c] \/ (Registered(c) /\ Matches(c, log[s]))]
    BY <2>1 DEF Publish
  <2>3. chan' \in [Clients -> BOOLEAN]
    BY <2>2
  <2>4. ASSUME NEW c \in Clients, stage[c] = "streaming", ~wire[c], ~chan'[c]
        PROVE  Unread(c)' \subseteq unpublished'
    <3>1. ~chan[c] /\ ~(Registered(c) /\ Matches(c, log[s]))
      BY <2>2, <2>4
    <3>2. ~Matches(c, log[s])
      BY <2>4, <3>1 DEF Registered
    <3>3. Unread(c) \subseteq unpublished /\ s \notin Unread(c)
      BY <2>4, <3>1, <3>2 DEF HubInv, NothingMissed, Unread
    <3>4. Unread(c)' = Unread(c)
      BY <2>2 DEF Unread, Matches
    <3>. QED
      BY <2>2, <3>3, <3>4
  <2>5. NothingMissed'
    BY <2>2, <2>4 DEF NothingMissed
  <2>. QED
    BY <2>2, <2>3, <2>5 DEF BusInv, HubInv
<1>2. ASSUME NEW c \in Clients, Connect(c) \/ Register(c) \/ Disconnect(c)
      PROVE  BusInv' /\ HubInv'
  <2>1. /\ UNCHANGED <<log, live, unpublished, cursor>>
        /\ \E x \in {"off", "connected", "registered"} : stage' = [stage EXCEPT ![c] = x]
        /\ chan' \in {chan, [chan EXCEPT ![c] = FALSE]}
        /\ wire' \in {wire, [wire EXCEPT ![c] = FALSE]}
    BY <1>2 DEF Connect, Register, Disconnect, busVars
  <2>2. \A d \in Clients : Unread(d)' = Unread(d)
    BY <2>1 DEF Unread, Matches
  <2>3. /\ stage' \in [Clients -> {"off", "connected", "registered", "streaming"}]
        /\ chan' \in [Clients -> BOOLEAN] /\ wire' \in [Clients -> BOOLEAN]
    BY <2>1 DEF HubInv
  <2>4. NothingMissed'
    BY <2>1, <2>2 DEF HubInv, NothingMissed
  <2>. QED
    BY <2>1, <2>3, <2>4 DEF BusInv, HubInv
<1>3. ASSUME NEW c \in Clients, CatchUp(c)
      PROVE  BusInv' /\ HubInv'
  <2>1. /\ UNCHANGED <<log, live, unpublished, cursor, chan>>
        /\ stage' = [stage EXCEPT ![c] = "streaming"]
        /\ wire' = [wire EXCEPT ![c] = wire[c] \/ Unread(c) # {}]
    BY <1>3 DEF CatchUp, busVars
  <2>2. \A d \in Clients : Unread(d)' = Unread(d)
    BY <2>1 DEF Unread, Matches
  <2>3. wire' \in [Clients -> BOOLEAN]
        /\ stage' \in [Clients -> {"off", "connected", "registered", "streaming"}]
    BY <2>1 DEF HubInv
  <2>4. ASSUME NEW d \in Clients, stage'[d] = "streaming"
        PROVE  wire'[d] \/ chan'[d] \/ Unread(d)' \subseteq unpublished'
    <3>1. CASE d = c
      <4>1. wire'[c] = (wire[c] \/ Unread(c) # {})
        BY <2>1 DEF HubInv
      <4>2. CASE Unread(c) = {}
        BY <2>2, <3>1, <4>2
      <4>3. CASE Unread(c) # {}
        BY <3>1, <4>1, <4>3
      <4>. QED
        BY <4>2, <4>3
    <3>2. CASE d # c
      <4>1. stage[d] = "streaming" /\ wire'[d] = wire[d]
        BY <2>1, <2>4, <3>2 DEF HubInv
      <4>. QED
        BY <2>1, <2>2, <4>1 DEF HubInv, NothingMissed
    <3>. QED
      BY <3>1, <3>2
  <2>5. NothingMissed'
    BY <2>4 DEF NothingMissed
  <2>. QED
    BY <2>1, <2>3, <2>5 DEF BusInv, HubInv
<1>4. ASSUME NEW c \in Clients, Forward(c)
      PROVE  BusInv' /\ HubInv'
  <2>1. /\ UNCHANGED <<log, live, unpublished, cursor, stage>>
        /\ chan' = [chan EXCEPT ![c] = FALSE] /\ wire' = [wire EXCEPT ![c] = TRUE]
    BY <1>4 DEF Forward, busVars
  <2>2. \A d \in Clients : Unread(d)' = Unread(d)
    BY <2>1 DEF Unread, Matches
  <2>3. chan' \in [Clients -> BOOLEAN] /\ wire' \in [Clients -> BOOLEAN]
    BY <2>1 DEF HubInv
  <2>4. NothingMissed'
    BY <2>1, <2>2 DEF HubInv, NothingMissed
  <2>. QED
    BY <2>1, <2>3, <2>4 DEF BusInv, HubInv
<1>5. ASSUME NEW c \in Clients, ClientReads(c)
      PROVE  BusInv' /\ HubInv'
  <2>1. /\ UNCHANGED <<log, live, unpublished, stage, chan>>
        /\ wire' = [wire EXCEPT ![c] = FALSE]
        /\ \/ Unread(c) = {} /\ cursor' = cursor
           \/ \E s \in Unread(c) : Newest(s, Unread(c)) /\ cursor' = [cursor EXCEPT ![c] = s]
    BY <1>5 DEF ClientReads, busVars
  <2>2. cursor' \in [Clients -> Nat] /\ wire' \in [Clients -> BOOLEAN]
    <3>1. Unread(c) \subseteq Nat
      BY DEF BusInv, Unread
    <3>. QED
      BY <2>1, <3>1 DEF HubInv
  <2>3. Unread(c)' = {}
    <3>1. CASE Unread(c) = {} /\ cursor' = cursor
      BY <2>1, <3>1 DEF Unread, Matches
    <3>2. CASE \E s \in Unread(c) : Newest(s, Unread(c)) /\ cursor' = [cursor EXCEPT ![c] = s]
      <4>1. PICK s \in Unread(c) : Newest(s, Unread(c)) /\ cursor'[c] = s
        BY <3>2 DEF HubInv
      <4>2. s \in Nat /\ s > cursor[c] /\ live \subseteq Nat /\ cursor[c] \in Nat
        BY DEF BusInv, HubInv, Unread
      <4>3. \A u \in live : u > s /\ Matches(c, log[u]) => u \in Unread(c)
        BY <4>2 DEF Unread
      <4>4. \A u \in live : ~(u > s /\ Matches(c, log[u]))
        BY <4>1, <4>2, <4>3 DEF Newest
      <4>. QED
        BY <2>1, <4>1, <4>4 DEF Unread, Matches
    <3>. QED
      BY <2>1, <3>1, <3>2
  <2>4. \A d \in Clients : d # c => Unread(d)' = Unread(d) /\ wire'[d] = wire[d]
    BY <2>1 DEF HubInv, Unread, Matches
  <2>5. NothingMissed'
    BY <2>1, <2>3, <2>4 DEF HubInv, NothingMissed
  <2>. QED
    BY <2>1, <2>2, <2>5 DEF BusInv, HubInv
<1>6. CASE ServerRestart
  BY <1>6 DEF ServerRestart, BusInv, HubInv, NothingMissed
<1>. QED
  BY <1>1, <1>2, <1>3, <1>4, <1>5, <1>6 DEF HubNext

-------------------------------------------------------------------------------
\* A post gets a number beyond the cursor and beyond all the hook has in hand.
LEMMA WakeKept ==
  ASSUME BusInv, WakeInv, BusStep, UNCHANGED wakeVars
  PROVE  WakeInv'
<1>1. UNCHANGED <<session, file, continuing, pc, st, got, shown, dropped, saveFailures>>
  BY DEF wakeVars
<1>2. CASE \E m \in Message : Post(m)
  <2>1. PICK m \in Message : Post(m)
    BY <1>2
  <2>2. /\ Len(log') = Len(log) + 1 /\ Len(log) \in Nat
        /\ DOMAIN log' = DOMAIN log \cup {Len(log) + 1}
        /\ live' = live \cup {Len(log) + 1}
        /\ \A s \in DOMAIN log : log'[s] = log[s] /\ s \in Nat /\ s <= Len(log)
    BY <2>1, Posted
  <2>3. WakeTypes'
    BY <1>1, <2>2 DEF WakeInv, WakeTypes
  <2>4. GotAll' /\ CursorMeansShown'
    BY <1>1, <2>2 DEF BusInv, WakeInv, WakeTypes, GotAll, CursorMeansShown, Directed, New
  <2>5. CopyIsFile' /\ ShownBehind'
    BY <1>1 DEF WakeInv, CopyIsFile, ShownBehind
  <2>. QED
    BY <2>3, <2>4, <2>5 DEF WakeInv
<1>3. CASE log' = log /\ live' \subseteq live
  BY <1>1, <1>3 DEF WakeInv, WakeTypes, GotAll, CopyIsFile, ShownBehind, CursorMeansShown,
     Directed, New
<1>4. CASE \E s \in live : Remove(s)
  BY <1>3, <1>4 DEF Remove
<1>. QED
  BY <1>2, <1>3, <1>4 DEF BusStep

\* Nothing in hand, and a file that did not move or was emptied: the invariant holds.
LEMMA WakeIdle ==
  ASSUME BusInv, WakeInv, UNCHANGED <<log, live, shown>>, Ends(FALSE) \/ Ends(TRUE),
         file' = file \/ (file' = 0 /\ saveFailures' # 0), saveFailures' \in Nat,
         saveFailures' = 0 => saveFailures = 0,
         dropped' = IF pc = "print" THEN dropped \cup New ELSE dropped
  PROVE  WakeInv'
<1>1. pc' = "idle" /\ st' = 0 /\ got' = {}
  BY DEF Ends
<1>2. WakeTypes' /\ GotAll' /\ CopyIsFile'
  BY <1>1 DEF WakeInv, WakeTypes, GotAll, CopyIsFile, BusInv
<1>3. ShownBehind'
  BY <1>1 DEF WakeInv, ShownBehind
<1>4. CursorMeansShown'
  <2> SUFFICES ASSUME NEW s \in live, Directed(s), s <= file'
               PROVE  s \in shown \cup dropped'
    BY <1>1 DEF CursorMeansShown, Directed
  <2>1. s <= file
    BY DEF WakeInv, WakeTypes, BusInv
  <2>2. s \in shown \cup dropped \/ (pc = "print" /\ s \in New)
    BY <2>1 DEF WakeInv, CursorMeansShown
  <2>. QED
    BY <2>2
<1>. QED
  BY <1>2, <1>3, <1>4 DEF WakeInv

\* A hook that ends without printing, with or without a note.
LEMMA WakeLetsGo ==
  ASSUME BusInv, WakeInv, Hold \/ LetStop \/ Reflect \/ KillHook
  PROVE  BusInv' /\ WakeInv'
<1>1. ASSUME Hold \/ LetStop
      PROVE  BusInv' /\ WakeInv'
  <2>1. /\ pc = "decide" /\ pc' = "idle" /\ st' = 0 /\ got' = {}
        /\ UNCHANGED <<file, shown, dropped, saveFailures>>
    BY <1>1 DEF Hold, LetStop, Ends
  <2>2. BusStep
    BY <1>1, WakeAssumption DEF Hold, LetStop, BusStep, busVars, Message
  <2>3. BusInv'
    BY <2>2, BusKept
  <2>4. WakeTypes' /\ GotAll' /\ CopyIsFile' /\ ShownBehind'
    <3>1. file \in 0 .. Len(log)' /\ DOMAIN log \subseteq DOMAIN log'
      BY <2>2, Posted DEF BusStep, WakeInv, WakeTypes, Remove, BusInv
    <3>. QED
      BY <2>1, <2>3, <3>1 DEF WakeInv, WakeTypes, GotAll, CopyIsFile, ShownBehind, BusInv
  <2>5. CursorMeansShown'
    <3> SUFFICES ASSUME NEW s \in live', Directed(s)', s <= file
                 PROVE  s \in shown \cup dropped
      BY <2>1 DEF CursorMeansShown
    <3>1. s \in live /\ log'[s] = log[s]
      BY <2>2, Posted DEF BusStep, BusInv, Remove, WakeInv, WakeTypes
    <3>. QED
      BY <2>1, <3>1 DEF WakeInv, CursorMeansShown, Directed
  <2>. QED
    BY <2>3, <2>4, <2>5 DEF WakeInv
<1>2. CASE Reflect
  <2>1. /\ pc = "decide" /\ Ends(TRUE) /\ UNCHANGED <<log, live, unpublished, shown, dropped>>
        /\ \/ file' = st /\ saveFailures' = saveFailures
           \/ BadSave
    BY <1>2 DEF Reflect, busVars
  <2>2. file' = file \/ (file' = 0 /\ saveFailures' # 0)
    BY <2>1 DEF BadSave, WakeInv, WakeTypes, CopyIsFile
  <2>3. saveFailures' \in Nat /\ (saveFailures' = 0 => saveFailures = 0)
    BY <2>1 DEF BadSave, WakeInv, WakeTypes
  <2>4. WakeInv'
    BY <2>1, <2>2, <2>3, WakeIdle
  <2>. QED
    BY <2>1, <2>4 DEF BusInv
<1>3. CASE KillHook
  <2>1. /\ Ends(FALSE) /\ UNCHANGED <<log, live, unpublished, shown>>
        /\ dropped' = IF pc = "print" THEN dropped \cup New ELSE dropped
        /\ UNCHANGED <<file, saveFailures>> \/ BadSave
    BY <1>3 DEF KillHook
  <2>2. file' = file \/ (file' = 0 /\ saveFailures' # 0)
    BY <2>1 DEF BadSave, WakeInv, WakeTypes
  <2>3. saveFailures' \in Nat /\ (saveFailures' = 0 => saveFailures = 0)
    BY <2>1 DEF BadSave, WakeInv, WakeTypes
  <2>4. WakeInv'
    BY <2>1, <2>2, <2>3, WakeIdle
  <2>. QED
    BY <2>1, <2>4 DEF BusInv
<1>. QED
  BY <1>1, <1>2, <1>3

\* A hook that starts, fetches, saves or prints.
LEMMA WakeGoesOn ==
  ASSUME BusInv, WakeInv,
         TurnEnds \/ Fetch \/ FetchFails \/ Save \/ SaveFails \/ PrintWake \/ NewSession
  PROVE  BusInv' /\ WakeInv'
<1>1. UNCHANGED <<log, live, unpublished>>
  BY DEF TurnEnds, Fetch, FetchFails, Save, SaveFails, PrintWake, NewSession, busVars
<1>2. /\ live \subseteq Nat \ {0} /\ DOMAIN log \subseteq Nat /\ got \subseteq Nat
      /\ st \in Nat /\ file \in Nat /\ Len(log) \in Nat
      /\ DOMAIN log = 1 .. Len(log)
  BY DEF BusInv, WakeInv, WakeTypes
<1>3. BusInv'
  BY <1>1 DEF BusInv
<1>4. CASE TurnEnds
  <2>1. /\ pc = "idle" /\ pc' = "fetch" /\ st' = file /\ got' = {}
        /\ UNCHANGED <<file, shown, dropped, saveFailures>>
    BY <1>4 DEF TurnEnds
  <2>2. WakeTypes' /\ GotAll' /\ CopyIsFile' /\ ShownBehind'
    BY <1>1, <2>1 DEF WakeInv, WakeTypes, GotAll, CopyIsFile, ShownBehind
  <2>3. CursorMeansShown'
    BY <1>1, <2>1 DEF WakeInv, CursorMeansShown, Directed
  <2>. QED
    BY <1>3, <2>2, <2>3 DEF WakeInv
<1>5. CASE Fetch \/ FetchFails
  <2>1. /\ pc = "fetch" /\ pc' = "decide" /\ got' \in {Inbox(st), {}}
        /\ UNCHANGED <<file, st, shown, dropped, saveFailures>>
    BY <1>5 DEF Fetch, FetchFails
  <2>2. WakeTypes'
    BY <1>1, <2>1 DEF WakeInv, WakeTypes, BusInv, Inbox
  <2>3. GotAll'
    BY <1>1, <2>1 DEF GotAll, Inbox, Directed
  <2>4. CopyIsFile' /\ ShownBehind' /\ CursorMeansShown'
    BY <1>1, <2>1 DEF WakeInv, CopyIsFile, ShownBehind, CursorMeansShown, Directed
  <2>. QED
    BY <1>3, <2>2, <2>3, <2>4 DEF WakeInv
<1>6. CASE Save
  <2>1. /\ pc = "decide" /\ pc' = "print" /\ New # {}
        /\ UNCHANGED <<st, got, shown, dropped, saveFailures>>
    BY <1>6 DEF Save
  <2>2. PICK n \in got : Newest(n, got) /\ file' = n
    BY <1>6 DEF Save
  <2>3. n > st /\ n \in Nat /\ st = file
    <3>1. PICK u \in got : u > st
      BY <2>1 DEF New
    <3>2. u <= n /\ u \in Nat /\ n \in Nat
      BY <1>2, <2>2, <3>1 DEF Newest
    <3>3. st = file
      BY <2>1 DEF WakeInv, CopyIsFile
    <3>. QED
      BY <1>2, <3>1, <3>2, <3>3
  <2>4. WakeTypes'
    BY <1>1, <1>2, <2>1, <2>2 DEF WakeInv, WakeTypes
  <2>5. GotAll' /\ CopyIsFile'
    BY <1>1, <2>1 DEF WakeInv, GotAll, CopyIsFile, Directed
  <2>6. ShownBehind'
    BY <1>2, <2>1, <2>2, <2>3 DEF WakeInv, WakeTypes, ShownBehind, Newest
  <2>7. CursorMeansShown'
    <3> SUFFICES ASSUME NEW s \in live, Directed(s), s <= n
                 PROVE  s \in shown \cup dropped \/ s \in New
      BY <1>1, <2>1, <2>2 DEF CursorMeansShown, Directed, New
    <3>1. CASE s <= file
      BY <2>1, <3>1 DEF WakeInv, CursorMeansShown
    <3>2. CASE s > file
      BY <2>1, <2>2, <2>3, <3>2 DEF WakeInv, GotAll, New
    <3>. QED
      BY <1>2, <3>1, <3>2
  <2>. QED
    BY <1>3, <2>4, <2>5, <2>6, <2>7 DEF WakeInv
<1>7. CASE SaveFails
  <2>1. /\ pc = "decide" /\ pc' = "print" /\ file' \in {file, 0}
        /\ saveFailures' = saveFailures + 1
        /\ UNCHANGED <<st, got, shown, dropped>>
    BY <1>7 DEF SaveFails, BadSave
  <2>2. WakeTypes' /\ GotAll' /\ CopyIsFile' /\ ShownBehind'
    BY <1>1, <1>2, <2>1 DEF WakeInv, WakeTypes, GotAll, CopyIsFile, ShownBehind, Directed
  <2>3. CursorMeansShown'
    BY <1>1, <1>2, <2>1 DEF WakeInv, CursorMeansShown, Directed, New
  <2>. QED
    BY <1>3, <2>2, <2>3 DEF WakeInv
<1>8. CASE PrintWake
  <2>1. /\ pc = "print" /\ pc' = "idle" /\ st' = 0 /\ got' = {} /\ shown' = shown \cup New
        /\ UNCHANGED <<file, dropped, saveFailures>>
    BY <1>8 DEF PrintWake, Ends
  <2>2. New \subseteq got
    BY DEF New
  <2>3. WakeTypes' /\ GotAll' /\ CopyIsFile' /\ ShownBehind'
    BY <1>1, <1>2, <2>1, <2>2 DEF WakeInv, WakeTypes, GotAll, CopyIsFile, ShownBehind
  <2>4. CursorMeansShown'
    BY <1>1, <2>1 DEF WakeInv, CursorMeansShown, Directed
  <2>. QED
    BY <1>3, <2>3, <2>4 DEF WakeInv
<1>9. CASE NewSession
  <2>1. /\ pc = "idle" /\ pc' = "idle" /\ file' = 0 /\ shown' = {}
        /\ UNCHANGED <<st, got, saveFailures>>
    BY <1>9 DEF NewSession
  <2>2. WakeTypes' /\ GotAll' /\ CopyIsFile' /\ ShownBehind'
    BY <1>1, <1>2, <2>1 DEF WakeInv, WakeTypes, GotAll, CopyIsFile, ShownBehind
  <2>3. CursorMeansShown'
    BY <1>1, <1>2, <2>1 DEF CursorMeansShown
  <2>. QED
    BY <1>3, <2>2, <2>3 DEF WakeInv
<1>. QED
  BY <1>3, <1>4, <1>5, <1>6, <1>7, <1>8, <1>9

-------------------------------------------------------------------------------
IInv == BusInv /\ HubInv /\ WakeInv

\* The empty bus.
LEMMA InitInv == Init => IInv
<1> SUFFICES ASSUME Init PROVE IInv
  OBVIOUS
<1>1. /\ log = <<>> /\ Len(log) = 0 /\ DOMAIN log = {} /\ live = {} /\ unpublished = {}
  BY DEF Init, BusInit
<1>2. BusInv
  BY <1>1 DEF BusInv
<1>3. HubInv
  BY DEF Init, HubInit, HubInv, NothingMissed
<1>4. WakeInv
  BY <1>1 DEF Init, WakeInit, WakeInv, WakeTypes, GotAll, CopyIsFile, ShownBehind,
     CursorMeansShown
<1>. QED
  BY <1>2, <1>3, <1>4 DEF IInv

\* Every step keeps the invariant: the hub and its clients leave the hook alone, the hook
\* changes the index at most by a post.
LEMMA NextInv == IInv /\ [Next]_vars => IInv'
<1> SUFFICES ASSUME IInv, [Next]_vars PROVE IInv'
  OBVIOUS
<1>1. CASE BusStep /\ UNCHANGED <<hubVars, wakeVars>>
  BY <1>1, BusKept, HubKept, WakeKept DEF IInv
<1>2. CASE HubNext /\ UNCHANGED wakeVars
  <2>1. BusInv' /\ HubInv'
    BY <1>2, HubStep DEF IInv
  <2>2. UNCHANGED <<log, live>>
    BY <1>2 DEF HubNext, Publish, Connect, Register, CatchUp, Forward, ClientReads, Disconnect,
       ServerRestart, busVars
  <2>3. WakeInv'
    BY <1>2, <2>2 DEF IInv, wakeVars, WakeInv, WakeTypes, GotAll, CopyIsFile, ShownBehind,
       CursorMeansShown, Directed, New
  <2>. QED
    BY <2>1, <2>3 DEF IInv
<1>3. CASE WakeNext /\ UNCHANGED hubVars
  <2>1. BusInv' /\ WakeInv'
    BY <1>3, WakeLetsGo, WakeGoesOn DEF WakeNext, IInv
  <2>2. BusStep
    BY <1>3, WakeAssumption DEF WakeNext, TurnEnds, Fetch, FetchFails, Hold, LetStop, Reflect,
       Save, SaveFails, PrintWake, KillHook, NewSession, BusStep, busVars, Message
  <2>3. HubInv'
    BY <1>3, <2>2, HubKept DEF IInv
  <2>. QED
    BY <2>1, <2>3 DEF IInv
<1>4. CASE UNCHANGED vars
  BY <1>1, <1>4 DEF vars, BusStep, busVars
<1>5. CASE Next
  BY <1>1, <1>2, <1>3, <1>5, DeliveryAssumption DEF Next, BusStep
<1>. QED
  BY <1>4, <1>5

\* Invariance of IInv.
LEMMA Invariance == Spec => []IInv
  BY InitInv, NextInv, PTL DEF Spec

\* No gap between the registration with the hub and the catch-up (handleCommsSubscribe),
\* for any number of clients, posts and faults.
THEOREM NoGap == Spec => []NothingMissed
<1>1. IInv => NothingMissed
  BY DEF IInv, HubInv
<1>. QED
  BY <1>1, Invariance, PTL

\* The hook's cursor passes only what the agent has been shown, or what a killed hook took
\* with it.
THEOREM CursorIsSafe == Spec => []CursorMeansShown
<1>1. IInv => CursorMeansShown
  BY DEF IInv, WakeInv
<1>. QED
  BY <1>1, Invariance, PTL

\* As long as the state file can be written no message wakes the agent twice in a session.
THEOREM NoSecondWake == Spec => WokenOnce
<1>1. IInv /\ [Next]_vars =>
        [(PrintWake /\ saveFailures = 0) => New \cap shown = {}]_wakeVars
  <2> SUFFICES ASSUME IInv, PrintWake, saveFailures = 0 PROVE New \cap shown = {}
    OBVIOUS
  <2>1. \A s \in shown : s <= st
    BY DEF IInv, WakeInv, ShownBehind, PrintWake
  <2>2. shown \subseteq Nat /\ st \in Nat
    BY DEF IInv, WakeInv, WakeTypes, BusInv
  <2>3. ASSUME NEW s \in New, s \in shown PROVE FALSE
    BY <2>1, <2>2, <2>3 DEF New
  <2>. QED
    BY <2>3
<1>. QED
  BY <1>1, Invariance, PTL DEF Spec, WokenOnce

===============================================================================
