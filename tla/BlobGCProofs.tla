------------------------------ MODULE BlobGCProofs ------------------------------
(***************************************************************************)
(* The collector takes no bytes it must not take, for any number of        *)
(* tenants, areas and blobs, any retention and any journal.                *)
(*                                                                         *)
(* What must not be deleted must not be on the list of the collector       *)
(* either (Safe), the request between Put and PostImage must have its      *)
(* bytes while no collection runs (PostingSafe), and a restart must not    *)
(* find an image that RAM had lost by anything but retention (Known) nor   *)
(* lose a pin (HeldPinned).                                                *)
(***************************************************************************)
EXTENDS BlobGC, TLAPS

Kept == files \ todo

LiveSafe == \A s \in live \ evicted : Blob(s) = NoBlob \/ Blob(s) \in Kept

HeldSafe == \A p \in held : p[1] \in Kept

PostingSafe == \A r \in posting : r.blob \in files /\ ~collecting

HeldPinned == held \subseteq pinned /\ held \subseteq ReplayedPins(journal)

Known == \A s \in Replayed(journal) : s \in live \/ s \in evicted \/ s <= aged

IInv == TypeOK /\ LiveSafe /\ HeldSafe /\ PostingSafe /\ HeldPinned /\ Known

-------------------------------------------------------------------------------
\* The empty store is safe.
LEMMA InitInv == Init => IInv
<1> SUFFICES ASSUME Init PROVE IInv
  OBVIOUS
<1>1. DOMAIN journal = {} /\ journal \in Seq(Record)
  BY DEF Init
<1>2. TypeOK
  <2>1. serving \in BOOLEAN /\ collecting \in BOOLEAN
    BY Zenon DEF Init
  <2>2. aged \in 0 .. MaxAge
    BY BlobAssumption DEF Init
  <2>. QED
    BY <1>1, <2>1, <2>2 DEF Init, TypeOK
<1>3. LiveSafe /\ HeldSafe /\ PostingSafe /\ HeldPinned
  BY DEF Init, LiveSafe, HeldSafe, PostingSafe, HeldPinned
<1>4. Known
  BY <1>1 DEF Known, Replayed
<1>. QED
  BY <1>2, <1>3, <1>4 DEF IInv

\* What a longer journal says of the records it already had.
LEMMA AppendedRecord ==
  ASSUME NEW j \in Seq(Record), NEW r \in Record, NEW k, k = Append(j, r)
  PROVE  /\ k \in Seq(Record) /\ Len(k) = Len(j) + 1 /\ k[Len(j) + 1] = r
         /\ DOMAIN k = DOMAIN j \cup {Len(j) + 1}
         /\ \A s \in DOMAIN j : k[s] = j[s] /\ s \in Nat /\ s < Len(j) + 1
  OBVIOUS

\* An append brings no image of the old journal back.
LEMMA ReplayedAppend ==
  ASSUME NEW j \in Seq(Record), NEW r \in Record
  PROVE  \A s \in Replayed(Append(j, r)) :
           \/ s = Len(j) + 1 /\ r.type \in {"image", "message"}
           \/ s \in Replayed(j) /\ ~(r.type = "clear" /\ r.tenant = j[s].tenant
                                                      /\ r.area = j[s].area)
<1> DEFINE k == Append(j, r)
<1>1. /\ Len(k) = Len(j) + 1 /\ k[Len(j) + 1] = r /\ DOMAIN k = DOMAIN j \cup {Len(j) + 1}
      /\ \A s \in DOMAIN j : k[s] = j[s] /\ s \in Nat /\ s < Len(j) + 1
  BY AppendedRecord
<1>2. SUFFICES ASSUME NEW s \in Replayed(k), s # Len(j) + 1
               PROVE  s \in Replayed(j) /\ ~(r.type = "clear" /\ r.tenant = j[s].tenant
                                                              /\ r.area = j[s].area)
  BY <1>1 DEF Replayed
<1> HIDE DEF k
<1>3. s \in DOMAIN j /\ k[s] = j[s] /\ j[s].type \in {"image", "message"} /\ ~Cleared(k, s)
  BY <1>1, <1>2 DEF Replayed
<1>4. ~Cleared(j, s)
  BY <1>1, <1>3 DEF Cleared
<1>5. ~(r.type = "clear" /\ r.tenant = j[s].tenant /\ r.area = j[s].area)
  BY <1>1, <1>3 DEF Cleared
<1>. QED
  BY <1>3, <1>4, <1>5 DEF Replayed

\* A pin is lost only to an unpin of the same tenant and blob.
LEMMA PinsAppend ==
  ASSUME NEW j \in Seq(Record), NEW r \in Record, NEW p \in ReplayedPins(j),
         r.type # "unpin" \/ <<r.blob, r.tenant>> # p
  PROVE  p \in ReplayedPins(Append(j, r))
<1> DEFINE k == Append(j, r)
<1>1. /\ k[Len(j) + 1] = r /\ DOMAIN k = DOMAIN j \cup {Len(j) + 1}
      /\ \A s \in DOMAIN j : k[s] = j[s]
  BY AppendedRecord
<1> HIDE DEF k
<1>2. PICK i \in DOMAIN j :
        /\ j[i].type = "pin" /\ <<j[i].blob, j[i].tenant>> = p
        /\ ~\E u \in DOMAIN j : u > i /\ j[u].type = "unpin"
                                /\ j[u].blob = j[i].blob /\ j[u].tenant = j[i].tenant
  BY DEF ReplayedPins
<1>3. ~\E u \in DOMAIN k : u > i /\ k[u].type = "unpin"
                           /\ k[u].blob = k[i].blob /\ k[u].tenant = k[i].tenant
  BY <1>1, <1>2
<1>4. i \in DOMAIN k /\ k[i] = j[i]
  BY <1>1, <1>2
<1>5. p \in ReplayedPins(k)
  BY <1>2, <1>3, <1>4 DEF ReplayedPins
<1>. QED
  BY <1>5 DEF k

\* The record just appended is the last word on its pin.
LEMMA NewPin ==
  ASSUME NEW j \in Seq(Record), NEW r \in Record, r.type = "pin", r.blob \in Blobs
  PROVE  <<r.blob, r.tenant>> \in ReplayedPins(Append(j, r))
<1> DEFINE k == Append(j, r)
<1>1. /\ k[Len(j) + 1] = r /\ DOMAIN k = DOMAIN j \cup {Len(j) + 1}
      /\ \A s \in DOMAIN j : s \in Nat /\ s < Len(j) + 1
  BY AppendedRecord
<1> HIDE DEF k
<1>2. ~\E u \in DOMAIN k : u > Len(j) + 1
  BY <1>1
<1>3. r.tenant \in Tenants
  BY DEF Record
<1>4. <<r.blob, r.tenant>> \in ReplayedPins(k)
  BY <1>1, <1>2, <1>3 DEF ReplayedPins
<1>. QED
  BY <1>4 DEF k

-------------------------------------------------------------------------------
\* An image request that has its bytes keeps them and holds server.mu.
LEMMA InvPut ==
  ASSUME IInv, NEW t \in Tenants, NEW a \in Areas, NEW b \in Blobs, Put(t, a, b)
  PROVE  IInv'
<1>1. TypeOK'
  <2>1. [type |-> "image", tenant |-> t, area |-> a, blob |-> b] \in Record
    BY DEF Record
  <2>2. posting' \subseteq {r \in Record : r.type = "image" /\ r.blob \in Blobs}
    BY <2>1 DEF IInv, TypeOK, Put
  <2>. QED
    BY <2>2 DEF IInv, TypeOK, Put, commsVars, Blob
<1>2. LiveSafe' /\ HeldSafe' /\ HeldPinned' /\ Known'
  BY DEF IInv, TypeOK, Put, commsVars, LiveSafe, HeldSafe, HeldPinned, Known, Kept, Blob
<1>3. PostingSafe'
  BY DEF IInv, Put, MuFree, PostingSafe
<1>. QED
  BY <1>1, <1>2, <1>3 DEF IInv

\* A new message without bytes, or whose bytes are not on the collector's list; the
\* messages it displaces are recorded as evicted.
LEMMA InvAppended ==
  ASSUME IInv, NEW r \in Record,
         \/ r.type = "image" /\ r.blob \in Blobs /\ r.blob \in Kept
         \/ r.type = "message" /\ r.blob = NoBlob,
         journal' = Append(journal, r),
         SetLive(journal', live \cup {Len(journal')}, aged),
         UNCHANGED <<pinned, aged, files, serving, collecting, todo, pinning, held>>,
         posting' \subseteq posting
  PROVE  IInv'
<1>1. journal \in Seq(Record) /\ aged \in Nat /\ r.type \in {"image", "message"}
  BY DEF IInv, TypeOK
<1> DEFINE n == Len(journal) + 1
<1>2. /\ journal' \in Seq(Record) /\ Len(journal') = n /\ journal'[n] = r
      /\ DOMAIN journal' = DOMAIN journal \cup {n} /\ n \in Nat
      /\ \A s \in DOMAIN journal : journal'[s] = journal[s] /\ s \in Nat /\ s < n
  BY <1>1, AppendedRecord
<1> HIDE DEF n
<1>3. /\ live' \subseteq live \cup {n}
      /\ evicted \subseteq evicted' /\ evicted' \subseteq evicted \cup live \cup {n}
      /\ \A s \in live \cup {n} : s \in live' \/ s \in evicted' \/ s <= aged
  <2>1. live' = Prune(journal', live \cup {n}, aged)
        /\ evicted' = evicted \cup {s \in (live \cup {n}) \ Prune(journal', live \cup {n}, aged) : s > aged}
    BY <1>2 DEF SetLive
  <2>2. Prune(journal', live \cup {n}, aged) \subseteq live \cup {n}
    BY DEF Prune
  <2>3. \A s \in live \cup {n} : s \in Nat
    BY <1>2 DEF IInv, TypeOK
  <2>4. aged \in Int /\ \A s \in Int : s > aged \/ s <= aged
    BY <1>1
  <2> DEFINE P == Prune(journal', live \cup {n}, aged)
  <2>5. live' = P /\ P \subseteq live \cup {n}
        /\ evicted' = evicted \cup {s \in (live \cup {n}) \ P : s > aged}
    BY <2>1, <2>2
  <2> HIDE DEF P
  <2>6. \A s \in live \cup {n} : s \in live' \/ s \in evicted' \/ s <= aged
    BY <2>3, <2>4, <2>5
  <2>. QED
    BY <2>5, <2>6
<1>4. UNCHANGED <<pinned, aged, files, serving, collecting, todo, pinning, held>>
      /\ posting' \subseteq posting
  OBVIOUS
<1>5. TypeOK'
  <2>1. \A s \in DOMAIN journal' : journal'[s].type \notin {"message", "clear"} => journal'[s].blob \in Blobs
    BY <1>1, <1>2 DEF IInv, TypeOK, Blob
  <2>2. live' \subseteq {s \in DOMAIN journal' : journal'[s].type \in {"image", "message"}}
    BY <1>1, <1>2, <1>3 DEF IInv, TypeOK
  <2>3. evicted' \subseteq DOMAIN journal'
    BY <1>2, <1>3 DEF IInv, TypeOK
  <2>. QED
    BY <1>2, <1>4, <2>1, <2>2, <2>3 DEF IInv, TypeOK, Blob
<1>6. LiveSafe'
  <2> SUFFICES ASSUME NEW s \in live', s \notin evicted'
               PROVE  journal'[s].blob = NoBlob \/ journal'[s].blob \in Kept
    BY <1>4 DEF LiveSafe, Kept, Blob
  <2>1. CASE s = n
    BY <1>2, <2>1
  <2>2. CASE s \in live /\ s \notin evicted
    <3>1. journal'[s] = journal[s]
      BY <1>2, <2>2 DEF IInv, TypeOK
    <3>. QED
      BY <1>4, <2>2, <3>1 DEF IInv, LiveSafe, Kept, Blob
  <2>. QED
    BY <1>3, <2>1, <2>2
<1>7. HeldSafe' /\ PostingSafe'
  BY <1>1, <1>4 DEF IInv, HeldSafe, PostingSafe, Kept
<1>8. HeldPinned'
  BY <1>1, <1>4, PinsAppend DEF IInv, HeldPinned
<1>9. Known'
  <2> SUFFICES ASSUME NEW s \in Replayed(journal')
               PROVE  s \in live' \/ s \in evicted' \/ s <= aged'
    BY DEF Known
  <2>1. s = n \/ s \in Replayed(journal)
    BY <1>1, ReplayedAppend DEF n
  <2>. QED
    BY <1>3, <1>4, <2>1 DEF IInv, Known
<1>. QED
  BY <1>5, <1>6, <1>7, <1>8, <1>9 DEF IInv

\* PostImage appends the request whose bytes are there, Post a message without any.
LEMMA InvPosts ==
  ASSUME IInv,
         \/ \E r \in posting : PostImage(r)
         \/ \E t \in Tenants, a \in Areas : Post(t, a)
  PROVE  IInv'
<1>1. CASE \E r \in posting : PostImage(r)
  <2>1. PICK r \in posting : PostImage(r)
    BY <1>1
  <2>2. r \in Record /\ r.type = "image" /\ r.blob \in Blobs /\ r.blob \in Kept
    BY DEF IInv, TypeOK, PostingSafe, Kept
  <2>. QED
    BY <2>1, <2>2, InvAppended DEF PostImage
<1>2. CASE \E t \in Tenants, a \in Areas : Post(t, a)
  <2>1. PICK t \in Tenants, a \in Areas : Post(t, a)
    BY <1>2
  <2> DEFINE r == [type |-> "message", tenant |-> t, area |-> a, blob |-> NoBlob]
  <2>2. r \in Record /\ r.type = "message" /\ r.blob = NoBlob
    BY DEF Record
  <2>3. /\ journal' = Append(journal, r)
        /\ SetLive(journal', live \cup {Len(journal')}, aged)
        /\ UNCHANGED <<pinned, aged, files, serving, collecting, todo, pinning, held>>
        /\ posting' \subseteq posting
    BY <2>1 DEF Post
  <2> HIDE DEF r
  <2>. QED
    BY <2>2, <2>3, InvAppended
<1>. QED
  BY <1>1, <1>2

\* What a clear takes from RAM it takes from the replay as well.
LEMMA InvClear ==
  ASSUME IInv, NEW t \in Tenants, NEW a \in Areas, Clear(t, a)
  PROVE  IInv'
<1> DEFINE r == [type |-> "clear", tenant |-> t, area |-> a, blob |-> NoBlob]
           n == Len(journal) + 1
<1>1. r \in Record /\ r.type = "clear" /\ r.tenant = t /\ r.area = a /\ journal \in Seq(Record)
  BY DEF IInv, TypeOK, Record
<1>2. journal' = Append(journal, r)
  BY DEF Clear
<1> HIDE DEF r
<1>3. /\ journal' \in Seq(Record) /\ journal'[n] = r /\ n \in Nat
      /\ DOMAIN journal' = DOMAIN journal \cup {n}
      /\ \A s \in DOMAIN journal : journal'[s] = journal[s] /\ s \in Nat /\ s < n
  BY <1>1, <1>2, AppendedRecord
<1> HIDE DEF n
<1>4. /\ live' = {s \in live : journal[s].tenant # t \/ journal[s].area # a}
      /\ UNCHANGED <<pinned, aged, files, serving, posting, collecting, todo, pinning,
                     evicted, held>>
  BY DEF Clear
<1>5. TypeOK'
  <2>1. \A s \in DOMAIN journal' : journal'[s].type \notin {"message", "clear"} => journal'[s].blob \in Blobs
    BY <1>1, <1>3 DEF IInv, TypeOK, Blob
  <2>2. live' \subseteq {s \in DOMAIN journal' : journal'[s].type \in {"image", "message"}}
    BY <1>3, <1>4 DEF IInv, TypeOK
  <2>3. evicted' \subseteq DOMAIN journal'
    BY <1>3, <1>4 DEF IInv, TypeOK
  <2>. QED
    BY <1>3, <1>4, <2>1, <2>2, <2>3 DEF IInv, TypeOK, Blob
<1>6. LiveSafe'
  BY <1>3, <1>4 DEF IInv, TypeOK, LiveSafe, Kept, Blob
<1>7. HeldSafe' /\ PostingSafe'
  BY <1>4 DEF IInv, HeldSafe, PostingSafe, Kept
<1>8. HeldPinned'
  BY <1>1, <1>2, <1>4, PinsAppend DEF IInv, HeldPinned
<1>9. Known'
  <2> SUFFICES ASSUME NEW s \in Replayed(journal')
               PROVE  s \in live' \/ s \in evicted' \/ s <= aged'
    BY DEF Known
  <2>1. s \in Replayed(journal) /\ ~(t = journal[s].tenant /\ a = journal[s].area)
    BY <1>1, <1>2, ReplayedAppend
  <2>. QED
    BY <1>4, <2>1 DEF IInv, Known
<1>. QED
  BY <1>5, <1>6, <1>7, <1>8, <1>9 DEF IInv

\* Retention records what it drops for its number.
LEMMA InvAgeOut == ASSUME IInv, AgeOut PROVE IInv'
<1>1. /\ live' = Prune(journal, live, aged + 1) /\ aged' = aged + 1 /\ aged < MaxAge
      /\ evicted' = evicted \cup {s \in live \ Prune(journal, live, aged + 1) : s > aged + 1}
      /\ UNCHANGED <<journal, pinned, files, serving, posting, collecting, todo, pinning, held>>
  BY DEF AgeOut, SetLive
<1>2. Prune(journal, live, aged + 1) \subseteq live
  BY DEF Prune
<1>3. live \subseteq DOMAIN journal /\ DOMAIN journal \subseteq Nat /\ aged \in Nat
  BY DEF IInv, TypeOK
<1>4. TypeOK'
  BY <1>1, <1>2, BlobAssumption DEF IInv, TypeOK, Blob
<1>5. LiveSafe' /\ HeldSafe' /\ PostingSafe' /\ HeldPinned'
  BY <1>1, <1>2 DEF IInv, LiveSafe, HeldSafe, PostingSafe, HeldPinned, Kept, Blob
<1>6. Known'
  <2> SUFFICES ASSUME NEW s \in Replayed(journal)
               PROVE  s \in live' \/ s \in evicted' \/ s <= aged'
    BY <1>1 DEF Known
  <2>1. s \in Nat
    BY <1>3 DEF Replayed
  <2>. QED
    BY <1>1, <1>3, <2>1 DEF IInv, Known
<1>. QED
  BY <1>4, <1>5, <1>6 DEF IInv

\* A pin is in the map and in the journal; only its own tenant's unpin takes it away.
LEMMA InvPin ==
  ASSUME IInv, NEW r \in pinning, Pin(r)
  PROVE  IInv'
<1> DEFINE n == Len(journal) + 1
           p == <<r.blob, r.tenant>>
<1>1. /\ r \in Record /\ r.type \in {"pin", "unpin"} /\ r.blob \in Blobs /\ r.tenant \in Tenants
      /\ journal \in Seq(Record)
  BY DEF IInv, TypeOK, Record
<1>2. journal' = Append(journal, r)
  BY DEF Pin
<1>3. /\ journal' \in Seq(Record) /\ journal'[n] = r /\ n \in Nat
      /\ DOMAIN journal' = DOMAIN journal \cup {n}
      /\ \A s \in DOMAIN journal : journal'[s] = journal[s] /\ s \in Nat /\ s < n
  BY <1>1, <1>2, AppendedRecord
<1> HIDE DEF n
<1>4. UNCHANGED <<live, aged, files, serving, posting, collecting, todo, evicted>>
      /\ pinning' = pinning \ {r}
  BY DEF Pin
<1>5. /\ pinned' = IF r.type = "pin" THEN pinned \cup {p} ELSE pinned \ {p}
      /\ held' \subseteq IF r.type = "pin" THEN held \cup {p} ELSE held \ {p}
      /\ \A q \in held' : q \in held \/ (q = p /\ r.blob \in Kept)
  <2>1. /\ pinned' = IF r.type = "pin" THEN pinned \cup {p} ELSE pinned \ {p}
        /\ held' = IF r.type = "pin" THEN held \cup {q \in {p} : r.blob \in Kept}
                                   ELSE held \ {p}
    BY DEF Pin, Kept
  <2> HIDE DEF p
  <2>2. CASE r.type = "pin"
    BY <2>1, <2>2
  <2>3. CASE r.type # "pin"
    BY <2>1, <2>3
  <2>. QED
    BY <2>1, <2>2, <2>3
<1>6. TypeOK'
  <2>1. \A s \in DOMAIN journal' : journal'[s].type \notin {"message", "clear"} => journal'[s].blob \in Blobs
    BY <1>1, <1>3 DEF IInv, TypeOK, Blob
  <2>2. live' \subseteq {s \in DOMAIN journal' : journal'[s].type \in {"image", "message"}}
    BY <1>3, <1>4 DEF IInv, TypeOK
  <2>3. evicted' \subseteq DOMAIN journal'
    BY <1>3, <1>4 DEF IInv, TypeOK
  <2>4. pinned' \subseteq Blobs \X Tenants /\ held' \subseteq Blobs \X Tenants
    BY <1>1, <1>5 DEF IInv, TypeOK
  <2>. QED
    BY <1>3, <1>4, <2>1, <2>2, <2>3, <2>4 DEF IInv, TypeOK, Blob
<1>7. LiveSafe' /\ PostingSafe'
  BY <1>3, <1>4 DEF IInv, TypeOK, LiveSafe, PostingSafe, Kept, Blob
<1>8. HeldSafe'
  BY <1>4, <1>5 DEF IInv, HeldSafe, Kept
<1>9. HeldPinned'
  <2> SUFFICES ASSUME NEW q \in held' PROVE q \in pinned' /\ q \in ReplayedPins(journal')
    BY DEF HeldPinned
  <2>1. CASE r.type = "pin" /\ q = p
    BY <1>1, <1>2, <1>5, <2>1, NewPin
  <2>2. CASE q \in held /\ (r.type = "unpin" => q # p)
    <3>1. q \in ReplayedPins(journal) /\ q \in pinned
      BY <2>2 DEF IInv, HeldPinned
    <3>2. r.type # "unpin" \/ <<r.blob, r.tenant>> # q
      BY <2>2
    <3>3. q \in ReplayedPins(journal')
      BY <1>1, <1>2, <3>1, <3>2, PinsAppend
    <3>. QED
      BY <1>5, <2>2, <3>1, <3>3
  <2>. QED
    BY <1>1, <1>5, <2>1, <2>2
<1>10. Known'
  <2> SUFFICES ASSUME NEW s \in Replayed(journal')
               PROVE  s \in live' \/ s \in evicted' \/ s <= aged'
    BY DEF Known
  <2>1. s \in Replayed(journal)
    BY <1>1, <1>2, ReplayedAppend
  <2>. QED
    BY <1>4, <2>1 DEF IInv, Known
<1>. QED
  BY <1>6, <1>7, <1>8, <1>9, <1>10 DEF IInv

\* A pin request on its way, or given up, touches nothing else.
LEMMA InvRequests ==
  ASSUME IInv,
         \/ \E s \in live, type \in {"pin", "unpin"} : PinLooks(s, type)
         \/ \E r \in pinning : PinFails(r)
         \/ \E r \in posting : PostImageFails(r)
  PROVE  IInv'
<1>1. /\ UNCHANGED <<commsVars, files, serving, collecting, todo, held>>
      /\ posting' \subseteq posting
  BY DEF PinLooks, PinFails, PostImageFails
<1>2. pinning' \subseteq {r \in Record : r.type \in {"pin", "unpin"} /\ r.blob \in Blobs}
  <2>1. CASE \E s \in live, type \in {"pin", "unpin"} : PinLooks(s, type)
    <3>1. PICK s \in live, type \in {"pin", "unpin"} : PinLooks(s, type)
      BY <2>1
    <3>2. journal[s] \in Record /\ Blob(s) \in Blobs
      <4>1. s \in DOMAIN journal /\ journal \in Seq(Record)
        BY DEF IInv, TypeOK
      <4>2. journal[s] \in Record /\ journal[s].blob # NoBlob
        BY <3>1, <4>1 DEF PinLooks, Blob
      <4>. QED
        BY <4>2 DEF Record, Blob
    <3>3. [type |-> type, tenant |-> journal[s].tenant, area |-> journal[s].area,
           blob |-> Blob(s)] \in Record
      BY <3>2 DEF Record
    <3>. QED
      BY <3>1, <3>2, <3>3 DEF PinLooks, IInv, TypeOK
  <2>2. CASE (\E r \in pinning : PinFails(r)) \/ \E r \in posting : PostImageFails(r)
    BY <2>2 DEF PinFails, PostImageFails, IInv, TypeOK
  <2>. QED
    BY <2>1, <2>2
<1>3. TypeOK'
  BY <1>1, <1>2 DEF IInv, TypeOK, commsVars, Blob
<1>4. LiveSafe' /\ HeldSafe' /\ HeldPinned' /\ Known' /\ PostingSafe'
  BY <1>1 DEF IInv, commsVars, LiveSafe, HeldSafe, HeldPinned, Known, PostingSafe, Kept, Blob
<1>. QED
  BY <1>3, <1>4 DEF IInv

\* The list of a collection holds nothing that is referred to, a deletion is of a file on
\* the list, and the end empties the list.
LEMMA InvSweep ==
  ASSUME IInv, Sweep \/ SweepEnds \/ \E b \in todo : Delete(b)
  PROVE  IInv'
<1>1. UNCHANGED <<commsVars, posting, pinning, held>>
  BY DEF Sweep, SweepEnds, Delete
<1>2. CASE Sweep
  <2>1. /\ serving /\ MuFree /\ collecting' = TRUE /\ todo' = files \ LiveBlobIDs
        /\ UNCHANGED <<files, serving>>
    BY <1>2 DEF Sweep
  <2>2. TypeOK'
    BY <1>1, <2>1 DEF IInv, TypeOK, commsVars, Blob
  <2>3. LiveSafe'
    BY <1>1, <2>1 DEF IInv, LiveSafe, Kept, LiveBlobIDs, commsVars, Blob
  <2>4. HeldSafe'
    BY <1>1, <2>1 DEF IInv, HeldSafe, HeldPinned, Kept, LiveBlobIDs
  <2>5. PostingSafe' /\ HeldPinned' /\ Known'
    BY <1>1, <2>1 DEF IInv, PostingSafe, HeldPinned, Known, MuFree, commsVars
  <2>. QED
    BY <2>2, <2>3, <2>4, <2>5 DEF IInv
<1>3. CASE SweepEnds
  <2>1. TypeOK'
    BY <1>1, <1>3 DEF IInv, TypeOK, SweepEnds, commsVars, Blob
  <2>2. LiveSafe' /\ HeldSafe' /\ PostingSafe' /\ HeldPinned' /\ Known'
    BY <1>1, <1>3 DEF IInv, SweepEnds, LiveSafe, HeldSafe, PostingSafe, HeldPinned, Known,
       Kept, commsVars, Blob
  <2>. QED
    BY <2>1, <2>2 DEF IInv
<1>4. CASE \E b \in todo : Delete(b)
  <2>1. PICK b \in todo : Delete(b)
    BY <1>4
  <2>2. TypeOK'
    BY <1>1, <2>1 DEF IInv, TypeOK, Delete, commsVars, Blob
  <2>3. Kept' = Kept
    BY <2>1 DEF Delete, Kept
  <2>4. LiveSafe' /\ HeldSafe' /\ HeldPinned' /\ Known'
    BY <1>1, <2>3 DEF IInv, LiveSafe, HeldSafe, HeldPinned, Known, commsVars, Blob
  <2>5. collecting /\ posting = {}
    BY DEF IInv, TypeOK, PostingSafe
  <2>6. PostingSafe'
    BY <1>1, <2>5 DEF PostingSafe
  <2>. QED
    BY <2>2, <2>4, <2>6 DEF IInv
<1>. QED
  BY <1>2, <1>3, <1>4

\* A restart finds in the journal what RAM held, and more only if it is accounted for.
LEMMA InvRestart == ASSUME IInv, Restart PROVE IInv'
<1>1. /\ live' = Prune(journal, Replayed(journal), aged)
      /\ evicted' = evicted \cup
           {s \in Replayed(journal) \ Prune(journal, Replayed(journal), aged) : s > aged}
      /\ UNCHANGED <<journal, aged, files, held>> /\ pinned' = ReplayedPins(journal)
      /\ serving' = FALSE /\ posting' = {} /\ pinning' = {} /\ collecting' = TRUE
      /\ todo' = files \ LiveBlobIDs'
  BY DEF Restart, SetLive
<1>2. /\ live' \subseteq Replayed(journal) /\ \A s \in live' : s > aged
      /\ Replayed(journal) \subseteq {s \in DOMAIN journal : journal[s].type \in {"image", "message"}}
      /\ DOMAIN journal \subseteq Nat /\ aged \in Nat
  BY <1>1 DEF Prune, Replayed, IInv, TypeOK
<1>3. LiveBlobIDs' = ({journal[s].blob : s \in live'} \ {NoBlob}) \cup {p[1] : p \in pinned'}
  BY <1>1 DEF LiveBlobIDs, Blob
<1>4. TypeOK'
  <2>1. pinned' \subseteq Blobs \X Tenants
    BY <1>1 DEF ReplayedPins
  <2>2. live' \subseteq {s \in DOMAIN journal : journal[s].type \in {"image", "message"}}
        /\ evicted' \subseteq DOMAIN journal
    BY <1>1, <1>2 DEF IInv, TypeOK
  <2>. QED
    BY <1>1, <2>1, <2>2 DEF IInv, TypeOK, Blob
<1>5. LiveSafe'
  <2> SUFFICES ASSUME NEW s \in live', s \notin evicted', journal[s].blob # NoBlob
               PROVE  journal[s].blob \in files /\ journal[s].blob \notin todo'
    BY <1>1 DEF LiveSafe, Kept, Blob
  <2>1. s \in live /\ s \notin evicted
    BY <1>1, <1>2 DEF IInv, Known
  <2>2. journal[s].blob \in files
    BY <2>1 DEF IInv, LiveSafe, Kept, Blob
  <2>. QED
    BY <1>1, <1>3, <2>2
<1>6. HeldSafe'
  BY <1>1, <1>3 DEF IInv, HeldSafe, HeldPinned, Kept
<1>7. PostingSafe' /\ HeldPinned'
  BY <1>1 DEF IInv, PostingSafe, HeldPinned
<1>8. Known'
  BY <1>1, <1>2 DEF Known
<1>. QED
  BY <1>4, <1>5, <1>6, <1>7, <1>8 DEF IInv

-------------------------------------------------------------------------------
\* Every step keeps the invariant.
LEMMA NextInv == IInv /\ [Next]_vars => IInv'
<1> SUFFICES ASSUME IInv, [Next]_vars PROVE IInv'
  OBVIOUS
<1>1. CASE UNCHANGED vars
  BY <1>1 DEF vars, commsVars, IInv, TypeOK, LiveSafe, HeldSafe, PostingSafe, HeldPinned, Known,
     Kept, Blob
<1>2. CASE Next
  BY <1>2, InvPut, InvPosts, InvClear, InvAgeOut, InvPin, InvRequests, InvSweep, InvRestart
     DEF Next
<1>. QED
  BY <1>1, <1>2

\* Images in the index have their bytes (Put and PostImage under server.mu, Sweep under
\* the same lock): for every number of tenants, areas and blobs.
THEOREM NoDanglingImage == Spec => []LiveImagesHaveBytes
<1>1. IInv => LiveImagesHaveBytes
  BY DEF IInv, LiveSafe, LiveImagesHaveBytes, Kept
<1>. QED
  BY <1>1, InitInv, NextInv, PTL DEF Spec

\* A pin made on bytes that were there keeps them (Store.Pin, LiveBlobIDs, New).
THEOREM PinsKeepBytes == Spec => []PinsHold
<1>1. IInv => PinsHold
  BY DEF IInv, HeldSafe, PinsHold, Kept
<1>. QED
  BY <1>1, InitInv, NextInv, PTL DEF Spec

===============================================================================
