--------------------------------- MODULE BlobGC ---------------------------------
(***************************************************************************)
(* Shared images: their bytes are files named by their hash (blob.Store),  *)
(* the references to them are messages and pins of the comms index. The    *)
(* collector deletes the files nothing refers to, at startup and on        *)
(* blob_gc.                                                                *)
(*                                                                         *)
(* post_image and blob_gc hold server.mu from start to end, pins, clears   *)
(* and retention only Store.mu. A step below is a critical section of      *)
(* Store.mu or one operation on a file; the process may die between any    *)
(* two of them, and then starts again from the journal and the files.      *)
(***************************************************************************)
EXTENDS Integers, Sequences, FiniteSets

CONSTANTS
  Tenants, Areas, Blobs,
  NoBlob,              \* clears and other messages have none
  RetainN,             \* SENTRY_COMMS_RETAIN_N: messages kept per tenant
  MaxJournal, MaxAge, MaxPinning   \* bounds of the model: records, messages too
                                   \* old, pin calls at a time

ASSUME BlobAssumption ==
  NoBlob \notin Blobs /\ RetainN \in Nat \ {0} /\ MaxJournal \in Nat /\ MaxAge \in Nat
  /\ MaxPinning \in Nat

Record == [type : {"image", "message", "clear", "pin", "unpin"},
           tenant : Tenants, area : Areas, blob : Blobs \cup {NoBlob}]

VARIABLES
  journal,     \* the records of messages, images among them, clears and pins
  live,        \* Store.entries, by sequence number
  pinned,      \* Store.pinned, as pairs <<blob, tenant>>
  aged,        \* retention drops everything up to here for its age
  files,       \* the blobs in the directory
  serving,     \* startup is over
  posting,     \* image records whose bytes are stored, still to be appended
  collecting,  \* Sweep is running
  todo,        \* the blobs it has yet to delete
  pinning,     \* pin and unpin records whose image has been found, to be appended
  evicted,     \* history: what retention dropped for the number of newer ones
  held         \* history: pins made while the bytes were there and not to be deleted

commsVars == <<journal, live, pinned, aged, evicted>>
vars == <<commsVars, files, serving, posting, collecting, todo, pinning, held>>

-------------------------------------------------------------------------------
Blob(s) == journal[s].blob

Cleared(j, s) ==
  \E k \in DOMAIN j : /\ k > s /\ j[k].type = "clear"
                      /\ j[k].tenant = j[s].tenant /\ j[k].area = j[s].area

\* The index New builds from the journal, before retention.
Replayed(j) == {s \in DOMAIN j : j[s].type \in {"image", "message"} /\ ~Cleared(j, s)}

\* pinned as New rebuilds it: the last word of each tenant on each blob.
ReplayedPins(j) ==
  {p \in Blobs \X Tenants :
     \E k \in DOMAIN j :
       /\ j[k].type = "pin" /\ <<j[k].blob, j[k].tenant>> = p
       /\ ~\E u \in DOMAIN j : u > k /\ j[u].type = "unpin"
                               /\ j[u].blob = j[k].blob /\ j[u].tenant = j[k].tenant}

\* Store.pruneAt.
Prune(j, S, age) ==
  {s \in S : /\ s > age
             /\ Cardinality({u \in S : u >= s /\ j[u].tenant = j[s].tenant}) <= RetainN}

\* With the journal j, the index becomes S, pruned.
SetLive(j, S, age) ==
  /\ live' = Prune(j, S, age)
  /\ evicted' = evicted \cup {s \in S \ Prune(j, S, age) : s > age}

\* The pins forgotten.
LiveBlobIDs_noPins == {Blob(s) : s \in live} \ {NoBlob}

\* Images and pins of every tenant.
LiveBlobIDs == ({Blob(s) : s \in live} \ {NoBlob}) \cup {p[1] : p \in pinned}

\* server.mu is free.
MuFree == posting = {} /\ ~collecting

Room == Len(journal) < MaxJournal

Init ==
  /\ journal = <<>> /\ live = {} /\ pinned = {} /\ aged = 0
  /\ files = {} /\ serving = TRUE
  /\ posting = {} /\ collecting = FALSE /\ todo = {} /\ pinning = {}
  /\ evicted = {} /\ held = {}

-------------------------------------------------------------------------------
\* The bytes are stored before server.mu is taken.
Put_unlocked(t, a, b) ==
  /\ serving
  /\ files' = files \cup {b}
  /\ posting' = posting \cup {[type |-> "image", tenant |-> t, area |-> a, blob |-> b]}
  /\ UNCHANGED <<commsVars, serving, collecting, todo, pinning, held>>

\* post_image: server.mu is taken, the bytes are stored unless they are already. (If
\* that fails nothing has changed.)
Put(t, a, b) ==
  /\ serving /\ MuFree
  /\ files' = files \cup {b}
  /\ posting' = posting \cup {[type |-> "image", tenant |-> t, area |-> a, blob |-> b]}
  /\ UNCHANGED <<commsVars, serving, collecting, todo, pinning, held>>

\* Store.PostImage.
PostImage(r) ==
  /\ Room
  /\ journal' = Append(journal, r)
  /\ SetLive(journal', live \cup {Len(journal')}, aged)
  /\ posting' = posting \ {r}
  /\ UNCHANGED <<pinned, aged, files, serving, collecting, todo, pinning, held>>

\* The append fails; the bytes stay.
PostImageFails(r) ==
  /\ posting' = posting \ {r}
  /\ UNCHANGED <<commsVars, files, serving, collecting, todo, pinning, held>>

\* Store.Post: other messages count for retention like images.
Post(t, a) ==
  /\ serving /\ Room
  /\ journal' = Append(journal, [type |-> "message", tenant |-> t, area |-> a, blob |-> NoBlob])
  /\ SetLive(journal', live \cup {Len(journal')}, aged)
  /\ UNCHANGED <<pinned, aged, files, serving, posting, collecting, todo, pinning, held>>

Clear(t, a) ==
  /\ serving /\ Room
  /\ journal' = Append(journal, [type |-> "clear", tenant |-> t, area |-> a,
                                 blob |-> NoBlob])
  /\ live' = {s \in live : journal[s].tenant # t \/ journal[s].area # a}
  /\ UNCHANGED <<pinned, aged, files, serving, posting, collecting, todo, pinning,
                 evicted, held>>

\* The sweeper's tick: time has made another message too old.
AgeOut ==
  /\ aged < MaxAge /\ aged' = aged + 1
  /\ SetLive(journal, live, aged + 1)
  /\ UNCHANGED <<journal, pinned, files, serving, posting, collecting, todo, pinning, held>>

\* pin_image and unpin_image: the image is looked up ...
PinLooks(s, type) ==
  /\ serving /\ s \in live /\ Blob(s) # NoBlob /\ Cardinality(pinning) < MaxPinning
  /\ pinning' = pinning \cup {[type |-> type, tenant |-> journal[s].tenant,
                               area |-> journal[s].area, blob |-> Blob(s)]}
  /\ UNCHANGED <<commsVars, files, serving, posting, collecting, todo, held>>

\* ... and Store.Pin records it, whatever has become of the image since.
Pin(r) ==
  /\ Room
  /\ journal' = Append(journal, r)
  /\ pinned' = IF r.type = "pin" THEN pinned \cup {<<r.blob, r.tenant>>}
                                 ELSE pinned \ {<<r.blob, r.tenant>>}
  /\ held' = IF r.type = "pin"
             THEN held \cup {p \in {<<r.blob, r.tenant>>} : r.blob \in files \ todo}
             ELSE held \ {<<r.blob, r.tenant>>}
  /\ pinning' = pinning \ {r}
  /\ UNCHANGED <<live, aged, files, serving, posting, collecting, todo, evicted>>

PinFails(r) ==
  /\ pinning' = pinning \ {r}
  /\ UNCHANGED <<commsVars, files, serving, posting, collecting, todo, held>>

-------------------------------------------------------------------------------
\* blob_gc: server.mu is taken, the references are collected, then the directory is
\* listed.
Sweep ==
  /\ serving /\ MuFree
  /\ collecting' = TRUE /\ todo' = files \ LiveBlobIDs
  /\ UNCHANGED <<commsVars, files, serving, posting, pinning, held>>

Delete(b) ==
  /\ files' = files \ {b} /\ todo' = todo \ {b}
  /\ UNCHANGED <<commsVars, serving, posting, collecting, pinning, held>>

\* The last file is gone, or one could not be deleted: the rest stays.
SweepEnds ==
  /\ collecting
  /\ collecting' = FALSE /\ todo' = {} /\ serving' = TRUE
  /\ UNCHANGED <<commsVars, files, posting, pinning, held>>

\* The process dies and starts again: New, SetRetention, and the startup sweep, before
\* the first request.
Restart ==
  /\ UNCHANGED <<journal, aged, files, held>>
  /\ SetLive(journal, Replayed(journal), aged)
  /\ pinned' = ReplayedPins(journal)
  /\ serving' = FALSE /\ posting' = {} /\ pinning' = {}
  /\ collecting' = TRUE /\ todo' = files \ LiveBlobIDs'

Next ==
  \/ \E t \in Tenants, a \in Areas : Post(t, a) \/ Clear(t, a) \/ \E b \in Blobs : Put(t, a, b)
  \/ \E r \in posting : PostImage(r) \/ PostImageFails(r)
  \/ \E s \in live, type \in {"pin", "unpin"} : PinLooks(s, type)
  \/ \E r \in pinning : Pin(r) \/ PinFails(r)
  \/ \E b \in todo : Delete(b)
  \/ AgeOut \/ Sweep \/ SweepEnds \/ Restart

Spec == Init /\ [][Next]_vars

-------------------------------------------------------------------------------
TypeOK ==
  /\ journal \in Seq(Record)
  /\ \A s \in DOMAIN journal : journal[s].type \notin {"message", "clear"} => Blob(s) \in Blobs
  /\ live \subseteq {s \in DOMAIN journal : journal[s].type \in {"image", "message"}}
  /\ pinned \subseteq Blobs \X Tenants /\ held \subseteq Blobs \X Tenants
  /\ aged \in 0 .. MaxAge /\ evicted \subseteq DOMAIN journal
  /\ files \subseteq Blobs /\ todo \subseteq files
  /\ serving \in BOOLEAN /\ collecting \in BOOLEAN /\ (todo # {} => collecting)
  /\ posting \subseteq {r \in Record : r.type = "image" /\ r.blob \in Blobs}
  /\ pinning \subseteq {r \in Record : r.type \in {"pin", "unpin"} /\ r.blob \in Blobs}

\* "no dangling-reference window" (post_image): the bytes of an image in the index are
\* in the directory, through collections, failures and restarts at any moment. Images
\* that retention dropped and a restart brought back are the exception: nothing kept
\* their bytes.
LiveImagesHaveBytes == \A s \in live \ evicted : Blob(s) = NoBlob \/ Blob(s) \in files

\* A pin made while the bytes were there keeps them until that tenant takes it back,
\* whatever other tenants unpin, clear or collect, and across restarts.
PinsHold == \A p \in held : p[1] \in files

\* "a blob is kept from GC if ANY tenant holds a pin on it" (Store.Pin): no step deletes
\* a file on which there is a pin.
PinProtects == [][\A b \in files \ files' : \A t \in Tenants : <<b, t>> \notin pinned]_vars

================================================================================
