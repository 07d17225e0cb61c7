------------------------------- MODULE MCComms --------------------------------
(* Small instances of CommsStore for TLC. *)
EXTENDS CommsStore

\* A task with a deadline that the clock can pass.
TaskPosts ==
  {[tenant |-> "T1", area |-> "X", kind |-> "task", ttl |-> 0, dl |-> 1, blob |-> NoBlob]}

\* A task in one area, a note in another.
TwoAreaPosts ==
  {[tenant |-> "T1", area |-> "X", kind |-> "task", ttl |-> 0, dl |-> 0, blob |-> NoBlob],
   [tenant |-> "T1", area |-> "Y", kind |-> "note", ttl |-> 0, dl |-> 0, blob |-> NoBlob]}

\* Notes of two tenants and an image, some with a TTL.
NotePosts ==
  {[tenant |-> "T1", area |-> "X", kind |-> "note", ttl |-> 0, dl |-> 0, blob |-> NoBlob],
   [tenant |-> "T1", area |-> "Y", kind |-> "task", ttl |-> 1, dl |-> 0, blob |-> NoBlob],
   [tenant |-> "T2", area |-> "X", kind |-> "image", ttl |-> 0, dl |-> 0, blob |-> "B1"]}
===============================================================================
