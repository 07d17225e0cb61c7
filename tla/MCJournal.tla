------------------------------- MODULE MCJournal -------------------------------
(* Small instances of Journal for TLC: a short record and a longer one, in
   segments that hold one of each or three short ones. *)
EXTENDS Journal
Sizes == [r \in Records |-> IF r = "long" THEN 2 ELSE 1]
===============================================================================
