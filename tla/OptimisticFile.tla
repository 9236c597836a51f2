--------------------------- MODULE OptimisticFile ---------------------------
(***************************************************************************)
(* What the handles and generations of a dtmpfs file promise, with no      *)
(* blocks, stores or messages: optimistic sessions of which the first to   *)
(* close wins.  A session starts from some version the file has had and    *)
(* commits at most once, only while the file exists and only when no other *)
(* session has committed since the version it started from.                *)
(***************************************************************************)
EXTENDS Integers, Sequences

VARIABLES
  version,   \* number of commits so far
  removed,   \* the file has been unlinked
  next,      \* the next session's number
  sessions,  \* the running ones: their number and the version they started from
  log        \* the numbers of the sessions that committed, in turn

vars == <<version, removed, next, sessions, log>>

Init ==
  /\ version = 0
  /\ ~removed
  /\ next = 1
  /\ sessions = {}
  /\ log = <<>>

(* The version may be out of date from the start, and the file be gone. *)
Begin ==
  /\ \E base \in 0 .. version :
       sessions' = sessions \cup {[id |-> next, base |-> base]}
  /\ next' = next + 1
  /\ UNCHANGED <<version, removed, log>>

Commit ==
  /\ ~removed
  /\ \E s \in sessions :
       /\ s.base = version
       /\ sessions' = sessions \ {s}
       /\ log' = Append(log, s.id)
  /\ version' = version + 1
  /\ UNCHANGED <<removed, next>>

(* Sessions end without a commit: closed, refused, or lost in a crash. *)
Abandon ==
  /\ \E S \in SUBSET sessions : sessions' = sessions \ S
  /\ UNCHANGED <<version, removed, next, log>>

Remove ==
  /\ removed' = TRUE
  /\ UNCHANGED <<version, next, sessions, log>>

Next == Begin \/ Commit \/ Abandon \/ Remove

Spec == Init /\ [][Next]_vars
=============================================================================
