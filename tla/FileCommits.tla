----------------------------- MODULE FileCommits -----------------------------
(***************************************************************************)
(* FileData implements OptimisticFile: a slot that is open under a handle  *)
(* the meta server still knows is a session, its OpenFile.generation the   *)
(* version it started from.                                                *)
(***************************************************************************)
EXTENDS FileData

(* Slot f may still publish: open, and its handle not closed by an earlier
   flush or fsync. *)
Holding(f) == pc[f] \notin {"closed", "opening"} /\ of[f].fh \in handles

SessionOf(f) == [id |-> of[f].fh, base |-> of[f].generation]

Commits == INSTANCE OptimisticFile WITH
  version <- inode.generation,
  removed <- ~inode.live,
  next <- nextFh,
  sessions <- {SessionOf(f) : f \in {g \in Fds : Holding(g)}},
  log <- log

(* Handles and generations give optimistic sessions, whatever fails, restarts
   or crashes: a dirty Close succeeds once to a handle, only on a live inode,
   and only if no other Close has succeeded since that handle's Meta.Open read
   the inode (open's two locks, publish's retries and Meta.Close together). *)
ImplementsCommits == Commits!Spec
=============================================================================
