----------------------------- MODULE Namespace -----------------------------
(***************************************************************************)
(* The namespace of the meta server: MetaState's inodes, dirs and next_ino *)
(* and the five handlers that change the tree.  Every handler runs under   *)
(* the write half of the RwLock, so it is one step; but the kernel that    *)
(* asked for it looked the names up earlier, and requests of other mounts  *)
(* run in between.  A request is therefore formed in one step, against     *)
(* the tree the kernel saw, and executed in a later one.                   *)
(*                                                                         *)
(* A HashMap or BTreeMap is a function whose domain is the key set.  The   *)
(* blocks of a removed file are handed to DeleteBlock calls: that is part  *)
(* of FileData, as are the handles create and open give out.               *)
(***************************************************************************)
EXTENDS Integers, FiniteSets

CONSTANTS
  Clients,  \* the mounts, each with at most one request in flight
  Names,    \* names of directory entries
  MaxIno    \* bound: the highest inode number given out

ASSUME MaxInoAssumption == MaxIno \in Nat \ {0}

Root == 1
None == 0
Inos == 1 .. MaxIno

Inode == [kind : {"file", "dir"}, nlink : Nat]
Request == [kind : {"create", "mkdir", "unlink", "rmdir", "rename"},
            parent : Inos, name : Names, dst_parent : Inos, dst_name : Names]
Idle == [kind |-> "none"]

VARIABLES
  inodes,    \* MetaState.inodes: the live inodes
  dirs,      \* MetaState.dirs: the entries of each directory
  next_ino,  \* MetaState.next_ino
  pending    \* the request each mount is waiting for

vars == <<inodes, dirs, next_ino, pending>>

(* The maps hold what their Rust types allow: no handler of service.rs files
   an entry for an inode number that was never given out. *)
TypeOK ==
  /\ DOMAIN inodes \subseteq Inos
  /\ inodes \in [DOMAIN inodes -> Inode]
  /\ DOMAIN dirs \subseteq Inos
  /\ dirs = [d \in DOMAIN dirs |-> dirs[d]]
  /\ \A d \in DOMAIN dirs : /\ DOMAIN dirs[d] \subseteq Names
                            /\ dirs[d] \in [DOMAIN dirs[d] -> Inos]
  /\ next_ino \in 2 .. MaxIno + 1
  /\ pending \in [Clients -> Request \cup {Idle}]

Init ==
  /\ inodes = [i \in {Root} |-> [kind |-> "dir", nlink |-> 2]]
  /\ dirs = [i \in {Root} |-> [n \in {} |-> Root]]
  /\ next_ino = 2
  /\ pending = [c \in Clients |-> Idle]
-----------------------------------------------------------------------------
(* HashMap::insert, HashMap::remove, and u32::saturating_sub(1). *)
With(f, k, v) == [x \in DOMAIN f \cup {k} |-> IF x = k THEN v ELSE f[x]]

Without(f, k) == [x \in DOMAIN f \ {k} |-> f[x]]

Less1(n) == IF n = 0 THEN 0 ELSE n - 1

(* The inode an entry names: s.dirs.get(d).and_then(|d| d.get(n)). *)
EntryIn(d, n) ==
  IF d \in DOMAIN dirs /\ n \in DOMAIN dirs[d] THEN dirs[d][n] ELSE None

IsDir(i) == i \in DOMAIN inodes /\ inodes[i].kind = "dir"

(* With a directory, S holds what the entries of the directory name. *)
Closed(S) ==
  \A d \in S \cap DOMAIN dirs : \A n \in DOMAIN dirs[d] : dirs[d][n] \in S

(* A path of entries, possibly empty, leads from i down to j. *)
Above(i, j) == \A S \in SUBSET Inos : i \in S /\ Closed(S) => j \in S
-----------------------------------------------------------------------------
(***************************************************************************)
(* What the kernel lets through, given the tree it looked up: the parent   *)
(* is a directory, create and mkdir follow a failed lookup, unlink and     *)
(* rmdir one of the right kind; a rename has a source, does not move a     *)
(* directory below itself and replaces neither an entry of the other kind  *)
(* nor an ancestor of its source.                                          *)
(***************************************************************************)
ScreenedRename(r) ==
  LET src == EntryIn(r.parent, r.name)
      dst == EntryIn(r.dst_parent, r.dst_name)
  IN  /\ r.kind = "rename"
      /\ src # None
      /\ IsDir(r.dst_parent)
      /\ <<r.parent, r.name>> # <<r.dst_parent, r.dst_name>>
      /\ ~Above(src, r.dst_parent)
      /\ dst # None => IsDir(src) = IsDir(dst) /\ ~Above(dst, r.parent)

ScreenedEntry(r) ==
  LET child == EntryIn(r.parent, r.name)
  IN  /\ <<r.dst_parent, r.dst_name>> = <<r.parent, r.name>>
      /\ IsDir(r.parent)
      /\ \/ r.kind \in {"create", "mkdir"} /\ child = None
         \/ r.kind = "unlink" /\ child # None /\ ~IsDir(child)
         \/ r.kind = "rmdir" /\ child # None /\ IsDir(child)

Form(c) ==
  /\ pending[c] = Idle
  /\ \E r \in Request :
       /\ ScreenedEntry(r) \/ ScreenedRename(r)
       /\ pending' = [pending EXCEPT ![c] = r]
  /\ UNCHANGED <<inodes, dirs, next_ino>>
-----------------------------------------------------------------------------
(* The conditions under which a handler goes ahead; otherwise it returns an
   error before it has changed anything. *)
CanAdd(r) == r.parent \in DOMAIN dirs /\ r.name \notin DOMAIN dirs[r.parent]

CanUnlink(r) ==
  LET child == EntryIn(r.parent, r.name)
  IN  child \in DOMAIN inodes /\ inodes[child].kind # "dir"

(* Mutation of CanRmdir: the directory is not tested for entries. *)
CanRmdirFull(r) == EntryIn(r.parent, r.name) \in DOMAIN dirs

CanRmdir(r) ==
  LET child == EntryIn(r.parent, r.name)
  IN  child \in DOMAIN dirs /\ DOMAIN dirs[child] = {}

(* Mutation of CanRename: the source is not looked up again. *)
CanRenameUnseen(r) ==
  LET dst == EntryIn(r.dst_parent, r.dst_name)
  IN  dst \in DOMAIN dirs => DOMAIN dirs[dst] = {}

CanRename(r) ==
  LET dst == EntryIn(r.dst_parent, r.dst_name)
  IN  /\ EntryIn(r.parent, r.name) # None
      /\ dst # None => /\ dst \in DOMAIN inodes
                       /\ IsDir(dst) /\ dst \in DOMAIN dirs
                            => DOMAIN dirs[dst] = {}

Accepted(r) ==
  \/ r.kind \in {"create", "mkdir"} /\ CanAdd(r)
  \/ r.kind = "unlink" /\ CanUnlink(r)
  \/ r.kind = "rmdir" /\ CanRmdir(r)
  \/ r.kind = "rename" /\ CanRename(r)

Refused(c) ==
  /\ pending[c] # Idle
  /\ ~Accepted(pending[c])
  /\ pending' = [pending EXCEPT ![c] = Idle]
  /\ UNCHANGED <<inodes, dirs, next_ino>>

Begin(c, kind) ==
  /\ pending[c].kind = kind
  /\ Accepted(pending[c])
  /\ pending' = [pending EXCEPT ![c] = Idle]
-----------------------------------------------------------------------------
create(c) ==
  LET r == pending[c]
  IN  /\ Begin(c, "create")
      /\ next_ino <= MaxIno
      /\ inodes' = With(inodes, next_ino, [kind |-> "file", nlink |-> 1])
      /\ dirs' = [dirs EXCEPT ![r.parent] = With(@, r.name, next_ino)]
      /\ next_ino' = next_ino + 1

(* nlink of the parent, one more or one fewer. *)
LinkMore(ns, d) ==
  IF d \in DOMAIN ns THEN [ns EXCEPT ![d].nlink = @ + 1] ELSE ns

LinkLess(ns, d) ==
  IF d \in DOMAIN ns THEN [ns EXCEPT ![d].nlink = Less1(@)] ELSE ns

mkdir(c) ==
  LET r == pending[c]
      made == With(inodes, next_ino, [kind |-> "dir", nlink |-> 2])
      empty == With(dirs, next_ino, [n \in {} |-> Root])
  IN  /\ Begin(c, "mkdir")
      /\ next_ino <= MaxIno
      /\ inodes' = LinkMore(made, r.parent)
      /\ dirs' = [empty EXCEPT ![r.parent] = With(@, r.name, next_ino)]
      /\ next_ino' = next_ino + 1

unlink(c) ==
  LET r == pending[c]
  IN  /\ Begin(c, "unlink")
      /\ inodes' = Without(inodes, EntryIn(r.parent, r.name))
      /\ dirs' = [dirs EXCEPT ![r.parent] = Without(@, r.name)]
      /\ UNCHANGED next_ino

(* Mutation of rmdir: the parent keeps its link count. *)
RmdirKeepsLink(c) ==
  LET r == pending[c]
      child == EntryIn(r.parent, r.name)
  IN  /\ Begin(c, "rmdir")
      /\ inodes' = Without(inodes, child)
      /\ dirs' = [Without(dirs, child) EXCEPT ![r.parent] = Without(@, r.name)]
      /\ UNCHANGED next_ino

rmdir(c) ==
  LET r == pending[c]
      child == EntryIn(r.parent, r.name)
  IN  /\ Begin(c, "rmdir")
      /\ inodes' = LinkLess(Without(inodes, child), r.parent)
      /\ dirs' = [Without(dirs, child) EXCEPT ![r.parent] = Without(@, r.name)]
      /\ UNCHANGED next_ino
-----------------------------------------------------------------------------
(* Lines 330-356 of service.rs: an existing destination is removed first. *)
InodesCleared(r) ==
  LET dst == EntryIn(r.dst_parent, r.dst_name)
  IN  IF dst = None THEN inodes
      ELSE Without(IF IsDir(dst) THEN LinkLess(inodes, r.dst_parent) ELSE inodes,
                  dst)

(* Mutation of DirsCleared: the entries of a replaced directory stay. *)
DirsKept(r) ==
  IF EntryIn(r.dst_parent, r.dst_name) = None THEN dirs
  ELSE [dirs EXCEPT ![r.dst_parent] = Without(@, r.dst_name)]

DirsCleared(r) ==
  LET dst == EntryIn(r.dst_parent, r.dst_name)
  IN  IF dst = None THEN dirs
      ELSE [(IF IsDir(dst) THEN Without(dirs, dst) ELSE dirs)
              EXCEPT ![r.dst_parent] = Without(@, r.dst_name)]

(* Mutation of SourceRemoved: the entry is copied, not moved. *)
SourceStays(r) == DirsCleared(r)

(* Line 359: the source entry goes before the new one is put in place. *)
SourceRemoved(r) == [DirsCleared(r) EXCEPT ![r.parent] = Without(@, r.name)]

(* Mutation of Relinked: only the directory that loses an entry is told. *)
RelinkedHalf(r) ==
  IF r.parent # r.dst_parent /\ IsDir(EntryIn(r.parent, r.name))
  THEN LinkLess(InodesCleared(r), r.parent) ELSE InodesCleared(r)

(* Lines 364-369: a directory that moves changes both parents' nlink. *)
Relinked(r) ==
  LET src == EntryIn(r.parent, r.name)
      kept == InodesCleared(r)
  IN  IF r.parent # r.dst_parent /\ src \in DOMAIN kept /\ kept[src].kind = "dir"
      THEN LinkMore(LinkLess(kept, r.parent), r.dst_parent) ELSE kept

rename(c) ==
  LET r == pending[c]
      src == EntryIn(r.parent, r.name)
  IN  /\ Begin(c, "rename")
      /\ r.dst_parent \in DOMAIN SourceRemoved(r)
      /\ dirs' = [SourceRemoved(r) EXCEPT
                    ![r.dst_parent] = With(@, r.dst_name, src)]
      /\ inodes' = Relinked(r)
      /\ UNCHANGED next_ino

(* The destination's directory is gone: rename answers NotFound, after the
   source entry has been removed. *)
RenameNoParent(c) ==
  LET r == pending[c]
  IN  /\ Begin(c, "rename")
      /\ r.dst_parent \notin DOMAIN SourceRemoved(r)
      /\ dirs' = SourceRemoved(r)
      /\ inodes' = InodesCleared(r)
      /\ UNCHANGED next_ino

Next ==
  \E c \in Clients :
    \/ Form(c) \/ Refused(c)
    \/ create(c) \/ mkdir(c) \/ unlink(c) \/ rmdir(c)
    \/ rename(c) \/ RenameNoParent(c)

Spec == Init /\ [][Next]_vars
-----------------------------------------------------------------------------
(* Every entry names a live inode, and the inodes with a table of entries are
   exactly the live directories, whatever the order in which the requests of
   several mounts run: lookup, open and read_dir of service.rs rely on it. *)
EntriesResolve ==
  /\ DOMAIN dirs = {i \in DOMAIN inodes : inodes[i].kind = "dir"}
  /\ \A d \in DOMAIN dirs : \A n \in DOMAIN dirs[d] :
       dirs[d][n] \in DOMAIN inodes \ {Root}

(* No inode has two names, and none that has a name is handed out again:
   dtmpfs has no hard links, and unlink frees the inode and the blocks of a
   file without looking for another name. *)
OneName ==
  /\ \A d, e \in DOMAIN dirs : \A n \in DOMAIN dirs[d], m \in DOMAIN dirs[e] :
       dirs[d][n] = dirs[e][m] => d = e /\ n = m
  /\ \A i \in DOMAIN inodes : i < next_ino

SubDirs(d) == {n \in DOMAIN dirs[d] : IsDir(dirs[d][n])}

(* A directory never counts fewer links than it has: the saturating_sub of
   rmdir and rename never has to saturate. *)
LinksCovered ==
  \A d \in DOMAIN dirs : inodes[d].nlink >= 2 + Cardinality(SubDirs(d))

(* nlink of a directory is two and one for each directory in it. *)
LinksExact ==
  \A i \in DOMAIN inodes :
    inodes[i].nlink = IF i \in DOMAIN dirs THEN 2 + Cardinality(SubDirs(i)) ELSE 1

(* Every live inode can be reached from the root: no operation leaves a file
   or a subtree behind that no path leads to. *)
TreeShape == \A i \in DOMAIN inodes : Above(Root, i)
=============================================================================
