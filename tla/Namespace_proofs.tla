------------------------- MODULE Namespace_proofs --------------------------
(***************************************************************************)
(* The namespace for every set of mounts and names.  Each step of each     *)
(* handler preserves NameInv: every entry leads to a live inode, and no    *)
(* inode has two names.  Each keeps the link counts as exact as they were, *)
(* but for a rename that fails half way, which leaves a spare link.  With  *)
(* a single mount, whose kernel's lookups are never stale, the counts are  *)
(* exact and every inode is reached from the root.                         *)
(***************************************************************************)
EXTENDS Namespace, FiniteSetTheorems, TLAPS

(* A rename in flight has two different entries: what rename removes to make
   room is then never the entry it moves. *)
RenamesDiffer ==
  \A c \in Clients : pending[c].kind = "rename" =>
    <<pending[c].parent, pending[c].name>> #
      <<pending[c].dst_parent, pending[c].dst_name>>

NameInv == TypeOK /\ EntriesResolve /\ OneName /\ RenamesDiffer

(* The state of the root directory alone satisfies the invariant. *)
LEMMA InitNames == Init => NameInv
  <1> SUFFICES ASSUME Init PROVE NameInv
    OBVIOUS
  <1>1. TypeOK
    BY MaxInoAssumption DEF Init, TypeOK, Inode, Inos, Root, Idle
  <1>2. EntriesResolve
    BY DEF Init, EntriesResolve, Root
  <1>3. OneName
    BY DEF Init, OneName, Root
  <1>4. RenamesDiffer
    BY DEF Init, RenamesDiffer, Idle
  <1> QED
    BY <1>1, <1>2, <1>3, <1>4 DEF NameInv
-----------------------------------------------------------------------------
(* A request that is answered leaves the others as they were. *)
LEMMA AnswerKeeps ==
  ASSUME NameInv, NEW c \in Clients,
         pending' = [pending EXCEPT ![c] = Idle]
  PROVE  pending' \in [Clients -> Request \cup {Idle}] /\ RenamesDiffer'
  <1>1. pending \in [Clients -> Request \cup {Idle}]
    BY DEF NameInv, TypeOK
  <1>2. pending' \in [Clients -> Request \cup {Idle}]
    BY <1>1
  <1>3. RenamesDiffer'
    BY <1>1 DEF NameInv, RenamesDiffer, Idle
  <1> QED
    BY <1>2, <1>3

(* A request in flight has the fields of a Request. *)
LEMMA RequestType ==
  ASSUME NameInv, NEW c \in Clients, NEW k, Begin(c, k), k # "none"
  PROVE  /\ pending[c] \in Request
         /\ pending[c].parent \in Inos
         /\ pending[c].name \in Names
         /\ pending[c].dst_parent \in Inos
         /\ pending[c].dst_name \in Names
  <1>1. pending[c] \in Request \cup {Idle}
    BY DEF NameInv, TypeOK
  <1>2. pending[c].kind # "none"
    BY DEF Begin
  <1>3. pending[c] \in Request
    BY <1>1, <1>2 DEF Idle
  <1> QED
    BY <1>3 DEF Request

(* An entry that is found names a live inode other than the root. *)
LEMMA EntryFound ==
  ASSUME NameInv, NEW d, NEW n, EntryIn(d, n) # None
  PROVE  /\ d \in DOMAIN dirs
         /\ n \in DOMAIN dirs[d]
         /\ EntryIn(d, n) = dirs[d][n]
         /\ dirs[d][n] \in DOMAIN inodes \ {Root}
  BY DEF NameInv, EntriesResolve, EntryIn

(* No other entry names the same inode. *)
LEMMA SoleEntry ==
  ASSUME NameInv, NEW p \in DOMAIN dirs, NEW n \in DOMAIN dirs[p]
  PROVE  \A d \in DOMAIN dirs : \A m \in DOMAIN dirs[d] :
           dirs[d][m] = dirs[p][n] => d = p /\ m = n
  BY DEF NameInv, OneName
-----------------------------------------------------------------------------
(* Forming a request changes no name. *)
LEMMA FormKeepsNames ==
  ASSUME NameInv, NEW c \in Clients, Form(c)
  PROVE  NameInv'
  <1>1. PICK r \in Request :
          /\ ScreenedEntry(r) \/ ScreenedRename(r)
          /\ pending' = [pending EXCEPT ![c] = r]
    BY Zenon DEF Form
  <1>2. pending \in [Clients -> Request \cup {Idle}]
    BY DEF NameInv, TypeOK
  <1>3. pending' \in [Clients -> Request \cup {Idle}]
    BY <1>1, <1>2
  <1>4. r.kind = "rename" =>
          <<r.parent, r.name>> # <<r.dst_parent, r.dst_name>>
    BY <1>1 DEF ScreenedEntry, ScreenedRename
  <1>5. RenamesDiffer'
    BY <1>1, <1>2, <1>4 DEF NameInv, RenamesDiffer
  <1>6. UNCHANGED <<inodes, dirs, next_ino>>
    BY DEF Form
  <1>7. TypeOK'
    BY <1>3, <1>6 DEF NameInv, TypeOK
  <1>8. EntriesResolve' /\ OneName'
    BY <1>6 DEF NameInv, EntriesResolve, OneName
  <1> QED
    BY <1>5, <1>7, <1>8 DEF NameInv

(* A refused request changes no name. *)
LEMMA RefusedKeepsNames ==
  ASSUME NameInv, NEW c \in Clients, Refused(c)
  PROVE  NameInv'
  <1>1. pending' \in [Clients -> Request \cup {Idle}] /\ RenamesDiffer'
    BY Zenon, AnswerKeeps DEF Refused
  <1>2. UNCHANGED <<inodes, dirs, next_ino>>
    BY DEF Refused
  <1> QED
    BY <1>1, <1>2 DEF NameInv, TypeOK, EntriesResolve, OneName
-----------------------------------------------------------------------------
(* The number alloc_ino gives out belongs to no live inode. *)
LEMMA FreshIno ==
  ASSUME NameInv, next_ino <= MaxIno
  PROVE  /\ next_ino \in Inos \ {Root}
         /\ next_ino \notin DOMAIN inodes
         /\ next_ino \notin DOMAIN dirs
         /\ next_ino + 1 \in 2 .. MaxIno + 1
         /\ \A i \in DOMAIN inodes \cup {next_ino} : i < next_ino + 1
  <1>1. next_ino \in 2 .. MaxIno + 1 /\ DOMAIN inodes \subseteq Inos
    BY DEF NameInv, TypeOK
  <1>2. \A i \in DOMAIN inodes : i < next_ino
    BY DEF NameInv, OneName
  <1>3. DOMAIN dirs \subseteq DOMAIN inodes
    BY DEF NameInv, EntriesResolve
  <1> QED
    BY <1>1, <1>2, <1>3, MaxInoAssumption DEF Inos, Root

(* An entry for a fresh inode added to a directory keeps the names apart. *)
LEMMA AddedEntry ==
  ASSUME NameInv, NEW p \in DOMAIN dirs, NEW n \in Names,
         n \notin DOMAIN dirs[p], NEW base,
         next_ino <= MaxIno, next_ino' = next_ino + 1,
         base = dirs \/ base = With(dirs, next_ino, [x \in {} |-> Root]),
         dirs' = [base EXCEPT ![p] = With(@, n, next_ino)],
         DOMAIN inodes' = DOMAIN inodes \cup {next_ino}
  PROVE  /\ DOMAIN dirs' = DOMAIN base
         /\ DOMAIN dirs' \subseteq Inos
         /\ dirs' = [d \in DOMAIN dirs' |-> dirs'[d]]
         /\ \A d \in DOMAIN dirs' : /\ DOMAIN dirs'[d] \subseteq Names
                                    /\ dirs'[d] \in [DOMAIN dirs'[d] -> Inos]
         /\ \A d \in DOMAIN dirs' : \A m \in DOMAIN dirs'[d] :
              dirs'[d][m] \in DOMAIN inodes' \ {Root}
         /\ OneName'
  <1>1. /\ next_ino \in Inos \ {Root} /\ next_ino \notin DOMAIN inodes
        /\ next_ino \notin DOMAIN dirs /\ p # next_ino
        /\ \A i \in DOMAIN inodes \cup {next_ino} : i < next_ino + 1
    BY FreshIno
  <1>2. /\ DOMAIN dirs \subseteq Inos
        /\ \A d \in DOMAIN dirs : /\ DOMAIN dirs[d] \subseteq Names
                                  /\ dirs[d] \in [DOMAIN dirs[d] -> Inos]
    BY DEF NameInv, TypeOK
  <1>3. /\ DOMAIN base = DOMAIN dirs \/ DOMAIN base = DOMAIN dirs \cup {next_ino}
        /\ p \in DOMAIN base
        /\ \A d \in DOMAIN dirs : base[d] = dirs[d]
        /\ next_ino \in DOMAIN base => base[next_ino] = [x \in {} |-> Root]
    BY <1>1 DEF With
  <1>4. /\ DOMAIN dirs' = DOMAIN base
        /\ dirs' = [d \in DOMAIN dirs' |-> dirs'[d]]
        /\ dirs'[p] = With(dirs[p], n, next_ino)
        /\ \A d \in DOMAIN dirs : d # p => dirs'[d] = dirs[d]
        /\ next_ino \in DOMAIN dirs' => DOMAIN dirs'[next_ino] = {}
        /\ next_ino \in DOMAIN dirs' => dirs'[next_ino] = [x \in {} |-> Root]
    BY Zenon, <1>1, <1>3
  <1>5. /\ DOMAIN dirs'[p] = DOMAIN dirs[p] \cup {n}
        /\ dirs'[p] = [m \in DOMAIN dirs'[p] |-> dirs'[p][m]]
        /\ dirs'[p][n] = next_ino
        /\ \A m \in DOMAIN dirs[p] : dirs'[p][m] = dirs[p][m]
    BY Zenon, <1>4 DEF With
  <1>6. \A d \in DOMAIN dirs' : \A m \in DOMAIN dirs'[d] :
          \/ d = p /\ m = n /\ dirs'[d][m] = next_ino
          \/ /\ d \in DOMAIN dirs /\ m \in DOMAIN dirs[d]
             /\ dirs'[d][m] = dirs[d][m] /\ ~(d = p /\ m = n)
    BY <1>3, <1>4, <1>5
  <1>7. \A d \in DOMAIN dirs : \A m \in DOMAIN dirs[d] :
          dirs[d][m] \in DOMAIN inodes \ {Root}
    BY DEF NameInv, EntriesResolve
  <1>8. \A d, e \in DOMAIN dirs : \A m \in DOMAIN dirs[d], k \in DOMAIN dirs[e] :
          dirs[d][m] = dirs[e][k] => d = e /\ m = k
    BY DEF NameInv, OneName
  <1>9. OneName'
    <2>1. \A d, e \in DOMAIN dirs' : \A m \in DOMAIN dirs'[d], k \in DOMAIN dirs'[e] :
            dirs'[d][m] = dirs'[e][k] => d = e /\ m = k
      BY <1>1, <1>6, <1>7, <1>8
    <2>2. \A i \in DOMAIN inodes' : i < next_ino'
      BY <1>1
    <2> QED
      BY <2>1, <2>2 DEF OneName
  <1>10. \A d \in DOMAIN dirs' : \A m \in DOMAIN dirs'[d] :
           dirs'[d][m] \in DOMAIN inodes' \ {Root}
    BY <1>1, <1>6, <1>7
  <1>11. \A d \in DOMAIN dirs' : /\ DOMAIN dirs'[d] \subseteq Names
                                 /\ dirs'[d] \in [DOMAIN dirs'[d] -> Inos]
    <2>1. DOMAIN dirs'[p] \subseteq Names /\ dirs'[p] \in [DOMAIN dirs'[p] -> Inos]
      BY <1>1, <1>2, <1>5
    <2>2. next_ino \in DOMAIN dirs' => dirs'[next_ino] \in [{} -> Inos]
      BY Zenon, <1>4
    <2> QED
      BY <1>2, <1>3, <1>4, <2>1, <2>2
  <1> QED
    BY <1>1, <1>2, <1>3, <1>4, <1>9, <1>10, <1>11

(* create names an inode that had no name. *)
LEMMA CreateKeepsNames ==
  ASSUME NameInv, NEW c \in Clients, create(c)
  PROVE  NameInv'
  <1> DEFINE r == pending[c]
  <1>1. Begin(c, "create") /\ next_ino <= MaxIno /\ next_ino' = next_ino + 1
    BY DEF create
  <1>2. r.parent \in Inos /\ r.name \in Names
    BY <1>1, RequestType
  <1>3. CanAdd(r)
    BY <1>1 DEF Begin, Accepted
  <1>4. /\ inodes' = With(inodes, next_ino, [kind |-> "file", nlink |-> 1])
        /\ dirs' = [dirs EXCEPT ![r.parent] = With(@, r.name, next_ino)]
    BY DEF create
  <1>5. /\ DOMAIN inodes' = DOMAIN inodes \cup {next_ino}
        /\ inodes' = [i \in DOMAIN inodes' |-> inodes'[i]]
        /\ \A i \in DOMAIN inodes : i # next_ino => inodes'[i] = inodes[i]
        /\ inodes'[next_ino] = [kind |-> "file", nlink |-> 1]
    BY <1>4 DEF With
  <1>6. /\ next_ino \in Inos /\ next_ino \notin DOMAIN inodes
        /\ next_ino' \in 2 .. MaxIno + 1
    BY <1>1, FreshIno
  <1>7. /\ DOMAIN dirs' = DOMAIN dirs
        /\ DOMAIN dirs' \subseteq Inos
        /\ dirs' = [d \in DOMAIN dirs' |-> dirs'[d]]
        /\ \A d \in DOMAIN dirs' : /\ DOMAIN dirs'[d] \subseteq Names
                                   /\ dirs'[d] \in [DOMAIN dirs'[d] -> Inos]
        /\ \A d \in DOMAIN dirs' : \A m \in DOMAIN dirs'[d] :
             dirs'[d][m] \in DOMAIN inodes' \ {Root}
        /\ OneName'
    BY Zenon, <1>1, <1>2, <1>3, <1>4, <1>5, AddedEntry DEF CanAdd
  <1>8. DOMAIN inodes \subseteq Inos /\ inodes \in [DOMAIN inodes -> Inode]
    BY DEF NameInv, TypeOK
  <1>9. DOMAIN inodes' \subseteq Inos /\ inodes' \in [DOMAIN inodes' -> Inode]
    BY <1>5, <1>6, <1>8 DEF Inode
  <1>10. pending' \in [Clients -> Request \cup {Idle}] /\ RenamesDiffer'
    BY Zenon, <1>1, AnswerKeeps DEF Begin
  <1>11. DOMAIN dirs' = {i \in DOMAIN inodes' : inodes'[i].kind = "dir"}
    BY <1>5, <1>6, <1>7 DEF NameInv, EntriesResolve
  <1>12. TypeOK'
    BY <1>6, <1>7, <1>9, <1>10 DEF TypeOK
  <1> QED
    BY Zenon, <1>7, <1>10, <1>11, <1>12 DEF NameInv, EntriesResolve

(* mkdir names an inode that had no name, and gives it an empty table. *)
LEMMA MkdirKeepsNames ==
  ASSUME NameInv, NEW c \in Clients, mkdir(c)
  PROVE  NameInv'
  <1> DEFINE r == pending[c]
             made == With(inodes, next_ino, [kind |-> "dir", nlink |-> 2])
             base == With(dirs, next_ino, [n \in {} |-> Root])
  <1>1. Begin(c, "mkdir") /\ next_ino <= MaxIno /\ next_ino' = next_ino + 1
    BY DEF mkdir
  <1>2. r.parent \in Inos /\ r.name \in Names
    BY <1>1, RequestType
  <1>3. CanAdd(r)
    BY <1>1 DEF Begin, Accepted
  <1>4. /\ inodes' = LinkMore(made, r.parent)
        /\ dirs' = [base EXCEPT ![r.parent] = With(@, r.name, next_ino)]
    BY DEF mkdir
  <1>5. /\ next_ino \in Inos /\ next_ino \notin DOMAIN inodes
        /\ next_ino' \in 2 .. MaxIno + 1
    BY <1>1, FreshIno
  <1>6. DOMAIN inodes \subseteq Inos /\ inodes \in [DOMAIN inodes -> Inode]
    BY DEF NameInv, TypeOK
  <1>7. /\ DOMAIN made = DOMAIN inodes \cup {next_ino}
        /\ made \in [DOMAIN made -> Inode]
        /\ \A i \in DOMAIN inodes : made[i] = inodes[i]
        /\ made[next_ino].kind = "dir"
    BY <1>5, <1>6 DEF With, Inode
  <1>8. /\ DOMAIN inodes' = DOMAIN inodes \cup {next_ino}
        /\ inodes' \in [DOMAIN inodes' -> Inode]
        /\ \A i \in DOMAIN made : inodes'[i].kind = made[i].kind
    BY <1>4, <1>7 DEF LinkMore, Inode
  <1>9. /\ DOMAIN dirs' = DOMAIN base
        /\ DOMAIN dirs' \subseteq Inos
        /\ dirs' = [d \in DOMAIN dirs' |-> dirs'[d]]
        /\ \A d \in DOMAIN dirs' : /\ DOMAIN dirs'[d] \subseteq Names
                                   /\ dirs'[d] \in [DOMAIN dirs'[d] -> Inos]
        /\ \A d \in DOMAIN dirs' : \A m \in DOMAIN dirs'[d] :
             dirs'[d][m] \in DOMAIN inodes' \ {Root}
        /\ OneName'
    <2>1. r.parent \in DOMAIN dirs /\ r.name \notin DOMAIN dirs[r.parent]
      BY <1>3 DEF CanAdd
    <2> HIDE DEF r
    <2> QED
      BY Zenon, <1>1, <1>2, <1>4, <1>8, <2>1, AddedEntry
  <1>10. pending' \in [Clients -> Request \cup {Idle}] /\ RenamesDiffer'
    BY Zenon, <1>1, AnswerKeeps DEF Begin
  <1>11. DOMAIN dirs' = {i \in DOMAIN inodes' : inodes'[i].kind = "dir"}
    <2>1. DOMAIN base = DOMAIN dirs \cup {next_ino}
      BY DEF With
    <2>2. DOMAIN dirs = {i \in DOMAIN inodes : inodes[i].kind = "dir"}
      BY DEF NameInv, EntriesResolve
    <2> HIDE DEF made, base
    <2> QED
      BY <1>5, <1>7, <1>8, <1>9, <2>1, <2>2
  <1>12. TypeOK'
    BY <1>5, <1>6, <1>8, <1>9, <1>10 DEF TypeOK
  <1> QED
    BY <1>9, <1>10, <1>11, <1>12 DEF NameInv, EntriesResolve
-----------------------------------------------------------------------------
(* Taking away entries, directories without entries, and the inodes nothing
   names any more keeps what is left well formed. *)
LEMMA Shrunk ==
  ASSUME NameInv, UNCHANGED next_ino,
         NEW gone, Root \notin gone,
         DOMAIN inodes' = DOMAIN inodes \ gone,
         inodes' \in [DOMAIN inodes' -> Inode],
         \A i \in DOMAIN inodes' : inodes'[i].kind = inodes[i].kind,
         DOMAIN dirs' = DOMAIN dirs \ gone,
         dirs' = [d \in DOMAIN dirs' |-> dirs'[d]],
         \A d \in DOMAIN dirs' :
           /\ DOMAIN dirs'[d] \subseteq DOMAIN dirs[d]
           /\ dirs'[d] = [n \in DOMAIN dirs'[d] |-> dirs[d][n]],
         \A d \in DOMAIN dirs' : \A n \in DOMAIN dirs'[d] : dirs[d][n] \notin gone,
         pending' \in [Clients -> Request \cup {Idle}],
         RenamesDiffer'
  PROVE  NameInv'
  <1>1. /\ DOMAIN inodes \subseteq Inos /\ DOMAIN dirs \subseteq Inos
        /\ next_ino \in 2 .. MaxIno + 1
        /\ \A d \in DOMAIN dirs : /\ DOMAIN dirs[d] \subseteq Names
                                  /\ dirs[d] \in [DOMAIN dirs[d] -> Inos]
    BY DEF NameInv, TypeOK
  <1>2. /\ DOMAIN dirs = {i \in DOMAIN inodes : inodes[i].kind = "dir"}
        /\ \A d \in DOMAIN dirs : \A n \in DOMAIN dirs[d] :
             dirs[d][n] \in DOMAIN inodes \ {Root}
    BY DEF NameInv, EntriesResolve
  <1>3. \A d \in DOMAIN dirs' : \A n \in DOMAIN dirs'[d] :
          n \in DOMAIN dirs[d] /\ dirs'[d][n] = dirs[d][n]
    OBVIOUS
  <1>4. TypeOK'
    <2>1. \A d \in DOMAIN dirs' : /\ DOMAIN dirs'[d] \subseteq Names
                                  /\ dirs'[d] \in [DOMAIN dirs'[d] -> Inos]
      BY <1>1
    <2> QED
      BY <1>1, <2>1 DEF TypeOK
  <1>5. EntriesResolve'
    <2>1. DOMAIN dirs' = {i \in DOMAIN inodes' : inodes'[i].kind = "dir"}
      BY <1>2
    <2>2. \A d \in DOMAIN dirs' : \A n \in DOMAIN dirs'[d] :
            dirs'[d][n] \in DOMAIN inodes' \ {Root}
      BY <1>2, <1>3
    <2> QED
      BY Zenon, <2>1, <2>2 DEF EntriesResolve
  <1>6. OneName'
    BY <1>3 DEF NameInv, OneName
  <1> QED
    BY <1>4, <1>5, <1>6 DEF NameInv

(* Counting a link more or less changes nothing but nlink. *)
LEMMA LinkKeeps ==
  ASSUME NEW ns, NEW d, ns \in [DOMAIN ns -> Inode]
  PROVE  /\ DOMAIN LinkMore(ns, d) = DOMAIN ns
         /\ DOMAIN LinkLess(ns, d) = DOMAIN ns
         /\ LinkMore(ns, d) \in [DOMAIN ns -> Inode]
         /\ LinkLess(ns, d) \in [DOMAIN ns -> Inode]
         /\ \A i \in DOMAIN ns : LinkMore(ns, d)[i].kind = ns[i].kind
         /\ \A i \in DOMAIN ns : LinkLess(ns, d)[i].kind = ns[i].kind
  BY DEF LinkMore, LinkLess, Less1, Inode

(* unlink takes away a file with its only name. *)
LEMMA UnlinkKeepsNames ==
  ASSUME NameInv, NEW c \in Clients, unlink(c)
  PROVE  NameInv'
  <1> DEFINE r == pending[c]
             child == EntryIn(r.parent, r.name)
  <1>1. Begin(c, "unlink")
    BY DEF unlink
  <1>2. CanUnlink(r)
    BY <1>1 DEF Begin, Accepted
  <1>3. inodes \in [DOMAIN inodes -> Inode] /\ DOMAIN inodes \subseteq Inos
    BY DEF NameInv, TypeOK
  <1>4. /\ child \in DOMAIN inodes /\ inodes[child].kind # "dir"
        /\ child # None
    BY <1>2, <1>3 DEF CanUnlink, Inos, None
  <1>5. /\ r.parent \in DOMAIN dirs /\ r.name \in DOMAIN dirs[r.parent]
        /\ child = dirs[r.parent][r.name] /\ child # Root
    BY <1>4, EntryFound
  <1>6. child \notin DOMAIN dirs
    BY <1>4 DEF NameInv, EntriesResolve
  <1>7. /\ inodes' = Without(inodes, child)
        /\ dirs' = [dirs EXCEPT ![r.parent] = Without(@, r.name)]
        /\ UNCHANGED next_ino
    BY DEF unlink
  <1>8. dirs = [d \in DOMAIN dirs |-> dirs[d]]
        /\ \A d \in DOMAIN dirs : dirs[d] \in [DOMAIN dirs[d] -> Inos]
    BY DEF NameInv, TypeOK
  <1>9. pending' \in [Clients -> Request \cup {Idle}] /\ RenamesDiffer'
    BY Zenon, <1>1, AnswerKeeps DEF Begin
  <1> HIDE DEF r, child
  <1>10. /\ DOMAIN inodes' = DOMAIN inodes \ {child}
         /\ inodes' \in [DOMAIN inodes' -> Inode]
         /\ \A i \in DOMAIN inodes' : inodes'[i].kind = inodes[i].kind
    BY <1>3, <1>7 DEF Without
  <1>11. /\ DOMAIN dirs' = DOMAIN dirs \ {child}
         /\ dirs' = [d \in DOMAIN dirs' |-> dirs'[d]]
         /\ \A d \in DOMAIN dirs' : d # r.parent => dirs'[d] = dirs[d]
         /\ dirs'[r.parent] = Without(dirs[r.parent], r.name)
    BY Zenon, <1>5, <1>6, <1>7
  <1>12. \A d \in DOMAIN dirs' :
           /\ DOMAIN dirs'[d] \subseteq DOMAIN dirs[d]
           /\ dirs'[d] = [n \in DOMAIN dirs'[d] |-> dirs[d][n]]
           /\ d = r.parent => r.name \notin DOMAIN dirs'[d]
    BY <1>8, <1>11 DEF Without
  <1>13. \A d \in DOMAIN dirs' : \A n \in DOMAIN dirs'[d] : dirs[d][n] \notin {child}
    <2>1. \A d \in DOMAIN dirs : \A n \in DOMAIN dirs[d] :
            dirs[d][n] = child => d = r.parent /\ n = r.name
      BY <1>5, SoleEntry
    <2> QED
      BY <1>11, <1>12, <2>1
  <1> QED
    BY Zenon, <1>5, <1>7, <1>9, <1>10, <1>11, <1>12, <1>13, Shrunk

(* rmdir takes away an empty directory with its only name. *)
LEMMA RmdirKeepsNames ==
  ASSUME NameInv, NEW c \in Clients, rmdir(c)
  PROVE  NameInv'
  <1> DEFINE r == pending[c]
             child == EntryIn(r.parent, r.name)
  <1>1. Begin(c, "rmdir")
    BY DEF rmdir
  <1>2. CanRmdir(r)
    BY <1>1 DEF Begin, Accepted
  <1>3. /\ inodes \in [DOMAIN inodes -> Inode] /\ DOMAIN dirs \subseteq Inos
        /\ \A d \in DOMAIN dirs : dirs[d] \in [DOMAIN dirs[d] -> Inos]
    BY DEF NameInv, TypeOK
  <1>4. child \in DOMAIN dirs /\ DOMAIN dirs[child] = {} /\ child # None
    BY <1>2, <1>3 DEF CanRmdir, Inos, None
  <1>5. /\ r.parent \in DOMAIN dirs /\ r.name \in DOMAIN dirs[r.parent]
        /\ child = dirs[r.parent][r.name] /\ child # Root /\ r.parent # child
    BY <1>4, EntryFound
  <1>6. /\ inodes' = LinkLess(Without(inodes, child), r.parent)
        /\ dirs' = [Without(dirs, child) EXCEPT ![r.parent] = Without(@, r.name)]
        /\ UNCHANGED next_ino
    BY DEF rmdir
  <1>7. pending' \in [Clients -> Request \cup {Idle}] /\ RenamesDiffer'
    BY Zenon, <1>1, AnswerKeeps DEF Begin
  <1> HIDE DEF r, child
  <1>8. /\ DOMAIN inodes' = DOMAIN inodes \ {child}
        /\ inodes' \in [DOMAIN inodes' -> Inode]
        /\ \A i \in DOMAIN inodes' : inodes'[i].kind = inodes[i].kind
    <2> DEFINE ns == Without(inodes, child)
    <2>1. /\ DOMAIN ns = DOMAIN inodes \ {child}
          /\ ns \in [DOMAIN ns -> Inode]
          /\ \A i \in DOMAIN ns : ns[i] = inodes[i]
      BY <1>3 DEF Without
    <2>2. inodes' = LinkLess(ns, r.parent)
      BY <1>6
    <2> HIDE DEF ns
    <2> QED
      BY <2>1, <2>2, LinkKeeps
  <1>9. /\ DOMAIN Without(dirs, child) = DOMAIN dirs \ {child}
        /\ \A d \in DOMAIN dirs \ {child} : Without(dirs, child)[d] = dirs[d]
    BY DEF Without
  <1>10. /\ DOMAIN dirs' = DOMAIN dirs \ {child}
         /\ dirs' = [d \in DOMAIN dirs' |-> dirs'[d]]
         /\ \A d \in DOMAIN dirs' : d # r.parent => dirs'[d] = dirs[d]
         /\ dirs'[r.parent] = Without(dirs[r.parent], r.name)
    BY <1>5, <1>6, <1>9
  <1>11. \A d \in DOMAIN dirs' :
           /\ DOMAIN dirs'[d] \subseteq DOMAIN dirs[d]
           /\ dirs'[d] = [n \in DOMAIN dirs'[d] |-> dirs[d][n]]
           /\ d = r.parent => r.name \notin DOMAIN dirs'[d]
    BY <1>3, <1>10 DEF Without
  <1>12. \A d \in DOMAIN dirs' : \A n \in DOMAIN dirs'[d] : dirs[d][n] \notin {child}
    <2>1. \A d \in DOMAIN dirs : \A n \in DOMAIN dirs[d] :
            dirs[d][n] = child => d = r.parent /\ n = r.name
      BY Zenon, <1>5, SoleEntry
    <2> QED
      BY <1>10, <1>11, <2>1
  <1> QED
    BY ZenonT(30), <1>5, <1>6, <1>7, <1>8, <1>10, <1>11, <1>12, Shrunk
-----------------------------------------------------------------------------
(* What rename knows once it has decided to go ahead: the source is an entry,
   the destination is another one or none, and a directory to be replaced
   holds neither. *)
LEMMA RenameEntries ==
  ASSUME NameInv, NEW c \in Clients, Begin(c, "rename"),
         NEW r, r = pending[c],
         NEW src, src = EntryIn(r.parent, r.name),
         NEW dst, dst = EntryIn(r.dst_parent, r.dst_name)
  PROVE  /\ src # None
         /\ r.parent \in DOMAIN dirs /\ r.name \in DOMAIN dirs[r.parent]
         /\ src = dirs[r.parent][r.name] /\ src \in DOMAIN inodes \ {Root}
         /\ <<r.parent, r.name>> # <<r.dst_parent, r.dst_name>>
         /\ dst # None =>
              /\ r.dst_parent \in DOMAIN dirs /\ r.dst_name \in DOMAIN dirs[r.dst_parent]
              /\ dst = dirs[r.dst_parent][r.dst_name] /\ dst \in DOMAIN inodes \ {Root}
              /\ dst \in DOMAIN dirs <=> IsDir(dst)
              /\ IsDir(dst) => DOMAIN dirs[dst] = {}
         /\ dst # src /\ dst # Root /\ dst # r.parent /\ dst # r.dst_parent
         /\ dst = None => dst \notin DOMAIN dirs /\ dst \notin DOMAIN inodes
         /\ r.dst_parent \in Inos /\ r.dst_name \in Names
  <1>1. CanRename(r)
    BY DEF Begin, Accepted
  <1>2. /\ src # None
        /\ r.parent \in DOMAIN dirs /\ r.name \in DOMAIN dirs[r.parent]
        /\ src = dirs[r.parent][r.name] /\ src \in DOMAIN inodes \ {Root}
    BY <1>1, EntryFound DEF CanRename
  <1>3. <<r.parent, r.name>> # <<r.dst_parent, r.dst_name>>
    BY DEF NameInv, RenamesDiffer, Begin
  <1>4. dst # None =>
          /\ r.dst_parent \in DOMAIN dirs /\ r.dst_name \in DOMAIN dirs[r.dst_parent]
          /\ dst = dirs[r.dst_parent][r.dst_name] /\ dst \in DOMAIN inodes \ {Root}
    BY EntryFound
  <1>5. DOMAIN dirs = {i \in DOMAIN inodes : inodes[i].kind = "dir"}
    BY DEF NameInv, EntriesResolve
  <1>6. dst # None => /\ dst \in DOMAIN dirs <=> IsDir(dst)
                      /\ IsDir(dst) => DOMAIN dirs[dst] = {}
    BY <1>1, <1>4, <1>5 DEF CanRename, IsDir
  <1>7. r.dst_parent \in Inos /\ r.dst_name \in Names
    BY RequestType
  <1>8. DOMAIN dirs \subseteq Inos /\ DOMAIN inodes \subseteq Inos
    BY DEF NameInv, TypeOK
  <1>9. None \notin Inos /\ None # Root
    BY DEF None, Inos, Root
  <1>10. dst # src
    <2>1. dst = src => r.dst_parent = r.parent /\ r.dst_name = r.name
      BY <1>2, <1>4, SoleEntry
    <2> QED
      BY <1>3, <2>1
  <1>11. dst # r.parent /\ dst # r.dst_parent
    <2>1. CASE dst = None
      BY Zenon, <2>1, <1>2, <1>7, <1>8, <1>9
    <2>2. CASE dst # None
      BY <2>2, <1>2, <1>4, <1>6
    <2> QED
      BY <2>1, <2>2
  <1> QED
    BY <1>2, <1>3, <1>4, <1>6, <1>7, <1>8, <1>9, <1>10, <1>11

(* The tables and the inodes without the two entries of a rename, without the
   table of the directory it replaces and without the inode it replaces. *)
CutOut(src, dst, rest, kept) ==
  /\ DOMAIN kept = DOMAIN inodes \ {dst}
  /\ kept \in [DOMAIN kept -> Inode]
  /\ \A i \in DOMAIN kept : kept[i].kind = inodes[i].kind
  /\ DOMAIN rest = DOMAIN dirs \ {dst}
  /\ rest = [d \in DOMAIN rest |-> rest[d]]
  /\ \A d \in DOMAIN rest :
       /\ DOMAIN rest[d] \subseteq DOMAIN dirs[d]
       /\ rest[d] = [n \in DOMAIN rest[d] |-> dirs[d][n]]
  /\ \A d \in DOMAIN rest : \A n \in DOMAIN dirs[d] :
       n \in DOMAIN rest[d] <=> dirs[d][n] \notin {src, dst}

(* Clearing the destination and removing the source entry leaves that. *)
LEMMA RenameRemoves ==
  ASSUME NameInv, NEW c \in Clients, Begin(c, "rename")
  PROVE  CutOut(EntryIn(pending[c].parent, pending[c].name),
                EntryIn(pending[c].dst_parent, pending[c].dst_name),
                SourceRemoved(pending[c]), InodesCleared(pending[c]))
  <1> DEFINE r == pending[c]
             src == EntryIn(r.parent, r.name)
             dst == EntryIn(r.dst_parent, r.dst_name)
             rest == SourceRemoved(r)
             kept == InodesCleared(r)
  <1>1. /\ r.parent \in DOMAIN dirs /\ r.name \in DOMAIN dirs[r.parent]
        /\ src = dirs[r.parent][r.name]
        /\ dst # None =>
              /\ r.dst_parent \in DOMAIN dirs /\ r.dst_name \in DOMAIN dirs[r.dst_parent]
              /\ dst = dirs[r.dst_parent][r.dst_name] /\ dst \in DOMAIN inodes \ {Root}
              /\ dst \in DOMAIN dirs <=> IsDir(dst)
        /\ dst # r.parent /\ dst # r.dst_parent
        /\ dst = None => dst \notin DOMAIN dirs /\ dst \notin DOMAIN inodes
    BY RenameEntries
  <1>2. /\ inodes \in [DOMAIN inodes -> Inode]
        /\ \A d \in DOMAIN dirs : dirs[d] \in [DOMAIN dirs[d] -> Inos]
        /\ dirs = [d \in DOMAIN dirs |-> dirs[d]]
    BY DEF NameInv, TypeOK
  <1>3. /\ DOMAIN kept = DOMAIN inodes \ {dst}
        /\ kept \in [DOMAIN kept -> Inode]
        /\ \A i \in DOMAIN kept : kept[i].kind = inodes[i].kind
    <2> DEFINE ns == IF IsDir(dst) THEN LinkLess(inodes, r.dst_parent) ELSE inodes
    <2>1. /\ DOMAIN ns = DOMAIN inodes /\ ns \in [DOMAIN inodes -> Inode]
          /\ \A i \in DOMAIN inodes : ns[i].kind = inodes[i].kind
      BY <1>2, LinkKeeps
    <2>2. kept = IF dst = None THEN inodes ELSE Without(ns, dst)
      BY DEF InodesCleared
    <2> HIDE DEF ns, kept, r, src, dst
    <2> QED
      BY <1>1, <1>2, <2>1, <2>2 DEF Without
  <1> DEFINE table == IF IsDir(dst) THEN Without(dirs, dst) ELSE dirs
             cleared == DirsCleared(r)
  <1> HIDE DEF r, src, dst
  <1>4. dst # None => /\ DOMAIN table = DOMAIN dirs \ {dst}
                      /\ \A d \in DOMAIN table : table[d] = dirs[d]
    BY <1>1 DEF Without
  <1>5. cleared = IF dst = None THEN dirs
                  ELSE [table EXCEPT ![r.dst_parent] = Without(@, r.dst_name)]
    BY DEF DirsCleared, dst
  <1> HIDE DEF table
  <1>6. /\ DOMAIN cleared = DOMAIN dirs \ {dst}
        /\ dst = None => cleared = dirs
        /\ \A d \in DOMAIN cleared :
             \/ d # r.dst_parent /\ cleared[d] = dirs[d]
             \/ d = r.dst_parent /\ dst = None /\ cleared[d] = dirs[d]
             \/ d = r.dst_parent /\ dst # None
                  /\ cleared[d] = Without(dirs[d], r.dst_name)
    BY <1>1, <1>4, <1>5
  <1>7. rest = [cleared EXCEPT ![r.parent] = Without(@, r.name)]
    BY DEF SourceRemoved
  <1> HIDE DEF cleared, rest, kept
  <1>8. \A d \in DOMAIN cleared :
          /\ DOMAIN cleared[d] \subseteq DOMAIN dirs[d]
          /\ cleared[d] = [n \in DOMAIN cleared[d] |-> dirs[d][n]]
          /\ d = r.dst_parent /\ dst # None => r.dst_name \notin DOMAIN cleared[d]
          /\ \A n \in DOMAIN dirs[d] : n \in DOMAIN cleared[d] \/ dirs[d][n] = dst
    <2> TAKE d \in DOMAIN cleared
    <2>1. d \in DOMAIN dirs /\ dirs[d] = [n \in DOMAIN dirs[d] |-> dirs[d][n]]
      BY <1>2, <1>6
    <2>2. CASE cleared[d] = dirs[d] /\ ~(d = r.dst_parent /\ dst # None)
      BY <2>1, <2>2
    <2>3. CASE /\ cleared[d] = Without(dirs[d], r.dst_name)
               /\ d = r.dst_parent /\ dst # None
      BY <1>1, <2>3 DEF Without
    <2> QED
      BY <1>6, <2>2, <2>3
  <1>9. /\ DOMAIN rest = DOMAIN dirs \ {dst}
        /\ rest = [d \in DOMAIN rest |-> rest[d]]
        /\ \A d \in DOMAIN rest : d # r.parent => rest[d] = cleared[d]
        /\ rest[r.parent] = Without(cleared[r.parent], r.name)
    BY Zenon, <1>1, <1>6, <1>7
  <1>10. \A d \in DOMAIN rest :
           /\ DOMAIN rest[d] \subseteq DOMAIN cleared[d]
           /\ rest[d] = [n \in DOMAIN rest[d] |-> dirs[d][n]]
           /\ d = r.parent => r.name \notin DOMAIN rest[d]
           /\ \A n \in DOMAIN cleared[d] : n \in DOMAIN rest[d] \/ dirs[d][n] = src
    BY <1>1, <1>6, <1>8, <1>9 DEF Without
  <1>11. \A d \in DOMAIN rest : DOMAIN rest[d] \subseteq DOMAIN dirs[d]
    BY <1>6, <1>8, <1>9, <1>10
  <1>12. \A d \in DOMAIN rest : \A n \in DOMAIN rest[d] : dirs[d][n] # src
    <2>1. \A d \in DOMAIN dirs : \A n \in DOMAIN dirs[d] :
            dirs[d][n] = src => d = r.parent /\ n = r.name
      BY <1>1, SoleEntry
    <2> QED
      <3> TAKE d \in DOMAIN rest
      <3> TAKE n \in DOMAIN rest[d]
      <3>1. d \in DOMAIN dirs /\ n \in DOMAIN dirs[d]
        BY <1>9, <1>11
      <3> QED
        BY <1>10, <2>1, <3>1
  <1>13. \A d \in DOMAIN rest : \A n \in DOMAIN rest[d] : dirs[d][n] # dst
    <2>1. CASE dst = None
      BY <2>1, <1>1, <1>9, <1>11 DEF NameInv, EntriesResolve
    <2>2. CASE dst # None
      <3>1. \A d \in DOMAIN dirs : \A n \in DOMAIN dirs[d] :
              dirs[d][n] = dst => d = r.dst_parent /\ n = r.dst_name
        BY <1>1, <2>2, SoleEntry
      <3> QED
        <4> TAKE d \in DOMAIN rest
        <4> TAKE n \in DOMAIN rest[d]
        <4>1. d \in DOMAIN dirs /\ n \in DOMAIN dirs[d] /\ d \in DOMAIN cleared
          BY <1>6, <1>9, <1>11
        <4>2. n \in DOMAIN cleared[d]
          BY <1>10
        <4> QED
          BY Zenon, <1>8, <2>2, <3>1, <4>1, <4>2
    <2> QED
      BY <2>1, <2>2
  <1>14. \A d \in DOMAIN rest : \A n \in DOMAIN dirs[d] :
           n \in DOMAIN rest[d] <=> dirs[d][n] \notin {src, dst}
    BY <1>6, <1>8, <1>9, <1>10, <1>12, <1>13
  <1>15. CutOut(src, dst, rest, kept)
    BY <1>3, <1>9, <1>10, <1>11, <1>14 DEF CutOut
  <1> QED
    BY <1>15 DEF r, src, dst, rest, kept

(* A rename that fails half way loses a name, and invents none. *)
LEMMA RenameNoParentKeepsNames ==
  ASSUME NameInv, NEW c \in Clients, RenameNoParent(c)
  PROVE  NameInv'
  <1> DEFINE r == pending[c]
             src == EntryIn(r.parent, r.name)
             dst == EntryIn(r.dst_parent, r.dst_name)
  <1>1. Begin(c, "rename") /\ dirs' = SourceRemoved(r)
          /\ inodes' = InodesCleared(r) /\ UNCHANGED next_ino
    BY DEF RenameNoParent
  <1>2. pending' \in [Clients -> Request \cup {Idle}] /\ RenamesDiffer'
    BY Zenon, <1>1, AnswerKeeps DEF Begin
  <1>3. dst # Root
    BY <1>1, RenameEntries
  <1>4. CutOut(src, dst, dirs', inodes')
    BY <1>1, RenameRemoves
  <1> HIDE DEF r, src, dst
  <1>5. \A d \in DOMAIN dirs' : \A n \in DOMAIN dirs'[d] : dirs[d][n] \notin {dst}
    BY <1>4 DEF CutOut
  <1> QED
    BY Zenon, <1>1, <1>2, <1>3, <1>4, <1>5, Shrunk DEF CutOut

(* rename gives the source its new name in place of the old one. *)
LEMMA RenameKeepsNames ==
  ASSUME NameInv, NEW c \in Clients, rename(c)
  PROVE  NameInv'
  <1> DEFINE r == pending[c]
             src == EntryIn(r.parent, r.name)
             dst == EntryIn(r.dst_parent, r.dst_name)
             rest == SourceRemoved(r)
             kept == InodesCleared(r)
  <1>1. /\ Begin(c, "rename") /\ r.dst_parent \in DOMAIN rest
        /\ dirs' = [rest EXCEPT ![r.dst_parent] = With(@, r.dst_name, src)]
        /\ inodes' = Relinked(r) /\ UNCHANGED next_ino
    BY DEF rename
  <1>2. pending' \in [Clients -> Request \cup {Idle}] /\ RenamesDiffer'
    BY Zenon, <1>1, AnswerKeeps DEF Begin
  <1>3. /\ src \in DOMAIN inodes \ {Root} /\ dst # src
        /\ r.dst_parent \in Inos /\ r.dst_name \in Names
    BY <1>1, RenameEntries
  <1>4. /\ DOMAIN kept = DOMAIN inodes \ {dst}
        /\ kept \in [DOMAIN kept -> Inode]
        /\ \A i \in DOMAIN kept : kept[i].kind = inodes[i].kind
        /\ DOMAIN rest = DOMAIN dirs \ {dst}
        /\ rest = [d \in DOMAIN rest |-> rest[d]]
        /\ \A d \in DOMAIN rest :
             /\ DOMAIN rest[d] \subseteq DOMAIN dirs[d]
             /\ rest[d] = [n \in DOMAIN rest[d] |-> dirs[d][n]]
        /\ \A d \in DOMAIN rest : \A n \in DOMAIN rest[d] :
             dirs[d][n] \notin {src, dst}
    <2>1. CutOut(src, dst, rest, kept)
      BY <1>1, RenameRemoves
    <2> HIDE DEF src, dst, rest, kept
    <2> QED
      BY <2>1 DEF CutOut
  <1>5. /\ DOMAIN inodes' = DOMAIN inodes \ {dst}
        /\ inodes' \in [DOMAIN inodes' -> Inode]
        /\ \A i \in DOMAIN inodes' : inodes'[i].kind = inodes[i].kind
    <2> DEFINE fewer == LinkLess(kept, r.parent)
    <2>1. inodes' = kept \/ inodes' = LinkMore(fewer, r.dst_parent)
      BY <1>1 DEF Relinked
    <2> HIDE DEF r, kept
    <2>2. /\ DOMAIN fewer = DOMAIN kept /\ fewer \in [DOMAIN fewer -> Inode]
          /\ \A i \in DOMAIN kept : fewer[i].kind = kept[i].kind
      BY <1>4, LinkKeeps
    <2> HIDE DEF fewer
    <2> QED
      BY <1>4, <2>1, <2>2, LinkKeeps
  <1> HIDE DEF r, src, dst, rest, kept
  <1>6. /\ DOMAIN inodes \subseteq Inos /\ DOMAIN dirs \subseteq Inos
        /\ next_ino \in 2 .. MaxIno + 1
        /\ \A d \in DOMAIN dirs : /\ DOMAIN dirs[d] \subseteq Names
                                  /\ dirs[d] \in [DOMAIN dirs[d] -> Inos]
    BY DEF NameInv, TypeOK
  <1>7. /\ DOMAIN dirs = {i \in DOMAIN inodes : inodes[i].kind = "dir"}
        /\ \A d \in DOMAIN dirs : \A n \in DOMAIN dirs[d] :
             dirs[d][n] \in DOMAIN inodes \ {Root}
    BY DEF NameInv, EntriesResolve
  <1>8. /\ DOMAIN dirs' = DOMAIN rest
        /\ dirs' = [d \in DOMAIN dirs' |-> dirs'[d]]
        /\ \A d \in DOMAIN rest : d # r.dst_parent => dirs'[d] = rest[d]
        /\ dirs'[r.dst_parent] = With(rest[r.dst_parent], r.dst_name, src)
    BY Zenon, <1>1
  <1>9. /\ DOMAIN dirs'[r.dst_parent] = DOMAIN rest[r.dst_parent] \cup {r.dst_name}
        /\ dirs'[r.dst_parent] =
             [n \in DOMAIN dirs'[r.dst_parent] |-> dirs'[r.dst_parent][n]]
        /\ \A n \in DOMAIN dirs'[r.dst_parent] :
             dirs'[r.dst_parent][n] =
               IF n = r.dst_name THEN src ELSE rest[r.dst_parent][n]
    BY <1>8 DEF With
  <1>10. \A d \in DOMAIN dirs' : \A n \in DOMAIN dirs'[d] :
           \/ d = r.dst_parent /\ n = r.dst_name /\ dirs'[d][n] = src
           \/ /\ d \in DOMAIN dirs /\ n \in DOMAIN dirs[d]
              /\ dirs'[d][n] = dirs[d][n] /\ dirs[d][n] \notin {src, dst}
    <2> TAKE d \in DOMAIN dirs'
    <2> TAKE n \in DOMAIN dirs'[d]
    <2>1. CASE d = r.dst_parent /\ n = r.dst_name
      BY <1>9, <2>1
    <2>2. CASE ~(d = r.dst_parent /\ n = r.dst_name)
      <3>1. d \in DOMAIN rest /\ n \in DOMAIN rest[d] /\ dirs'[d][n] = rest[d][n]
        BY <1>8, <1>9, <2>2
      <3> QED
        BY <1>4, <3>1
    <2> QED
      BY <2>1, <2>2
  <1>11. TypeOK'
    <2>1. \A d \in DOMAIN dirs' : /\ DOMAIN dirs'[d] \subseteq Names
                                  /\ dirs'[d] \in [DOMAIN dirs'[d] -> Inos]
      <3> TAKE d \in DOMAIN dirs'
      <3>1. d \in DOMAIN rest /\ d \in DOMAIN dirs
        BY <1>4, <1>8
      <3>2. dirs'[d] = [n \in DOMAIN dirs'[d] |-> dirs'[d][n]]
        BY <1>4, <1>8, <1>9, <3>1
      <3>3. \A n \in DOMAIN dirs'[d] : n \in Names /\ dirs'[d][n] \in Inos
        BY <1>3, <1>6, <1>10
      <3> QED
        BY <3>2, <3>3
    <2> QED
      BY Zenon, <1>1, <1>2, <1>4, <1>5, <1>6, <1>8, <2>1 DEF TypeOK
  <1>12. EntriesResolve'
    <2>1. DOMAIN dirs' = {i \in DOMAIN inodes' : inodes'[i].kind = "dir"}
      BY <1>4, <1>5, <1>7, <1>8
    <2>2. \A d \in DOMAIN dirs' : \A n \in DOMAIN dirs'[d] :
            dirs'[d][n] \in DOMAIN inodes' \ {Root}
      BY <1>3, <1>5, <1>7, <1>10
    <2> QED
      BY <2>1, <2>2 DEF EntriesResolve
  <1>13. OneName'
    <2>1. \A d, e \in DOMAIN dirs : \A n \in DOMAIN dirs[d], m \in DOMAIN dirs[e] :
            dirs[d][n] = dirs[e][m] => d = e /\ n = m
      BY DEF NameInv, OneName
    <2>2. \A d, e \in DOMAIN dirs' : \A n \in DOMAIN dirs'[d], m \in DOMAIN dirs'[e] :
            dirs'[d][n] = dirs'[e][m] => d = e /\ n = m
      BY <1>10, <2>1
    <2>3. \A i \in DOMAIN inodes' : i < next_ino'
      BY <1>1, <1>5 DEF NameInv, OneName
    <2> QED
      BY <2>2, <2>3 DEF OneName
  <1> QED
    BY <1>2, <1>11, <1>12, <1>13 DEF NameInv
-----------------------------------------------------------------------------
(* Every step preserves NameInv. *)
LEMMA StepNames == NameInv /\ [Next]_vars => NameInv'
  <1> SUFFICES ASSUME NameInv, [Next]_vars PROVE NameInv'
    OBVIOUS
  <1>1. CASE UNCHANGED vars
    BY <1>1 DEF vars, NameInv, TypeOK, EntriesResolve, OneName, RenamesDiffer
  <1>2. CASE Next
    BY Zenon, <1>2, FormKeepsNames, RefusedKeepsNames, CreateKeepsNames, MkdirKeepsNames,
       UnlinkKeepsNames, RmdirKeepsNames, RenameKeepsNames,
       RenameNoParentKeepsNames DEF Next
  <1> QED
    BY <1>1, <1>2

(* The state of the meta server's namespace stays well typed. *)
THEOREM NamespaceTypes == Spec => []TypeOK
  <1>1. NameInv => TypeOK
    BY DEF NameInv
  <1> QED
    BY <1>1, InitNames, StepNames, PTL DEF Spec

(* However the requests of any number of mounts interleave, every entry of
   every directory leads to a live inode, and exactly the live directories
   have a table of entries. *)
THEOREM NamesResolve == Spec => []EntriesResolve
  <1>1. NameInv => EntriesResolve
    BY DEF NameInv
  <1> QED
    BY <1>1, InitNames, StepNames, PTL DEF Spec

(* No inode ever has two names, so the unlink of service.rs never frees an
   inode that another entry still leads to. *)
THEOREM NamesUnique == Spec => []OneName
  <1>1. NameInv => OneName
    BY DEF NameInv
  <1> QED
    BY <1>1, InitNames, StepNames, PTL DEF Spec
-----------------------------------------------------------------------------
(* The links inode i counts beyond those it has: a directory has its own two
   and one for each directory in it, a file has one. *)
Spare(i) ==
  inodes[i].nlink - (IF i \in DOMAIN dirs THEN 2 + Cardinality(SubDirs(i)) ELSE 1)

(* No count is short. *)
SpareLinks == \A i \in DOMAIN inodes : Spare(i) >= 0

(* A step that keeps every count as exact as it was. *)
KeepsSpare ==
  \A i \in DOMAIN inodes' : Spare(i)' = IF i \in DOMAIN inodes THEN Spare(i) ELSE 0

(* The entries of a directory lead to different inodes, so they are finitely
   many. *)
LEMMA SubDirsFinite ==
  ASSUME NameInv, NEW d \in DOMAIN dirs
  PROVE  IsFiniteSet(SubDirs(d)) /\ Cardinality(SubDirs(d)) \in Nat
  <1> DEFINE S == SubDirs(d)
             f == [n \in S |-> dirs[d][n]]
  <1>1. S \subseteq DOMAIN dirs[d]
    BY DEF SubDirs
  <1>2. \A n \in DOMAIN dirs[d] : dirs[d][n] \in Inos
    BY DEF NameInv, TypeOK
  <1>3. \A n, m \in DOMAIN dirs[d] : dirs[d][n] = dirs[d][m] => n = m
    BY DEF NameInv, OneName
  <1> HIDE DEF S
  <1>4. f \in [S -> Inos] /\ \A n, m \in S : f[n] = f[m] => n = m
    BY <1>1, <1>2, <1>3
  <1> HIDE DEF f
  <1>5. f \in Injection(S, Inos)
    BY <1>4 DEF Injection, IsInjective
  <1>6. IsFiniteSet(Inos)
    BY MaxInoAssumption, FS_Interval DEF Inos
  <1>7. IsFiniteSet(S)
    BY <1>5, <1>6, FS_Injection
  <1>8. Cardinality(S) \in Nat
    BY <1>7, FS_CardinalityType
  <1> QED
    BY <1>7, <1>8 DEF S

(* Every count is a number. *)
LEMMA SpareType ==
  ASSUME NameInv, NEW i \in DOMAIN inodes
  PROVE  /\ inodes[i].nlink \in Nat /\ Spare(i) \in Int
         /\ i \in DOMAIN dirs => Cardinality(SubDirs(i)) \in Nat
  <1>1. inodes[i].nlink \in Nat
    BY DEF NameInv, TypeOK, Inode
  <1>2. i \in DOMAIN dirs => Cardinality(SubDirs(i)) \in Nat
    BY SubDirsFinite
  <1> QED
    BY <1>1, <1>2 DEF Spare

(* One if b holds, else none. *)
Count(b) == IF b THEN 1 ELSE 0

(* S without x, and with x, if b holds. *)
Drop(S, b, x) == IF b THEN S \ {x} ELSE S
Put(S, b, x) == IF b THEN S \cup {x} ELSE S

(* What dropping and adding an element does to the size of a set. *)
LEMMA DropPut ==
  ASSUME NEW S, IsFiniteSet(S), NEW b \in BOOLEAN, NEW x
  PROVE  /\ IsFiniteSet(Drop(S, b, x)) /\ IsFiniteSet(Put(S, b, x))
         /\ Cardinality(Drop(S, b, x)) = Cardinality(S) - Count(b /\ x \in S)
         /\ (b => x \notin S) => Cardinality(Put(S, b, x)) = Cardinality(S) + Count(b)
         /\ Cardinality(S) \in Nat
  <1>1. Cardinality(S) \in Nat
    BY FS_CardinalityType
  <1>2. /\ IsFiniteSet(S \ {x})
        /\ Cardinality(S \ {x}) = IF x \in S THEN Cardinality(S)-1 ELSE Cardinality(S)
    BY FS_RemoveElement
  <1>3. /\ IsFiniteSet(S \cup {x})
        /\ Cardinality(S \cup {x}) = IF x \in S THEN Cardinality(S) ELSE Cardinality(S)+1
    BY FS_AddElement
  <1>4. CASE b
    BY <1>1, <1>2, <1>3, <1>4 DEF Drop, Put, Count
  <1>5. CASE ~b
    BY <1>1, <1>5 DEF Drop, Put, Count
  <1> QED
    BY <1>4, <1>5

(* A directory that is there before and after keeps its spare links when nlink
   follows the number of its subdirectories. *)
LEMMA Recount ==
  ASSUME NameInv, NEW d \in DOMAIN dirs, d \in DOMAIN dirs',
         NEW b1 \in BOOLEAN, NEW n1, NEW b2 \in BOOLEAN, NEW n2,
         NEW b3 \in BOOLEAN, NEW n3, b3 => n3 \notin Drop(Drop(SubDirs(d), b1, n1), b2, n2),
         SubDirs(d)' = Put(Drop(Drop(SubDirs(d), b1, n1), b2, n2), b3, n3),
         inodes'[d].nlink = inodes[d].nlink
           - Count(b1 /\ n1 \in SubDirs(d))
           - Count(b2 /\ n2 \in Drop(SubDirs(d), b1, n1)) + Count(b3)
  PROVE  Spare(d)' = Spare(d)
  <1> DEFINE S == SubDirs(d)
             T == Drop(S, b1, n1)
             U == Drop(T, b2, n2)
  <1>1. IsFiniteSet(S)
    BY SubDirsFinite
  <1>2. d \in DOMAIN inodes /\ inodes[d].nlink \in Nat
    BY SpareType DEF NameInv, EntriesResolve
  <1>3. SubDirs(d)' = Put(U, b3, n3) /\ (b3 => n3 \notin U)
    OBVIOUS
  <1> HIDE DEF S
  <1>4. /\ IsFiniteSet(T) /\ Cardinality(T) = Cardinality(S) - Count(b1 /\ n1 \in S)
        /\ Cardinality(S) \in Nat
    BY <1>1, DropPut
  <1> HIDE DEF T
  <1>5. /\ IsFiniteSet(U) /\ Cardinality(U) = Cardinality(T) - Count(b2 /\ n2 \in T)
        /\ Cardinality(T) \in Nat
    BY <1>4, DropPut
  <1> HIDE DEF U
  <1>6. Cardinality(SubDirs(d)') = Cardinality(U) + Count(b3) /\ Cardinality(U) \in Nat
    BY <1>3, <1>5, DropPut
  <1>7. inodes'[d].nlink = inodes[d].nlink
          - Count(b1 /\ n1 \in S) - Count(b2 /\ n2 \in T) + Count(b3)
    BY DEF S, T
  <1>8. /\ Count(b1 /\ n1 \in S) \in Nat /\ Count(b2 /\ n2 \in T) \in Nat
        /\ Count(b3) \in Nat
    BY DEF Count
  <1>9. Spare(d) = inodes[d].nlink - (2 + Cardinality(S))
    BY DEF Spare, S
  <1>10. Spare(d)' = inodes'[d].nlink - (2 + Cardinality(SubDirs(d)'))
    BY Zenon DEF Spare
  <1> HIDE DEF S
  <1> QED
    BY <1>2, <1>4, <1>5, <1>6, <1>7, <1>8, <1>9, <1>10

(* A subdirectory more, and a link more. *)
LEMMA OneMore ==
  ASSUME NameInv, NEW d \in DOMAIN dirs, d \in DOMAIN dirs',
         NEW n, n \notin SubDirs(d), SubDirs(d)' = SubDirs(d) \cup {n},
         inodes'[d].nlink = inodes[d].nlink + 1
  PROVE  Spare(d)' = Spare(d)
  <1> DEFINE S == SubDirs(d)
             no == FALSE
             yes == TRUE
  <1>1. Drop(S, no, n) = S /\ Put(S, yes, n) = S \cup {n}
    BY DEF Drop, Put
  <1>2. /\ Count(no /\ n \in S) = 0 /\ Count(yes) = 1
        /\ no \in BOOLEAN /\ yes \in BOOLEAN
    BY DEF Count
  <1>3. inodes[d].nlink \in Nat
    BY SpareType DEF NameInv, EntriesResolve
  <1> HIDE DEF no, yes
  <1>4. /\ inodes'[d].nlink = inodes[d].nlink
             - Count(no /\ n \in S) - Count(no /\ n \in Drop(S, no, n)) + Count(yes)
        /\ SubDirs(d)' = Put(Drop(Drop(S, no, n), no, n), yes, n)
        /\ n \notin Drop(Drop(S, no, n), no, n)
    BY <1>1, <1>2, <1>3
  <1> QED
    BY <1>2, <1>4, Recount

(* A subdirectory fewer, and a link fewer. *)
LEMMA OneFewer ==
  ASSUME NameInv, NEW d \in DOMAIN dirs, d \in DOMAIN dirs',
         NEW n \in SubDirs(d), SubDirs(d)' = SubDirs(d) \ {n},
         inodes'[d].nlink = inodes[d].nlink - 1
  PROVE  Spare(d)' = Spare(d)
  <1> DEFINE S == SubDirs(d)
             no == FALSE
             yes == TRUE
  <1>1. /\ Drop(S, yes, n) = S \ {n} /\ Drop(S \ {n}, no, n) = S \ {n}
        /\ Put(S \ {n}, no, n) = S \ {n}
    BY DEF Drop, Put
  <1>2. /\ Count(no /\ n \in S \ {n}) = 0 /\ Count(yes /\ n \in S) = 1 /\ Count(no) = 0
        /\ no \in BOOLEAN /\ yes \in BOOLEAN
    BY DEF Count
  <1>3. inodes[d].nlink \in Nat
    BY SpareType DEF NameInv, EntriesResolve
  <1> HIDE DEF no, yes
  <1>4. inodes'[d].nlink = inodes[d].nlink
          - Count(yes /\ n \in S) - Count(no /\ n \in S \ {n}) + Count(no)
    BY <1>2, <1>3
  <1>5. /\ SubDirs(d)' = Put(Drop(Drop(S, yes, n), no, n), no, n)
        /\ n \notin Drop(Drop(S, yes, n), no, n)
    BY <1>1
  <1> QED
    BY Zenon, <1>1, <1>2, <1>4, <1>5, Recount
-----------------------------------------------------------------------------
(* The subdirectories are the entries that lead to a table. *)
SubDirsLead ==
  \A d \in DOMAIN dirs :
    SubDirs(d) = {n \in DOMAIN dirs[d] : dirs[d][n] \in DOMAIN dirs}

(* They are, where exactly the directories have a table. *)
LEMMA SubDirsByTable == NameInv => SubDirsLead
  BY DEF NameInv, EntriesResolve, SubDirs, IsDir, SubDirsLead

(* A file counts one link more than it spares. *)
LEMMA FileSpare ==
  ASSUME NEW i, i \in DOMAIN inodes, i \in DOMAIN inodes',
         i \notin DOMAIN dirs, i \notin DOMAIN dirs',
         inodes'[i].nlink = inodes[i].nlink
  PROVE  Spare(i)' = Spare(i)
  BY DEF Spare

(* A directory nothing has happened to spares what it did. *)
LEMMA SameSpare ==
  ASSUME NEW d, d \in DOMAIN dirs, d \in DOMAIN dirs',
         SubDirs(d)' = SubDirs(d), inodes'[d].nlink = inodes[d].nlink
  PROVE  Spare(d)' = Spare(d)
  BY DEF Spare

(* A new directory has two links, a new file has one, and neither spares any. *)
LEMMA NewSpare ==
  ASSUME NEW i,
         \/ i \notin DOMAIN dirs' /\ inodes'[i].nlink = 1
         \/ i \in DOMAIN dirs' /\ inodes'[i].nlink = 2 /\ SubDirs(i)' = {}
  PROVE  Spare(i)' = 0
  <1>1. CASE i \notin DOMAIN dirs' /\ inodes'[i].nlink = 1
    BY <1>1 DEF Spare
  <1>2. CASE i \in DOMAIN dirs' /\ inodes'[i].nlink = 2 /\ SubDirs(i)' = {}
    <2>1. Cardinality(SubDirs(i)') = 0
      BY <1>2, FS_EmptySet
    <2>2. Spare(i)' = inodes'[i].nlink - (2 + Cardinality(SubDirs(i)'))
      BY Zenon, <1>2 DEF Spare
    <2> QED
      BY <1>2, <2>1, <2>2
  <1> QED
    BY <1>1, <1>2

(* What create changes: an entry in the parent and a new inode. *)
LEMMA CreateEffect ==
  ASSUME NameInv, NEW c \in Clients, create(c)
  PROVE  LET r == pending[c] IN
         /\ r.parent \in DOMAIN dirs /\ r.name \notin DOMAIN dirs[r.parent]
         /\ next_ino \notin DOMAIN inodes /\ next_ino \notin DOMAIN dirs
         /\ DOMAIN inodes' = DOMAIN inodes \cup {next_ino}
         /\ \A i \in DOMAIN inodes : inodes'[i] = inodes[i]
         /\ inodes'[next_ino].nlink = 1
         /\ DOMAIN dirs' = DOMAIN dirs
         /\ \A d \in DOMAIN dirs : d # r.parent => dirs'[d] = dirs[d]
         /\ dirs'[r.parent] = With(dirs[r.parent], r.name, next_ino)
  <1> DEFINE r == pending[c]
  <1>1. Begin(c, "create") /\ next_ino <= MaxIno
    BY DEF create
  <1>2. r.parent \in DOMAIN dirs /\ r.name \notin DOMAIN dirs[r.parent]
    BY <1>1 DEF Begin, Accepted, CanAdd
  <1>3. /\ inodes' = With(inodes, next_ino, [kind |-> "file", nlink |-> 1])
        /\ dirs' = [dirs EXCEPT ![r.parent] = With(@, r.name, next_ino)]
    BY DEF create
  <1>4. next_ino \notin DOMAIN inodes /\ next_ino \notin DOMAIN dirs
    BY <1>1, FreshIno
  <1>5. /\ DOMAIN inodes' = DOMAIN inodes \cup {next_ino}
        /\ \A i \in DOMAIN inodes : inodes'[i] = inodes[i]
        /\ inodes'[next_ino].nlink = 1
    BY <1>3, <1>4 DEF With
  <1>6. /\ DOMAIN dirs' = DOMAIN dirs
        /\ \A d \in DOMAIN dirs : d # r.parent => dirs'[d] = dirs[d]
        /\ dirs'[r.parent] = With(dirs[r.parent], r.name, next_ino)
    BY <1>2, <1>3
  <1> QED
    BY <1>2, <1>4, <1>5, <1>6

(* create adds a file: no directory has a subdirectory more. *)
LEMMA CreateKeepsSpare ==
  ASSUME NameInv, NameInv', NEW c \in Clients, create(c)
  PROVE  KeepsSpare
  <1> DEFINE r == pending[c]
  <1>1. r.parent \in DOMAIN dirs /\ r.name \notin DOMAIN dirs[r.parent]
    BY CreateEffect
  <1>2. next_ino \notin DOMAIN inodes /\ next_ino \notin DOMAIN dirs
    BY CreateEffect
  <1>3. SubDirsLead /\ SubDirsLead'
    BY SubDirsByTable, PTL
  <1>4. /\ DOMAIN inodes' = DOMAIN inodes \cup {next_ino}
        /\ \A i \in DOMAIN inodes : inodes'[i] = inodes[i]
        /\ inodes'[next_ino].nlink = 1
    BY CreateEffect
  <1>5. /\ DOMAIN dirs' = DOMAIN dirs
        /\ \A d \in DOMAIN dirs : d # r.parent => dirs'[d] = dirs[d]
        /\ dirs'[r.parent] = With(dirs[r.parent], r.name, next_ino)
    BY CreateEffect
  <1> HIDE DEF r
  <1>6. \A d \in DOMAIN dirs : SubDirs(d)' = SubDirs(d)
    <2> TAKE d \in DOMAIN dirs
    <2>1. /\ SubDirs(d) = {n \in DOMAIN dirs[d] : dirs[d][n] \in DOMAIN dirs}
          /\ SubDirs(d)' = {n \in DOMAIN dirs'[d] : dirs'[d][n] \in DOMAIN dirs'}
      BY <1>3, <1>5 DEF SubDirsLead
    <2> QED
      BY <1>1, <1>2, <1>5, <2>1 DEF With
  <1>7. \A i \in DOMAIN inodes : Spare(i)' = Spare(i)
    <2> TAKE i \in DOMAIN inodes
    <2>1. CASE i \in DOMAIN dirs
      BY <1>4, <1>5, <1>6, <2>1, SameSpare
    <2>2. CASE i \notin DOMAIN dirs
      BY <1>4, <1>5, <2>2, FileSpare
    <2> QED
      BY <2>1, <2>2
  <1>8. \A i \in DOMAIN inodes' : i = next_ino => Spare(i)' = 0
    BY <1>2, <1>4, <1>5, NewSpare
  <1> QED
    BY <1>2, <1>4, <1>7, <1>8 DEF KeepsSpare

(* What mkdir changes: an entry and a link in the parent, and a new directory. *)
LEMMA MkdirEffect ==
  ASSUME NameInv, NEW c \in Clients, mkdir(c)
  PROVE  LET r == pending[c] IN
         /\ r.parent \in DOMAIN dirs /\ r.name \notin DOMAIN dirs[r.parent]
         /\ next_ino \notin DOMAIN inodes /\ next_ino \notin DOMAIN dirs
         /\ DOMAIN inodes' = DOMAIN inodes \cup {next_ino}
         /\ \A i \in DOMAIN inodes : i # r.parent => inodes'[i] = inodes[i]
         /\ inodes'[r.parent].nlink = inodes[r.parent].nlink + 1
         /\ inodes'[next_ino].nlink = 2
         /\ DOMAIN dirs' = DOMAIN dirs \cup {next_ino}
         /\ \A d \in DOMAIN dirs : d # r.parent => dirs'[d] = dirs[d]
         /\ dirs'[r.parent] = With(dirs[r.parent], r.name, next_ino)
         /\ DOMAIN dirs'[next_ino] = {}
  <1> DEFINE r == pending[c]
             made == With(inodes, next_ino, [kind |-> "dir", nlink |-> 2])
             base == With(dirs, next_ino, [n \in {} |-> Root])
  <1>1. Begin(c, "mkdir") /\ next_ino <= MaxIno
    BY DEF mkdir
  <1>2. r.parent \in DOMAIN dirs /\ r.name \notin DOMAIN dirs[r.parent]
    BY <1>1 DEF Begin, Accepted, CanAdd
  <1>3. /\ inodes' = LinkMore(made, r.parent)
        /\ dirs' = [base EXCEPT ![r.parent] = With(@, r.name, next_ino)]
    BY DEF mkdir
  <1>4. next_ino \notin DOMAIN inodes /\ next_ino \notin DOMAIN dirs
    BY <1>1, FreshIno
  <1>5. DOMAIN dirs \subseteq DOMAIN inodes /\ inodes \in [DOMAIN inodes -> Inode]
    BY DEF NameInv, TypeOK, EntriesResolve
  <1>6. /\ DOMAIN made = DOMAIN inodes \cup {next_ino}
        /\ \A i \in DOMAIN inodes : made[i] = inodes[i]
        /\ made[next_ino] = [kind |-> "dir", nlink |-> 2]
        /\ made = [i \in DOMAIN made |-> made[i]]
    BY <1>4 DEF With
  <1>7. /\ DOMAIN base = DOMAIN dirs \cup {next_ino}
        /\ \A d \in DOMAIN dirs : base[d] = dirs[d]
        /\ base[next_ino] = [n \in {} |-> Root]
    BY <1>4 DEF With
  <1> HIDE DEF made, base
  <1>8. /\ DOMAIN inodes' = DOMAIN inodes \cup {next_ino}
        /\ \A i \in DOMAIN inodes : i # r.parent => inodes'[i] = inodes[i]
        /\ inodes'[r.parent].nlink = inodes[r.parent].nlink + 1
        /\ inodes'[next_ino].nlink = 2
    BY <1>2, <1>3, <1>4, <1>5, <1>6 DEF LinkMore, Inode
  <1>9. /\ DOMAIN dirs' = DOMAIN dirs \cup {next_ino}
        /\ \A d \in DOMAIN dirs : d # r.parent => dirs'[d] = dirs[d]
        /\ dirs'[r.parent] = With(dirs[r.parent], r.name, next_ino)
        /\ DOMAIN dirs'[next_ino] = {}
    BY <1>2, <1>3, <1>4, <1>7
  <1> QED
    BY <1>2, <1>4, <1>8, <1>9

(* mkdir adds a directory to its parent, and a link. *)
LEMMA MkdirKeepsSpare ==
  ASSUME NameInv, NameInv', NEW c \in Clients, mkdir(c)
  PROVE  KeepsSpare
  <1> DEFINE r == pending[c]
  <1>1. r.parent \in DOMAIN dirs /\ r.name \notin DOMAIN dirs[r.parent]
    BY MkdirEffect
  <1>2. next_ino \notin DOMAIN inodes /\ next_ino \notin DOMAIN dirs
    BY MkdirEffect
  <1>3. SubDirsLead /\ SubDirsLead'
    BY SubDirsByTable, PTL
  <1>4. /\ DOMAIN dirs \subseteq DOMAIN inodes
        /\ inodes \in [DOMAIN inodes -> Inode]
        /\ \A d \in DOMAIN dirs : \A n \in DOMAIN dirs[d] : dirs[d][n] # next_ino
    BY <1>2 DEF NameInv, TypeOK, EntriesResolve
  <1>5. /\ DOMAIN inodes' = DOMAIN inodes \cup {next_ino}
        /\ \A i \in DOMAIN inodes : i # r.parent => inodes'[i] = inodes[i]
        /\ inodes'[r.parent].nlink = inodes[r.parent].nlink + 1
        /\ inodes'[next_ino].nlink = 2
    BY ZenonT(30), MkdirEffect
  <1>6. /\ DOMAIN dirs' = DOMAIN dirs \cup {next_ino}
        /\ \A d \in DOMAIN dirs : d # r.parent => dirs'[d] = dirs[d]
        /\ dirs'[r.parent] = With(dirs[r.parent], r.name, next_ino)
        /\ DOMAIN dirs'[next_ino] = {}
    BY Zenon, MkdirEffect
  <1> HIDE DEF r
  <1>7. \A d \in DOMAIN dirs :
          /\ SubDirs(d) = {n \in DOMAIN dirs[d] : dirs[d][n] \in DOMAIN dirs}
          /\ SubDirs(d)' = {n \in DOMAIN dirs'[d] : dirs'[d][n] \in DOMAIN dirs'}
    BY <1>3, <1>6 DEF SubDirsLead
  <1>8. \A i \in DOMAIN dirs' : i = next_ino => SubDirs(i)' = {}
    BY <1>3, <1>6 DEF SubDirsLead
  <1>9. \A d \in DOMAIN dirs : d # r.parent => Spare(d)' = Spare(d)
    <2> TAKE d \in DOMAIN dirs
    <2>1. d # r.parent => SubDirs(d)' = SubDirs(d)
      <3> SUFFICES ASSUME d # r.parent PROVE SubDirs(d)' = SubDirs(d)
        OBVIOUS
      <3>1. dirs'[d] = dirs[d]
        BY <1>6
      <3>2. \A n \in DOMAIN dirs[d] : dirs[d][n] \in DOMAIN dirs' <=> dirs[d][n] \in DOMAIN dirs
        BY <1>4, <1>6
      <3> QED
        BY Zenon, <1>7, <3>1, <3>2
    <2> QED
      BY <1>4, <1>5, <1>6, <2>1, SameSpare
  <1>10. \A d \in DOMAIN dirs : d = r.parent => Spare(d)' = Spare(d)
    <2> SUFFICES ASSUME NEW d \in DOMAIN dirs, d = r.parent
                 PROVE  Spare(d)' = Spare(d)
      OBVIOUS
    <2> DEFINE n == r.name
               S == SubDirs(d)
    <2>1. SubDirs(d)' = S \cup {n} /\ n \notin S
      BY <1>1, <1>4, <1>6, <1>7 DEF With
    <2>2. inodes[d].nlink \in Nat /\ inodes'[d].nlink = inodes[d].nlink + 1
      BY <1>4, <1>5 DEF Inode
    <2>3. d \in DOMAIN dirs'
      BY <1>6
    <2> HIDE DEF n
    <2> QED
      BY <2>1, <2>2, <2>3, OneMore
  <1>11. \A i \in DOMAIN inodes : i \notin DOMAIN dirs => Spare(i)' = Spare(i)
    BY <1>1, <1>2, <1>5, <1>6, FileSpare
  <1>12. \A i \in DOMAIN inodes' : i = next_ino => Spare(i)' = 0
    BY <1>5, <1>6, <1>8, NewSpare
  <1> QED
    BY <1>1, <1>2, <1>5, <1>9, <1>10, <1>11, <1>12 DEF KeepsSpare

(* A directory counts its own two links at least. *)
LEMMA DirLinks ==
  ASSUME NameInv, SpareLinks, NEW d \in DOMAIN dirs
  PROVE  d \in DOMAIN inodes /\ inodes[d].nlink \in Nat /\ inodes[d].nlink >= 2
  <1>1. d \in DOMAIN inodes
    BY DEF NameInv, EntriesResolve
  <1>2. inodes[d].nlink \in Nat /\ Cardinality(SubDirs(d)) \in Nat
    BY <1>1, SpareType
  <1> QED
    BY <1>1, <1>2 DEF SpareLinks, Spare

(* What unlink changes: the entry and the file are gone. *)
LEMMA UnlinkEffect ==
  ASSUME NameInv, NEW c \in Clients, unlink(c)
  PROVE  LET r == pending[c]
             child == EntryIn(r.parent, r.name)
         IN
         /\ r.parent \in DOMAIN dirs /\ r.name \in DOMAIN dirs[r.parent]
         /\ child = dirs[r.parent][r.name]
         /\ child \notin DOMAIN dirs
         /\ DOMAIN inodes' = DOMAIN inodes \ {child}
         /\ \A i \in DOMAIN inodes' : inodes'[i] = inodes[i]
         /\ DOMAIN dirs' = DOMAIN dirs
         /\ \A d \in DOMAIN dirs : d # r.parent => dirs'[d] = dirs[d]
         /\ dirs'[r.parent] = Without(dirs[r.parent], r.name)
  <1> DEFINE r == pending[c]
             child == EntryIn(r.parent, r.name)
  <1>1. CanUnlink(r)
    BY DEF unlink, Begin, Accepted
  <1>2. /\ inodes' = Without(inodes, child)
        /\ dirs' = [dirs EXCEPT ![r.parent] = Without(@, r.name)]
    BY DEF unlink
  <1>3. child # None
    BY <1>1 DEF CanUnlink, NameInv, TypeOK, Inos, None
  <1>4. /\ r.parent \in DOMAIN dirs /\ r.name \in DOMAIN dirs[r.parent]
        /\ child = dirs[r.parent][r.name]
    BY <1>3, EntryFound
  <1>5. child \notin DOMAIN dirs
    BY <1>1 DEF CanUnlink, NameInv, EntriesResolve
  <1>6. /\ DOMAIN inodes' = DOMAIN inodes \ {child}
        /\ \A i \in DOMAIN inodes' : inodes'[i] = inodes[i]
    BY <1>2 DEF Without
  <1>7. /\ DOMAIN dirs' = DOMAIN dirs
        /\ \A d \in DOMAIN dirs : d # r.parent => dirs'[d] = dirs[d]
        /\ dirs'[r.parent] = Without(dirs[r.parent], r.name)
    BY <1>2, <1>4
  <1> QED
    BY <1>4, <1>5, <1>6, <1>7

(* unlink takes away a file: no directory has a subdirectory fewer. *)
LEMMA UnlinkKeepsSpare ==
  ASSUME NameInv, NameInv', NEW c \in Clients, unlink(c)
  PROVE  KeepsSpare
  <1> DEFINE r == pending[c]
             child == EntryIn(r.parent, r.name)
  <1>1. /\ r.parent \in DOMAIN dirs /\ r.name \in DOMAIN dirs[r.parent]
        /\ child = dirs[r.parent][r.name]
    BY Zenon, UnlinkEffect
  <1>2. child \notin DOMAIN dirs
    BY Zenon, UnlinkEffect
  <1>3. SubDirsLead /\ SubDirsLead'
    BY SubDirsByTable, PTL
  <1>4. /\ DOMAIN inodes' = DOMAIN inodes \ {child}
        /\ \A i \in DOMAIN inodes' : inodes'[i] = inodes[i]
    BY UnlinkEffect
  <1>5. /\ DOMAIN dirs' = DOMAIN dirs
        /\ \A d \in DOMAIN dirs : d # r.parent => dirs'[d] = dirs[d]
        /\ dirs'[r.parent] = Without(dirs[r.parent], r.name)
    BY Zenon, UnlinkEffect
  <1> HIDE DEF r, child
  <1>6. \A d \in DOMAIN dirs : SubDirs(d)' = SubDirs(d)
    <2> TAKE d \in DOMAIN dirs
    <2>1. /\ SubDirs(d) = {n \in DOMAIN dirs[d] : dirs[d][n] \in DOMAIN dirs}
          /\ SubDirs(d)' = {n \in DOMAIN dirs'[d] : dirs'[d][n] \in DOMAIN dirs'}
      BY <1>3, <1>5 DEF SubDirsLead
    <2> QED
      BY <1>1, <1>2, <1>5, <2>1 DEF Without
  <1>7. DOMAIN dirs \subseteq DOMAIN inodes
    BY DEF NameInv, EntriesResolve
  <1>8. \A i \in DOMAIN inodes' : Spare(i)' = Spare(i)
    <2> TAKE i \in DOMAIN inodes'
    <2>1. CASE i \in DOMAIN dirs
      BY <1>4, <1>5, <1>6, <2>1, SameSpare
    <2>2. CASE i \notin DOMAIN dirs
      BY ZenonT(30), <1>4, <1>5, <2>2, FileSpare
    <2> QED
      BY <2>1, <2>2
  <1> QED
    BY <1>4, <1>8 DEF KeepsSpare

(* What rmdir changes: the entry and the empty directory are gone. *)
LEMMA RmdirEffect ==
  ASSUME NameInv, NEW c \in Clients, rmdir(c)
  PROVE  LET r == pending[c]
             child == EntryIn(r.parent, r.name)
         IN
         /\ r.parent \in DOMAIN dirs /\ r.name \in DOMAIN dirs[r.parent]
         /\ child = dirs[r.parent][r.name] /\ r.parent # child
         /\ child \in DOMAIN dirs /\ DOMAIN dirs[child] = {}
         /\ inodes' = LinkLess(Without(inodes, child), r.parent)
         /\ DOMAIN inodes' = DOMAIN inodes \ {child}
         /\ DOMAIN dirs' = DOMAIN dirs \ {child}
         /\ \A d \in DOMAIN dirs' : d # r.parent => dirs'[d] = dirs[d]
         /\ dirs'[r.parent] = Without(dirs[r.parent], r.name)
  <1> DEFINE r == pending[c]
             child == EntryIn(r.parent, r.name)
             table == Without(dirs, child)
  <1>1. CanRmdir(r)
    BY DEF rmdir, Begin, Accepted
  <1>2. /\ inodes' = LinkLess(Without(inodes, child), r.parent)
        /\ dirs' = [table EXCEPT ![r.parent] = Without(@, r.name)]
    BY DEF rmdir
  <1>3. child \in DOMAIN dirs /\ DOMAIN dirs[child] = {} /\ child # None
    BY <1>1 DEF CanRmdir, NameInv, TypeOK, Inos, None
  <1>4. /\ r.parent \in DOMAIN dirs /\ r.name \in DOMAIN dirs[r.parent]
        /\ child = dirs[r.parent][r.name] /\ r.parent # child
    BY <1>3, EntryFound
  <1>5. /\ DOMAIN table = DOMAIN dirs \ {child}
        /\ \A d \in DOMAIN table : table[d] = dirs[d]
    BY DEF Without
  <1> HIDE DEF table
  <1>6. DOMAIN inodes' = DOMAIN inodes \ {child}
    BY <1>2 DEF LinkLess, Without
  <1>7. /\ DOMAIN dirs' = DOMAIN dirs \ {child}
        /\ \A d \in DOMAIN dirs' : d # r.parent => dirs'[d] = dirs[d]
        /\ dirs'[r.parent] = Without(dirs[r.parent], r.name)
    BY <1>2, <1>4, <1>5
  <1> QED
    BY <1>2, <1>3, <1>4, <1>6, <1>7

(* rmdir takes a directory from its parent, and a link. *)
LEMMA RmdirKeepsSpare ==
  ASSUME NameInv, NameInv', SpareLinks, NEW c \in Clients, rmdir(c)
  PROVE  KeepsSpare
  <1> DEFINE r == pending[c]
             child == EntryIn(r.parent, r.name)
             left == Without(inodes, child)
  <1>1. child \in DOMAIN dirs
    BY Zenon, RmdirEffect
  <1>2. /\ r.parent \in DOMAIN dirs /\ r.name \in DOMAIN dirs[r.parent]
        /\ child = dirs[r.parent][r.name] /\ r.parent # child
    BY Zenon, RmdirEffect
  <1>3. SubDirsLead /\ SubDirsLead'
    BY SubDirsByTable, PTL
  <1>4. DOMAIN dirs \subseteq DOMAIN inodes /\ inodes \in [DOMAIN inodes -> Inode]
    BY DEF NameInv, TypeOK, EntriesResolve
  <1>5. \A d \in DOMAIN dirs : \A n \in DOMAIN dirs[d] :
          dirs[d][n] = child => d = r.parent /\ n = r.name
    BY <1>2, SoleEntry
  <1>6. inodes[r.parent].nlink \in Nat /\ inodes[r.parent].nlink >= 2
    BY <1>2, DirLinks
  <1>7. inodes' = LinkLess(left, r.parent)
    BY Zenon, RmdirEffect
  <1>8. /\ DOMAIN dirs' = DOMAIN dirs \ {child}
        /\ \A d \in DOMAIN dirs' : d # r.parent => dirs'[d] = dirs[d]
        /\ dirs'[r.parent] = Without(dirs[r.parent], r.name)
    BY Zenon, RmdirEffect
  <1> HIDE DEF r, child
  <1>9. /\ DOMAIN inodes' = DOMAIN inodes \ {child}
        /\ \A i \in DOMAIN inodes' : i # r.parent => inodes'[i] = inodes[i]
        /\ inodes'[r.parent].nlink = inodes[r.parent].nlink - 1
    <2>1. /\ DOMAIN left = DOMAIN inodes \ {child}
          /\ \A i \in DOMAIN left : left[i] = inodes[i]
          /\ left = [i \in DOMAIN left |-> left[i]]
      BY DEF Without
    <2> HIDE DEF left
    <2>2. r.parent \in DOMAIN left /\ left[r.parent] \in Inode
      BY <1>2, <1>4, <2>1
    <2>3. inodes' = [left EXCEPT ![r.parent].nlink = Less1(@)]
      BY <1>7, <2>2 DEF LinkLess
    <2> QED
      BY <1>2, <1>4, <1>6, <2>1, <2>2, <2>3 DEF Less1, Inode
  <1>10. \A d \in DOMAIN dirs' :
           /\ SubDirs(d) = {n \in DOMAIN dirs[d] : dirs[d][n] \in DOMAIN dirs}
           /\ SubDirs(d)' = {n \in DOMAIN dirs'[d] : dirs'[d][n] \in DOMAIN dirs'}
    BY <1>3, <1>8 DEF SubDirsLead
  <1>11. \A d \in DOMAIN dirs' : d # r.parent => Spare(d)' = Spare(d)
    <2> SUFFICES ASSUME NEW d \in DOMAIN dirs', d # r.parent
                 PROVE  Spare(d)' = Spare(d)
      OBVIOUS
    <2>1. d \in DOMAIN dirs /\ dirs'[d] = dirs[d] /\ d \in DOMAIN inodes'
      BY <1>4, <1>9, <1>8
    <2>2. \A n \in DOMAIN dirs[d] : dirs[d][n] \in DOMAIN dirs' <=> dirs[d][n] \in DOMAIN dirs
      BY <1>5, <1>8, <2>1
    <2>3. SubDirs(d)' = SubDirs(d)
      BY Zenon, <1>10, <2>1, <2>2
    <2> QED
      BY <1>9, <2>1, <2>3, SameSpare
  <1>12. \A d \in DOMAIN dirs' : d = r.parent => Spare(d)' = Spare(d)
    <2> SUFFICES ASSUME NEW d \in DOMAIN dirs', d = r.parent
                 PROVE  Spare(d)' = Spare(d)
      OBVIOUS
    <2>1. SubDirs(d)' = SubDirs(d) \ {r.name} /\ r.name \in SubDirs(d)
      BY <1>1, <1>2, <1>5, <1>8, <1>10 DEF Without
    <2>2. inodes'[d].nlink = inodes[d].nlink - 1 /\ d \in DOMAIN dirs
      BY <1>2, <1>9
    <2> QED
      BY <2>1, <2>2, OneFewer
  <1>13. \A i \in DOMAIN inodes' : i \notin DOMAIN dirs' => Spare(i)' = Spare(i)
    BY <1>2, <1>9, <1>8, FileSpare
  <1> QED
    BY <1>9, <1>11, <1>12, <1>13 DEF KeepsSpare

(* Clearing the destination takes a link from its directory if it was a
   directory itself. *)
LEMMA ClearedLinks ==
  ASSUME NameInv, SpareLinks, NEW c \in Clients, Begin(c, "rename"),
         NEW r, r = pending[c],
         NEW dst, dst = EntryIn(r.dst_parent, r.dst_name)
  PROVE  \A i \in DOMAIN inodes \ {dst} :
           InodesCleared(r)[i].nlink =
             inodes[i].nlink - Count(i = r.dst_parent /\ dst \in DOMAIN dirs)
  <1>1. /\ dst # None => /\ r.dst_parent \in DOMAIN dirs
                         /\ dst \in DOMAIN dirs <=> IsDir(dst)
        /\ dst = None => dst \notin DOMAIN dirs
    BY RenameEntries
  <1>2. inodes \in [DOMAIN inodes -> Inode]
    BY DEF NameInv, TypeOK
  <1>3. \A i \in DOMAIN inodes : inodes[i].nlink \in Nat /\ inodes[i].nlink - 0 = inodes[i].nlink
    BY <1>2 DEF Inode
  <1>4. CASE dst = None
    BY <1>1, <1>3, <1>4 DEF InodesCleared, Count
  <1>5. CASE dst # None /\ ~IsDir(dst)
    <2>1. InodesCleared(r) = Without(inodes, dst)
      BY <1>5 DEF InodesCleared
    <2>2. dst \notin DOMAIN dirs
      BY Zenon, <1>1, <1>5
    <2>3. \A i : Count(i = r.dst_parent /\ dst \in DOMAIN dirs) = 0
      BY <2>2 DEF Count
    <2> QED
      BY Zenon, <1>3, <2>1, <2>3 DEF Without
  <1>6. CASE dst # None /\ IsDir(dst)
    <2> DEFINE ns == LinkLess(inodes, r.dst_parent)
    <2>1. /\ r.dst_parent \in DOMAIN inodes /\ inodes[r.dst_parent].nlink \in Nat
          /\ inodes[r.dst_parent].nlink >= 2
      BY <1>1, <1>6, DirLinks
    <2>2. ns = [inodes EXCEPT ![r.dst_parent].nlink = Less1(@)]
      BY <2>1 DEF LinkLess
    <2>3. /\ DOMAIN ns = DOMAIN inodes
          /\ \A i \in DOMAIN inodes : ns[i].nlink =
               IF i = r.dst_parent THEN inodes[i].nlink - 1 ELSE inodes[i].nlink
      BY <1>2, <2>1, <2>2 DEF Less1, Inode
    <2>4. InodesCleared(r) = Without(ns, dst)
      BY <1>6 DEF InodesCleared
    <2> HIDE DEF ns
    <2> QED
      BY <1>1, <1>3, <1>6, <2>3, <2>4 DEF Without, Count
  <1> QED
    BY <1>4, <1>5, <1>6

(* The subdirectories a rename leaves in place. *)
LEMMA RenameSubDirs ==
  ASSUME NameInv, NEW c \in Clients, Begin(c, "rename"),
         NEW r, r = pending[c],
         NEW src, src = EntryIn(r.parent, r.name),
         NEW dst, dst = EntryIn(r.dst_parent, r.dst_name),
         NEW d \in DOMAIN dirs
  PROVE  /\ {n \in SubDirs(d) : dirs[d][n] \notin {src, dst}} =
              Drop(Drop(SubDirs(d), d = r.parent, r.name), d = r.dst_parent, r.dst_name)
         /\ Count(d = r.parent /\ r.name \in SubDirs(d)) =
              Count(d = r.parent /\ src \in DOMAIN dirs)
         /\ Count(d = r.dst_parent
                     /\ r.dst_name \in Drop(SubDirs(d), d = r.parent, r.name)) =
              Count(d = r.dst_parent /\ dst \in DOMAIN dirs)
  <1>1. /\ r.parent \in DOMAIN dirs /\ r.name \in DOMAIN dirs[r.parent]
        /\ src = dirs[r.parent][r.name]
        /\ <<r.parent, r.name>> # <<r.dst_parent, r.dst_name>>
        /\ dst # None =>
             /\ r.dst_parent \in DOMAIN dirs /\ r.dst_name \in DOMAIN dirs[r.dst_parent]
             /\ dst = dirs[r.dst_parent][r.dst_name]
        /\ dst = None => dst \notin DOMAIN dirs /\ dst \notin DOMAIN inodes
    BY RenameEntries
  <1>2. SubDirs(d) = {n \in DOMAIN dirs[d] : dirs[d][n] \in DOMAIN dirs}
    BY SubDirsByTable DEF SubDirsLead
  <1>3. \A n \in DOMAIN dirs[d] : dirs[d][n] = src <=> d = r.parent /\ n = r.name
    BY <1>1, SoleEntry
  <1>4. \A n \in DOMAIN dirs[d] : dirs[d][n] = dst <=> d = r.dst_parent /\ n = r.dst_name
    <2>1. CASE dst = None
      <3>1. d = r.dst_parent => r.dst_name \notin DOMAIN dirs[d]
        <4>1. \A n \in DOMAIN dirs[d] : dirs[d][n] # None
          BY DEF NameInv, TypeOK, Inos, None
        <4> QED
          BY <2>1, <4>1 DEF EntryIn
      <3>2. \A n \in DOMAIN dirs[d] : dirs[d][n] # dst
        BY <1>1, <2>1 DEF NameInv, EntriesResolve
      <3> QED
        BY <3>1, <3>2
    <2>2. CASE dst # None
      BY <1>1, <2>2, SoleEntry
    <2> QED
      BY <2>1, <2>2
  <1>5. d = r.parent => (r.name \in SubDirs(d) <=> src \in DOMAIN dirs)
    BY <1>1, <1>2
  <1>6. d = r.dst_parent => (r.dst_name \in Drop(SubDirs(d), d = r.parent, r.name)
                               <=> dst \in DOMAIN dirs)
    <2> SUFFICES ASSUME d = r.dst_parent
                 PROVE  r.dst_name \in Drop(SubDirs(d), d = r.parent, r.name)
                          <=> dst \in DOMAIN dirs
      OBVIOUS
    <2>1. r.dst_name \in Drop(SubDirs(d), d = r.parent, r.name) <=> r.dst_name \in SubDirs(d)
      BY <1>1 DEF Drop
    <2>2. CASE dst = None
      BY <1>1, <1>2, <2>1, <2>2 DEF EntryIn, NameInv, TypeOK, Inos, None
    <2>3. CASE dst # None
      BY <1>1, <1>2, <2>1, <2>3
    <2> QED
      BY <2>2, <2>3
  <1>7. {n \in SubDirs(d) : dirs[d][n] \notin {src, dst}} =
          Drop(Drop(SubDirs(d), d = r.parent, r.name), d = r.dst_parent, r.dst_name)
    <2> DEFINE S == SubDirs(d)
    <2>1. S \subseteq DOMAIN dirs[d]
      BY <1>2
    <2> HIDE DEF S
    <2> QED
      BY <1>3, <1>4, <2>1 DEF Drop, S
  <1> QED
    BY <1>5, <1>6, <1>7 DEF Count

(* rename moves a link with a directory, and takes away the one of a directory
   it replaces. *)
LEMMA RenameKeepsSpare ==
  ASSUME NameInv, NameInv', SpareLinks, NEW c \in Clients, rename(c)
  PROVE  KeepsSpare
  <1> DEFINE r == pending[c]
             src == EntryIn(r.parent, r.name)
             dst == EntryIn(r.dst_parent, r.dst_name)
             rest == SourceRemoved(r)
             kept == InodesCleared(r)
  <1>1. /\ Begin(c, "rename") /\ r.dst_parent \in DOMAIN rest
        /\ dirs' = [rest EXCEPT ![r.dst_parent] = With(@, r.dst_name, src)]
        /\ inodes' = Relinked(r)
    BY DEF rename
  <1>2. /\ r.parent \in DOMAIN dirs /\ src \in DOMAIN inodes
        /\ dst # src /\ dst # r.parent /\ dst # r.dst_parent
    BY <1>1, RenameEntries
  <1>3. CutOut(src, dst, rest, kept)
    BY <1>1, RenameRemoves
  <1>4. \A i \in DOMAIN inodes \ {dst} :
          kept[i].nlink = inodes[i].nlink - Count(i = r.dst_parent /\ dst \in DOMAIN dirs)
    BY <1>1, ClearedLinks
  <1>5. \A d \in DOMAIN dirs :
          /\ {n \in SubDirs(d) : dirs[d][n] \notin {src, dst}} =
               Drop(Drop(SubDirs(d), d = r.parent, r.name), d = r.dst_parent, r.dst_name)
          /\ Count(d = r.parent /\ r.name \in SubDirs(d)) =
               Count(d = r.parent /\ src \in DOMAIN dirs)
          /\ Count(d = r.dst_parent
                      /\ r.dst_name \in Drop(SubDirs(d), d = r.parent, r.name)) =
               Count(d = r.dst_parent /\ dst \in DOMAIN dirs)
    BY <1>1, RenameSubDirs
  <1>6. SubDirsLead /\ SubDirsLead'
    BY SubDirsByTable, PTL
  <1>7. DOMAIN dirs = {i \in DOMAIN inodes : inodes[i].kind = "dir"}
    BY DEF NameInv, EntriesResolve
  <1>8. inodes' = IF r.parent # r.dst_parent /\ src \in DOMAIN kept /\ kept[src].kind = "dir"
                  THEN LinkMore(LinkLess(kept, r.parent), r.dst_parent) ELSE kept
    BY <1>1 DEF Relinked
  <1>9. inodes[r.parent].nlink \in Nat /\ inodes[r.parent].nlink >= 2
    BY <1>2, DirLinks
  <1>10. \A i \in DOMAIN inodes : inodes[i].nlink \in Nat
    BY SpareType
  <1> HIDE DEF r, src, dst, rest, kept
  <1>11. /\ DOMAIN kept = DOMAIN inodes \ {dst}
         /\ kept \in [DOMAIN kept -> Inode]
         /\ \A i \in DOMAIN kept : kept[i].kind = inodes[i].kind
         /\ DOMAIN rest = DOMAIN dirs \ {dst}
         /\ \A d \in DOMAIN rest :
              /\ DOMAIN rest[d] \subseteq DOMAIN dirs[d]
              /\ rest[d] = [n \in DOMAIN rest[d] |-> dirs[d][n]]
         /\ \A d \in DOMAIN rest : \A n \in DOMAIN dirs[d] :
              n \in DOMAIN rest[d] <=> dirs[d][n] \notin {src, dst}
    BY <1>3 DEF CutOut
  <1>12. src \in DOMAIN kept /\ kept[src].kind = "dir" <=> src \in DOMAIN dirs
    BY <1>2, <1>7, <1>11
  <1>13. \A i \in DOMAIN kept :
           inodes'[i].nlink = inodes[i].nlink
             - Count(i = r.parent /\ src \in DOMAIN dirs)
             - Count(i = r.dst_parent /\ dst \in DOMAIN dirs)
             + Count(i = r.dst_parent /\ src \in DOMAIN dirs)
    <2>1. CASE src \notin DOMAIN dirs
      BY <1>4, <1>8, <1>10, <1>11, <1>12, <2>1 DEF Count
    <2>2. CASE src \in DOMAIN dirs /\ r.parent = r.dst_parent
      BY <1>4, <1>8, <1>10, <1>11, <2>2 DEF Count
    <2>3. CASE src \in DOMAIN dirs /\ r.parent # r.dst_parent
      <3> DEFINE fewer == LinkLess(kept, r.parent)
      <3>1. r.parent \in DOMAIN kept /\ r.dst_parent \in DOMAIN kept
        BY <1>1, <1>2, <1>7, <1>11
      <3>2. kept[r.parent].nlink = inodes[r.parent].nlink
        BY <1>4, <1>10, <1>11, <2>3, <3>1 DEF Count
      <3>3. fewer = [kept EXCEPT ![r.parent].nlink = Less1(@)]
        BY <3>1 DEF LinkLess
      <3>4. /\ DOMAIN fewer = DOMAIN kept /\ fewer \in [DOMAIN kept -> Inode]
            /\ \A i \in DOMAIN kept : fewer[i].nlink =
                 IF i = r.parent THEN kept[i].nlink - 1 ELSE kept[i].nlink
        BY <1>9, <1>11, <3>1, <3>2, <3>3 DEF Less1, Inode
      <3>5. inodes' = LinkMore(fewer, r.dst_parent)
        BY <1>8, <1>12, <2>3
      <3> HIDE DEF fewer
      <3>6. inodes' = [fewer EXCEPT ![r.dst_parent].nlink = @ + 1]
        BY <3>1, <3>4, <3>5 DEF LinkMore
      <3>7. \A i \in DOMAIN kept : inodes'[i].nlink =
              IF i = r.dst_parent THEN fewer[i].nlink + 1 ELSE fewer[i].nlink
        BY <3>1, <3>4, <3>6 DEF Inode
      <3> QED
        BY <1>4, <1>10, <1>11, <2>3, <3>4, <3>7 DEF Count
    <2> QED
      BY <2>1, <2>2, <2>3
  <1>14. /\ DOMAIN dirs' = DOMAIN rest
         /\ \A d \in DOMAIN rest : d # r.dst_parent => dirs'[d] = rest[d]
         /\ dirs'[r.dst_parent] = With(rest[r.dst_parent], r.dst_name, src)
    BY <1>1
  <1>15. DOMAIN inodes' = DOMAIN kept
    BY <1>8, <1>11, LinkKeeps
  <1>16. \A d \in DOMAIN rest : Spare(d)' = Spare(d)
    <2> TAKE d \in DOMAIN rest
    <2> DEFINE left == {n \in SubDirs(d) : dirs[d][n] \notin {src, dst}}
               in == d = r.dst_parent /\ src \in DOMAIN dirs
    <2>1. d \in DOMAIN dirs /\ d \in DOMAIN dirs' /\ d \in DOMAIN kept
      BY <1>7, <1>11, <1>14
    <2>2. /\ SubDirs(d) = {n \in DOMAIN dirs[d] : dirs[d][n] \in DOMAIN dirs}
          /\ SubDirs(d)' = {n \in DOMAIN dirs'[d] : dirs'[d][n] \in DOMAIN dirs'}
      BY <1>6, <2>1 DEF SubDirsLead
    <2>3. left = {n \in DOMAIN rest[d] : rest[d][n] \in DOMAIN dirs'}
      BY <1>11, <1>14, <2>1, <2>2
    <2>4. SubDirs(d)' = Put(left, in, r.dst_name)
      <3>1. CASE d # r.dst_parent
        BY <1>14, <2>2, <2>3, <3>1 DEF Put
      <3>2. CASE d = r.dst_parent
        <4>1. src \in DOMAIN dirs' <=> src \in DOMAIN dirs
          BY <1>2, <1>11, <1>14
        <4>2. /\ DOMAIN dirs'[d] = DOMAIN rest[d] \cup {r.dst_name}
              /\ \A n \in DOMAIN dirs'[d] :
                   dirs'[d][n] = IF n = r.dst_name THEN src ELSE rest[d][n]
          BY <1>14, <3>2 DEF With
        <4>3. r.dst_name \notin left
          BY Zenon, <1>5, <2>1, <3>2 DEF Drop
        <4> HIDE DEF left
        <4> QED
          BY <2>2, <2>3, <3>2, <4>1, <4>2, <4>3 DEF Put
      <3> QED
        BY <3>1, <3>2
    <2>5. in => r.dst_name \notin left
      BY Zenon, <1>5, <2>1 DEF Drop
    <2> DEFINE b1 == d = r.parent
               b2 == d = r.dst_parent
               n1 == r.name
               n2 == r.dst_name
    <2>6. left = Drop(Drop(SubDirs(d), b1, n1), b2, n2)
      BY <1>5, <2>1
    <2>7. inodes'[d].nlink = inodes[d].nlink - Count(b1 /\ n1 \in SubDirs(d))
            - Count(b2 /\ n2 \in Drop(SubDirs(d), b1, n1)) + Count(in)
      BY <1>5, <1>13, <2>1
    <2>8. b1 \in BOOLEAN /\ b2 \in BOOLEAN /\ in \in BOOLEAN
      OBVIOUS
    <2>9. SubDirs(d)' = Put(left, in, n2) /\ (in => n2 \notin left)
      BY <2>4, <2>5
    <2> HIDE DEF left, in, b1, b2, n1, n2
    <2> QED
      BY Zenon, <2>1, <2>6, <2>7, <2>8, <2>9, Recount
  <1>17. \A i \in DOMAIN inodes' : i \notin DOMAIN dirs' => Spare(i)' = Spare(i)
    <2> SUFFICES ASSUME NEW i \in DOMAIN inodes', i \notin DOMAIN dirs'
                 PROVE  Spare(i)' = Spare(i)
      OBVIOUS
    <2>1. i \in DOMAIN inodes /\ i \notin DOMAIN dirs /\ i \in DOMAIN kept
      BY <1>11, <1>14, <1>15
    <2>2. i # r.parent /\ i # r.dst_parent
      BY <1>1, <1>2, <1>14, <2>1
    <2>3. inodes'[i].nlink = inodes[i].nlink
      BY <1>10, <1>13, <2>1, <2>2 DEF Count
    <2> QED
      BY <2>1, <2>3, FileSpare
  <1> QED
    BY <1>11, <1>14, <1>15, <1>16, <1>17 DEF KeepsSpare

(* A rename that fails half way takes a directory from its parent and leaves
   the parent the link. *)
LEMMA RenameNoParentSpares ==
  ASSUME NameInv, NameInv', SpareLinks, NEW c \in Clients, RenameNoParent(c)
  PROVE  SpareLinks'
  <1> DEFINE r == pending[c]
             src == EntryIn(r.parent, r.name)
             dst == EntryIn(r.dst_parent, r.dst_name)
  <1>1. /\ Begin(c, "rename") /\ r.dst_parent \notin DOMAIN SourceRemoved(r)
        /\ dirs' = SourceRemoved(r) /\ inodes' = InodesCleared(r)
    BY DEF RenameNoParent
  <1>2. /\ dst # r.dst_parent
        /\ dst # None => r.dst_parent \in DOMAIN dirs
        /\ dst = None => dst \notin DOMAIN dirs /\ dst \notin DOMAIN inodes
    BY <1>1, RenameEntries
  <1>3. CutOut(src, dst, dirs', inodes')
    BY <1>1, RenameRemoves
  <1>4. SubDirsLead /\ SubDirsLead'
    BY SubDirsByTable, PTL
  <1> HIDE DEF src
  <1>5. dst = None
    BY <1>1, <1>2, <1>3 DEF CutOut
  <1>6. inodes' = inodes
    BY <1>1, <1>5 DEF InodesCleared
  <1> HIDE DEF r, dst
  <1>7. /\ DOMAIN dirs' = DOMAIN dirs
        /\ \A d \in DOMAIN dirs :
             /\ DOMAIN dirs'[d] \subseteq DOMAIN dirs[d]
             /\ \A n \in DOMAIN dirs'[d] : dirs'[d][n] = dirs[d][n]
    <2>1. /\ DOMAIN dirs' = DOMAIN dirs \ {dst}
          /\ \A d \in DOMAIN dirs' :
               /\ DOMAIN dirs'[d] \subseteq DOMAIN dirs[d]
               /\ dirs'[d] = [n \in DOMAIN dirs'[d] |-> dirs[d][n]]
      BY Zenon, <1>3 DEF CutOut
    <2>2. DOMAIN dirs' = DOMAIN dirs
      BY <1>2, <1>5, <2>1
    <2> QED
      BY <2>1, <2>2
  <1>8. \A i \in DOMAIN inodes : Spare(i)' >= 0
    <2> TAKE i \in DOMAIN inodes
    <2>1. CASE i \in DOMAIN dirs
      <3>1. SubDirs(i)' \subseteq SubDirs(i)
        BY <1>4, <1>7, <2>1 DEF SubDirsLead
      <3>2. IsFiniteSet(SubDirs(i)) /\ Cardinality(SubDirs(i)) \in Nat
        BY <2>1, SubDirsFinite
      <3>3. /\ Cardinality(SubDirs(i)') <= Cardinality(SubDirs(i))
            /\ IsFiniteSet(SubDirs(i)')
        BY <3>1, <3>2, FS_Subset
      <3>4. Cardinality(SubDirs(i)') \in Nat
        BY <3>3, FS_CardinalityType
      <3>5. Spare(i) = inodes[i].nlink - (2 + Cardinality(SubDirs(i)))
        BY <2>1 DEF Spare
      <3>6. Spare(i)' = inodes'[i].nlink - (2 + Cardinality(SubDirs(i)'))
        BY Zenon, <1>7, <2>1 DEF Spare
      <3>7. inodes[i].nlink \in Nat /\ Spare(i) >= 0
        BY SpareType DEF SpareLinks
      <3> QED
        BY <1>6, <3>2, <3>3, <3>4, <3>5, <3>6, <3>7
    <2>2. CASE i \notin DOMAIN dirs
      BY <1>6, <1>7, <2>2 DEF SpareLinks, Spare
    <2> QED
      BY <2>1, <2>2
  <1> QED
    BY <1>6, <1>8 DEF SpareLinks

(* Steps that leave the tree alone. *)
LEMMA SameTreeSpare ==
  ASSUME UNCHANGED <<inodes, dirs>>
  PROVE  KeepsSpare
  BY DEF KeepsSpare, Spare, SubDirs, IsDir

(* Every step but a rename that fails half way keeps the counts as exact as
   they were. *)
LEMMA StepSpare ==
  ASSUME NameInv, NameInv', SpareLinks, [Next]_vars,
         \A c \in Clients : ~RenameNoParent(c)
  PROVE  KeepsSpare
  <1>1. CASE UNCHANGED vars
    BY <1>1, SameTreeSpare DEF vars
  <1>2. ASSUME NEW c \in Clients, Form(c) \/ Refused(c)
        PROVE  KeepsSpare
    BY <1>2, SameTreeSpare DEF Form, Refused
  <1>3. CASE Next
    BY Zenon, <1>2, <1>3, CreateKeepsSpare, MkdirKeepsSpare, UnlinkKeepsSpare,
       RmdirKeepsSpare, RenameKeepsSpare DEF Next
  <1> QED
    BY <1>1, <1>3

(* The inductive invariant: the names are well formed and no count is short. *)
LinkInv == NameInv /\ SpareLinks

(* Every step preserves it. *)
LEMMA StepLinks == LinkInv /\ [Next]_vars => LinkInv'
  <1> SUFFICES ASSUME NameInv, SpareLinks, [Next]_vars PROVE NameInv' /\ SpareLinks'
    BY Zenon DEF LinkInv
  <1>1. NameInv'
    BY StepNames
  <1>2. CASE \A c \in Clients : ~RenameNoParent(c)
    <2>1. KeepsSpare
      BY Zenon, <1>1, <1>2, StepSpare
    <2>2. \A i \in DOMAIN inodes' : Spare(i)' >= 0
      BY <2>1, SpareType DEF KeepsSpare, SpareLinks
    <2> QED
      BY Zenon, <1>1, <2>2 DEF SpareLinks
  <1>3. CASE \E c \in Clients : RenameNoParent(c)
    BY Zenon, <1>1, <1>3, RenameNoParentSpares
  <1> QED
    BY <1>1, <1>2, <1>3

(* The root counts exactly its own two links. *)
LEMMA InitExact == Init => NameInv /\ \A i \in DOMAIN inodes : Spare(i) = 0
  <1> SUFFICES ASSUME Init PROVE \A i \in DOMAIN inodes : Spare(i) = 0
    BY InitNames
  <1>1. SubDirs(Root) = {}
    BY DEF Init, SubDirs
  <1>2. Cardinality(SubDirs(Root)) = 0
    BY <1>1, FS_EmptySet
  <1> QED
    BY <1>2 DEF Init, Spare

(* So the invariant holds at first. *)
LEMMA InitLinks == Init => LinkInv
  BY InitExact DEF LinkInv, SpareLinks

(* However the requests of any number of mounts interleave, stale ones and
   renames that fail half way included, no nlink is ever below what the tree
   needs: the decrements of rmdir and rename never take a link that a
   subdirectory still stands for. *)
THEOREM LinksNeverShort == Spec => []LinksCovered
  <1>1. LinkInv => LinksCovered
    <2> SUFFICES ASSUME NameInv, SpareLinks, NEW d \in DOMAIN dirs
                 PROVE  inodes[d].nlink >= 2 + Cardinality(SubDirs(d))
      BY DEF LinkInv, LinksCovered
    <2>1. d \in DOMAIN inodes
      BY DEF NameInv, EntriesResolve
    <2>2. inodes[d].nlink \in Nat /\ Cardinality(SubDirs(d)) \in Nat /\ Spare(d) >= 0
      BY <2>1, SpareType DEF SpareLinks
    <2> QED
      BY <2>2 DEF Spare
  <1> QED
    BY <1>1, InitLinks, StepLinks, PTL DEF Spec
-----------------------------------------------------------------------------
(* A single mount: nothing runs between the lookups of its kernel and the
   request they lead to. *)
Lone == \A c, d \in Clients : c = d

(* The request in flight is one the kernel lets through, given the tree as it
   is now. *)
Screened ==
  \A c \in Clients : pending[c] # Idle =>
    ScreenedEntry(pending[c]) \/ ScreenedRename(pending[c])

(* The screening of a request depends on the tree alone. *)
LEMMA SameScreen ==
  ASSUME UNCHANGED <<inodes, dirs>>, NEW r,
         ScreenedEntry(r) \/ ScreenedRename(r)
  PROVE  (ScreenedEntry(r) \/ ScreenedRename(r))'
  <1>1. \A d, n : EntryIn(d, n)' = EntryIn(d, n)
    BY DEF EntryIn
  <1>2. \A i : IsDir(i)' = IsDir(i)
    BY DEF IsDir
  <1>3. \A i, j : Above(i, j)' = Above(i, j)
    BY DEF Above, Closed
  <1> QED
    BY Zenon, <1>1, <1>2, <1>3 DEF ScreenedEntry, ScreenedRename

(* With a single mount, every step keeps the request in flight screened. *)
LEMMA StepScreened ==
  ASSUME Lone, NameInv, Screened, [Next]_vars
  PROVE  Screened'
  <1>1. CASE UNCHANGED vars
    <2> SUFFICES ASSUME NEW c \in Clients, pending[c] # Idle
                 PROVE  (ScreenedEntry(pending[c]) \/ ScreenedRename(pending[c]))'
      BY <1>1 DEF Screened, vars
    <2>1. PICK r : r = pending[c]
      OBVIOUS
    <2>2. (ScreenedEntry(r) \/ ScreenedRename(r))'
      BY <1>1, <2>1, SameScreen DEF Screened, vars
    <2> QED
      BY <1>1, <2>1, <2>2 DEF vars
  <1>2. ASSUME NEW c \in Clients, Form(c)
        PROVE  Screened'
    <2>1. PICK r \in Request : /\ ScreenedEntry(r) \/ ScreenedRename(r)
                               /\ pending' = [pending EXCEPT ![c] = r]
      BY Zenon, <1>2 DEF Form
    <2>2. (ScreenedEntry(r) \/ ScreenedRename(r))'
      BY <1>2, <2>1, SameScreen DEF Form
    <2>3. \A d \in Clients : pending'[d] = r
      BY <2>1 DEF Lone, NameInv, TypeOK
    <2> QED
      BY <2>2, <2>3 DEF Screened
  <1>3. ASSUME NEW c \in Clients, pending' = [pending EXCEPT ![c] = Idle]
        PROVE  Screened'
    <2>1. \A d \in Clients : pending'[d] = Idle
      BY <1>3 DEF Lone, NameInv, TypeOK
    <2> QED
      BY <2>1 DEF Screened, Idle
  <1>4. CASE Next
    BY Zenon, <1>2, <1>3, <1>4
       DEF Next, Refused, create, mkdir, unlink, rmdir, rename, RenameNoParent, Begin
  <1> QED
    BY <1>1, <1>4

(* A screened rename finds the directory it moves its source to. *)
LEMMA ScreenedMoves ==
  ASSUME NameInv, Screened, NEW c \in Clients, Begin(c, "rename")
  PROVE  ScreenedRename(pending[c]) /\ ~RenameNoParent(c)
  <1> DEFINE r == pending[c]
             src == EntryIn(r.parent, r.name)
             dst == EntryIn(r.dst_parent, r.dst_name)
  <1>1. ScreenedRename(r)
    BY DEF Screened, ScreenedEntry, Begin, Idle
  <1>2. r.dst_parent \in DOMAIN dirs
    BY <1>1 DEF ScreenedRename, IsDir, NameInv, EntriesResolve
  <1>3. dst # r.dst_parent
    BY RenameEntries
  <1>4. CutOut(src, dst, SourceRemoved(r), InodesCleared(r))
    BY RenameRemoves
  <1>5. DOMAIN SourceRemoved(r) = DOMAIN dirs \ {dst}
    BY Zenon, <1>4 DEF CutOut
  <1>6. r.dst_parent \in DOMAIN SourceRemoved(r)
    BY <1>2, <1>3, <1>5
  <1> QED
    BY <1>1, <1>6 DEF RenameNoParent
-----------------------------------------------------------------------------
(* Whatever is closed and holds the root holds every live inode. *)
Reached ==
  \A S \in SUBSET Inos : Root \in S /\ Closed(S) => DOMAIN inodes \subseteq S

(* That is TreeShape. *)
LEMMA ReachedIsTree == Reached <=> TreeShape
  BY DEF Reached, TreeShape, Above

(* A tree that grows by an inode with a name is still reached. *)
LEMMA Grown ==
  ASSUME NameInv, Reached, NEW p \in DOMAIN dirs, NEW n, NEW x,
         DOMAIN inodes' = DOMAIN inodes \cup {x},
         \A d \in DOMAIN dirs : d \in DOMAIN dirs' /\
           \A m \in DOMAIN dirs[d] : m \in DOMAIN dirs'[d] /\ dirs'[d][m] = dirs[d][m],
         n \in DOMAIN dirs'[p] /\ dirs'[p][n] = x
  PROVE  Reached'
  <1> SUFFICES ASSUME NEW S \in SUBSET Inos, Root \in S, Closed(S)'
               PROVE  DOMAIN inodes' \subseteq S
    BY DEF Reached, Inos, Root
  <1>1. \A d \in S \cap DOMAIN dirs' : \A m \in DOMAIN dirs'[d] : dirs'[d][m] \in S
    BY DEF Closed
  <1>2. Closed(S)
    BY <1>1 DEF Closed
  <1>3. DOMAIN inodes \subseteq S
    BY <1>2 DEF Reached
  <1>4. p \in S
    BY <1>3 DEF NameInv, EntriesResolve
  <1> QED
    BY <1>1, <1>3, <1>4

(* A tree that loses an inode that leads nowhere is still reached. *)
LEMMA Pruned ==
  ASSUME NameInv, Reached, NEW x \in Inos,
         x \notin DOMAIN dirs \/ DOMAIN dirs[x] = {},
         DOMAIN inodes' = DOMAIN inodes \ {x},
         \A d \in DOMAIN dirs : d # x => d \in DOMAIN dirs' /\
           \A m \in DOMAIN dirs[d] : dirs[d][m] # x =>
             m \in DOMAIN dirs'[d] /\ dirs'[d][m] = dirs[d][m]
  PROVE  Reached'
  <1> SUFFICES ASSUME NEW S \in SUBSET Inos, Root \in S, Closed(S)'
               PROVE  DOMAIN inodes' \subseteq S
    BY DEF Reached, Inos, Root
  <1>1. \A d \in S \cap DOMAIN dirs' : \A m \in DOMAIN dirs'[d] : dirs'[d][m] \in S
    BY DEF Closed
  <1>2. Closed(S \cup {x})
    BY <1>1 DEF Closed
  <1>3. DOMAIN inodes \subseteq S \cup {x}
    BY <1>2 DEF Reached
  <1> QED
    BY <1>3

(* What is below an inode is closed. *)
LEMMA BelowClosed ==
  ASSUME NameInv, NEW i
  PROVE  Closed({x \in Inos : Above(i, x)})
  <1> SUFFICES ASSUME NEW d \in DOMAIN dirs, Above(i, d), NEW n \in DOMAIN dirs[d]
               PROVE  dirs[d][n] \in Inos /\ Above(i, dirs[d][n])
    BY DEF Closed
  <1>1. dirs[d][n] \in Inos
    BY DEF NameInv, TypeOK
  <1>2. ASSUME NEW S \in SUBSET Inos, i \in S, Closed(S)
        PROVE  dirs[d][n] \in S
    BY <1>2 DEF Above, Closed
  <1> QED
    BY <1>1, <1>2 DEF Above

(* A tree that has an inode moved to a directory that is not below it, and
   loses an inode that leads nowhere, is still reached. *)
LEMMA Moved ==
  ASSUME NameInv, Reached, NEW src \in Inos, NEW dst,
         NEW q \in DOMAIN dirs, NEW n, q # dst, src # dst, ~Above(src, q),
         dst \notin DOMAIN dirs \/ DOMAIN dirs[dst] = {},
         DOMAIN inodes' = DOMAIN inodes \ {dst},
         \A d \in DOMAIN dirs : d # dst => d \in DOMAIN dirs' /\
           \A m \in DOMAIN dirs[d] : dirs[d][m] \notin {src, dst} =>
             m \in DOMAIN dirs'[d] /\ dirs'[d][m] = dirs[d][m],
         n \in DOMAIN dirs'[q] /\ dirs'[q][n] = src
  PROVE  Reached'
  <1> SUFFICES ASSUME NEW S \in SUBSET Inos, Root \in S, Closed(S)'
               PROVE  DOMAIN inodes' \subseteq S
    BY DEF Reached, Inos, Root
  <1>1. \A d \in S \cap DOMAIN dirs' : \A m \in DOMAIN dirs'[d] : dirs'[d][m] \in S
    BY DEF Closed
  <1>2. \A d \in DOMAIN dirs : d \in Inos /\ d \in DOMAIN inodes
                            /\ \A m \in DOMAIN dirs[d] : dirs[d][m] \in Inos
    BY DEF NameInv, TypeOK, EntriesResolve
  <1> DEFINE B == {x \in Inos : Above(src, x)}
             D == {dst} \cap Inos
  <1>3. \A d \in B \cap DOMAIN dirs : \A m \in DOMAIN dirs[d] : dirs[d][m] \in B
    BY Zenon, BelowClosed DEF Closed
  <1>4. src \in B
    BY DEF Above
  <1>5. q \notin B
    OBVIOUS
  <1>6. B \subseteq Inos
    OBVIOUS
  <1> HIDE DEF B
  <1>7. Closed(S \cup D \cup B)
    BY <1>1, <1>2, <1>3, <1>4 DEF Closed
  <1>8. DOMAIN inodes \subseteq S \cup D \cup B
    BY <1>6, <1>7 DEF Reached
  <1>9. q \in S
    BY <1>2, <1>5, <1>8
  <1>10. src \in S
    BY <1>1, <1>9
  <1>11. Closed(S \cup D)
    BY <1>1, <1>2, <1>10 DEF Closed
  <1>12. DOMAIN inodes \subseteq S \cup D
    BY <1>11 DEF Reached
  <1> QED
    BY <1>12

(* create and mkdir make the tree grow. *)
LEMMA AddReached ==
  ASSUME NameInv, Reached, NEW c \in Clients, create(c) \/ mkdir(c)
  PROVE  Reached'
  <1> DEFINE p == pending[c].parent
             n == pending[c].name
  <1>1. /\ p \in DOMAIN dirs /\ n \notin DOMAIN dirs[p]
        /\ DOMAIN inodes' = DOMAIN inodes \cup {next_ino}
        /\ DOMAIN dirs \subseteq DOMAIN dirs'
        /\ \A d \in DOMAIN dirs : d # p => dirs'[d] = dirs[d]
        /\ dirs'[p] = With(dirs[p], n, next_ino)
    BY CreateEffect, MkdirEffect
  <1> HIDE DEF p, n
  <1>2. \A d \in DOMAIN dirs : d \in DOMAIN dirs' /\
          \A m \in DOMAIN dirs[d] : m \in DOMAIN dirs'[d] /\ dirs'[d][m] = dirs[d][m]
    BY <1>1 DEF With
  <1>3. n \in DOMAIN dirs'[p] /\ dirs'[p][n] = next_ino
    BY <1>1 DEF With
  <1> QED
    BY Zenon, <1>1, <1>2, <1>3, Grown

(* unlink and rmdir prune it. *)
LEMMA RemoveReached ==
  ASSUME NameInv, Reached, NEW c \in Clients, unlink(c) \/ rmdir(c)
  PROVE  Reached'
  <1> DEFINE p == pending[c].parent
             n == pending[c].name
             x == EntryIn(p, n)
  <1>1. /\ p \in DOMAIN dirs /\ n \in DOMAIN dirs[p] /\ x = dirs[p][n]
        /\ x \notin DOMAIN dirs \/ DOMAIN dirs[x] = {}
        /\ DOMAIN inodes' = DOMAIN inodes \ {x}
        /\ DOMAIN dirs' = DOMAIN dirs \ {x}
        /\ \A d \in DOMAIN dirs' : d # p => dirs'[d] = dirs[d]
        /\ dirs'[p] = Without(dirs[p], n)
    <2>1. CASE unlink(c)
      <3>1. /\ p \in DOMAIN dirs /\ n \in DOMAIN dirs[p] /\ x = dirs[p][n]
            /\ x \notin DOMAIN dirs
            /\ DOMAIN inodes' = DOMAIN inodes \ {x}
        BY Zenon, <2>1, UnlinkEffect
      <3>2. /\ DOMAIN dirs' = DOMAIN dirs
            /\ \A d \in DOMAIN dirs : d # p => dirs'[d] = dirs[d]
            /\ dirs'[p] = Without(dirs[p], n)
        BY Zenon, <2>1, UnlinkEffect
      <3> HIDE DEF p, n, x
      <3> QED
        BY Zenon, <3>1, <3>2
    <2>2. CASE rmdir(c)
      BY Zenon, <2>2, RmdirEffect
    <2> QED
      BY <2>1, <2>2
  <1> HIDE DEF p, n, x
  <1>2. \A d \in DOMAIN dirs : d # x => d \in DOMAIN dirs' /\
          \A m \in DOMAIN dirs[d] : dirs[d][m] # x =>
            m \in DOMAIN dirs'[d] /\ dirs'[d][m] = dirs[d][m]
    BY <1>1 DEF Without
  <1>3. x \in Inos
    BY <1>1 DEF NameInv, TypeOK
  <1> QED
    BY ZenonT(30), <1>1, <1>2, <1>3, Pruned

(* A screened rename moves a subtree to a directory outside of it. *)
LEMMA RenameReached ==
  ASSUME NameInv, Reached, Screened, NEW c \in Clients, rename(c)
  PROVE  Reached'
  <1> DEFINE r == pending[c]
             src == EntryIn(r.parent, r.name)
             dst == EntryIn(r.dst_parent, r.dst_name)
             rest == SourceRemoved(r)
             kept == InodesCleared(r)
  <1>1. /\ Begin(c, "rename") /\ r.dst_parent \in DOMAIN rest
        /\ dirs' = [rest EXCEPT ![r.dst_parent] = With(@, r.dst_name, src)]
        /\ inodes' = Relinked(r)
    BY DEF rename
  <1>2. /\ src \in DOMAIN inodes /\ dst # src /\ dst # r.dst_parent
        /\ dst \notin DOMAIN dirs \/ DOMAIN dirs[dst] = {}
    BY <1>1, RenameEntries
  <1>3. ~Above(src, r.dst_parent)
    BY <1>1, ScreenedMoves DEF ScreenedRename
  <1>4. CutOut(src, dst, rest, kept)
    BY <1>1, RenameRemoves
  <1>5. inodes' = kept \/ inodes' = LinkMore(LinkLess(kept, r.parent), r.dst_parent)
    BY <1>1 DEF Relinked
  <1> HIDE DEF r, src, dst, rest, kept
  <1>6. /\ DOMAIN kept = DOMAIN inodes \ {dst}
        /\ kept \in [DOMAIN kept -> Inode]
        /\ DOMAIN rest = DOMAIN dirs \ {dst}
        /\ \A d \in DOMAIN rest : \A m \in DOMAIN dirs[d] :
             m \in DOMAIN rest[d] <=> dirs[d][m] \notin {src, dst}
        /\ \A d \in DOMAIN rest : \A m \in DOMAIN rest[d] : rest[d][m] = dirs[d][m]
    BY <1>4 DEF CutOut
  <1>7. DOMAIN inodes' = DOMAIN inodes \ {dst}
    BY <1>5, <1>6, LinkKeeps
  <1>8. /\ DOMAIN dirs' = DOMAIN rest
        /\ \A d \in DOMAIN rest : d # r.dst_parent => dirs'[d] = rest[d]
        /\ dirs'[r.dst_parent] = With(rest[r.dst_parent], r.dst_name, src)
    BY <1>1
  <1>9. \A m \in DOMAIN dirs[r.dst_parent] : m = r.dst_name => dirs[r.dst_parent][m] = dst
    BY <1>1, <1>6 DEF EntryIn, dst
  <1>10. \A d \in DOMAIN dirs : d # dst => d \in DOMAIN dirs' /\
           \A m \in DOMAIN dirs[d] : dirs[d][m] \notin {src, dst} =>
             m \in DOMAIN dirs'[d] /\ dirs'[d][m] = dirs[d][m]
    BY <1>6, <1>8, <1>9 DEF With
  <1>11. /\ r.dst_name \in DOMAIN dirs'[r.dst_parent]
         /\ dirs'[r.dst_parent][r.dst_name] = src
    BY <1>8 DEF With
  <1>12. src \in Inos /\ r.dst_parent \in DOMAIN dirs
    BY ZenonT(30), <1>1, <1>2, <1>6 DEF NameInv, TypeOK
  <1> DEFINE q == r.dst_parent
             n == r.dst_name
  <1>13. /\ q \in DOMAIN dirs /\ q # dst /\ ~Above(src, q)
         /\ n \in DOMAIN dirs'[q] /\ dirs'[q][n] = src
    BY <1>2, <1>3, <1>11, <1>12
  <1> HIDE DEF q, n
  <1> QED
    BY <1>2, <1>7, <1>10, <1>12, <1>13, Moved

(* The inductive invariant for a single mount. *)
LoneInv ==
  /\ NameInv
  /\ \A i \in DOMAIN inodes : Spare(i) = 0
  /\ Screened
  /\ Reached

(* The root alone satisfies it. *)
LEMMA InitLone == Init => LoneInv
  <1> SUFFICES ASSUME Init PROVE LoneInv
    OBVIOUS
  <1>1. Screened /\ Reached
    BY DEF Init, Screened, Reached
  <1> QED
    BY <1>1, InitExact DEF LoneInv

(* Every step of a single mount preserves it. *)
LEMMA StepLone ==
  ASSUME Lone
  PROVE  LoneInv /\ [Next]_vars => LoneInv'
  <1> SUFFICES ASSUME LoneInv, [Next]_vars PROVE LoneInv'
    OBVIOUS
  <1>1. NameInv /\ Screened /\ Reached /\ \A i \in DOMAIN inodes : Spare(i) = 0
    BY DEF LoneInv
  <1>2. NameInv' /\ Screened'
    BY <1>1, StepNames, StepScreened
  <1>3. \A c \in Clients : ~RenameNoParent(c)
    BY <1>1, ScreenedMoves DEF RenameNoParent
  <1>4. SpareLinks
    BY <1>1 DEF SpareLinks
  <1>5. KeepsSpare
    BY Zenon, <1>1, <1>2, <1>3, <1>4, StepSpare
  <1>6. (\A i \in DOMAIN inodes : Spare(i) = 0)'
    BY <1>1, <1>5 DEF KeepsSpare
  <1>7. ASSUME UNCHANGED <<inodes, dirs>>
        PROVE  Reached'
    BY <1>1, <1>7 DEF Reached, Closed
  <1>8. Reached'
    <2>1. CASE UNCHANGED vars
      BY <1>7, <2>1 DEF vars
    <2>2. CASE Next
      BY Zenon, <1>1, <1>3, <1>7, <2>2, AddReached, RemoveReached, RenameReached
         DEF Next, Form, Refused
    <2> QED
      BY <2>1, <2>2
  <1> QED
    BY <1>2, <1>6, <1>8 DEF LoneInv

(* With a single mount the counts are exact, for any tree: nlink is one for a
   file, and two and the number of subdirectories for a directory, through
   every create, mkdir, unlink, rmdir and rename. *)
THEOREM LoneLinksExact ==
  ASSUME Lone
  PROVE  Spec => []LinksExact
  <1>1. LoneInv => LinksExact
    <2> SUFFICES ASSUME LoneInv, NEW i \in DOMAIN inodes
                 PROVE  inodes[i].nlink =
                          IF i \in DOMAIN dirs THEN 2 + Cardinality(SubDirs(i)) ELSE 1
      BY DEF LinksExact
    <2>1. /\ inodes[i].nlink \in Nat /\ Spare(i) = 0
          /\ i \in DOMAIN dirs => Cardinality(SubDirs(i)) \in Nat
      BY SpareType DEF LoneInv
    <2> QED
      BY <2>1 DEF Spare
  <1>2. LoneInv /\ [Next]_vars => LoneInv'
    BY StepLone
  <1> QED
    BY <1>1, <1>2, InitLone, PTL DEF Spec

(* With a single mount every live inode stays reachable from the root, for any
   tree: the ancestor test its kernel makes before a rename still holds when
   the meta server, which makes none, moves the directory. *)
THEOREM LoneTree ==
  ASSUME Lone
  PROVE  Spec => []TreeShape
  <1>1. LoneInv => TreeShape
    BY ReachedIsTree DEF LoneInv
  <1>2. LoneInv /\ [Next]_vars => LoneInv'
    BY StepLone
  <1> QED
    BY <1>1, <1>2, InitLone, PTL DEF Spec
=============================================================================
