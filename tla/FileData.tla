------------------------------ MODULE FileData ------------------------------
(***************************************************************************)
(* The data path of one dtmpfs file: the inode kept by the meta server,    *)
(* the open files of the client mounts (OpenFile, the write-back buffers   *)
(* and the block cache), the blocks kept by the stores, and the WriteBlock *)
(* and DeleteBlock calls that tokio::spawn leaves running behind a reply.  *)
(*                                                                         *)
(* A meta handler runs under MetaState's RwLock and is one step, except    *)
(* open, which takes the lock twice and is two.  A FUSE handler takes      *)
(* `&mut self` and blocks on its RPCs, so a mount runs one handler at a    *)
(* time, but every RPC of that handler is a step of its own.               *)
(*                                                                         *)
(* A file is an array of cells, BlockSize of them to a block.  A cell      *)
(* holds the number of the write that last set it, 0 if none did.  Every   *)
(* BlockKey that crosses the wire carries generation 0 (flush.rs:90,       *)
(* fs.rs:123, service.rs:47 of the meta server), so a store holds at most  *)
(* one copy of a block and its high-water test never refuses a write;      *)
(* stores are therefore indexed by the block alone.                        *)
(***************************************************************************)
EXTENDS Integers, Sequences, FiniteSets

CONSTANTS
  Mounts,           \* client processes, one DtmpfsFs each
  Fds,              \* open-file slots of the applications
  MountOf,          \* the mount an open-file slot lives on
  Writers,          \* the slots whose application writes
  Nodes,            \* store servers
  NoNode,           \* NodeId("?"), the primary when no store is Up
  Absent,           \* no buffer, no block, no cache entry
  PickNodes(_, _),  \* hash::pick_nodes: the stores for a block, best first
  NumBlocks,        \* bound: blocks of the file
  BlockSize,        \* cells to a block, ClientConfig::block_size
  MetaBlockSize,    \* the block size compiled into Meta.SetAttr
  Ranges,           \* bound: the <<offset, length>> pairs that are written
  Sizes,            \* bound: the sizes a file is truncated to
  MaxWrites,        \* bound: number of write calls
  MaxOpens,         \* bound: number of handles the meta server gives out
  MaxDrops,         \* bound: number of truncations
  Env               \* what the environment may do, a subset of EnvKinds

EnvKinds == {"overlap",    \* two applications have the file open for writing
             "republish",  \* a slot is written again after fsync or flush
             "read_fail",  \* a ReadBlock call fails
             "write_fail", \* a WriteBlock or DeleteBlock call fails
             "restart",    \* a store restarts with empty RAM
             "crash",      \* a mount dies
             "truncate", "unlink",
             "membership"} \* stores go Up and Down at the meta server

Blocks == 0 .. NumBlocks - 1
Offsets == 0 .. BlockSize - 1
Cells == 0 .. NumBlocks * BlockSize - 1
Stamps == 0 .. MaxWrites
Content == [Offsets -> Stamps]
MaybeContent == Content \cup {Absent}
Placement == Seq(Nodes) \cup {<<NoNode>>}

ASSUME BoundsAssumption ==
  /\ NumBlocks \in Nat \ {0}
  /\ BlockSize \in Nat \ {0}
  /\ MetaBlockSize \in Nat \ {0}
  /\ MaxWrites \in Nat
  /\ MaxOpens \in Nat
  /\ MaxDrops \in Nat
  /\ Sizes \subseteq Nat

ASSUME SlotsAssumption ==
  /\ MountOf \in [Fds -> Mounts]
  /\ Writers \subseteq Fds
  /\ Env \subseteq EnvKinds

ASSUME RangesAssumption ==
  \A r \in Ranges : /\ r \in Nat \X (Nat \ {0})
                    /\ r[1] + r[2] <= NumBlocks * BlockSize

ASSUME AbsentAssumption == Absent \notin Content /\ NoNode \notin Nodes

ASSUME PickAssumption ==
  \A i \in Blocks : \A S \in SUBSET Nodes : PickNodes(i, S) \in Seq(S)

VARIABLES
  inode,      \* the inode: live, generation, size, blocks (<<>> = unplaced)
  handles,    \* MetaState.open_handles
  nextFh,     \* MetaState.next_fh
  up,         \* the nodes with NodeStatus::Up
  store,      \* the blocks of each store
  of,         \* the OpenFile of each slot
  pc,         \* where each slot's FUSE handler is
  op,         \* the locals of that handler
  cache,      \* block_cache of each mount: <<generation, block, content>>
  spawned,    \* WriteBlock calls nobody waits for any more
  deletes,    \* DeleteBlock calls spawned by the meta server
  writes,     \* number of write calls so far
  drops       \* number of truncations and unlinks so far

(***************************************************************************)
(* History variables, read only by the properties: what the successful     *)
(* closes have published, what a slot has written and not yet published,   *)
(* the last result of flush, fsync or release, the handle of each          *)
(* publication in turn, the cells each write covers, and the blocks a copy *)
(* of which changed since the last publication.                            *)
(***************************************************************************)
VARIABLES published, wrote, result, log, covers, stirred

metaVars == <<inode, handles, nextFh, up>>
clientVars == <<of, pc, op, cache>>
netVars == <<spawned, deletes>>
histVars == <<published, wrote, result, log, covers, stirred>>
vars == <<metaVars, store, clientVars, netVars, writes, drops, histVars>>

NoDirty == [i \in Blocks |-> Absent]
NoBlocks == [i \in Blocks |-> <<>>]
Zeros == [k \in Offsets |-> 0]
Clean == [c \in Cells |-> 0]
NoFile == [fh |-> 0, generation |-> 0, size_hint |-> 0,
           block_map |-> NoBlocks, dirty |-> NoDirty]
NoOp == [kind |-> "none", cur |-> 0, end |-> 0, stamp |-> 0,
         left |-> NoBlocks, data |-> NoDirty]

(* The file has just been created and its first handle released. *)
Init ==
  /\ inode = [live |-> TRUE, generation |-> 0, size |-> 0, blocks |-> NoBlocks]
  /\ handles = {}
  /\ nextFh = 1
  /\ up = Nodes
  /\ store = [n \in Nodes |-> NoDirty]
  /\ of = [f \in Fds |-> NoFile]
  /\ pc = [f \in Fds |-> "closed"]
  /\ op = [f \in Fds |-> NoOp]
  /\ cache = [m \in Mounts |-> {}]
  /\ spawned = {}
  /\ deletes = {}
  /\ writes = 0
  /\ drops = 0
  /\ published = Clean
  /\ wrote = [f \in Fds |-> Clean]
  /\ result = [f \in Fds |-> "none"]
  /\ log = <<>>
  /\ covers = [w \in 1 .. MaxWrites |-> {}]
  /\ stirred = {}

(***************************************************************************)
(* A mount serves one FUSE request at a time.                              *)
(***************************************************************************)
Serving(m) == \E f \in Fds : MountOf[f] = m /\ pc[f] \notin {"closed", "idle"}

(* A request may start on an open slot when its mount serves none. *)
Ready(f) == pc[f] = "idle" /\ ~Serving(MountOf[f])

----------------------------------------------------------------------------
(***************************************************************************)
(* open: Meta.Open reads the inode under the read lock, lets the lock go   *)
(* and inserts the handle under the write lock.  Unless "overlap" is       *)
(* allowed, the applications see to it that one of them has the file open  *)
(* for writing.                                                            *)
(***************************************************************************)
OpenRead(f) ==
  /\ pc[f] = "closed"
  /\ ~Serving(MountOf[f])
  /\ nextFh + Cardinality({g \in Fds : pc[g] = "opening"}) <= MaxOpens
  /\ inode.live
  /\ "overlap" \notin Env /\ f \in Writers
       => \A g \in Writers : pc[g] = "closed"
  /\ of' = [of EXCEPT ![f] = [NoFile EXCEPT !.generation = inode.generation,
                                            !.size_hint = inode.size,
                                            !.block_map = inode.blocks]]
  /\ pc' = [pc EXCEPT ![f] = "opening"]
  /\ wrote' = [wrote EXCEPT ![f] = Clean]
  /\ result' = [result EXCEPT ![f] = "none"]
  /\ UNCHANGED <<metaVars, store, op, cache, netVars, writes, drops,
                 published, log, covers, stirred>>

OpenInsert(f) ==
  /\ pc[f] = "opening"
  /\ handles' = handles \cup {nextFh}
  /\ nextFh' = nextFh + 1
  /\ of' = [of EXCEPT ![f].fh = nextFh]
  /\ pc' = [pc EXCEPT ![f] = "idle"]
  /\ UNCHANGED <<inode, up, store, op, cache, netVars, writes, drops, histVars>>

----------------------------------------------------------------------------
(***************************************************************************)
(* fetch_block: the dirty buffer, else the cached copy of the generation   *)
(* the slot was opened at, else the first store of the placement that      *)
(* answers.  A store without the block answers NotFound, which is taken    *)
(* for zeros, not cached, and ends the search; only another error moves on *)
(* to the next store of the placement.                                     *)
(***************************************************************************)
ReadCanFail(n) == n = NoNode \/ Env \cap {"read_fail", "membership"} # {}

Answering(p) ==
  {p[j] : j \in {k \in DOMAIN p : /\ p[k] # NoNode
                                  /\ \A l \in 1 .. k - 1 : ReadCanFail(p[l])}}

(* Mutation of Cached: the key lacks the generation. *)
CachedAnyGeneration(f, i) == {e \in cache[MountOf[f]] : e[2] = i}

Cached(f, i) ==
  {e \in cache[MountOf[f]] : e[1] = of[f].generation /\ e[2] = i}

(* Mutation of Answer: NotFound is handled like a block. *)
AnswerUnchecked(f, i, n) ==
  [data |-> store[n][i],
   cache |-> cache[MountOf[f]] \cup {<<of[f].generation, i, store[n][i]>>}]

(* The block's content and the mount's cache after an answer from store n. *)
Answer(f, i, n) ==
  IF store[n][i] = Absent
  THEN [data |-> Zeros, cache |-> cache[MountOf[f]]]
  ELSE [data |-> store[n][i],
        cache |-> cache[MountOf[f]] \cup {<<of[f].generation, i, store[n][i]>>}]

Fetch(f, i) ==
  IF of[f].dirty[i] # Absent
  THEN {[data |-> of[f].dirty[i], cache |-> cache[MountOf[f]]]}
  ELSE IF Cached(f, i) # {}
  THEN {[data |-> e[3], cache |-> cache[MountOf[f]]] : e \in Cached(f, i)}
  ELSE {Answer(f, i, n) : n \in Answering(of[f].block_map[i])}

FetchFails(f, i) ==
  /\ of[f].dirty[i] = Absent
  /\ Cached(f, i) = {}
  /\ \A j \in DOMAIN of[f].block_map[i] : ReadCanFail(of[f].block_map[i][j])

(* What read gives for block i: a block neither placed nor dirty is a hole. *)
ReadBlock(f, i) ==
  IF of[f].block_map[i] = <<>> /\ of[f].dirty[i] = Absent
  THEN {[data |-> Zeros, cache |-> cache[MountOf[f]]]}
  ELSE Fetch(f, i)

(* One turn of the loop of read; a failed fetch changes nothing. *)
Read(f) ==
  /\ Ready(f)
  /\ \E i \in Blocks : \E b \in ReadBlock(f, i) :
       cache' = [cache EXCEPT ![MountOf[f]] = b.cache]
  /\ UNCHANGED <<metaVars, store, of, pc, op, netVars, writes, drops, histVars>>

(* The cache is bounded: moka may drop an entry at any time. *)
Evict(m) ==
  /\ \E e \in cache[m] : cache' = [cache EXCEPT ![m] = @ \ {e}]
  /\ UNCHANGED <<metaVars, store, of, pc, op, netVars, writes, drops, histVars>>

----------------------------------------------------------------------------
(***************************************************************************)
(* write: apply_write walks the blocks of the range.  A block that is not  *)
(* dirty yet starts as zeros when it is overwritten whole or has no        *)
(* placement, and otherwise from what fetch_block returns.  size_hint      *)
(* moves after the last block; a failing fetch leaves the blocks already   *)
(* walked dirty.                                                           *)
(***************************************************************************)
WriteOp(r, w) == [kind |-> "write", cur |-> r[1], end |-> r[1] + r[2], stamp |-> w,
                  left |-> NoBlocks, data |-> NoDirty]

WriteBegin(f) ==
  /\ Ready(f)
  /\ f \in Writers
  /\ writes < MaxWrites
  /\ "republish" \notin Env => of[f].fh \in handles
  /\ writes' = writes + 1
  /\ \E r \in Ranges :
       /\ op' = [op EXCEPT ![f] = WriteOp(r, writes + 1)]
       /\ covers' = [covers EXCEPT ![writes + 1] = r[1] .. r[1] + r[2] - 1]
  /\ pc' = [pc EXCEPT ![f] = "write"]
  /\ result' = [result EXCEPT ![f] = "none"]
  /\ UNCHANGED <<metaVars, store, of, cache, netVars, drops,
                 published, wrote, log, stirred>>

BlockOf(c) == c \div BlockSize

(* One past the last cell of this turn of apply_write's loop. *)
ChunkEnd(f) ==
  LET stop == (BlockOf(op[f].cur) + 1) * BlockSize
  IN  IF stop <= op[f].end THEN stop ELSE op[f].end

(* Mutation of WriteBase: a partial overwrite forgets the old block. *)
WriteBaseZeros(f, i) ==
  IF of[f].dirty[i] # Absent THEN Fetch(f, i)
  ELSE {[data |-> Zeros, cache |-> cache[MountOf[f]]]}

(* The buffers apply_write may start from, with the cache they leave. *)
WriteBase(f, i) ==
  IF \/ of[f].dirty[i] # Absent
     \/ of[f].block_map[i] # <<>> /\ ChunkEnd(f) - op[f].cur < BlockSize
  THEN Fetch(f, i)
  ELSE {[data |-> Zeros, cache |-> cache[MountOf[f]]]}

(* Mutation of InBlock: every chunk goes to the start of its block. *)
InBlockStart(c) == 0

InBlock(c) == c - BlockOf(c) * BlockSize

(* Mutation of Extended: size_hint moves to the end of every write. *)
ExtendedAlways(hint, end) == end

(* size_hint only grows. *)
Extended(hint, end) == IF end > hint THEN end ELSE hint

WriteStep(f) ==
  LET i == BlockOf(op[f].cur)
      len == ChunkEnd(f) - op[f].cur
      from == InBlock(op[f].cur)
      done == ChunkEnd(f) = op[f].end
  IN
  /\ pc[f] = "write"
  /\ \E b \in WriteBase(f, i) :
       /\ of' = [of EXCEPT
            ![f].dirty[i] = [k \in Offsets |-> IF k \in from .. from + len - 1
                                               THEN op[f].stamp ELSE b.data[k]],
            ![f].size_hint = IF done THEN Extended(@, op[f].end) ELSE @]
       /\ cache' = [cache EXCEPT ![MountOf[f]] = b.cache]
  /\ op' = [op EXCEPT ![f] = IF done THEN NoOp ELSE [@ EXCEPT !.cur = ChunkEnd(f)]]
  /\ pc' = [pc EXCEPT ![f] = IF done THEN "idle" ELSE "write"]
  /\ wrote' = [wrote EXCEPT ![f] = [c \in Cells |->
       IF c \in op[f].cur .. ChunkEnd(f) - 1 THEN op[f].stamp ELSE @[c]]]
  /\ UNCHANGED <<metaVars, store, netVars, writes, drops,
                 published, result, log, covers, stirred>>

WriteFails(f) ==
  LET i == BlockOf(op[f].cur)
  IN
  /\ pc[f] = "write"
  /\ of[f].block_map[i] # <<>>
  /\ ChunkEnd(f) - op[f].cur < BlockSize
  /\ FetchFails(f, i)
  /\ op' = [op EXCEPT ![f] = NoOp]
  /\ pc' = [pc EXCEPT ![f] = "idle"]
  /\ UNCHANGED <<metaVars, store, of, cache, netVars, writes, drops, histVars>>

----------------------------------------------------------------------------
(***************************************************************************)
(* flush, fsync and release all run publish.  A handler that ends gives    *)
(* its reply; release also drops the slot: when publish fails the client   *)
(* keeps the OpenFile, but the kernel never names that fh again.           *)
(***************************************************************************)
Reply(f, kind, r) ==
  /\ pc' = [pc EXCEPT ![f] = IF kind = "release" THEN "closed" ELSE "idle"]
  /\ op' = [op EXCEPT ![f] = NoOp]
  /\ result' = [result EXCEPT ![f] = r]

(* Mutation of DirtyBlocks: blocks placed before are not looked at. *)
DirtyUnplaced(f) == {i \in Blocks : of[f].dirty[i] # Absent /\ of[f].block_map[i] = <<>>}

DirtyBlocks(f) == {i \in Blocks : of[f].dirty[i] # Absent}

PublishKinds == {"flush", "fsync", "release"}

(* Nothing dirty: publish returns at once and the meta server hears nothing. *)
PublishNothing(f) ==
  /\ Ready(f)
  /\ DirtyBlocks(f) = {}
  /\ \E kind \in PublishKinds : Reply(f, kind, "ok")
  /\ UNCHANGED <<metaVars, store, of, cache, netVars, writes, drops,
                 published, wrote, log, covers, stirred>>

PublishBegin(f) ==
  /\ Ready(f)
  /\ DirtyBlocks(f) # {}
  /\ \E kind \in PublishKinds : op' = [op EXCEPT ![f] = [NoOp EXCEPT !.kind = kind]]
  /\ pc' = [pc EXCEPT ![f] = "alloc"]
  /\ UNCHANGED <<metaVars, store, of, cache, netVars, writes, drops, histVars>>

(* Blocks this slot must ask the meta server to place. *)
NewBlocks(f) == {i \in DirtyBlocks(f) : of[f].block_map[i] = <<>>}

(* MetaState::allocate_blocks: primary "?" when no store is Up. *)
Place(i) == IF PickNodes(i, up) = <<>> THEN <<NoNode>> ELSE PickNodes(i, up)

(* Mutation of Allocated: a block is placed anew each time it is asked for. *)
AllocatedAfresh(f) ==
  [i \in Blocks |-> IF i \in NewBlocks(f) THEN Place(i) ELSE inode.blocks[i]]

(* Meta.AllocateBlocks keeps the placements the inode already has. *)
Allocated(f) ==
  [i \in Blocks |-> IF i \in NewBlocks(f) /\ inode.blocks[i] = <<>>
                    THEN Place(i) ELSE inode.blocks[i]]

(* The dirty buffers leave the OpenFile here, before any of them is sent. *)
PublishAllocate(f) ==
  LET map == [i \in Blocks |-> IF i \in NewBlocks(f)
                               THEN Allocated(f)[i] ELSE of[f].block_map[i]]
  IN
  /\ pc[f] = "alloc"
  /\ NewBlocks(f) # {} => inode.live
  /\ inode' = [inode EXCEPT !.blocks = Allocated(f)]
  /\ of' = [of EXCEPT ![f].block_map = map, ![f].dirty = NoDirty]
  /\ op' = [op EXCEPT ![f].data = of[f].dirty,
                      ![f].left = [i \in Blocks |-> IF i \in DirtyBlocks(f)
                                                    THEN map[i] ELSE <<>>]]
  /\ pc' = [pc EXCEPT ![f] = "send"]
  /\ UNCHANGED <<handles, nextFh, up, store, cache, netVars, writes, drops, histVars>>

(* The inode is gone: AllocateBlocks answers NotFound, the buffers stay. *)
PublishUnplaced(f) ==
  /\ pc[f] = "alloc"
  /\ NewBlocks(f) # {} /\ ~inode.live
  /\ Reply(f, op[f].kind, "err")
  /\ UNCHANGED <<metaVars, store, of, cache, netVars, writes, drops,
                 published, wrote, log, covers, stirred>>

WriteMsg(n, i, d) == [node |-> n, idx |-> i, data |-> d]

(* The blocks whose primary, or under fsync whose replicas, are not written. *)
Unsent(f) == {i \in Blocks : op[f].left[i] # <<>>}

(* A WriteBlock call that is waited for: the primary's, then, under fsync,
   each replica's.  Under flush and release the replicas' calls are spawned. *)
SendBlock(f) ==
  /\ pc[f] = "send"
  /\ \E i \in Unsent(f) :
       LET n == Head(op[f].left[i])
           rest == Tail(op[f].left[i])
       IN
       /\ n # NoNode
       /\ store' = [store EXCEPT ![n][i] = op[f].data[i]]
       /\ stirred' = stirred \cup {i}
       /\ IF op[f].kind = "fsync"
          THEN /\ op' = [op EXCEPT ![f].left[i] = rest]
               /\ UNCHANGED spawned
          ELSE /\ op' = [op EXCEPT ![f].left[i] = <<>>]
               /\ spawned' = spawned \cup {WriteMsg(rest[j], i, op[f].data[i])
                                             : j \in DOMAIN rest}
  /\ UNCHANGED <<metaVars, of, pc, cache, deletes, writes, drops,
                 published, wrote, result, log, covers>>

(* The WriteBlock calls of a publish given up half way that still arrive. *)
Stray(f, S) ==
  {WriteMsg(Head(op[f].left[i]), i, op[f].data[i])
     : i \in {j \in S : Head(op[f].left[j]) # NoNode}}

(* The first error ends the fan-out: try_collect drops the calls that are
   still out, any of which may reach its store; the buffers are gone. *)
SendFails(f) ==
  /\ pc[f] = "send"
  /\ \E i \in Unsent(f) : \/ Head(op[f].left[i]) = NoNode
                          \/ Env \cap {"write_fail", "membership"} # {}
  /\ \E S \in SUBSET Unsent(f) : spawned' = spawned \cup Stray(f, S)
  /\ Reply(f, op[f].kind, "err")
  /\ UNCHANGED <<metaVars, store, of, cache, deletes, writes, drops,
                 published, wrote, log, covers, stirred>>

(***************************************************************************)
(* Meta.Close removes the handle first, and only then looks at the inode   *)
(* and its generation.  It records size and generation; the placements     *)
(* were recorded by AllocateBlocks.  publish then asks moka to drop the    *)
(* entries of older generations, with no effect: the cache is built        *)
(* without support for invalidation closures and the error is ignored.     *)
(***************************************************************************)
Sent(f) == pc[f] = "send" /\ Unsent(f) = {}

(* Mutation of Accepts: the generation is bumped before it is compared. *)
AcceptsBumped(f) ==
  of[f].fh \in handles /\ inode.live /\ inode.generation + 1 = of[f].generation

(* Mutation of Accepts: the generation is not compared. *)
AcceptsAnyGeneration(f) == of[f].fh \in handles /\ inode.live

(* Mutation of Accepts: the inode is not looked up. *)
AcceptsRemoved(f) == of[f].fh \in handles /\ inode.generation = of[f].generation

Accepts(f) ==
  of[f].fh \in handles /\ inode.live /\ inode.generation = of[f].generation

(* Mutation of CloseAccepted: the generation is not bumped. *)
CloseWithoutBump(f) ==
  /\ Sent(f)
  /\ Accepts(f)
  /\ handles' = handles \ {of[f].fh}
  /\ inode' = [inode EXCEPT !.size = of[f].size_hint]
  /\ Reply(f, op[f].kind, "ok")
  /\ published' = [c \in Cells |-> IF wrote[f][c] # 0
                                   THEN wrote[f][c] ELSE published[c]]
  /\ wrote' = [wrote EXCEPT ![f] = Clean]
  /\ log' = Append(log, of[f].fh)
  /\ stirred' = {}
  /\ UNCHANGED <<nextFh, up, store, of, cache, netVars, writes, drops, covers>>

CloseAccepted(f) ==
  /\ Sent(f)
  /\ Accepts(f)
  /\ handles' = handles \ {of[f].fh}
  /\ inode' = [inode EXCEPT !.generation = @ + 1, !.size = of[f].size_hint]
  /\ of' = [of EXCEPT ![f].generation = inode.generation + 1]
  /\ Reply(f, op[f].kind, "ok")
  /\ published' = [c \in Cells |-> IF wrote[f][c] # 0
                                   THEN wrote[f][c] ELSE published[c]]
  /\ wrote' = [wrote EXCEPT ![f] = Clean]
  /\ log' = Append(log, of[f].fh)
  /\ stirred' = {}
  /\ UNCHANGED <<nextFh, up, store, cache, netVars, writes, drops, covers>>

(* Mutation of CloseRejected: an unknown handle gets no answer. *)
CloseUnanswered(f) ==
  /\ Sent(f)
  /\ ~Accepts(f)
  /\ of[f].fh \in handles
  /\ handles' = handles \ {of[f].fh}
  /\ Reply(f, op[f].kind, "err")
  /\ UNCHANGED <<inode, nextFh, up, store, of, cache, netVars, writes, drops,
                 published, wrote, log, covers, stirred>>

CloseRejected(f) ==
  /\ Sent(f)
  /\ ~Accepts(f)
  /\ handles' = handles \ {of[f].fh}
  /\ Reply(f, op[f].kind, "err")
  /\ UNCHANGED <<inode, nextFh, up, store, of, cache, netVars, writes, drops,
                 published, wrote, log, covers, stirred>>

----------------------------------------------------------------------------
(***************************************************************************)
(* Meta.SetAttr with a size: the placements past the new last block are    *)
(* dropped, and their stores are told so by spawned calls.  Truncation to  *)
(* zero keeps block 0, and the generation stays.                           *)
(***************************************************************************)
LastKept(sz) == IF sz = 0 THEN 0 ELSE (sz - 1) \div MetaBlockSize

DeleteMsgs(S) ==
  UNION {{[node |-> inode.blocks[i][j], idx |-> i, tag |-> drops + 1]
            : j \in {k \in DOMAIN inode.blocks[i] : inode.blocks[i][k] # NoNode}}
         : i \in S}

Truncate ==
  /\ "truncate" \in Env
  /\ drops < MaxDrops
  /\ inode.live
  /\ \E m \in Mounts : ~Serving(m)
  /\ \E sz \in Sizes :
       LET dropped == IF sz < inode.size THEN {i \in Blocks : i > LastKept(sz)} ELSE {}
       IN
       /\ inode' = [inode EXCEPT
            !.size = sz,
            !.blocks = [i \in Blocks |-> IF i \in dropped THEN <<>> ELSE @[i]]]
       /\ deletes' = deletes \cup DeleteMsgs(dropped)
       /\ published' = [c \in Cells |-> IF c < sz THEN published[c] ELSE 0]
       /\ stirred' = stirred \cup dropped
  /\ drops' = drops + 1
  /\ UNCHANGED <<handles, nextFh, up, store, clientVars, spawned, writes,
                 wrote, result, log, covers>>

(* Meta.Unlink removes the inode whatever handles are open on it. *)
Unlink ==
  /\ "unlink" \in Env
  /\ inode.live
  /\ \E m \in Mounts : ~Serving(m)
  /\ inode' = [inode EXCEPT !.live = FALSE, !.size = 0, !.blocks = NoBlocks]
  /\ deletes' = deletes \cup DeleteMsgs(Blocks)
  /\ drops' = drops + 1
  /\ UNCHANGED <<handles, nextFh, up, store, clientVars, spawned, writes, histVars>>

----------------------------------------------------------------------------
(* Spawned calls reach their store in any order, or are lost with an error
   nobody looks at. *)
Lossy == Env \cap {"write_fail", "restart", "crash"} # {}

DeliverWrite ==
  /\ \E w \in spawned :
       /\ spawned' = spawned \ {w}
       /\ \/ /\ store' = [store EXCEPT ![w.node][w.idx] = w.data]
             /\ stirred' = stirred \cup {w.idx}
          \/ /\ Lossy
             /\ UNCHANGED <<store, stirred>>
  /\ UNCHANGED <<metaVars, clientVars, deletes, writes, drops,
                 published, wrote, result, log, covers>>

DeliverDelete ==
  /\ \E d \in deletes :
       /\ deletes' = deletes \ {d}
       /\ \/ /\ store' = [store EXCEPT ![d.node][d.idx] = Absent]
             /\ stirred' = stirred \cup {d.idx}
          \/ /\ Lossy
             /\ UNCHANGED <<store, stirred>>
  /\ UNCHANGED <<metaVars, clientVars, spawned, writes, drops,
                 published, wrote, result, log, covers>>

(* A store comes back as a new process with an empty block map. *)
RestartStore(n) ==
  /\ "restart" \in Env
  /\ store' = [store EXCEPT ![n] = NoDirty]
  /\ stirred' = Blocks
  /\ UNCHANGED <<metaVars, clientVars, netVars, writes, drops,
                 published, wrote, result, log, covers>>

(* A mount dies: its slots and cache are gone, and any WriteBlock call that
   was out may still arrive.  The meta server notices nothing. *)
CrashMount(m) ==
  LET gone == {f \in Fds : MountOf[f] = m}
  IN
  /\ "crash" \in Env
  /\ \E f \in gone : pc[f] # "closed"
  /\ \E S \in SUBSET Blocks :
       spawned' = spawned \cup UNION {Stray(f, S \cap Unsent(f)) : f \in gone}
  /\ of' = [f \in Fds |-> IF f \in gone THEN NoFile ELSE of[f]]
  /\ pc' = [f \in Fds |-> IF f \in gone THEN "closed" ELSE pc[f]]
  /\ op' = [f \in Fds |-> IF f \in gone THEN NoOp ELSE op[f]]
  /\ cache' = [cache EXCEPT ![m] = {}]
  /\ wrote' = [f \in Fds |-> IF f \in gone THEN Clean ELSE wrote[f]]
  /\ result' = [f \in Fds |-> IF f \in gone THEN "none" ELSE result[f]]
  /\ UNCHANGED <<metaVars, store, deletes, writes, drops,
                 published, log, covers, stirred>>

(* heartbeat_node marks a store Up, whatever it was. *)
NodeUp(n) ==
  /\ "membership" \in Env
  /\ up' = up \cup {n}
  /\ UNCHANGED <<inode, handles, nextFh, store, clientVars, netVars,
                 writes, drops, histVars>>

(* The watcher marks a store Down: how long it has been silent is not
   modelled, so it may do so at any time. *)
NodeDown(n) ==
  /\ "membership" \in Env
  /\ up' = up \ {n}
  /\ UNCHANGED <<inode, handles, nextFh, store, clientVars, netVars,
                 writes, drops, histVars>>

(* The next step of a FUSE handler that has started on slot f. *)
Serve(f) ==
  \/ OpenInsert(f)
  \/ WriteStep(f) \/ WriteFails(f)
  \/ PublishAllocate(f) \/ PublishUnplaced(f)
  \/ SendBlock(f) \/ SendFails(f)
  \/ CloseAccepted(f) \/ CloseRejected(f)

Request(f) ==
  OpenRead(f) \/ Read(f) \/ WriteBegin(f) \/ PublishNothing(f) \/ PublishBegin(f)

Next ==
  \/ \E f \in Fds : Request(f) \/ Serve(f)
  \/ \E m \in Mounts : Evict(m) \/ CrashMount(m)
  \/ Truncate \/ Unlink \/ DeliverWrite \/ DeliverDelete
  \/ \E n \in Nodes : RestartStore(n) \/ NodeUp(n) \/ NodeDown(n)

Spec == Init /\ [][Next]_vars

(* A handler that has started runs on: the runtime polls it, and an RPC
   ends with an answer or an error. *)
FairSpec == Spec /\ \A f \in Fds : WF_vars(Serve(f))

----------------------------------------------------------------------------
Inode == [live : BOOLEAN, generation : Nat, size : Nat, blocks : [Blocks -> Placement]]

OpenFile == [fh : Nat, generation : Nat, size_hint : Nat,
             block_map : [Blocks -> Placement], dirty : [Blocks -> MaybeContent]]

Stages == {"closed", "opening", "idle", "write", "alloc", "send"}

Op == [kind : {"none", "write"} \cup PublishKinds, cur : Nat, end : Nat,
       stamp : Stamps, left : [Blocks -> Placement],
       data : [Blocks -> MaybeContent]]

(* The shape of the state: every field holds what the code's type allows. *)
TypeOK ==
  /\ inode \in Inode
  /\ handles \subseteq Nat
  /\ nextFh \in Nat
  /\ up \subseteq Nodes
  /\ store \in [Nodes -> [Blocks -> MaybeContent]]
  /\ of \in [Fds -> OpenFile]
  /\ pc \in [Fds -> Stages]
  /\ op \in [Fds -> Op]
  /\ cache \in [Mounts -> SUBSET (Nat \X Blocks \X Content)]
  /\ spawned \subseteq [node : Nodes, idx : Blocks, data : Content]
  /\ deletes \subseteq [node : Nodes, idx : Blocks, tag : Nat]
  /\ writes \in Stamps
  /\ drops \in Nat
  /\ published \in [Cells -> Stamps]
  /\ wrote \in [Fds -> [Cells -> Stamps]]
  /\ result \in [Fds -> {"none", "ok", "err"}]
  /\ log \in Seq(Nat)
  /\ covers \in [1 .. MaxWrites -> SUBSET Cells]
  /\ stirred \subseteq Blocks

CellOf(i, k) == i * BlockSize + k

(* No publish has sent blocks without having closed. *)
Settled == \A f \in Fds : pc[f] # "send"

(* What slot f is entitled to find in a cell: its own bytes, else the
   published ones. *)
Entitled(f, c) == IF wrote[f][c] # 0 THEN wrote[f][c] ELSE published[c]

(* Close-to-open: a slot opened at the current generation reads, from its
   buffers, the block cache or the stores, exactly the cells published by the
   successful closes and those it wrote itself, while no publish is under way.
   (fetch_block, apply_write, publish and Meta.Close together.) *)
CloseToOpen ==
  \A f \in Fds :
    pc[f] = "idle" /\ inode.live /\ Settled
                   /\ of[f].generation = inode.generation
    => \A i \in Blocks : \A b \in ReadBlock(f, i) :
         \A k \in Offsets : b.data[k] = Entitled(f, CellOf(i, k))

(* What a mount with an empty cache that opens the file now reads first. *)
FreshBlock(i) ==
  LET p == inode.blocks[i]
  IN  IF p = <<>> THEN Zeros
      ELSE IF Head(p) = NoNode \/ store[Head(p)][i] = Absent THEN Zeros
      ELSE store[Head(p)][i]

Holds(i) ==
  \A k \in Offsets : CellOf(i, k) < inode.size
                     => FreshBlock(i)[k] = published[CellOf(i, k)]

(* A file opened afresh has, up to its size, the published content, whenever
   no publish is under way (Meta.Open's block_map and the primaries). *)
FreshOpen == inode.live /\ Settled => \A i \in Blocks : Holds(i)

(* Once flush, fsync or release has replied Ok, and until the next write,
   nothing written to the slot is left unpublished (publish's result against
   the buffers it took). *)
OkMeansPublished ==
  \A f \in Fds : result[f] = "ok" => wrote[f] = Clean

(* flush, fsync and release reply with no error (publish and Meta.Close). *)
PublishSucceeds == \A f \in Fds : result[f] # "err"

(* The placement a slot works with is the inode's: AllocateBlocks never gives
   two slots different stores for a block, whichever stores are Up when they
   ask, and the order in which they do. *)
PlacementAgreement ==
  inode.live =>
    \A f \in Fds : pc[f] # "closed" =>
      \A i \in Blocks : of[f].block_map[i] # <<>>
                        => of[f].block_map[i] = inode.blocks[i]

(* The cache cannot mask a close: an entry filed under the current generation
   is the primary's copy, unless a copy of that block has changed since that
   generation was published (block_cache's key and fetch_block's insert). *)
CacheFresh ==
  inode.live =>
    \A m \in Mounts : \A e \in cache[m] :
      e[1] = inode.generation /\ e[2] \notin stirred
      => /\ inode.blocks[e[2]] # <<>>
         /\ e[3] = store[Head(inode.blocks[e[2]])][e[2]]

(* A write within one block is buffered whole or not at all.  One that spans
   blocks and fails on a later one leaves the earlier ones dirty, and size_hint
   where it was. *)
WithinBlock(w) == \E i \in Blocks : \A c \in covers[w] : BlockOf(c) = i

(* The size is the end of what is published: a close that took its size_hint
   from an old open, or lost a publish on the way, cuts off no byte published
   by another mount, and until the file is truncated the size reaches no
   further than the last published byte (size_hint from Meta.Open through
   apply_write to the new_size of Meta.Close). *)
SizeFits ==
  inode.live =>
    /\ \A c \in Cells : published[c] # 0 /\ WithinBlock(published[c]) => c < inode.size
    /\ drops = 0 /\ inode.size # 0
       => \E c \in Cells : c + 1 = inode.size /\ published[c] # 0

InPlace(i, d) == \A k \in Offsets : d[k] # 0 => CellOf(i, k) \in covers[d[k]]

(* Bytes stay where they were written: a non-zero cell of any copy of a block
   holds the number of a write that covers that very cell (the offset
   arithmetic of apply_write through every buffer, cache and store). *)
Provenance ==
  /\ \A n \in Nodes, i \in Blocks : store[n][i] # Absent => InPlace(i, store[n][i])
  /\ \A f \in Fds, i \in Blocks :
       /\ of[f].dirty[i] # Absent => InPlace(i, of[f].dirty[i])
       /\ op[f].data[i] # Absent => InPlace(i, op[f].data[i])
  /\ \A m \in Mounts : \A e \in cache[m] : InPlace(e[2], e[3])
  /\ \A w \in spawned : InPlace(w.idx, w.data)

(* A block is read right while one store of its placement holds it right
   (fetch_block's search through primary and replicas). *)
SurvivingCopyRead ==
  inode.live /\ Settled =>
    \A i \in Blocks :
      (\E j \in DOMAIN inode.blocks[i] :
         LET n == inode.blocks[i][j]
         IN  /\ store[n][i] # Absent
             /\ \A k \in Offsets : store[n][i][k] = published[CellOf(i, k)])
      => Holds(i)

(* A mount is never stuck in a request: a handler that has started replies. *)
EveryRequestEnds ==
  \A f \in Fds : (pc[f] \notin {"closed", "idle"}) ~> (pc[f] \in {"closed", "idle"})

=============================================================================
