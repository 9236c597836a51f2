---------------------- MODULE FileDataExclusive_proofs ----------------------
(***************************************************************************)
(* Close-to-open, for any number of mounts, readers, blocks, stores and    *)
(* replicas, when the applications have the file open for writing one at a *)
(* time and nothing fails: every step preserves CalmInv of                 *)
(* FileData_proofs, first those of requests, read, write and eviction,     *)
(* then the publish and close.                                             *)
(***************************************************************************)
EXTENDS FileData_proofs

(* The steps by which a handler begins or ends with the OpenFile as it is. *)
LEMMA TurnCalm ==
  ASSUME Calm, TypeInv, CalmInv, NEW f \in Fds,
         WriteBegin(f) \/ PublishNothing(f) \/ PublishBegin(f)
  PROVE  CalmInv'
  <1>1. /\ pc \in [Fds -> Stages] /\ op \in [Fds -> Op] /\ writes \in Nat
        /\ result \in [Fds -> {"none", "ok", "err"}]
    BY CalmTypes, BoundsAssumption DEF TypeInv, TypeOK, Stamps
  <1>2. UNCHANGED <<inode, up, store, spawned, deletes, published, handles, of, cache, wrote>>
    BY DEF WriteBegin, PublishNothing, PublishBegin, metaVars, netVars, histVars
  <1>3. \A g \in Fds \ {f} : SameSlot(g)
    BY <1>1, <1>2 DEF WriteBegin, PublishNothing, PublishBegin, Reply, SameSlot, histVars
  <1>4. pc[f] = "idle" /\ pc'[f] \in {"idle", "closed", "write", "alloc"}
    BY <1>1 DEF WriteBegin, PublishNothing, PublishBegin, Reply, Ready
  <1>5. KeepsSends
    BY <1>2, <1>3, <1>4 DEF KeepsSends, SameSlot
  <1>6. OneWriter'
    BY <1>3, <1>4, SlotsAssumption DEF OneWriter, CalmInv, SlotsCalm, SameSlot
  <1>7. \A h \in Fds, i \in Blocks : Sending(h, i)' <=> Sending(h, i)
    BY <1>5, KeepsSendsCalm
  <1>8. MapCalm(f)'
    BY <1>2, <1>4, <1>7 DEF CalmInv, MapsCalm, MapCalm, Placed
  <1>9. \A i \in Blocks : ~Sending(f, i)
    BY <1>4 DEF Sending
  <1>10. SlotCalm(f)' /\ BufferCalm(f)'
    <2>1. CASE WriteBegin(f)
      <3>1. /\ f \in Writers /\ of[f].fh \in handles /\ pc'[f] = "write"
            /\ result'[f] = "none" /\ op'[f].stamp = writes + 1
        BY <1>1, <2>1 DEF WriteBegin, WriteOp, Calm
      <3>2. op'[f].stamp # 0
        BY <1>1, <3>1
      <3> QED BY <1>2, <1>4, <1>7, <3>1, <3>2 DEF CalmInv, SlotsCalm, SlotCalm, BuffersCalm,
                 BufferCalm, Own, Entitled, Untouched
    <2>2. CASE PublishNothing(f)
      <3>1. \A i \in Blocks : of[f].dirty[i] = Absent
        BY <2>2 DEF PublishNothing, DirtyBlocks
      <3>2. \A i \in Blocks : Untouched(f, i)
        BY <1>9, <3>1 DEF CalmInv, BuffersCalm, BufferCalm
      <3>3. wrote[f] = Clean
        BY <3>2, UntouchedClean
      <3>4. result'[f] = "ok" /\ pc'[f] \in {"idle", "closed"}
        BY <1>1, <2>2 DEF PublishNothing, Reply
      <3>5. SlotCalm(f)'
        BY <1>2, <1>4, <3>3, <3>4 DEF CalmInv, SlotsCalm, SlotCalm
      <3>6. BufferCalm(f)'
        BY <1>2, <3>1, <3>2 DEF BufferCalm, Untouched
      <3> QED BY <3>5, <3>6
    <2>3. CASE PublishBegin(f)
      <3>1. PICK i \in Blocks : of[f].dirty[i] # Absent
        BY <2>3 DEF PublishBegin, DirtyBlocks
      <3>2. f \in Writers /\ of[f].fh \in handles
        BY <3>1 DEF CalmInv, BuffersCalm, BufferCalm
      <3>3. pc'[f] = "alloc" /\ result' = result
        BY Zenon, <1>1, <2>3 DEF PublishBegin, histVars
      <3> QED BY ZenonT(30), <1>2, <1>4, <1>7, <3>2, <3>3 DEF CalmInv, SlotsCalm, SlotCalm, BuffersCalm,
                 BufferCalm, Own, Entitled, Untouched
    <2> QED BY Zenon, <2>1, <2>2, <2>3
  <1> QED BY <1>2, <1>3, <1>5, <1>6, <1>8, <1>10, SlotStep

(* fetch_block files an answer of the primary under the generation of its slot,
   which is published content, or about to be. *)
LEMMA FetchEntries ==
  ASSUME Calm, TypeInv, CalmInv, NEW f \in Fds, NEW i \in Blocks, pc[f] # "closed",
         of[f].dirty[i] # Absent \/ of[f].block_map[i] # <<>>, NEW b \in Fetch(f, i)
  PROVE  \A e \in b.cache : e \in cache[MountOf[f]] \/ EntryCalm(e)
  <1>1. CASE of[f].dirty[i] # Absent \/ Cached(f, i) # {}
    <2>1. CASE of[f].dirty[i] # Absent
      BY <2>1 DEF Fetch
    <2>2. CASE of[f].dirty[i] = Absent /\ Cached(f, i) # {}
      BY <2>2 DEF Fetch
    <2> QED BY <1>1, <2>1, <2>2
  <1>2. CASE of[f].dirty[i] = Absent /\ Cached(f, i) = {}
    <2>1. of[f].block_map[i] = inode.blocks[i] /\ Placed(i)
      BY Zenon, <1>2 DEF CalmInv, MapsCalm, MapCalm, Placed
    <2>2. of[f].block_map[i] = Chosen(i)
      BY <2>1 DEF CalmInv, MetaCalm
    <2>3. b = Answer(f, i, Prim(i))
      BY Zenon, <1>2, <2>2, AnsweringPrim DEF Fetch
    <2>4. CASE store[Prim(i)][i] = Absent
      BY <2>3, <2>4 DEF Answer
    <2>5. CASE store[Prim(i)][i] # Absent
      <3> DEFINE e == <<of[f].generation, i, store[Prim(i)][i]>>
      <3>1. b.cache = cache[MountOf[f]] \cup {e} /\ Stored(i) = store[Prim(i)][i]
        BY <2>3, <2>5 DEF Answer, Stored
      <3>2. of[f].generation <= inode.generation
        BY DEF CalmInv, SlotsCalm, SlotCalm
      <3>3. \/ Public(i, Stored(i))
            \/ \E g \in Fds : Sending(g, i) /\ store[Prim(i)][i] = op[g].data[i]
        BY Zenon, <2>1 DEF CalmInv, StoresCalm
      <3>4. EntryCalm(e)
        BY <3>1, <3>2, <3>3 DEF EntryCalm
      <3> QED BY Zenon, <3>1, <3>4
    <2> QED BY Zenon, <2>4, <2>5
  <1> QED BY <1>1, <1>2

(* Reading and evicting concern the caches only. *)
LEMMA CacheStep ==
  ASSUME CalmInv, UNCHANGED <<metaVars, store, of, pc, op, netVars, writes, drops, histVars>>,
         \A m \in Mounts : \A e \in cache'[m] : e \in cache[m] \/ EntryCalm(e)
  PROVE  CalmInv'
  <1>1. UNCHANGED <<inode, up, handles, store, spawned, deletes, published, of, pc, op, wrote,
                    result>>
    BY ZenonT(30) DEF metaVars, netVars, histVars
  <1>2. KeepsSends /\ \A g \in Fds : SameSlot(g)
    BY ZenonT(30), <1>1 DEF KeepsSends, SameSlot
  <1>3. \A g \in Fds : SlotCalm(g)' /\ MapCalm(g)' /\ BufferCalm(g)'
    BY Zenon, <1>1, <1>2, OthersCalm
  <1>4. OneWriter'
    BY Zenon, <1>1 DEF CalmInv, SlotsCalm, OneWriter
  <1> QED BY ZenonT(30), <1>2, <1>3, <1>4, KeepsSendsCalm, KeepsCachesCalm DEF CalmInv, SlotsCalm,
             MapsCalm, BuffersCalm

(* A read files what the primary answers. *)
LEMMA ReadCalm ==
  ASSUME Calm, TypeInv, CalmInv, NEW f \in Fds, Read(f) PROVE CalmInv'
  <1>1. PICK i \in Blocks : \E b \in ReadBlock(f, i) :
          cache' = [cache EXCEPT ![MountOf[f]] = b.cache]
    BY Zenon DEF Read
  <1>2. PICK b \in ReadBlock(f, i) : cache' = [cache EXCEPT ![MountOf[f]] = b.cache]
    BY Zenon, <1>1
  <1>3. \A e \in b.cache : e \in cache[MountOf[f]] \/ EntryCalm(e)
    <2>1. CASE of[f].block_map[i] = <<>> /\ of[f].dirty[i] = Absent
      BY <2>1 DEF ReadBlock
    <2>2. CASE ~(of[f].block_map[i] = <<>> /\ of[f].dirty[i] = Absent)
      <3>1. b \in Fetch(f, i) /\ pc[f] # "closed"
        BY <2>2 DEF ReadBlock, Read, Ready
      <3> QED BY <2>2, <3>1, FetchEntries
    <2> QED BY <2>1, <2>2
  <1>4. \A m \in Mounts : \A e \in cache'[m] : e \in cache[m] \/ EntryCalm(e)
    <2>1. cache \in [Mounts -> SUBSET (Nat \X Blocks \X Content)]
      BY CalmTypes
    <2> QED BY <1>2, <1>3, <2>1
  <1>5. UNCHANGED <<metaVars, store, of, pc, op, netVars, writes, drops, histVars>>
    BY DEF Read
  <1> QED BY Zenon, <1>4, <1>5, CacheStep

(* An eviction files nothing. *)
LEMMA EvictCalm ==
  ASSUME TypeInv, CalmInv, NEW m \in Mounts, Evict(m) PROVE CalmInv'
  <1>1. \A l \in Mounts : cache'[l] \subseteq cache[l]
    <2>1. cache \in [Mounts -> SUBSET (Nat \X Blocks \X Content)]
      BY CalmTypes
    <2> QED BY <2>1 DEF Evict
  <1>2. UNCHANGED <<metaVars, store, of, pc, op, netVars, writes, drops, histVars>>
    BY DEF Evict
  <1> QED BY <1>1, <1>2, CacheStep

(* A writer at work is the only one, so no publish is under way. *)
LEMMA WriterSettles ==
  ASSUME CalmInv, NEW f \in Fds, pc[f] \in {"write", "alloc"}
  PROVE  Settled /\ f \in Writers /\ of[f].fh \in handles
         /\ of[f].generation = inode.generation
  <1>1. f \in Writers /\ of[f].fh \in handles /\ of[f].generation = inode.generation
    BY DEF CalmInv, SlotsCalm, SlotCalm
  <1>2. \A g \in Fds : pc[g] = "send" => g = f
    BY Zenon, <1>1 DEF CalmInv, SlotsCalm, SlotCalm, OneWriter
  <1> QED BY <1>1, <1>2 DEF Settled

(* What a turn of apply_write starts from is what its slot is entitled to, or
   is overwritten whole. *)
LEMMA WriteBaseOwn ==
  ASSUME Calm, TypeInv, CalmInv, NEW f \in Fds, pc[f] = "write",
         NEW b \in WriteBase(f, BlockOf(op[f].cur))
  PROVE  /\ \A k \in Offsets :
              \/ k \in InBlock(op[f].cur) .. InBlock(op[f].cur) + (ChunkEnd(f) - op[f].cur) - 1
              \/ b.data[k] = Entitled(f, CellOf(BlockOf(op[f].cur), k))
         /\ \A e \in b.cache : e \in cache[MountOf[f]] \/ EntryCalm(e)
  <1> DEFINE i == BlockOf(op[f].cur)
  <1>1. /\ i \in Blocks /\ op[f].cur \in Nat /\ ChunkEnd(f) \in Nat
        /\ op[f].cur < ChunkEnd(f) /\ ChunkEnd(f) <= i * BlockSize + BlockSize
    BY ChunkEndBounds
  <1>2. Settled /\ of[f].generation = inode.generation
    BY WriterSettles
  <1>3. i * BlockSize \in Nat /\ i * BlockSize <= op[f].cur
        /\ InBlock(op[f].cur) = op[f].cur - i * BlockSize
    BY Zenon, <1>1, DivBounds, BoundsAssumption DEF InBlock, BlockOf
  <1>4. CASE \/ of[f].dirty[i] # Absent
             \/ of[f].block_map[i] # <<>> /\ ChunkEnd(f) - op[f].cur < BlockSize
    <2>1. b \in Fetch(f, i)
      BY Zenon, <1>4 DEF WriteBase
    <2> HIDE DEF i
    <2>2. Own(f, i, b.data)
      BY <1>1, <1>2, <1>4, <2>1, FetchOwn
    <2>3. \A e \in b.cache : e \in cache[MountOf[f]] \/ EntryCalm(e)
      BY Zenon, <1>1, <1>4, <2>1, FetchEntries
    <2> QED BY <2>2, <2>3 DEF Own, i
  <1>5. CASE of[f].dirty[i] = Absent /\ of[f].block_map[i] = <<>>
    <2>1. b.data = Zeros /\ b.cache = cache[MountOf[f]]
      BY <1>5 DEF WriteBase
    <2> HIDE DEF i
    <2>2. Own(f, i, Zeros)
      BY Zenon, <1>1, <1>2, <1>5, HoleOwn
    <2> QED BY Zenon, <2>1, <2>2 DEF Own, i
  <1>6. CASE of[f].dirty[i] = Absent /\ ~(ChunkEnd(f) - op[f].cur < BlockSize)
    <2>1. b.cache = cache[MountOf[f]]
      BY <1>6 DEF WriteBase
    <2> HIDE DEF i
    <2>2. InBlock(op[f].cur) = 0 /\ ChunkEnd(f) - op[f].cur = BlockSize
      BY <1>1, <1>3, <1>6, BoundsAssumption
    <2>3. \A k \in Offsets : k \in 0 .. 0 + BlockSize - 1
      BY BoundsAssumption DEF Offsets
    <2> QED BY Zenon, <2>1, <2>2, <2>3
  <1> QED BY Zenon, <1>4, <1>5, <1>6

(* A turn of apply_write: the buffer and the cells written move together. *)
LEMMA WriteStepCalm ==
  ASSUME Calm, TypeInv, CalmInv, NEW f \in Fds, WriteStep(f) PROVE CalmInv'
  <1> DEFINE i == BlockOf(op[f].cur)
             len == ChunkEnd(f) - op[f].cur
             from == InBlock(op[f].cur)
             done == ChunkEnd(f) = op[f].end
             Chunk(b) == [k \in Offsets |-> IF k \in from .. from + len - 1
                                            THEN op[f].stamp ELSE b.data[k]]
  <1>1. /\ pc[f] = "write"
        /\ op' = [op EXCEPT ![f] = IF done THEN NoOp ELSE [@ EXCEPT !.cur = ChunkEnd(f)]]
        /\ pc' = [pc EXCEPT ![f] = IF done THEN "idle" ELSE "write"]
        /\ wrote' = [wrote EXCEPT ![f] = [c \in Cells |->
             IF c \in op[f].cur .. ChunkEnd(f) - 1 THEN op[f].stamp ELSE @[c]]]
        /\ UNCHANGED <<inode, up, handles, store, spawned, deletes, published, result>>
    BY DEF WriteStep, metaVars, netVars
  <1>2. PICK b \in WriteBase(f, i) :
          /\ of' = [of EXCEPT ![f].dirty[i] = Chunk(b),
                 ![f].size_hint = IF done THEN Extended(@, op[f].end) ELSE @]
          /\ cache' = [cache EXCEPT ![MountOf[f]] = b.cache]
    BY Zenon DEF WriteStep
  <1>3. i \in Blocks
    BY <1>1, ChunkEndBounds
  <1>4. /\ of \in [Fds -> OpenFile] /\ pc \in [Fds -> Stages] /\ op \in [Fds -> Op]
        /\ wrote \in [Fds -> [Cells -> Stamps]]
        /\ cache \in [Mounts -> SUBSET (Nat \X Blocks \X Content)]
    BY CalmTypes
  <1>5. /\ Settled /\ f \in Writers /\ of[f].fh \in handles
        /\ of[f].generation = inode.generation
    BY <1>1, WriterSettles
  <1>6. \A k \in Offsets : k \in from .. from + len - 1
                           \/ b.data[k] = Entitled(f, CellOf(i, k))
    BY <1>1, <1>2, WriteBaseOwn
  <1>7. \A e \in b.cache : e \in cache[MountOf[f]] \/ EntryCalm(e)
    BY <1>1, <1>2, WriteBaseOwn
  <1>8. \A j \in Blocks, k \in Offsets :
          CellOf(j, k) \in op[f].cur .. ChunkEnd(f) - 1
          <=> j = i /\ k \in from .. from + len - 1
    BY <1>1, ChunkCells
  <1>9. op[f].stamp # 0 /\ result[f] = "none"
    BY Zenon, <1>1 DEF CalmInv, SlotsCalm, SlotCalm
  <1>10. \A j \in Blocks, k \in Offsets :
           wrote'[f][CellOf(j, k)] = IF j = i /\ k \in from .. from + len - 1
                                     THEN op[f].stamp ELSE wrote[f][CellOf(j, k)]
    <2>1. \A j \in Blocks, k \in Offsets : CellOf(j, k) \in Cells
      BY CellTypes
    <2>2. \A c \in Cells : wrote'[f][c] = IF c \in op[f].cur .. ChunkEnd(f) - 1
                                          THEN op[f].stamp ELSE wrote[f][c]
      BY <1>1, <1>4
    <2> HIDE DEF i, from, len
    <2> QED BY <1>8, <2>1, <2>2
  <1>11. pc'[f] \in {"idle", "write"} /\ (pc'[f] = "write" => op'[f].stamp = op[f].stamp)
    BY <1>1, <1>4 DEF Op
  <1> HIDE DEF from, len, done, i, Chunk
  <1>12. /\ of'[f].fh = of[f].fh /\ of'[f].generation = of[f].generation
         /\ of'[f].block_map = of[f].block_map
         /\ of'[f].dirty = [of[f].dirty EXCEPT ![i] = Chunk(b)]
    BY <1>2, <1>4 DEF OpenFile
  <1>13. \A g \in Fds \ {f} : SameSlot(g)
    BY <1>1, <1>2, <1>4 DEF SameSlot
  <1>14. KeepsSends
    BY <1>1, <1>11, <1>13 DEF KeepsSends, SameSlot
  <1>15. \A m \in Mounts : \A e \in cache'[m] : e \in cache[m] \/ EntryCalm(e)
    BY <1>2, <1>4, <1>7
  <1>16. OneWriter'
    BY <1>1, <1>13, SlotsAssumption DEF OneWriter, CalmInv, SlotsCalm, SameSlot
  <1>17. SlotCalm(f)'
    BY <1>1, <1>5, <1>9, <1>11, <1>12 DEF CalmInv, SlotsCalm, SlotCalm
  <1>18. \A h \in Fds, j \in Blocks : Sending(h, j)' <=> Sending(h, j)
    BY <1>14, KeepsSendsCalm
  <1>19. MapCalm(f)'
    BY <1>1, <1>12, <1>18 DEF CalmInv, MapsCalm, MapCalm, Placed
  <1>20. BufferCalm(f)'
    <2>1. ASSUME NEW j \in Blocks, j # i, of'[f].dirty[j] # Absent
          PROVE  Own(f, j, of[f].dirty[j])' /\ of'[f].dirty[j] = of[f].dirty[j]
      <3>1. of'[f].dirty[j] = of[f].dirty[j]
        BY Zenon, <1>4, <1>12, <2>1 DEF OpenFile
      <3>2. Own(f, j, of[f].dirty[j])
        BY <2>1, <3>1 DEF CalmInv, BuffersCalm, BufferCalm
      <3>3. \A k \in Offsets : Entitled(f, CellOf(j, k))' = Entitled(f, CellOf(j, k))
        BY ZenonT(30), <1>1, <1>10, <2>1 DEF Entitled
      <3> QED BY Zenon, <3>1, <3>2, <3>3 DEF Own
    <2>2. of'[f].dirty[i] = Chunk(b)
      BY <1>3, <1>4, <1>12 DEF OpenFile
    <2>3. ASSUME NEW j \in Blocks, j = i, NEW k \in Offsets
          PROVE  Chunk(b)[k] = Entitled(f, CellOf(j, k))'
      <3>1. CASE k \in from .. from + len - 1
        BY Zenon, <1>9, <1>10, <2>3, <3>1 DEF Entitled, Chunk
      <3>2. CASE k \notin from .. from + len - 1
        <4>1. wrote'[f][CellOf(j, k)] = wrote[f][CellOf(j, k)] /\ published' = published
          BY <1>1, <1>10, <3>2
        <4>2. Chunk(b)[k] = Entitled(f, CellOf(j, k))
          BY <1>6, <2>3, <3>2 DEF Chunk
        <4> QED BY <4>1, <4>2 DEF Entitled
      <3> QED BY <3>1, <3>2
    <2>4. ASSUME NEW j \in Blocks, of'[f].dirty[j] # Absent
          PROVE  Own(f, j, of[f].dirty[j])'
      <3>1. CASE j = i
        BY <2>2, <2>3, <3>1 DEF Own
      <3>2. CASE j # i
        BY <2>1, <2>4, <3>2
      <3> QED BY <3>1, <3>2
    <2>5. ASSUME NEW j \in Blocks, of'[f].dirty[j] = Absent PROVE Untouched(f, j)'
      <3>1. j # i
        <4>1. Chunk(b) \in Content
          <5>1. b \in Fetched /\ op[f].stamp \in Stamps
            BY Zenon, <1>1, <1>2, <1>3, WriteBaseType, ChunkEndBounds
          <5> QED BY <5>1 DEF Chunk, Fetched, Content
        <4> QED BY <2>2, <2>5, <4>1, AbsentAssumption
      <3>2. of[f].dirty[j] = Absent
        BY <1>4, <1>12, <2>5, <3>1 DEF OpenFile
      <3>3. Untouched(f, j)
        BY <1>1, <3>2 DEF CalmInv, BuffersCalm, BufferCalm, Sending
      <3> QED BY <1>10, <3>1, <3>3 DEF Untouched
    <2> QED BY Zenon, <1>1, <1>5, <1>11, <1>12, <2>4, <2>5 DEF BufferCalm
  <1> QED BY <1>1, <1>13, <1>14, <1>15, <1>16, <1>17, <1>19, <1>20, SlotStep
----------------------------------------------------------------------------
(* What AllocateBlocks does when every store is Up and no other publish is
   under way: each dirty block is placed where pick_nodes says. *)
LEMMA AllocateParts ==
  ASSUME Calm, TypeInv, CalmInv, NEW f \in Fds, PublishAllocate(f)
  PROVE  /\ Settled /\ \A g \in Fds, i \in Blocks : ~Sending(g, i)
         /\ \A g \in Fds \ {f} : SameSlot(g)
         /\ pc[f] = "alloc" /\ pc'[f] = "send"
         /\ of'[f].fh = of[f].fh /\ of'[f].generation = of[f].generation
         /\ of'[f].dirty = NoDirty /\ op'[f].data = of[f].dirty
         /\ inode'.live = inode.live /\ inode'.generation = inode.generation
         /\ \A i \in Blocks :
              /\ Placed(i) => inode'.blocks[i] = inode.blocks[i]
              /\ of[f].dirty[i] # Absent =>
                   /\ inode'.blocks[i] = Chosen(i) /\ Chosen(i) # <<>>
                   /\ of'[f].block_map[i] = Chosen(i) /\ op'[f].left[i] = Chosen(i)
              /\ of[f].dirty[i] = Absent =>
                   /\ inode'.blocks[i] = inode.blocks[i]
                   /\ of'[f].block_map[i] = of[f].block_map[i]
  <1> DEFINE map == [i \in Blocks |-> IF i \in NewBlocks(f)
                                      THEN Allocated(f)[i] ELSE of[f].block_map[i]]
             left == [i \in Blocks |-> IF i \in DirtyBlocks(f) THEN map[i] ELSE <<>>]
  <1>1. /\ pc[f] = "alloc"
        /\ inode' = [inode EXCEPT !.blocks = Allocated(f)]
        /\ of' = [of EXCEPT ![f].block_map = map, ![f].dirty = NoDirty]
        /\ op' = [op EXCEPT ![f].data = of[f].dirty, ![f].left = left]
        /\ pc' = [pc EXCEPT ![f] = "send"]
        /\ UNCHANGED <<wrote, result>>
    BY DEF PublishAllocate, histVars
  <1>2. /\ of \in [Fds -> OpenFile] /\ pc \in [Fds -> Stages] /\ op \in [Fds -> Op]
        /\ inode \in Inode
    BY CalmTypes
  <1>3. Settled /\ of[f].generation = inode.generation
    BY <1>1, WriterSettles
  <1>4. \A g \in Fds, i \in Blocks : ~Sending(g, i)
    BY <1>3 DEF Settled, Sending
  <1>5. \A i \in Blocks : i \in NewBlocks(f) => ~Placed(i)
    BY <1>1, <1>3, <1>4 DEF NewBlocks, CalmInv, MapsCalm, MapCalm
  <1>6. \A i \in Blocks : Place(i) = Chosen(i) /\ Chosen(i) # <<>>
    BY ChosenParts DEF Place, Chosen, CalmInv, MetaCalm
  <1>7. \A i \in Blocks : Allocated(f)[i] = IF i \in NewBlocks(f) THEN Chosen(i)
                                            ELSE inode.blocks[i]
    BY <1>5, <1>6 DEF Allocated, Placed
  <1>8. /\ inode'.blocks = Allocated(f) /\ inode'.live = inode.live
        /\ inode'.generation = inode.generation
    BY <1>1, <1>2 DEF Inode
  <1> HIDE DEF left
  <1>9. op'[f].data = of[f].dirty /\ op'[f].left = left
    BY <1>1, <1>2 DEF Op
  <1>10. \A i \in Blocks : map[i] = IF i \in NewBlocks(f) THEN Chosen(i)
                                    ELSE of[f].block_map[i]
    BY <1>7
  <1> HIDE DEF map
  <1>11. /\ of'[f].fh = of[f].fh /\ of'[f].generation = of[f].generation
         /\ of'[f].dirty = NoDirty /\ of'[f].block_map = map
    BY <1>1, <1>2 DEF OpenFile
  <1>12. pc'[f] = "send" /\ \A g \in Fds \ {f} : SameSlot(g)
    BY <1>1, <1>2 DEF SameSlot
  <1>13. ASSUME NEW i \in Blocks, Placed(i) PROVE inode'.blocks[i] = inode.blocks[i]
    BY <1>5, <1>7, <1>8, <1>13
  <1>14. ASSUME NEW i \in Blocks, of[f].dirty[i] # Absent
         PROVE  /\ inode'.blocks[i] = Chosen(i) /\ Chosen(i) # <<>>
                /\ of'[f].block_map[i] = Chosen(i) /\ op'[f].left[i] = Chosen(i)
    <2>1. op'[f].left[i] = map[i]
      BY <1>9, <1>14 DEF DirtyBlocks, left
    <2>2. CASE i \in NewBlocks(f)
      BY <1>6, <1>7, <1>8, <1>10, <1>11, <2>1, <2>2
    <2>3. CASE i \notin NewBlocks(f)
      <3>1. of[f].block_map[i] # <<>>
        BY <1>14, <2>3 DEF NewBlocks, DirtyBlocks
      <3>2. of[f].block_map[i] = inode.blocks[i] /\ inode.blocks[i] = Chosen(i)
        BY <1>1, <3>1 DEF CalmInv, MapsCalm, MapCalm, MetaCalm, Placed
      <3> QED BY <1>6, <1>7, <1>8, <1>10, <1>11, <2>1, <2>3, <3>2
    <2> QED BY <2>2, <2>3
  <1>15. ASSUME NEW i \in Blocks, of[f].dirty[i] = Absent
         PROVE  /\ inode'.blocks[i] = inode.blocks[i]
                /\ of'[f].block_map[i] = of[f].block_map[i]
    <2>1. i \notin NewBlocks(f)
      BY <1>15 DEF NewBlocks, DirtyBlocks
    <2> QED BY <1>7, <1>8, <1>10, <1>11, <2>1
  <1> QED BY Zenon, <1>1, <1>3, <1>4, <1>8, <1>9, <1>11, <1>12, <1>13, <1>14, <1>15

(* The buffers become a publish under way, of blocks still to be sent. *)
LEMMA PublishAllocateCalm ==
  ASSUME Calm, TypeInv, CalmInv, NEW f \in Fds, PublishAllocate(f) PROVE CalmInv'
  <1>1. /\ pc[f] = "alloc" /\ pc'[f] = "send"
        /\ of'[f].fh = of[f].fh /\ of'[f].generation = of[f].generation
        /\ of'[f].dirty = NoDirty /\ op'[f].data = of[f].dirty
        /\ inode'.live = inode.live /\ inode'.generation = inode.generation
        /\ \A g \in Fds \ {f} : SameSlot(g)
    BY AllocateParts
  <1>2. Settled /\ \A g \in Fds, i \in Blocks : ~Sending(g, i)
    BY AllocateParts
  <1>3. \A i \in Blocks : Placed(i) => inode'.blocks[i] = inode.blocks[i]
    BY AllocateParts
  <1>4. \A i \in Blocks : of[f].dirty[i] # Absent =>
          /\ inode'.blocks[i] = Chosen(i) /\ Chosen(i) # <<>>
          /\ of'[f].block_map[i] = Chosen(i) /\ op'[f].left[i] = Chosen(i)
    BY AllocateParts
  <1>5. \A i \in Blocks : of[f].dirty[i] = Absent =>
          /\ inode'.blocks[i] = inode.blocks[i]
          /\ of'[f].block_map[i] = of[f].block_map[i]
    BY AllocateParts
  <1>6. UNCHANGED <<up, handles, store, spawned, deletes, published, wrote, result, cache>>
    BY DEF PublishAllocate, netVars, histVars
  <1>7. f \in Writers /\ of[f].fh \in handles /\ of[f].generation = inode.generation
    BY <1>1, WriterSettles
  <1>8. \A g \in Fds, i \in Blocks : Sending(g, i)' <=> g = f /\ of[f].dirty[i] # Absent
    <2>1. \A g \in Fds \ {f} : pc'[g] # "send"
      BY Zenon, <1>1, <1>2 DEF Settled, SameSlot
    <2> QED BY <1>1, <2>1 DEF Sending
  <1>9. MetaCalm'
    BY <1>1, <1>4, <1>5, <1>6 DEF CalmInv, MetaCalm, Placed
  <1>10. SlotsCalm'
    <2>1. OneWriter'
      BY <1>1, SlotsAssumption DEF OneWriter, CalmInv, SlotsCalm, SameSlot
    <2>2. SlotCalm(f)'
      BY ZenonT(30), <1>1, <1>6, <1>7 DEF CalmInv, SlotsCalm, SlotCalm
    <2>3. ASSUME NEW g \in Fds \ {f} PROVE SlotCalm(g)'
      <3>1. SlotCalm(g) /\ SameSlot(g)
        BY Zenon, <1>1 DEF CalmInv, SlotsCalm
      <3> QED BY Zenon, <1>1, <1>6, <3>1 DEF SlotCalm, SameSlot
    <2> QED BY <2>1, <2>2, <2>3 DEF SlotsCalm
  <1>11. MapsCalm'
    <2>1. MapCalm(f)'
      <3>1. ASSUME NEW i \in Blocks, of'[f].block_map[i] # <<>>
            PROVE  of'[f].block_map[i] = inode'.blocks[i]
        BY ZenonT(30), <1>1, <1>4, <1>5, <3>1 DEF CalmInv, MapsCalm, MapCalm
      <3>2. ASSUME NEW i \in Blocks, of'[f].block_map[i] = <<>> PROVE inode'.blocks[i] = <<>>
        <4>1. of[f].dirty[i] = Absent
          BY Zenon, <1>4, <3>2
        <4>2. of[f].block_map[i] = <<>> /\ inode'.blocks[i] = inode.blocks[i]
          BY Zenon, <1>5, <3>2, <4>1
        <4>3. MapCalm(f) /\ pc[f] # "closed"
          BY <1>1 DEF CalmInv, MapsCalm
        <4> QED BY <1>2, <1>7, <4>2, <4>3 DEF MapCalm, Placed
      <3> QED BY ZenonT(30), <3>1, <3>2 DEF MapCalm, Placed
    <2>2. ASSUME NEW g \in Fds \ {f} PROVE MapCalm(g)'
      <3>1. pc'[g] = pc[g] /\ of'[g] = of[g]
        BY <1>1 DEF SameSlot
      <3>2. ASSUME NEW i \in Blocks, pc[g] # "closed", of[g].block_map[i] # <<>>
            PROVE  of[g].block_map[i] = inode'.blocks[i]
        BY <1>3, <3>2 DEF CalmInv, MapsCalm, MapCalm, Placed
      <3>3. ASSUME NEW i \in Blocks, pc[g] # "closed", of[g].block_map[i] = <<>>,
                   of[g].generation = inode.generation, Placed(i)'
            PROVE  Sending(f, i)'
        <4>1. ~Placed(i)
          BY <1>2, <3>3 DEF CalmInv, MapsCalm, MapCalm
        <4>2. of[f].dirty[i] # Absent
          BY ZenonT(30), <1>5, <3>3, <4>1 DEF Placed
        <4> QED BY <1>8, <4>2
      <3> QED BY <1>1, <3>1, <3>2, <3>3 DEF MapCalm
    <2> QED BY <2>1, <2>2 DEF MapsCalm
  <1>12. BuffersCalm'
    <2>1. BufferCalm(f)'
      BY ZenonT(30), <1>1, <1>2, <1>6, <1>8 DEF CalmInv, BuffersCalm, BufferCalm, NoDirty, Untouched
    <2>2. ASSUME NEW g \in Fds \ {f} PROVE BufferCalm(g)'
      <3>1. BufferCalm(g) /\ \A i \in Blocks : ~Sending(g, i)
        BY Zenon, <1>2 DEF CalmInv, BuffersCalm
      <3>2. /\ pc'[g] = pc[g] /\ of'[g] = of[g] /\ wrote'[g] = wrote[g]
            /\ handles' = handles /\ published' = published
        BY Zenon, <1>1, <1>6 DEF SameSlot
      <3>3. \A i \in Blocks : /\ Untouched(g, i) => Untouched(g, i)'
                              /\ Own(g, i, of[g].dirty[i]) => Own(g, i, of[g].dirty[i])'
        BY Zenon, <3>2 DEF Untouched, Own, Entitled
      <3> QED BY Zenon, <3>1, <3>2, <3>3 DEF BufferCalm
    <2> QED BY <2>1, <2>2 DEF BuffersCalm
  <1>13. SendsCalm'
    <2> SUFFICES ASSUME NEW i \in Blocks, of[f].dirty[i] # Absent
                 PROVE  /\ inode'.blocks[i] # <<>> /\ of'[f].block_map[i] # <<>>
                        /\ Own(f, i, op[f].data[i])'
                        /\ \A j \in DOMAIN op'[f].left[i] : op'[f].left[i][j] # NoNode
                        /\ op'[f].left[i] = Chosen(i)
      BY <1>8 DEF SendsCalm, Placed
    <2>1. Own(f, i, of[f].dirty[i])
      BY Zenon DEF CalmInv, BuffersCalm, BufferCalm
    <2>2. Own(f, i, op[f].data[i])'
      BY ZenonT(30), <1>1, <1>6, <2>1 DEF Own, Entitled
    <2> QED BY Zenon, <1>4, <2>2, ChosenParts
  <1>14. StoresCalm'
    <2>1. ASSUME NEW i \in Blocks PROVE Public(i, Stored(i))
      <3>1. CASE Placed(i)
        BY <1>2, <3>1 DEF CalmInv, StoresCalm
      <3>2. CASE ~Placed(i)
        BY <3>2 DEF CalmInv, StoresCalm, Stored
      <3> QED BY <3>1, <3>2
    <2>2. \A i \in Blocks : Public(i, Stored(i))'
      BY <1>6, <2>1 DEF Public, Stored, Prim
    <2>3. ASSUME NEW i \in Blocks, ~Placed(i)' PROVE ~Placed(i)
      BY Zenon, <1>3, <2>3 DEF Placed
    <2>4. \A i \in Blocks : ~Placed(i)' => Public(i, Zeros)' /\ store'[Prim(i)][i] = Absent
      BY <1>6, <2>3 DEF CalmInv, StoresCalm, Public
    <2> QED BY <1>6, <2>2, <2>4 DEF CalmInv, StoresCalm, Prim
  <1>15. CachesCalm'
    <2>1. ASSUME NEW m \in Mounts, NEW e \in cache[m] PROVE EntryCalm(e)'
      <3>1. e[2] \in Blocks
        <4>1. cache[m] \subseteq Nat \X Blocks \X Content
          BY CalmTypes
        <4> QED BY <2>1, <4>1
      <3>2. EntryCalm(e)
        BY <2>1 DEF CalmInv, CachesCalm
      <3> QED BY <1>1, <1>2, <1>6, <3>1, <3>2 DEF EntryCalm, Public
    <2> QED BY Zenon, <1>6, <2>1 DEF CachesCalm
  <1> QED BY <1>9, <1>10, <1>11, <1>12, <1>13, <1>14, <1>15 DEF CalmInv

----------------------------------------------------------------------------
(* Steps that move blocks to their stores and no more. *)
LEMMA StoresStep ==
  ASSUME CalmInv,
         UNCHANGED <<inode, handles, up, of, pc, cache, deletes, published, wrote, result>>,
         \A g \in Fds : op'[g].data = op[g].data /\ op'[g].stamp = op[g].stamp,
         SendsCalm', StoresCalm'
  PROVE  CalmInv'
  <1>1. \A g \in Fds, i \in Blocks : Sending(g, i)' <=> Sending(g, i)
    BY DEF Sending
  <1>2. MetaCalm'
    BY DEF CalmInv, MetaCalm, Placed
  <1>3. SlotsCalm'
    BY ZenonT(30) DEF CalmInv, SlotsCalm, SlotCalm, OneWriter
  <1>4. MapsCalm'
    BY <1>1 DEF CalmInv, MapsCalm, MapCalm, Placed
  <1>5. BuffersCalm'
    BY ZenonT(30), <1>1 DEF CalmInv, BuffersCalm, BufferCalm, Own, Entitled, Untouched
  <1>6. CachesCalm'
    BY DEF CalmInv, CachesCalm, EntryCalm, Public, Sending
  <1> QED BY <1>2, <1>3, <1>4, <1>5, <1>6 DEF CalmInv

(* The stores after the first. *)
LEMMA PlacementTail ==
  ASSUME NEW p \in Placement, p # <<>>, NEW j \in DOMAIN Tail(p)
  PROVE  j + 1 \in DOMAIN p /\ Tail(p)[j] = p[j + 1]
  <1>1. CASE p \in Seq(Nodes)
    BY <1>1
  <1>2. CASE p = <<NoNode>>
    <2>1. Tail(p) = <<>>
      BY <1>2
    <2> QED BY <2>1
  <1> QED BY <1>1, <1>2 DEF Placement

(* What sending a block does: the primary has it, and what remains to be sent
   or was left running does not concern the primary. *)
LEMMA SendParts ==
  ASSUME Calm, TypeInv, CalmInv, NEW f \in Fds, SendBlock(f)
  PROVE  /\ op'[f].data = op[f].data /\ op'[f].stamp = op[f].stamp
         /\ \A g \in Fds \ {f} : op'[g] = op[g]
         /\ \E i \in Blocks :
              /\ Sending(f, i) /\ store'[Prim(i)][i] = op[f].data[i]
              /\ \A j \in DOMAIN op'[f].left[i] : op'[f].left[i][j] \notin {NoNode, Prim(i)}
              /\ \A j \in Blocks \ {i} : /\ store'[Prim(j)][j] = store[Prim(j)][j]
                                         /\ op'[f].left[j] = op[f].left[j]
              /\ \A w \in spawned' : w \in spawned \/ w.node # Prim(w.idx)
  <1>1. PICK i \in Unsent(f) :
          LET n == Head(op[f].left[i])
              rest == Tail(op[f].left[i])
          IN
          /\ n # NoNode
          /\ store' = [store EXCEPT ![n][i] = op[f].data[i]]
          /\ IF op[f].kind = "fsync"
             THEN /\ op' = [op EXCEPT ![f].left[i] = rest]
                  /\ UNCHANGED spawned
             ELSE /\ op' = [op EXCEPT ![f].left[i] = <<>>]
                  /\ spawned' = spawned \cup {WriteMsg(rest[j], i, op[f].data[i])
                                                : j \in DOMAIN rest}
    BY Zenon DEF SendBlock
  <1> DEFINE p == op[f].left[i]
             left == IF op[f].kind = "fsync" THEN Tail(p) ELSE <<>>
  <1>2. /\ pc[f] = "send" /\ i \in Blocks /\ p # <<>> /\ op[f].data[i] # Absent
    BY DEF SendBlock, Unsent, TypeInv, Shape
  <1>3. Sending(f, i)
    BY <1>2 DEF Sending
  <1>4. op \in [Fds -> Op] /\ store \in [Nodes -> [Blocks -> MaybeContent]] /\ p \in Placement
    <2>1. op \in [Fds -> Op] /\ store \in [Nodes -> [Blocks -> MaybeContent]]
      BY CalmTypes
    <2> QED BY <1>2, <2>1 DEF Op
  <1>5. op' = [op EXCEPT ![f].left[i] = left]
    BY <1>1
  <1>6. store' = [store EXCEPT ![p[1]][i] = op[f].data[i]] /\ 1 \in DOMAIN p
    BY Zenon, <1>1, <1>2, <1>4, PlacementHead
  <1>7. \A w \in spawned' : \/ w \in spawned
                            \/ \E j \in DOMAIN Tail(p) : w.node = Tail(p)[j] /\ w.idx = i
    BY <1>1 DEF WriteMsg
  <1>8. /\ \A j \in DOMAIN p : p[j] # NoNode
        /\ p = Chosen(i) \/ (store[Prim(i)][i] = op[f].data[i]
                             /\ \A j \in DOMAIN p : p[j] # Prim(i))
    BY Zenon, <1>2, <1>3 DEF CalmInv, SendsCalm
  <1>9. \A j \in DOMAIN Tail(p) : Tail(p)[j] \notin {NoNode, Prim(i)}
    <2>1. \A j \in DOMAIN Tail(p) : j + 1 \in DOMAIN p /\ Tail(p)[j] = p[j + 1]
      BY Zenon, <1>2, <1>4, PlacementTail
    <2>2. CASE p = Chosen(i)
      BY Zenon, <1>2, <2>2, ChosenParts, <1>8, <2>1
    <2>3. CASE \A j \in DOMAIN p : p[j] # Prim(i)
      BY <1>8, <2>1, <2>3
    <2> QED BY <1>8, <2>2, <2>3
  <1>10. \A j \in Blocks : Prim(j) \in Nodes
    BY Zenon, ChosenParts
  <1>11. store'[Prim(i)][i] = op[f].data[i]
    <2>1. CASE p = Chosen(i)
      <3>1. p[1] = Prim(i)
        BY <1>2, <1>4, <2>1, PlacementHead DEF Prim
      <3> HIDE DEF p
      <3> QED BY <1>2, <1>4, <1>6, <1>10, <3>1
    <2>2. CASE store[Prim(i)][i] = op[f].data[i] /\ \A j \in DOMAIN p : p[j] # Prim(i)
      <3>1. p[1] # Prim(i)
        BY <1>6, <2>2
      <3> HIDE DEF p
      <3> QED BY Zenon, <1>2, <1>4, <1>6, <1>10, <2>2, <3>1
    <2> QED BY <1>8, <2>1, <2>2
  <1> HIDE DEF p
  <1>12. \A j \in Blocks \ {i} : store'[Prim(j)][j] = store[Prim(j)][j]
    BY <1>2, <1>4, <1>6, <1>10
  <1>13. \A j \in DOMAIN left : left[j] \notin {NoNode, Prim(i)}
    BY <1>9
  <1> HIDE DEF left
  <1>14. /\ op'[f].data = op[f].data /\ op'[f].stamp = op[f].stamp
         /\ op'[f].left = [op[f].left EXCEPT ![i] = left]
         /\ \A g \in Fds \ {f} : op'[g] = op[g]
    BY <1>4, <1>5 DEF Op
  <1>15. op'[f].left[i] = left /\ \A j \in Blocks \ {i} : op'[f].left[j] = op[f].left[j]
    BY <1>2, <1>4, <1>14 DEF Op
  <1>16. \A w \in spawned' : w \in spawned \/ w.node # Prim(w.idx)
    BY <1>7, <1>9
  <1> QED BY <1>2, <1>3, <1>11, <1>12, <1>13, <1>14, <1>15, <1>16

(* A block sent has reached its primary. *)
LEMMA SendBlockCalm ==
  ASSUME Calm, TypeInv, CalmInv, NEW f \in Fds, SendBlock(f) PROVE CalmInv'
  <1>1. /\ op'[f].data = op[f].data /\ op'[f].stamp = op[f].stamp
        /\ \A g \in Fds \ {f} : op'[g] = op[g]
    BY ZenonT(30), SendParts
  <1>2. PICK i \in Blocks :
          /\ Sending(f, i) /\ store'[Prim(i)][i] = op[f].data[i]
          /\ \A j \in DOMAIN op'[f].left[i] : op'[f].left[i][j] \notin {NoNode, Prim(i)}
          /\ \A j \in Blocks \ {i} : /\ store'[Prim(j)][j] = store[Prim(j)][j]
                                     /\ op'[f].left[j] = op[f].left[j]
          /\ \A w \in spawned' : w \in spawned \/ w.node # Prim(w.idx)
    BY SendParts
  <1>3. UNCHANGED <<inode, handles, up, of, pc, cache, deletes, published, wrote, result>>
    BY DEF SendBlock, metaVars
  <1>4. \A g \in Fds : op'[g].data = op[g].data /\ op'[g].stamp = op[g].stamp
    BY <1>1
  <1>5. \A g \in Fds, j \in Blocks : Sending(g, j)' <=> Sending(g, j)
    BY Zenon, <1>3, <1>4 DEF Sending
  <1>6. \A g \in Fds : pc[g] = "send" => g = f
    BY Zenon, <1>2 DEF CalmInv, SlotsCalm, SlotCalm, OneWriter, Sending
  <1>7. SendsCalm'
    <2> SUFFICES ASSUME NEW j \in Blocks, Sending(f, j)
                 PROVE  /\ Placed(j)' /\ of'[f].block_map[j] # <<>>
                        /\ Own(f, j, op[f].data[j])'
                        /\ \A k \in DOMAIN op'[f].left[j] : op'[f].left[j][k] # NoNode
                        /\ \/ op'[f].left[j] = Chosen(j)
                           \/ /\ store'[Prim(j)][j] = op'[f].data[j]
                              /\ \A k \in DOMAIN op'[f].left[j] :
                                   op'[f].left[j][k] # Prim(j)
      <3>1. \A g \in Fds, j \in Blocks : Sending(g, j)' => g = f /\ Sending(f, j)
        <4>1. \A g \in Fds, j \in Blocks : Sending(g, j) => g = f
          BY ZenonT(30), <1>6 DEF Sending
        <4> QED BY Zenon, <1>5, <4>1
      <3> QED BY <1>4, <3>1 DEF SendsCalm
    <2>1. Placed(j)' /\ of'[f].block_map[j] # <<>> /\ Own(f, j, op[f].data[j])'
      BY <1>3, <1>4 DEF CalmInv, SendsCalm, Placed, Own, Entitled
    <2>2. CASE j = i
      BY ZenonT(30), <1>1, <1>2, <2>1, <2>2
    <2>3. CASE j # i
      <3>1. /\ op'[f].left[j] = op[f].left[j] /\ op'[f].data = op[f].data
            /\ store'[Prim(j)][j] = store[Prim(j)][j]
        BY Zenon, <1>1, <1>2, <2>3
      <3>2. /\ \A k \in DOMAIN op[f].left[j] : op[f].left[j][k] # NoNode
            /\ \/ op[f].left[j] = Chosen(j)
               \/ /\ store[Prim(j)][j] = op[f].data[j]
                  /\ \A k \in DOMAIN op[f].left[j] : op[f].left[j][k] # Prim(j)
        BY Zenon DEF CalmInv, SendsCalm
      <3> QED BY <2>1, <3>1, <3>2
    <2> QED BY ZenonT(30), <2>2, <2>3
  <1>8. StoresCalm'
    <2>1. ASSUME NEW j \in Blocks, Placed(j)
          PROVE  \/ Public(j, Stored(j))'
                 \/ \E g \in Fds : Sending(g, j)' /\ store'[Prim(j)][j] = op'[g].data[j]
      <3>1. CASE j = i
        BY Zenon, <1>1, <1>2, <1>5, <3>1
      <3>2. CASE j # i
        <4>1. store'[Prim(j)][j] = store[Prim(j)][j]
          BY Zenon, <1>2, <3>2
        <4>2. CASE Public(j, Stored(j))
          BY <1>3, <4>1, <4>2 DEF Public, Stored, Prim
        <4>3. CASE \E g \in Fds : Sending(g, j) /\ store[Prim(j)][j] = op[g].data[j]
          BY Zenon, <1>4, <1>5, <4>1, <4>3
        <4> QED BY ZenonT(30), <2>1, <4>2, <4>3 DEF CalmInv, StoresCalm
      <3> QED BY <3>1, <3>2
    <2>2. ASSUME NEW j \in Blocks, ~Placed(j)
          PROVE  Public(j, Zeros)' /\ store'[Prim(j)][j] = Absent
      <3>1. j # i
        BY Zenon, <1>2, <2>2 DEF CalmInv, SendsCalm
      <3> QED BY Zenon, <1>2, <1>3, <2>2, <3>1 DEF CalmInv, StoresCalm, Public
    <2>3. \A w \in spawned' : w.node # Prim(w.idx)
      BY <1>2 DEF CalmInv, StoresCalm
    <2>4. \A j \in Blocks : Placed(j)' <=> Placed(j)
      BY <1>3 DEF Placed
    <2> QED BY ZenonT(30), <2>1, <2>2, <2>3, <2>4 DEF StoresCalm, Prim
  <1> QED BY <1>3, <1>4, <1>7, <1>8, StoresStep

(* A call left running reaches a replica, which no slot reads. *)
LEMMA DeliverWriteCalm ==
  ASSUME Calm, TypeInv, CalmInv, DeliverWrite PROVE CalmInv'
  <1>1. PICK w \in spawned : /\ spawned' = spawned \ {w}
                             /\ \/ store' = [store EXCEPT ![w.node][w.idx] = w.data]
                                \/ UNCHANGED store
    BY Zenon DEF DeliverWrite
  <1>2. UNCHANGED <<inode, handles, up, of, pc, op, cache, deletes, published, wrote, result>>
    BY DEF DeliverWrite, metaVars, clientVars
  <1>3. w.node # Prim(w.idx)
    BY DEF CalmInv, StoresCalm
  <1>4. \A j \in Blocks : store'[Prim(j)][j] = store[Prim(j)][j]
    <2>1. store \in [Nodes -> [Blocks -> MaybeContent]] /\ \A j \in Blocks : Prim(j) \in Nodes
      BY CalmTypes, ChosenParts
    <2>2. w.node \in Nodes /\ w.idx \in Blocks
      BY DEF TypeInv, TypeOK
    <2> QED BY <1>1, <1>3, <2>1, <2>2
  <1>5. \A g \in Fds, j \in Blocks : Sending(g, j)' <=> Sending(g, j)
    BY Zenon, <1>2 DEF Sending
  <1>6. SendsCalm'
    BY ZenonT(30), <1>2, <1>4, <1>5 DEF CalmInv, SendsCalm, Placed, Own, Entitled, Prim
  <1>7. StoresCalm'
    <2>1. \A j \in Blocks : /\ Public(j, Stored(j)) => Public(j, Stored(j))'
                            /\ Public(j, Zeros) => Public(j, Zeros)'
      BY <1>2, <1>4 DEF Public, Stored, Prim
    <2> QED BY Zenon, <1>1, <1>2, <1>4, <1>5, <2>1 DEF CalmInv, StoresCalm, Placed, Prim
  <1> QED BY <1>2, <1>6, <1>7, StoresStep

(* A close publishes what its slot wrote, all of which the primaries hold; every
   cache entry is of an older generation from then on. *)
LEMMA CloseAcceptedCalm ==
  ASSUME Calm, TypeInv, CalmInv, NEW f \in Fds, CloseAccepted(f) PROVE CalmInv'
  <1>1. /\ of \in [Fds -> OpenFile] /\ pc \in [Fds -> Stages]
        /\ wrote \in [Fds -> [Cells -> Stamps]]
        /\ result \in [Fds -> {"none", "ok", "err"}]
        /\ inode \in Inode /\ inode.generation \in Nat
    BY CalmTypes
  <1>2. /\ pc[f] = "send" /\ \A i \in Blocks : op[f].left[i] = <<>>
    BY DEF CloseAccepted, Sent, Unsent
  <1>3. /\ pc'[f] \in {"idle", "closed"} /\ result'[f] = "ok" /\ wrote'[f] = Clean
        /\ \A g \in Fds \ {f} : /\ pc'[g] = pc[g] /\ of'[g] = of[g]
                                /\ wrote'[g] = wrote[g] /\ result'[g] = result[g]
    BY <1>1 DEF CloseAccepted, Reply
  <1>4. /\ of'[f].generation = inode.generation + 1 /\ of'[f].dirty = of[f].dirty
        /\ of'[f].block_map = of[f].block_map
    BY <1>1 DEF CloseAccepted, OpenFile
  <1>5. /\ inode'.generation = inode.generation + 1 /\ inode'.live = inode.live
        /\ inode'.blocks = inode.blocks
    BY <1>1 DEF CloseAccepted, Inode
  <1>6. UNCHANGED <<up, store, cache, spawned, deletes>>
    BY DEF CloseAccepted, netVars
  <1>7. f \in Writers /\ of[f].generation = inode.generation
    BY <1>2 DEF CalmInv, SlotsCalm, SlotCalm
  <1>8. \A g \in Writers : pc[g] # "closed" => g = f
    BY <1>2, <1>7 DEF CalmInv, SlotsCalm, OneWriter
  <1>9. \A g \in Fds : pc[g] \in {"write", "alloc", "send"} => g = f
    BY <1>8 DEF CalmInv, SlotsCalm, SlotCalm
  <1>10. \A g \in Fds, i \in Blocks : of[g].dirty[i] = Absent
    <2>1. \A g \in Fds, i \in Blocks :
            of[g].dirty[i] # Absent => g \in Writers /\ pc[g] \in {"idle", "write", "alloc"}
      BY DEF CalmInv, BuffersCalm, BufferCalm
    <2> QED BY <1>2, <1>8, <2>1
  <1>11. \A g \in Fds, i \in Blocks : ~Sending(g, i)'
    <2>1. \A g \in Fds : pc'[g] # "send"
      BY <1>3, <1>9
    <2> QED BY <2>1 DEF Sending
  <1>12. \A i \in Blocks, k \in Offsets :
           published'[CellOf(i, k)] = Entitled(f, CellOf(i, k))
    <2>1. \A c \in Cells : published'[c] = Entitled(f, c)
      BY DEF CloseAccepted, Entitled
    <2>2. \A i \in Blocks, k \in Offsets : CellOf(i, k) \in Cells
      BY CellTypes
    <2> QED BY <2>1, <2>2
  <1>13. MetaCalm'
    BY <1>5, <1>6 DEF CalmInv, MetaCalm, Placed
  <1>14. SlotsCalm'
    <2>1. OneWriter'
      BY Zenon, <1>3, <1>8, SlotsAssumption DEF OneWriter
    <2>2. SlotCalm(f)'
      BY <1>1, <1>3, <1>4, <1>5 DEF SlotCalm
    <2>3. ASSUME NEW g \in Fds \ {f} PROVE SlotCalm(g)'
      <3>1. of[g].generation \in Nat /\ of[g].generation <= inode.generation
        BY ZenonT(30), <1>1 DEF OpenFile, CalmInv, SlotsCalm, SlotCalm
      <3>2. of'[g].generation <= inode'.generation
        BY <1>1, <1>3, <1>5, <3>1
      <3>3. pc'[g] \notin {"write", "alloc", "send"} /\ (g \in Writers => pc'[g] = "closed")
        BY ZenonT(30), <1>3, <1>8, <1>9
      <3> QED BY Zenon, <1>3, <3>2, <3>3 DEF CalmInv, SlotsCalm, SlotCalm
    <2> QED BY <2>1, <2>2, <2>3 DEF SlotsCalm
  <1>15. MapsCalm'
    <2>1. MapCalm(f)'
      <3>1. \A i \in Blocks : of[f].block_map[i] = <<>> => ~Placed(i)
        BY ZenonT(30), <1>2, <1>7, <1>9 DEF CalmInv, MapsCalm, MapCalm, Sending
      <3> QED BY <1>2, <1>4, <1>5, <3>1 DEF CalmInv, MapsCalm, MapCalm, Placed
    <2>2. ASSUME NEW g \in Fds \ {f} PROVE MapCalm(g)'
      <3>1. of[g].generation \in Nat /\ of[g].generation <= inode.generation
        BY Zenon, <1>1 DEF OpenFile, CalmInv, SlotsCalm, SlotCalm
      <3>2. of'[g].generation # inode'.generation
        <4>1. /\ of'[g].generation = of[g].generation /\ inode.generation \in Nat
              /\ inode'.generation = inode.generation + 1
          BY Zenon, <1>1, <1>3, <1>5
        <4> QED BY <3>1, <4>1
      <3>3. MapCalm(g) /\ pc'[g] = pc[g] /\ of'[g] = of[g] /\ inode'.blocks = inode.blocks
        BY ZenonT(30), <1>3, <1>5 DEF CalmInv, MapsCalm
      <3> QED BY Zenon, <3>2, <3>3 DEF MapCalm
    <2> QED BY <2>1, <2>2 DEF MapsCalm
  <1>16. BuffersCalm'
    <2>1. \A g \in Fds, i \in Blocks : of'[g].dirty[i] = Absent
      BY <1>3, <1>4, <1>10
    <2>2. \A i \in Blocks : Untouched(f, i)'
      <3>1. \A i \in Blocks, k \in Offsets : CellOf(i, k) \in Cells
        BY CellTypes
      <3> QED BY Zenon, <1>3, <3>1 DEF Untouched, Clean
    <2>3. \A g \in Fds \ {f} : \A i \in Blocks : Untouched(g, i)'
      BY <1>3, <1>9, <1>10 DEF CalmInv, BuffersCalm, BufferCalm, Untouched, Sending
    <2> QED BY <2>1, <2>2, <2>3 DEF BuffersCalm, BufferCalm
  <1>17. SendsCalm'
    BY ZenonT(30), <1>11 DEF SendsCalm
  <1>18. StoresCalm'
    <2>2. ASSUME NEW i \in Blocks, Placed(i) PROVE Public(i, Stored(i))'
      <3>1. CASE Sending(f, i)
        <4>1. store[Prim(i)][i] = op[f].data[i] /\ Own(f, i, op[f].data[i])
          BY ZenonT(30), <1>2, <3>1, ChosenParts DEF CalmInv, SendsCalm
        <4>2. Stored(i)' = op[f].data[i]
          BY <1>6, <3>1, <4>1 DEF Stored, Sending, Prim
        <4> QED BY Zenon, <1>12, <4>1, <4>2 DEF Public, Own
      <3>2. CASE ~Sending(f, i)
        <4>1. Public(i, Stored(i))
          BY <1>9, <2>2, <3>2 DEF CalmInv, StoresCalm, Sending
        <4>2. Stored(i)' = Stored(i)
          BY Zenon, <1>6 DEF Stored, Prim
        <4>3. \A k \in Offsets : published'[CellOf(i, k)] = published[CellOf(i, k)]
          <5>1. Untouched(f, i)
            BY Zenon, <1>10, <3>2 DEF CalmInv, BuffersCalm, BufferCalm
          <5> QED BY <1>12, <5>1 DEF Untouched, Entitled
        <4> QED BY Zenon, <4>1, <4>2, <4>3 DEF Public
      <3> QED BY <3>1, <3>2
    <2>3. ASSUME NEW i \in Blocks, ~Placed(i)
          PROVE  Public(i, Zeros)' /\ store'[Prim(i)][i] = Absent
      <3>1. ~Sending(f, i)
        BY Zenon, <2>3 DEF CalmInv, SendsCalm
      <3>2. Public(i, Zeros) /\ store[Prim(i)][i] = Absent
        BY <2>3 DEF CalmInv, StoresCalm
      <3>3. Untouched(f, i)
        BY <1>10, <3>1 DEF CalmInv, BuffersCalm, BufferCalm
      <3> QED BY Zenon, <1>6, <1>12, <3>2, <3>3 DEF Public, Untouched, Entitled
    <2>4. \A i \in Blocks : Placed(i)' <=> Placed(i)
      BY <1>5 DEF Placed
    <2> QED BY Zenon, <1>6, <2>2, <2>3, <2>4 DEF CalmInv, StoresCalm, Prim
  <1>19. CachesCalm'
    <2>1. ASSUME NEW m \in Mounts, NEW e \in cache[m] PROVE EntryCalm(e)'
      <3>1. e[1] \in Nat
        <4>1. cache[m] \subseteq Nat \X Blocks \X Content
          BY CalmTypes
        <4> QED BY Zenon, <2>1, <4>1
      <3>2. e[1] <= inode.generation
        BY <2>1 DEF CalmInv, CachesCalm, EntryCalm
      <3>3. e[1] <= inode'.generation /\ e[1] # inode'.generation
        BY <1>1, <1>5, <3>1, <3>2
      <3> QED BY <3>3 DEF EntryCalm
    <2> QED BY Zenon, <1>6, <2>1 DEF CachesCalm
  <1> QED BY <1>13, <1>14, <1>15, <1>16, <1>17, <1>18, <1>19 DEF CalmInv

(* Every step keeps the file calm. *)
LEMMA StepCalm ==
  ASSUME Calm, TypeInv, CalmInv, [Next]_vars PROVE CalmInv'
  <1>1. CASE UNCHANGED vars
    <2>1. UNCHANGED <<metaVars, store, of, pc, op, netVars, writes, drops, histVars>>
          /\ UNCHANGED cache
      BY <1>1 DEF vars, clientVars
    <2> QED BY <2>1, CacheStep
  <1>2. ASSUME NEW f \in Fds, Request(f) PROVE CalmInv'
    BY <1>2, OpenReadCalm, ReadCalm, TurnCalm DEF Request
  <1>3. ASSUME NEW f \in Fds, Serve(f) PROVE CalmInv'
    BY ZenonT(30), <1>3, CalmExcludes, OpenInsertCalm, WriteStepCalm, PublishAllocateCalm, SendBlockCalm,
       CloseAcceptedCalm DEF Serve
  <1>4. ASSUME NEW m \in Mounts, Evict(m) \/ CrashMount(m) PROVE CalmInv'
    BY <1>4, EvictCalm DEF CrashMount, Calm
  <1>5. CASE Truncate \/ Unlink \/ DeliverWrite \/ DeliverDelete
    <2>1. ~DeliverDelete
      BY DEF DeliverDelete, CalmInv, MetaCalm
    <2> QED BY <1>5, <2>1, DeliverWriteCalm DEF Truncate, Unlink, Calm
  <1>6. ASSUME NEW n \in Nodes, RestartStore(n) \/ NodeUp(n) \/ NodeDown(n) PROVE CalmInv'
    BY <1>6 DEF RestartStore, NodeUp, NodeDown, Calm
  <1> QED BY <1>1, <1>2, <1>3, <1>4, <1>5, <1>6 DEF Next

(* The file is calm for good. *)
LEMMA CalmAlways == ASSUME Calm PROVE Spec => [](TypeInv /\ CalmInv)
  <1>1. Init => TypeInv /\ CalmInv
    BY InitType, InitCalm
  <1>2. TypeInv /\ CalmInv /\ [Next]_vars => (TypeInv /\ CalmInv)'
    BY StepType, StepCalm
  <1> QED BY <1>1, <1>2, PTL DEF Spec

(* With one writer at a time and nothing failing, a reader finds exactly what
   the closes published and it wrote itself, in its buffers, its mount's cache
   or the stores: for any number of mounts, slots, blocks, stores and
   replicas, and whatever pick_nodes returns (fetch_block, apply_write,
   publish, AllocateBlocks, Meta.Open, Meta.Close). *)
THEOREM OneWriterIsCloseToOpen == ASSUME Calm PROVE Spec => []CloseToOpen
  <1>1. TypeInv /\ CalmInv => CloseToOpen
    BY CalmImplies
  <1> QED BY <1>1, CalmAlways, PTL

(* Then a file opened afresh, by a mount with nothing cached, has the
   published content on the primaries of Meta.Open's block_map. *)
THEOREM OneWriterIsFresh == ASSUME Calm PROVE Spec => []FreshOpen
  <1>1. TypeInv /\ CalmInv => FreshOpen
    BY CalmImplies
  <1> QED BY <1>1, CalmAlways, PTL

(* Then a success of flush, fsync or release leaves nothing of the slot
   unpublished (publish's result against the buffers it took). *)
THEOREM OneWriterOkIsPublished == ASSUME Calm PROVE Spec => []OkMeansPublished
  <1>1. TypeInv /\ CalmInv => OkMeansPublished
    BY CalmImplies
  <1> QED BY <1>1, CalmAlways, PTL

(* And they succeed: Meta.Close turns no writer down (handle and generation
   are still the slot's), and no call of publish fails. *)
THEOREM OneWriterSucceeds == ASSUME Calm PROVE Spec => []PublishSucceeds
  <1>1. TypeInv /\ CalmInv => PublishSucceeds
    BY CalmImplies
  <1> QED BY <1>1, CalmAlways, PTL
=============================================================================
