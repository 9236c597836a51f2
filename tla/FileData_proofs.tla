--------------------------- MODULE FileData_proofs ---------------------------
(***************************************************************************)
(* Proofs about FileData for any number of mounts, slots, stores, blocks   *)
(* and writes.  First the types, with any Env; FileDataSafety_proofs goes  *)
(* on from there.  Then CalmInv, the inductive invariant of writers that   *)
(* take turns while nothing fails, what follows from it, and what its      *)
(* steps have in common; FileDataExclusive_proofs has the steps.           *)
(***************************************************************************)
EXTENDS FileData, TLAPS

(* What the type invariant rests on besides types: the cursor of a write is
   inside the file, and a block still to be sent has its data. *)
Shape(f) ==
  /\ pc[f] = "write" => op[f].cur < op[f].end /\ op[f].end <= NumBlocks * BlockSize
  /\ \A i \in Blocks : op[f].left[i] # <<>> => op[f].data[i] # Absent

TypeInv == TypeOK /\ \A f \in Fds : Shape(f)

USE DEF PublishKinds, Stages

(* The bounds are natural numbers. *)
LEMMA BoundsType ==
  NumBlocks \in Nat /\ BlockSize \in Nat /\ MaxWrites \in Nat
  BY BoundsAssumption

(* The initial buffers, placements and stamps are of their types. *)
LEMMA ConstantTypes ==
  /\ NoDirty \in [Blocks -> MaybeContent]
  /\ NoBlocks \in [Blocks -> Placement]
  /\ Zeros \in Content
  /\ Clean \in [Cells -> Stamps]
  /\ NoFile \in OpenFile
  /\ NoOp \in Op
  BY BoundsAssumption DEF NoDirty, NoBlocks, Zeros, Clean, NoFile, NoOp, OpenFile,
     Op, Placement, Content, Stamps, MaybeContent

(* A file just created is well typed. *)
LEMMA InitType == Init => TypeInv
  <1> SUFFICES ASSUME Init PROVE TypeInv OBVIOUS
  <1>1. TypeOK
    BY ConstantTypes, BoundsAssumption DEF Init, TypeOK, Stamps, Inode
  <1>2. ASSUME NEW f \in Fds PROVE Shape(f)
    BY DEF Init, Shape, NoOp, NoBlocks
  <1> QED BY <1>1, <1>2 DEF TypeInv

(* Reading the inode for an open keeps the types. *)
LEMMA OpenReadType ==
  ASSUME TypeInv, NEW f \in Fds, OpenRead(f) PROVE TypeInv'
  <1>1. of' \in [Fds -> OpenFile]
    BY Zenon, ConstantTypes DEF TypeInv, TypeOK, Inode, OpenRead, OpenFile, NoFile
  <1>2. wrote' \in [Fds -> [Cells -> Stamps]]
    BY ConstantTypes DEF TypeInv, TypeOK, OpenRead
  <1>3. TypeOK'
    BY <1>1, <1>2 DEF TypeInv, TypeOK, OpenRead, metaVars, netVars
  <1>4. ASSUME NEW g \in Fds PROVE Shape(g)'
    BY DEF TypeInv, TypeOK, Shape, OpenRead
  <1> QED BY <1>3, <1>4 DEF TypeInv

(* Giving out a handle keeps the types. *)
LEMMA OpenInsertType ==
  ASSUME TypeInv, NEW f \in Fds, OpenInsert(f) PROVE TypeInv'
  <1>1. of' \in [Fds -> OpenFile]
    <2>1. of \in [Fds -> OpenFile] /\ nextFh \in Nat
      BY DEF TypeInv, TypeOK
    <2>2. of' = [of EXCEPT ![f].fh = nextFh]
      BY DEF OpenInsert
    <2> QED BY <2>1, <2>2 DEF OpenFile
  <1>2. TypeOK'
    BY <1>1 DEF TypeInv, TypeOK, OpenInsert, netVars, histVars
  <1>3. ASSUME NEW g \in Fds PROVE Shape(g)'
    BY DEF TypeInv, TypeOK, Shape, OpenInsert
  <1> QED BY <1>2, <1>3 DEF TypeInv

----------------------------------------------------------------------------
(* What comes back from a fetch, and the cache it leaves. *)
CacheSet == SUBSET (Nat \X Blocks \X Content)
Fetched == [data : Content, cache : CacheSet]

(* Only real stores answer a ReadBlock call. *)
LEMMA AnsweringType ==
  ASSUME NEW p \in Placement PROVE Answering(p) \subseteq Nodes
  BY DEF Placement, Answering

(* An answer is a block, NotFound included, and a well-typed cache. *)
LEMMA AnswerType ==
  ASSUME TypeInv, NEW f \in Fds, NEW i \in Blocks, NEW n \in Nodes
  PROVE  Answer(f, i, n) \in Fetched
  <1>1. /\ store[n][i] \in MaybeContent
        /\ of[f].generation \in Nat
        /\ cache[MountOf[f]] \in CacheSet
    BY SlotsAssumption DEF TypeInv, TypeOK, OpenFile, CacheSet
  <1>2. CASE store[n][i] = Absent
    BY <1>1, <1>2, ConstantTypes DEF Answer, Fetched
  <1>3. CASE store[n][i] # Absent
    <2>1. store[n][i] \in Content
      BY <1>1, <1>3 DEF MaybeContent
    <2>2. cache[MountOf[f]] \cup {<<of[f].generation, i, store[n][i]>>} \in CacheSet
      BY <1>1, <2>1 DEF CacheSet
    <2> QED BY <1>3, <2>1, <2>2 DEF Answer, Fetched
  <1> QED BY <1>2, <1>3

(* Whatever fetch_block returns, it is a block. *)
LEMMA FetchType ==
  ASSUME TypeInv, NEW f \in Fds, NEW i \in Blocks
  PROVE  Fetch(f, i) \subseteq Fetched
  <1>1. /\ of[f].dirty[i] \in MaybeContent
        /\ of[f].block_map[i] \in Placement
        /\ cache[MountOf[f]] \in CacheSet
    BY SlotsAssumption DEF TypeInv, TypeOK, OpenFile, CacheSet
  <1>2. CASE of[f].dirty[i] # Absent
    BY <1>1, <1>2 DEF Fetch, Fetched, MaybeContent
  <1>3. CASE of[f].dirty[i] = Absent /\ Cached(f, i) # {}
    <2>1. \A e \in Cached(f, i) : e[3] \in Content
      BY <1>1 DEF Cached, CacheSet
    <2> QED BY <1>1, <1>3, <2>1 DEF Fetch, Fetched
  <1>4. CASE of[f].dirty[i] = Absent /\ Cached(f, i) = {}
    <2>1. Fetch(f, i) = {Answer(f, i, n) : n \in Answering(of[f].block_map[i])}
      BY <1>4 DEF Fetch
    <2> QED BY <2>1, <1>1, AnsweringType, AnswerType
  <1> QED BY <1>2, <1>3, <1>4

(* So is what read takes for a block, a hole included. *)
LEMMA ReadBlockType ==
  ASSUME TypeInv, NEW f \in Fds, NEW i \in Blocks
  PROVE  ReadBlock(f, i) \subseteq Fetched
  <1>1. cache[MountOf[f]] \in CacheSet
    BY SlotsAssumption DEF TypeInv, TypeOK, CacheSet
  <1>2. [data |-> Zeros, cache |-> cache[MountOf[f]]] \in Fetched
    BY <1>1, ConstantTypes DEF Fetched
  <1> QED BY <1>2, FetchType DEF ReadBlock

(* A turn of read only adds blocks to the cache. *)
LEMMA ReadType ==
  ASSUME TypeInv, NEW f \in Fds, Read(f) PROVE TypeInv'
  <1>1. cache' \in [Mounts -> CacheSet]
    <2>0. PICK i \in Blocks : \E b \in ReadBlock(f, i) :
            cache' = [cache EXCEPT ![MountOf[f]] = b.cache]
      BY Zenon DEF Read
    <2>1. PICK b \in ReadBlock(f, i) : cache' = [cache EXCEPT ![MountOf[f]] = b.cache]
      BY Zenon, <2>0
    <2>2. b.cache \in CacheSet
      BY ReadBlockType DEF Fetched
    <2>3. cache \in [Mounts -> CacheSet]
      BY DEF TypeInv, TypeOK, CacheSet
    <2> QED BY Zenon, <2>1, <2>2, <2>3
  <1>2. TypeOK'
    BY <1>1 DEF TypeInv, TypeOK, CacheSet, Read, metaVars, netVars, histVars
  <1>3. ASSUME NEW g \in Fds PROVE Shape(g)'
    BY DEF TypeInv, Shape, Read
  <1> QED BY <1>2, <1>3 DEF TypeInv

(* Eviction only takes entries away. *)
LEMMA EvictType ==
  ASSUME TypeInv, NEW m \in Mounts, Evict(m) PROVE TypeInv'
  <1>1. cache' \in [Mounts -> CacheSet]
    BY DEF TypeInv, TypeOK, CacheSet, Evict
  <1>2. TypeOK'
    BY <1>1 DEF TypeInv, TypeOK, CacheSet, Evict, metaVars, netVars, histVars
  <1>3. ASSUME NEW g \in Fds PROVE Shape(g)'
    BY DEF TypeInv, Shape, Evict
  <1> QED BY <1>2, <1>3 DEF TypeInv

----------------------------------------------------------------------------
(* The arithmetic of apply_write's loop. *)
LEMMA DivBounds ==
  ASSUME NEW c \in Nat, NEW d \in Nat \ {0}
  PROVE  /\ c \div d \in Nat
         /\ (c \div d) * d \in Nat
         /\ (c \div d) * d <= c
         /\ c < (c \div d) * d + d
         /\ ((c \div d) + 1) * d = (c \div d) * d + d
  OBVIOUS

(* A cell of the file lies in a block of the file. *)
LEMMA BlockOfInside ==
  ASSUME NEW c \in Nat, c < NumBlocks * BlockSize PROVE BlockOf(c) \in Blocks
  <1>1. BlockOf(c) \in Nat /\ BlockOf(c) * BlockSize <= c
    BY DivBounds, BoundsAssumption DEF BlockOf
  <1>2. BlockOf(c) * BlockSize < NumBlocks * BlockSize
    <2>1. BlockOf(c) * BlockSize \in Nat /\ NumBlocks * BlockSize \in Nat
      BY <1>1, BoundsAssumption
    <2> QED BY <1>1, <2>1
  <1>3. BlockOf(c) < NumBlocks
    BY <1>1, <1>2, BoundsAssumption
  <1> QED BY <1>1, <1>3, BoundsAssumption DEF Blocks

(* A turn of apply_write moves on, and stays within block and range. *)
LEMMA ChunkEndBounds ==
  ASSUME TypeInv, NEW f \in Fds, pc[f] = "write"
  PROVE  /\ op[f].cur \in Nat /\ op[f].end \in Nat /\ op[f].stamp \in Stamps
         /\ BlockOf(op[f].cur) \in Blocks
         /\ ChunkEnd(f) \in Nat
         /\ op[f].cur < ChunkEnd(f)
         /\ ChunkEnd(f) <= op[f].end
         /\ ChunkEnd(f) <= BlockOf(op[f].cur) * BlockSize + BlockSize
         /\ op[f].end <= NumBlocks * BlockSize
  <1>1. /\ op[f].cur \in Nat /\ op[f].end \in Nat /\ op[f].stamp \in Stamps
        /\ op[f].cur < op[f].end /\ op[f].end <= NumBlocks * BlockSize
    BY DEF TypeInv, TypeOK, Op, Shape
  <1>2. NumBlocks * BlockSize \in Nat
    BY BoundsAssumption
  <1>3. BlockOf(op[f].cur) \in Blocks
    BY <1>1, <1>2, BlockOfInside
  <1>4. /\ (BlockOf(op[f].cur) + 1) * BlockSize = BlockOf(op[f].cur) * BlockSize + BlockSize
        /\ BlockOf(op[f].cur) * BlockSize \in Nat
        /\ op[f].cur < BlockOf(op[f].cur) * BlockSize + BlockSize
    BY Zenon, <1>1, DivBounds, BoundsAssumption DEF BlockOf
  <1> QED BY <1>1, <1>3, <1>4, BoundsAssumption DEF ChunkEnd

(* Starting a write keeps the types: its range is inside the file. *)
LEMMA WriteBeginType ==
  ASSUME TypeInv, NEW f \in Fds, WriteBegin(f) PROVE TypeInv'
  <1>1. PICK r \in Ranges :
          /\ op' = [op EXCEPT ![f] = WriteOp(r, writes + 1)]
          /\ covers' = [covers EXCEPT ![writes + 1] = r[1] .. r[1] + r[2] - 1]
    BY Zenon DEF WriteBegin
  <1>2. /\ r[1] \in Nat /\ r[2] \in Nat /\ r[2] # 0
        /\ r[1] + r[2] <= NumBlocks * BlockSize
    BY RangesAssumption
  <1>3. writes' \in Stamps /\ writes' = writes + 1 /\ writes \in Nat
    BY BoundsAssumption DEF TypeInv, TypeOK, WriteBegin, Stamps
  <1> DEFINE o == WriteOp(r, writes + 1)
  <1>4. /\ o \in Op /\ o.cur = r[1] /\ o.end = r[1] + r[2]
        /\ o.left = NoBlocks /\ o.data = NoDirty
    BY <1>2, <1>3, ConstantTypes DEF Op, WriteOp
  <1> HIDE DEF o
  <1>5. op' = [op EXCEPT ![f] = o] /\ op \in [Fds -> Op]
    BY <1>1 DEF o, TypeInv, TypeOK
  <1>6. op' \in [Fds -> Op]
    BY <1>4, <1>5
  <1>7. covers' \in [1 .. MaxWrites -> SUBSET Cells]
    <2>1. r[1] .. r[1] + r[2] - 1 \subseteq Cells
      <3>1. NumBlocks * BlockSize \in Nat
        BY BoundsAssumption
      <3> QED BY <1>2, <3>1 DEF Cells
    <2> QED BY Zenon, <1>1, <2>1 DEF TypeInv, TypeOK
  <1>8. TypeOK'
    BY <1>3, <1>6, <1>7 DEF TypeInv, TypeOK, WriteBegin, metaVars, netVars
  <1>9. ASSUME NEW g \in Fds PROVE Shape(g)'
    <2>1. CASE g = f
      <3>1. op'[g] = o
        BY <1>5, <2>1
      <3>2. NumBlocks * BlockSize \in Nat
        BY BoundsAssumption
      <3> QED BY <3>1, <3>2, <1>2, <1>4 DEF Shape, NoBlocks
    <2>2. CASE g # f
      BY <1>5, <2>2 DEF TypeInv, TypeOK, Shape, WriteBegin
    <2> QED BY <2>1, <2>2
  <1> QED BY <1>8, <1>9 DEF TypeInv

(* The buffer apply_write starts from is a block. *)
LEMMA WriteBaseType ==
  ASSUME TypeInv, NEW f \in Fds, NEW i \in Blocks
  PROVE  WriteBase(f, i) \subseteq Fetched
  <1>1. cache[MountOf[f]] \in CacheSet
    BY SlotsAssumption DEF TypeInv, TypeOK, CacheSet
  <1>2. [data |-> Zeros, cache |-> cache[MountOf[f]]] \in Fetched
    BY <1>1, ConstantTypes DEF Fetched
  <1> QED BY <1>2, FetchType DEF WriteBase

(* A turn of apply_write leaves a block in the buffer. *)
LEMMA WriteStepType ==
  ASSUME TypeInv, NEW f \in Fds, WriteStep(f) PROVE TypeInv'
  <1> DEFINE i == BlockOf(op[f].cur)
             len == ChunkEnd(f) - op[f].cur
             from == InBlock(op[f].cur)
             done == ChunkEnd(f) = op[f].end
             buf(b) == [k \in Offsets |-> IF k \in from .. from + len - 1
                                         THEN op[f].stamp ELSE b.data[k]]
             hint == IF done THEN Extended(of[f].size_hint, op[f].end)
                     ELSE of[f].size_hint
  <1>1. PICK b \in WriteBase(f, i) :
          /\ of' = [of EXCEPT ![f].dirty[i] = buf(b), ![f].size_hint = hint]
          /\ cache' = [cache EXCEPT ![MountOf[f]] = b.cache]
    BY Zenon DEF WriteStep
  <1>2. /\ op[f].cur \in Nat /\ op[f].end \in Nat /\ op[f].stamp \in Stamps
        /\ i \in Blocks /\ ChunkEnd(f) \in Nat
        /\ ChunkEnd(f) <= op[f].end /\ op[f].end <= NumBlocks * BlockSize
    BY ChunkEndBounds DEF WriteStep
  <1>3. b \in Fetched
    BY <1>1, <1>2, WriteBaseType
  <1>4. buf(b) \in MaybeContent
    BY <1>2, <1>3 DEF Fetched, Content, MaybeContent
  <1>5. of \in [Fds -> OpenFile] /\ hint \in Nat
    BY <1>2 DEF TypeInv, TypeOK, OpenFile, Extended
  <1> HIDE DEF i, buf, hint
  <1>6. of' \in [Fds -> OpenFile]
    BY Zenon, <1>1, <1>2, <1>4, <1>5 DEF OpenFile
  <1>7. cache' \in [Mounts -> CacheSet]
    BY Zenon, <1>1, <1>3 DEF TypeInv, TypeOK, CacheSet, Fetched
  <1>8. wrote' \in [Fds -> [Cells -> Stamps]]
    BY <1>2 DEF TypeInv, TypeOK, WriteStep
  <1>9. op' \in [Fds -> Op]
    <2>1. op' = [op EXCEPT ![f] = IF done THEN NoOp ELSE [op[f] EXCEPT !.cur = ChunkEnd(f)]]
      BY DEF WriteStep
    <2>2. op \in [Fds -> Op]
      BY DEF TypeInv, TypeOK
    <2>3. [op[f] EXCEPT !.cur = ChunkEnd(f)] \in Op
      BY Zenon, <1>2, <2>2 DEF Op
    <2> QED BY <2>1, <2>2, <2>3, ConstantTypes
  <1>10. TypeOK'
    BY <1>6, <1>7, <1>8, <1>9 DEF TypeInv, TypeOK, CacheSet, WriteStep, metaVars, netVars
  <1>11. ASSUME NEW g \in Fds PROVE Shape(g)'
    <2>1. CASE g # f
      BY <2>1 DEF TypeInv, TypeOK, Shape, WriteStep
    <2>2. CASE g = f /\ done
      BY <2>2 DEF TypeInv, TypeOK, Shape, WriteStep, NoOp, NoBlocks
    <2>3. CASE g = f /\ ~done
      <3>1. op'[f] = [op[f] EXCEPT !.cur = ChunkEnd(f)] /\ op[f] \in Op
        BY <2>3 DEF WriteStep, TypeInv, TypeOK
      <3>2. /\ op'[f].cur = ChunkEnd(f) /\ op'[f].end = op[f].end
            /\ op'[f].left = op[f].left /\ op'[f].data = op[f].data
        BY <3>1 DEF Op
      <3> QED BY <3>2, <2>3, <1>2 DEF TypeInv, Shape
    <2> QED BY <2>1, <2>2, <2>3
  <1> QED BY <1>10, <1>11 DEF TypeInv

(* A failed fetch leaves the buffers as they are. *)
LEMMA WriteFailsType ==
  ASSUME TypeInv, NEW f \in Fds, WriteFails(f) PROVE TypeInv'
  <1>1. op' \in [Fds -> Op]
    BY ConstantTypes DEF TypeInv, TypeOK, WriteFails
  <1>2. TypeOK'
    BY Zenon, <1>1 DEF TypeInv, TypeOK, WriteFails, metaVars, netVars, histVars
  <1>3. ASSUME NEW g \in Fds PROVE Shape(g)'
    BY DEF TypeInv, TypeOK, Shape, WriteFails, NoOp, NoBlocks
  <1> QED BY <1>2, <1>3 DEF TypeInv

----------------------------------------------------------------------------
(* What the end of a handler does to the types. *)
LEMMA ReplyType ==
  ASSUME TypeInv, NEW f \in Fds, NEW kind \in PublishKinds \cup {"none", "write"},
         NEW r \in {"ok", "err"}, Reply(f, kind, r)
  PROVE  /\ pc' \in [Fds -> Stages]
         /\ op' \in [Fds -> Op]
         /\ result' \in [Fds -> {"none", "ok", "err"}]
         /\ \A g \in Fds : Shape(g)'
  <1>1. op' \in [Fds -> Op]
    BY ConstantTypes DEF TypeInv, TypeOK, Reply
  <1>2. /\ pc' \in [Fds -> Stages]
        /\ result' \in [Fds -> {"none", "ok", "err"}]
    BY DEF TypeInv, TypeOK, Reply
  <1>3. ASSUME NEW g \in Fds PROVE Shape(g)'
    BY DEF TypeInv, TypeOK, Shape, Reply, NoOp, NoBlocks
  <1> QED BY <1>1, <1>2, <1>3

(* A publish with nothing to do changes no types. *)
LEMMA PublishNothingType ==
  ASSUME TypeInv, NEW f \in Fds, PublishNothing(f) PROVE TypeInv'
  <1>1. PICK kind \in PublishKinds : Reply(f, kind, "ok")
    BY DEF PublishNothing
  <1> QED BY <1>1, ReplyType DEF TypeInv, TypeOK, PublishNothing, metaVars, netVars

(* Starting a publish keeps the types. *)
LEMMA PublishBeginType ==
  ASSUME TypeInv, NEW f \in Fds, PublishBegin(f) PROVE TypeInv'
  <1>1. PICK kind \in PublishKinds : op' = [op EXCEPT ![f] = [NoOp EXCEPT !.kind = kind]]
    BY Zenon DEF PublishBegin
  <1>2. op' \in [Fds -> Op]
    BY Zenon, <1>1, ConstantTypes DEF TypeInv, TypeOK, Op
  <1>3. TypeOK'
    BY <1>2 DEF TypeInv, TypeOK, PublishBegin, metaVars, netVars, histVars
  <1>4. ASSUME NEW g \in Fds PROVE Shape(g)'
    BY <1>1 DEF TypeInv, TypeOK, Shape, PublishBegin, NoOp, NoBlocks
  <1> QED BY <1>3, <1>4 DEF TypeInv

(* allocate_blocks always gives a placement, if only "?". *)
LEMMA PlaceType ==
  ASSUME TypeInv, NEW i \in Blocks PROVE Place(i) \in Placement
  <1>1. up \in SUBSET Nodes
    BY DEF TypeInv, TypeOK
  <1>2. PickNodes(i, up) \in Seq(up)
    BY <1>1, PickAssumption
  <1>3. PickNodes(i, up) \in Seq(Nodes)
    BY <1>1, <1>2
  <1> QED BY <1>3 DEF Place, Placement

(* So the inode has placements after AllocateBlocks. *)
LEMMA AllocatedType ==
  ASSUME TypeInv, NEW f \in Fds PROVE Allocated(f) \in [Blocks -> Placement]
  <1>1. inode.blocks \in [Blocks -> Placement]
    BY DEF TypeInv, TypeOK, Inode
  <1>2. \A i \in Blocks : Place(i) \in Placement
    BY PlaceType
  <1> QED BY <1>1, <1>2 DEF Allocated

(* The buffers that leave the OpenFile become the data to send. *)
LEMMA PublishAllocateType ==
  ASSUME TypeInv, NEW f \in Fds, PublishAllocate(f) PROVE TypeInv'
  <1> DEFINE map == [i \in Blocks |-> IF i \in NewBlocks(f)
                                      THEN Allocated(f)[i] ELSE of[f].block_map[i]]
             left == [i \in Blocks |-> IF i \in DirtyBlocks(f) THEN map[i] ELSE <<>>]
  <1>1. of[f] \in OpenFile /\ op[f] \in Op /\ of \in [Fds -> OpenFile] /\ op \in [Fds -> Op]
    BY DEF TypeInv, TypeOK
  <1>2. map \in [Blocks -> Placement] /\ left \in [Blocks -> Placement]
    BY <1>1, AllocatedType DEF OpenFile, Placement
  <1>3. /\ of' = [of EXCEPT ![f].block_map = map, ![f].dirty = NoDirty]
        /\ op' = [op EXCEPT ![f].data = of[f].dirty, ![f].left = left]
        /\ inode' = [inode EXCEPT !.blocks = Allocated(f)]
        /\ pc' = [pc EXCEPT ![f] = "send"]
    BY DEF PublishAllocate
  <1>4. \A i \in Blocks : left[i] # <<>> => of[f].dirty[i] # Absent
    BY DEF DirtyBlocks
  <1> HIDE DEF map, left
  <1>5. of' \in [Fds -> OpenFile]
    BY Zenon, <1>1, <1>2, <1>3, ConstantTypes DEF OpenFile
  <1>6. of[f].dirty \in [Blocks -> MaybeContent]
    BY <1>1 DEF OpenFile
  <1>7. op' \in [Fds -> Op]
    BY Zenon, <1>1, <1>2, <1>3, <1>6 DEF Op
  <1>8. inode' \in Inode
    BY Zenon, <1>3, AllocatedType DEF TypeInv, TypeOK, Inode
  <1>9. TypeOK'
    BY <1>5, <1>7, <1>8 DEF TypeInv, TypeOK, PublishAllocate, netVars, histVars
  <1>10. ASSUME NEW g \in Fds PROVE Shape(g)'
    <2>1. CASE g # f
      BY <1>1, <1>3, <2>1 DEF TypeInv, TypeOK, Shape
    <2>2. CASE g = f
      <3>1. op'[f].left = left /\ op'[f].data = of[f].dirty /\ pc'[f] = "send"
        BY <1>1, <1>3 DEF TypeInv, TypeOK, Op
      <3> QED BY <2>2, <3>1, <1>4 DEF Shape
    <2> QED BY <2>1, <2>2
  <1> QED BY <1>9, <1>10 DEF TypeInv

(* A refused AllocateBlocks keeps the types. *)
LEMMA PublishUnplacedType ==
  ASSUME TypeInv, NEW f \in Fds, PublishUnplaced(f) PROVE TypeInv'
  <1>1. op[f].kind \in PublishKinds \cup {"none", "write"}
    BY DEF TypeInv, TypeOK, Op
  <1>2. Reply(f, op[f].kind, "err")
    BY DEF PublishUnplaced
  <1> QED BY <1>1, <1>2, ReplyType DEF TypeInv, TypeOK, PublishUnplaced, metaVars, netVars

(* A placement whose first store is not "?" has no "?" in it. *)
LEMMA RealPlacement ==
  ASSUME NEW p \in Placement, p # <<>>, Head(p) # NoNode
  PROVE  /\ Head(p) \in Nodes
         /\ Tail(p) \in Seq(Nodes)
         /\ \A j \in DOMAIN Tail(p) : Tail(p)[j] \in Nodes
  <1>1. p \in Seq(Nodes)
    BY DEF Placement
  <1> QED BY <1>1

WriteCalls == [node : Nodes, idx : Blocks, data : Content]

(* A block still to be sent has its data: what Shape adds to TypeOK. *)
LEMMA UnsentData ==
  ASSUME TypeInv, NEW f \in Fds, NEW i \in Unsent(f)
  PROVE  /\ i \in Blocks
         /\ op[f].left[i] \in Placement
         /\ op[f].left[i] # <<>>
         /\ op[f].data[i] \in Content
  <1>1. i \in Blocks /\ op[f].left[i] # <<>>
    BY DEF Unsent
  <1>2. op[f].left[i] \in Placement /\ op[f].data[i] \in MaybeContent
    BY <1>1 DEF TypeInv, TypeOK, Op
  <1>3. op[f].data[i] # Absent
    BY <1>1 DEF TypeInv, Shape
  <1> QED BY <1>1, <1>2, <1>3 DEF MaybeContent

(* The calls a failed publish leaves behind carry blocks. *)
LEMMA StrayType ==
  ASSUME TypeInv, NEW f \in Fds, NEW S \in SUBSET Unsent(f)
  PROVE  Stray(f, S) \subseteq WriteCalls
  <1>1. \A i \in S : /\ i \in Blocks
                     /\ op[f].data[i] \in Content
                     /\ Head(op[f].left[i]) # NoNode => Head(op[f].left[i]) \in Nodes
    BY UnsentData, RealPlacement
  <1> QED BY <1>1 DEF Stray, WriteMsg, WriteCalls

(* A WriteBlock call stores a block and spawns well-typed calls. *)
LEMMA SendBlockType ==
  ASSUME TypeInv, NEW f \in Fds, SendBlock(f) PROVE TypeInv'
  <1>1. PICK i \in Unsent(f) :
          LET n == Head(op[f].left[i])
              rest == Tail(op[f].left[i])
          IN
          /\ n # NoNode
          /\ store' = [store EXCEPT ![n][i] = op[f].data[i]]
          /\ stirred' = stirred \cup {i}
          /\ IF op[f].kind = "fsync"
             THEN /\ op' = [op EXCEPT ![f].left[i] = rest]
                  /\ UNCHANGED spawned
             ELSE /\ op' = [op EXCEPT ![f].left[i] = <<>>]
                  /\ spawned' = spawned \cup {WriteMsg(rest[j], i, op[f].data[i])
                                                : j \in DOMAIN rest}
    BY Zenon DEF SendBlock
  <1> DEFINE n == Head(op[f].left[i])
             rest == Tail(op[f].left[i])
  <1>2. /\ i \in Blocks /\ op[f].data[i] \in Content
        /\ n \in Nodes /\ rest \in Seq(Nodes) /\ rest \in Placement
        /\ \A j \in DOMAIN rest : rest[j] \in Nodes
    BY <1>1, UnsentData, RealPlacement DEF Placement
  <1> HIDE DEF n, rest
  <1>3. store' \in [Nodes -> [Blocks -> MaybeContent]]
    BY <1>1, <1>2 DEF TypeInv, TypeOK, MaybeContent, n
  <1>4. PICK l \in {rest, <<>>} : op' = [op EXCEPT ![f].left[i] = l]
    BY <1>1 DEF rest
  <1>5. l \in Placement /\ op \in [Fds -> Op]
    <2>1. <<>> \in Placement
      BY DEF Placement
    <2> QED BY <1>2, <1>4, <2>1 DEF TypeInv, TypeOK
  <1>6. op' \in [Fds -> Op]
    BY Zenon, <1>2, <1>4, <1>5 DEF Op
  <1>7. spawned' \subseteq WriteCalls
    <2>1. {WriteMsg(rest[j], i, op[f].data[i]) : j \in DOMAIN rest} \subseteq WriteCalls
      BY <1>2 DEF WriteMsg, WriteCalls
    <2>2. spawned \subseteq WriteCalls
      BY DEF TypeInv, TypeOK, WriteCalls
    <2> QED BY <1>1, <2>1, <2>2 DEF rest
  <1>8. stirred' \subseteq Blocks
    BY <1>1, <1>2 DEF TypeInv, TypeOK
  <1>9. TypeOK'
    BY <1>3, <1>6, <1>7, <1>8 DEF TypeInv, TypeOK, WriteCalls, SendBlock, metaVars
  <1>10. ASSUME NEW g \in Fds PROVE Shape(g)'
    <2>1. CASE g # f
      BY <1>4, <1>5, <2>1 DEF TypeInv, Shape, SendBlock
    <2>2. CASE g = f
      <3>1. /\ op'[f].data = op[f].data
            /\ \A k \in Blocks : k # i => op'[f].left[k] = op[f].left[k]
            /\ pc'[f] = "send"
        BY <1>2, <1>4, <1>5 DEF Op, SendBlock
      <3>2. op[f].data[i] # Absent
        BY UnsentData, <1>2, AbsentAssumption
      <3> QED BY <2>2, <3>1, <3>2 DEF TypeInv, Shape
    <2> QED BY <2>1, <2>2
  <1> QED BY <1>9, <1>10 DEF TypeInv

(* A failed fan-out keeps the types. *)
LEMMA SendFailsType ==
  ASSUME TypeInv, NEW f \in Fds, SendFails(f) PROVE TypeInv'
  <1>1. PICK S \in SUBSET Unsent(f) : spawned' = spawned \cup Stray(f, S)
    BY DEF SendFails
  <1>2. spawned' \subseteq WriteCalls
    BY Zenon, <1>1, StrayType DEF TypeInv, TypeOK, WriteCalls
  <1>3. op[f].kind \in PublishKinds \cup {"none", "write"}
    BY DEF TypeInv, TypeOK, Op
  <1>4. Reply(f, op[f].kind, "err")
    BY Zenon DEF SendFails
  <1> QED BY Zenon, <1>2, <1>3, <1>4, ReplyType DEF TypeInv, TypeOK, WriteCalls, SendFails, metaVars

(* Meta.Close bumps the generation to another natural number. *)
LEMMA CloseAcceptedType ==
  ASSUME TypeInv, NEW f \in Fds, CloseAccepted(f) PROVE TypeInv'
  <1>1. of[f] \in OpenFile /\ of[f].fh \in Nat /\ of[f].size_hint \in Nat
    BY DEF TypeInv, TypeOK, OpenFile
  <1>2. inode' \in Inode
    <2>1. inode \in Inode /\ inode.generation + 1 \in Nat
      BY DEF TypeInv, TypeOK, Inode
    <2>2. inode' = [inode EXCEPT !.generation = inode.generation + 1,
                                 !.size = of[f].size_hint]
      BY DEF CloseAccepted
    <2> QED BY Zenon, <1>1, <2>1, <2>2 DEF Inode
  <1>3. of' \in [Fds -> OpenFile]
    <2>1. of \in [Fds -> OpenFile] /\ inode.generation + 1 \in Nat
      BY DEF TypeInv, TypeOK, Inode
    <2>2. of' = [of EXCEPT ![f].generation = inode.generation + 1]
      BY DEF CloseAccepted
    <2> QED BY <2>1, <2>2 DEF OpenFile
  <1>4. published' \in [Cells -> Stamps] /\ wrote' \in [Fds -> [Cells -> Stamps]]
    BY ConstantTypes DEF TypeInv, TypeOK, CloseAccepted
  <1>5. log' \in Seq(Nat)
    BY <1>1 DEF TypeInv, TypeOK, CloseAccepted
  <1>6. op[f].kind \in PublishKinds \cup {"none", "write"}
    BY DEF TypeInv, TypeOK, Op
  <1>7. Reply(f, op[f].kind, "ok")
    BY DEF CloseAccepted
  <1> QED BY Zenon, <1>2, <1>3, <1>4, <1>5, <1>6, <1>7, ReplyType
          DEF TypeInv, TypeOK, CloseAccepted, netVars

(* A refused Meta.Close keeps the types. *)
LEMMA CloseRejectedType ==
  ASSUME TypeInv, NEW f \in Fds, CloseRejected(f) PROVE TypeInv'
  <1>1. op[f].kind \in PublishKinds \cup {"none", "write"}
    BY DEF TypeInv, TypeOK, Op
  <1>2. Reply(f, op[f].kind, "err")
    BY DEF CloseRejected
  <1> QED BY Zenon, <1>1, <1>2, ReplyType DEF TypeInv, TypeOK, CloseRejected, netVars

----------------------------------------------------------------------------
DeleteCalls == [node : Nodes, idx : Blocks, tag : Nat]

(* DeleteBlock calls go to real stores. *)
LEMMA DeleteMsgsType ==
  ASSUME TypeInv, NEW S \in SUBSET Blocks PROVE DeleteMsgs(S) \subseteq DeleteCalls
  <1>1. \A i \in S : \A k \in DOMAIN inode.blocks[i] :
          inode.blocks[i][k] # NoNode => inode.blocks[i][k] \in Nodes
    <2>1. \A i \in S : inode.blocks[i] \in Placement
      BY DEF TypeInv, TypeOK, Inode
    <2> QED BY <2>1 DEF Placement
  <1>2. drops + 1 \in Nat
    BY DEF TypeInv, TypeOK
  <1> QED BY <1>1, <1>2 DEF DeleteMsgs, DeleteCalls

(* A truncation keeps the types. *)
LEMMA TruncateType ==
  ASSUME TypeInv, Truncate PROVE TypeInv'
  <1>1. PICK sz \in Sizes :
          LET dropped == IF sz < inode.size THEN {i \in Blocks : i > LastKept(sz)} ELSE {}
          IN
          /\ inode' = [inode EXCEPT
               !.size = sz,
               !.blocks = [i \in Blocks |-> IF i \in dropped THEN <<>> ELSE @[i]]]
          /\ deletes' = deletes \cup DeleteMsgs(dropped)
          /\ published' = [c \in Cells |-> IF c < sz THEN published[c] ELSE 0]
          /\ stirred' = stirred \cup dropped
    BY Zenon DEF Truncate
  <1> DEFINE dropped == IF sz < inode.size THEN {i \in Blocks : i > LastKept(sz)} ELSE {}
             kept == [i \in Blocks |-> IF i \in dropped THEN <<>> ELSE inode.blocks[i]]
  <1>2. sz \in Nat /\ dropped \in SUBSET Blocks
    BY BoundsAssumption
  <1>3. inode' = [inode EXCEPT !.size = sz, !.blocks = kept]
    BY <1>1
  <1>4. kept \in [Blocks -> Placement]
    BY DEF TypeInv, TypeOK, Inode, Placement
  <1>5. /\ deletes' = deletes \cup DeleteMsgs(dropped)
        /\ stirred' = stirred \cup dropped
        /\ published' = [c \in Cells |-> IF c < sz THEN published[c] ELSE 0]
    BY <1>1
  <1> HIDE DEF dropped, kept
  <1>6. inode' \in Inode
    <2>1. inode \in Inode
      BY DEF TypeInv, TypeOK
    <2> QED BY Zenon, <2>1, <1>2, <1>3, <1>4 DEF Inode
  <1>7. deletes' \subseteq DeleteCalls
    BY Zenon, <1>2, <1>5, DeleteMsgsType DEF TypeInv, TypeOK, DeleteCalls
  <1>8. published' \in [Cells -> Stamps]
    BY <1>5, BoundsAssumption DEF TypeInv, TypeOK, Stamps
  <1>9. stirred' \subseteq Blocks /\ drops' \in Nat
    BY <1>2, <1>5 DEF TypeInv, TypeOK, Truncate
  <1>10. TypeOK'
    BY Zenon, <1>6, <1>7, <1>8, <1>9 DEF TypeInv, TypeOK, DeleteCalls, Truncate, clientVars
  <1>11. ASSUME NEW g \in Fds PROVE Shape(g)'
    BY DEF TypeInv, Shape, Truncate, clientVars
  <1> QED BY <1>10, <1>11 DEF TypeInv

(* An unlink keeps the types. *)
LEMMA UnlinkType ==
  ASSUME TypeInv, Unlink PROVE TypeInv'
  <1>1. inode' \in Inode
    <2>1. inode \in Inode
      BY DEF TypeInv, TypeOK
    <2>2. inode' = [inode EXCEPT !.live = FALSE, !.size = 0, !.blocks = NoBlocks]
      BY DEF Unlink
    <2> QED BY Zenon, <2>1, <2>2, ConstantTypes DEF Inode
  <1>2. deletes' \subseteq DeleteCalls
    BY DeleteMsgsType DEF TypeInv, TypeOK, DeleteCalls, Unlink
  <1>3. TypeOK'
    BY <1>1, <1>2 DEF TypeInv, TypeOK, DeleteCalls, Unlink, clientVars, histVars
  <1>4. ASSUME NEW g \in Fds PROVE Shape(g)'
    BY DEF TypeInv, Shape, Unlink, clientVars
  <1> QED BY <1>3, <1>4 DEF TypeInv

(* A late WriteBlock stores a block, or nothing. *)
LEMMA DeliverWriteType ==
  ASSUME TypeInv, DeliverWrite PROVE TypeInv'
  <1>1. PICK w \in spawned :
          /\ spawned' = spawned \ {w}
          /\ \/ /\ store' = [store EXCEPT ![w.node][w.idx] = w.data]
                /\ stirred' = stirred \cup {w.idx}
             \/ UNCHANGED <<store, stirred>>
    BY Zenon DEF DeliverWrite
  <1>2. w.node \in Nodes /\ w.idx \in Blocks /\ w.data \in Content
    BY DEF TypeInv, TypeOK
  <1>3. store' \in [Nodes -> [Blocks -> MaybeContent]] /\ stirred' \subseteq Blocks
    <2>1. store \in [Nodes -> [Blocks -> MaybeContent]] /\ stirred \subseteq Blocks
      BY DEF TypeInv, TypeOK
    <2> QED BY <1>1, <1>2, <2>1 DEF MaybeContent
  <1>4. TypeOK'
    BY <1>1, <1>3 DEF TypeInv, TypeOK, DeliverWrite, metaVars, clientVars
  <1>5. ASSUME NEW g \in Fds PROVE Shape(g)'
    BY DEF TypeInv, Shape, DeliverWrite, clientVars
  <1> QED BY <1>4, <1>5 DEF TypeInv

(* A late DeleteBlock removes a block, or nothing. *)
LEMMA DeliverDeleteType ==
  ASSUME TypeInv, DeliverDelete PROVE TypeInv'
  <1>1. PICK d \in deletes :
          /\ deletes' = deletes \ {d}
          /\ \/ /\ store' = [store EXCEPT ![d.node][d.idx] = Absent]
                /\ stirred' = stirred \cup {d.idx}
             \/ UNCHANGED <<store, stirred>>
    BY Zenon DEF DeliverDelete
  <1>2. d.node \in Nodes /\ d.idx \in Blocks
    BY DEF TypeInv, TypeOK
  <1>3. store' \in [Nodes -> [Blocks -> MaybeContent]] /\ stirred' \subseteq Blocks
    <2>1. store \in [Nodes -> [Blocks -> MaybeContent]] /\ stirred \subseteq Blocks
      BY DEF TypeInv, TypeOK
    <2> QED BY <1>1, <1>2, <2>1 DEF MaybeContent
  <1>4. TypeOK'
    BY <1>1, <1>3 DEF TypeInv, TypeOK, DeliverDelete, metaVars, clientVars
  <1>5. ASSUME NEW g \in Fds PROVE Shape(g)'
    BY DEF TypeInv, Shape, DeliverDelete, clientVars
  <1> QED BY <1>4, <1>5 DEF TypeInv

(* A store that restarts holds nothing. *)
LEMMA RestartStoreType ==
  ASSUME TypeInv, NEW n \in Nodes, RestartStore(n) PROVE TypeInv'
  <1>1. store' \in [Nodes -> [Blocks -> MaybeContent]]
    BY ConstantTypes DEF TypeInv, TypeOK, RestartStore
  <1>2. TypeOK'
    BY Zenon, <1>1 DEF TypeInv, TypeOK, RestartStore, metaVars, clientVars, netVars
  <1>3. ASSUME NEW g \in Fds PROVE Shape(g)'
    BY DEF TypeInv, Shape, RestartStore, clientVars
  <1> QED BY <1>2, <1>3 DEF TypeInv

(* A mount that dies leaves calls that carry blocks. *)
LEMMA CrashMountType ==
  ASSUME TypeInv, NEW m \in Mounts, CrashMount(m) PROVE TypeInv'
  <1> DEFINE gone == {f \in Fds : MountOf[f] = m}
  <1>1. PICK S \in SUBSET Blocks :
          spawned' = spawned \cup UNION {Stray(f, S \cap Unsent(f)) : f \in gone}
    BY Zenon DEF CrashMount
  <1>2. \A f \in gone : Stray(f, S \cap Unsent(f)) \subseteq WriteCalls
    BY StrayType
  <1>3. spawned' \subseteq WriteCalls
    <2>1. spawned \subseteq WriteCalls
      BY DEF TypeInv, TypeOK, WriteCalls
    <2>2. UNION {Stray(f, S \cap Unsent(f)) : f \in gone} \subseteq WriteCalls
      BY Zenon, <1>2
    <2> QED BY <1>1, <2>1, <2>2
  <1>4. of' \in [Fds -> OpenFile] /\ op' \in [Fds -> Op]
    BY ConstantTypes DEF TypeInv, TypeOK, CrashMount
  <1>5. wrote' \in [Fds -> [Cells -> Stamps]] /\ result' \in [Fds -> {"none", "ok", "err"}]
    BY ConstantTypes DEF TypeInv, TypeOK, CrashMount
  <1>6. TypeOK'
    BY Zenon, <1>3, <1>4, <1>5 DEF TypeInv, TypeOK, WriteCalls, CrashMount, metaVars
  <1>7. ASSUME NEW g \in Fds PROVE Shape(g)'
    BY Zenon DEF TypeInv, Shape, CrashMount, NoOp, NoBlocks
  <1> QED BY <1>6, <1>7 DEF TypeInv

(* Membership changes keep the types. *)
LEMMA NodeStatusType ==
  ASSUME TypeInv, NEW n \in Nodes, NodeUp(n) \/ NodeDown(n) PROVE TypeInv'
  <1>1. TypeOK'
    BY Zenon DEF TypeInv, TypeOK, NodeUp, NodeDown, clientVars, netVars, histVars
  <1>2. ASSUME NEW g \in Fds PROVE Shape(g)'
    BY Zenon DEF TypeInv, Shape, NodeUp, NodeDown, clientVars
  <1> QED BY <1>1, <1>2 DEF TypeInv

(* Every step keeps the types. *)
LEMMA StepType == TypeInv /\ [Next]_vars => TypeInv'
  <1> SUFFICES ASSUME TypeInv, [Next]_vars PROVE TypeInv'
    OBVIOUS
  <1>1. CASE UNCHANGED vars
    <2>1. TypeOK'
      BY Zenon, <1>1 DEF TypeInv, TypeOK, vars, metaVars, clientVars, netVars, histVars
    <2>2. ASSUME NEW g \in Fds PROVE Shape(g)'
      BY <1>1 DEF TypeInv, Shape, vars, clientVars
    <2> QED BY <2>1, <2>2 DEF TypeInv
  <1>2. ASSUME NEW f \in Fds, Request(f) PROVE TypeInv'
    BY <1>2, OpenReadType, ReadType, WriteBeginType, PublishNothingType, PublishBeginType
       DEF Request
  <1>3. ASSUME NEW f \in Fds, Serve(f) PROVE TypeInv'
    BY <1>3, OpenInsertType, WriteStepType, WriteFailsType, PublishAllocateType,
       PublishUnplacedType, SendBlockType, SendFailsType, CloseAcceptedType,
       CloseRejectedType DEF Serve
  <1>4. ASSUME NEW m \in Mounts, Evict(m) \/ CrashMount(m) PROVE TypeInv'
    BY <1>4, EvictType, CrashMountType
  <1>5. ASSUME NEW n \in Nodes, RestartStore(n) \/ NodeUp(n) \/ NodeDown(n) PROVE TypeInv'
    BY <1>5, RestartStoreType, NodeStatusType
  <1> QED BY <1>1, <1>2, <1>3, <1>4, <1>5, TruncateType, UnlinkType,
             DeliverWriteType, DeliverDeleteType DEF Next

(* Type correctness: in every reachable state of any instance the inode, the
   open files, the stores, the cache and the calls in flight have the types
   the code declares, and a block under way to a store has its data. *)
THEOREM TypeCorrect == Spec => []TypeOK
  <1>1. TypeInv => TypeOK
    BY DEF TypeInv
  <1> QED BY InitType, StepType, <1>1, PTL DEF Spec

----------------------------------------------------------------------------
(* What pick_nodes returns when every store is Up, and its primary. *)
Chosen(i) == PickNodes(i, Nodes)
Prim(i) == Head(Chosen(i))

(* Nothing fails, writers do not overlap, and pick_nodes gives a block one
   store or more, each once. *)
Calm ==
  /\ Env = {}
  /\ \A i \in Blocks :
       /\ Chosen(i) # <<>>
       /\ \A a, b \in DOMAIN Chosen(i) : Chosen(i)[a] = Chosen(i)[b] => a = b

Placed(i) == inode.blocks[i] # <<>>
Sending(f, i) == pc[f] = "send" /\ op[f].data[i] # Absent
Untouched(f, i) == \A k \in Offsets : wrote[f][CellOf(i, k)] = 0
(* d is block i as published; as slot f is entitled to find it. *)
Public(i, d) == \A k \in Offsets : d[k] = published[CellOf(i, k)]
Own(f, i, d) == \A k \in Offsets : d[k] = Entitled(f, CellOf(i, k))
Stored(i) == IF store[Prim(i)][i] = Absent THEN Zeros ELSE store[Prim(i)][i]

(* The meta server: the file exists, every store is Up, and a block is placed
   where pick_nodes says or nowhere yet. *)
MetaCalm ==
  /\ inode.live /\ up = Nodes /\ deletes = {}
  /\ \A i \in Blocks : Placed(i) => inode.blocks[i] = Chosen(i)

(* The slots: one writer at a time, at the current generation; only writers
   have handlers that write or publish, under a handle that is open. *)
OneWriter == \A f, g \in Writers : pc[f] # "closed" /\ pc[g] # "closed" => f = g

SlotCalm(f) ==
  /\ of[f].generation <= inode.generation
  /\ f \in Writers /\ pc[f] # "closed" => of[f].generation = inode.generation
  /\ pc[f] \in {"write", "alloc", "send"} => f \in Writers /\ of[f].fh \in handles
  /\ pc[f] = "write" => op[f].stamp # 0 /\ result[f] = "none"
  /\ result[f] # "err"
  /\ result[f] = "ok" => wrote[f] = Clean

SlotsCalm == OneWriter /\ \A f \in Fds : SlotCalm(f)

(* The placements the slots know: the inode's, and all of them if the slot is
   at the current generation, but for blocks a publish is placing now. *)
MapCalm(f) ==
  pc[f] # "closed" => \A i \in Blocks :
    /\ of[f].block_map[i] # <<>> => of[f].block_map[i] = inode.blocks[i]
    /\ of[f].block_map[i] = <<>> /\ of[f].generation = inode.generation /\ Placed(i)
       => \E g \in Fds : g # f /\ Sending(g, i)

MapsCalm == \A f \in Fds : MapCalm(f)

(* The buffers hold what their slot is entitled to, and all it has written. *)
BufferCalm(f) ==
  \A i \in Blocks :
    /\ of[f].dirty[i] # Absent =>
         /\ f \in Writers /\ pc[f] \in {"idle", "write", "alloc"}
         /\ of[f].fh \in handles
         /\ Own(f, i, of[f].dirty[i])
    /\ of[f].dirty[i] = Absent /\ ~Sending(f, i) => Untouched(f, i)

BuffersCalm == \A f \in Fds : BufferCalm(f)

(* A publish under way: each of its blocks is still to be sent to all its
   stores, or has reached its primary. *)
SendsCalm ==
  \A f \in Fds, i \in Blocks : Sending(f, i) =>
    /\ Placed(i)
    /\ of[f].block_map[i] # <<>>
    /\ Own(f, i, op[f].data[i])
    /\ \A j \in DOMAIN op[f].left[i] : op[f].left[i][j] # NoNode
    /\ \/ op[f].left[i] = Chosen(i)
       \/ /\ store[Prim(i)][i] = op[f].data[i]
          /\ \A j \in DOMAIN op[f].left[i] : op[f].left[i][j] # Prim(i)

(* The primaries hold what is published, or what is about to be; calls left
   running go to replicas. *)
StoresCalm ==
  /\ \A i \in Blocks :
       /\ Placed(i) => \/ Public(i, Stored(i))
                       \/ \E f \in Fds : Sending(f, i) /\ store[Prim(i)][i] = op[f].data[i]
       /\ ~Placed(i) => Public(i, Zeros) /\ store[Prim(i)][i] = Absent
  /\ \A w \in spawned : w.node # Prim(w.idx)

(* So do the cache entries of the current generation, and none is ahead. *)
EntryCalm(e) ==
  /\ e[1] <= inode.generation
  /\ e[1] = inode.generation =>
       \/ Public(e[2], e[3])
       \/ \E f \in Fds : Sending(f, e[2]) /\ e[3] = op[f].data[e[2]]

CachesCalm == \A m \in Mounts : \A e \in cache[m] : EntryCalm(e)

CalmInv ==
  MetaCalm /\ SlotsCalm /\ MapsCalm /\ BuffersCalm /\ SendsCalm /\ StoresCalm /\ CachesCalm

----------------------------------------------------------------------------
(* A block's stores are real, and the primary is not among its replicas. *)
LEMMA ChosenParts ==
  ASSUME Calm, NEW i \in Blocks
  PROVE  /\ Chosen(i) \in Seq(Nodes) /\ Chosen(i) # <<>>
         /\ Prim(i) \in Nodes /\ Prim(i) # NoNode
         /\ \A j \in DOMAIN Chosen(i) : Chosen(i)[j] # NoNode
         /\ \A j \in DOMAIN Tail(Chosen(i)) : Tail(Chosen(i))[j] # Prim(i)
  <1>1. Chosen(i) \in Seq(Nodes) /\ Chosen(i) # <<>>
    BY PickAssumption DEF Chosen, Calm
  <1>2. Prim(i) \in Nodes /\ Prim(i) = Chosen(i)[1] /\ 1 \in DOMAIN Chosen(i)
    BY <1>1 DEF Prim
  <1>3. \A j \in DOMAIN Chosen(i) : Chosen(i)[j] \in Nodes
    BY <1>1
  <1>4. \A j \in DOMAIN Tail(Chosen(i)) :
          /\ j \in Nat /\ j # 0 /\ j + 1 \in DOMAIN Chosen(i)
          /\ Tail(Chosen(i))[j] = Chosen(i)[j + 1]
    BY <1>1
  <1>5. \A a, b \in DOMAIN Chosen(i) : Chosen(i)[a] = Chosen(i)[b] => a = b
    BY DEF Calm
  <1>6. ASSUME NEW j \in DOMAIN Tail(Chosen(i)) PROVE Tail(Chosen(i))[j] # Prim(i)
    <2>1. j + 1 # 1
      BY <1>4
    <2> QED BY <1>2, <1>4, <1>5, <2>1
  <1> QED BY <1>1, <1>2, <1>3, <1>6, AbsentAssumption

(* Multiplication by the block size keeps the order. *)
LEMMA BlocksApart ==
  ASSUME NEW i \in Nat, NEW j \in Nat, i < j PROVE i * BlockSize + BlockSize <= j * BlockSize
  <1>1. BlockSize \in Nat
    BY BoundsAssumption
  <1>2. PICK d \in Nat : j = i + 1 + d
    <2>1. j - i - 1 \in Nat /\ j = i + 1 + (j - i - 1)
      OBVIOUS
    <2> QED BY <2>1
  <1>3. j * BlockSize = i * BlockSize + BlockSize + d * BlockSize
    BY <1>1, <1>2
  <1>4. d * BlockSize \in Nat /\ i * BlockSize \in Nat
    BY <1>1
  <1> QED BY <1>1, <1>3, <1>4

(* Blocks and offsets number the cells, each once. *)
LEMMA CellTypes ==
  ASSUME NEW i \in Blocks, NEW k \in Offsets
  PROVE  /\ i \in Nat /\ k \in Nat /\ k < BlockSize /\ i * BlockSize \in Nat
         /\ CellOf(i, k) = i * BlockSize + k
         /\ CellOf(i, k) \in Cells
  <1>1. i \in Nat /\ i < NumBlocks /\ k \in Nat /\ k < BlockSize
        /\ BlockSize \in Nat /\ NumBlocks \in Nat
    BY BoundsAssumption DEF Blocks, Offsets
  <1>2. i * BlockSize \in Nat /\ NumBlocks * BlockSize \in Nat
    BY <1>1
  <1>3. i * BlockSize + BlockSize <= NumBlocks * BlockSize
    BY <1>1, BlocksApart
  <1> QED BY <1>1, <1>2, <1>3 DEF CellOf, Cells

(* No cell is in two blocks. *)
LEMMA CellsApart ==
  ASSUME NEW i \in Blocks, NEW k \in Offsets, NEW j \in Blocks, i # j
  PROVE  CellOf(i, k) < j * BlockSize \/ CellOf(i, k) >= j * BlockSize + BlockSize
  <1>1. /\ i \in Nat /\ j \in Nat /\ k \in Nat /\ k < BlockSize /\ BlockSize \in Nat
        /\ i * BlockSize \in Nat /\ j * BlockSize \in Nat
        /\ CellOf(i, k) = i * BlockSize + k
    <2>1. BlockSize \in Nat /\ j \in Nat
      BY BoundsAssumption DEF Blocks
    <2> QED BY <2>1, CellTypes
  <1>2. CASE i < j
    BY <1>1, <1>2, BlocksApart
  <1>3. CASE j < i
    BY <1>1, <1>3, BlocksApart
  <1> QED BY <1>1, <1>2, <1>3

(* Every cell is in one. *)
LEMMA CellCovered ==
  ASSUME NEW c \in Cells PROVE \E i \in Blocks, k \in Offsets : c = CellOf(i, k)
  <1>1. c \in Nat /\ c < NumBlocks * BlockSize
    <2>1. NumBlocks * BlockSize \in Nat
      BY BoundsAssumption
    <2> QED BY <2>1 DEF Cells
  <1>2. BlockOf(c) \in Blocks
    BY <1>1, BlockOfInside
  <1>3. /\ BlockOf(c) * BlockSize \in Nat /\ BlockOf(c) * BlockSize <= c
        /\ c < BlockOf(c) * BlockSize + BlockSize
    BY <1>1, DivBounds, BoundsAssumption DEF BlockOf
  <1>4. c - BlockOf(c) * BlockSize \in Offsets
    BY <1>1, <1>3, BoundsAssumption DEF Offsets
  <1>5. c = CellOf(BlockOf(c), c - BlockOf(c) * BlockSize)
    BY <1>1, <1>3 DEF CellOf
  <1> QED BY <1>2, <1>4, <1>5

(* A slot none of whose blocks is touched has nothing unpublished. *)
LEMMA UntouchedClean ==
  ASSUME TypeInv, NEW f \in Fds, \A i \in Blocks : Untouched(f, i) PROVE wrote[f] = Clean
  <1>1. wrote[f] \in [Cells -> Stamps]
    BY DEF TypeInv, TypeOK
  <1>2. \A c \in Cells : wrote[f][c] = 0
    BY CellCovered DEF Untouched
  <1> QED BY <1>1, <1>2 DEF Clean

(* The cells a turn of apply_write sets are those of its chunk. *)
LEMMA ChunkCells ==
  ASSUME TypeInv, NEW f \in Fds, pc[f] = "write", NEW j \in Blocks, NEW k \in Offsets
  PROVE  CellOf(j, k) \in op[f].cur .. ChunkEnd(f) - 1
         <=> /\ j = BlockOf(op[f].cur)
             /\ k \in InBlock(op[f].cur) .. InBlock(op[f].cur) + (ChunkEnd(f) - op[f].cur) - 1
  <1> DEFINE i == BlockOf(op[f].cur)
             x == i * BlockSize
  <1>1. /\ op[f].cur \in Nat /\ i \in Blocks /\ ChunkEnd(f) \in Nat
        /\ op[f].cur < ChunkEnd(f) /\ ChunkEnd(f) <= x + BlockSize
    BY ChunkEndBounds
  <1>2. x \in Nat /\ x <= op[f].cur /\ InBlock(op[f].cur) = op[f].cur - x
    BY <1>1, DivBounds, BoundsAssumption DEF InBlock, BlockOf
  <1>3. /\ BlockSize \in Nat /\ k \in Nat /\ CellOf(j, k) \in Nat
        /\ (j = i => CellOf(j, k) = x + k)
    <2>1. CellOf(j, k) = j * BlockSize + k /\ j * BlockSize \in Nat /\ k \in Nat
      BY CellTypes
    <2> QED BY <2>1, BoundsAssumption
  <1>4. j # i => CellOf(j, k) < x \/ CellOf(j, k) >= x + BlockSize
    BY <1>1, CellsApart
  <1> HIDE DEF x
  <1>5. CASE j = i
    BY <1>1, <1>2, <1>3, <1>5
  <1>6. CASE j # i
    BY <1>1, <1>2, <1>3, <1>4, <1>6
  <1> QED BY <1>5, <1>6

----------------------------------------------------------------------------
(* A file just created is calm. *)
LEMMA InitCalm == ASSUME Calm, Init PROVE CalmInv
  <1>1. \A i \in Blocks, k \in Offsets : CellOf(i, k) \in Cells
    BY CellTypes
  <1>2. MetaCalm
    BY DEF Init, MetaCalm, Placed, NoBlocks
  <1>3. SlotsCalm
    <2>1. OneWriter
      BY SlotsAssumption DEF Init, OneWriter
    <2>2. ASSUME NEW f \in Fds PROVE SlotCalm(f)
      <3>1. of[f].generation = 0 /\ inode.generation = 0
        BY Zenon DEF Init, NoFile
      <3>2. pc[f] = "closed" /\ result[f] = "none"
        BY ZenonT(30) DEF Init
      <3> QED BY <3>1, <3>2 DEF SlotCalm
    <2> QED BY Zenon, <2>1, <2>2 DEF SlotsCalm
  <1>4. MapsCalm /\ SendsCalm /\ CachesCalm
    BY DEF Init, MapsCalm, MapCalm, SendsCalm, CachesCalm, Sending
  <1>5. BuffersCalm
    BY ZenonT(30), <1>1 DEF Init, BuffersCalm, BufferCalm, NoFile, NoDirty, Untouched, Clean
  <1>6. StoresCalm
    <2>1. \A i \in Blocks : ~Placed(i)
      BY DEF Init, Placed, NoBlocks
    <2>2. \A i \in Blocks : Public(i, Zeros)
      BY <1>1 DEF Init, Public, Zeros, Clean
    <2>3. \A i \in Blocks : store[Prim(i)][i] = Absent
      BY ChosenParts DEF Init, NoDirty
    <2> QED BY <2>1, <2>2, <2>3 DEF Init, StoresCalm
  <1> QED BY <1>2, <1>3, <1>4, <1>5, <1>6 DEF CalmInv

(* When nothing fails, only the primary answers. *)
LEMMA AnsweringPrim ==
  ASSUME Calm, NEW i \in Blocks PROVE Answering(Chosen(i)) \subseteq {Prim(i)}
  <1>1. /\ Chosen(i) \in Seq(Nodes) /\ Chosen(i) # <<>>
        /\ \A j \in DOMAIN Chosen(i) : Chosen(i)[j] # NoNode
    BY ChosenParts
  <1>2. \A j \in DOMAIN Chosen(i) : ~ReadCanFail(Chosen(i)[j])
    BY <1>1 DEF ReadCanFail, Calm
  <1>3. ASSUME NEW k \in DOMAIN Chosen(i),
               \A l \in 1 .. k - 1 : ReadCanFail(Chosen(i)[l])
        PROVE  k = 1
    <2>1. DOMAIN Chosen(i) = 1 .. Len(Chosen(i)) /\ Len(Chosen(i)) \in Nat /\ k \in Nat
      BY <1>1
    <2>2. k # 1 => 1 \in 1 .. k - 1 /\ 1 \in DOMAIN Chosen(i)
      BY <2>1
    <2> QED BY <1>2, <1>3, <2>2
  <1>4. Prim(i) = Chosen(i)[1]
    BY <1>1 DEF Prim
  <1> QED BY <1>3, <1>4 DEF Answering

(* A slot that has not touched a block is entitled to it as published. *)
LEMMA PublicOwn ==
  ASSUME NEW f \in Fds, NEW i \in Blocks, NEW d, Public(i, d), Untouched(f, i)
  PROVE  Own(f, i, d)
  BY DEF Public, Untouched, Own, Entitled

(* While no publish is under way, a slot at the current generation finds a hole
   only where nothing is published. *)
LEMMA HoleOwn ==
  ASSUME CalmInv, Settled, NEW f \in Fds, NEW i \in Blocks,
         pc[f] # "closed", of[f].generation = inode.generation,
         of[f].dirty[i] = Absent, of[f].block_map[i] = <<>>
  PROVE  Own(f, i, Zeros)
  <1>1. \A g \in Fds : ~Sending(g, i)
    BY DEF Settled, Sending
  <1>2. ~Placed(i)
    BY Zenon, <1>1 DEF CalmInv, MapsCalm, MapCalm
  <1>3. Untouched(f, i)
    BY Zenon, <1>1 DEF CalmInv, BuffersCalm, BufferCalm
  <1>4. Public(i, Zeros)
    BY <1>2 DEF CalmInv, StoresCalm
  <1> QED BY <1>3, <1>4, PublicOwn

(* And fetch_block returns what it is entitled to, from wherever it takes it. *)
LEMMA FetchOwn ==
  ASSUME Calm, TypeInv, CalmInv, Settled, NEW f \in Fds, NEW i \in Blocks,
         pc[f] # "closed", of[f].generation = inode.generation,
         of[f].dirty[i] # Absent \/ of[f].block_map[i] # <<>>,
         NEW b \in Fetch(f, i)
  PROVE  Own(f, i, b.data)
  <1>1. \A g \in Fds, j \in Blocks : ~Sending(g, j)
    BY ZenonT(30) DEF Settled, Sending
  <1>2. CASE of[f].dirty[i] # Absent
    BY <1>2 DEF Fetch, CalmInv, BuffersCalm, BufferCalm
  <1>3. CASE of[f].dirty[i] = Absent
    <2>1. Untouched(f, i)
      BY <1>1, <1>3 DEF CalmInv, BuffersCalm, BufferCalm
    <2>2. CASE Cached(f, i) # {}
      <3>1. PICK e \in Cached(f, i) : b.data = e[3]
        BY <1>3, <2>2 DEF Fetch
      <3>2. e \in cache[MountOf[f]] /\ MountOf[f] \in Mounts
            /\ e[1] = inode.generation /\ e[2] = i
        BY Zenon, <3>1, SlotsAssumption DEF Cached
      <3>3. Public(i, e[3])
        BY ZenonT(30), <1>1, <3>2 DEF CalmInv, CachesCalm, EntryCalm
      <3> QED BY Zenon, <2>1, <3>1, <3>3, PublicOwn
    <2>3. CASE Cached(f, i) = {}
      <3>1. of[f].block_map[i] = inode.blocks[i] /\ Placed(i)
        BY <1>3 DEF CalmInv, MapsCalm, MapCalm, Placed
      <3>2. of[f].block_map[i] = Chosen(i)
        BY Zenon, <3>1 DEF CalmInv, MetaCalm
      <3>3. b = Answer(f, i, Prim(i))
        BY ZenonT(30), <1>3, <2>3, <3>2, AnsweringPrim DEF Fetch
      <3>4. b.data = Stored(i)
        BY ZenonT(30), <3>3 DEF Answer, Stored
      <3>5. Public(i, Stored(i))
        BY <1>1, <3>1 DEF CalmInv, StoresCalm
      <3> QED BY Zenon, <2>1, <3>4, <3>5, PublicOwn
    <2> QED BY Zenon, <2>2, <2>3
  <1> QED BY <1>2, <1>3

(* CalmInv implies what the applications are promised. *)
LEMMA CalmImplies ==
  ASSUME Calm, TypeInv, CalmInv
  PROVE  CloseToOpen /\ FreshOpen /\ OkMeansPublished /\ PublishSucceeds
  <1>1. CloseToOpen
    <2> SUFFICES ASSUME NEW f \in Fds, pc[f] = "idle", Settled,
                        of[f].generation = inode.generation,
                        NEW i \in Blocks, NEW b \in ReadBlock(f, i)
                 PROVE  Own(f, i, b.data)
      BY Zenon DEF CloseToOpen, Own
    <2>1. CASE of[f].block_map[i] = <<>> /\ of[f].dirty[i] = Absent
      BY <2>1, HoleOwn DEF ReadBlock
    <2>2. CASE ~(of[f].block_map[i] = <<>> /\ of[f].dirty[i] = Absent)
      BY <2>2, FetchOwn DEF ReadBlock
    <2> QED BY ZenonT(30), <2>1, <2>2
  <1>2. FreshOpen
    <2> SUFFICES ASSUME Settled, NEW i \in Blocks PROVE Public(i, FreshBlock(i))
      BY ZenonT(30) DEF FreshOpen, Holds, Public
    <2>1. CASE ~Placed(i)
      BY <2>1 DEF Placed, FreshBlock, CalmInv, StoresCalm
    <2>2. CASE Placed(i)
      <3>1. inode.blocks[i] = Chosen(i) /\ Chosen(i) # <<>> /\ Prim(i) # NoNode
        BY <2>2, ChosenParts DEF CalmInv, MetaCalm
      <3>2. FreshBlock(i) = Stored(i)
        BY <3>1 DEF FreshBlock, Stored, Prim
      <3> QED BY <2>2, <3>2 DEF CalmInv, StoresCalm, Settled, Sending
    <2> QED BY <2>1, <2>2
  <1> QED BY ZenonT(30), <1>1, <1>2 DEF OkMeansPublished, PublishSucceeds, CalmInv, SlotsCalm, SlotCalm,
             OneWriter

(* A placement that is not empty has a first store. *)
LEMMA PlacementHead ==
  ASSUME NEW p \in Placement, p # <<>> PROVE 1 \in DOMAIN p /\ Head(p) = p[1]
  <1>1. CASE p \in Seq(Nodes)
    BY <1>1
  <1>2. CASE p = <<NoNode>>
    BY <1>2
  <1> QED BY <1>1, <1>2 DEF Placement

(* What cannot happen: no call fails, no close is turned down, nobody removes,
   truncates, restarts or crashes anything. *)
LEMMA CalmExcludes ==
  ASSUME Calm, TypeInv, CalmInv, NEW f \in Fds
  PROVE  /\ ~WriteFails(f) /\ ~PublishUnplaced(f) /\ ~SendFails(f) /\ ~CloseRejected(f)
         /\ ~Truncate /\ ~Unlink /\ ~DeliverDelete
         /\ \A m \in Mounts : ~CrashMount(m)
         /\ \A n \in Nodes : ~RestartStore(n) /\ ~NodeUp(n) /\ ~NodeDown(n)
  <1>1. ~WriteFails(f)
    <2> SUFFICES ASSUME WriteFails(f) PROVE FALSE OBVIOUS
    <2> DEFINE i == BlockOf(op[f].cur)
    <2>1. i \in Blocks /\ of[f].block_map[i] # <<>> /\ FetchFails(f, i) /\ pc[f] = "write"
      BY ZenonT(30), ChunkEndBounds DEF WriteFails
    <2> HIDE DEF i
    <2>2. of[f].block_map[i] = Chosen(i)
      BY <2>1 DEF CalmInv, MapsCalm, MapCalm, MetaCalm, Placed
    <2>3. 1 \in DOMAIN Chosen(i) /\ Chosen(i)[1] # NoNode
      BY <2>1, ChosenParts
    <2> QED BY <2>1, <2>2, <2>3 DEF FetchFails, ReadCanFail, Calm
  <1>2. ~PublishUnplaced(f)
    BY ZenonT(30) DEF PublishUnplaced, CalmInv, MetaCalm
  <1>3. ~SendFails(f)
    <2> SUFFICES ASSUME SendFails(f) PROVE FALSE OBVIOUS
    <2>1. PICK i \in Unsent(f) : Head(op[f].left[i]) = NoNode
      BY Zenon DEF SendFails, Calm
    <2>2. i \in Blocks /\ op[f].left[i] # <<>> /\ Sending(f, i)
      BY DEF SendFails, Unsent, Sending, TypeInv, Shape
    <2>3. op[f].left[i] \in Placement
      BY <2>2 DEF TypeInv, TypeOK, Op
    <2>4. 1 \in DOMAIN op[f].left[i] /\ Head(op[f].left[i]) = op[f].left[i][1]
      BY ZenonT(30), <2>2, <2>3, PlacementHead
    <2> QED BY <2>1, <2>2, <2>4 DEF CalmInv, SendsCalm
  <1>4. ~CloseRejected(f)
    BY Zenon DEF CloseRejected, Sent, Accepts, CalmInv, SlotsCalm, SlotCalm, OneWriter, MetaCalm
  <1>5. ~DeliverDelete
    BY DEF DeliverDelete, CalmInv, MetaCalm
  <1> QED BY Zenon, <1>1, <1>2, <1>3, <1>4, <1>5 DEF Calm, Truncate, Unlink, CrashMount, RestartStore,
             NodeUp, NodeDown

----------------------------------------------------------------------------
(* The steps that leave alone the inode, the stores, the calls on their way
   and every publish under way. *)
KeepsSends ==
  /\ UNCHANGED <<inode, up, store, spawned, deletes, published>>
  /\ \A f \in Fds :
       /\ pc'[f] = "send" <=> pc[f] = "send"
       /\ pc[f] = "send" => op'[f] = op[f] /\ of'[f] = of[f] /\ wrote'[f] = wrote[f]

(* They keep what is said of those. *)
LEMMA KeepsSendsCalm ==
  ASSUME CalmInv, KeepsSends
  PROVE  /\ MetaCalm' /\ SendsCalm' /\ StoresCalm'
         /\ \A f \in Fds, i \in Blocks : Sending(f, i)' <=> Sending(f, i)
  <1>1. MetaCalm'
    BY DEF CalmInv, MetaCalm, KeepsSends, Placed
  <1>2. \A f \in Fds, i \in Blocks : Sending(f, i)' <=> Sending(f, i)
    BY ZenonT(30) DEF KeepsSends, Sending
  <1>3. SendsCalm'
    <2> SUFFICES ASSUME NEW f \in Fds, NEW i \in Blocks, Sending(f, i)
                 PROVE  /\ Placed(i)' /\ of'[f].block_map[i] # <<>>
                        /\ Own(f, i, op[f].data[i])'
                        /\ \A j \in DOMAIN op'[f].left[i] : op'[f].left[i][j] # NoNode
                        /\ \/ op'[f].left[i] = Chosen(i)
                           \/ /\ store'[Prim(i)][i] = op'[f].data[i]
                              /\ \A j \in DOMAIN op'[f].left[i] :
                                   op'[f].left[i][j] # Prim(i)
      BY Zenon, <1>2 DEF SendsCalm
    <2>1. /\ inode' = inode /\ store' = store /\ published' = published
          /\ op'[f] = op[f] /\ of'[f] = of[f] /\ wrote'[f] = wrote[f]
      BY Zenon DEF KeepsSends, Sending
    <2>2. Own(f, i, op[f].data[i]) => Own(f, i, op[f].data[i])'
      BY Zenon, <2>1 DEF Own, Entitled
    <2>3. /\ Placed(i) /\ of[f].block_map[i] # <<>> /\ Own(f, i, op[f].data[i])
          /\ \A j \in DOMAIN op[f].left[i] : op[f].left[i][j] # NoNode
          /\ \/ op[f].left[i] = Chosen(i)
             \/ /\ store[Prim(i)][i] = op[f].data[i]
                /\ \A j \in DOMAIN op[f].left[i] : op[f].left[i][j] # Prim(i)
      BY Zenon DEF CalmInv, SendsCalm
    <2> QED BY ZenonT(30), <2>1, <2>2, <2>3 DEF Placed
  <1>4. StoresCalm'
    <2>1. \A i \in Blocks : Stored(i)' = Stored(i)
      BY Zenon DEF Stored, KeepsSends, Prim
    <2>2. \A i \in Blocks : /\ Public(i, Stored(i)) => Public(i, Stored(i))'
                            /\ Public(i, Zeros) => Public(i, Zeros)'
      BY ZenonT(30), <2>1 DEF Public, KeepsSends
    <2>3. \A f \in Fds, i \in Blocks :
            Sending(f, i) /\ store[Prim(i)][i] = op[f].data[i]
            => Sending(f, i)' /\ (store[Prim(i)][i] = op[f].data[i])'
      BY ZenonT(30), <1>2 DEF KeepsSends, Sending
    <2> QED BY ZenonT(30), <2>2, <2>3 DEF CalmInv, StoresCalm, KeepsSends, Placed, Prim
  <1> QED BY <1>1, <1>2, <1>3, <1>4

(* If the cache entries they add are as they should be, so are the caches. *)
LEMMA KeepsCachesCalm ==
  ASSUME CalmInv, KeepsSends,
         \A m \in Mounts : \A e \in cache'[m] : e \in cache[m] \/ EntryCalm(e)
  PROVE  CachesCalm'
  <1>1. ASSUME NEW m \in Mounts, NEW e \in cache'[m] PROVE EntryCalm(e)'
    <2>1. EntryCalm(e)
      BY <1>1 DEF CalmInv, CachesCalm
    <2> QED BY <2>1 DEF EntryCalm, KeepsSends, Public, Sending
  <1> QED BY Zenon, <1>1 DEF CachesCalm

(* The slots other than the one a handler runs for. *)
SameSlot(g) ==
  /\ pc'[g] = pc[g] /\ of'[g] = of[g] /\ op'[g] = op[g]
  /\ wrote'[g] = wrote[g] /\ result'[g] = result[g]

(* Such steps do not concern them. *)
LEMMA OthersCalm ==
  ASSUME CalmInv, KeepsSends, NEW g \in Fds, SameSlot(g),
         of[g].fh \in handles => of[g].fh \in handles'
  PROVE  SlotCalm(g)' /\ MapCalm(g)' /\ BufferCalm(g)'
  <1>1. SlotCalm(g)'
    BY DEF CalmInv, SlotsCalm, SlotCalm, KeepsSends, SameSlot
  <1>2. \A h \in Fds, i \in Blocks : Sending(h, i)' <=> Sending(h, i)
    BY ZenonT(30), KeepsSendsCalm
  <1>3. MapCalm(g)'
    <2>1. MapCalm(g) /\ inode' = inode
      BY Zenon DEF CalmInv, MapsCalm, KeepsSends
    <2>2. pc'[g] = pc[g] /\ of'[g] = of[g]
      BY Zenon DEF SameSlot
    <2> QED BY Zenon, <1>2, <2>1, <2>2 DEF MapCalm, Placed
  <1>4. BufferCalm(g)'
    <2>1. BufferCalm(g) /\ published' = published
      BY DEF CalmInv, BuffersCalm, KeepsSends
    <2>2. wrote'[g] = wrote[g] /\ of'[g] = of[g] /\ pc'[g] = pc[g]
      BY DEF SameSlot
    <2>3. \A i \in Blocks : Untouched(g, i)' <=> Untouched(g, i)
      BY ZenonT(30), <2>2 DEF Untouched
    <2>4. \A i \in Blocks : Own(g, i, of[g].dirty[i]) => Own(g, i, of[g].dirty[i])'
      BY Zenon, <2>1, <2>2 DEF Own, Entitled
    <2> QED BY ZenonT(30), <1>2, <2>1, <2>2, <2>3, <2>4 DEF BufferCalm
  <1> QED BY Zenon, <1>1, <1>3, <1>4

(* So a step of slot f's handler has to be looked at for slot f only. *)
LEMMA SlotStep ==
  ASSUME CalmInv, KeepsSends, NEW f \in Fds,
         \A g \in Fds \ {f} : SameSlot(g),
         handles \subseteq handles',
         \A m \in Mounts : \A e \in cache'[m] : e \in cache[m] \/ EntryCalm(e),
         OneWriter', SlotCalm(f)', MapCalm(f)', BufferCalm(f)'
  PROVE  CalmInv'
  <1>1. \A g \in Fds \ {f} : SlotCalm(g)' /\ MapCalm(g)' /\ BufferCalm(g)'
    BY OthersCalm
  <1>2. SlotsCalm' /\ MapsCalm' /\ BuffersCalm'
    BY Zenon, <1>1 DEF SlotsCalm, MapsCalm, BuffersCalm
  <1> QED BY Zenon, <1>2, KeepsSendsCalm, KeepsCachesCalm DEF CalmInv

(* The types of what CalmInv is about. *)
LEMMA CalmTypes ==
  ASSUME TypeInv
  PROVE  /\ of \in [Fds -> OpenFile] /\ pc \in [Fds -> Stages] /\ op \in [Fds -> Op]
         /\ wrote \in [Fds -> [Cells -> Stamps]]
         /\ result \in [Fds -> {"none", "ok", "err"}]
         /\ inode \in Inode /\ inode.generation \in Nat
         /\ store \in [Nodes -> [Blocks -> MaybeContent]]
         /\ cache \in [Mounts -> SUBSET (Nat \X Blocks \X Content)]
  BY Zenon DEF TypeInv, TypeOK, Inode

(* Opening: the slot starts from the inode as it is. *)
LEMMA OpenReadCalm ==
  ASSUME Calm, TypeInv, CalmInv, NEW f \in Fds, OpenRead(f) PROVE CalmInv'
  <1>1. /\ of \in [Fds -> OpenFile] /\ pc \in [Fds -> Stages]
        /\ wrote \in [Fds -> [Cells -> Stamps]]
        /\ result \in [Fds -> {"none", "ok", "err"}]
        /\ inode.generation \in Nat
    BY CalmTypes
  <1>2. /\ pc[f] = "closed" /\ pc'[f] = "opening"
        /\ of'[f].generation = inode.generation /\ of'[f].block_map = inode.blocks
        /\ of'[f].dirty = NoDirty /\ wrote'[f] = Clean /\ result'[f] = "none"
    BY <1>1 DEF OpenRead, NoFile
  <1>3. UNCHANGED <<inode, up, store, spawned, deletes, published, handles, op, cache>>
    BY DEF OpenRead, metaVars, netVars
  <1>4. \A g \in Fds \ {f} : SameSlot(g)
    BY <1>1, <1>3 DEF OpenRead, SameSlot
  <1>5. KeepsSends
    BY ZenonT(30), <1>2, <1>3, <1>4 DEF KeepsSends, SameSlot
  <1>6. OneWriter'
    <2>1. f \in Writers => \A g \in Writers : pc[g] = "closed"
      BY ZenonT(30) DEF OpenRead, Calm
    <2> QED BY <1>2, <1>4, <2>1, SlotsAssumption DEF OneWriter, CalmInv, SlotsCalm, SameSlot
  <1>7. SlotCalm(f)'
    BY <1>1, <1>2, <1>3 DEF SlotCalm
  <1>8. MapCalm(f)'
    BY Zenon, <1>2, <1>3 DEF MapCalm, Placed
  <1>9. BufferCalm(f)'
    <2>1. \A i \in Blocks, k \in Offsets : CellOf(i, k) \in Cells
      BY Zenon, CellTypes
    <2> QED BY <1>2, <2>1 DEF BufferCalm, NoDirty, Untouched, Clean
  <1> QED BY <1>3, <1>4, <1>5, <1>6, <1>7, <1>8, <1>9, SlotStep

(* The handle is new; the slot is as it was. *)
LEMMA OpenInsertCalm ==
  ASSUME Calm, TypeInv, CalmInv, NEW f \in Fds, OpenInsert(f) PROVE CalmInv'
  <1>1. of \in [Fds -> OpenFile] /\ pc \in [Fds -> Stages]
    BY CalmTypes
  <1>2. /\ pc[f] = "opening" /\ pc'[f] = "idle"
        /\ of'[f].generation = of[f].generation /\ of'[f].block_map = of[f].block_map
        /\ of'[f].dirty = of[f].dirty
    BY <1>1 DEF OpenInsert, OpenFile
  <1>3. /\ UNCHANGED <<inode, up, store, spawned, deletes, published, op, cache, wrote, result>>
        /\ handles \subseteq handles'
    BY DEF OpenInsert, netVars, histVars
  <1>4. \A g \in Fds \ {f} : SameSlot(g)
    BY <1>1, <1>3 DEF OpenInsert, SameSlot
  <1>5. KeepsSends
    BY Zenon, <1>2, <1>3, <1>4 DEF KeepsSends, SameSlot
  <1>6. OneWriter'
    BY Zenon, <1>2, <1>4, SlotsAssumption DEF OneWriter, CalmInv, SlotsCalm, SameSlot
  <1>7. SlotCalm(f)'
    BY <1>2, <1>3 DEF CalmInv, SlotsCalm, SlotCalm
  <1>8. \A h \in Fds, i \in Blocks : Sending(h, i)' <=> Sending(h, i)
    BY ZenonT(30), <1>5, KeepsSendsCalm
  <1>9. MapCalm(f)'
    BY <1>2, <1>3, <1>8 DEF CalmInv, MapsCalm, MapCalm, Placed
  <1>10. BufferCalm(f)'
    BY Zenon, <1>2, <1>3, <1>8 DEF CalmInv, BuffersCalm, BufferCalm, Untouched
  <1> QED BY Zenon, <1>3, <1>4, <1>5, <1>6, <1>7, <1>9, <1>10, SlotStep
=============================================================================
