----------------------- MODULE FileDataSafety_proofs -----------------------
(***************************************************************************)
(* Safety theorems about FileData, whatever fails: handles and generations *)
(* implement the sessions of OptimisticFile, the slots agree on where the  *)
(* blocks of the file are, the block caches mask no close, bytes stay at   *)
(* the offset they were written to, and the size is the end of what is     *)
(* published.                                                              *)
(***************************************************************************)
EXTENDS FileData_proofs, FileCommits

(* The types hold for good. *)
LEMMA TypeAlways == Spec => []TypeInv
  BY InitType, StepType, PTL DEF Spec

----------------------------------------------------------------------------
(***************************************************************************)
(* FileData implements OptimisticFile: the initial states map to initial   *)
(* states, and every step of the mounts, the meta server, the stores and   *)
(* the environment to a Begin, a Commit, a Remove or an Abandon (which     *)
(* abandons nothing when the step is no business of the sessions).         *)
(***************************************************************************)
Opened(f) == pc[f] \notin {"closed", "opening"}

(* The mapping needs that two sessions never share a handle: else the end of
   one would be the end of both. *)
SessionInv ==
  /\ 0 < nextFh
  /\ \A f \in Fds : of[f].fh < nextFh /\ of[f].generation <= inode.generation
  /\ \A f, g \in Fds : Opened(f) /\ Opened(g) /\ of[f].fh = of[g].fh => f = g

(* The steps that start no session, commit none and leave the inode there. *)
KeepsSessions ==
  /\ UNCHANGED <<nextFh, log>>
  /\ inode'.generation = inode.generation /\ inode'.live = inode.live
  /\ handles' \subseteq handles
  /\ \A f \in Fds :
       \/ /\ of'[f].fh = of[f].fh /\ of'[f].generation = of[f].generation
          /\ Opened(f)' => Opened(f)
       \/ /\ of'[f].fh = 0 /\ of'[f].generation <= inode.generation
          /\ ~Opened(f)'

(* The types of what the sessions are read from. *)
LEMMA SessionTypes ==
  ASSUME TypeInv
  PROVE  /\ inode \in Inode /\ inode.generation \in Nat
         /\ nextFh \in Nat /\ handles \subseteq Nat
         /\ of \in [Fds -> OpenFile] /\ pc \in [Fds -> Stages] /\ op \in [Fds -> Op]
         /\ \A f \in Fds : of[f].fh \in Nat /\ of[f].generation \in Nat
  BY DEF TypeInv, TypeOK, Inode, OpenFile

(* Such a step abandons some sessions, or none. *)
LEMMA KeepsAbandon == ASSUME KeepsSessions PROVE Commits!Abandon
  <1> DEFINE now == {SessionOf(f) : f \in {g \in Fds : Holding(g)}}
  <1>1. \A f \in Fds : Holding(f)' => Holding(f) /\ SessionOf(f)' = SessionOf(f)
    BY DEF KeepsSessions, Holding, Opened, SessionOf
  <1>2. now' \subseteq now
    BY <1>1
  <1>3. now' = now \ (now \ now') /\ now \ now' \in SUBSET now
    BY <1>2
  <1>4. \E S \in SUBSET now : now' = now \ S
    BY Zenon, <1>3
  <1>5. /\ UNCHANGED nextFh /\ UNCHANGED log
        /\ inode'.generation = inode.generation /\ inode'.live = inode.live
    BY DEF KeepsSessions
  <1> HIDE DEF now
  <1>6. /\ \E S \in SUBSET now : now' = now \ S
        /\ UNCHANGED <<inode.generation, ~inode.live, nextFh, log>>
    BY <1>4, <1>5
  <1> USE DEF now
  <1> QED BY <1>6 DEF Commits!Abandon

(* Such a step preserves SessionInv. *)
LEMMA KeepsInv == ASSUME SessionInv, KeepsSessions PROVE SessionInv'
  <1>1. 0 < nextFh' /\ nextFh' = nextFh /\ inode'.generation = inode.generation
    BY DEF SessionInv, KeepsSessions
  <1>2. \A f \in Fds : of'[f].fh < nextFh /\ of'[f].generation <= inode.generation
    BY DEF SessionInv, KeepsSessions
  <1>3. \A f \in Fds : Opened(f)' => Opened(f) /\ of'[f].fh = of[f].fh
    BY DEF KeepsSessions
  <1>4. \A f, g \in Fds : Opened(f)' /\ Opened(g)' /\ of'[f].fh = of'[g].fh => f = g
    BY <1>3 DEF SessionInv
  <1> QED BY <1>1, <1>2, <1>4 DEF SessionInv

----------------------------------------------------------------------------
(* Meta.Open's second half begins a session, of a version the file has had. *)
LEMMA OpenInsertBegins ==
  ASSUME TypeInv, SessionInv, NEW f \in Fds, OpenInsert(f)
  PROVE  SessionInv' /\ Commits!Begin
  <1> DEFINE now == {SessionOf(g) : g \in {h \in Fds : Holding(h)}}
  <1>1. /\ of \in [Fds -> OpenFile] /\ pc \in [Fds -> Stages]
        /\ nextFh \in Nat /\ handles \subseteq Nat /\ inode.generation \in Nat
        /\ \A g \in Fds : of[g].fh \in Nat /\ of[g].generation \in Nat
    BY SessionTypes
  <1>2. /\ handles' = handles \cup {nextFh} /\ nextFh' = nextFh + 1
        /\ inode' = inode /\ log' = log
    BY DEF OpenInsert, histVars
  <1>3. /\ of'[f].fh = nextFh /\ of'[f].generation = of[f].generation
        /\ pc[f] = "opening" /\ pc'[f] = "idle"
    BY <1>1 DEF OpenInsert, OpenFile
  <1>4. \A g \in Fds : g # f => of'[g] = of[g] /\ pc'[g] = pc[g]
    BY <1>1 DEF OpenInsert
  <1>5. \A g \in Fds : of[g].fh < nextFh /\ of[g].generation <= inode.generation
    BY DEF SessionInv
  <1>6. SessionInv'
    <2>1. 0 < nextFh' /\ \A g \in Fds : of'[g].fh < nextFh'
      BY <1>1, <1>2, <1>3, <1>4, <1>5
    <2>2. \A g \in Fds : of'[g].generation <= inode'.generation
      BY <1>2, <1>3, <1>4, <1>5
    <2>3. \A g \in Fds : g # f => of'[g].fh # nextFh
      BY <1>1, <1>4, <1>5
    <2>4. \A g, h \in Fds : Opened(g)' /\ Opened(h)' /\ of'[g].fh = of'[h].fh => g = h
      BY <2>3, <1>3, <1>4 DEF SessionInv, Opened
    <2> QED BY <2>1, <2>2, <2>4 DEF SessionInv
  <1>7. ~Holding(f) /\ Holding(f)' /\ SessionOf(f)' = [id |-> nextFh, base |-> of[f].generation]
    BY <1>2, <1>3 DEF Holding, SessionOf
  <1>8. \A g \in Fds : g # f => (Holding(g)' <=> Holding(g)) /\ SessionOf(g)' = SessionOf(g)
    <2>1. \A g \in Fds : of[g].fh # nextFh
      BY <1>1, <1>5
    <2> QED BY <1>2, <1>4, <2>1 DEF Holding, SessionOf
  <1>9. now' = now \cup {[id |-> nextFh, base |-> of[f].generation]}
    BY <1>7, <1>8
  <1>10. of[f].generation \in 0 .. inode.generation
    BY <1>1, <1>5
  <1>11. \E base \in 0 .. inode.generation :
           now' = now \cup {[id |-> nextFh, base |-> base]}
    BY <1>9, <1>10
  <1>12. Commits!Begin
    BY <1>2, <1>11 DEF Commits!Begin
  <1> QED BY <1>6, <1>12

(* A successful dirty Close commits the session of its handle and no other. *)
LEMMA CloseAcceptedCommits ==
  ASSUME TypeInv, SessionInv, NEW f \in Fds, CloseAccepted(f)
  PROVE  SessionInv' /\ Commits!Commit
  <1> DEFINE now == {SessionOf(g) : g \in {h \in Fds : Holding(h)}}
  <1>1. /\ of \in [Fds -> OpenFile] /\ pc \in [Fds -> Stages] /\ inode \in Inode
        /\ nextFh \in Nat /\ handles \subseteq Nat /\ inode.generation \in Nat
        /\ \A g \in Fds : of[g].fh \in Nat /\ of[g].generation \in Nat
    BY SessionTypes
  <1>2. /\ handles' = handles \ {of[f].fh} /\ nextFh' = nextFh
        /\ log' = Append(log, of[f].fh) /\ of[f].fh \in handles
        /\ inode.live /\ of[f].generation = inode.generation /\ pc[f] = "send"
    BY DEF CloseAccepted, Accepts, Sent
  <1>3. inode'.generation = inode.generation + 1 /\ inode'.live = inode.live
    BY <1>1 DEF CloseAccepted, Inode
  <1>4. of'[f].fh = of[f].fh /\ of'[f].generation = inode.generation + 1
    BY <1>1 DEF CloseAccepted, OpenFile
  <1>5. \A g \in Fds : g # f => of'[g] = of[g] /\ pc'[g] = pc[g]
    BY <1>1 DEF CloseAccepted, Reply
  <1>6. Opened(f) /\ \A g \in Fds : Opened(g)' => Opened(g)
    BY <1>2, <1>5 DEF Opened
  <1>7. SessionInv'
    <2>1. \A g \in Fds : of'[g].fh = of[g].fh
      BY <1>4, <1>5
    <2>2. \A g \in Fds : of'[g].generation <= inode'.generation
      BY <1>1, <1>3, <1>4, <1>5 DEF SessionInv
    <2> QED BY <1>2, <1>6, <2>1, <2>2 DEF SessionInv
  <1>8. Holding(f) /\ ~Holding(f)'
    BY <1>2, <1>4 DEF Holding
  <1>9. \A g \in Fds : g # f => (Holding(g)' <=> Holding(g)) /\ SessionOf(g)' = SessionOf(g)
    <2>1. \A g \in Fds : g # f /\ Opened(g) => of[g].fh # of[f].fh
      BY <1>6 DEF SessionInv
    <2> QED BY <1>2, <1>5, <2>1 DEF Holding, Opened, SessionOf
  <1>10. \A g \in Fds : g # f /\ Holding(g) => SessionOf(g) # SessionOf(f)
    <2>1. \A g \in Fds : g # f /\ Holding(g) => of[g].fh # of[f].fh
      BY <1>6 DEF SessionInv, Holding, Opened
    <2> QED BY <2>1 DEF SessionOf
  <1>11. now' = now \ {SessionOf(f)}
    BY <1>8, <1>9, <1>10
  <1>12. SessionOf(f) \in now
    BY <1>8
  <1>13. SessionOf(f).base = inode.generation /\ SessionOf(f).id = of[f].fh
    BY <1>2 DEF SessionOf
  <1>14. \E s \in now : /\ s.base = inode.generation
                        /\ now' = now \ {s}
                        /\ log' = Append(log, s.id)
    BY Zenon, <1>2, <1>11, <1>12, <1>13
  <1>15. Commits!Commit
    BY <1>2, <1>3, <1>14 DEF Commits!Commit
  <1> QED BY <1>7, <1>15

(* Meta.Unlink removes the file and leaves the sessions running. *)
LEMMA UnlinkRemoves ==
  ASSUME TypeInv, SessionInv, Unlink PROVE SessionInv' /\ Commits!Remove
  <1>1. /\ inode'.generation = inode.generation /\ ~inode'.live
        /\ handles' = handles /\ nextFh' = nextFh /\ of' = of /\ pc' = pc /\ log' = log
    BY DEF Unlink, clientVars, histVars, TypeInv, TypeOK, Inode
  <1>2. SessionInv'
    BY <1>1 DEF SessionInv, Opened
  <1>3. \A f \in Fds : (Holding(f)' <=> Holding(f)) /\ SessionOf(f)' = SessionOf(f)
    BY <1>1 DEF Holding, SessionOf
  <1>4. Commits!Remove
    BY <1>1, <1>3 DEF Commits!Remove
  <1> QED BY <1>2, <1>4

----------------------------------------------------------------------------
(* Starting a request keeps the sessions; Meta.Open's first half only fills in
   a slot that is not yet open. *)
LEMMA RequestKeeps ==
  ASSUME TypeInv, NEW f \in Fds, Request(f) PROVE KeepsSessions
  <1>1. /\ of \in [Fds -> OpenFile] /\ pc \in [Fds -> Stages]
        /\ inode.generation \in Nat
    BY SessionTypes
  <1>2. CASE OpenRead(f)
    <2>1. /\ UNCHANGED <<inode, handles, nextFh, log>>
          /\ of'[f].fh = 0 /\ of'[f].generation = inode.generation /\ pc'[f] = "opening"
      BY <1>1, <1>2 DEF OpenRead, metaVars, NoFile
    <2>2. \A g \in Fds : g # f => of'[g] = of[g] /\ pc'[g] = pc[g]
      BY <1>1, <1>2 DEF OpenRead
    <2> QED BY <1>1, <2>1, <2>2 DEF KeepsSessions, Opened
  <1>3. CASE Read(f)
    BY <1>3 DEF Read, KeepsSessions, Opened, metaVars, histVars
  <1>4. CASE WriteBegin(f) \/ PublishNothing(f) \/ PublishBegin(f)
    <2>1. UNCHANGED <<inode, handles, nextFh, log, of>> /\ pc[f] = "idle"
      BY <1>4 DEF WriteBegin, PublishNothing, PublishBegin, Ready, metaVars, histVars
    <2>2. \A g \in Fds : g # f => pc'[g] = pc[g]
      BY <1>1, <1>4 DEF WriteBegin, PublishNothing, PublishBegin, Reply
    <2> QED BY <2>1, <2>2 DEF KeepsSessions, Opened
  <1> QED BY <1>2, <1>3, <1>4 DEF Request

(* The steps of a handler other than the two calls that change the handles
   for good keep the sessions; a refused Close ends the one it names. *)
LEMMA ServeKeeps ==
  ASSUME TypeInv, NEW f \in Fds, Serve(f), ~OpenInsert(f), ~CloseAccepted(f)
  PROVE  KeepsSessions
  <1>1. of \in [Fds -> OpenFile] /\ pc \in [Fds -> Stages] /\ inode \in Inode
    BY SessionTypes
  <1>2. UNCHANGED <<nextFh, log>> /\ handles' \subseteq handles
    BY ZenonT(30) DEF Serve, WriteStep, WriteFails, PublishAllocate, PublishUnplaced, SendBlock,
       SendFails, CloseRejected, metaVars, histVars
  <1>3. inode'.generation = inode.generation /\ inode'.live = inode.live
    <2>1. CASE PublishAllocate(f)
      BY <1>1, <2>1 DEF PublishAllocate, Inode
    <2> QED BY Zenon, <2>1 DEF Serve, WriteStep, WriteFails, PublishUnplaced, SendBlock,
               SendFails, CloseRejected, metaVars
  <1>4. \A g \in Fds : of'[g].fh = of[g].fh /\ of'[g].generation = of[g].generation
    <2>1. CASE WriteStep(f)
      BY <1>1, <2>1 DEF WriteStep, OpenFile
    <2>2. CASE PublishAllocate(f)
      BY <1>1, <2>2 DEF PublishAllocate, OpenFile
    <2> QED BY Zenon, <2>1, <2>2 DEF Serve, WriteFails, PublishUnplaced, SendBlock, SendFails,
               CloseRejected
  <1>5. pc[f] \in {"write", "alloc", "send"} /\ \A g \in Fds : g # f => pc'[g] = pc[g]
    BY Zenon, <1>1 DEF Serve, WriteStep, WriteFails, PublishAllocate, PublishUnplaced, SendBlock,
       SendFails, CloseRejected, Sent, Reply
  <1> QED BY <1>2, <1>3, <1>4, <1>5 DEF KeepsSessions, Opened

(* So do the steps of the environment other than Unlink; a crash of a mount
   abandons the sessions of its slots. *)
LEMMA EnvironmentKeeps ==
  ASSUME TypeInv,
         \/ \E m \in Mounts : Evict(m) \/ CrashMount(m)
         \/ Truncate \/ DeliverWrite \/ DeliverDelete
         \/ \E n \in Nodes : RestartStore(n) \/ NodeUp(n) \/ NodeDown(n)
  PROVE  KeepsSessions
  <1>1. inode \in Inode /\ inode.generation \in Nat
    BY SessionTypes
  <1>2. ASSUME NEW m \in Mounts, Evict(m) PROVE KeepsSessions
    BY <1>2 DEF Evict, KeepsSessions, Opened, metaVars, histVars
  <1>3. ASSUME NEW m \in Mounts, CrashMount(m) PROVE KeepsSessions
    <2>1. UNCHANGED <<inode, handles, nextFh, log>>
      BY Zenon, <1>3 DEF CrashMount, metaVars
    <2>2. \A f \in Fds : \/ of'[f] = of[f] /\ pc'[f] = pc[f]
                         \/ of'[f] = NoFile /\ pc'[f] = "closed"
      BY <1>3 DEF CrashMount
    <2> QED BY <1>1, <2>1, <2>2 DEF KeepsSessions, Opened, NoFile
  <1>4. CASE Truncate
    <2>1. inode'.generation = inode.generation /\ inode'.live = inode.live
      BY Zenon, <1>1, <1>4 DEF Truncate, Inode
    <2> QED BY ZenonT(30), <1>4, <2>1 DEF Truncate, KeepsSessions, Opened, clientVars
  <1>5. CASE DeliverWrite \/ DeliverDelete
    BY <1>5 DEF DeliverWrite, DeliverDelete, KeepsSessions, Opened, metaVars, clientVars
  <1>6. ASSUME NEW n \in Nodes, RestartStore(n) \/ NodeUp(n) \/ NodeDown(n)
        PROVE  KeepsSessions
    BY <1>6 DEF RestartStore, NodeUp, NodeDown, KeepsSessions, Opened, metaVars,
       clientVars, histVars
  <1> QED BY <1>2, <1>3, <1>4, <1>5, <1>6

(* Every step preserves SessionInv and is a step of OptimisticFile. *)
LEMMA StepCommits ==
  ASSUME TypeInv, SessionInv, [Next]_vars
  PROVE  SessionInv' /\ [Commits!Next]_Commits!vars
  <1>1. CASE UNCHANGED vars
    <2>1. KeepsSessions
      BY <1>1 DEF KeepsSessions, Opened, vars, metaVars, clientVars, histVars
    <2> QED BY <2>1, KeepsAbandon, KeepsInv DEF Commits!Next
  <1>2. CASE KeepsSessions
    BY <1>2, KeepsAbandon, KeepsInv DEF Commits!Next
  <1>3. ASSUME NEW f \in Fds, Request(f) \/ Serve(f)
        PROVE  SessionInv' /\ Commits!Next
    <2>1. CASE OpenInsert(f)
      BY <2>1, OpenInsertBegins DEF Commits!Next
    <2>2. CASE CloseAccepted(f)
      BY <2>2, CloseAcceptedCommits DEF Commits!Next
    <2>3. CASE KeepsSessions
      BY <2>3, KeepsAbandon, KeepsInv DEF Commits!Next
    <2> QED BY <1>3, <2>1, <2>2, <2>3, RequestKeeps, ServeKeeps
  <1>4. CASE Unlink
    BY <1>4, UnlinkRemoves DEF Commits!Next
  <1> QED BY <1>1, <1>2, <1>3, <1>4, EnvironmentKeeps DEF Next

(* No session is open at first. *)
LEMMA InitSessions == Init => SessionInv /\ Commits!Init
  <1> SUFFICES ASSUME Init PROVE SessionInv /\ Commits!Init
    OBVIOUS
  <1>1. \A f \in Fds : pc[f] = "closed" /\ of[f].fh = 0 /\ of[f].generation = 0
    BY DEF Init, NoFile
  <1>2. inode.generation = 0 /\ inode.live /\ nextFh = 1 /\ log = <<>>
    BY DEF Init
  <1>3. SessionInv
    BY <1>1, <1>2 DEF SessionInv, Opened
  <1>4. {SessionOf(f) : f \in {g \in Fds : Holding(g)}} = {}
    BY <1>1 DEF Holding
  <1>5. Commits!Init
    BY <1>2, <1>4 DEF Commits!Init
  <1> QED BY <1>3, <1>5

(* For any number of mounts, slots and stores and any faults, the handles and
   generations of a file behave as optimistic sessions: whatever Meta.Close
   accepts was based on the version it replaces. *)
THEOREM HandlesAreOptimistic == Spec => ImplementsCommits
  <1>1. Init => SessionInv /\ Commits!Init
    BY InitSessions
  <1>2. TypeInv /\ SessionInv /\ [Next]_vars => SessionInv' /\ [Commits!Next]_Commits!vars
    BY StepCommits
  <1> QED BY TypeAlways, <1>1, <1>2, PTL DEF Spec, ImplementsCommits, Commits!Spec

----------------------------------------------------------------------------
(* The steps that leave alone what PlacementAgreement is about: no slot opens
   or changes its map, and the inode keeps its placements or goes. *)
KeepsMaps ==
  /\ inode'.live => inode.live /\ inode'.blocks = inode.blocks
  /\ \A f \in Fds : pc'[f] # "closed" =>
       pc[f] # "closed" /\ of'[f].block_map = of[f].block_map

(* A step that leaves the placements alone preserves the agreement. *)
LEMMA KeepsMapsAgreement ==
  ASSUME PlacementAgreement, KeepsMaps PROVE PlacementAgreement'
  BY DEF PlacementAgreement, KeepsMaps

(* An open copies the placements of the inode. *)
LEMMA OpenReadAgreement ==
  ASSUME TypeInv, PlacementAgreement, NEW f \in Fds, OpenRead(f)
  PROVE  PlacementAgreement'
  <1>1. of \in [Fds -> OpenFile] /\ pc \in [Fds -> Stages] /\ inode \in Inode
    BY DEF TypeInv, TypeOK
  <1>2. inode' = inode /\ of'[f].block_map = inode.blocks
    BY <1>1 DEF OpenRead, metaVars, NoFile
  <1>3. \A g \in Fds : g # f => of'[g] = of[g] /\ pc'[g] = pc[g]
    BY <1>1 DEF OpenRead
  <1> QED BY <1>2, <1>3 DEF PlacementAgreement

(* AllocateBlocks adds the same placement on both sides. *)
LEMMA PublishAllocateAgreement ==
  ASSUME TypeInv, PlacementAgreement, NEW f \in Fds, PublishAllocate(f)
  PROVE  PlacementAgreement'
  <1>1. of \in [Fds -> OpenFile] /\ pc \in [Fds -> Stages] /\ inode \in Inode
    BY DEF TypeInv, TypeOK
  <1>2. inode'.blocks = Allocated(f) /\ inode'.live = inode.live
    BY <1>1 DEF PublishAllocate, Inode
  <1>3. \A i \in Blocks : inode.blocks[i] # <<>> => Allocated(f)[i] = inode.blocks[i]
    BY DEF Allocated
  <1>4. \A i \in Blocks : of'[f].block_map[i] = IF i \in NewBlocks(f)
                             THEN Allocated(f)[i] ELSE of[f].block_map[i]
    BY <1>1 DEF PublishAllocate, OpenFile
  <1>5. /\ pc[f] # "closed"
        /\ \A g \in Fds : g # f => of'[g] = of[g] /\ pc'[g] = pc[g]
    BY <1>1 DEF PublishAllocate
  <1>6. ASSUME inode'.live, NEW g \in Fds, pc'[g] # "closed",
               NEW i \in Blocks, of'[g].block_map[i] # <<>>
        PROVE  of'[g].block_map[i] = inode'.blocks[i]
    <2>1. CASE g = f /\ i \in NewBlocks(f)
      BY <2>1, <1>2, <1>4
    <2>2. CASE ~(g = f /\ i \in NewBlocks(f))
      <3>1. of'[g].block_map[i] = of[g].block_map[i] /\ pc[g] # "closed"
        BY <2>2, <1>4, <1>5, <1>6
      <3>2. of[g].block_map[i] = inode.blocks[i]
        BY <3>1, <1>2, <1>6 DEF PlacementAgreement
      <3> QED BY <3>1, <3>2, <1>2, <1>3, <1>6
    <2> QED BY <2>1, <2>2
  <1> QED BY <1>6 DEF PlacementAgreement

(* No other step of a handler touches a placement. *)
LEMMA ServeKeepsMaps ==
  ASSUME TypeInv, NEW f \in Fds, Serve(f), ~PublishAllocate(f) PROVE KeepsMaps
  <1>1. of \in [Fds -> OpenFile] /\ pc \in [Fds -> Stages] /\ inode \in Inode
    BY DEF TypeInv, TypeOK
  <1>2. CASE OpenInsert(f)
    BY <1>1, <1>2 DEF OpenInsert, OpenFile, KeepsMaps
  <1>3. CASE WriteStep(f)
    BY <1>1, <1>3 DEF WriteStep, OpenFile, KeepsMaps, metaVars
  <1>4. CASE WriteFails(f) \/ PublishUnplaced(f) \/ SendBlock(f) \/ SendFails(f)
    BY Zenon, <1>1, <1>4 DEF WriteFails, PublishUnplaced, SendBlock, SendFails, Reply,
       KeepsMaps, metaVars
  <1>5. CASE CloseAccepted(f)
    BY <1>1, <1>5 DEF CloseAccepted, Sent, Reply, OpenFile, Inode, KeepsMaps
  <1>6. CASE CloseRejected(f)
    BY <1>1, <1>6 DEF CloseRejected, Sent, Reply, KeepsMaps
  <1> QED BY <1>2, <1>3, <1>4, <1>5, <1>6 DEF Serve

(* Without truncation, every step preserves the agreement. *)
LEMMA StepAgreement ==
  ASSUME "truncate" \notin Env, TypeInv, PlacementAgreement, [Next]_vars
  PROVE  PlacementAgreement'
  <1>1. of \in [Fds -> OpenFile] /\ pc \in [Fds -> Stages] /\ inode \in Inode
    BY DEF TypeInv, TypeOK
  <1>2. CASE UNCHANGED vars
    BY <1>2, KeepsMapsAgreement DEF KeepsMaps, vars, metaVars, clientVars
  <1>3. ASSUME NEW f \in Fds, Request(f), ~OpenRead(f) PROVE KeepsMaps
    BY <1>1, <1>3 DEF Request, Read, WriteBegin, PublishNothing, PublishBegin, Ready,
       Reply, KeepsMaps, metaVars
  <1>4. ASSUME NEW m \in Mounts, Evict(m) \/ CrashMount(m) PROVE KeepsMaps
    BY <1>4 DEF Evict, CrashMount, KeepsMaps, metaVars
  <1>5. CASE Unlink
    <2>1. KeepsMaps
      BY <1>1, <1>5 DEF Unlink, KeepsMaps, clientVars, Inode
    <2> QED BY <2>1, KeepsMapsAgreement
  <1>6. CASE DeliverWrite \/ DeliverDelete
    <2>1. KeepsMaps
      BY <1>6 DEF DeliverWrite, DeliverDelete, KeepsMaps, metaVars, clientVars
    <2> QED BY <2>1, KeepsMapsAgreement
  <1>7. ASSUME NEW n \in Nodes, RestartStore(n) \/ NodeUp(n) \/ NodeDown(n) PROVE KeepsMaps
    BY <1>7 DEF RestartStore, NodeUp, NodeDown, KeepsMaps, metaVars, clientVars
  <1>8. ~Truncate
    BY Zenon DEF Truncate
  <1>9. ASSUME NEW f \in Fds, Request(f) \/ Serve(f) PROVE PlacementAgreement'
    BY <1>3, <1>9, OpenReadAgreement, PublishAllocateAgreement, ServeKeepsMaps,
       KeepsMapsAgreement
  <1> QED BY <1>2, <1>4, <1>5, <1>6, <1>7, <1>8, <1>9, KeepsMapsAgreement DEF Next

(* While no file is truncated, every open slot that knows a place for a block
   knows the inode's: AllocateBlocks never splits the writers of a block over
   different stores, however the set of Up stores moves between its calls. *)
THEOREM SlotsAgreeOnPlacement ==
  ASSUME "truncate" \notin Env PROVE Spec => []PlacementAgreement
  <1>1. Init => PlacementAgreement
    BY DEF Init, PlacementAgreement
  <1>2. TypeInv /\ PlacementAgreement /\ [Next]_vars => PlacementAgreement'
    BY StepAgreement
  <1> QED BY TypeAlways, <1>1, <1>2, PTL DEF Spec

----------------------------------------------------------------------------
(* A read is answered by the first store of the placement, or by none: no
   ReadBlock call fails, or a block has a single copy. *)
FirstAnswers ==
  \/ Env \cap {"read_fail", "membership"} = {}
  \/ \A i \in Blocks, S \in SUBSET Nodes : Len(PickNodes(i, S)) <= 1

Foremost(p) == \A n \in Answering(p) : n = Head(p)

(* What CacheFresh says of an entry; and no entry is of a generation to come,
   so a new generation starts without entries. *)
EntryFresh(e) ==
  /\ e[1] <= inode.generation
  /\ inode.live /\ e[1] = inode.generation /\ e[2] \notin stirred
       => /\ inode.blocks[e[2]] # <<>> /\ Head(inode.blocks[e[2]]) \in Nodes
          /\ e[3] = store[Head(inode.blocks[e[2]])][e[2]]

EntriesFresh == \A m \in Mounts : \A e \in cache[m] : EntryFresh(e)
PlacesForemost == \A i \in Blocks : Foremost(inode.blocks[i])
CacheInv == EntriesFresh /\ PlacesForemost

(* The steps after which the fresh entries are as fresh as before. *)
KeepsEntries ==
  /\ inode'.generation = inode.generation
  /\ inode'.live => inode.live
  /\ inode'.live => \A i \in Blocks : inode.blocks[i] # <<>> => inode'.blocks[i] = inode.blocks[i]
  /\ stirred \subseteq stirred'
  /\ \A i \in Blocks \ stirred' : \A n \in Nodes : store'[n][i] = store[n][i]
  /\ \A m \in Mounts : \A e \in cache'[m] : e \in cache[m] \/ EntryFresh(e)

(* The only store of a placement that can answer is its first. *)
LEMMA ForemostPlaces ==
  ASSUME NEW p \in Placement, Env \cap {"read_fail", "membership"} = {} \/ Len(p) <= 1
  PROVE  Foremost(p)
  <1> SUFFICES ASSUME NEW k \in DOMAIN p, p[k] # NoNode,
                      \A l \in 1 .. k - 1 : ReadCanFail(p[l])
               PROVE  k = 1 /\ p # <<>>
    BY DEF Foremost, Answering
  <1>1. CASE p = <<NoNode>>
    BY <1>1
  <1>2. CASE p \in Seq(Nodes)
    <2>1. k \in 1 .. Len(p) /\ Len(p) \in Nat /\ p # <<>>
      BY <1>2
    <2>2. CASE Len(p) <= 1
      BY <2>1, <2>2
    <2>3. CASE Env \cap {"read_fail", "membership"} = {}
      <3> SUFFICES ASSUME k # 1 PROVE FALSE
        BY <2>1
      <3>1. 1 \in 1 .. k - 1 /\ 1 \in DOMAIN p
        BY <1>2, <2>1
      <3>2. p[1] \in Nodes
        BY <1>2, <3>1
      <3> QED
        BY <2>3, <3>1, <3>2, AbsentAssumption DEF ReadCanFail
    <2> QED
      BY <2>2, <2>3
  <1> QED
    BY <1>1, <1>2 DEF Placement

(* Such a step preserves EntriesFresh. *)
LEMMA KeepsFresh ==
  ASSUME TypeInv, TypeInv', EntriesFresh, KeepsEntries
  PROVE  EntriesFresh'
  <1> SUFFICES ASSUME NEW m \in Mounts, NEW e \in cache'[m] PROVE EntryFresh(e)'
    BY DEF EntriesFresh
  <1>1. e[2] \in Blocks
    <2>1. cache' \in [Mounts -> SUBSET (Nat \X Blocks \X Content)]
      BY Zenon DEF TypeInv, TypeOK
    <2>2. e \in Nat \X Blocks \X Content
      BY Zenon, <2>1
    <2> QED
      BY <2>2
  <1>2. EntryFresh(e)
    BY Zenon DEF EntriesFresh, KeepsEntries
  <1> QED
    BY <1>1, <1>2 DEF EntryFresh, KeepsEntries

(* What a fetch adds to the cache is the copy of the primary, filed under the
   generation of the slot. *)
LEMMA FetchFresh ==
  ASSUME TypeInv, SessionInv, PlacementAgreement, PlacesForemost,
         NEW f \in Fds, pc[f] # "closed", NEW i \in Blocks, NEW b \in Fetch(f, i)
  PROVE  \A e \in b.cache : e \in cache[MountOf[f]] \/ EntryFresh(e)
  <1>1. CASE of[f].dirty[i] # Absent \/ Cached(f, i) # {}
    BY <1>1 DEF Fetch
  <1>2. CASE of[f].dirty[i] = Absent /\ Cached(f, i) = {}
    <2>1. PICK n \in Answering(of[f].block_map[i]) : b = Answer(f, i, n)
      BY <1>2 DEF Fetch
    <2>2. n \in Nodes /\ of[f].block_map[i] # <<>>
      <3>1. of[f].block_map[i] \in Placement
        BY DEF TypeInv, TypeOK, OpenFile
      <3>2. of[f].block_map[i] # <<>>
        BY <2>1 DEF Answering
      <3> QED
        BY <2>1, <3>1, <3>2, AnsweringType
    <2>3. inode.live => of[f].block_map[i] = inode.blocks[i] /\ n = Head(inode.blocks[i])
      BY <2>1, <2>2 DEF PlacementAgreement, PlacesForemost, Foremost
    <2>4. of[f].generation <= inode.generation
      BY DEF SessionInv
    <2>5. EntryFresh(<<of[f].generation, i, store[n][i]>>)
      BY Zenon, <2>2, <2>3, <2>4 DEF EntryFresh
    <2> QED
      BY <2>1, <2>5 DEF Answer
  <1> QED
    BY <1>1, <1>2

(* A read, and a write that fetches what it does not overwrite. *)
LEMMA FetchingKeeps ==
  ASSUME TypeInv, SessionInv, PlacementAgreement, PlacesForemost,
         NEW f \in Fds, Read(f) \/ WriteStep(f)
  PROVE  KeepsEntries /\ UNCHANGED inode
  <1>1. pc[f] # "closed" /\ UNCHANGED <<inode, store, stirred>>
    BY DEF Read, Ready, WriteStep, metaVars, histVars
  <1>2. cache \in [Mounts -> SUBSET (Nat \X Blocks \X Content)] /\ MountOf[f] \in Mounts
    BY SlotsAssumption DEF TypeInv, TypeOK
  <1>3. \E i \in Blocks : \E b \in Fetch(f, i) \cup {[data |-> Zeros, cache |-> cache[MountOf[f]]]} :
          cache' = [cache EXCEPT ![MountOf[f]] = b.cache]
    <2>1. CASE Read(f)
      BY Zenon, <2>1 DEF Read, ReadBlock
    <2>2. CASE WriteStep(f)
      <3>1. pc[f] = "write"
        BY Zenon, <2>2 DEF WriteStep
      <3>2. BlockOf(op[f].cur) \in Blocks
        BY <3>1, ChunkEndBounds
      <3> QED
        BY Zenon, <2>2, <3>2 DEF WriteStep, WriteBase
    <2> QED
      BY <2>1, <2>2
  <1>4. PICK i \in Blocks :
          \E b \in Fetch(f, i) \cup {[data |-> Zeros, cache |-> cache[MountOf[f]]]} :
            cache' = [cache EXCEPT ![MountOf[f]] = b.cache]
    BY Zenon, <1>3
  <1>5. PICK b \in Fetch(f, i) \cup {[data |-> Zeros, cache |-> cache[MountOf[f]]]} :
          cache' = [cache EXCEPT ![MountOf[f]] = b.cache]
    BY Zenon, <1>4
  <1>6. \A e \in b.cache : e \in cache[MountOf[f]] \/ EntryFresh(e)
    BY <1>1, <1>5, FetchFresh
  <1>7. \A m \in Mounts : \A e \in cache'[m] : e \in cache[m] \/ EntryFresh(e)
    BY Zenon, <1>2, <1>5, <1>6
  <1> QED
    BY <1>1, <1>7 DEF KeepsEntries

(* The steps that bring no entry: what they change on a store is stirred, and
   a placement the inode has stays or the inode goes. *)
LEMMA OtherKeeps ==
  ASSUME "truncate" \notin Env, TypeInv, Next,
         \A f \in Fds : ~Read(f) /\ ~WriteStep(f) /\ ~CloseAccepted(f)
  PROVE  KeepsEntries
  <1>1. /\ inode \in Inode /\ store \in [Nodes -> [Blocks -> MaybeContent]]
        /\ cache \in [Mounts -> SUBSET (Nat \X Blocks \X Content)] /\ stirred \subseteq Blocks
        /\ spawned \subseteq [node : Nodes, idx : Blocks, data : Content]
        /\ deletes \subseteq [node : Nodes, idx : Blocks, tag : Nat]
    BY DEF TypeInv, TypeOK
  <1>2. ASSUME NEW f \in Fds,
               \/ OpenRead(f) \/ WriteBegin(f) \/ PublishNothing(f) \/ PublishBegin(f)
               \/ OpenInsert(f) \/ WriteFails(f) \/ PublishUnplaced(f) \/ SendFails(f)
               \/ CloseRejected(f)
        PROVE  KeepsEntries
    BY Zenon, <1>2 DEF OpenRead, WriteBegin, PublishNothing, PublishBegin, OpenInsert, WriteFails,
       PublishUnplaced, SendFails, CloseRejected, KeepsEntries, metaVars, histVars
  <1>3. ASSUME NEW f \in Fds, PublishAllocate(f) PROVE KeepsEntries
    <2>1. /\ UNCHANGED <<store, cache, stirred>>
          /\ inode' = [inode EXCEPT !.blocks = Allocated(f)]
      BY <1>3 DEF PublishAllocate, histVars
    <2>2. /\ inode'.generation = inode.generation /\ inode'.live = inode.live
          /\ inode'.blocks = Allocated(f)
      BY <1>1, <2>1 DEF Inode
    <2>3. \A i \in Blocks : inode.blocks[i] # <<>> => inode'.blocks[i] = inode.blocks[i]
      BY <2>2 DEF Allocated
    <2> QED
      BY Zenon, <2>1, <2>2, <2>3 DEF KeepsEntries
  <1>4. ASSUME NEW f \in Fds, SendBlock(f) PROVE KeepsEntries
    <2>1. UNCHANGED <<inode, cache>>
      BY <1>4 DEF SendBlock, metaVars
    <2>2. PICK i \in Unsent(f) :
            /\ store' = [store EXCEPT ![Head(op[f].left[i])][i] = op[f].data[i]]
            /\ stirred' = stirred \cup {i}
      BY Zenon, <1>4 DEF SendBlock
    <2>3. stirred \subseteq stirred' /\ \A j \in Blocks \ stirred' : \A n \in Nodes : store'[n][j] = store[n][j]
      BY <1>1, <2>2
    <2> QED
      BY Zenon, <2>1, <2>3 DEF KeepsEntries
  <1>5. ASSUME DeliverWrite \/ DeliverDelete PROVE KeepsEntries
    <2>1. UNCHANGED <<inode, cache>>
      BY <1>5 DEF DeliverWrite, DeliverDelete, metaVars, clientVars
    <2>2. \/ UNCHANGED <<store, stirred>>
          \/ \E n \in Nodes, i \in Blocks, d \in MaybeContent :
               store' = [store EXCEPT ![n][i] = d] /\ stirred' = stirred \cup {i}
      BY Zenon, <1>1, <1>5 DEF DeliverWrite, DeliverDelete, MaybeContent
    <2>3. stirred \subseteq stirred' /\ \A j \in Blocks \ stirred' : \A n \in Nodes : store'[n][j] = store[n][j]
      BY <1>1, <2>2
    <2> QED
      BY Zenon, <2>1, <2>3 DEF KeepsEntries
  <1>6. ASSUME NEW n \in Nodes, RestartStore(n) \/ NodeUp(n) \/ NodeDown(n) PROVE KeepsEntries
    <2>1. UNCHANGED <<inode, cache>> /\ stirred \subseteq stirred'
          /\ \A j \in Blocks \ stirred' : store' = store
      BY <1>1, <1>6 DEF RestartStore, NodeUp, NodeDown, metaVars, clientVars, histVars
    <2> QED
      BY Zenon, <2>1 DEF KeepsEntries
  <1>7. ASSUME Unlink PROVE KeepsEntries
    <2>1. UNCHANGED <<store, cache, stirred>> /\ ~inode'.live /\ inode'.generation = inode.generation
      BY <1>1, <1>7 DEF Unlink, Inode, clientVars, histVars
    <2> QED
      BY Zenon, <2>1 DEF KeepsEntries
  <1>8. ASSUME NEW m \in Mounts, Evict(m) \/ CrashMount(m) PROVE KeepsEntries
    <2>1. UNCHANGED <<inode, store, stirred>> /\ \A k \in Mounts : cache'[k] \subseteq cache[k]
      BY Zenon, <1>1, <1>8 DEF Evict, CrashMount, metaVars, histVars
    <2> QED
      BY Zenon, <2>1 DEF KeepsEntries
  <1>9. ~Truncate
    BY Zenon DEF Truncate
  <1> QED
    BY Zenon, <1>2, <1>3, <1>4, <1>5, <1>6, <1>7, <1>8, <1>9 DEF Next, Request, Serve

(* A new generation makes every entry one of an older generation. *)
LEMMA CloseFresh ==
  ASSUME TypeInv, EntriesFresh, NEW f \in Fds, CloseAccepted(f)
  PROVE  EntriesFresh'
  <1>1. /\ inode'.generation = inode.generation + 1 /\ cache' = cache
        /\ inode.generation \in Nat
    BY DEF CloseAccepted, TypeInv, TypeOK, Inode
  <1>2. \A m \in Mounts : \A e \in cache[m] : e[1] \in Nat /\ e[1] <= inode.generation
    <2>1. \A m \in Mounts : \A e \in cache[m] : e \in Nat \X Blocks \X Content
      BY Zenon DEF TypeInv, TypeOK
    <2> QED
      BY <2>1 DEF EntriesFresh, EntryFresh
  <1>3. \A m \in Mounts : \A e \in cache'[m] :
          e[1] <= inode'.generation /\ e[1] # inode'.generation
    BY <1>1, <1>2
  <1> QED
    BY Zenon, <1>3 DEF EntriesFresh, EntryFresh

(* pick_nodes is where placements come from. *)
LEMMA StepForemost ==
  ASSUME FirstAnswers, TypeInv, PlacesForemost, [Next]_vars
  PROVE  PlacesForemost'
  <1>1. inode \in Inode /\ up \subseteq Nodes
    BY DEF TypeInv, TypeOK
  <1>2. Foremost(<<>>)
    BY DEF Foremost, Answering
  <1>3. \A i \in Blocks : Foremost(Place(i))
    <2> TAKE i \in Blocks
    <2>1. Place(i) \in Placement
      BY PlaceType
    <2>2. PickNodes(i, up) # <<>> => Place(i) = PickNodes(i, up)
      BY DEF Place
    <2>3. Len(<<NoNode>>) <= 1
      OBVIOUS
    <2>4. Env \cap {"read_fail", "membership"} = {} \/ Len(Place(i)) <= 1
      BY <1>1, <2>3 DEF FirstAnswers, Place
    <2> QED
      BY <2>1, <2>4, ForemostPlaces
  <1>4. \A i \in Blocks : \/ inode'.blocks[i] \in {inode.blocks[i], <<>>}
                         \/ inode'.blocks[i] = Place(i)
    <2>1. CASE \E f \in Fds : PublishAllocate(f)
      BY <1>1, <2>1 DEF PublishAllocate, Inode, Allocated
    <2>2. CASE \E f \in Fds : CloseAccepted(f)
      BY <1>1, <2>2 DEF CloseAccepted, Inode
    <2>3. CASE Truncate
      BY <1>1, <2>3 DEF Truncate, Inode
    <2>4. CASE Unlink
      BY <1>1, <2>4 DEF Unlink, Inode, NoBlocks
    <2>5. CASE UNCHANGED inode
      BY <2>5
    <2>6. \/ \E f \in Fds : PublishAllocate(f) \/ CloseAccepted(f)
          \/ Truncate \/ Unlink \/ UNCHANGED inode
      BY ZenonT(30) DEF Next, Request, Serve, OpenRead, Read, WriteBegin, PublishNothing,
         PublishBegin, OpenInsert, WriteStep, WriteFails, PublishUnplaced, SendBlock, SendFails,
         CloseRejected, Evict, CrashMount, DeliverWrite, DeliverDelete, RestartStore, NodeUp,
         NodeDown, vars, metaVars
    <2> QED
      BY <2>1, <2>2, <2>3, <2>4, <2>5, <2>6
  <1> QED
    BY Zenon, <1>2, <1>3, <1>4 DEF PlacesForemost

(* Every step preserves CacheInv. *)
LEMMA StepCaches ==
  ASSUME FirstAnswers, "truncate" \notin Env,
         TypeInv, SessionInv, PlacementAgreement, CacheInv, [Next]_vars
  PROVE  CacheInv'
  <1>1. PlacesForemost' /\ TypeInv'
    BY StepForemost, StepType DEF CacheInv
  <1>2. CASE UNCHANGED vars
    <2>1. KeepsEntries
      BY Zenon, <1>2 DEF KeepsEntries, vars, metaVars, clientVars, histVars
    <2> QED
      BY <1>1, <2>1, KeepsFresh DEF CacheInv
  <1>3. CASE \E f \in Fds : CloseAccepted(f)
    BY <1>1, <1>3, CloseFresh DEF CacheInv
  <1>4. CASE \E f \in Fds : Read(f) \/ WriteStep(f)
    BY <1>1, <1>4, FetchingKeeps, KeepsFresh DEF CacheInv
  <1>5. CASE Next /\ \A f \in Fds : ~Read(f) /\ ~WriteStep(f) /\ ~CloseAccepted(f)
    BY <1>1, <1>5, OtherKeeps, KeepsFresh DEF CacheInv
  <1> QED
    BY Zenon, <1>2, <1>3, <1>4, <1>5

(* While no file is truncated, and reads do not go past the first store of a
   placement, the block cache never masks a close: an entry under the current
   generation is the primary's copy, unless that copy has changed since the
   generation was published.  The generation in the cache key does it, with
   any writers, lost calls, restarts and crashes. *)
THEOREM CachesNeverMaskAClose ==
  ASSUME FirstAnswers, "truncate" \notin Env PROVE Spec => []CacheFresh
  <1>1. Init => SessionInv /\ PlacementAgreement /\ CacheInv
    <2> SUFFICES ASSUME Init PROVE SessionInv /\ PlacementAgreement /\ CacheInv
      OBVIOUS
    <2>1. SessionInv
      BY InitSessions
    <2>2. PlacementAgreement
      BY DEF Init, PlacementAgreement
    <2>3. EntriesFresh
      BY Zenon DEF Init, EntriesFresh
    <2>4. PlacesForemost
      BY DEF Init, PlacesForemost, Foremost, Answering, NoBlocks
    <2> QED
      BY <2>1, <2>2, <2>3, <2>4 DEF CacheInv
  <1>2. TypeInv /\ SessionInv /\ PlacementAgreement /\ CacheInv /\ [Next]_vars
          => SessionInv' /\ PlacementAgreement' /\ CacheInv'
    BY StepCommits, StepAgreement, StepCaches
  <1>3. CacheInv => CacheFresh
    BY Zenon DEF CacheInv, EntriesFresh, EntryFresh, CacheFresh
  <1> QED
    BY TypeAlways, <1>1, <1>2, <1>3, PTL DEF Spec

----------------------------------------------------------------------------
(* Provenance by kind of copy, with what makes it inductive: a running write
   covers the cells it has still to set, and a write yet to come none. *)
StoreRight == \A n \in Nodes, i \in Blocks : store[n][i] # Absent => InPlace(i, store[n][i])
DirtyRight == \A f \in Fds, i \in Blocks :
                of[f].dirty[i] # Absent => InPlace(i, of[f].dirty[i])
DataRight == \A f \in Fds, i \in Blocks :
               op[f].data[i] # Absent => InPlace(i, op[f].data[i])
CacheRight == \A m \in Mounts : \A e \in cache[m] : InPlace(e[2], e[3])
SpawnedRight == \A w \in spawned : InPlace(w.idx, w.data)
WriteRight ==
  \A f \in Fds : pc[f] = "write" =>
    /\ op[f].stamp \in 1 .. MaxWrites
    /\ \A c \in op[f].cur .. op[f].end - 1 : c \in covers[op[f].stamp]
CoversRight == \A w \in 1 .. MaxWrites : w > writes => covers[w] = {}

CopiesRight == StoreRight /\ DirtyRight /\ DataRight /\ CacheRight /\ SpawnedRight
ProvInv == CopiesRight /\ WriteRight /\ CoversRight

(* A slot with no file has nothing in its buffers. *)
LEMMA ClosedEmpty ==
  \A i \in Blocks : NoFile.dirty[i] = Absent /\ NoOp.data[i] = Absent
  BY Zenon DEF NoFile, NoOp, NoDirty

(* It implies the property. *)
LEMMA ProvImplies == ProvInv => Provenance
  BY DEF ProvInv, CopiesRight, StoreRight, DirtyRight, DataRight, CacheRight, SpawnedRight,
     Provenance

(* The steps that bring no new copy into being, buffer by buffer. *)
KeepsCopies ==
  /\ covers' = covers /\ writes' = writes
  /\ \A n \in Nodes, i \in Blocks : store'[n][i] \in {store[n][i], Absent}
  /\ \A f \in Fds, i \in Blocks : of'[f].dirty[i] \in {of[f].dirty[i], Absent}
  /\ \A f \in Fds, i \in Blocks : op'[f].data[i] \in {op[f].data[i], Absent}
  /\ \A m \in Mounts : cache'[m] \subseteq cache[m]
  /\ spawned' \subseteq spawned

(* The steps that start no write and move none on. *)
KeepsWrites ==
  \A f \in Fds : pc'[f] = "write" => pc[f] = "write" /\ op'[f] = op[f]

(* Such steps preserve ProvInv. *)
LEMMA KeepsProv == ASSUME ProvInv, KeepsCopies, KeepsWrites PROVE ProvInv'
  <1>1. StoreRight' /\ DirtyRight' /\ DataRight'
    <2>1. StoreRight'
      BY ZenonT(30) DEF ProvInv, CopiesRight, KeepsCopies, StoreRight, InPlace, CellOf
    <2>2. DirtyRight'
      BY ZenonT(30) DEF ProvInv, CopiesRight, KeepsCopies, DirtyRight, InPlace, CellOf
    <2>3. DataRight'
      BY ZenonT(30) DEF ProvInv, CopiesRight, KeepsCopies, DataRight, InPlace, CellOf
    <2> QED BY Zenon, <2>1, <2>2, <2>3
  <1>2. CacheRight' /\ SpawnedRight'
    BY ZenonT(30) DEF ProvInv, CopiesRight, KeepsCopies, CacheRight, SpawnedRight, InPlace, CellOf
  <1>3. WriteRight' /\ CoversRight'
    BY ZenonT(30) DEF ProvInv, KeepsCopies, KeepsWrites, WriteRight, CoversRight
  <1> QED BY ZenonT(30), <1>1, <1>2, <1>3 DEF ProvInv, CopiesRight

(* What the end of a handler does to the buffers on their way out. *)
LEMMA ReplyKeeps ==
  ASSUME TypeInv, NEW f \in Fds, NEW kind, NEW r, Reply(f, kind, r)
  PROVE  /\ \A g \in Fds, i \in Blocks : op'[g].data[i] \in {op[g].data[i], Absent}
         /\ KeepsWrites
  <1>1. pc \in [Fds -> Stages] /\ op \in [Fds -> Op]
    BY DEF TypeInv, TypeOK
  <1>2. /\ op'[f] = NoOp /\ pc'[f] # "write"
        /\ \A g \in Fds : g # f => op'[g] = op[g] /\ pc'[g] = pc[g]
    BY <1>1 DEF Reply
  <1>3. \A i \in Blocks : NoOp.data[i] = Absent
    BY DEF NoOp, NoDirty
  <1> QED BY <1>2, <1>3 DEF KeepsWrites

(* Most steps bring no copy into being and move no write on. *)
LEMMA QuietKeeps ==
  ASSUME TypeInv, NEW f \in Fds,
         \/ OpenRead(f) \/ OpenInsert(f) \/ WriteFails(f)
         \/ PublishNothing(f) \/ PublishBegin(f) \/ PublishUnplaced(f)
         \/ CloseAccepted(f) \/ CloseRejected(f)
  PROVE  KeepsCopies /\ KeepsWrites
  <1>1. /\ pc \in [Fds -> Stages] /\ op \in [Fds -> Op] /\ of \in [Fds -> OpenFile]
    BY DEF TypeInv, TypeOK
  <1>2. UNCHANGED <<covers, writes, store, cache, spawned>>
    BY DEF OpenRead, OpenInsert, WriteFails, PublishNothing, PublishBegin,
       PublishUnplaced, CloseAccepted, CloseRejected, netVars, histVars
  <1>3. \A g \in Fds, i \in Blocks : of'[g].dirty[i] \in {of[g].dirty[i], Absent}
    <2>1. CASE OpenRead(f)
      BY <1>1, <2>1 DEF OpenRead, NoFile, NoDirty
    <2>2. CASE OpenInsert(f)
      <3>1. \A g \in Fds : of'[g].dirty = of[g].dirty
        BY <1>1, <2>2 DEF OpenInsert, OpenFile
      <3> QED BY <3>1
    <2>3. CASE CloseAccepted(f)
      <3>1. \A g \in Fds : of'[g].dirty = of[g].dirty
        BY Zenon, <1>1, <2>3 DEF CloseAccepted, OpenFile
      <3> QED BY <3>1
    <2> QED BY <2>1, <2>2, <2>3 DEF WriteFails, PublishNothing, PublishBegin, PublishUnplaced,
               CloseRejected
  <1>4. CASE OpenRead(f) \/ OpenInsert(f)
    <2>1. op' = op /\ KeepsWrites
      BY ZenonT(30), <1>1, <1>4 DEF OpenRead, OpenInsert, KeepsWrites
    <2> QED BY <1>2, <1>3, <2>1 DEF KeepsCopies
  <1>5. CASE WriteFails(f) \/ PublishBegin(f)
    <2>1. \A i \in Blocks : op'[f].data[i] = Absent
      BY <1>1, <1>5 DEF WriteFails, PublishBegin, NoOp, NoDirty
    <2>2. /\ pc'[f] # "write"
          /\ \A g \in Fds : g # f => op'[g] = op[g] /\ pc'[g] = pc[g]
      BY <1>1, <1>5 DEF WriteFails, PublishBegin
    <2> QED BY Zenon, <1>2, <1>3, <2>1, <2>2 DEF KeepsCopies, KeepsWrites
  <1>6. ASSUME NEW kind, NEW r, Reply(f, kind, r) PROVE KeepsCopies /\ KeepsWrites
    BY Zenon, <1>2, <1>3, <1>6, ReplyKeeps DEF KeepsCopies
  <1> QED BY <1>4, <1>5, <1>6 DEF PublishNothing, PublishUnplaced, CloseAccepted,
             CloseRejected

----------------------------------------------------------------------------
(* What a fetch returns and caches for block i is in place. *)
FetchedRight(i, b) == InPlace(i, b.data) /\ \A e \in b.cache : InPlace(e[2], e[3])

(* A hole and a NotFound are in place: they claim no write. *)
LEMMA ZerosInPlace == ASSUME NEW i PROVE InPlace(i, Zeros)
  BY DEF InPlace, Zeros

(* So is whatever fetch_block returns. *)
LEMMA FetchRight ==
  ASSUME TypeInv, CopiesRight, NEW f \in Fds, NEW i \in Blocks, NEW b \in Fetch(f, i)
  PROVE  FetchedRight(i, b)
  <1>1. /\ MountOf[f] \in Mounts
        /\ of[f].block_map[i] \in Placement
    BY SlotsAssumption DEF TypeInv, TypeOK, OpenFile
  <1>2. \A e \in cache[MountOf[f]] : InPlace(e[2], e[3])
    BY ZenonT(30), <1>1 DEF CopiesRight, CacheRight
  <1>3. CASE of[f].dirty[i] # Absent
    BY <1>2, <1>3 DEF Fetch, FetchedRight, CopiesRight, DirtyRight
  <1>4. CASE of[f].dirty[i] = Absent /\ Cached(f, i) # {}
    <2>1. PICK e \in Cached(f, i) : b = [data |-> e[3], cache |-> cache[MountOf[f]]]
      BY Zenon, <1>4 DEF Fetch
    <2>2. InPlace(i, e[3])
      BY <2>1, <1>2 DEF Cached
    <2> QED BY Zenon, <1>2, <2>1, <2>2 DEF FetchedRight
  <1>5. CASE of[f].dirty[i] = Absent /\ Cached(f, i) = {}
    <2>1. PICK n \in Answering(of[f].block_map[i]) : b = Answer(f, i, n)
      BY <1>5 DEF Fetch
    <2>2. n \in Nodes
      BY Zenon, <1>1, AnsweringType
    <2>3. CASE store[n][i] = Absent
      BY ZenonT(30), <1>2, <2>1, <2>3, ZerosInPlace DEF Answer, FetchedRight
    <2>4. CASE store[n][i] # Absent
      <3>1. InPlace(i, store[n][i])
        BY Zenon, <2>2, <2>4 DEF CopiesRight, StoreRight
      <3>2. /\ b.data = store[n][i]
            /\ b.cache = cache[MountOf[f]] \cup {<<of[f].generation, i, store[n][i]>>}
        BY <2>1, <2>4 DEF Answer
      <3> QED BY <1>2, <3>1, <3>2 DEF FetchedRight
    <2> QED BY Zenon, <2>3, <2>4
  <1> QED BY <1>3, <1>4, <1>5

(* And the zeros read and apply_write take without a fetch. *)
LEMMA NoFetchRight ==
  ASSUME CopiesRight, NEW f \in Fds, NEW i
  PROVE  FetchedRight(i, [data |-> Zeros, cache |-> cache[MountOf[f]]])
  BY ZerosInPlace, SlotsAssumption DEF FetchedRight, CopiesRight, CacheRight

(* A turn of read caches a copy that is in place. *)
LEMMA ReadProv == ASSUME TypeInv, ProvInv, NEW f \in Fds, Read(f) PROVE ProvInv'
  <1>1. PICK i \in Blocks : \E b \in ReadBlock(f, i) :
          cache' = [cache EXCEPT ![MountOf[f]] = b.cache]
    BY Zenon DEF Read
  <1>2. PICK b \in ReadBlock(f, i) : cache' = [cache EXCEPT ![MountOf[f]] = b.cache]
    BY Zenon, <1>1
  <1>3. FetchedRight(i, b)
    BY FetchRight, NoFetchRight DEF ReadBlock, ProvInv
  <1>4. UNCHANGED <<store, of, pc, op, spawned, covers, writes>>
    BY DEF Read, netVars, histVars
  <1>5. cache \in [Mounts -> SUBSET (Nat \X Blocks \X Content)]
    BY DEF TypeInv, TypeOK
  <1>6. \A m \in Mounts : \A e \in cache'[m] : InPlace(e[2], e[3])
    BY Zenon, <1>2, <1>3, <1>5 DEF FetchedRight, ProvInv, CopiesRight, CacheRight
  <1>7. CacheRight'
    BY Zenon, <1>4, <1>6 DEF CacheRight, InPlace, CellOf
  <1>8. StoreRight' /\ DirtyRight' /\ DataRight' /\ SpawnedRight' /\ WriteRight' /\ CoversRight'
    BY Zenon, <1>4 DEF ProvInv, CopiesRight, StoreRight, DirtyRight, DataRight, SpawnedRight,
       WriteRight, CoversRight, InPlace, CellOf
  <1> QED BY <1>7, <1>8 DEF ProvInv, CopiesRight

----------------------------------------------------------------------------
(* A copy in place stays so when the covers only grow. *)
LEMMA InPlaceGrows ==
  ASSUME \A w \in 1 .. MaxWrites : covers[w] \subseteq covers'[w],
         NEW i, NEW d \in Content, InPlace(i, d)
  PROVE  \A k \in Offsets : d[k] # 0 => CellOf(i, k) \in covers'[d[k]]
  <1>1. \A k \in Offsets : d[k] \in 0 .. MaxWrites
    BY Zenon DEF Content, Stamps
  <1>2. \A k \in Offsets : d[k] # 0 => d[k] \in 1 .. MaxWrites
    BY <1>1, BoundsAssumption
  <1> QED BY Zenon, <1>2 DEF InPlace

(* A new write covers cells that no copy claims yet. *)
LEMMA WriteBeginProv ==
  ASSUME TypeInv, ProvInv, NEW f \in Fds, WriteBegin(f) PROVE ProvInv'
  <1>1. PICK r \in Ranges :
          /\ op' = [op EXCEPT ![f] = WriteOp(r, writes + 1)]
          /\ covers' = [covers EXCEPT ![writes + 1] = r[1] .. r[1] + r[2] - 1]
    BY Zenon DEF WriteBegin
  <1>2. /\ UNCHANGED <<store, of, cache, spawned>> /\ writes' = writes + 1
        /\ pc' = [pc EXCEPT ![f] = "write"] /\ writes < MaxWrites
    BY DEF WriteBegin, netVars
  <1>3. /\ writes \in Nat /\ writes + 1 \in 1 .. MaxWrites
        /\ covers \in [1 .. MaxWrites -> SUBSET Cells]
        /\ pc \in [Fds -> Stages] /\ op \in [Fds -> Op]
    BY <1>2, BoundsAssumption DEF TypeInv, TypeOK, Stamps
  <1>4. covers[writes + 1] = {}
    BY <1>3 DEF ProvInv, CoversRight
  <1>5. \A w \in 1 .. MaxWrites : covers[w] \subseteq covers'[w]
    BY <1>1, <1>3, <1>4
  <1>6. CoversRight'
    BY <1>1, <1>2, <1>3 DEF ProvInv, CoversRight
  <1>7. /\ op'[f].stamp = writes + 1 /\ op'[f].cur = r[1] /\ op'[f].end = r[1] + r[2]
        /\ op'[f].data = NoDirty
    BY <1>1, <1>3 DEF WriteOp
  <1>8. \A g \in Fds : g # f => op'[g] = op[g] /\ pc'[g] = pc[g]
    BY <1>1, <1>2, <1>3
  <1>9. WriteRight'
    <2>1. covers'[writes + 1] = r[1] .. r[1] + r[2] - 1
      BY Zenon, <1>1, <1>3
    <2>2. \A c \in op'[f].cur .. op'[f].end - 1 : c \in covers'[op'[f].stamp]
      <3>1. r[1] \in Nat /\ r[2] \in Nat
        BY Zenon, RangesAssumption
      <3>2. covers'[op'[f].stamp] = covers'[writes + 1]
        BY <1>7
      <3> QED BY <1>7, <2>1, <3>1, <3>2
    <2>3. ASSUME NEW g \in Fds, g # f, pc'[g] = "write"
          PROVE  /\ op'[g].stamp \in 1 .. MaxWrites
                 /\ \A c \in op'[g].cur .. op'[g].end - 1 : c \in covers'[op'[g].stamp]
      <3>1. op'[g] = op[g] /\ pc[g] = "write"
        BY Zenon, <1>8, <2>3
      <3>2. /\ op[g].stamp \in 1 .. MaxWrites
            /\ \A c \in op[g].cur .. op[g].end - 1 : c \in covers[op[g].stamp]
        BY <3>1 DEF ProvInv, WriteRight
      <3>3. covers[op[g].stamp] \subseteq covers'[op[g].stamp]
        BY <1>5, <3>2
      <3> QED BY <3>1, <3>2, <3>3
    <2>4. op'[f].stamp \in 1 .. MaxWrites
      BY Zenon, <1>3, <1>7
    <2> QED BY <2>2, <2>3, <2>4 DEF WriteRight
  <1>10. StoreRight'
    <2>1. \A n \in Nodes, i \in Blocks : store[n][i] # Absent => store[n][i] \in Content
      <3>1. store \in [Nodes -> [Blocks -> MaybeContent]]
        BY Zenon DEF TypeInv, TypeOK
      <3> QED BY <3>1 DEF MaybeContent
    <2> QED BY <1>2, <1>5, <2>1, InPlaceGrows
            DEF ProvInv, CopiesRight, StoreRight, InPlace, CellOf
  <1>11. DirtyRight'
    <2>1. \A g \in Fds, i \in Blocks : of[g].dirty[i] # Absent => of[g].dirty[i] \in Content
      BY DEF TypeInv, TypeOK, MaybeContent, OpenFile
    <2> QED BY <1>2, <1>5, <2>1, InPlaceGrows
            DEF ProvInv, CopiesRight, DirtyRight, InPlace, CellOf
  <1>12. DataRight'
    <2>1. \A g \in Fds, i \in Blocks : op[g].data[i] # Absent => op[g].data[i] \in Content
      BY DEF TypeInv, TypeOK, MaybeContent, Op
    <2>2. \A i \in Blocks : op'[f].data[i] = Absent
      BY <1>7 DEF NoDirty
    <2>3. ASSUME NEW g \in Fds, NEW i \in Blocks, op'[g].data[i] # Absent
          PROVE  InPlace(i, op[g].data[i]) /\ op'[g].data[i] = op[g].data[i]
                 /\ op[g].data[i] \in Content
      BY Zenon, <1>8, <2>1, <2>2, <2>3 DEF ProvInv, CopiesRight, DataRight
    <2> QED BY <1>5, <2>3, InPlaceGrows DEF DataRight, InPlace, CellOf
  <1>13. CacheRight'
    <2>1. \A m \in Mounts : \A e \in cache[m] : e[3] \in Content
      BY DEF TypeInv, TypeOK
    <2> QED BY Zenon, <1>2, <1>5, <2>1, InPlaceGrows
            DEF ProvInv, CopiesRight, CacheRight, InPlace, CellOf
  <1>14. SpawnedRight'
    <2>1. \A w \in spawned : w.data \in Content
      BY DEF TypeInv, TypeOK
    <2> QED BY Zenon, <1>2, <1>5, <2>1, InPlaceGrows
            DEF ProvInv, CopiesRight, SpawnedRight, InPlace, CellOf
  <1> QED BY <1>6, <1>9, <1>10, <1>11, <1>12, <1>13, <1>14 DEF ProvInv, CopiesRight

(* A turn of apply_write stamps cells its write covers, over a base that is in
   place. *)
LEMMA WriteStepProv ==
  ASSUME TypeInv, ProvInv, NEW f \in Fds, WriteStep(f) PROVE ProvInv'
  <1> DEFINE i == BlockOf(op[f].cur)
             len == ChunkEnd(f) - op[f].cur
             from == InBlock(op[f].cur)
             done == ChunkEnd(f) = op[f].end
             buf(b) == [k \in Offsets |-> IF k \in from .. from + len - 1
                                         THEN op[f].stamp ELSE b.data[k]]
             hint == IF done THEN Extended(of[f].size_hint, op[f].end)
                     ELSE of[f].size_hint
  <1>1. PICK b \in WriteBase(f, i) :
          /\ of' = [of EXCEPT ![f].dirty[i] = buf(b), ![f].size_hint = hint]
          /\ cache' = [cache EXCEPT ![MountOf[f]] = b.cache]
    BY Zenon DEF WriteStep
  <1>2. /\ UNCHANGED <<store, spawned, covers, writes>> /\ pc[f] = "write"
        /\ op' = [op EXCEPT ![f] = IF done THEN NoOp ELSE [op[f] EXCEPT !.cur = ChunkEnd(f)]]
        /\ pc' = [pc EXCEPT ![f] = IF done THEN "idle" ELSE "write"]
    BY DEF WriteStep, netVars
  <1>3. /\ op[f].cur \in Nat /\ op[f].end \in Nat /\ i \in Blocks
        /\ ChunkEnd(f) \in Nat /\ op[f].cur < ChunkEnd(f) /\ ChunkEnd(f) <= op[f].end
    BY <1>2, ChunkEndBounds
  <1>4. /\ op[f].stamp \in 1 .. MaxWrites
        /\ \A c \in op[f].cur .. op[f].end - 1 : c \in covers[op[f].stamp]
    BY Zenon, <1>2 DEF ProvInv, WriteRight
  <1>5. FetchedRight(i, b)
    BY Zenon, <1>3, FetchRight, NoFetchRight DEF WriteBase, ProvInv
  <1>6. i * BlockSize \in Nat /\ from = op[f].cur - i * BlockSize
    BY <1>3, DivBounds, BoundsAssumption DEF InBlock, BlockOf
  <1>7. \A k \in Offsets : k \in Int
    BY BoundsAssumption DEF Offsets
  <1> HIDE DEF i, from, hint
  <1>8. \A k \in Offsets : k \in from .. from + len - 1
                           => CellOf(i, k) \in op[f].cur .. op[f].end - 1
    <2> DEFINE x == i * BlockSize
    <2>1. x \in Nat /\ from = op[f].cur - x
      BY <1>6
    <2>2. \A k : CellOf(i, k) = x + k
      BY DEF CellOf
    <2> HIDE DEF x
    <2> QED BY <1>3, <1>7, <2>1, <2>2
  <1>9. InPlace(i, buf(b))
    <2>1. ASSUME NEW k \in Offsets, buf(b)[k] # 0 PROVE CellOf(i, k) \in covers[buf(b)[k]]
      <3>1. CASE k \in from .. from + len - 1
        BY Zenon, <1>4, <1>8, <3>1
      <3>2. CASE k \notin from .. from + len - 1
        BY Zenon, <1>5, <2>1, <3>2 DEF FetchedRight, InPlace
      <3> QED BY <3>1, <3>2
    <2> QED BY Zenon, <2>1 DEF InPlace
  <1>10. /\ of \in [Fds -> OpenFile] /\ pc \in [Fds -> Stages] /\ op \in [Fds -> Op]
         /\ cache \in [Mounts -> SUBSET (Nat \X Blocks \X Content)]
    BY DEF TypeInv, TypeOK
  <1> HIDE DEF buf
  <1>11. DirtyRight'
    <2>1. of'[f].dirty = [of[f].dirty EXCEPT ![i] = buf(b)]
      BY <1>1, <1>10 DEF OpenFile
    <2>2. \A g \in Fds : g # f => of'[g] = of[g]
      BY <1>1, <1>10
    <2>3. of[f].dirty \in [Blocks -> MaybeContent]
      BY Zenon, <1>10 DEF OpenFile
    <2>4. \A g \in Fds, j \in Blocks :
            of'[g].dirty[j] # Absent => InPlace(j, of'[g].dirty[j])
      BY <1>3, <1>9, <2>1, <2>2, <2>3 DEF ProvInv, CopiesRight, DirtyRight
    <2> QED BY <1>2, <2>4 DEF DirtyRight, InPlace, CellOf
  <1>12. CacheRight'
    <2>1. \A m \in Mounts : \A e \in cache'[m] : InPlace(e[2], e[3])
      BY <1>1, <1>5, <1>10 DEF FetchedRight, ProvInv, CopiesRight, CacheRight
    <2> QED BY <1>2, <2>1 DEF CacheRight, InPlace, CellOf
  <1>13. /\ op[f] \in Op /\ \A g \in Fds : g # f => op'[g] = op[g] /\ pc'[g] = pc[g]
         /\ op'[f] = IF done THEN NoOp ELSE [op[f] EXCEPT !.cur = ChunkEnd(f)]
    BY Zenon, <1>2, <1>10
  <1>14. DataRight'
    <2>1. \A j \in Blocks : op'[f].data[j] \in {op[f].data[j], Absent}
      BY <1>13 DEF NoOp, NoDirty, Op
    <2> QED BY <1>2, <1>13, <2>1 DEF ProvInv, CopiesRight, DataRight, InPlace, CellOf
  <1>15. WriteRight'
    <2>1. ~done => /\ op'[f].cur = ChunkEnd(f) /\ op'[f].end = op[f].end
                   /\ op'[f].stamp = op[f].stamp
      BY <1>13 DEF Op
    <2>2. done => pc'[f] # "write"
      BY <1>2, <1>10
    <2>3. ~done => \A c \in op'[f].cur .. op'[f].end - 1 : c \in covers'[op'[f].stamp]
      BY <1>2, <1>3, <1>4, <2>1
    <2>4. ~done => op'[f].stamp \in 1 .. MaxWrites
      BY <1>4, <2>1
    <2> HIDE DEF done
    <2>5. ASSUME NEW g \in Fds, pc'[g] = "write"
          PROVE  /\ op'[g].stamp \in 1 .. MaxWrites
                 /\ \A c \in op'[g].cur .. op'[g].end - 1 : c \in covers'[op'[g].stamp]
      <3>1. CASE g = f
        BY <2>2, <2>3, <2>4, <2>5, <3>1
      <3>2. CASE g # f
        BY <1>2, <1>13, <2>5, <3>2 DEF ProvInv, WriteRight
      <3> QED BY Zenon, <3>1, <3>2
    <2> QED BY <2>5 DEF WriteRight
  <1>16. StoreRight' /\ SpawnedRight' /\ CoversRight'
    BY <1>2 DEF ProvInv, CopiesRight, StoreRight, SpawnedRight, CoversRight, InPlace, CellOf
  <1> QED BY <1>11, <1>12, <1>14, <1>15, <1>16 DEF ProvInv, CopiesRight

----------------------------------------------------------------------------
(* The buffers that leave the OpenFile keep their block numbers. *)
LEMMA PublishAllocateProv ==
  ASSUME TypeInv, ProvInv, NEW f \in Fds, PublishAllocate(f) PROVE ProvInv'
  <1>1. of \in [Fds -> OpenFile] /\ pc \in [Fds -> Stages] /\ op \in [Fds -> Op]
    BY DEF TypeInv, TypeOK
  <1>2. UNCHANGED <<store, cache, spawned, covers, writes>>
    BY DEF PublishAllocate, netVars, histVars
  <1>3. of'[f].dirty = NoDirty /\ op'[f].data = of[f].dirty /\ pc'[f] = "send"
    BY <1>1 DEF PublishAllocate, OpenFile, Op
  <1>4. \A g \in Fds : g # f => of'[g] = of[g] /\ op'[g] = op[g] /\ pc'[g] = pc[g]
    BY Zenon, <1>1 DEF PublishAllocate
  <1>5. DirtyRight'
    BY SMTT(30), <1>2, <1>3, <1>4 DEF ProvInv, CopiesRight, DirtyRight, NoDirty, InPlace, CellOf
  <1>6. DataRight'
    <2>1. \A i \in Blocks : op'[f].data[i] # Absent => InPlace(i, op'[f].data[i])
      BY <1>3 DEF ProvInv, CopiesRight, DirtyRight
    <2>2. \A g \in Fds, i \in Blocks :
            g # f /\ op'[g].data[i] # Absent => InPlace(i, op'[g].data[i])
      BY ZenonT(30), <1>4 DEF ProvInv, CopiesRight, DataRight
    <2> QED BY ZenonT(30), <1>2, <2>1, <2>2 DEF DataRight, InPlace
  <1>7. WriteRight'
    BY Zenon, <1>2, <1>3, <1>4 DEF ProvInv, WriteRight
  <1>8. StoreRight' /\ CacheRight' /\ SpawnedRight' /\ CoversRight'
    BY Zenon, <1>2 DEF ProvInv, CopiesRight, StoreRight, CacheRight, SpawnedRight, CoversRight,
       InPlace, CellOf
  <1> QED BY <1>5, <1>6, <1>7, <1>8 DEF ProvInv, CopiesRight

(* A block that is still to be sent is in place. *)
LEMMA UnsentRight ==
  ASSUME TypeInv, CopiesRight, NEW f \in Fds, NEW i \in Unsent(f)
  PROVE  i \in Blocks /\ InPlace(i, op[f].data[i])
  BY DEF Unsent, TypeInv, Shape, CopiesRight, DataRight

(* So the calls that carry it, waited for or not, carry it to its place. *)
LEMMA StrayRight ==
  ASSUME TypeInv, CopiesRight, NEW f \in Fds, NEW S, S \subseteq Unsent(f)
  PROVE  \A w \in Stray(f, S) : InPlace(w.idx, w.data)
  <1>1. \A w \in Stray(f, S) : \E i \in Unsent(f) : w.idx = i /\ w.data = op[f].data[i]
    BY DEF Stray, WriteMsg
  <1> QED BY Zenon, <1>1, UnsentRight

(* A WriteBlock call stores a block under its own number. *)
LEMMA SendBlockProv ==
  ASSUME TypeInv, ProvInv, NEW f \in Fds, SendBlock(f) PROVE ProvInv'
  <1>1. /\ pc \in [Fds -> Stages] /\ op \in [Fds -> Op]
        /\ store \in [Nodes -> [Blocks -> MaybeContent]]
    BY DEF TypeInv, TypeOK
  <1>2. UNCHANGED <<of, pc, cache, covers, writes>> /\ pc[f] = "send"
    BY DEF SendBlock
  <1>3. PICK i \in Unsent(f) :
          LET n == Head(op[f].left[i])
              rest == Tail(op[f].left[i])
          IN  /\ store' = [store EXCEPT ![n][i] = op[f].data[i]]
              /\ \/ UNCHANGED spawned /\ op' = [op EXCEPT ![f].left[i] = rest]
                 \/ /\ op' = [op EXCEPT ![f].left[i] = <<>>]
                    /\ spawned' = spawned \cup {WriteMsg(rest[j], i, op[f].data[i])
                                                  : j \in DOMAIN rest}
    BY Zenon DEF SendBlock
  <1>4. i \in Blocks /\ InPlace(i, op[f].data[i])
    BY UnsentRight DEF ProvInv
  <1>5. \A g \in Fds : op'[g].data = op[g].data
    BY <1>1, <1>3 DEF Op
  <1>6. StoreRight'
    <2>1. \A m \in Nodes, j \in Blocks : \/ store'[m][j] = store[m][j]
                                         \/ j = i /\ store'[m][j] = op[f].data[i]
      BY ZenonT(30), <1>1, <1>3, <1>4
    <2>2. \A m \in Nodes, j \in Blocks : store'[m][j] # Absent => InPlace(j, store'[m][j])
      BY <1>4, <2>1 DEF ProvInv, CopiesRight, StoreRight
    <2> QED BY ZenonT(30), <1>2, <2>2 DEF StoreRight, InPlace, CellOf
  <1>7. SpawnedRight'
    <2>1. \A w \in spawned' : w \in spawned \/ (w.idx = i /\ w.data = op[f].data[i])
      BY <1>3 DEF WriteMsg
    <2>2. \A w \in spawned' : InPlace(w.idx, w.data)
      BY Zenon, <1>4, <2>1 DEF ProvInv, CopiesRight, SpawnedRight
    <2> QED BY Zenon, <1>2, <2>2 DEF SpawnedRight, InPlace, CellOf
  <1>8. DataRight'
    BY Zenon, <1>2, <1>5 DEF ProvInv, CopiesRight, DataRight, InPlace, CellOf
  <1>9. WriteRight'
    <2>1. \A g \in Fds : g # f => op'[g] = op[g]
      BY ZenonT(30), <1>1, <1>3
    <2> QED BY <1>2, <2>1 DEF ProvInv, WriteRight
  <1>10. DirtyRight' /\ CacheRight' /\ CoversRight'
    BY <1>2 DEF ProvInv, CopiesRight, DirtyRight, CacheRight, CoversRight, InPlace, CellOf
  <1> QED BY Zenon, <1>6, <1>7, <1>8, <1>9, <1>10 DEF ProvInv, CopiesRight

(* Calls left behind by a failed publish are the only new copies of it. *)
LEMMA SendFailsProv ==
  ASSUME TypeInv, ProvInv, NEW f \in Fds, SendFails(f) PROVE ProvInv'
  <1>1. UNCHANGED <<store, of, cache, covers, writes>>
    BY Zenon DEF SendFails
  <1>2. PICK S \in SUBSET Unsent(f) : spawned' = spawned \cup Stray(f, S)
    BY Zenon DEF SendFails
  <1>3. /\ \A g \in Fds, i \in Blocks : op'[g].data[i] \in {op[g].data[i], Absent}
        /\ KeepsWrites
    BY Zenon, ReplyKeeps DEF SendFails
  <1>4. \A w \in spawned' : InPlace(w.idx, w.data)
    BY <1>2, StrayRight DEF ProvInv, CopiesRight, SpawnedRight
  <1>5. SpawnedRight'
    BY Zenon, <1>1, <1>4 DEF SpawnedRight, InPlace, CellOf
  <1>6. DataRight' /\ WriteRight'
    BY <1>1, <1>3 DEF ProvInv, CopiesRight, DataRight, WriteRight, KeepsWrites, InPlace,
       CellOf
  <1>7. StoreRight' /\ DirtyRight' /\ CacheRight' /\ CoversRight'
    BY Zenon, <1>1 DEF ProvInv, CopiesRight, StoreRight, DirtyRight, CacheRight, CoversRight,
       InPlace, CellOf
  <1> QED BY Zenon, <1>5, <1>6, <1>7 DEF ProvInv, CopiesRight

(* Spawned calls reach the block they name, whenever they arrive. *)
LEMMA DeliverWriteProv == ASSUME TypeInv, ProvInv, DeliverWrite PROVE ProvInv'
  <1>1. UNCHANGED <<of, pc, op, cache, covers, writes>>
    BY DEF DeliverWrite, clientVars
  <1>2. PICK w \in spawned :
          /\ spawned' = spawned \ {w}
          /\ store' = [store EXCEPT ![w.node][w.idx] = w.data] \/ UNCHANGED store
    BY DEF DeliverWrite
  <1>3. InPlace(w.idx, w.data) /\ w.idx \in Blocks
    BY DEF ProvInv, CopiesRight, SpawnedRight, TypeInv, TypeOK
  <1>4. store \in [Nodes -> [Blocks -> MaybeContent]]
    BY DEF TypeInv, TypeOK
  <1>5. \A n \in Nodes, i \in Blocks : \/ store'[n][i] = store[n][i]
                                       \/ i = w.idx /\ store'[n][i] = w.data
    BY ZenonT(30), <1>2, <1>3, <1>4
  <1>6. \A n \in Nodes, i \in Blocks : store'[n][i] # Absent => InPlace(i, store'[n][i])
    BY <1>3, <1>5 DEF ProvInv, CopiesRight, StoreRight
  <1>7. StoreRight'
    BY Zenon, <1>1, <1>6 DEF StoreRight, InPlace, CellOf
  <1>8. DirtyRight' /\ DataRight' /\ CacheRight' /\ SpawnedRight'
    BY Zenon, <1>1, <1>2 DEF ProvInv, CopiesRight, DirtyRight, DataRight, CacheRight,
       SpawnedRight, InPlace, CellOf
  <1>9. WriteRight' /\ CoversRight'
    BY <1>1 DEF ProvInv, WriteRight, CoversRight
  <1> QED BY <1>7, <1>8, <1>9 DEF ProvInv, CopiesRight

(* A mount that dies leaves behind calls that carry blocks to their place. *)
LEMMA CrashMountProv ==
  ASSUME TypeInv, ProvInv, NEW m \in Mounts, CrashMount(m) PROVE ProvInv'
  <1>1. UNCHANGED <<store, covers, writes>>
    BY DEF CrashMount
  <1>2. PICK S \in SUBSET Blocks :
          spawned' = spawned \cup UNION {Stray(f, S \cap Unsent(f))
                                           : f \in {g \in Fds : MountOf[g] = m}}
    BY Zenon DEF CrashMount
  <1>3. \A f \in Fds : \A w \in Stray(f, S \cap Unsent(f)) : InPlace(w.idx, w.data)
    BY StrayRight DEF ProvInv
  <1>4. \A w \in spawned' : InPlace(w.idx, w.data)
    BY Zenon, <1>2, <1>3 DEF ProvInv, CopiesRight, SpawnedRight
  <1>5. SpawnedRight'
    BY ZenonT(30), <1>1, <1>4 DEF SpawnedRight, InPlace, CellOf
  <1>6. \A f \in Fds : \/ of'[f] = of[f] /\ op'[f] = op[f] /\ pc'[f] = pc[f]
                       \/ of'[f] = NoFile /\ op'[f] = NoOp /\ pc'[f] = "closed"
    BY DEF CrashMount
  <1>7. \A n \in Mounts : cache'[n] \subseteq cache[n]
    BY Zenon DEF CrashMount, TypeInv, TypeOK
  <1>8. DirtyRight'
    <2>1. ASSUME NEW f \in Fds, NEW i \in Blocks, of'[f].dirty[i] # Absent
          PROVE  InPlace(i, of'[f].dirty[i])
      <3>1. of'[f] = of[f]
        BY Zenon, <1>6, <2>1, ClosedEmpty
      <3> QED BY Zenon, <2>1, <3>1 DEF ProvInv, CopiesRight, DirtyRight
    <2> QED BY Zenon, <1>1, <2>1 DEF DirtyRight, InPlace
  <1>9. DataRight'
    <2>1. ASSUME NEW f \in Fds, NEW i \in Blocks, op'[f].data[i] # Absent
          PROVE  InPlace(i, op'[f].data[i])
      <3>1. op'[f] = op[f]
        BY ZenonT(30), <1>6, <2>1, ClosedEmpty
      <3> QED BY ZenonT(30), <2>1, <3>1 DEF ProvInv, CopiesRight, DataRight
    <2> QED BY <1>1, <2>1 DEF DataRight, InPlace
  <1>10. StoreRight' /\ CacheRight' /\ WriteRight' /\ CoversRight'
    BY <1>1, <1>6, <1>7 DEF ProvInv, CopiesRight, StoreRight, CacheRight, WriteRight,
       CoversRight, InPlace, CellOf
  <1> QED BY ZenonT(30), <1>5, <1>8, <1>9, <1>10 DEF ProvInv, CopiesRight

(* The other steps of the environment only take copies away. *)
LEMMA EnvironmentProv ==
  ASSUME TypeInv,
         \/ \E m \in Mounts : Evict(m)
         \/ Truncate \/ Unlink \/ DeliverDelete
         \/ \E n \in Nodes : RestartStore(n) \/ NodeUp(n) \/ NodeDown(n)
  PROVE  KeepsCopies /\ KeepsWrites
  <1>1. UNCHANGED <<of, pc, op, spawned, covers, writes>>
    BY Zenon DEF Evict, Truncate, Unlink, DeliverDelete, RestartStore, NodeUp, NodeDown,
       clientVars, netVars, histVars
  <1>2. /\ store \in [Nodes -> [Blocks -> MaybeContent]]
        /\ cache \in [Mounts -> SUBSET (Nat \X Blocks \X Content)]
    BY DEF TypeInv, TypeOK
  <1>3. \A n \in Nodes, i \in Blocks : store'[n][i] \in {store[n][i], Absent}
    <2>1. CASE DeliverDelete
      BY <1>2, <2>1 DEF DeliverDelete
    <2>2. CASE \E n \in Nodes : RestartStore(n)
      BY <1>2, <2>2 DEF RestartStore, NoDirty
    <2> QED BY Zenon, <2>1, <2>2 DEF Evict, Truncate, Unlink, NodeUp, NodeDown
  <1>4. \A m \in Mounts : cache'[m] \subseteq cache[m]
    BY Zenon, <1>2 DEF Evict, Truncate, Unlink, DeliverDelete, RestartStore, NodeUp, NodeDown,
       clientVars
  <1> QED BY ZenonT(30), <1>1, <1>3, <1>4 DEF KeepsCopies, KeepsWrites

(* Every step preserves ProvInv. *)
LEMMA StepProv == TypeInv /\ ProvInv /\ [Next]_vars => ProvInv'
  <1> SUFFICES ASSUME TypeInv, ProvInv, [Next]_vars PROVE ProvInv'
    OBVIOUS
  <1>1. CASE UNCHANGED vars
    <2>1. KeepsCopies /\ KeepsWrites
      BY Zenon, <1>1 DEF KeepsCopies, KeepsWrites, vars, clientVars, netVars, histVars
    <2> QED BY <2>1, KeepsProv
  <1>2. ASSUME NEW f \in Fds, Request(f) \/ Serve(f) PROVE ProvInv'
    <2>1. CASE \/ OpenRead(f) \/ OpenInsert(f) \/ WriteFails(f)
               \/ PublishNothing(f) \/ PublishBegin(f) \/ PublishUnplaced(f)
               \/ CloseAccepted(f) \/ CloseRejected(f)
      BY <2>1, QuietKeeps, KeepsProv
    <2> QED BY ZenonT(30), <1>2, <2>1, ReadProv, WriteBeginProv, WriteStepProv, PublishAllocateProv,
               SendBlockProv, SendFailsProv DEF Request, Serve
  <1>3. CASE \/ \E m \in Mounts : Evict(m)
             \/ Truncate \/ Unlink \/ DeliverDelete
             \/ \E n \in Nodes : RestartStore(n) \/ NodeUp(n) \/ NodeDown(n)
    BY <1>3, EnvironmentProv, KeepsProv
  <1> QED BY <1>1, <1>2, <1>3, DeliverWriteProv, CrashMountProv DEF Next

(* ProvInv holds for good. *)
LEMMA ProvAlways == Spec => []ProvInv
  <1>1. Init => ProvInv
    <2> SUFFICES ASSUME Init PROVE ProvInv
      OBVIOUS
    <2>1. StoreRight /\ DirtyRight /\ DataRight /\ CacheRight /\ SpawnedRight
      BY Zenon DEF Init, StoreRight, DirtyRight, DataRight, CacheRight, SpawnedRight, NoFile,
         NoOp, NoDirty
    <2>2. WriteRight /\ CoversRight
      BY DEF Init, WriteRight, CoversRight
    <2> QED BY <2>1, <2>2 DEF ProvInv, CopiesRight
  <1> QED BY TypeAlways, <1>1, StepProv, PTL DEF Spec

(* No cell of any buffer, cached copy, stored block or call on its way ever
   holds the bytes of a write made elsewhere, for any block size, number of
   mounts and stores, and any faults: apply_write, fetch_block, the fan-out of
   publish and the stores never move a byte. *)
THEOREM BytesStayInPlace == Spec => []Provenance
  BY ProvAlways, ProvImplies, PTL

----------------------------------------------------------------------------
(* SizeFits is not inductive: what a slot will record as the size must cover
   what it has written and, as long as its close can be accepted, what is
   published; and its size_hint must end at a byte somebody wrote.  The last
   part of SizeInv ties the history to the writes, so that a new write cannot
   change what is known of old ones. *)
Covered(p, size) == \A c \in Cells : p[c] # 0 /\ WithinBlock(p[c]) => c < size
Reached(p, q, size) == \E c \in Cells : c + 1 = size /\ (p[c] # 0 \/ q[c] # 0)

SlotSized(f) ==
  pc[f] # "closed" =>
    /\ of[f].generation <= inode.generation
    /\ Covered(wrote[f], of[f].size_hint)
    /\ inode.live /\ of[f].generation = inode.generation
         => Covered(published, of[f].size_hint)
    /\ drops = 0 /\ of[f].size_hint # 0 => Reached(published, wrote[f], of[f].size_hint)

InCovers(p) == \A c \in Cells : p[c] # 0 => c \in covers[p[c]]

SizeInv ==
  /\ SizeFits
  /\ \A f \in Fds : SlotSized(f)
  /\ InCovers(published) /\ \A f \in Fds : InCovers(wrote[f])

(* The steps that leave alone what SizeInv is about. *)
KeepsSizes ==
  /\ covers' = covers /\ published' = published
  /\ inode'.generation = inode.generation
  /\ inode'.live => inode.live /\ inode'.size = inode.size
  /\ drops' = 0 => drops = 0
  /\ \A f \in Fds : pc'[f] # "closed" =>
       /\ pc[f] # "closed" /\ wrote'[f] = wrote[f]
       /\ of'[f].size_hint = of[f].size_hint /\ of'[f].generation = of[f].generation
  /\ \A f \in Fds : wrote'[f] \in {wrote[f], Clean}

(* Where the writes stay as they are, so do those within a block. *)
LEMMA SameCovers ==
  ASSUME covers' = covers
  PROVE  \A w : WithinBlock(w)' <=> WithinBlock(w)
  BY Zenon DEF WithinBlock

(* Such steps preserve SizeInv. *)
LEMMA KeepsSizeInv == ASSUME SizeInv, KeepsSizes PROVE SizeInv'
  <1>1. \A w : WithinBlock(w)' <=> WithinBlock(w)
    BY Zenon, SameCovers DEF KeepsSizes
  <1>2. SizeFits'
    BY ZenonT(30), <1>1 DEF SizeInv, KeepsSizes, SizeFits
  <1>3. ASSUME NEW f \in Fds PROVE SlotSized(f)'
    <2> SUFFICES ASSUME pc'[f] # "closed" PROVE SlotSized(f)'
      BY Zenon DEF SlotSized
    <2>1. SlotSized(f) /\ pc[f] # "closed"
      BY Zenon DEF SizeInv, KeepsSizes
    <2> QED BY ZenonT(30), <1>1, <2>1 DEF KeepsSizes, SlotSized, Covered, Reached
  <1>4. InCovers(published)' /\ \A f \in Fds : InCovers(wrote[f])'
    <2>1. InCovers(published)'
      BY Zenon DEF SizeInv, KeepsSizes, InCovers
    <2>2. ASSUME NEW f \in Fds PROVE InCovers(wrote[f])'
      <3>1. wrote'[f] = wrote[f] \/ wrote'[f] = Clean
        BY Zenon DEF KeepsSizes
      <3>2. \A c \in Cells : Clean[c] = 0
        BY DEF Clean
      <3> QED BY ZenonT(30), <3>1, <3>2 DEF SizeInv, KeepsSizes, InCovers
    <2> QED BY Zenon, <2>1, <2>2
  <1> QED BY Zenon, <1>2, <1>3, <1>4 DEF SizeInv

(* A step on another slot that changes neither inode nor history. *)
LEMMA SlotKept ==
  ASSUME NEW g \in Fds, SlotSized(g), UNCHANGED <<inode, drops, published, covers>>,
         of'[g] = of[g], pc'[g] = pc[g], wrote'[g] = wrote[g]
  PROVE  SlotSized(g)'
  <1>1. \A w : WithinBlock(w)' <=> WithinBlock(w)
    BY Zenon, SameCovers
  <1>2. /\ Covered(wrote[g], of[g].size_hint)' <=> Covered(wrote[g], of[g].size_hint)
        /\ Covered(published, of[g].size_hint)' <=> Covered(published, of[g].size_hint)
    BY Zenon, <1>1 DEF Covered
  <1>3. Reached(published, wrote[g], of[g].size_hint)'
          <=> Reached(published, wrote[g], of[g].size_hint)
    BY Zenon DEF Reached
  <1> QED BY Zenon, <1>2, <1>3 DEF SlotSized

(* An open takes size and generation of the inode together. *)
LEMMA OpenReadSize ==
  ASSUME TypeInv, SizeInv, NEW f \in Fds, OpenRead(f) PROVE SizeInv'
  <1>1. /\ of \in [Fds -> OpenFile] /\ pc \in [Fds -> Stages]
        /\ wrote \in [Fds -> [Cells -> Stamps]] /\ inode \in Inode
    BY DEF TypeInv, TypeOK
  <1>2. UNCHANGED <<inode, drops, published, covers>> /\ inode.live
    BY DEF OpenRead, metaVars
  <1>3. /\ of'[f].generation = inode.generation /\ of'[f].size_hint = inode.size
        /\ wrote'[f] = Clean
    BY <1>1 DEF OpenRead, NoFile
  <1>4. \A g \in Fds : g # f => of'[g] = of[g] /\ pc'[g] = pc[g] /\ wrote'[g] = wrote[g]
    BY <1>1 DEF OpenRead
  <1>5. \A w : WithinBlock(w)' <=> WithinBlock(w)
    BY Zenon, <1>2, SameCovers
  <1>6. \A c \in Cells : Clean[c] = 0
    BY DEF Clean
  <1>7. SizeFits'
    BY ZenonT(30), <1>2, <1>5 DEF SizeInv, SizeFits
  <1>8. SlotSized(f)'
    <2>1. of'[f].generation <= inode'.generation
      BY <1>1, <1>2, <1>3 DEF Inode
    <2>2. Covered(wrote[f], of[f].size_hint)'
      BY Zenon, <1>3, <1>6 DEF Covered
    <2>3. Covered(published, of[f].size_hint)'
      BY ZenonT(30), <1>2, <1>3, <1>5 DEF SizeInv, SizeFits, Covered
    <2>4. (drops = 0 /\ of[f].size_hint # 0 => Reached(published, wrote[f], of[f].size_hint))'
      BY ZenonT(30), <1>2, <1>3 DEF SizeInv, SizeFits, Reached
    <2> QED BY ZenonT(30), <2>1, <2>2, <2>3, <2>4 DEF SlotSized
  <1>9. ASSUME NEW g \in Fds, g # f PROVE SlotSized(g)'
    BY ZenonT(30), <1>2, <1>4, <1>9, SlotKept DEF SizeInv
  <1>10. InCovers(published)' /\ \A g \in Fds : InCovers(wrote[g])'
    <2>1. InCovers(published)'
      BY Zenon, <1>2 DEF SizeInv, InCovers
    <2>2. InCovers(wrote[f])'
      BY Zenon, <1>3, <1>6 DEF InCovers
    <2>3. ASSUME NEW g \in Fds, g # f PROVE InCovers(wrote[g])'
      BY Zenon, <1>2, <1>4, <2>3 DEF SizeInv, InCovers
    <2> QED BY Zenon, <2>1, <2>2, <2>3
  <1> QED BY Zenon, <1>7, <1>8, <1>9, <1>10 DEF SizeInv

(* A new write says nothing of the old ones. *)
LEMMA WriteBeginSize ==
  ASSUME TypeInv, ProvInv, SizeInv, NEW f \in Fds, WriteBegin(f) PROVE SizeInv'
  <1>1. PICK r \in Ranges :
          covers' = [covers EXCEPT ![writes + 1] = r[1] .. r[1] + r[2] - 1]
    BY ZenonT(30) DEF WriteBegin
  <1>2. /\ UNCHANGED <<inode, of, drops, published, wrote>> /\ writes < MaxWrites
        /\ \A g \in Fds : pc'[g] # "closed" => pc[g] # "closed"
    <2>1. pc \in [Fds -> Stages]
      BY DEF TypeInv, TypeOK
    <2> QED BY <2>1 DEF WriteBegin, Ready, metaVars
  <1>3. /\ covers \in [1 .. MaxWrites -> SUBSET Cells] /\ published \in [Cells -> Stamps]
        /\ wrote \in [Fds -> [Cells -> Stamps]] /\ writes \in Nat
        /\ writes + 1 \in 1 .. MaxWrites /\ \A w \in Stamps : w # 0 => w \in 1 .. MaxWrites
    BY <1>2, BoundsAssumption DEF TypeInv, TypeOK, Stamps
  <1>4. covers[writes + 1] = {}
    BY <1>3 DEF ProvInv, CoversRight
  <1>5. ASSUME NEW p \in [Cells -> Stamps], InCovers(p), NEW c \in Cells, p[c] # 0
        PROVE  covers'[p[c]] = covers[p[c]]
    <2>1. p[c] \in 1 .. MaxWrites /\ p[c] # writes + 1
      BY Zenon, <1>3, <1>4, <1>5 DEF InCovers
    <2> QED BY Zenon, <1>1, <1>3, <2>1
  <1>6. ASSUME NEW p \in [Cells -> Stamps], InCovers(p), NEW c \in Cells, p[c] # 0
        PROVE  (\E i \in Blocks : \A d \in covers'[p[c]] : BlockOf(d) = i) <=> WithinBlock(p[c])
    BY Zenon, <1>5, <1>6 DEF WithinBlock
  <1>7. /\ InCovers(published) /\ published \in [Cells -> Stamps]
        /\ \A g \in Fds : InCovers(wrote[g]) /\ wrote[g] \in [Cells -> Stamps]
    BY Zenon, <1>3 DEF SizeInv
  <1>8. /\ \A c \in Cells : published[c] # 0 =>
             /\ covers'[published[c]] = covers[published[c]]
             /\ WithinBlock(published[c])' <=> WithinBlock(published[c])
        /\ \A g \in Fds, c \in Cells : wrote[g][c] # 0 =>
             /\ covers'[wrote[g][c]] = covers[wrote[g][c]]
             /\ WithinBlock(wrote[g][c])' <=> WithinBlock(wrote[g][c])
    BY ZenonT(30), <1>2, <1>5, <1>6, <1>7 DEF WithinBlock
  <1>9. SizeFits'
    BY ZenonT(30), <1>2, <1>8 DEF SizeInv, SizeFits
  <1>10. ASSUME NEW g \in Fds PROVE SlotSized(g)'
    BY ZenonT(30), <1>2, <1>8 DEF SizeInv, SlotSized, Covered, Reached
  <1>11. InCovers(published)' /\ \A g \in Fds : InCovers(wrote[g])'
    BY ZenonT(30), <1>2, <1>7, <1>8 DEF InCovers
  <1> QED BY Zenon, <1>9, <1>10, <1>11 DEF SizeInv

(* A write within one block ends with the turn of the loop that starts it. *)
LEMMA OneTurn ==
  ASSUME TypeInv, ProvInv, NEW f \in Fds, pc[f] = "write", WithinBlock(op[f].stamp)
  PROVE  ChunkEnd(f) = op[f].end
  <1>1. op[f].cur \in Nat /\ op[f].end \in Nat /\ op[f].cur < op[f].end
    BY ChunkEndBounds DEF TypeInv, Shape
  <1> DEFINE e == op[f].end - 1
             i == BlockOf(op[f].cur)
  <1>2. e \in Nat /\ op[f].cur \in op[f].cur .. e /\ e \in op[f].cur .. e
    BY <1>1
  <1>3. BlockOf(e) = i
    BY Zenon, <1>2 DEF ProvInv, WriteRight, WithinBlock
  <1>4. e < (i + 1) * BlockSize /\ (i + 1) * BlockSize \in Nat
    <2>1. /\ e < (e \div BlockSize) * BlockSize + BlockSize
          /\ (e \div BlockSize) * BlockSize \in Nat
          /\ ((e \div BlockSize) + 1) * BlockSize = (e \div BlockSize) * BlockSize + BlockSize
      BY Zenon, <1>2, DivBounds, BoundsAssumption
    <2>2. e \div BlockSize = i
      BY Zenon, <1>3 DEF BlockOf
    <2>3. (i + 1) * BlockSize = (e \div BlockSize) * BlockSize + BlockSize
      BY Zenon, <2>1, <2>2
    <2> HIDE DEF e, i
    <2> QED BY <2>1, <2>3, BoundsAssumption
  <1> DEFINE stop == (i + 1) * BlockSize
  <1>5. ChunkEnd(f) = IF stop <= op[f].end THEN stop ELSE op[f].end
    BY Zenon DEF ChunkEnd
  <1>6. stop \in Nat /\ op[f].end - 1 < stop
    BY Zenon, <1>4
  <1> HIDE DEF stop
  <1> QED BY <1>1, <1>5, <1>6

(* A turn of apply_write: size_hint moves with the last turn. *)
LEMMA WriteStepSize ==
  ASSUME TypeInv, ProvInv, SizeInv, NEW f \in Fds, WriteStep(f) PROVE SizeInv'
  <1> DEFINE done == ChunkEnd(f) = op[f].end
             hint == of[f].size_hint
             chunk == op[f].cur .. ChunkEnd(f) - 1
  <1>1. /\ of \in [Fds -> OpenFile] /\ pc \in [Fds -> Stages]
        /\ wrote \in [Fds -> [Cells -> Stamps]]
    BY DEF TypeInv, TypeOK
  <1>2. UNCHANGED <<inode, drops, published, covers>> /\ pc[f] = "write"
    BY DEF WriteStep, metaVars
  <1>3. /\ of'[f].generation = of[f].generation
        /\ of'[f].size_hint = IF done THEN Extended(hint, op[f].end) ELSE hint
        /\ \A g \in Fds : g # f => of'[g] = of[g]
    BY <1>1 DEF WriteStep, OpenFile
  <1>4. /\ wrote'[f] = [c \in Cells |-> IF c \in chunk THEN op[f].stamp ELSE wrote[f][c]]
        /\ \A g \in Fds : g # f => wrote'[g] = wrote[g] /\ pc'[g] = pc[g]
    BY Zenon, <1>1 DEF WriteStep
  <1>5. /\ op[f].cur \in Nat /\ op[f].end \in Nat /\ ChunkEnd(f) \in Nat
        /\ op[f].cur < ChunkEnd(f) /\ ChunkEnd(f) <= op[f].end
        /\ op[f].end <= NumBlocks * BlockSize /\ hint \in Nat
    BY <1>1, <1>2, ChunkEndBounds DEF OpenFile
  <1>6. /\ op[f].stamp # 0
        /\ \A c \in chunk : c \in covers[op[f].stamp]
    <2>1. /\ op[f].stamp \in 1 .. MaxWrites
          /\ \A c \in op[f].cur .. op[f].end - 1 : c \in covers[op[f].stamp]
      BY Zenon, <1>2 DEF ProvInv, WriteRight
    <2>2. \A c \in chunk : c \in op[f].cur .. op[f].end - 1
      BY <1>5
    <2> QED BY <2>1, <2>2
  <1>7. of'[f].size_hint \in Nat /\ of'[f].size_hint >= hint
    BY <1>3, <1>5 DEF Extended
  <1>8. SlotSized(f) /\ pc[f] # "closed"
    BY Zenon, <1>2 DEF SizeInv
  <1>9. \A w : WithinBlock(w)' <=> WithinBlock(w)
    BY Zenon, <1>2, SameCovers
  <1>10. \A c \in Cells : c \in Int
    BY BoundsAssumption DEF Cells
  <1>11. ASSUME NEW p, Covered(p, hint), NEW c \in Cells, p[c] # 0, WithinBlock(p[c])
         PROVE  c < of'[f].size_hint
    <2>1. c < hint
      BY Zenon, <1>11 DEF Covered
    <2> QED BY <1>5, <1>7, <1>10, <2>1
  <1>12. Covered(wrote[f], of[f].size_hint)'
    <2> SUFFICES ASSUME NEW c \in Cells, wrote'[f][c] # 0, WithinBlock(wrote'[f][c])
                 PROVE  c < of'[f].size_hint
      BY Zenon, <1>9 DEF Covered
    <2>1. CASE c \in chunk
      <3>1. wrote'[f][c] = op[f].stamp
        BY Zenon, <1>4, <2>1
      <3>2. done
        BY Zenon, <1>2, <3>1, OneTurn
      <3>3. of'[f].size_hint >= op[f].end
        BY <1>3, <1>5, <3>2 DEF Extended
      <3> QED BY <1>5, <1>7, <2>1, <3>3
    <2>2. CASE c \notin chunk
      <3>1. wrote'[f][c] = wrote[f][c]
        BY Zenon, <1>4, <2>2
      <3>2. Covered(wrote[f], hint)
        BY Zenon, <1>8 DEF SlotSized
      <3> QED BY Zenon, <1>11, <3>1, <3>2
    <2> QED BY Zenon, <2>1, <2>2
  <1>13. (inode.live /\ of[f].generation = inode.generation
            => Covered(published, of[f].size_hint))'
    <2> SUFFICES ASSUME inode.live, of[f].generation = inode.generation,
                        NEW c \in Cells, published[c] # 0, WithinBlock(published[c])
                 PROVE  c < of'[f].size_hint
      BY ZenonT(30), <1>2, <1>3, <1>9 DEF Covered
    <2>1. Covered(published, hint)
      BY Zenon, <1>8 DEF SlotSized
    <2> QED BY Zenon, <1>11, <2>1
  <1>14. (drops = 0 /\ of[f].size_hint # 0 => Reached(published, wrote[f], of[f].size_hint))'
    <2> SUFFICES ASSUME drops = 0, of'[f].size_hint # 0
                 PROVE  \E c \in Cells : /\ c + 1 = of'[f].size_hint
                                         /\ published[c] # 0 \/ wrote'[f][c] # 0
      BY Zenon, <1>2 DEF Reached
    <2>1. CASE of'[f].size_hint = hint
      <3>1. PICK c \in Cells : c + 1 = hint /\ (published[c] # 0 \/ wrote[f][c] # 0)
        BY Zenon, <1>8, <2>1 DEF SlotSized, Reached
      <3>2. wrote[f][c] # 0 => wrote'[f][c] # 0
        BY Zenon, <1>4, <1>6
      <3> QED BY Zenon, <2>1, <3>1, <3>2
    <2>2. CASE of'[f].size_hint # hint
      <3>1. of'[f].size_hint = op[f].end /\ done
        BY <1>3, <2>2 DEF Extended
      <3> DEFINE c == op[f].end - 1
      <3>2. c \in chunk /\ c \in Cells /\ c + 1 = op[f].end
        <4>1. NumBlocks * BlockSize \in Nat
          BY BoundsAssumption
        <4> QED BY <1>5, <3>1, <4>1 DEF Cells
      <3> HIDE DEF c
      <3>3. wrote'[f][c] # 0
        BY Zenon, <1>4, <1>6, <3>2
      <3> QED BY Zenon, <3>1, <3>2, <3>3
    <2> QED BY Zenon, <2>1, <2>2
  <1>15. SlotSized(f)'
    <2>1. of'[f].generation <= inode'.generation
      BY Zenon, <1>2, <1>3, <1>8 DEF SlotSized
    <2> QED BY Zenon, <1>12, <1>13, <1>14, <2>1 DEF SlotSized
  <1>16. ASSUME NEW g \in Fds, g # f PROVE SlotSized(g)'
    BY Zenon, <1>2, <1>3, <1>4, <1>16, SlotKept DEF SizeInv
  <1>17. SizeFits'
    BY ZenonT(30), <1>2, <1>9 DEF SizeInv, SizeFits
  <1>18. InCovers(published)' /\ \A g \in Fds : InCovers(wrote[g])'
    <2>1. InCovers(published)'
      BY Zenon, <1>2 DEF SizeInv, InCovers
    <2>2. ASSUME NEW c \in Cells, wrote'[f][c] # 0 PROVE c \in covers'[wrote'[f][c]]
      <3>1. CASE c \in chunk
        BY Zenon, <1>2, <1>4, <1>6, <3>1
      <3>2. CASE c \notin chunk
        <4>1. wrote'[f][c] = wrote[f][c]
          BY Zenon, <1>4, <3>2
        <4> QED BY Zenon, <1>2, <2>2, <4>1 DEF SizeInv, InCovers
      <3> QED BY Zenon, <3>1, <3>2
    <2>3. ASSUME NEW g \in Fds, g # f PROVE InCovers(wrote[g])'
      BY Zenon, <1>2, <1>4, <2>3 DEF SizeInv, InCovers
    <2> QED BY Zenon, <2>1, <2>2, <2>3 DEF InCovers
  <1> QED BY Zenon, <1>15, <1>16, <1>17, <1>18 DEF SizeInv

(* An accepted close records a size that covers what it publishes and what
   was published before; the slots opened before it can close no more. *)
LEMMA CloseAcceptedSize ==
  ASSUME TypeInv, SizeInv, NEW f \in Fds, CloseAccepted(f) PROVE SizeInv'
  <1>1. /\ of \in [Fds -> OpenFile] /\ pc \in [Fds -> Stages]
        /\ wrote \in [Fds -> [Cells -> Stamps]] /\ inode \in Inode
    BY DEF TypeInv, TypeOK
  <1>2. /\ UNCHANGED <<drops, covers>> /\ pc[f] = "send"
        /\ inode.live /\ inode.generation = of[f].generation
        /\ published' = [c \in Cells |-> IF wrote[f][c] # 0
                                         THEN wrote[f][c] ELSE published[c]]
    BY DEF CloseAccepted, Accepts, Sent
  <1>3. /\ inode'.generation = inode.generation + 1 /\ inode'.size = of[f].size_hint
        /\ inode.generation \in Nat /\ \A g \in Fds : of[g].generation \in Nat
    BY <1>1 DEF CloseAccepted, Inode, OpenFile
  <1>4. /\ of'[f].size_hint = of[f].size_hint /\ of'[f].generation = inode.generation + 1
        /\ \A g \in Fds : g # f => of'[g] = of[g]
    BY <1>1 DEF CloseAccepted, OpenFile
  <1>5. /\ wrote'[f] = Clean
        /\ \A g \in Fds : g # f => wrote'[g] = wrote[g] /\ pc'[g] = pc[g]
    BY <1>1 DEF CloseAccepted, Reply
  <1>6. \A w : WithinBlock(w)' <=> WithinBlock(w)
    BY Zenon, <1>2, SameCovers
  <1>7. \A c \in Cells : Clean[c] = 0
    BY DEF Clean
  <1>8. SlotSized(f) /\ pc[f] # "closed"
    BY Zenon, <1>2 DEF SizeInv
  <1>9. \A c \in Cells : \/ wrote[f][c] # 0 /\ published'[c] = wrote[f][c]
                         \/ wrote[f][c] = 0 /\ published'[c] = published[c]
    BY Zenon, <1>2
  <1>10. Covered(published', of[f].size_hint)
    <2>1. Covered(wrote[f], of[f].size_hint) /\ Covered(published, of[f].size_hint)
      BY Zenon, <1>2, <1>8 DEF SlotSized
    <2> QED BY Zenon, <1>9, <2>1 DEF Covered
  <1>11. ASSUME drops = 0, of[f].size_hint # 0
         PROVE  \E c \in Cells : c + 1 = of[f].size_hint /\ published'[c] # 0
    <2>1. Reached(published, wrote[f], of[f].size_hint)
      BY Zenon, <1>8, <1>11 DEF SlotSized
    <2> QED BY Zenon, <1>9, <2>1 DEF Reached
  <1>12. SizeFits'
    <2>1. \A c \in Cells : published'[c] # 0 /\ WithinBlock(published'[c]) => c < inode'.size
      BY Zenon, <1>3, <1>10 DEF Covered
    <2> QED BY ZenonT(30), <1>2, <1>3, <1>6, <1>11, <2>1 DEF SizeFits
  <1>13. SlotSized(f)'
    <2>1. of'[f].generation <= inode'.generation
      BY <1>3, <1>4
    <2>2. Covered(wrote[f], of[f].size_hint)'
      BY Zenon, <1>5, <1>7 DEF Covered
    <2>3. Covered(published, of[f].size_hint)'
      BY Zenon, <1>4, <1>6, <1>10 DEF Covered
    <2>4. (drops = 0 /\ of[f].size_hint # 0 => Reached(published, wrote[f], of[f].size_hint))'
      BY Zenon, <1>2, <1>4, <1>11 DEF Reached
    <2> QED BY Zenon, <2>1, <2>2, <2>3, <2>4 DEF SlotSized
  <1>14. ASSUME NEW g \in Fds, g # f, pc'[g] # "closed" PROVE SlotSized(g)'
    <2>1. /\ SlotSized(g) /\ pc[g] # "closed"
          /\ of'[g] = of[g] /\ wrote'[g] = wrote[g]
      BY Zenon, <1>4, <1>5, <1>14 DEF SizeInv
    <2>2. of'[g].generation <= inode'.generation /\ of'[g].generation # inode'.generation
      <3>1. of[g].generation <= inode.generation
        BY Zenon, <2>1 DEF SlotSized
      <3> QED BY <1>3, <2>1, <3>1
    <2>3. Covered(wrote[g], of[g].size_hint)'
      <3>1. Covered(wrote[g], of[g].size_hint)
        BY Zenon, <2>1 DEF SlotSized
      <3> QED BY Zenon, <1>6, <2>1, <3>1 DEF Covered
    <2>4. (drops = 0 /\ of[g].size_hint # 0 => Reached(published, wrote[g], of[g].size_hint))'
      <3> SUFFICES ASSUME drops = 0, of[g].size_hint # 0
                   PROVE  Reached(published', wrote[g], of[g].size_hint)
        BY Zenon, <1>2, <2>1 DEF Reached
      <3>1. Reached(published, wrote[g], of[g].size_hint)
        BY Zenon, <2>1 DEF SlotSized
      <3> QED BY Zenon, <1>9, <3>1 DEF Reached
    <2> QED BY Zenon, <2>2, <2>3, <2>4 DEF SlotSized
  <1>15. InCovers(published)' /\ \A g \in Fds : InCovers(wrote[g])'
    <2>1. InCovers(published)'
      BY Zenon, <1>2, <1>9 DEF SizeInv, InCovers
    <2>2. InCovers(wrote[f])'
      BY Zenon, <1>5, <1>7 DEF InCovers
    <2>3. ASSUME NEW g \in Fds, g # f PROVE InCovers(wrote[g])'
      BY Zenon, <1>2, <1>5, <2>3 DEF SizeInv, InCovers
    <2> QED BY Zenon, <2>1, <2>2, <2>3
  <1>16. \A g \in Fds : SlotSized(g)'
    BY Zenon, <1>13, <1>14 DEF SlotSized
  <1> QED BY Zenon, <1>12, <1>15, <1>16 DEF SizeInv

(* A truncation takes the published bytes past the new size away. *)
LEMMA TruncateSize == ASSUME TypeInv, SizeInv, Truncate PROVE SizeInv'
  <1>1. PICK sz \in Sizes :
          /\ published' = [c \in Cells |-> IF c < sz THEN published[c] ELSE 0]
          /\ \E b : inode' = [inode EXCEPT !.size = sz, !.blocks = b]
    BY Zenon DEF Truncate
  <1>2. UNCHANGED <<of, pc, wrote, covers>> /\ drops' = drops + 1
    BY DEF Truncate, clientVars
  <1>3. inode \in Inode /\ drops' # 0
    BY <1>2 DEF TypeInv, TypeOK
  <1>4. /\ inode'.size = sz /\ inode'.generation = inode.generation
        /\ inode'.live = inode.live
    BY Zenon, <1>1, <1>3 DEF Inode
  <1>5. \A w : WithinBlock(w)' <=> WithinBlock(w)
    BY Zenon, <1>2, SameCovers
  <1>6. \A c \in Cells : published'[c] # 0 => c < sz /\ published'[c] = published[c]
    BY Zenon, <1>1
  <1>7. SizeFits'
    BY Zenon, <1>3, <1>4, <1>6 DEF SizeFits
  <1>8. ASSUME NEW g \in Fds PROVE SlotSized(g)'
    <2>1. Covered(wrote[g], of[g].size_hint) => Covered(wrote[g], of[g].size_hint)'
      BY Zenon, <1>2, <1>5 DEF Covered
    <2>2. Covered(published, of[g].size_hint) => Covered(published, of[g].size_hint)'
      BY Zenon, <1>2, <1>5, <1>6 DEF Covered
    <2> QED BY Zenon, <1>2, <1>3, <1>4, <2>1, <2>2 DEF SizeInv, SlotSized
  <1>9. InCovers(published)' /\ \A g \in Fds : InCovers(wrote[g])'
    BY Zenon, <1>2, <1>6 DEF SizeInv, InCovers
  <1> QED BY Zenon, <1>7, <1>8, <1>9 DEF SizeInv

(* The other steps of a mount. *)
LEMMA QuietSizes ==
  ASSUME TypeInv, NEW f \in Fds,
         \/ Read(f) \/ OpenInsert(f) \/ WriteFails(f)
         \/ PublishNothing(f) \/ PublishBegin(f) \/ PublishUnplaced(f) \/ PublishAllocate(f)
         \/ SendBlock(f) \/ SendFails(f) \/ CloseRejected(f)
  PROVE  KeepsSizes
  <1>1. of \in [Fds -> OpenFile] /\ pc \in [Fds -> Stages] /\ inode \in Inode
    BY DEF TypeInv, TypeOK
  <1>2. UNCHANGED <<covers, published, drops, wrote>>
    BY Zenon DEF Read, OpenInsert, WriteFails, PublishNothing, PublishBegin, PublishUnplaced,
       PublishAllocate, SendBlock, SendFails, CloseRejected, histVars
  <1>3. /\ inode'.generation = inode.generation /\ inode'.live = inode.live
        /\ inode'.size = inode.size
    <2>1. CASE PublishAllocate(f)
      BY <1>1, <2>1 DEF PublishAllocate, Inode
    <2>2. CASE ~PublishAllocate(f)
      BY Zenon, <2>2 DEF Read, OpenInsert, WriteFails, PublishNothing, PublishBegin,
         PublishUnplaced, SendBlock, SendFails, CloseRejected, metaVars
    <2> QED BY Zenon, <2>1, <2>2
  <1>4. \A g \in Fds : /\ of'[g].size_hint = of[g].size_hint
                       /\ of'[g].generation = of[g].generation
    <2>1. CASE PublishAllocate(f)
      BY <1>1, <2>1 DEF PublishAllocate, OpenFile
    <2>2. CASE OpenInsert(f)
      BY <1>1, <2>2 DEF OpenInsert, OpenFile
    <2>3. CASE ~PublishAllocate(f) /\ ~OpenInsert(f)
      BY Zenon, <2>3 DEF Read, WriteFails, PublishNothing, PublishBegin,
         PublishUnplaced, SendBlock, SendFails, CloseRejected
    <2> QED BY Zenon, <2>1, <2>2, <2>3
  <1>5. pc[f] # "closed"
    BY Zenon DEF Read, OpenInsert, WriteFails, PublishNothing, PublishBegin, PublishUnplaced,
       PublishAllocate, SendBlock, SendFails, CloseRejected, Ready, Sent
  <1>6. pc' = pc \/ \E r : pc' = [pc EXCEPT ![f] = r]
    BY Zenon DEF Read, OpenInsert, WriteFails, PublishNothing, PublishBegin, PublishUnplaced,
       PublishAllocate, SendBlock, SendFails, CloseRejected, Reply
  <1>7. \A g \in Fds : g # f => pc'[g] = pc[g]
    BY Zenon, <1>1, <1>6
  <1>8. \A g \in Fds : pc'[g] # "closed" => pc[g] # "closed"
    BY Zenon, <1>5, <1>7
  <1> QED BY Zenon, <1>2, <1>3, <1>4, <1>8 DEF KeepsSizes

(* The other steps of the environment. *)
LEMMA EnvironmentSizes ==
  ASSUME TypeInv,
         \/ \E m \in Mounts : Evict(m) \/ CrashMount(m)
         \/ Unlink \/ DeliverWrite \/ DeliverDelete
         \/ \E n \in Nodes : RestartStore(n) \/ NodeUp(n) \/ NodeDown(n)
  PROVE  KeepsSizes
  <1>1. UNCHANGED <<covers, published>>
    BY Zenon DEF Evict, CrashMount, Unlink, DeliverWrite, DeliverDelete, RestartStore, NodeUp,
       NodeDown, histVars
  <1>2. CASE \E m \in Mounts : CrashMount(m)
    <2>1. \A f \in Fds : \/ pc'[f] = "closed" /\ wrote'[f] = Clean
                         \/ pc'[f] = pc[f] /\ of'[f] = of[f] /\ wrote'[f] = wrote[f]
      <3>1. PICK m \in Mounts : CrashMount(m)
        BY <1>2
      <3> DEFINE gone == {f \in Fds : MountOf[f] = m}
      <3>2. /\ of' = [f \in Fds |-> IF f \in gone THEN NoFile ELSE of[f]]
            /\ pc' = [f \in Fds |-> IF f \in gone THEN "closed" ELSE pc[f]]
            /\ wrote' = [f \in Fds |-> IF f \in gone THEN Clean ELSE wrote[f]]
        BY Zenon, <3>1 DEF CrashMount
      <3> HIDE DEF gone
      <3> QED BY Zenon, <3>2
    <2>2. UNCHANGED <<inode, drops>>
      BY Zenon, <1>2 DEF CrashMount, metaVars
    <2> QED BY Zenon, <1>1, <2>1, <2>2 DEF KeepsSizes
  <1>3. CASE Unlink
    <2>1. inode'.generation = inode.generation /\ ~inode'.live
      BY <1>3 DEF Unlink, TypeInv, TypeOK, Inode
    <2>2. drops' # 0
      BY <1>3 DEF Unlink, TypeInv, TypeOK
    <2>3. UNCHANGED <<of, pc, wrote>>
      BY Zenon, <1>3 DEF Unlink, clientVars, histVars
    <2> QED BY Zenon, <1>1, <2>1, <2>2, <2>3 DEF KeepsSizes
  <1>4. CASE \/ \E m \in Mounts : Evict(m)
             \/ DeliverWrite \/ DeliverDelete
             \/ \E n \in Nodes : RestartStore(n) \/ NodeUp(n) \/ NodeDown(n)
    <2>1. UNCHANGED <<inode, drops, of, pc, wrote>>
      BY Zenon, <1>4 DEF Evict, DeliverWrite, DeliverDelete, RestartStore, NodeUp, NodeDown,
         metaVars, clientVars, histVars
    <2> QED BY Zenon, <1>1, <2>1 DEF KeepsSizes
  <1> QED BY Zenon, <1>2, <1>3, <1>4

(* Every step preserves SizeInv. *)
LEMMA StepSize == TypeInv /\ ProvInv /\ SizeInv /\ [Next]_vars => SizeInv'
  <1> SUFFICES ASSUME TypeInv, ProvInv, SizeInv, [Next]_vars PROVE SizeInv'
    OBVIOUS
  <1>1. CASE UNCHANGED vars
    <2>1. KeepsSizes
      BY Zenon, <1>1 DEF KeepsSizes, vars, metaVars, clientVars, histVars
    <2> QED BY Zenon, <2>1, KeepsSizeInv
  <1>2. ASSUME NEW f \in Fds, Request(f) \/ Serve(f) PROVE SizeInv'
    <2>1. CASE \/ Read(f) \/ OpenInsert(f) \/ WriteFails(f) \/ PublishNothing(f)
               \/ PublishBegin(f) \/ PublishUnplaced(f) \/ PublishAllocate(f)
               \/ SendBlock(f) \/ SendFails(f) \/ CloseRejected(f)
      BY Zenon, <2>1, QuietSizes, KeepsSizeInv
    <2> QED BY Zenon, <1>2, <2>1, OpenReadSize, WriteBeginSize, WriteStepSize,
               CloseAcceptedSize DEF Request, Serve
  <1>3. CASE \/ \E m \in Mounts : Evict(m) \/ CrashMount(m)
             \/ Unlink \/ DeliverWrite \/ DeliverDelete
             \/ \E n \in Nodes : RestartStore(n) \/ NodeUp(n) \/ NodeDown(n)
    BY Zenon, <1>3, EnvironmentSizes, KeepsSizeInv
  <1> QED BY Zenon, <1>1, <1>2, <1>3, TruncateSize DEF Next

(* Whatever overlaps, fails, crashes or is truncated, the size of the file is
   the end of what is published: Meta.Close never takes a size from a slot
   that does not know of bytes published since it was opened. *)
THEOREM SizeFollowsCloses == Spec => []SizeFits
  <1>1. Init => SizeInv
    <2> SUFFICES ASSUME Init PROVE SizeInv
      OBVIOUS
    <2>1. /\ published = Clean /\ inode.size = 0
          /\ \A f \in Fds : pc[f] = "closed" /\ wrote[f] = Clean
      BY Zenon DEF Init
    <2>2. \A c \in Cells : Clean[c] = 0
      BY DEF Clean
    <2>3. SizeFits
      BY <2>1, <2>2 DEF SizeFits
    <2>4. \A f \in Fds : SlotSized(f)
      BY Zenon, <2>1 DEF SlotSized
    <2>5. InCovers(published) /\ \A f \in Fds : InCovers(wrote[f])
      BY <2>1, <2>2 DEF InCovers
    <2> QED BY Zenon, <2>3, <2>4, <2>5 DEF SizeInv
  <1>2. SizeInv => SizeFits
    BY Zenon DEF SizeInv
  <1> QED BY TypeAlways, ProvAlways, <1>1, <1>2, StepSize, PTL DEF Spec
=============================================================================
