------------------------- MODULE Membership_proofs -------------------------
(***************************************************************************)
(* Proofs about Membership and Placement: for any number of stores, any    *)
(* timeout and any period of the watcher, only silence takes a store out   *)
(* of the list, a store that is in it has been heard lately, and a pick    *)
(* changes only on account of the stores that come or go; and so it stays  *)
(* with mounts at work (StorePool).                                        *)
(***************************************************************************)
EXTENDS StorePool, FiniteSetTheorems, WellFoundedInduction, TLAPS

(* How old the last heartbeat of a store that is Up can be, given where the
   watcher is: it will next compare it with the clock it has read or is about
   to read. *)
Watched ==
  \A n \in Nodes :
    status[n] = "Up" => age[n] <= DeadAfter + since + (IF watching THEN Period ELSE 0)

MemberInv == TypeOK /\ NoFalseDown /\ Watched

(* The bounds leave room for the initial values. *)
LEMMA TimesInRange ==
  0 \in 0 .. MaxAge /\ Period \in 0 .. Period /\ 0 \in 0 .. MaxFaults
  BY TimesAssumption

(* Before any store has been heard the list is empty. *)
LEMMA InitInv == MemberInit => MemberInv
<1> SUFFICES ASSUME MemberInit PROVE MemberInv
  OBVIOUS
<1>1. TypeOK
  BY Zenon, TimesInRange DEF MemberInit, TypeOK
<1>2. NoFalseDown /\ Watched
  BY DEF MemberInit, NoFalseDown, Watched
<1> QED BY <1>1, <1>2 DEF MemberInv

(* An address of one store is an address. *)
LEMMA AddrsCovered == \A n \in Nodes : AddrsOf[n] \subseteq Addrs
  BY DEF Addrs

(* Steps that leave the meta server and its watcher alone. *)
LEMMA StoreStep ==
  ASSUME MemberInv, NEW n \in Nodes,
         Connect(n) \/ SendHeartbeat(n) \/ LoseHeartbeat(n) \/ LoseLate(n)
           \/ CrashStore(n) \/ RestartStore(n)
  PROVE  MemberInv'
<1>1. UNCHANGED <<metaVars, watchVars>>
  BY DEF Connect, SendHeartbeat, LoseHeartbeat, LoseLate, CrashStore, RestartStore
<1>2. NoFalseDown' /\ Watched'
  BY <1>1 DEF MemberInv, NoFalseDown, Watched, metaVars, watchVars
<1>3. TypeOK'
  <2>1. CASE Connect(n) \/ SendHeartbeat(n) \/ LoseHeartbeat(n)
    BY Zenon, <2>1 DEF MemberInv, TypeOK, Connect, SendHeartbeat, LoseHeartbeat,
                metaVars, watchVars
  <2>2. CASE LoseLate(n)
    BY <2>2 DEF MemberInv, TypeOK, LoseLate, metaVars, watchVars
  <2>3. CASE CrashStore(n)
    BY <2>3, TimesAssumption DEF MemberInv, TypeOK, CrashStore, metaVars, watchVars
  <2>4. CASE RestartStore(n)
    BY <2>4, AddrsCovered DEF MemberInv, TypeOK, RestartStore, metaVars, watchVars
  <2> QED BY <2>1, <2>2, <2>3, <2>4
<1> QED BY <1>2, <1>3 DEF MemberInv

(* A heartbeat makes its store Up and fresh, and leaves the others alone. *)
LEMMA HeartbeatKeeps ==
  ASSUME MemberInv, NEW n \in Nodes, NEW a \in Addrs, heartbeat_node(n, a),
         UNCHANGED watchVars
  PROVE  NoFalseDown' /\ Watched'
  BY TimesAssumption
     DEF MemberInv, TypeOK, NoFalseDown, Watched, heartbeat_node, watchVars

(* A heartbeat, in time or late, makes its store young. *)
LEMMA HeartbeatStep ==
  ASSUME MemberInv, NEW n \in Nodes, Deliver(n) \/ DeliverLate(n)
  PROVE  MemberInv'
<1>1. CASE Deliver(n)
  <2>1. addr[n] \in Addrs
    BY DEF MemberInv, TypeOK
  <2>2. NoFalseDown' /\ Watched'
    BY <1>1, <2>1, HeartbeatKeeps DEF Deliver
  <2>3. TypeOK'
    BY <1>1, <2>1, TimesAssumption
       DEF MemberInv, TypeOK, Deliver, heartbeat_node, watchVars
  <2> QED BY <2>2, <2>3 DEF MemberInv
<1>2. CASE DeliverLate(n)
  <2>1. PICK a \in late[n] :
          heartbeat_node(n, a) /\ late' = [late EXCEPT ![n] = @ \ {a}]
    BY Zenon, <1>2 DEF DeliverLate
  <2>2. a \in Addrs
    BY <2>1 DEF MemberInv, TypeOK
  <2>3. NoFalseDown' /\ Watched'
    BY <1>2, <2>1, <2>2, HeartbeatKeeps DEF DeliverLate
  <2>4. TypeOK'
    BY <1>2, <2>1, <2>2, TimesAssumption
       DEF MemberInv, TypeOK, DeliverLate, heartbeat_node, watchVars
  <2> QED BY <2>3, <2>4 DEF MemberInv
<1> QED BY <1>1, <1>2

(* The watcher: what it marks has been silent longer than dead_after even at
   the moment it read the clock, what it leaves Up had been heard since. *)
LEMMA WatchStep ==
  ASSUME MemberInv, WatchTick \/ WatchMark
  PROVE  MemberInv'
<1>1. CASE WatchTick
  <2>1. TypeOK'
    BY <1>1, TimesAssumption DEF MemberInv, TypeOK, WatchTick, storeVars, metaVars
  <2>2. NoFalseDown' /\ Watched'
    BY <1>1, TimesAssumption
       DEF MemberInv, TypeOK, NoFalseDown, Watched, WatchTick, metaVars
  <2> QED BY <2>1, <2>2 DEF MemberInv
<1>2. CASE WatchMark
  <2>1. TypeOK'
    BY Zenon, <1>2, TimesAssumption DEF MemberInv, TypeOK, WatchMark, storeVars
  <2>2. NoFalseDown' /\ Watched'
    BY <1>2, TimesAssumption
       DEF MemberInv, TypeOK, NoFalseDown, Watched, WatchMark, Overdue
  <2> QED BY <2>1, <2>2 DEF MemberInv
<1> QED BY <1>1, <1>2

(* Time passes no further than the watcher allows. *)
LEMMA TickStep == MemberInv /\ Tick => MemberInv'
<1> SUFFICES ASSUME MemberInv, Tick PROVE MemberInv'
  OBVIOUS
<1>1. TypeOK'
  BY TimesAssumption DEF MemberInv, TypeOK, Tick, Older, storeVars
<1>2. NoFalseDown'
  BY TimesAssumption DEF MemberInv, TypeOK, NoFalseDown, Tick, Older
<1>3. Watched'
  BY TimesAssumption DEF MemberInv, TypeOK, Watched, Tick, Older
<1> QED BY <1>1, <1>2, <1>3 DEF MemberInv

(* A new meta server knows no store. *)
LEMMA RestartMetaStep == MemberInv /\ RestartMeta => MemberInv'
<1> SUFFICES ASSUME MemberInv, RestartMeta PROVE MemberInv'
  OBVIOUS
<1>1. faults' \in 0 .. MaxFaults
  BY TimesAssumption DEF MemberInv, TypeOK, RestartMeta
<1>2. TypeOK'
  BY Zenon, <1>1, TimesInRange DEF MemberInv, TypeOK, RestartMeta, storeVars
<1>3. NoFalseDown' /\ Watched'
  BY DEF NoFalseDown, Watched, RestartMeta
<1> QED BY <1>2, <1>3 DEF MemberInv

(* Every step keeps the invariant. *)
LEMMA StepInv == MemberInv /\ [MemberNext]_memberVars => MemberInv'
<1> SUFFICES ASSUME MemberInv, [MemberNext]_memberVars PROVE MemberInv'
  OBVIOUS
<1>1. CASE UNCHANGED memberVars
  BY <1>1 DEF MemberInv, TypeOK, NoFalseDown, Watched,
              memberVars, storeVars, metaVars, watchVars
<1>2. CASE MemberNext
  BY <1>2, StoreStep, HeartbeatStep, WatchStep, TickStep, RestartMetaStep
     DEF MemberNext
<1> QED BY <1>1, <1>2

(* The watcher's position bounds the age of every store that is Up. *)
LEMMA InvImplies == MemberInv => NoFalseDown /\ RingFresh
  BY TimesAssumption DEF MemberInv, TypeOK, Watched, RingFresh

(* Only silence for longer than dead_after takes a store out of the list of
   heartbeat_node, whatever the number of stores, the timeout and the period
   of spawn_heartbeat_watcher, and however their steps interleave. *)
THEOREM OnlySilenceTakesOut == MemberSpec => []NoFalseDown
  BY InitInv, StepInv, InvImplies, PTL DEF MemberSpec

(* A store that allocate_blocks may pick or list_nodes names has been heard
   within dead_after and two periods of the watcher. *)
THEOREM ListIsFresh == MemberSpec => []RingFresh
  BY InitInv, StepInv, InvImplies, PTL DEF MemberSpec

-----------------------------------------------------------------------------
(* Any set of stores is finite, and so counts. *)
LEMMA CountsStores ==
  ASSUME NEW S \in SUBSET Names, NEW T \in SUBSET S
  PROVE  /\ Cardinality(S) \in Nat /\ Cardinality(T) \in Nat
         /\ Cardinality(T) <= Cardinality(S)
<1>1. IsFiniteSet(S) /\ IsFiniteSet(T)
  BY FS_Subset, NamesAssumption
<1> QED BY <1>1, FS_Subset, FS_CardinalityType

(* The order in which a block's scores, and where they are equal the places in
   the HashMap, put the stores is strict and total. *)
LEMMA BeatsOrders ==
  ASSUME NEW b \in Blocks, NEW o \in Orders,
         NEW m \in Names, NEW n \in Names, NEW x \in Names
  PROVE  /\ ~Beats(m, m, b, o)
         /\ m # n => Beats(m, n, b, o) \/ Beats(n, m, b, o)
         /\ Beats(m, n, b, o) /\ Beats(n, x, b, o) => Beats(m, x, b, o)
<1>1. \A k \in Names : Score(k, b) \in Nat /\ o[k] \in Nat
  BY HashAssumption, OrdersAssumption DEF Score
<1>2. m # n => o[m] # o[n]
  BY OrdersAssumption
<1> QED BY <1>1, <1>2 DEF Beats

(* Where the scores differ, the place in the HashMap does not matter. *)
LEMMA OrderIrrelevant ==
  ASSUME NEW b \in Blocks, ~Tied(b), NEW o \in Orders, NEW p \in Orders,
         NEW S \in SUBSET Names
  PROVE  Picked(b, S, o) = Picked(b, S, p)
<1>1. \A m, n \in Names : Beats(m, n, b, o) <=> Beats(m, n, b, p)
  <2> SUFFICES ASSUME NEW m \in Names, NEW n \in Names
               PROVE  Beats(m, n, b, o) <=> Beats(m, n, b, p)
    OBVIOUS
  <2>1. CASE m = n
    BY <2>1, BeatsOrders
  <2>2. CASE m # n
    <3>1. Score(m, b) # Score(n, b)
      BY <2>2, HashAssumption DEF Score
    <3> QED BY <3>1 DEF Beats
  <2> QED BY <2>1, <2>2
<1>2. \A n \in S : Better(n, b, S, o) = Better(n, b, S, p)
  BY <1>1 DEF Better
<1> QED BY <1>2 DEF Picked

(* With fewer stores to compete with, a store that was picked is picked. *)
LEMMA SurvivorsStay ==
  ASSUME NEW b \in Blocks, NEW o \in Orders,
         NEW T \in SUBSET Names, NEW S \in SUBSET T
  PROVE  Picked(b, T, o) \cap S \subseteq Picked(b, S, o)
<1> SUFFICES ASSUME NEW n \in S, n \in Picked(b, T, o)
             PROVE  n \in Picked(b, S, o)
  OBVIOUS
<1>1. Better(n, b, S, o) \subseteq Better(n, b, T, o)
  BY DEF Better
<1>2. Better(n, b, T, o) \in SUBSET Names
  BY DEF Better
<1>3. /\ Cardinality(Better(n, b, S, o)) <= Cardinality(Better(n, b, T, o))
      /\ Cardinality(Better(n, b, S, o)) \in Nat
      /\ Cardinality(Better(n, b, T, o)) \in Nat
  BY <1>1, <1>2, CountsStores
<1>4. Cardinality(Better(n, b, T, o)) < ReplicationFactor
  BY DEF Picked
<1> QED BY <1>3, <1>4, ReplicationAssumption DEF Picked

(* A set of stores that is not empty has a best one. *)
LEMMA BestExists ==
  ASSUME NEW b \in Blocks, NEW o \in Orders, NEW T \in SUBSET Names,
         NEW D \in SUBSET T, D # {}
  PROVE  \E x \in D : \A y \in D : ~Beats(y, x, b, o)
<1> DEFINE B(x) == Better(x, b, T, o)
           R == StrictSubsetOrdering(Names)
           W == {B(x) : x \in D}
<1>1. IsWellFoundedOn(R, FiniteSubsetsOf(Names))
  BY FS_StrictSubsetOrderingWellFounded
<1>2. W \subseteq FiniteSubsetsOf(Names)
  <2>1. \A x \in D : B(x) \subseteq Names /\ IsFiniteSet(B(x))
    BY NamesAssumption, FS_Subset DEF Better
  <2> QED BY <2>1 DEF FiniteSubsetsOf
<1>3. W # {}
  OBVIOUS
<1>4. PICK w \in W : \A v \in W : ~(<<v, w>> \in R)
  <2> HIDE DEF W, R
  <2> QED BY <1>1, <1>2, <1>3, WFMin
<1>5. PICK x \in D : w = B(x)
  OBVIOUS
<1>6. ASSUME NEW y \in D, Beats(y, x, b, o) PROVE FALSE
  <2>1. B(y) \subseteq B(x)
    BY <1>6, BeatsOrders DEF Better
  <2>2. y \in B(x) /\ y \notin B(y)
    BY <1>6, BeatsOrders DEF Better
  <2>3. B(y) \subseteq Names /\ B(x) \subseteq Names
    BY DEF Better
  <2>4. <<B(y), B(x)>> \in R
    BY <2>1, <2>2, <2>3 DEF StrictSubsetOrdering
  <2> QED BY <2>4, <1>4, <1>5
<1> QED BY <1>6

(* Without stores that were not picked, the pick is the same. *)
LEMMA OthersDoNotMatter ==
  ASSUME NEW b \in Blocks, NEW o \in Orders,
         NEW T \in SUBSET Names, NEW S \in SUBSET T, Picked(b, T, o) \subseteq S
  PROVE  Picked(b, S, o) = Picked(b, T, o)
<1>1. Picked(b, T, o) \subseteq Picked(b, S, o)
  BY SurvivorsStay
<1>2. ASSUME NEW n \in S, n \in Picked(b, S, o), n \notin Picked(b, T, o)
      PROVE  FALSE
  <2> DEFINE D == Better(n, b, T, o) \ S
  <2>1. D # {}
    <3>1. Better(n, b, S, o) # Better(n, b, T, o)
      BY <1>2 DEF Picked
    <3> QED BY <3>1 DEF Better
  <2>2. PICK x \in D : \A y \in D : ~Beats(y, x, b, o)
    <3>1. D \in SUBSET T
      BY DEF Better
    <3> HIDE DEF D
    <3> QED BY <2>1, <3>1, BestExists
  <2>3. x \in T /\ x \notin S /\ Beats(x, n, b, o)
    BY DEF Better
  <2>4. Better(x, b, T, o) \subseteq Better(n, b, S, o)
    <3> SUFFICES ASSUME NEW y \in T, Beats(y, x, b, o)
                 PROVE  y \in S /\ Beats(y, n, b, o)
      BY DEF Better
    <3>1. Beats(y, n, b, o)
      BY <2>3, BeatsOrders
    <3>2. y \in S
      BY <3>1, <2>2 DEF Better
    <3> QED BY <3>1, <3>2
  <2>5. Better(n, b, S, o) \in SUBSET Names
    BY DEF Better
  <2>6. /\ Cardinality(Better(x, b, T, o)) <= Cardinality(Better(n, b, S, o))
        /\ Cardinality(Better(x, b, T, o)) \in Nat
        /\ Cardinality(Better(n, b, S, o)) \in Nat
    BY <2>4, <2>5, CountsStores
  <2>7. Cardinality(Better(n, b, S, o)) < ReplicationFactor
    BY <1>2 DEF Picked
  <2>8. x \in Picked(b, T, o)
    BY <2>3, <2>6, <2>7, ReplicationAssumption DEF Picked
  <2> QED BY <2>3, <2>8
<1>3. Picked(b, S, o) \subseteq S
  BY DEF Picked
<1> QED BY <1>1, <1>2, <1>3

(* The list and every later one are sets of known names. *)
LEMMA ListOfNames == live_nodes \in SUBSET Names /\ live_nodes' \in SUBSET Names
  BY TimesAssumption DEF live_nodes, Live

(* For any number of stores and any replication factor, what pick_nodes
   answers for a block whose index is not its inode number changes only on
   account of the stores that heartbeat_node brings in or the watcher takes
   out, and never with the order of the HashMap of the nodes. *)
THEOREM PicksMoveMinimally == MemberSpec => MinimalDisruption
<1> DEFINE A == Live # Live' =>
       \A b \in {c \in Blocks : ~Tied(c)} : \A o, p \in Orders :
         LET S == live_nodes
             T == live_nodes'
             before == Picked(b, S, o)
             after == Picked(b, T, p)
         IN  /\ T \subseteq S => before \cap T \subseteq after
             /\ S \subseteq T => after \cap S \subseteq before
             /\ T \subseteq S /\ before \subseteq T => after = before
<1>1. A
  <2> SUFFICES ASSUME NEW b \in Blocks, ~Tied(b), NEW o \in Orders, NEW p \in Orders
               PROVE  LET S == live_nodes
                          T == live_nodes'
                          before == Picked(b, S, o)
                          after == Picked(b, T, p)
                      IN  /\ T \subseteq S => before \cap T \subseteq after
                          /\ S \subseteq T => after \cap S \subseteq before
                          /\ T \subseteq S /\ before \subseteq T => after = before
    OBVIOUS
  <2> DEFINE S == live_nodes
             T == live_nodes'
  <2>1. S \in SUBSET Names /\ T \in SUBSET Names
    BY ListOfNames
  <2>2. Picked(b, T, p) = Picked(b, T, o)
    BY <2>1, OrderIrrelevant
  <2> HIDE DEF S, T
  <2>3. T \subseteq S => Picked(b, S, o) \cap T \subseteq Picked(b, T, o)
    BY <2>1, SurvivorsStay
  <2>4. S \subseteq T => Picked(b, T, o) \cap S \subseteq Picked(b, S, o)
    BY <2>1, SurvivorsStay
  <2>5. T \subseteq S /\ Picked(b, S, o) \subseteq T => Picked(b, T, o) = Picked(b, S, o)
    BY <2>1, OthersDoNotMatter
  <2> QED BY <2>2, <2>3, <2>4, <2>5 DEF S, T
<1> QED BY <1>1, PTL DEF MinimalDisruption, MemberSpec

-----------------------------------------------------------------------------
(* A mount's reads and publishes ask the meta server for addresses and the
   stores for blocks, and leave heartbeats, table and watcher alone: what is
   proved of MemberSpec holds with a StoreClientPool at work. *)
THEOREM MountsLeaveMembers == Spec => MemberSpec
<1>1. Init => MemberInit
  BY DEF Init
<1>2. [Next]_vars => [MemberNext]_memberVars
  <2> SUFFICES ASSUME [Next]_vars PROVE MemberNext \/ UNCHANGED memberVars
    OBVIOUS
  <2>1. CASE Cluster(MemberNext)
    BY <2>1 DEF Cluster
  <2>2. ASSUME NEW n \in Nodes, Mount(n) PROVE UNCHANGED memberVars
    BY Zenon, <2>2 DEF Mount, ReadOk, ReadNoChannel, ReadFails, WriteOk, WriteFails
  <2>3. CASE UNCHANGED vars
    BY <2>3 DEF vars
  <2> QED BY <2>1, <2>2, <2>3 DEF Next
<1> QED BY <1>1, <1>2, PTL DEF Spec, MemberSpec
=============================================================================
