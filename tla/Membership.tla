----------------------------- MODULE Membership -----------------------------
(***************************************************************************)
(* Cluster membership: the heartbeat task of each store server, the calls  *)
(* it has under way, and at the meta server heartbeat_node, the watcher    *)
(* that marks silent stores Down, and the list of stores that are Up, from *)
(* which list_nodes answers and allocate_blocks picks.                     *)
(*                                                                         *)
(* Time is discrete and kept as ages: a Tick makes every store's last      *)
(* heartbeat one unit older.  The watcher reads the clock, and only then   *)
(* asks for the write lock; heartbeats and time may come in between.       *)
(***************************************************************************)
EXTENDS Placement

CONSTANTS
  Nodes,      \* the stores that are followed; the others stay Up all along
  AddrsOf,    \* bound: the addresses each store server may advertise
  NoAddr,     \* no address
  DeadAfter,  \* heartbeat_timeout_ms, in units of time
  Period,     \* the watcher's interval, in units of time
  MaxAge,     \* bound: ages above it are not told apart
  Steady,     \* the stores whose tasks are served: fairness and liveness are theirs
  MaxFaults   \* bound: number of crashes of a store or of the meta server

Addrs == UNION {AddrsOf[n] : n \in Nodes}

ASSUME TimesAssumption ==
  /\ DeadAfter \in Nat
  /\ Period \in Nat \ {0}
  /\ MaxAge \in Nat
  /\ MaxAge > DeadAfter + 2 * Period
  /\ MaxFaults \in Nat
  /\ Nodes \subseteq Names
  /\ Steady \subseteq Nodes

VARIABLES
  proc,      \* the store process: off, connecting to the meta server, beating
  addr,      \* the address it advertises
  calling,   \* its HeartbeatNode call is under way
  late,      \* calls of its dead predecessors that may still arrive
  status,    \* NodeInfo.status, "unknown" while nodes has no entry
  known,     \* NodeInfo.addr
  age,       \* time since last_heartbeat
  since,     \* time since the watcher last read the clock
  watching,  \* the watcher has read the clock and waits for the lock
  faults     \* number of crashes so far

storeVars == <<proc, addr, calling, late>>
metaVars == <<status, known, age>>
watchVars == <<since, watching>>
memberVars == <<storeVars, metaVars, watchVars, faults>>

(* The shape of the state; what is not known has no address. *)
TypeOK ==
  /\ proc \in [Nodes -> {"off", "connecting", "beating"}]
  /\ addr \in [Nodes -> Addrs]
  /\ calling \in [Nodes -> BOOLEAN]
  /\ late \in [Nodes -> SUBSET Addrs]
  /\ status \in [Nodes -> {"unknown", "Up", "Down"}]
  /\ known \in [Nodes -> Addrs \cup {NoAddr}]
  /\ age \in [Nodes -> 0 .. MaxAge]
  /\ since \in 0 .. Period
  /\ watching \in BOOLEAN
  /\ faults \in 0 .. MaxFaults

(* Every process has just started; the first tick of the watcher's interval
   is due at once. *)
MemberInit ==
  /\ proc = [n \in Nodes |-> "connecting"]
  /\ addr \in {a \in [Nodes -> Addrs] : \A n \in Nodes : a[n] \in AddrsOf[n]}
  /\ calling = [n \in Nodes |-> FALSE]
  /\ late = [n \in Nodes |-> {}]
  /\ status = [n \in Nodes |-> "unknown"]
  /\ known = [n \in Nodes |-> NoAddr]
  /\ age = [n \in Nodes |-> 0]
  /\ since = Period
  /\ watching = FALSE
  /\ faults = 0
-----------------------------------------------------------------------------
(***************************************************************************)
(* The store's task: it connects, trying again until it succeeds, and then *)
(* sends a heartbeat on every tick of its interval.  It waits for each     *)
(* call to end, and ignores an error.                                      *)
(***************************************************************************)
Connect(n) ==
  /\ proc[n] = "connecting"
  /\ proc' = [proc EXCEPT ![n] = "beating"]
  /\ UNCHANGED <<addr, calling, late, metaVars, watchVars, faults>>

SendHeartbeat(n) ==
  /\ proc[n] = "beating" /\ ~calling[n]
  /\ calling' = [calling EXCEPT ![n] = TRUE]
  /\ UNCHANGED <<proc, addr, late, metaVars, watchVars, faults>>

LoseHeartbeat(n) ==
  /\ calling[n]
  /\ calling' = [calling EXCEPT ![n] = FALSE]
  /\ UNCHANGED <<proc, addr, late, metaVars, watchVars, faults>>

(* Mutation of heartbeat_node: an entry that is there is left as it is. *)
HeartbeatOrInsert(n, a) ==
  /\ status' = [status EXCEPT ![n] = IF @ = "unknown" THEN "Up" ELSE @]
  /\ known' = [known EXCEPT ![n] = IF @ = NoAddr THEN a ELSE @]
  /\ age' = [age EXCEPT ![n] = 0]

(* Meta.HeartbeatNode of store n at address a. *)
heartbeat_node(n, a) ==
  /\ status' = [status EXCEPT ![n] = "Up"]
  /\ known' = [known EXCEPT ![n] = a]
  /\ age' = [age EXCEPT ![n] = 0]

Deliver(n) ==
  /\ calling[n]
  /\ heartbeat_node(n, addr[n])
  /\ calling' = [calling EXCEPT ![n] = FALSE]
  /\ UNCHANGED <<proc, addr, late, watchVars, faults>>

(* The call of a process that has died since arrives, or is lost. *)
DeliverLate(n) ==
  /\ \E a \in late[n] : heartbeat_node(n, a) /\ late' = [late EXCEPT ![n] = @ \ {a}]
  /\ UNCHANGED <<proc, addr, calling, watchVars, faults>>

LoseLate(n) ==
  /\ \E a \in late[n] : late' = [late EXCEPT ![n] = @ \ {a}]
  /\ UNCHANGED <<proc, addr, calling, metaVars, watchVars, faults>>
-----------------------------------------------------------------------------
(* spawn_heartbeat_watcher: the clock is read when the interval ticks... *)
WatchTick ==
  /\ ~watching /\ since = Period
  /\ since' = 0
  /\ watching' = TRUE
  /\ UNCHANGED <<storeVars, metaVars, faults>>

(* Mutation of Overdue: one unit early. *)
OverdueEarly(n) == age[n] - since >= DeadAfter

(* Mutation of Overdue: one unit late. *)
OverdueLate(n) == age[n] - since > DeadAfter + 1

(* Mutation of Overdue: the operands of duration_since are swapped. *)
OverdueSwapped(n) == since - age[n] > DeadAfter

(* now.duration_since(last) > dead_after, with now as it was read. *)
Overdue(n) == age[n] - since > DeadAfter

(* ... and the stores are gone through once the lock is there. *)
WatchMark ==
  /\ watching
  /\ watching' = FALSE
  /\ status' = [n \in Nodes |-> IF status[n] = "Up" /\ Overdue(n)
                                THEN "Down" ELSE status[n]]
  /\ UNCHANGED <<storeVars, known, age, since, faults>>

Older(a) == IF a < MaxAge THEN a + 1 ELSE a

(* Time passes.  The watcher is never a whole period behind: its tick is on
   time, and it has the lock before the next one. *)
Tick ==
  /\ since < Period
  /\ since' = since + 1
  /\ age' = [n \in Nodes |-> Older(age[n])]
  /\ UNCHANGED <<storeVars, status, known, watching, faults>>
-----------------------------------------------------------------------------
(* A store server dies; a heartbeat it has sent may still arrive. *)
CrashStore(n) ==
  /\ proc[n] # "off"
  /\ faults < MaxFaults
  /\ faults' = faults + 1
  /\ proc' = [proc EXCEPT ![n] = "off"]
  /\ late' = [late EXCEPT ![n] = IF calling[n] THEN @ \cup {addr[n]} ELSE @]
  /\ calling' = [calling EXCEPT ![n] = FALSE]
  /\ UNCHANGED <<addr, metaVars, watchVars>>

(* It comes back, perhaps at another address. *)
RestartStore(n) ==
  /\ proc[n] = "off"
  /\ proc' = [proc EXCEPT ![n] = "connecting"]
  /\ \E a \in AddrsOf[n] : addr' = [addr EXCEPT ![n] = a]
  /\ UNCHANGED <<calling, late, metaVars, watchVars, faults>>

(* The meta server comes back with an empty MetaState; the stores' channels
   reconnect by themselves. *)
RestartMeta ==
  /\ faults < MaxFaults
  /\ faults' = faults + 1
  /\ status' = [n \in Nodes |-> "unknown"]
  /\ known' = [n \in Nodes |-> NoAddr]
  /\ age' = [n \in Nodes |-> 0]
  /\ since' = Period
  /\ watching' = FALSE
  /\ UNCHANGED storeVars

MemberNext ==
  \/ \E n \in Nodes : \/ Connect(n) \/ SendHeartbeat(n) \/ LoseHeartbeat(n)
                      \/ Deliver(n) \/ DeliverLate(n) \/ LoseLate(n)
                      \/ CrashStore(n) \/ RestartStore(n)
  \/ WatchTick \/ WatchMark \/ Tick \/ RestartMeta

MemberSpec == MemberInit /\ [][MemberNext]_memberVars
-----------------------------------------------------------------------------
Live == {n \in Nodes : status[n] = "Up"}

(* MetaState::live_nodes, from which allocate_blocks picks. *)
live_nodes == Live \cup (Names \ Nodes)

(* Only silence takes a store out: one that is Down has not been heard for
   longer than dead_after, however the watcher's reading of the clock, its
   wait for the lock and heartbeat_node interleave. *)
NoFalseDown == \A n \in Nodes : status[n] = "Down" => age[n] > DeadAfter

(* A store that is Up, and so may be picked for new blocks, has been heard
   within dead_after and two periods of the watcher. *)
RingFresh == \A n \in Nodes : status[n] = "Up" => age[n] <= DeadAfter + 2 * Period

(* What pick_nodes answers for a block changes only on account of the stores
   that come or go: the picked stores that stay Up stay picked when others
   leave, only newcomers displace them, and the pick does not change while all
   of it stays.  The order of the HashMap has no say in it; blocks whose index
   is their inode number are the exception, since their scores are all 0. *)
MinimalDisruption ==
  [][Live # Live' =>
       \A b \in {c \in Blocks : ~Tied(c)} : \A o, p \in Orders :
         LET S == live_nodes
             T == live_nodes'
             before == Picked(b, S, o)
             after == Picked(b, T, p)
         IN  /\ T \subseteq S => before \cap T \subseteq after
             /\ S \subseteq T => after \cap S \subseteq before
             /\ T \subseteq S /\ before \subseteq T => after = before]_memberVars

(* A store that stays silent leaves the list for good, late heartbeats of its
   dead process notwithstanding (spawn_heartbeat_watcher). *)
SilentStoreLeaves ==
  \A n \in Steady : <>[](proc[n] = "off") => <>[](n \notin Live)

(* A store that stays on is back in the list again and again, and in the end
   only at the address it has now (spawn_heartbeat and heartbeat_node). *)
RunningStoreReturns ==
  \A n \in Steady :
    <>[](proc[n] # "off") => /\ []<>(n \in Live)
                             /\ <>[](n \in Live => known[n] = addr[n])
=============================================================================
