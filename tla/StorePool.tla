------------------------------ MODULE StorePool ------------------------------
(***************************************************************************)
(* The cluster as a mount sees it: Membership together with the mount's    *)
(* StoreClientPool, its map of store addresses and its open channels, as   *)
(* fetch_block and publish use them.                                       *)
(*                                                                         *)
(* A channel is the address it was opened for: it reconnects there by      *)
(* itself, and nowhere else.  One attempt at one store is one step; that   *)
(* the store dies between two parts of an attempt is one of its outcomes.  *)
(***************************************************************************)
EXTENDS Membership

VARIABLES
  addrs,   \* StoreClientPool.addrs, NoAddr for a store that is not in it
  clients  \* StoreClientPool.clients

poolVars == <<addrs, clients>>
vars == <<memberVars, poolVars>>

NoneKnown == [n \in Nodes |-> NoAddr]

Init == MemberInit /\ addrs = NoneKnown /\ clients = NoneKnown

(* Meta.ListNodes: the stores that are Up, with their addresses. *)
list_nodes == [n \in Nodes |-> IF n \in Live THEN known[n] ELSE NoAddr]

(* The process of store n answers at address a. *)
Answers(n, a) == proc[n] # "off" /\ addr[n] = a

(* StoreClientPool::get with address map m: the open channel, or one opened
   to the address in m; NoAddr when there is none or nothing answers there. *)
get(n, m) ==
  IF clients[n] # NoAddr THEN clients[n]
  ELSE IF m[n] # NoAddr /\ Answers(n, m[n]) THEN m[n] ELSE NoAddr

(* fetch_block asks for the addresses only while it has none at all, and goes
   on without when the call fails. *)
lazy_refresh == IF addrs = NoneKnown THEN {list_nodes, addrs} ELSE {addrs}

(* fetch_block tries store n: the block is read, or there is no channel. *)
ReadOk(n) ==
  /\ \E m \in lazy_refresh :
       /\ Answers(n, get(n, m))
       /\ addrs' = m
       /\ clients' = [clients EXCEPT ![n] = get(n, m)]
  /\ UNCHANGED memberVars

ReadNoChannel(n) ==
  /\ clients[n] = NoAddr
  /\ addrs' \in lazy_refresh
  /\ UNCHANGED <<memberVars, clients>>

(* Mutation of ReadFails: the channel stays in the pool. *)
ReadFailsKeeps(n) ==
  /\ \E m \in lazy_refresh :
       /\ get(n, m) # NoAddr
       /\ addrs' = m
       /\ clients' = [clients EXCEPT ![n] = get(n, m)]
  /\ UNCHANGED memberVars

(* The call on the channel fails: the channel is evicted. *)
ReadFails(n) ==
  /\ \E m \in lazy_refresh :
       /\ get(n, m) # NoAddr
       /\ addrs' = m
       /\ clients' = [clients EXCEPT ![n] = NoAddr]
  /\ UNCHANGED memberVars

(* Mutation of publish_refresh: as a read does it. *)
RefreshIfEmpty == IF addrs = NoneKnown THEN list_nodes ELSE addrs

(* publish asks for the addresses every time, and fails without them. *)
publish_refresh == list_nodes

(* publish writes a block to store n. *)
WriteOk(n) ==
  /\ Answers(n, get(n, publish_refresh))
  /\ addrs' = publish_refresh
  /\ clients' = [clients EXCEPT ![n] = get(n, publish_refresh)]
  /\ UNCHANGED memberVars

(* write_one fails, with no channel or on the channel, which it keeps. *)
WriteFails(n) ==
  /\ addrs' = publish_refresh
  /\ clients' \in {clients, [clients EXCEPT ![n] = get(n, publish_refresh)]}
  /\ UNCHANGED memberVars

Mount(n) == \/ ReadOk(n) \/ ReadNoChannel(n) \/ ReadFails(n)
            \/ WriteOk(n) \/ WriteFails(n)

(* A step of the cluster, none of the mount's. *)
Cluster(A) == A /\ UNCHANGED poolVars

Next == Cluster(MemberNext) \/ \E n \in Nodes : Mount(n)

Spec == Init /\ [][Next]_vars

(* The tasks run: time goes on, the watcher and the stores' loops are polled,
   and a heartbeat that is sent again and again gets through in the end.  The
   applications on the mount keep reading and writing blocks of every store,
   and a write that can succeed again and again does so in the end. *)
FairSpec ==
  /\ Spec
  /\ WF_vars(Cluster(Tick))
  /\ WF_vars(Cluster(WatchTick \/ WatchMark))
  /\ \A n \in Steady : /\ WF_vars(Cluster(Connect(n) \/ SendHeartbeat(n)))
                      /\ SF_vars(Cluster(Deliver(n)))
                      /\ WF_vars(ReadOk(n) \/ ReadFails(n))
                      /\ SF_vars(WriteOk(n))
-----------------------------------------------------------------------------
(* A mount that keeps reading and publishing reaches every store that stays
   on, wherever it came back: eviction on a failed read and the refresh on
   every publish between them replace each channel and address that is out
   of date. *)
MountRecovers ==
  \A n \in Steady : <>[](proc[n] # "off") => []<>(clients[n] = addr[n])
=============================================================================
