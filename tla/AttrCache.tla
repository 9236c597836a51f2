----------------------------- MODULE AttrCache -----------------------------
(***************************************************************************)
(* The attribute caches of several mounts and one inode at the meta        *)
(* server.  An Attr is known by its version: the number of changes the     *)
(* inode had seen.  lookup, getattr, setattr and create file the Attr they *)
(* are answered with; open, publish and unlink leave the cache alone.      *)
(*                                                                         *)
(* A mount serves one FUSE request at a time.  Its call is executed at the *)
(* meta server in one step and answered in a later one; time passes, and   *)
(* other mounts change the inode, in between.                              *)
(***************************************************************************)
EXTENDS Integers

CONSTANTS
  Mounts,      \* the mounts
  Ttl,         \* attr_cache_ttl_ms, in units of time
  MaxFlight,   \* bound: the time an answer is under way
  MaxVersion   \* bound: the number of changes

ASSUME TtlAssumption == Ttl \in Nat \ {0} /\ MaxFlight \in Nat /\ MaxVersion \in Nat

None == 0      \* no inode yet, no entry, or no answer: versions start at 1
Versions == 1 .. MaxVersion
MaxAge == Ttl + MaxFlight  \* ages above it are not told apart

(* The calls whose answer goes to the cache and to the kernel. *)
Filed == {"lookup", "getattr", "setattr", "create"}

VARIABLES
  version,  \* the inode's version at the meta server
  gone,     \* it has been unlinked
  since,    \* for each version, the time since it was superseded
  cached,   \* attr_cache of each mount: the version, None if there is no entry
  age,      \* the age of that entry
  call,     \* the call each mount waits for, "none" between two requests
  answer,   \* the version it is answered with, None for an error
  flight,   \* the time the answer has been under way
  shown     \* the version last shown to the mount's kernel

metaVars == <<version, gone, since>>
cacheVars == <<cached, age>>
callVars == <<call, answer, flight>>
vars == <<metaVars, cacheVars, callVars, shown>>

(* The shape of the state. *)
TypeOK ==
  /\ version \in 0 .. MaxVersion
  /\ gone \in BOOLEAN
  /\ since \in [Versions -> 0 .. MaxAge]
  /\ cached \in [Mounts -> 0 .. MaxVersion]
  /\ age \in [Mounts -> 0 .. Ttl]
  /\ call \in [Mounts -> Filed \cup {"open", "publish", "unlink", "none"}]
  /\ answer \in [Mounts -> 0 .. MaxVersion]
  /\ flight \in [Mounts -> 0 .. MaxFlight]
  /\ shown \in [Mounts -> 0 .. MaxVersion]

Init ==
  /\ version = None /\ gone = FALSE
  /\ since = [v \in Versions |-> 0]
  /\ cached = [m \in Mounts |-> None]
  /\ age = [m \in Mounts |-> 0]
  /\ call = [m \in Mounts |-> "none"]
  /\ answer = [m \in Mounts |-> None]
  /\ flight = [m \in Mounts |-> 0]
  /\ shown = [m \in Mounts |-> None]
-----------------------------------------------------------------------------
Live == version # None /\ ~gone

(* The meta server has executed m's call and answers with version v. *)
Called(m, name, v) ==
  /\ call[m] = "none"
  /\ call' = [call EXCEPT ![m] = name]
  /\ answer' = [answer EXCEPT ![m] = v]
  /\ flight' = [flight EXCEPT ![m] = 0]
  /\ UNCHANGED <<cacheVars, shown>>

(* Meta.Lookup, Meta.GetAttr and Meta.Open: the Attr as it is, or NotFound. *)
Reads(m, name) ==
  /\ Called(m, name, IF Live THEN version ELSE None)
  /\ UNCHANGED metaVars

(* Meta.SetAttr, a Meta.Close that publishes and Meta.Create give the inode a
   new Attr, and answer with it. *)
Changes(m, name) ==
  /\ version < MaxVersion
  /\ version' = version + 1
  /\ Called(m, name, version + 1)
  /\ UNCHANGED <<gone, since>>

Fails(m, name) == Called(m, name, None) /\ UNCHANGED metaVars

lookup(m) == Reads(m, "lookup")

open(m) == Reads(m, "open")

create(m) == version = None /\ Changes(m, "create")

setattr(m) == (Live /\ Changes(m, "setattr")) \/ (~Live /\ Fails(m, "setattr"))

publish(m) == (Live /\ Changes(m, "publish")) \/ (~Live /\ Fails(m, "publish"))

(* unlink and rmdir: the entry in the cache stays. *)
unlink(m) ==
  /\ Live
  /\ gone' = TRUE
  /\ Called(m, "unlink", None)
  /\ UNCHANGED <<version, since>>

(* Mutation of Fresh: an entry lives one unit longer. *)
FreshTooLong(m) == cached[m] # None /\ age[m] <= Ttl

(* The cache answers: the entry is younger than its time to live. *)
Fresh(m) == cached[m] # None /\ age[m] < Ttl

GetattrHit(m) ==
  /\ call[m] = "none" /\ Fresh(m)
  /\ shown' = [shown EXCEPT ![m] = cached[m]]
  /\ UNCHANGED <<metaVars, cacheVars, callVars>>

GetattrMiss(m) == ~Fresh(m) /\ Reads(m, "getattr")

(* Mutation of Files: setattr does not file its answer. *)
FilesReads(m) == call[m] \in Filed \ {"setattr"} /\ answer[m] # None

(* The handler files the Attr it has been answered with. *)
Files(m) == call[m] \in Filed /\ answer[m] # None

Return(m) ==
  /\ call[m] # "none"
  /\ call' = [call EXCEPT ![m] = "none"]
  /\ answer' = [answer EXCEPT ![m] = None]
  /\ cached' = IF Files(m) THEN [cached EXCEPT ![m] = answer[m]] ELSE cached
  /\ age' = IF Files(m) THEN [age EXCEPT ![m] = 0] ELSE age
  /\ shown' = IF call[m] \in Filed /\ answer[m] # None
              THEN [shown EXCEPT ![m] = answer[m]] ELSE shown
  /\ UNCHANGED <<metaVars, flight>>

(* Mutation of Ages: time_to_idle, and the entry is in use. *)
AgesIdle(m) == IF shown[m] = cached[m] THEN age[m] ELSE Ttl

Ages(m) == IF age[m] < Ttl THEN age[m] + 1 ELSE Ttl

Superseded(v) == v < version \/ (v = version /\ gone)

(* Time passes; no answer is under way for longer than MaxFlight. *)
Tick ==
  /\ \A m \in Mounts : call[m] # "none" => flight[m] < MaxFlight
  /\ since' = [v \in Versions |->
                 IF Superseded(v) /\ since[v] < MaxAge THEN since[v] + 1 ELSE since[v]]
  /\ age' = [m \in Mounts |-> Ages(m)]
  /\ flight' = [m \in Mounts |-> IF call[m] # "none" THEN flight[m] + 1 ELSE 0]
  /\ UNCHANGED <<version, gone, cached, call, answer, shown>>

(* moka makes room. *)
Evict(m) ==
  /\ cached[m] # None
  /\ cached' = [cached EXCEPT ![m] = None]
  /\ UNCHANGED <<metaVars, age, callVars, shown>>

Next ==
  \/ \E m \in Mounts :
       \/ lookup(m) \/ open(m) \/ create(m) \/ setattr(m) \/ publish(m)
       \/ unlink(m) \/ GetattrHit(m) \/ GetattrMiss(m) \/ Return(m) \/ Evict(m)
  \/ Tick

Spec == Init /\ [][Next]_vars

(* Time goes on, and every call is answered. *)
FairSpec == Spec /\ WF_vars(Tick) /\ \A m \in Mounts : WF_vars(Return(m))
-----------------------------------------------------------------------------
(* What getattr shows from the cache was superseded, or the inode unlinked,
   less than the time to live and the time of one answer ago. *)
StaleBounded ==
  \A m \in Mounts : Fresh(m) => since[cached[m]] < Ttl + MaxFlight

(* The attributes a mount's kernel is shown never go back to an older version:
   not from what lookup, setattr or create answered to what getattr finds in
   the cache, whatever other mounts do and when the entry expires. *)
StatMonotone == [][\A m \in Mounts : shown'[m] >= shown[m]]_vars

(* Once the changes have stopped, no cache shows an old Attr any more. *)
CachesSettle ==
  <>[](\A m \in Mounts : Fresh(m) => cached[m] = version /\ ~gone)
=============================================================================
