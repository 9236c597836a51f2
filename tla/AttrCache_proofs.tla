-------------------------- MODULE AttrCache_proofs --------------------------
(***************************************************************************)
(* Proofs about AttrCache: for any number of mounts, any time to live and  *)
(* any delay of an answer, what getattr shows is stale for a bounded time  *)
(* and never goes back.                                                    *)
(***************************************************************************)
EXTENDS AttrCache, TLAPS

(* Versions are handed out in order, and a version ages only once it has been
   superseded. *)
Ordered ==
  /\ gone => version # None
  /\ \A v \in Versions : ~Superseded(v) => since[v] = 0
  /\ \A m \in Mounts : /\ cached[m] <= version
                       /\ answer[m] <= version
                       /\ shown[m] <= version

(* An answer was current when it was given, and an entry when its answer was:
   neither is older than the time it has been under way or filed. *)
Recent ==
  /\ \A m \in Mounts : answer[m] # None => /\ call[m] # "none"
                                          /\ since[answer[m]] <= flight[m]
  /\ \A m \in Mounts : Fresh(m) => since[cached[m]] <= age[m] + MaxFlight

(* What a mount has shown is no newer than what it will show next. *)
Forward ==
  /\ \A m \in Mounts : cached[m] # None => shown[m] <= cached[m]
  /\ \A m \in Mounts : call[m] \in Filed /\ answer[m] # None => shown[m] <= answer[m]

AttrInv == TypeOK /\ Ordered /\ Recent /\ Forward

(* Before any call nothing is cached. *)
LEMMA InitInv == Init => AttrInv
<1> SUFFICES ASSUME Init PROVE AttrInv
  OBVIOUS
<1>1. /\ 0 \in 0 .. MaxVersion /\ 0 \in 0 .. MaxAge
      /\ 0 \in 0 .. Ttl /\ 0 \in 0 .. MaxFlight
  BY TtlAssumption DEF MaxAge
<1>2. TypeOK
  BY Zenon, <1>1 DEF Init, TypeOK, None
<1>3. Ordered /\ Recent /\ Forward
  BY DEF Init, Ordered, Recent, Forward, Fresh, None, Versions
<1> QED BY <1>2, <1>3 DEF AttrInv

(* A call that leaves the inode as it is. *)
LEMMA ReadsStep ==
  ASSUME AttrInv, NEW m \in Mounts,
         NEW name \in Filed \cup {"open", "publish", "unlink"},
         NEW v, v = None \/ (Live /\ v = version), Called(m, name, v),
         UNCHANGED metaVars
  PROVE  AttrInv'
<1>1. TypeOK'
  BY TtlAssumption DEF AttrInv, TypeOK, Called, None, Live, metaVars, cacheVars
<1>2. Ordered'
  BY DEF AttrInv, TypeOK, Ordered, Called, None, Live, Superseded, metaVars, cacheVars
<1>3. Recent'
  BY SMTT(30), TtlAssumption
     DEF AttrInv, TypeOK, Ordered, Recent, Called, None, Live, Superseded, Fresh,
         Versions, Filed, metaVars, cacheVars
<1>4. Forward'
  BY DEF AttrInv, TypeOK, Ordered, Forward, Called, None, metaVars, cacheVars
<1> QED BY <1>1, <1>2, <1>3, <1>4 DEF AttrInv

(* A call that gives the inode a new version. *)
LEMMA ChangesStep ==
  ASSUME AttrInv, NEW m \in Mounts,
         NEW name \in Filed \cup {"open", "publish", "unlink"},
         ~gone, Changes(m, name)
  PROVE  AttrInv'
<1>1. TypeOK'
  BY TtlAssumption DEF AttrInv, TypeOK, Changes, Called, cacheVars
<1>2. Ordered'
  BY DEF AttrInv, TypeOK, Ordered, Changes, Called, Superseded, Versions, cacheVars
<1>3. Recent'
  BY SMTT(30), TtlAssumption
     DEF AttrInv, TypeOK, Ordered, Recent, Changes, Called, None, Superseded, Fresh,
         Versions, Filed, cacheVars
<1>4. Forward'
  BY DEF AttrInv, TypeOK, Ordered, Forward, Changes, Called, None, cacheVars
<1> QED BY <1>1, <1>2, <1>3, <1>4 DEF AttrInv

(* unlink supersedes the inode's version and leaves the caches alone. *)
LEMMA UnlinkStep ==
  ASSUME AttrInv, NEW m \in Mounts, unlink(m)
  PROVE  AttrInv'
<1>1. TypeOK'
  BY TtlAssumption DEF AttrInv, TypeOK, unlink, Called, None, Filed, cacheVars
<1>2. Ordered'
  BY DEF AttrInv, TypeOK, Ordered, unlink, Live, Called, Superseded, None, cacheVars
<1>3. Recent' /\ Forward'
  BY TtlAssumption
     DEF AttrInv, TypeOK, Recent, Forward, unlink, Called, None, Fresh, cacheVars
<1> QED BY <1>1, <1>2, <1>3 DEF AttrInv

(* A hit answers with an entry that is not too old. *)
LEMMA GetattrHitStep ==
  ASSUME AttrInv, NEW m \in Mounts, GetattrHit(m)
  PROVE  AttrInv'
<1>1. call[m] = "none" /\ answer[m] = None
  BY DEF AttrInv, Recent, GetattrHit
<1>2. TypeOK' /\ Ordered'
  BY DEF AttrInv, TypeOK, Ordered, GetattrHit, Superseded,
         metaVars, cacheVars, callVars
<1>3. Recent'
  BY DEF AttrInv, Recent, GetattrHit, Fresh, metaVars, cacheVars, callVars
<1>4. Forward'
  BY <1>1 DEF AttrInv, TypeOK, Forward, GetattrHit, Filed,
              metaVars, cacheVars, callVars
<1> QED BY <1>2, <1>3, <1>4 DEF AttrInv

(* A reply files the attributes its call read, and no older ones. *)
LEMMA ReturnStep ==
  ASSUME AttrInv, NEW m \in Mounts, Return(m)
  PROVE  AttrInv'
<1>1. TypeOK'
  BY TtlAssumption DEF AttrInv, TypeOK, Return, None, metaVars
<1>2. Ordered'
  BY DEF AttrInv, TypeOK, Ordered, Return, Superseded, None, metaVars
<1>3. Recent'
  <2>1. \A n \in Mounts : answer'[n] # None => /\ call'[n] # "none"
                                               /\ since'[answer'[n]] <= flight'[n]
    BY DEF AttrInv, TypeOK, Recent, Return, None, metaVars
  <2>2. CASE Files(m)
    <3>1. since[answer[m]] <= MaxFlight
      <4>1. answer[m] \in Versions /\ since[answer[m]] <= flight[m]
        BY <2>2 DEF AttrInv, TypeOK, Recent, Files, None, Versions
      <4>2. since[answer[m]] \in Nat /\ flight[m] \in Nat /\ flight[m] <= MaxFlight
        BY <4>1, TtlAssumption DEF AttrInv, TypeOK, MaxAge
      <4> QED BY <4>1, <4>2, TtlAssumption
    <3> QED BY <2>1, <2>2, <3>1, TtlAssumption
            DEF AttrInv, TypeOK, Recent, Return, Fresh, metaVars
  <2>3. CASE ~Files(m)
    BY <2>1, <2>3 DEF AttrInv, Recent, Return, Fresh, metaVars
  <2> QED BY <2>2, <2>3
<1>4. Forward'
  BY DEF AttrInv, TypeOK, Forward, Return, Files, None, Filed, metaVars
<1> QED BY <1>1, <1>2, <1>3, <1>4 DEF AttrInv

(* moka drops an entry. *)
LEMMA EvictStep ==
  ASSUME AttrInv, NEW m \in Mounts, Evict(m)
  PROVE  AttrInv'
<1>1. TypeOK' /\ Ordered'
  BY TtlAssumption
     DEF AttrInv, TypeOK, Ordered, Evict, Superseded, None, metaVars, callVars
<1>2. Recent' /\ Forward'
  BY DEF AttrInv, TypeOK, Recent, Forward, Evict, Fresh, None, metaVars, callVars
<1> QED BY <1>1, <1>2 DEF AttrInv

(* Time passes: entries age, and those past the TTL are of no more use. *)
LEMMA TickStep == AttrInv /\ Tick => AttrInv'
<1> SUFFICES ASSUME AttrInv, Tick PROVE AttrInv'
  OBVIOUS
<1>1. TypeOK'
  BY TtlAssumption DEF AttrInv, TypeOK, Tick, Ages, MaxAge
<1>2. Ordered'
  BY DEF AttrInv, TypeOK, Ordered, Tick, Superseded
<1>3. \A v \in Versions : since'[v] <= since[v] + 1
  BY DEF AttrInv, TypeOK, Tick
<1>4. Recent'
  <2>1. ASSUME NEW m \in Mounts, answer'[m] # None
        PROVE  call'[m] # "none" /\ since'[answer'[m]] <= flight'[m]
    <3>1. /\ answer[m] \in Versions /\ answer'[m] = answer[m]
          /\ since[answer[m]] <= flight[m]
          /\ call[m] # "none" /\ call'[m] = call[m] /\ flight'[m] = flight[m] + 1
      BY <2>1 DEF AttrInv, TypeOK, Recent, Tick, None, Versions
    <3>2. since[answer[m]] \in Nat /\ since'[answer[m]] \in Nat /\ flight[m] \in Nat
      BY <1>1, <3>1, TtlAssumption DEF AttrInv, TypeOK, MaxAge
    <3> QED BY <1>3, <3>1, <3>2
  <2>2. ASSUME NEW m \in Mounts, Fresh(m)'
        PROVE  since'[cached'[m]] <= age'[m] + MaxFlight
    <3>1. /\ cached[m] \in Versions /\ cached'[m] = cached[m]
          /\ age'[m] = age[m] + 1 /\ Fresh(m)
      BY <2>2, TtlAssumption DEF AttrInv, TypeOK, Tick, Fresh, Ages, None, Versions
    <3>2. since[cached[m]] <= age[m] + MaxFlight
      BY <3>1 DEF AttrInv, Recent
    <3>3. since[cached[m]] \in Nat /\ since'[cached[m]] \in Nat /\ age[m] \in Nat
      BY <1>1, <3>1, TtlAssumption DEF AttrInv, TypeOK, MaxAge
    <3> QED BY <1>3, <3>1, <3>2, <3>3, TtlAssumption
  <2> QED BY <2>1, <2>2 DEF Recent
<1>5. Forward'
  BY DEF AttrInv, Forward, Tick
<1> QED BY <1>1, <1>2, <1>4, <1>5 DEF AttrInv

(* Every step keeps the invariant. *)
LEMMA StepInv == AttrInv /\ [Next]_vars => AttrInv'
<1> SUFFICES ASSUME AttrInv, [Next]_vars PROVE AttrInv'
  OBVIOUS
<1>1. CASE UNCHANGED vars
  BY <1>1 DEF AttrInv, TypeOK, Ordered, Recent, Forward, Superseded, Fresh,
              vars, metaVars, cacheVars, callVars
<1>2. ASSUME NEW m \in Mounts, lookup(m) \/ open(m) \/ GetattrMiss(m)
      PROVE  AttrInv'
  BY <1>2, ReadsStep DEF lookup, open, GetattrMiss, Reads, Filed
<1>3. ASSUME NEW m \in Mounts, setattr(m) \/ publish(m) PROVE AttrInv'
  BY <1>3, ReadsStep, ChangesStep DEF setattr, publish, Fails, Live, Filed
<1>4. ASSUME NEW m \in Mounts, create(m) PROVE AttrInv'
  <2>1. ~gone
    BY <1>4 DEF AttrInv, Ordered, create
  <2> QED BY <1>4, <2>1, ChangesStep DEF create, Filed
<1> QED
  BY <1>1, <1>2, <1>3, <1>4, UnlinkStep, GetattrHitStep, ReturnStep, EvictStep,
     TickStep
     DEF Next

(* What getattr shows from the cache was superseded, or its inode unlinked,
   less than attr_cache_ttl_ms and the delay of one answer ago, whatever the
   number of mounts and the times. *)
THEOREM StalenessIsBounded == Spec => []StaleBounded
<1>1. AttrInv => StaleBounded
  BY TtlAssumption
     DEF AttrInv, TypeOK, Recent, StaleBounded, Fresh, None, Versions, MaxAge
<1> QED BY <1>1, InitInv, StepInv, PTL DEF Spec

(* The attributes that lookup, getattr, setattr and create of one mount show
   its kernel never go back, whatever the number of mounts and the times. *)
THEOREM StatNeverGoesBack == Spec => StatMonotone
<1>1. AttrInv /\ [Next]_vars => [\A m \in Mounts : shown'[m] >= shown[m]]_vars
  <2> SUFFICES ASSUME AttrInv, Next
               PROVE  \A m \in Mounts : shown'[m] >= shown[m]
    OBVIOUS
  <2>1. \A m \in Mounts : shown[m] \in Nat
    BY DEF AttrInv, TypeOK
  <2>2. CASE UNCHANGED shown
    BY <2>1, <2>2
  <2>3. ASSUME NEW n \in Mounts, GetattrHit(n)
        PROVE  \A m \in Mounts : shown'[m] >= shown[m]
    BY <2>1, <2>3 DEF AttrInv, TypeOK, Forward, GetattrHit, Fresh
  <2>4. ASSUME NEW n \in Mounts, Return(n)
        PROVE  \A m \in Mounts : shown'[m] >= shown[m]
    BY <2>1, <2>4 DEF AttrInv, TypeOK, Forward, Return
  <2> QED
    BY <2>2, <2>3, <2>4
       DEF Next, lookup, open, create, setattr, publish, unlink, GetattrMiss, Evict,
           Tick, Reads, Changes, Fails, Called
<1> QED BY <1>1, InitInv, StepInv, PTL DEF Spec, StatMonotone
=============================================================================
