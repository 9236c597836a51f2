--------------------------- MODULE ReadDir_proofs ---------------------------
(***************************************************************************)
(* The listing of a directory, for every directory, page size and reply    *)
(* size and every interleaving with requests that change the tree: it      *)
(* gives every entry that was there all along while nothing is removed,    *)
(* and no entry twice while nothing is added.  An offset of the kernel is  *)
(* a number of entries, so the argument is about the places of names among *)
(* those a call goes through.                                              *)
(***************************************************************************)
EXTENDS ReadDir, Namespace_proofs
-----------------------------------------------------------------------------
(* The place of a name is a number, and no place is beyond the last. *)
LEMMA RankType ==
  ASSUME NEW S \in SUBSET Nat, IsFiniteSet(S), NEW n \in Nat
  PROVE  /\ IsFiniteSet({m \in S : m <= n})
         /\ Rank(S, n) \in Nat /\ Cardinality(S) \in Nat
         /\ Rank(S, n) <= Cardinality(S)
  <1> DEFINE U == {m \in S : m <= n}
  <1>1. U \in SUBSET S
    OBVIOUS
  <1> HIDE DEF U
  <1>2. IsFiniteSet(U) /\ Cardinality(U) <= Cardinality(S)
    BY Zenon, <1>1, FS_Subset
  <1>3. Cardinality(U) \in Nat /\ Cardinality(S) \in Nat
    BY <1>2, FS_CardinalityType
  <1> QED
    BY <1>2, <1>3 DEF Rank, U

(* More names around it, or a later name: a later place. *)
LEMMA RankGrows ==
  ASSUME NEW S \in SUBSET Nat, NEW T \in SUBSET Nat, S \subseteq T, IsFiniteSet(T),
         NEW m \in Nat, NEW n \in Nat, m <= n
  PROVE  Rank(S, m) <= Rank(T, n)
  <1> DEFINE U == {k \in S : k <= m}
             V == {k \in T : k <= n}
  <1>1. U \in SUBSET V
    <2>1. \A k \in S : k \in Nat /\ k \in T
      OBVIOUS
    <2>2. \A k \in Nat : k <= m => k <= n
      OBVIOUS
    <2> QED
      BY Zenon, <2>1, <2>2
  <1>2. IsFiniteSet(V)
    BY RankType
  <1> HIDE DEF U, V
  <1>3. Cardinality(U) <= Cardinality(V)
    BY <1>1, <1>2, FS_Subset
  <1> QED
    BY <1>3 DEF Rank, U, V

(* A name of the set has a later place than what is before it. *)
LEMMA RankOrder ==
  ASSUME NEW S \in SUBSET Nat, IsFiniteSet(S), NEW m \in Nat, NEW n \in S, m < n
  PROVE  Rank(S, m) < Rank(S, n)
  <1> DEFINE U == {k \in S : k <= m}
             V == {k \in S : k <= n}
  <1>1. U \cup {n} \in SUBSET V /\ n \notin U
    <2>1. \A k \in Nat : k <= m => k <= n
      OBVIOUS
    <2>2. n <= n /\ ~(n <= m) /\ \A k \in S : k \in Nat
      OBVIOUS
    <2> QED
      BY Zenon, <2>1, <2>2
  <1>2. IsFiniteSet(U) /\ IsFiniteSet(V) /\ Rank(S, m) \in Nat /\ Rank(S, n) \in Nat
    BY RankType
  <1>3. Rank(S, m) = Cardinality(U) /\ Rank(S, n) = Cardinality(V)
    BY DEF Rank
  <1> HIDE DEF U, V
  <1>4. Cardinality(U \cup {n}) = Cardinality(U) + 1
    BY Zenon, <1>1, <1>2, FS_AddElement
  <1>5. Cardinality(U \cup {n}) <= Cardinality(V)
    BY <1>1, <1>2, FS_Subset
  <1> QED
    BY <1>2, <1>3, <1>4, <1>5

(* An earlier place, an earlier name. *)
LEMMA RankBelow ==
  ASSUME NEW S \in SUBSET Nat, IsFiniteSet(S), NEW m \in Nat, NEW n \in Nat,
         Rank(S, m) < Rank(S, n)
  PROVE  m < n
  <1>1. n <= m => Rank(S, n) <= Rank(S, m)
    BY RankGrows
  <1>2. Rank(S, m) \in Nat /\ Rank(S, n) \in Nat
    BY Zenon, RankType
  <1> QED
    BY <1>1, <1>2

(* No two names have the same place, and every place is taken. *)
LEMMA RankHits ==
  ASSUME NEW S \in SUBSET Nat, IsFiniteSet(S)
  PROVE  /\ \A n \in S : Rank(S, n) \in 1 .. Cardinality(S)
         /\ \A m, n \in S : Rank(S, m) = Rank(S, n) => m = n
         /\ \A i \in 1 .. Cardinality(S) : \E n \in S : Rank(S, n) = i
  <1> DEFINE k == Cardinality(S)
             f == [n \in S |-> Rank(S, n)]
  <1>1. k \in Nat
    BY FS_CardinalityType
  <1>2. \A m, n \in S : Rank(S, m) = Rank(S, n) => m = n
    <2> SUFFICES ASSUME NEW m \in S, NEW n \in S, Rank(S, m) = Rank(S, n) PROVE m = n
      OBVIOUS
    <2>1. Rank(S, m) \in Nat
      BY Zenon, RankType
    <2>2. ~(m < n) /\ ~(n < m)
      BY <2>1, RankOrder
    <2> QED
      BY <2>2
  <1>3. \A n \in S : Rank(S, n) \in 1 .. k
    <2> TAKE n \in S
    <2> DEFINE V == {m \in S : m <= n}
    <2>1. n \in V /\ IsFiniteSet(V) /\ Rank(S, n) = Cardinality(V)
      BY RankType DEF Rank
    <2> HIDE DEF V
    <2>2. Cardinality(V) # 0
      BY <2>1, FS_EmptySet
    <2>3. Rank(S, n) \in Nat /\ Rank(S, n) <= k
      BY Zenon, RankType
    <2> QED
      BY <1>1, <2>1, <2>2, <2>3
  <1> HIDE DEF k
  <1>4. f \in Injection(S, 1 .. k)
    BY <1>2, <1>3 DEF Injection, IsInjective
  <1>5. IsFiniteSet(1 .. k) /\ Cardinality(1 .. k) = k
    BY <1>1, FS_Interval
  <1>6. f \in Surjection(S, 1 .. k)
    <2> HIDE DEF f
    <2>1. Cardinality(S) = Cardinality(1 .. k)
      BY <1>5 DEF k
    <2> QED
      BY <1>4, <1>5, <2>1, FS_Injection
  <1>7. \A i \in 1 .. k : \E n \in S : Rank(S, n) = i
    BY Zenon, <1>6 DEF Surjection
  <1> QED
    BY <1>2, <1>3, <1>7 DEF k
-----------------------------------------------------------------------------
Increasing(s) == \A i, j \in DOMAIN s : i < j => s[i] < s[j]

(* In a sequence in order, the place of a name is its index. *)
LEMMA RankOfSeq ==
  ASSUME NEW s \in Seq(Nat), Increasing(s)
  PROVE  /\ Range(s) \in SUBSET Nat /\ IsFiniteSet(Range(s))
         /\ Cardinality(Range(s)) = Len(s)
         /\ \A i \in 1 .. Len(s) : Rank(Range(s), s[i]) = i
  <1>1. Len(s) \in Nat /\ DOMAIN s = 1 .. Len(s) /\ \A i \in 1 .. Len(s) : s[i] \in Nat
    OBVIOUS
  <1>2. \A i, j \in 1 .. Len(s) : i < j => s[i] < s[j]
    BY <1>1 DEF Increasing
  <1>3. \A i, j \in 1 .. Len(s) : s[i] <= s[j] <=> i <= j
    BY <1>1, <1>2
  <1>4. ASSUME NEW k \in 0 .. Len(s)
        PROVE  LET U == {s[j] : j \in 1 .. k}
               IN  IsFiniteSet(U) /\ Cardinality(U) = k
    <2> DEFINE U == {s[j] : j \in 1 .. k}
               f == [j \in 1 .. k |-> s[j]]
    <2>1. f \in [1 .. k -> U] /\ \A x \in U : \E j \in 1 .. k : f[j] = x
      OBVIOUS
    <2>2. \A i, j \in 1 .. k : f[i] = f[j] => i = j
      <3>1. \A i \in 1 .. k : i \in 1 .. Len(s) /\ f[i] = s[i] /\ i \in Int /\ s[i] \in Nat
        BY <1>1
      <3> HIDE DEF f
      <3> QED
        BY <1>3, <3>1
    <2>3. IsFiniteSet(1 .. k) /\ Cardinality(1 .. k) = k
      BY <1>1, FS_Interval
    <2> HIDE DEF U, f
    <2>4. f \in Bijection(1 .. k, U)
      BY <2>1, <2>2 DEF Bijection, Injection, Surjection, IsInjective
    <2>5. IsFiniteSet(U) /\ Cardinality(U) = k
      BY <2>3, <2>4, FS_Bijection DEF ExistsBijection
    <2> QED
      BY <2>5 DEF U
  <1>5. Range(s) = {s[j] : j \in 1 .. Len(s)}
    BY <1>1 DEF Range
  <1>6. IsFiniteSet(Range(s)) /\ Cardinality(Range(s)) = Len(s)
    <2>1. Len(s) \in 0 .. Len(s)
      BY <1>1
    <2> QED
      BY Zenon, <1>4, <1>5, <2>1
  <1>7. ASSUME NEW i \in 1 .. Len(s)
        PROVE  Rank(Range(s), s[i]) = i
    <2>1. {m \in Range(s) : m <= s[i]} = {s[j] : j \in 1 .. i}
      BY <1>1, <1>3, <1>5
    <2>2. i \in 0 .. Len(s)
      BY <1>1
    <2> QED
      BY Zenon, <1>4, <2>1, <2>2 DEF Rank
  <1> QED
    BY Zenon, <1>1, <1>5, <1>6, <1>7

(* Two sequences in order, one after the other. *)
LEMMA Joined ==
  ASSUME NEW s \in Seq(Nat), NEW t \in Seq(Nat), Increasing(s), Increasing(t),
         \A i \in DOMAIN s, j \in DOMAIN t : s[i] < t[j]
  PROVE  /\ s \o t \in Seq(Nat) /\ Increasing(s \o t)
         /\ Range(s \o t) = Range(s) \cup Range(t)
         /\ Len(s \o t) = Len(s) + Len(t)
  <1> DEFINE u == s \o t
  <1>1. /\ u \in Seq(Nat) /\ Len(u) = Len(s) + Len(t)
        /\ DOMAIN u = 1 .. Len(s) + Len(t)
        /\ \A i \in 1 .. Len(s) + Len(t) :
             u[i] = IF i <= Len(s) THEN s[i] ELSE t[i - Len(s)]
    OBVIOUS
  <1>2. /\ DOMAIN s = 1 .. Len(s) /\ DOMAIN t = 1 .. Len(t)
        /\ Len(s) \in Nat /\ Len(t) \in Nat
    OBVIOUS
  <1> HIDE DEF u
  <1>3. \A i \in DOMAIN u :
          \/ i \in DOMAIN s /\ u[i] = s[i]
          \/ i - Len(s) \in DOMAIN t /\ u[i] = t[i - Len(s)] /\ i > Len(s)
    BY <1>1, <1>2
  <1>4. \A i, j \in DOMAIN u : i < j => u[i] < u[j]
    <2> SUFFICES ASSUME NEW i \in DOMAIN u, NEW j \in DOMAIN u, i < j
                 PROVE  u[i] < u[j]
      OBVIOUS
    <2>1. i \in Int /\ j \in Int
      BY <1>1, <1>2
    <2>2. CASE j <= Len(s)
      <3>1. i \in DOMAIN s /\ j \in DOMAIN s
        BY <1>1, <1>2, <2>1, <2>2
      <3>2. u[i] = s[i] /\ u[j] = s[j]
        BY <1>1, <2>1, <2>2
      <3> QED
        BY Zenon, <3>1, <3>2 DEF Increasing
    <2>3. CASE i <= Len(s) /\ j > Len(s)
      BY <1>2, <1>3, <2>1, <2>3
    <2>4. CASE i > Len(s) /\ j > Len(s)
      BY <1>2, <1>3, <2>1, <2>4 DEF Increasing
    <2> QED
      BY <1>2, <2>1, <2>2, <2>3, <2>4
  <1>5. Range(u) = Range(s) \cup Range(t)
    <2>1. \A i \in DOMAIN s : i \in DOMAIN u /\ u[i] = s[i]
      BY <1>1, <1>2
    <2>2. \A i \in DOMAIN t : i + Len(s) \in DOMAIN u /\ u[i + Len(s)] = t[i]
      <3> TAKE i \in DOMAIN t
      <3> DEFINE j == i + Len(s)
      <3>1. j \in 1 .. Len(s) + Len(t) /\ ~(j <= Len(s)) /\ j - Len(s) = i
        BY <1>2
      <3> HIDE DEF j
      <3>2. j \in DOMAIN u /\ u[j] = t[i]
        BY <1>1, <3>1
      <3> QED
        BY <3>2 DEF j
    <2> QED
      BY <1>3, <2>1, <2>2 DEF Range
  <1> QED
    BY <1>1, <1>4, <1>5 DEF Increasing, u
-----------------------------------------------------------------------------
(* The names in the directory that is listed are numbers, finitely many. *)
HereFinite ==
  EntriesOf(dir) \in SUBSET Nat /\ IsFiniteSet(EntriesOf(dir)) /\ 0 \notin EntriesOf(dir)

(* They lead to different inodes. *)
LEMMA NamesFinite == NameInv => HereFinite
  <1> SUFFICES ASSUME NameInv PROVE HereFinite
    OBVIOUS
  <1>1. CASE dir \notin DOMAIN dirs
    BY <1>1, FS_EmptySet DEF HereFinite, EntriesOf
  <1>2. CASE dir \in DOMAIN dirs
    <2> DEFINE S == DOMAIN dirs[dir]
               f == dirs[dir]
    <2>1. S \subseteq Names /\ f \in [S -> Inos]
      BY <1>2 DEF NameInv, TypeOK
    <2>2. \A n, m \in S : f[n] = f[m] => n = m
      BY <1>2 DEF NameInv, OneName
    <2> HIDE DEF f
    <2>3. f \in Injection(S, Inos)
      <3> HIDE DEF S
      <3> QED
        BY <2>1, <2>2 DEF Injection, IsInjective
    <2>4. IsFiniteSet(Inos)
      BY MaxInoAssumption, FS_Interval DEF Inos
    <2>5. IsFiniteSet(S)
      <3> HIDE DEF S
      <3> QED
        BY <2>3, <2>4, FS_Injection
    <2> QED
      BY Zenon, <1>2, <2>1, <2>5, ListingAssumption DEF HereFinite, EntriesOf
  <1> QED
    BY <1>1, <1>2

Rest == {n \in EntriesOf(dir) : n > cookie}

(* A page holds the next names in order; the last one holds all there are, and
   another one holds at least one. *)
LEMMA PageFacts ==
  ASSUME HereFinite, cookie \in Nat
  PROVE  /\ Page \in Seq(Nat) /\ Increasing(Page)
         /\ Rest \in SUBSET Nat /\ IsFiniteSet(Rest)
         /\ \A i \in DOMAIN Page : Page[i] \in Rest
         /\ Eof => Range(Page) = Rest
         /\ ~Eof => /\ Len(Page) \in DOMAIN Page
                    /\ \A i \in DOMAIN Page : Page[i] <= Page[Len(Page)]
                    /\ \A n \in Rest : n \in Range(Page) \/ n > Page[Len(Page)]
  <1> DEFINE S == Rest
             k == Least(Cardinality(S), MaxEntries)
             Nth(i) == CHOOSE n \in S : Rank(S, n) = i
  <1>1. S \in SUBSET EntriesOf(dir) /\ S \in SUBSET Nat
    BY DEF Rest, HereFinite
  <1>2. IsFiniteSet(S) /\ Cardinality(S) \in Nat
    BY Zenon, <1>1, FS_Subset, FS_CardinalityType DEF HereFinite
  <1>3. Page = [i \in 1 .. k |-> Nth(i)]
    BY DEF Page, Rest
  <1> HIDE DEF S
  <1>4. k \in Nat /\ k <= Cardinality(S) /\ k <= MaxEntries
        /\ (k < MaxEntries => k = Cardinality(S)) /\ MaxEntries \in Nat \ {0}
    BY <1>2, ListingAssumption DEF Least
  <1>5. /\ \A n \in S : Rank(S, n) \in 1 .. Cardinality(S)
        /\ \A m, n \in S : Rank(S, m) = Rank(S, n) => m = n
        /\ \A i \in 1 .. Cardinality(S) : \E n \in S : Rank(S, n) = i
    BY <1>1, <1>2, RankHits
  <1>6. \A i \in 1 .. Cardinality(S) : Nth(i) \in S /\ Rank(S, Nth(i)) = i
    BY <1>5
  <1> HIDE DEF k, Nth
  <1>7. /\ Page \in [1 .. k -> Nat] /\ DOMAIN Page = 1 .. k
        /\ \A i \in 1 .. k : Page[i] \in S /\ Rank(S, Page[i]) = i
    <2>1. \A i \in 1 .. k : i \in 1 .. Cardinality(S)
      BY <1>2, <1>4
    <2>2. \A i \in 1 .. k : Nth(i) \in S /\ Rank(S, Nth(i)) = i /\ Nth(i) \in Nat
      BY Zenon, <1>1, <1>6, <2>1
    <2> QED
      BY Zenon, <1>3, <2>2
  <1>8. Page \in Seq(Nat) /\ Len(Page) = k
    BY <1>4, <1>7
  <1>9. Increasing(Page)
    <2> SUFFICES ASSUME NEW i \in 1 .. k, NEW j \in 1 .. k, i < j
                 PROVE  Page[i] < Page[j]
      BY <1>7 DEF Increasing
    <2>1. Page[i] \in Nat /\ Page[j] \in Nat
      BY <1>7
    <2>2. Rank(S, Page[i]) < Rank(S, Page[j])
      BY <1>7
    <2> QED
      BY <1>1, <1>2, <2>1, <2>2, RankBelow
  <1>10. \A n \in S : Rank(S, n) <= k => n \in Range(Page)
    <2> SUFFICES ASSUME NEW n \in S, Rank(S, n) <= k PROVE n \in Range(Page)
      OBVIOUS
    <2>1. Rank(S, n) \in 1 .. k
      BY <1>2, <1>4, <1>5
    <2>2. Page[Rank(S, n)] = n
      BY <1>5, <1>7, <2>1
    <2> QED
      BY <1>7, <2>1, <2>2 DEF Range
  <1>11. Eof => Range(Page) = S
    <2> SUFFICES ASSUME k = Cardinality(S) PROVE Range(Page) = S
      BY <1>4, <1>8 DEF Eof
    <2>1. \A n \in S : Rank(S, n) <= k
      BY <1>2, <1>5
    <2> QED
      BY <1>7, <1>10, <2>1 DEF Range
  <1>12. ~Eof => /\ k \in DOMAIN Page
                 /\ \A i \in DOMAIN Page : Page[i] <= Page[k]
                 /\ \A n \in S : n \in Range(Page) \/ n > Page[k]
    <2> SUFFICES ASSUME k = MaxEntries
                 PROVE  /\ k \in DOMAIN Page
                        /\ \A i \in DOMAIN Page : Page[i] <= Page[k]
                        /\ \A n \in S : n \in Range(Page) \/ n > Page[k]
      BY <1>4, <1>8 DEF Eof
    <2>1. k \in DOMAIN Page
      BY <1>4, <1>7
    <2>2. \A i \in DOMAIN Page : Page[i] <= Page[k]
      <3> TAKE i \in DOMAIN Page
      <3>1. i < k \/ i = k
        BY <1>4, <1>7
      <3> QED
        BY <1>7, <1>9, <2>1, <3>1 DEF Increasing
    <2>3. \A n \in S : n \in Range(Page) \/ n > Page[k]
      <3> SUFFICES ASSUME NEW n \in S, n \notin Range(Page) PROVE Page[k] < n
        BY <1>1, <1>7, <2>1
      <3>1. Rank(S, Page[k]) < Rank(S, n)
        BY <1>4, <1>5, <1>7, <1>10, <2>1
      <3>2. Page[k] \in Nat /\ n \in Nat
        BY <1>1, <1>7, <2>1
      <3> QED
        BY <1>1, <1>2, <3>1, <3>2, RankBelow
    <2> QED
      BY <2>1, <2>2, <2>3
  <1> QED
    BY <1>1, <1>2, <1>7, <1>8, <1>9, <1>11, <1>12 DEF S
-----------------------------------------------------------------------------
(* The names the call in progress would go through if nothing changed any
   more: those it has fetched, and those after its cookie. *)
Ahead == Range(entries) \cup Rest

(* The variables of the listing: what a call has fetched is in order and not
   after the cookie, and is dropped when the call ends. *)
ListTypes ==
  /\ stage \in {"closed", "open", "paging", "ended"}
  /\ entries \in Seq(Nat) /\ cookie \in Nat /\ listed \in Seq(Nat)
  /\ removed \in BOOLEAN /\ added \in BOOLEAN
  /\ Increasing(entries) /\ \A i \in DOMAIN entries : entries[i] <= cookie
  /\ stage # "paging" => entries = <<>> /\ cookie = Start
  /\ stage = "closed" => listed = <<>> /\ steady = {} /\ ~removed /\ ~added

(* Nothing has been added: the call has missed no name up to its cookie, and
   what the application has is in order, each name at its place or before it. *)
NoneAgain == ~added =>
  /\ \A n \in EntriesOf(dir) : n <= cookie => n \in Range(entries)
  /\ Increasing(listed)
  /\ \A i \in DOMAIN listed : Rank(Ahead, listed[i]) <= i

(* Nothing has been removed: what the call has fetched is still there, and a
   name that was there all along has been given or its place is still to
   come. *)
NoneMissed == ~removed =>
  /\ Range(entries) \subseteq EntriesOf(dir)
  /\ steady \subseteq Ahead
  /\ \A n \in steady :
       n \in Range(listed) \/ (stage # "ended" /\ Rank(Ahead, n) > Len(listed))

ListInv == NameInv /\ ListTypes /\ NoneAgain /\ NoneMissed

(* The names a call goes through are finitely many. *)
AheadFinite == Ahead \in SUBSET Nat /\ IsFiniteSet(Ahead)

(* Both parts are finite. *)
LEMMA AheadIsFinite == NameInv /\ ListTypes => AheadFinite
  <1> SUFFICES ASSUME NameInv, ListTypes PROVE AheadFinite
    OBVIOUS
  <1>1. Range(entries) \in SUBSET Nat /\ IsFiniteSet(Range(entries))
    BY RankOfSeq DEF ListTypes
  <1>2. Rest \in SUBSET Nat /\ IsFiniteSet(Rest)
    BY NamesFinite, PageFacts DEF ListTypes
  <1>3. IsFiniteSet(Range(entries) \cup Rest)
    BY Zenon, <1>1, <1>2, FS_Union
  <1> QED
    BY Zenon, <1>1, <1>2, <1>3 DEF AheadFinite, Ahead

(* What a call has put together after its last page is Ahead, in order. *)
LEMMA Assembled ==
  ASSUME NameInv, ListTypes, Eof
  PROVE  /\ entries \o Page \in Seq(Nat) /\ Increasing(entries \o Page)
         /\ Range(entries \o Page) = Ahead
         /\ Len(entries \o Page) = Cardinality(Ahead)
         /\ \A i \in 1 .. Len(entries \o Page) : Rank(Ahead, (entries \o Page)[i]) = i
  <1>1. /\ Page \in Seq(Nat) /\ Increasing(Page) /\ Range(Page) = Rest
        /\ \A i \in DOMAIN Page : Page[i] \in Rest /\ Page[i] \in Nat
    BY NamesFinite, PageFacts DEF ListTypes
  <1>2. \A i \in DOMAIN entries, j \in DOMAIN Page : entries[i] < Page[j]
    <2> TAKE i \in DOMAIN entries, j \in DOMAIN Page
    <2>1. entries[i] \in Nat /\ entries[i] <= cookie /\ cookie \in Nat
      BY DEF ListTypes
    <2>2. Page[j] > cookie /\ Page[j] \in Nat
      BY <1>1 DEF Rest
    <2> QED
      BY <2>1, <2>2
  <1>3. /\ entries \o Page \in Seq(Nat) /\ Increasing(entries \o Page)
        /\ Range(entries \o Page) = Ahead
    BY <1>1, <1>2, Joined DEF ListTypes, Ahead
  <1> QED
    BY Zenon, <1>3, RankOfSeq

(* What the application has after a reply: what it had, and what comes next in
   all, at least one name if there is one. *)
LEMMA Replied ==
  ASSUME listed \in Seq(Nat), NEW all \in Seq(Nat)
  PROVE  LET new == listed \o Reply(all)
         IN  /\ new \in Seq(Nat) /\ Len(new) >= Len(listed)
             /\ \A i \in 1 .. Len(listed) : new[i] = listed[i]
             /\ \A i \in Len(listed) + 1 .. Len(new) : i \in 1 .. Len(all) /\ new[i] = all[i]
             /\ Reply(all) = <<>> => Len(all) <= Len(listed) /\ new = listed
  <1> DEFINE m == Len(listed)
             k == Least(Len(all), m + Room)
             t == Reply(all)
  <1>1. /\ m \in Nat /\ Len(all) \in Nat /\ Room \in Nat \ {0}
        /\ DOMAIN all = 1 .. Len(all) /\ \A i \in 1 .. Len(all) : all[i] \in Nat
    BY ListingAssumption
  <1>2. k \in Nat /\ k <= Len(all) /\ (k <= m => Len(all) <= m)
    BY <1>1 DEF Least
  <1>3. t = SubSeq(all, m + 1, k)
    BY DEF Reply
  <1> HIDE DEF k, t
  <1>4. /\ t \in Seq(Nat) /\ Len(t) \in Nat /\ Len(t) = IF m + 1 <= k THEN k - m ELSE 0
        /\ \A i \in 1 .. Len(t) : t[i] = all[m + i]
    <2> DEFINE a == m + 1
               l == IF a <= k THEN k - a + 1 ELSE 0
    <2>1. /\ a \in Nat /\ a >= 1 /\ l \in Nat /\ l = IF m + 1 <= k THEN k - m ELSE 0
          /\ \A i \in 1 .. l : a + i - 1 = m + i /\ m + i \in 1 .. Len(all)
      BY <1>1, <1>2
    <2>2. SubSeq(all, a, k) = [i \in 1 .. l |-> all[a + i - 1]]
      BY SMTT(30), <1>1, <1>2, <2>1
    <2> HIDE DEF a, l
    <2>3. t = [i \in 1 .. l |-> all[m + i]]
      BY <1>3, <2>1, <2>2 DEF a
    <2>4. \A i \in 1 .. l : all[m + i] \in Nat
      BY <1>1, <2>1
    <2>5. t \in [1 .. l -> Nat]
      BY <2>3, <2>4
    <2>6. l \in Nat /\ DOMAIN t = 1 .. l
      BY <2>1, <2>3
    <2>7. t \in Seq(Nat) /\ Len(t) = l
      BY <2>5, <2>6
    <2> QED
      BY <2>1, <2>3, <2>7
  <1> DEFINE new == listed \o t
  <1>5. /\ new \in Seq(Nat) /\ Len(new) = m + Len(t)
        /\ \A i \in 1 .. m + Len(t) : new[i] = IF i <= m THEN listed[i] ELSE t[i - m]
    BY SMTT(30), <1>4
  <1>6. t = <<>> => Len(all) <= m /\ new = listed
    BY <1>1, <1>2, <1>4
  <1> HIDE DEF new, m
  <1>7. Len(new) >= m /\ \A i \in 1 .. m : new[i] = listed[i]
    <2>1. \A i \in 1 .. m : i \in 1 .. m + Len(t) /\ i <= m
      BY <1>1, <1>4
    <2> QED
      BY <1>1, <1>4, <1>5, <2>1
  <1>8. \A i \in m + 1 .. Len(new) : i \in 1 .. Len(all) /\ new[i] = all[i]
    <2> TAKE i \in m + 1 .. Len(new)
    <2>1. /\ i \in 1 .. m + Len(t) /\ ~(i <= m) /\ i - m \in 1 .. Len(t)
          /\ m + (i - m) = i /\ i <= k /\ i \in Int
      BY <1>1, <1>2, <1>4, <1>5
    <2> QED
      BY SMTT(30), <1>1, <1>2, <1>4, <1>5, <2>1
  <1> QED
    BY <1>5, <1>6, <1>7, <1>8 DEF new, m, t
-----------------------------------------------------------------------------
(* A step of the listing changes no name, and Change is a step of the
   namespace. *)
LEMMA ListStepIsStep == [ListNext]_allVars => [Next]_vars
  BY Zenon DEF ListNext, allVars, opendir, readdir, read_dir, LastPage, ListingFails,
     releasedir, Close, Change

(* The facts about the names that every step keeps, before and after it. *)
LEMMA StepBasics ==
  ASSUME NameInv, ListTypes, [ListNext]_allVars
  PROVE  /\ NameInv' /\ HereFinite /\ HereFinite' /\ AheadFinite
         /\ ListTypes' => AheadFinite'
  <1>1. NameInv'
    BY ListStepIsStep, StepNames
  <1>2. HereFinite /\ AheadFinite
    BY NamesFinite, AheadIsFinite
  <1>3. HereFinite'
    BY <1>1, NamesFinite, PTL
  <1>4. ListTypes' => AheadFinite'
    BY <1>1, AheadIsFinite, PTL
  <1> QED
    BY <1>1, <1>2, <1>3, <1>4

(* A listing starts with every entry still to come. *)
LEMMA OpenKeeps ==
  ASSUME ListInv, NEW d \in DOMAIN dirs, opendir(d), [ListNext]_allVars
  PROVE  ListInv'
  <1>1. /\ stage = "closed" /\ listed' = <<>> /\ entries' = <<>> /\ cookie' = 0
        /\ steady' = EntriesOf(dir)' /\ stage' = "open"
    BY DEF opendir, ListInv, ListTypes, Start, EntriesOf, vars
  <1>2. ListTypes'
    BY <1>1 DEF opendir, ListInv, ListTypes, Increasing, Start
  <1>3. NameInv' /\ HereFinite' /\ AheadFinite'
    BY <1>2, StepBasics DEF ListInv
  <1>4. Range(entries)' = {} /\ Len(listed') = 0 /\ DOMAIN listed' = {}
    BY <1>1 DEF Range
  <1>5. Ahead' = EntriesOf(dir)'
    BY <1>1, <1>3, <1>4 DEF Ahead, Rest, HereFinite
  <1>6. NoneAgain'
    BY <1>1, <1>3, <1>4 DEF NoneAgain, HereFinite, Increasing
  <1>7. \A n \in Ahead' : Rank(Ahead', n) > 0
    BY <1>3, RankHits DEF AheadFinite
  <1>8. NoneMissed'
    BY <1>1, <1>4, <1>5, <1>7 DEF NoneMissed, Rank
  <1> QED
    BY <1>2, <1>3, <1>6, <1>8 DEF ListInv

(* A call starts where nothing is fetched yet. *)
LEMMA ReaddirKeeps ==
  ASSUME ListInv, readdir, [ListNext]_allVars
  PROVE  ListInv'
  <1>1. NameInv'
    BY StepBasics DEF ListInv
  <1>2. ListTypes'
    BY DEF readdir, ListInv, ListTypes, seenVars
  <1>3. /\ UNCHANGED <<entries, cookie, listed, steady, added, removed>>
        /\ Ahead' = Ahead /\ EntriesOf(dir)' = EntriesOf(dir)
        /\ stage # "ended" /\ stage' # "ended"
    BY DEF readdir, Ahead, Rest, EntriesOf, vars, seenVars
  <1>4. NoneAgain'
    BY <1>3 DEF ListInv, NoneAgain, Increasing, Rank
  <1>5. NoneMissed'
    BY <1>3 DEF ListInv, NoneMissed, Rank
  <1> QED
    BY <1>1, <1>2, <1>4, <1>5 DEF ListInv

(* A full page moves names from those after the cookie to those fetched. *)
LEMMA PageKeeps ==
  ASSUME ListInv, read_dir, [ListNext]_allVars
  PROVE  ListInv'
  <1>1. /\ entries' = entries \o Page /\ cookie' = Page[Len(Page)] /\ ~Eof
        /\ UNCHANGED <<stage, listed, steady, added, removed>>
        /\ EntriesOf(dir)' = EntriesOf(dir) /\ stage = "paging"
    BY DEF read_dir, EntriesOf, vars, seenVars
  <1>2. NameInv' /\ HereFinite
    BY StepBasics DEF ListInv
  <1>3. /\ Page \in Seq(Nat) /\ Increasing(Page) /\ Len(Page) \in DOMAIN Page
        /\ \A i \in DOMAIN Page : /\ Page[i] \in Rest /\ Page[i] \in Nat
                                  /\ Page[i] <= cookie' /\ Page[i] > cookie
        /\ \A n \in Rest : n \in Range(Page) \/ n > cookie'
        /\ Rest \in SUBSET Nat /\ cookie \in Nat /\ cookie' \in Nat /\ cookie' > cookie
    <2>1. cookie \in Nat
      BY DEF ListInv, ListTypes
    <2>2. /\ Page \in Seq(Nat) /\ Increasing(Page) /\ Len(Page) \in DOMAIN Page
          /\ \A i \in DOMAIN Page : Page[i] \in Rest /\ Page[i] <= cookie'
          /\ \A n \in Rest : n \in Range(Page) \/ n > cookie'
          /\ Rest \in SUBSET Nat
      BY <1>1, <1>2, <2>1, PageFacts
    <2>3. \A n \in Rest : n > cookie /\ n \in Nat
      BY <2>2 DEF Rest
    <2> QED
      BY <1>1, <2>1, <2>2, <2>3
  <1>4. \A i \in DOMAIN entries : entries[i] \in Nat /\ entries[i] <= cookie
    BY DEF ListInv, ListTypes
  <1>5. \A i \in DOMAIN entries, j \in DOMAIN Page : entries[i] < Page[j]
    <2> TAKE i \in DOMAIN entries, j \in DOMAIN Page
    <2> QED
      BY <1>3, <1>4
  <1>6. /\ entries' \in Seq(Nat) /\ Increasing(entries')
        /\ Range(entries') = Range(entries) \cup Range(Page)
    BY <1>1, <1>3, <1>5, Joined DEF ListInv, ListTypes
  <1>7. \A n \in Range(entries') : n <= cookie'
    <2>1. \A n \in Range(entries) : n <= cookie /\ n \in Nat
      BY <1>4 DEF Range
    <2>2. \A n \in Range(Page) : n <= cookie'
      BY <1>3 DEF Range
    <2> QED
      BY <1>3, <1>6, <2>1, <2>2
  <1>8. ListTypes'
    <2>1. \A i \in DOMAIN entries' : entries'[i] <= cookie'
      BY <1>7 DEF Range
    <2> QED
      BY <1>1, <1>3, <1>6, <2>1 DEF ListInv, ListTypes
  <1>9. Range(Page) \subseteq Rest /\ Rest \subseteq EntriesOf(dir)
    BY <1>3 DEF Range, Rest
  <1>10. Ahead' = Ahead
    <2>1. Rest' = {n \in EntriesOf(dir) : n > cookie'}
      BY <1>1 DEF Rest
    <2>2. Rest' \subseteq Rest
      <3>1. \A n \in EntriesOf(dir) : n \in Nat
        BY <1>2 DEF HereFinite
      <3>2. \A n \in EntriesOf(dir) : n > cookie' => n > cookie
        BY <1>3, <3>1
      <3> QED
        BY <2>1, <3>2 DEF Rest
    <2>3. Rest \subseteq Range(Page) \cup Rest'
      BY <1>3, <1>9, <2>1
    <2> QED
      BY <1>6, <1>9, <2>2, <2>3 DEF Ahead
  <1>11. NoneAgain'
    <2>1. ASSUME ~added
          PROVE  \A n \in EntriesOf(dir) : n <= cookie' => n \in Range(entries')
      <3> SUFFICES ASSUME NEW n \in EntriesOf(dir), n <= cookie' PROVE n \in Range(entries')
        OBVIOUS
      <3>1. n \in Nat
        BY <1>2 DEF HereFinite
      <3>2. CASE n <= cookie
        BY <1>6, <2>1, <3>2 DEF ListInv, NoneAgain
      <3>3. CASE n > cookie
        BY <1>3, <1>6, <3>1, <3>3 DEF Rest
      <3> QED
        BY <1>3, <3>1, <3>2, <3>3
    <2> QED
      BY <1>1, <1>10, <2>1 DEF ListInv, NoneAgain, Rank, Increasing
  <1>12. NoneMissed'
    BY <1>1, <1>6, <1>9, <1>10 DEF ListInv, NoneMissed, Rank
  <1> QED
    BY <1>2, <1>8, <1>11, <1>12 DEF ListInv

(* Between two calls every entry is still ahead. *)
LEMMA AheadAfresh ==
  ASSUME HereFinite, entries = <<>>, cookie = Start
  PROVE  Range(entries) = {} /\ Ahead = EntriesOf(dir)
  <1>1. Range(entries) = {}
    BY DEF Range
  <1> QED
    BY <1>1 DEF Ahead, Rest, HereFinite, Start

(* A reply that carries a name gives those whose places come next; an empty
   one comes only when no place is left. *)
LEMMA ReplyKeeps ==
  ASSUME ListInv, LastPage, [ListNext]_allVars
  PROVE  ListInv'
  <1> DEFINE all == entries \o Page
             N == EntriesOf(dir)
             A == Ahead
             m == Len(listed)
             new == listed'
             q(n) == Rank(A, n)
  <1>1. /\ new = listed \o Reply(all) /\ stage \in {"paging"} /\ Eof
        /\ stage' = IF Reply(all) = <<>> THEN "ended" ELSE "open"
        /\ entries' = <<>> /\ cookie' = Start
        /\ EntriesOf(dir)' = N
        /\ UNCHANGED <<steady, added, removed>>
    BY DEF LastPage, EntriesOf, vars, seenVars
  <1>2. NameInv' /\ HereFinite /\ HereFinite' /\ AheadFinite /\ (ListTypes' => AheadFinite')
    BY StepBasics DEF ListInv
  <1>3. /\ all \in Seq(Nat) /\ Increasing(all) /\ Range(all) = A
        /\ Len(all) = Cardinality(A)
        /\ \A i \in 1 .. Len(all) : q(all[i]) = i /\ all[i] \in Nat
    BY <1>1, Assembled DEF ListInv
  <1>4. /\ new \in Seq(Nat) /\ Len(new) >= m /\ m \in Nat /\ Len(new) \in Nat
        /\ \A i \in 1 .. m : new[i] = listed[i] /\ listed[i] \in Nat
        /\ \A i \in m + 1 .. Len(new) : i \in 1 .. Len(all) /\ new[i] = all[i]
        /\ Reply(all) = <<>> => Len(all) <= m /\ new = listed
        /\ DOMAIN listed = 1 .. m /\ DOMAIN new = 1 .. Len(new)
    <2>1. listed \in Seq(Nat)
      BY DEF ListInv, ListTypes
    <2> HIDE DEF all, new
    <2>2. /\ new \in Seq(Nat) /\ Len(new) >= Len(listed)
          /\ \A i \in 1 .. Len(listed) : new[i] = listed[i]
          /\ \A i \in Len(listed) + 1 .. Len(new) : i \in 1 .. Len(all) /\ new[i] = all[i]
          /\ Reply(all) = <<>> => Len(all) <= Len(listed) /\ new = listed
      BY Zenon, <1>1, <1>3, <2>1, Replied
    <2>3. /\ m \in Nat /\ Len(new) \in Nat
          /\ \A i \in 1 .. m : listed[i] \in Nat
          /\ DOMAIN listed = 1 .. m /\ DOMAIN new = 1 .. Len(new)
      BY <2>1, <2>2
    <2> QED
      BY <2>2, <2>3
  <1> HIDE DEF all
  <1>5. ListTypes'
    <2>1. listed' \in Seq(Nat) /\ stage' \in {"open", "ended"}
      BY Zenon, <1>1, <1>4
    <2>2. /\ removed' \in BOOLEAN /\ added' \in BOOLEAN
      BY <1>1 DEF ListInv, ListTypes
    <2> QED
      BY <1>1, <2>1, <2>2 DEF ListTypes, Increasing, Start
  <1>6. Range(entries)' = {} /\ Ahead' = N
    <2>1. HereFinite' /\ entries' = <<>> /\ cookie' = Start
      BY <1>1, <1>2
    <2>2. (HereFinite /\ entries = <<>> /\ cookie = Start
             => Range(entries) = {} /\ Ahead = EntriesOf(dir))'
      BY AheadAfresh, PTL
    <2> QED
      BY <1>1, <2>1, <2>2
  <1>7. A \in SUBSET Nat /\ IsFiniteSet(A) /\ N \in SUBSET Nat /\ IsFiniteSet(N)
    BY <1>2 DEF AheadFinite, HereFinite
  <1> HIDE DEF all, A, m, new
  <1>8. \A n \in Nat : q(n) \in Nat /\ q(n) <= Cardinality(A)
    BY Zenon, <1>7, RankType
  <1>9. NoneAgain'
    <2> SUFFICES ASSUME ~added
                 PROVE  /\ Increasing(new)
                        /\ \A i \in DOMAIN new : Rank(N, new[i]) <= i
      BY <1>1, <1>2, <1>6 DEF NoneAgain, HereFinite, Start, new
    <2>1. /\ \A n \in N : n <= cookie => n \in Range(entries)
          /\ \A i, j \in 1 .. m : i < j => listed[i] < listed[j]
          /\ \A i \in 1 .. m : q(listed[i]) <= i
          /\ cookie \in Nat
      BY Zenon, <1>4 DEF ListInv, ListTypes, NoneAgain, Increasing, A
    <2>2. N \subseteq A
      <3>1. \A n \in N : n <= cookie \/ n > cookie
        BY <1>7, <2>1
      <3> QED
        BY <2>1, <3>1 DEF A, Ahead, Rest
    <2>3. \A i \in 1 .. Len(new) : new[i] \in Nat /\ q(new[i]) \in Nat /\ q(new[i]) <= i
      <3> SUFFICES ASSUME NEW i \in 1 .. Len(new)
                   PROVE  new[i] \in Nat /\ q(new[i]) \in Nat /\ q(new[i]) <= i
        OBVIOUS
      <3>1. i \in 1 .. m \/ i \in m + 1 .. Len(new)
        BY <1>4
      <3>2. CASE i \in 1 .. m
        BY <1>4, <1>8, <2>1, <3>2
      <3>3. CASE i \in m + 1 .. Len(new)
        <4>1. i \in 1 .. Len(all) /\ new[i] = all[i]
          BY <1>4, <3>3
        <4>2. all[i] \in Nat /\ q(all[i]) = i
          BY <1>3, <4>1
        <4> QED
          BY <4>1, <4>2
      <3> QED
        BY <3>1, <3>2, <3>3
    <2>4. Increasing(new)
      <3> SUFFICES ASSUME NEW i \in 1 .. Len(new), NEW j \in 1 .. Len(new), i < j
                   PROVE  new[i] < new[j]
        BY <1>4 DEF Increasing
      <3>1. CASE j <= m
        <4>1. i \in 1 .. m /\ j \in 1 .. m
          BY <1>4, <3>1
        <4> QED
          BY <1>4, <2>1, <4>1
      <3>2. CASE j > m
        <4>1. j \in m + 1 .. Len(new)
          BY <1>4, <3>2
        <4>2. new[j] = all[j] /\ q(new[j]) = j /\ new[j] \in Nat
          BY <1>3, <1>4, <4>1
        <4>3. q(new[i]) < q(new[j]) /\ new[i] \in Nat
          BY <2>3, <4>2
        <4> QED
          BY <1>7, <4>2, <4>3, RankBelow
      <3> QED
        BY <1>4, <3>1, <3>2
    <2>5. \A i \in 1 .. Len(new) : Rank(N, new[i]) <= i
      <3> TAKE i \in 1 .. Len(new)
      <3>1. new[i] \in Nat /\ q(new[i]) \in Nat /\ q(new[i]) <= i
        BY <2>3
      <3>2. Rank(N, new[i]) <= q(new[i])
        BY <1>7, <2>2, <3>1, RankGrows
      <3>3. Rank(N, new[i]) \in Nat
        BY Zenon, <1>7, <3>1, RankType
      <3> QED
        BY <3>1, <3>2, <3>3
    <2> QED
      BY <1>4, <2>4, <2>5
  <1>10. NoneMissed'
    <2> SUFFICES ASSUME ~removed
                 PROVE  /\ steady \subseteq N
                        /\ \A n \in steady : n \in Range(new)
                             \/ (stage' # "ended" /\ Rank(N, n) > Len(new))
      BY <1>1, <1>6 DEF NoneMissed, new
    <2>1. /\ Range(entries) \subseteq N /\ steady \subseteq A
          /\ \A n \in steady : n \in Range(listed) \/ q(n) > m
      BY DEF ListInv, NoneMissed, A, m
    <2>2. A \subseteq N
      BY <2>1 DEF A, Ahead, Rest
    <2>3. Range(listed) \subseteq Range(new)
      <3>1. \A i \in 1 .. m : i \in 1 .. Len(new)
        BY <1>4
      <3> QED
        BY <1>4, <3>1 DEF Range
    <2>4. ASSUME NEW n \in steady, n \notin Range(new)
          PROVE  stage' # "ended" /\ Rank(N, n) > Len(new)
      <3>1. n \in A /\ n \in Nat /\ q(n) > m /\ q(n) \in Nat /\ q(n) <= Len(all)
        BY <1>3, <1>7, <1>8, <2>1, <2>3, <2>4
      <3>2. stage' # "ended"
        BY <1>1, <1>3, <1>4, <3>1
      <3>3. q(n) > Len(new)
        <4> SUFFICES ASSUME q(n) <= Len(new) PROVE FALSE
          BY <1>4, <3>1
        <4>1. q(n) \in m + 1 .. Len(new) /\ q(n) \in 1 .. Len(new)
          BY <1>4, <3>1
        <4>2. new[q(n)] = all[q(n)] /\ q(all[q(n)]) = q(n) /\ q(n) \in 1 .. Len(all)
          BY <1>3, <1>4, <4>1
        <4>3. all[q(n)] \in A
          BY <1>3, <4>2 DEF Range
        <4>4. all[q(n)] = n
          BY Zenon, <1>7, <3>1, <4>2, <4>3, RankHits
        <4> QED
          BY <1>4, <2>4, <4>1, <4>2, <4>4 DEF Range
      <3>4. Rank(N, n) >= q(n)
        BY <1>7, <2>2, <3>1, RankGrows
      <3>5. Rank(N, n) \in Nat
        BY Zenon, <1>7, <3>1, RankType
      <3> QED
        BY <1>4, <3>1, <3>2, <3>3, <3>4, <3>5
    <2> QED
      BY <2>1, <2>2, <2>4
  <1> QED
    BY <1>2, <1>5, <1>9, <1>10 DEF ListInv

(* A closed listing claims nothing. *)
LEMMA CloseKeeps ==
  ASSUME ListInv, Close, [ListNext]_allVars
  PROVE  ListInv'
  <1>1. NameInv' /\ HereFinite'
    BY StepBasics DEF ListInv
  <1>2. ListTypes'
    <2>1. ~removed' /\ ~added' /\ removed' \in BOOLEAN /\ added' \in BOOLEAN
      BY Zenon DEF Close
    <2> QED
      BY <2>1 DEF Close, ListTypes, Increasing, Start
  <1>3. Range(entries)' = {} /\ DOMAIN listed' = {} /\ cookie' = 0 /\ steady' = {}
    BY DEF Close, Range, Start
  <1>4. NoneAgain'
    BY <1>1, <1>3 DEF NoneAgain, HereFinite, Increasing
  <1>5. NoneMissed'
    BY <1>3 DEF NoneMissed
  <1> QED
    BY <1>1, <1>2, <1>4, <1>5 DEF ListInv

(* Without additions the names ahead can only become fewer, without removals
   only more: a place already given is not reached again, a place to come is
   not passed. *)
LEMMA ChangeKeeps ==
  ASSUME ListInv, Change, [ListNext]_allVars
  PROVE  ListInv'
  <1>1. /\ UNCHANGED <<stage, dir, entries, cookie, listed>>
        /\ steady' = steady \cap EntriesOf(dir)'
        /\ removed' = (stage # "closed" /\ (removed \/ EntriesOf(dir) \ EntriesOf(dir)' # {}))
        /\ added' = (stage # "closed" /\ (added \/ EntriesOf(dir)' \ EntriesOf(dir) # {}))
    BY DEF Change, listVars
  <1> DEFINE N == EntriesOf(dir)
             M == EntriesOf(dir)'
             A == Ahead
             B == Ahead'
             s1 == steady'
  <1>2. ListTypes'
    BY <1>1 DEF ListInv, ListTypes
  <1>3. /\ NameInv' /\ A \in SUBSET Nat /\ IsFiniteSet(A) /\ B \in SUBSET Nat /\ IsFiniteSet(B)
        /\ HereFinite'
    BY <1>2, StepBasics DEF ListInv, AheadFinite
  <1>4. /\ A = Range(entries) \cup {n \in N : n > cookie}
        /\ B = Range(entries) \cup {n \in M : n > cookie}
    BY <1>1 DEF Ahead, Rest, Range
  <1>5. stage = "closed" => /\ listed = <<>> /\ steady = {} /\ entries = <<>> /\ cookie = 0
                            /\ Range(entries) = {} /\ DOMAIN listed = {}
    BY DEF ListInv, ListTypes, Start, Range
  <1>6. listed \in Seq(Nat) /\ \A i \in DOMAIN listed : listed[i] \in Nat /\ i \in Nat
    BY DEF ListInv, ListTypes
  <1>7. 0 \notin M /\ M \in SUBSET Nat
    BY <1>3 DEF HereFinite
  <1>8. NoneAgain'
    <2> SUFFICES ASSUME ~added'
                 PROVE  /\ \A n \in M : n <= cookie => n \in Range(entries)
                        /\ Increasing(listed)
                        /\ \A i \in DOMAIN listed : Rank(B, listed[i]) <= i
      BY <1>1 DEF NoneAgain, Range, Increasing
    <2>1. CASE stage = "closed"
      BY <1>5, <1>7, <2>1 DEF Increasing
    <2>2. CASE stage # "closed"
      <3>1. ~added /\ M \subseteq N
        BY Zenon, <1>1, <2>2
      <3>2. B \subseteq A
        BY <1>4, <3>1
      <3>3. /\ \A n \in N : n <= cookie => n \in Range(entries)
            /\ Increasing(listed)
            /\ \A i \in DOMAIN listed : Rank(A, listed[i]) <= i
        BY <3>1 DEF ListInv, NoneAgain
      <3> HIDE DEF A, B, N, M
      <3>4. \A i \in DOMAIN listed : Rank(B, listed[i]) <= i
        <4> TAKE i \in DOMAIN listed
        <4>1. listed[i] \in Nat /\ i \in Nat
          BY <1>6
        <4>2. Rank(B, listed[i]) \in Nat /\ Rank(A, listed[i]) \in Nat
          BY Zenon, <1>3, <4>1, RankType
        <4>3. Rank(B, listed[i]) <= Rank(A, listed[i])
          BY <1>3, <3>2, <4>1, RankGrows
        <4> QED
          BY <3>3, <4>1, <4>2, <4>3
      <3> QED
        BY <3>1, <3>3, <3>4
    <2> QED
      BY <2>1, <2>2
  <1>9. NoneMissed'
    <2> SUFFICES ASSUME ~removed'
                 PROVE  /\ Range(entries) \subseteq M
                        /\ s1 \subseteq B
                        /\ \A n \in s1 : n \in Range(listed)
                                         \/ (stage # "ended" /\ Rank(B, n) > Len(listed))
      BY <1>1 DEF NoneMissed, Range
    <2>1. CASE stage = "closed"
      BY <1>1, <1>5, <2>1
    <2>2. CASE stage # "closed"
      <3>1. ~removed /\ N \subseteq M /\ s1 \subseteq steady
        BY Zenon, <1>1, <2>2
      <3>2. A \subseteq B
        BY <1>4, <3>1
      <3>3. /\ Range(entries) \subseteq N /\ steady \subseteq A
            /\ \A n \in steady : n \in Range(listed)
                                 \/ (stage # "ended" /\ Rank(A, n) > Len(listed))
        BY <3>1 DEF ListInv, NoneMissed
      <3> HIDE DEF A, B, N, M, s1
      <3>4. ASSUME NEW n \in s1, n \notin Range(listed)
            PROVE  stage # "ended" /\ Rank(B, n) > Len(listed)
        <4>1. stage # "ended" /\ Rank(A, n) > Len(listed) /\ n \in Nat
          BY <1>3, <3>1, <3>3, <3>4
        <4>2. Rank(B, n) \in Nat /\ Rank(A, n) \in Nat
          BY Zenon, <1>3, <4>1, RankType
        <4>3. Rank(A, n) <= Rank(B, n)
          BY <1>3, <3>2, <4>1, RankGrows
        <4>4. Len(listed) \in Nat
          BY <1>6
        <4> QED
          BY <4>1, <4>2, <4>3, <4>4
      <3> QED
        BY <3>1, <3>2, <3>3, <3>4
    <2> QED
      BY <2>1, <2>2
  <1> QED
    BY <1>2, <1>3, <1>8, <1>9 DEF ListInv

(* Every step preserves ListInv. *)
LEMMA StepListing == ListInv /\ [ListNext]_allVars => ListInv'
  <1> SUFFICES ASSUME ListInv, [ListNext]_allVars PROVE ListInv'
    OBVIOUS
  <1>1. CASE UNCHANGED allVars
    <2>1. NameInv'
      BY StepBasics DEF ListInv
    <2>2. /\ UNCHANGED <<stage, entries, cookie, listed, steady, removed, added>>
          /\ Ahead' = Ahead /\ EntriesOf(dir)' = EntriesOf(dir)
      BY <1>1 DEF allVars, listVars, seenVars, vars, Ahead, Rest, EntriesOf
    <2>3. ListTypes'
      BY <2>2 DEF ListInv, ListTypes
    <2>4. NoneAgain'
      BY <2>2 DEF ListInv, NoneAgain, Increasing, Rank
    <2>5. NoneMissed'
      BY <2>2 DEF ListInv, NoneMissed, Rank
    <2> QED
      BY <2>1, <2>3, <2>4, <2>5 DEF ListInv
  <1>2. CASE ListNext
    BY Zenon, <1>2, OpenKeeps, ReaddirKeeps, PageKeeps, ReplyKeeps, CloseKeeps, ChangeKeeps
       DEF ListNext, ListingFails, releasedir
  <1> QED
    BY <1>1, <1>2

(* No listing is open at first. *)
LEMMA InitListing == ListInit => ListInv
  <1> SUFFICES ASSUME ListInit PROVE ListInv
    OBVIOUS
  <1>1. NameInv /\ HereFinite
    BY InitNames, NamesFinite DEF ListInit
  <1>2. ListTypes
    <2>1. ~removed /\ ~added /\ removed \in BOOLEAN /\ added \in BOOLEAN
      BY Zenon DEF ListInit
    <2> QED
      BY <2>1 DEF ListInit, ListTypes, Increasing, Start
  <1>3. Range(entries) = {} /\ DOMAIN listed = {} /\ cookie = 0 /\ steady = {}
    BY DEF ListInit, Range, Start
  <1>4. NoneAgain
    BY <1>1, <1>3 DEF NoneAgain, HereFinite, Increasing
  <1>5. NoneMissed
    BY <1>3 DEF NoneMissed
  <1> QED
    BY <1>1, <1>2, <1>4, <1>5 DEF ListInv
-----------------------------------------------------------------------------
(* For any directory, page size and reply size, and whatever is added between
   the kernel's calls of readdir and between the handler's pages: a listing
   that ran to its end gave every entry that was there all along, as long as
   nothing was removed. *)
THEOREM ListingIsComplete == ListSpec => []ListsAll
  <1>1. ListInv => ListsAll
    BY DEF ListInv, NoneMissed, ListsAll
  <1> QED
    BY <1>1, InitListing, StepListing, PTL DEF ListSpec

(* Whatever is removed meanwhile, no entry is given twice as long as nothing
   was added: the names come in their order. *)
THEOREM ListingHasNoRepeats == ListSpec => []ListsOnce
  <1>1. ListInv => ListsOnce
    <2> SUFFICES ASSUME ListInv, ~added PROVE IsInjective(listed)
      BY DEF ListsOnce
    <2>1. /\ \A i, j \in DOMAIN listed : i < j => listed[i] < listed[j]
          /\ \A i \in DOMAIN listed : i \in Nat /\ listed[i] \in Nat
      BY DEF ListInv, ListTypes, NoneAgain, Increasing
    <2>2. \A i, j \in DOMAIN listed : listed[i] = listed[j] => i = j
      BY <2>1
    <2> QED
      BY <2>2 DEF IsInjective
  <1> QED
    BY <1>1, InitListing, StepListing, PTL DEF ListSpec

(* The tree that is listed is the tree of Namespace: what is proved of Spec
   holds while directories are listed. *)
THEOREM ListingChangesNoName == ListSpec => Spec
  <1>1. ListInit => Init
    BY DEF ListInit
  <1> QED
    BY <1>1, ListStepIsStep, PTL DEF ListSpec, Spec
=============================================================================
