--------------------------- MODULE ClusterProofs ---------------------------
(***************************************************************************)
(* A distributed run for any number of workers, users and requests, any    *)
(* split, any interleaving of the shards, failures and cancellations: a    *)
(* call that returns without error has the whole run, and what it streamed *)
(* can be replayed.                                                        *)
(***************************************************************************)
EXTENDS Cluster, FiniteSetTheorems, FunctionTheorems, SequenceTheorems, WellFoundedInduction, TLAPS

----------------------------------------------------------------------------
(* Numbers: the least and the greatest of a set, and the operators Min and Max *)

LEMMA Least ==
    ASSUME NEW T \in SUBSET Nat, T # {}
    PROVE  \E m \in T : \A k \in T : m <= k
<1>. DEFINE R == {ss \in Nat \X Nat : ss[1] < ss[2]}
<1>1. IsWellFoundedOn(R, Nat)
  BY NatLessThanWellFounded, Zenon DEF OpToRel
<1>. HIDE DEF R
<1>2. PICK m \in T : \A y \in T : ~(<<y, m>> \in R)
  BY <1>1, WFMin
<1>3. \A y \in T : ~(y < m)
  BY <1>2 DEF R
<1>. QED BY <1>3

LEMMA Greatest ==
    ASSUME NEW b \in Nat, NEW T \in SUBSET (0..b), T # {}
    PROVE  \E m \in T : \A k \in T : k <= m
<1>. DEFINE U == {b - k : k \in T}
<1>1. U \in SUBSET Nat /\ U # {}
  <2>1. \A k \in T : b - k \in Nat
    OBVIOUS
  <2>. QED BY <2>1
<1>2. PICK u \in U : \A v \in U : u <= v
  BY <1>1, Least
<1>3. PICK m \in T : u = b - m
  OBVIOUS
<1>4. \A k \in T : b - m <= b - k
  BY <1>2, <1>3
<1>. QED BY <1>4

LEMMA MinTwo ==
    ASSUME NEW a \in Int, NEW b \in Int
    PROVE  Min({a, b}) = IF a <= b THEN a ELSE b
<1>1. \E x \in {a, b} : \A y \in {a, b} : x <= y
  OBVIOUS
<1>. QED BY <1>1 DEF Min

LEMMA MaxIs ==
    ASSUME NEW T \in SUBSET Int, NEW m \in T, \A k \in T : k <= m
    PROVE  Max(T) = m
<1>1. \A k \in T : m >= k
  OBVIOUS
<1>2. Max(T) \in T /\ \A k \in T : Max(T) >= k
  BY <1>1 DEF Max
<1>3. Max(T) \in Int /\ m \in Int /\ Max(T) >= m /\ Max(T) <= m
  BY <1>2
<1>. QED BY <1>3

LEMMA MaxBounded ==
    ASSUME NEW b \in Nat, NEW T \in SUBSET (0..b), T # {}
    PROVE  Max(T) \in T /\ \A k \in T : k <= Max(T)
<1>1. PICK m \in T : \A k \in T : k <= m
  BY Greatest
<1>2. T \in SUBSET Int
  OBVIOUS
<1>3. Max(T) = m
  BY <1>1, <1>2, MaxIs
<1>. QED BY <1>1, <1>3

\* The maximum of two groups, each with a floor of zero.
LEMMA MaxJoin ==
    ASSUME NEW b \in Nat, NEW S \in SUBSET (0..b), NEW T \in SUBSET (0..b)
    PROVE  Max({Max({0} \cup S), Max({0} \cup T)}) = Max({0} \cup (S \cup T))
<1>. DEFINE s == Max({0} \cup S)
            t == Max({0} \cup T)
<1>1. s \in {0} \cup S /\ \A k \in {0} \cup S : k <= s
  BY MaxBounded
<1>2. t \in {0} \cup T /\ \A k \in {0} \cup T : k <= t
  BY MaxBounded
<1>. HIDE DEF s, t
<1>3. CASE s <= t
  <2>1. Max({s, t}) = t
    BY <1>1, <1>2, <1>3, MaxIs
  <2>2. Max({0} \cup (S \cup T)) = t
    <3>1. t \in {0} \cup (S \cup T) /\ \A k \in {0} \cup (S \cup T) : k <= t
      BY <1>1, <1>2, <1>3
    <3>. QED BY <3>1, MaxIs
  <2>. QED BY <2>1, <2>2 DEF s, t
<1>4. CASE t <= s
  <2>1. Max({s, t}) = s
    BY <1>1, <1>2, <1>4, MaxIs
  <2>2. Max({0} \cup (S \cup T)) = s
    <3>1. s \in {0} \cup (S \cup T) /\ \A k \in {0} \cup (S \cup T) : k <= s
      BY <1>1, <1>2, <1>4
    <3>. QED BY <3>1, MaxIs
  <2>. QED BY <2>1, <2>2 DEF s, t
<1>. QED BY <1>1, <1>2, <1>3, <1>4

LEMMA MaxOne ==
    ASSUME NEW b \in Nat, NEW x \in 0..b
    PROVE  Max({0} \cup {x}) = x
BY MaxIs

----------------------------------------------------------------------------
(* The split: every user is in exactly one shard *)

Base == TotalUsers \div WorkerCount
Rem == TotalUsers % WorkerCount

\* Where the range of shard j starts, and the last one ends.
Start(j) == Base * (j - 1) + Min({j - 1, Rem})
LastShard == Min({TotalUsers, WorkerCount})

LEMMA Sizes ==
    WorkerCount \in Nat \ {0} /\ TotalUsers \in Nat \ {0} /\ MaxSteps \in Nat \ {0}
BY ClusterAssumption, Zenon

LEMMA DivMod ==
    /\ Base \in Nat /\ Rem \in 0..(WorkerCount - 1)
    /\ TotalUsers = WorkerCount * Base + Rem
BY Sizes DEF Base, Rem

LEMMA LastShardIs ==
    /\ LastShard \in Nat \ {0} /\ LastShard <= WorkerCount /\ LastShard <= TotalUsers
    /\ LastShard = TotalUsers \/ LastShard = WorkerCount
<1>1. LastShard = IF TotalUsers <= WorkerCount THEN TotalUsers ELSE WorkerCount
  BY Sizes, MinTwo DEF LastShard
<1>. QED BY <1>1, Sizes

LEMMA StartIs ==
    ASSUME NEW j \in Nat \ {0}
    PROVE  /\ Start(j) = Base * (j - 1) + (IF j - 1 <= Rem THEN j - 1 ELSE Rem)
           /\ Start(j) \in Nat
           /\ Start(j + 1) = Start(j) + (Base + (IF j <= Rem THEN 1 ELSE 0))
<1>. DEFINE least(k) == IF k <= Rem THEN k ELSE Rem
<1>0. Base \in Nat /\ Rem \in Nat
  BY DivMod, Sizes
<1>1. \A k \in Nat : Min({k, Rem}) = least(k)
  BY <1>0, MinTwo
<1>2. Start(j) = Base * (j - 1) + least(j - 1)
  <2>1. j - 1 \in Nat
    OBVIOUS
  <2>. QED BY <1>1, <2>1 DEF Start
<1>3. Start(j + 1) = Base * j + least(j)
  <2>1. (j + 1) - 1 = j
    OBVIOUS
  <2>. QED BY <1>1, <2>1 DEF Start
<1>4. Base * (j - 1) \in Nat /\ Base * j = Base * (j - 1) + Base
  <2>1. PICK k \in Nat : j = k + 1
    <3>. WITNESS j - 1 \in Nat
    <3>. QED OBVIOUS
  <2>2. Base * (k + 1) = Base * k + Base /\ Base * k \in Nat
    BY <1>0
  <2>. QED BY <2>1, <2>2
<1>. QED BY <1>0, <1>2, <1>3, <1>4

LEMMA StartEnds == Start(1) = 0 /\ Start(LastShard + 1) = TotalUsers
<1>0. Base \in Nat /\ Rem \in Nat /\ Rem < WorkerCount /\ TotalUsers = WorkerCount * Base + Rem
  BY DivMod, Sizes
<1>1. Start(1) = 0
  <2>1. Base * (1 - 1) = 0
    BY <1>0
  <2>. QED BY <1>0, <2>1, StartIs
<1>2. CASE TotalUsers < WorkerCount
  <2>1. LastShard = TotalUsers
    BY <1>2, LastShardIs, Sizes
  <2>2. Base = 0
    <3>1. CASE Base >= 1
      <4>1. WorkerCount * Base >= WorkerCount
        <5>1. PICK k \in Nat : Base = k + 1
          <6>1. Base - 1 \in Nat /\ Base = (Base - 1) + 1
            BY <1>0, <3>1
          <6>. QED BY <6>1
        <5>2. WorkerCount * (k + 1) = WorkerCount * k + WorkerCount /\ WorkerCount * k \in Nat
          BY Sizes
        <5>. QED BY <5>1, <5>2, Sizes
      <4>. QED BY <1>0, <1>2, <4>1, Sizes
    <3>. QED BY <1>0, <3>1
  <2>3. Rem = TotalUsers
    BY <1>0, <2>2, Sizes
  <2>. QED BY <1>1, <1>0, <2>1, <2>2, <2>3, StartIs, LastShardIs
<1>3. CASE TotalUsers >= WorkerCount
  <2>1. LastShard = WorkerCount
    BY <1>3, LastShardIs, Sizes
  <2>2. Start(WorkerCount + 1) = Base * WorkerCount + Rem
    <3>1. WorkerCount + 1 \in Nat \ {0} /\ (WorkerCount + 1) - 1 = WorkerCount
      BY Sizes
    <3>2. Start(WorkerCount + 1)
            = Base * WorkerCount + (IF WorkerCount <= Rem THEN WorkerCount ELSE Rem)
      BY <3>1, StartIs
    <3>. QED BY <1>0, <3>2, Sizes
  <2>. QED BY <1>0, <1>1, <2>1, <2>2, Sizes
<1>. QED BY <1>2, <1>3, Sizes

LEMMA ShardsAre ==
    /\ Shards = 1..LastShard /\ Shards \subseteq Workers
    /\ \A w \in Shards :
         /\ Assignments[w].offset = Start(w)
         /\ Assignments[w].offset + Assignments[w].count = Start(w + 1)
         /\ Assignments[w].count \in Nat
<1>1. Shards = 1..LastShard
  BY DEF Shards, Assignments, splitUsers, LastShard
<1>2. Shards \subseteq Workers
  BY <1>1, LastShardIs, Sizes DEF Workers
<1>3. ASSUME NEW w \in Shards
      PROVE  /\ Assignments[w].offset = Start(w)
             /\ Assignments[w].offset + Assignments[w].count = Start(w + 1)
             /\ Assignments[w].count \in Nat
  <2>1. /\ Assignments[w].offset = Start(w)
        /\ Assignments[w].count = Base + (IF w <= Rem THEN 1 ELSE 0)
    BY <1>1 DEF Assignments, splitUsers, Start, Base, Rem, LastShard
  <2>2. w \in Nat \ {0}
    BY <1>1, LastShardIs
  <2>. QED BY <2>1, <2>2, StartIs, DivMod, Sizes
<1>. QED BY <1>1, <1>2, <1>3

LEMMA StartMonotone ==
    ASSUME NEW i \in Nat \ {0}, NEW j \in Nat \ {0}, i <= j
    PROVE  Start(i) <= Start(j)
<1>. DEFINE Below == {k \in i..j : Start(i) <= Start(k)}
<1>1. i \in Below
  BY StartIs
<1>2. PICK m \in Below : \A k \in Below : k <= m
  <2>1. Below \in SUBSET (0..j)
    OBVIOUS
  <2>. HIDE DEF Below
  <2>. QED BY <1>1, <2>1, Greatest
<1>3. CASE m < j
  <2>1. m \in Nat \ {0} /\ m + 1 \in i..j /\ Start(i) <= Start(m)
    BY <1>3
  <2>2. Start(m) <= Start(m + 1) /\ Start(m + 1) \in Nat
    BY <2>1, StartIs, DivMod, Sizes
  <2>3. m + 1 \in Below
    BY <2>1, <2>2, StartIs
  <2>. QED BY <1>2, <2>1, <2>3
<1>4. CASE m = j
  BY <1>4
<1>. QED BY <1>3, <1>4

\* A shard owns the users of its range; an index belongs to its user alone.
LEMMA OwnIs ==
    ASSUME NEW w \in Shards
    PROVE  /\ Own(w) = Start(w)..(Start(w + 1) - 1)
           /\ \A u \in buildUsers(w) :
                /\ u.name \in Own(w) /\ u.seed = u.name
                /\ u.principal = pool[w][(u.name % Len(pool[w])) + 1]
<1>1. /\ Assignments[w].offset = Start(w) /\ Assignments[w].count \in Nat
      /\ Start(w) + Assignments[w].count = Start(w + 1) /\ Start(w) \in Nat
  <2>1. w \in Nat \ {0}
    BY ShardsAre, LastShardIs
  <2>. QED BY <2>1, ShardsAre, StartIs
<1>2. Own(w) = {Start(w) + i : i \in 0..(Assignments[w].count - 1)}
  <2>1. ASSUME NEW i \in 0..(Assignments[w].count - 1)
        PROVE  Start(w) + i \in Own(w)
    <3>. DEFINE u == [name |-> Assignments[w].offset + i, seed |-> Assignments[w].offset + i,
                      principal |-> pool[w][((Assignments[w].offset + i) % Len(pool[w])) + 1]]
    <3>1. u \in buildUsers(w) /\ u.name = Start(w) + i
      BY <1>1 DEF buildUsers
    <3>. HIDE DEF u
    <3>. QED BY <3>1 DEF Own
  <2>2. ASSUME NEW g \in Own(w)
        PROVE  \E i \in 0..(Assignments[w].count - 1) : g = Start(w) + i
    BY <1>1 DEF Own, buildUsers
  <2>. QED BY <2>1, <2>2
<1>3. \A u \in buildUsers(w) :
        u.seed = u.name /\ u.principal = pool[w][(u.name % Len(pool[w])) + 1]
  BY DEF buildUsers
<1>4. Own(w) = Start(w)..(Start(w + 1) - 1)
  <2>1. ASSUME NEW g \in Start(w)..(Start(w + 1) - 1)
        PROVE  g \in Own(w)
    <3>1. g - Start(w) \in 0..(Assignments[w].count - 1) /\ g = Start(w) + (g - Start(w))
      BY <1>1
    <3>. QED BY <1>2, <3>1
  <2>2. ASSUME NEW g \in Own(w)
        PROVE  g \in Start(w)..(Start(w + 1) - 1)
    BY <1>1, <1>2
  <2>. QED BY <2>1, <2>2
<1>. QED BY <1>3, <1>4 DEF Own

LEMMA Partition ==
    /\ \A w \in Shards : Own(w) \subseteq Users
    /\ \A v, w \in Shards : v # w => Own(v) \cap Own(w) = {}
    /\ Users = UNION {Own(w) : w \in Shards}
<1>0. Shards = 1..LastShard /\ LastShard \in Nat \ {0}
  BY ShardsAre, LastShardIs
<1>1. ASSUME NEW w \in Shards
      PROVE  Own(w) \subseteq Users
  <2>1. 0 <= Start(w) /\ Start(w + 1) <= TotalUsers /\ Start(w) \in Nat /\ Start(w + 1) \in Nat
    <3>1. /\ 1 \in Nat \ {0} /\ w \in Nat \ {0} /\ w + 1 \in Nat \ {0} /\ LastShard + 1 \in Nat \ {0}
          /\ 1 <= w /\ w + 1 <= LastShard + 1
      BY <1>0
    <3>2. Start(w + 1) <= Start(LastShard + 1)
      BY <3>1, StartMonotone
    <3>. QED BY <3>1, <3>2, StartIs, StartEnds
  <2>. QED BY <2>1, OwnIs, Sizes DEF Users
<1>2. ASSUME NEW v \in Shards, NEW w \in Shards, v < w
      PROVE  Own(v) \cap Own(w) = {}
  <2>1. /\ Start(v + 1) <= Start(w)
        /\ Start(v) \in Nat /\ Start(v + 1) \in Nat /\ Start(w) \in Nat /\ Start(w + 1) \in Nat
    <3>1. /\ v \in Nat \ {0} /\ w \in Nat \ {0} /\ v + 1 \in Nat \ {0} /\ w + 1 \in Nat \ {0}
          /\ v + 1 <= w
      BY <1>0, <1>2
    <3>2. Start(v + 1) <= Start(w)
      BY <3>1, StartMonotone
    <3>. QED BY <3>1, <3>2, StartIs
  <2>. QED BY <2>1, OwnIs
<1>3. ASSUME NEW g \in Users
      PROVE  \E w \in Shards : g \in Own(w)
  <2>. DEFINE Before == {w \in Shards : Start(w) <= g}
  <2>1. 1 \in Before
    BY <1>0, StartEnds, Sizes DEF Users
  <2>2. PICK w \in Before : \A k \in Before : k <= w
    <3>1. Before \in SUBSET (0..LastShard)
      BY <1>0
    <3>. HIDE DEF Before
    <3>. QED BY <1>0, <2>1, <3>1, Greatest
  <2>3. g < Start(w + 1)
    <3>1. CASE w = LastShard
      BY <3>1, StartEnds, Sizes DEF Users
    <3>2. CASE w < LastShard
      <4>1. w + 1 \in Shards /\ ~(w + 1 <= w)
        BY <1>0, <3>2
      <4>2. ~(Start(w + 1) <= g)
        BY <2>2, <4>1
      <4>3. Start(w + 1) \in Nat
        BY <1>0, StartIs
      <4>. QED BY <4>2, <4>3, Sizes DEF Users
    <3>. QED BY <1>0, <3>1, <3>2
  <2>4. Start(w) \in Nat /\ Start(w + 1) \in Nat
    BY <1>0, StartIs
  <2>. QED BY <2>3, <2>4, OwnIs, Sizes DEF Users
<1>4. \A v, w \in Shards : v # w => Own(v) \cap Own(w) = {}
  BY <1>0, <1>2
<1>. QED BY <1>1, <1>3, <1>4

----------------------------------------------------------------------------
(* Counting: one more request, two disjoint groups of requests *)

Walks == answer \in [Users -> [1..MaxSteps -> Kinds]]

LEMMA MetIs ==
    ASSUME Walks, NEW p \in Requests
    PROVE  /\ Met(p) \in Kinds
           /\ Met(p).code \in Codes /\ Met(p).code \in Nat
           /\ Met(p).lat \in Nat /\ Met(p).class \in STRING
<1>1. Kinds \subseteq [api : APIs \cup {""}, code : Codes, lat : Nat, class : STRING]
  BY ClusterAssumption, Zenon
<1>2. Codes \subseteq Nat
  BY ObservationAssumption, Zenon
<1>3. Met(p) \in Kinds
  BY DEF Walks, Met, Requests
<1>. QED BY <1>1, <1>2, <1>3

LEMMA FiniteRequests == ASSUME NEW R, R \subseteq Requests PROVE IsFiniteSet(R)
<1>1. IsFiniteSet(Users) /\ IsFiniteSet(1..MaxSteps)
  BY Sizes, FS_Interval DEF Users
<1>2. IsFiniteSet(Requests)
  BY <1>1, FS_Product DEF Requests
<1>. QED BY <1>2, FS_Subset

LEMMA CountOne ==
    ASSUME NEW R, R \subseteq Requests, NEW p \in Requests \ R, NEW A
    PROVE  /\ Cardinality(R \cap A) \in Nat
           /\ Cardinality((R \cup {p}) \cap A) = Cardinality(R \cap A) + one(p \in A)
<1>1. IsFiniteSet(R \cap A) /\ Cardinality(R \cap A) \in Nat
  BY FiniteRequests, FS_CardinalityType
<1>2. CASE p \in A
  <2>1. (R \cup {p}) \cap A = (R \cap A) \cup {p} /\ p \notin R \cap A
    BY <1>2
  <2>2. Cardinality((R \cap A) \cup {p}) = Cardinality(R \cap A) + 1
    BY <1>1, <2>1, FS_AddElement
  <2>. QED BY <1>1, <1>2, <2>1, <2>2 DEF one
<1>3. CASE p \notin A
  <2>1. (R \cup {p}) \cap A = R \cap A
    BY <1>3
  <2>. QED BY <1>1, <1>3, <2>1 DEF one
<1>. QED BY <1>2, <1>3

Count(R, A) == Cardinality(R \cap A)

LEMMA CountTwo ==
    ASSUME NEW R \in SUBSET Requests, NEW S \in SUBSET Requests, NEW A, R \cap S = {}
    PROVE  Count(R \cup S, A) = Count(R, A) + Count(S, A)
<1>1. IsFiniteSet(R \cap A) /\ IsFiniteSet(S \cap A)
  BY FiniteRequests
<1>2. /\ (R \cup S) \cap A = (R \cap A) \cup (S \cap A)
      /\ (R \cap A) \cap (S \cap A) = {}
  OBVIOUS
<1>3. Cardinality(R \cap A) \in Nat /\ Cardinality(S \cap A) \in Nat
  BY <1>1, FS_CardinalityType
<1>4. Cardinality((R \cap A) \cup (S \cap A))
        = Cardinality(R \cap A) + Cardinality(S \cap A) - Cardinality({})
  BY <1>1, <1>2, FS_Union
<1>5. Cardinality({}) = 0
  BY FS_EmptySet
<1>6. Cardinality((R \cap A) \cup (S \cap A)) = Cardinality(R \cap A) + Cardinality(S \cap A)
  BY <1>3, <1>4, <1>5
<1>. QED BY <1>2, <1>6, Zenon DEF Count

\* The groups of requests that a collector counts apart.
Late == {p \in Requests : Met(p).class = "timeout"}
With(c) == {p \in Requests : Met(p).code = c}
In(i) == {p \in Requests : bucketIndex(Met(p).lat) = i}
Speaking(g) == {p \in Requests : speaks(g, Plain(p))}
Cap(p) == Min({Met(p).lat, Lows[Overflow]})
Longest(R) == Max({0} \cup {Cap(p) : p \in R})
BadAnswer == {p \in Requests : Met(p).code >= 400 \/ Met(p).class # ""}
Failed == {p \in Requests : failed(Plain(p))}

CountedBy(R, Wrong) ==
  [total |-> Cardinality(R), errors |-> Cardinality(R \cap Wrong),
   timeouts |-> Cardinality(R \cap Late),
   status |-> [c \in Codes \ {0} |-> Cardinality(R \cap With(c))],
   hist |-> [buckets |-> [i \in Buckets |-> Cardinality(R \cap In(i))], max |-> Longest(R)]]

LEMMA CountedIs ==
    ASSUME NEW R, R \subseteq Requests, NEW Wrong
    PROVE  Counted(R, Wrong) = CountedBy(R, Wrong)
<1>1. {p \in R : Met(p).class = "timeout"} = R \cap Late
  BY DEF Late
<1>2. [c \in Codes \ {0} |-> Cardinality({p \in R : Met(p).code = c})]
        = [c \in Codes \ {0} |-> Cardinality(R \cap With(c))]
  <2>1. \A c : {p \in R : Met(p).code = c} = R \cap With(c)
    BY DEF With
  <2>. QED BY <2>1, Zenon
<1>3. [i \in Buckets |-> Cardinality({p \in R : bucketIndex(Met(p).lat) = i})]
        = [i \in Buckets |-> Cardinality(R \cap In(i))]
  <2>1. \A i : {p \in R : bucketIndex(Met(p).lat) = i} = R \cap In(i)
    BY DEF In
  <2>. QED BY <2>1, Zenon
<1>4. Max({0} \cup {Min({Met(p).lat, Lows[Overflow]}) : p \in R}) = Longest(R)
  BY Zenon DEF Longest, Cap
<1>. QED BY <1>1, <1>2, <1>3, <1>4, Zenon DEF Counted, CountedBy

LEMMA CollectorIs ==
    ASSUME NEW R, R \subseteq Requests
    PROVE  CollectorOf(R) = CountedBy(R, BadAnswer)
BY CountedIs, Zenon DEF CollectorOf, BadAnswer

LEMMA SummaryIs ==
    ASSUME NEW R, R \subseteq Requests
    PROVE  SummaryOf(R) = [counts |-> CountedBy(R, Failed),
                           signals |-> [g \in Categories |-> Cardinality(R \cap Speaking(g))]]
<1>1. Counted(R, {p \in Requests : failed(Plain(p))}) = CountedBy(R, Failed)
  BY CountedIs, Zenon DEF Failed
<1>2. \A g : {p \in R : speaks(g, Plain(p))} = R \cap Speaking(g)
  BY DEF Speaking
<1>3. [g \in Categories |-> Cardinality({p \in R : speaks(g, Plain(p))})]
        = [g \in Categories |-> Cardinality(R \cap Speaking(g))]
  BY <1>2, Zenon
<1>. QED BY <1>1, <1>3, Zenon DEF SummaryOf

LEMMA Edges ==
    /\ Len(Lows) \in Nat \ {0} /\ Overflow \in Buckets
    /\ Lows[Overflow] \in Nat
    /\ \A i \in Buckets : Lows[i] \in Nat
<1>1. Lows \in Seq(Nat) /\ Len(Lows) > 1
  BY ObservationAssumption, Zenon
<1>. QED BY <1>1 DEF Buckets, Overflow

LEMMA BucketIn ==
    ASSUME NEW ms \in Nat
    PROVE  bucketIndex(ms) \in Buckets
<1>. DEFINE T == {1} \cup {i \in Buckets : Lows[i] <= ms}
<1>1. T \in SUBSET (0..Len(Lows)) /\ T \subseteq Buckets
  BY Edges DEF Buckets
<1>2. T # {} /\ Len(Lows) \in Nat
  BY Edges
<1>. HIDE DEF T
<1>3. Max(T) \in T
  BY <1>1, <1>2, MaxBounded
<1>. QED BY <1>1, <1>3 DEF bucketIndex, T

LEMMA CapIn ==
    ASSUME Walks, NEW p \in Requests
    PROVE  Cap(p) \in 0..Lows[Overflow]
BY MetIs, Edges, MinTwo DEF Cap

LEMMA LongestTwo ==
    ASSUME Walks, NEW R, R \subseteq Requests, NEW S, S \subseteq Requests
    PROVE  Max({Longest(R), Longest(S)}) = Longest(R \cup S)
<1>. DEFINE caps(Q) == {Cap(p) : p \in Q}
<1>1. caps(R) \in SUBSET (0..Lows[Overflow]) /\ caps(S) \in SUBSET (0..Lows[Overflow])
  BY CapIn
<1>2. caps(R \cup S) = caps(R) \cup caps(S)
  OBVIOUS
<1>3. Longest(R) = Max({0} \cup caps(R)) /\ Longest(S) = Max({0} \cup caps(S))
      /\ Longest(R \cup S) = Max({0} \cup caps(R \cup S))
  BY DEF Longest
<1>. HIDE DEF caps
<1>4. Max({Max({0} \cup caps(R)), Max({0} \cup caps(S))}) = Max({0} \cup (caps(R) \cup caps(S)))
  BY <1>1, MaxJoin, Edges, ZenonT(60)
<1>. QED BY <1>2, <1>3, <1>4, Zenon

LEMMA LongestOne ==
    ASSUME Walks, NEW R, R \subseteq Requests, NEW p \in Requests
    PROVE  Max({Longest(R), Cap(p)}) = Longest(R \cup {p})
<1>1. {Cap(q) : q \in {p}} = {Cap(p)}
  OBVIOUS
<1>2. Max({0} \cup {Cap(p)}) = Cap(p)
  BY CapIn, MaxOne, Edges
<1>3. Longest({p}) = Cap(p)
  BY <1>1, <1>2 DEF Longest
<1>. QED BY <1>3, LongestTwo

\* One more outcome, counted as an error when it is in Wrong.
LEMMA TallyOne ==
    ASSUME Walks, NEW R, R \subseteq Requests, NEW p \in Requests \ R, NEW Wrong,
           NEW o, o.code = Met(p).code, o.lat = Met(p).lat, o.class = Met(p).class,
           NEW bad \in BOOLEAN, bad <=> p \in Wrong
    PROVE  Tally(CountedBy(R, Wrong), o, bad) = CountedBy(R \cup {p}, Wrong)
<1>. DEFINE c == CountedBy(R, Wrong)
            d == CountedBy(R \cup {p}, Wrong)
<1>0. /\ Met(p).code \in Codes /\ Met(p).code \in Nat /\ Met(p).lat \in Nat
      /\ bucketIndex(Met(p).lat) \in Buckets
  BY MetIs, BucketIn
<1>1. Cardinality(R) + 1 = Cardinality(R \cup {p})
  BY FiniteRequests, FS_AddElement
<1>2. Cardinality(R \cap Wrong) + one(bad) = Cardinality((R \cup {p}) \cap Wrong)
  BY CountOne DEF one
<1>3. Cardinality(R \cap Late) + one(o.class = "timeout") = Cardinality((R \cup {p}) \cap Late)
  <2>1. p \in Late <=> o.class = "timeout"
    BY DEF Late
  <2>. QED BY <2>1, CountOne DEF one
<1>4. (IF o.code > 0 THEN [c.status EXCEPT ![o.code] = @ + 1] ELSE c.status)
         = [k \in Codes \ {0} |-> Cardinality((R \cup {p}) \cap With(k))]
  <2>. DEFINE f == [k \in Codes \ {0} |-> Cardinality(R \cap With(k))]
              g == [k \in Codes \ {0} |-> Cardinality((R \cup {p}) \cap With(k))]
  <2>1. c.status = f
    BY DEF CountedBy
  <2>2. \A k : p \in With(k) <=> k = o.code
    BY DEF With
  <2>3. ASSUME NEW k \in Codes \ {0}
        PROVE  /\ f[k] \in Nat
               /\ g[k] = IF k = o.code THEN f[k] + 1 ELSE f[k]
    BY <2>2, CountOne DEF one
  <2>4. DOMAIN f = Codes \ {0} /\ DOMAIN g = Codes \ {0} /\ f = [k \in DOMAIN f |-> f[k]]
        /\ g = [k \in DOMAIN g |-> g[k]]
    OBVIOUS
  <2>. HIDE DEF f, g
  <2>5. CASE o.code > 0
    <3>1. o.code \in Codes \ {0}
      BY <1>0, <2>5
    <3>2. [f EXCEPT ![o.code] = @ + 1] = g
      BY <2>3, <2>4, <3>1
    <3>. QED BY <2>1, <2>5, <3>2 DEF g
  <2>6. CASE ~(o.code > 0)
    <3>1. o.code \notin Codes \ {0}
      BY <1>0, <2>6
    <3>2. f = g
      BY <2>3, <2>4, <3>1
    <3>. QED BY <2>1, <2>6, <3>2 DEF g
  <2>. QED BY <2>5, <2>6
<1>5. Observe(c.hist, o.lat)
         = [buckets |-> [i \in Buckets |-> Cardinality((R \cup {p}) \cap In(i))],
            max |-> Longest(R \cup {p})]
  <2>. DEFINE f == [i \in Buckets |-> Cardinality(R \cap In(i))]
              g == [i \in Buckets |-> Cardinality((R \cup {p}) \cap In(i))]
              b == bucketIndex(o.lat)
  <2>1. c.hist = [buckets |-> f, max |-> Longest(R)]
    BY DEF CountedBy
  <2>2. \A i : p \in In(i) <=> i = b
    BY DEF In
  <2>3. ASSUME NEW i \in Buckets
        PROVE  /\ f[i] \in Nat
               /\ g[i] = IF i = b THEN f[i] + 1 ELSE f[i]
    BY <2>2, CountOne DEF one
  <2>4. DOMAIN f = Buckets /\ DOMAIN g = Buckets /\ f = [k \in DOMAIN f |-> f[k]]
        /\ g = [k \in DOMAIN g |-> g[k]]
    OBVIOUS
  <2>5. [f EXCEPT ![b] = @ + 1] = g
    <3>1. b \in Buckets
      BY <1>0
    <3>. HIDE DEF f, g, b
    <3>. QED BY <2>3, <2>4, <3>1
  <2>6. Max({Longest(R), Min({o.lat, Lows[Overflow]})}) = Longest(R \cup {p})
    BY LongestOne DEF Cap
  <2>. HIDE DEF f, g, b, c
  <2>7. Observe(c.hist, o.lat) = [buckets |-> g, max |-> Longest(R \cup {p})]
    BY <2>1, <2>5, <2>6 DEF Observe, b
  <2>. QED BY <2>7 DEF g
<1>6. c.total = Cardinality(R) /\ c.errors = Cardinality(R \cap Wrong)
      /\ c.timeouts = Cardinality(R \cap Late)
  BY DEF CountedBy
<1>. HIDE DEF c
<1>7. Tally(c, o, bad) = d
  BY <1>1, <1>2, <1>3, <1>4, <1>5, <1>6 DEF Tally, CountedBy
<1>. QED BY <1>7 DEF c

\* An observation, or a result, of request p, as far as the counters read it.
Tells(o, p) == o.code = Met(p).code /\ o.lat = Met(p).lat /\ o.class = Met(p).class

LEMMA RecordOne ==
    ASSUME Walks, NEW R, R \subseteq Requests, NEW p \in Requests \ R, NEW o, Tells(o, p)
    PROVE  Record(CollectorOf(R), o) = CollectorOf(R \cup {p})
<1>. DEFINE bad == o.code >= 400 \/ o.class # ""
<1>1. bad \in BOOLEAN /\ (bad <=> p \in BadAnswer)
  BY DEF BadAnswer, Tells
<1>. HIDE DEF bad
<1>2. Tally(CountedBy(R, BadAnswer), o, bad) = CountedBy(R \cup {p}, BadAnswer)
  BY <1>1, TallyOne DEF Tells
<1>3. CollectorOf(R) = CountedBy(R, BadAnswer)
  BY CollectorIs
<1>4. CollectorOf(R \cup {p}) = CountedBy(R \cup {p}, BadAnswer)
  BY CollectorIs
<1>. QED BY <1>2, <1>3, <1>4, Zenon DEF Record, bad

LEMMA AddOne ==
    ASSUME Walks, NEW R, R \subseteq Requests, NEW p \in Requests \ R,
           NEW o, Tells(o, p), o.mutated = FALSE
    PROVE  AddSummary(SummaryOf(R), o) = SummaryOf(R \cup {p})
<1>1. failed(o) \in BOOLEAN /\ (failed(o) <=> p \in Failed)
  BY DEF Failed, Tells, failed, Plain
<1>2. Tally(CountedBy(R, Failed), o, failed(o)) = CountedBy(R \cup {p}, Failed)
  <2>. HIDE DEF failed
  <2>. QED BY <1>1, TallyOne DEF Tells
<1>3. ASSUME NEW g \in Categories
      PROVE  Cardinality(R \cap Speaking(g)) + one(speaks(g, o))
               = Cardinality((R \cup {p}) \cap Speaking(g))
  <2>1. speaks(g, Plain(p)) <=> speaks(g, o)
    <3>1. Plain(p).code = o.code /\ Plain(p).class = o.class /\ Plain(p).mutated = o.mutated
      BY DEF Plain, Tells
    <3>2. \A x, y : x.code = y.code /\ x.class = y.class /\ x.mutated = y.mutated =>
             /\ failed(x) <=> failed(y)
             /\ unavailable(x) <=> unavailable(y)
             /\ contractSignal(x) <=> contractSignal(y)
             /\ mutationSignal(x) <=> mutationSignal(y)
      BY DEF failed, unavailable, contractSignal, mutationSignal
    <3>. QED BY <3>1, <3>2 DEF speaks, Categories
  <2>2. p \in Speaking(g) <=> speaks(g, o)
    BY <2>1 DEF Speaking
  <2>. QED BY <2>2, CountOne DEF one
<1>4. SummaryOf(R) = [counts |-> CountedBy(R, Failed),
                      signals |-> [g \in Categories |-> Cardinality(R \cap Speaking(g))]]
  BY SummaryIs
<1>5. SummaryOf(R \cup {p}) = [counts |-> CountedBy(R \cup {p}, Failed),
        signals |-> [g \in Categories |-> Cardinality((R \cup {p}) \cap Speaking(g))]]
  BY SummaryIs
<1>6. tallyFindings(SummaryOf(R).signals, o)
        = [g \in Categories |-> Cardinality((R \cup {p}) \cap Speaking(g))]
  BY <1>3, <1>4 DEF tallyFindings
<1>7. SummaryOf(R).counts = CountedBy(R, Failed)
  BY <1>4
<1>. QED BY <1>2, <1>5, <1>6, <1>7, Zenon DEF AddSummary

LEMMA CountedTwo ==
    ASSUME Walks, NEW R, R \subseteq Requests, NEW S, S \subseteq Requests, R \cap S = {}
    PROVE  MergeSummary(SummaryOf(R), SummaryOf(S)) = SummaryOf(R \cup S)
<1>. DEFINE r == SummaryOf(R)
            s == SummaryOf(S)
            d == CountedBy(R \cup S, Failed)
<1>1. /\ r = [counts |-> CountedBy(R, Failed),
               signals |-> [g \in Categories |-> Cardinality(R \cap Speaking(g))]]
      /\ s = [counts |-> CountedBy(S, Failed),
               signals |-> [g \in Categories |-> Cardinality(S \cap Speaking(g))]]
      /\ SummaryOf(R \cup S) = [counts |-> d,
               signals |-> [g \in Categories |-> Cardinality((R \cup S) \cap Speaking(g))]]
  BY SummaryIs
<1>. DEFINE q == CountedBy(R, Failed)
            t == CountedBy(S, Failed)
<1>2. r.counts = q /\ s.counts = t
  BY <1>1
<1>3. ASSUME NEW A
      PROVE  Cardinality(R \cap A) + Cardinality(S \cap A) = Cardinality((R \cup S) \cap A)
  <2>1. Count(R \cup S, A) = Count(R, A) + Count(S, A)
    BY CountTwo
  <2>. QED BY <2>1 DEF Count
<1>4. /\ q.total + t.total = d.total
      /\ q.errors + t.errors = d.errors
      /\ q.timeouts + t.timeouts = d.timeouts
  <2>1. R \cap (R \cup S) = R /\ S \cap (R \cup S) = S /\ (R \cup S) \cap (R \cup S) = R \cup S
    OBVIOUS
  <2>2. Cardinality(R) + Cardinality(S) = Cardinality(R \cup S)
    BY <1>3, <2>1
  <2>. QED BY <1>3, <2>2 DEF CountedBy
<1>5. [c \in Codes \ {0} |-> q.status[c] + t.status[c]] = d.status
  <2>1. ASSUME NEW c \in Codes \ {0}
        PROVE  q.status[c] + t.status[c] = Cardinality((R \cup S) \cap With(c))
    <3>1. q.status[c] = Cardinality(R \cap With(c)) /\ t.status[c] = Cardinality(S \cap With(c))
      BY DEF CountedBy
    <3>. QED BY <1>3, <3>1
  <2>2. d.status = [c \in Codes \ {0} |-> Cardinality((R \cup S) \cap With(c))]
    BY DEF CountedBy
  <2>. HIDE DEF q, t, d
  <2>. QED BY <2>1, <2>2
<1>6. MergeHistogram(q.hist, t.hist) = d.hist
  <2>1. ASSUME NEW i \in Buckets
        PROVE  q.hist.buckets[i] + t.hist.buckets[i] = Cardinality((R \cup S) \cap In(i))
    <3>1. /\ q.hist.buckets[i] = Cardinality(R \cap In(i))
          /\ t.hist.buckets[i] = Cardinality(S \cap In(i))
      BY DEF CountedBy
    <3>. QED BY <1>3, <3>1
  <2>2. Max({q.hist.max, t.hist.max}) = Longest(R \cup S)
    <3>1. q.hist.max = Longest(R) /\ t.hist.max = Longest(S)
      BY DEF CountedBy
    <3>. HIDE DEF q, t
    <3>. QED BY <3>1, LongestTwo
  <2>3. d.hist = [buckets |-> [i \in Buckets |-> Cardinality((R \cup S) \cap In(i))],
                  max |-> Longest(R \cup S)]
    BY DEF CountedBy
  <2>. HIDE DEF q, t, d
  <2>. QED BY <2>1, <2>2, <2>3 DEF MergeHistogram
<1>7. [g \in Categories |-> r.signals[g] + s.signals[g]]
        = [g \in Categories |-> Cardinality((R \cup S) \cap Speaking(g))]
  <2>1. /\ r.signals = [g \in Categories |-> Cardinality(R \cap Speaking(g))]
        /\ s.signals = [g \in Categories |-> Cardinality(S \cap Speaking(g))]
    BY <1>1
  <2>2. ASSUME NEW g \in Categories
        PROVE  r.signals[g] + s.signals[g] = Cardinality((R \cup S) \cap Speaking(g))
    <3>. HIDE DEF r, s
    <3>. QED BY <1>3, <2>1
  <2>. HIDE DEF r, s
  <2>. QED BY <2>2
<1>8. d = [total |-> d.total, errors |-> d.errors, timeouts |-> d.timeouts,
           status |-> d.status, hist |-> d.hist]
  BY DEF CountedBy
<1>. HIDE DEF r, s, d, q, t
<1>9. MergeSummary(r, s) = SummaryOf(R \cup S)
  BY <1>1, <1>2, <1>4, <1>5, <1>6, <1>7, <1>8 DEF MergeSummary
<1>. QED BY <1>9 DEF r, s

LEMMA CountedNone == CollectorOf({}) = NewCollector /\ SummaryOf({}) = NewSummary
<1>1. \A A : {} \cap A = {}
  OBVIOUS
<1>2. Cardinality({}) = 0
  BY FS_EmptySet
<1>3. Longest({}) = 0
  <2>1. {0} \cup {Cap(p) : p \in {}} = {0}
    OBVIOUS
  <2>2. Max({0}) = 0
    <3>1. 0 \in {0} /\ {0} \in SUBSET Int /\ \A k \in {0} : k <= 0
      OBVIOUS
    <3>. QED BY <3>1, MaxIs
  <2>. QED BY <2>1, <2>2 DEF Longest
<1>4. \A Wrong : CountedBy({}, Wrong) = NewCollector
  <2>. SUFFICES ASSUME NEW Wrong PROVE CountedBy({}, Wrong) = NewCollector
    OBVIOUS
  <2>1. [c \in Codes \ {0} |-> Cardinality({} \cap With(c))] = [c \in Codes \ {0} |-> 0]
    BY <1>1, <1>2
  <2>2. [i \in Buckets |-> Cardinality({} \cap In(i))] = [i \in Buckets |-> 0]
    BY <1>1, <1>2
  <2>. QED BY <1>1, <1>2, <1>3, <2>1, <2>2, Zenon DEF CountedBy, NewCollector, NewHistogram
<1>5. [g \in Categories |-> Cardinality({} \cap Speaking(g))] = [g \in Categories |-> 0]
  BY <1>1, <1>2
<1>6. {} \subseteq Requests
  OBVIOUS
<1>7. CollectorOf({}) = NewCollector
  BY <1>4, <1>6, CollectorIs, Zenon
<1>8. SummaryOf({}) = NewSummary
  BY <1>4, <1>5, <1>6, SummaryIs, Zenon DEF NewSummary
<1>. QED BY <1>7, <1>8

\* What Export drops, LoadSummary puts back.
LEMMA ExportLoads ==
    ASSUME NEW R, R \subseteq Requests
    PROVE  Loadable(Export(SummaryOf(R))) /\ LoadSummary(Export(SummaryOf(R))) = SummaryOf(R)
<1>. DEFINE s == SummaryOf(R)
            d == Export(s)
            get(f, k) == IF k \in DOMAIN f THEN f[k] ELSE 0
<1>1. s = [counts |-> CountedBy(R, Failed),
           signals |-> [g \in Categories |-> Cardinality(R \cap Speaking(g))]]
  BY SummaryIs
<1>2. \A A : Cardinality(R \cap A) \in Nat
  BY FiniteRequests, FS_CardinalityType
<1>3. /\ d.total = s.counts.total /\ d.errors = s.counts.errors
      /\ d.timeouts = s.counts.timeouts
      /\ d.buckets = s.counts.hist.buckets /\ d.max = s.counts.hist.max
      /\ d.status = [k \in {c \in DOMAIN s.counts.status : s.counts.status[c] > 0} |->
                       s.counts.status[k]]
      /\ d.signals = [k \in {c \in DOMAIN s.signals : s.signals[c] > 0} |-> s.signals[k]]
  BY DEF Export, RestrictValues, Restrict
<1>. DEFINE q == CountedBy(R, Failed)
<1>4. s.counts = q /\ s = [counts |-> s.counts, signals |-> s.signals]
  BY <1>1
<1>5. q = [total |-> q.total, errors |-> q.errors, timeouts |-> q.timeouts,
           status |-> q.status, hist |-> q.hist]
  BY DEF CountedBy
<1>6. q.status = [c \in Codes \ {0} |-> Cardinality(R \cap With(c))]
  BY DEF CountedBy
<1>7. q.hist = [buckets |-> q.hist.buckets, max |-> q.hist.max] /\ DOMAIN q.hist.buckets = Buckets
  BY DEF CountedBy
<1>. HIDE DEF s, d, q
<1>8. /\ DOMAIN s.counts.status = Codes \ {0}
      /\ \A c \in Codes \ {0} : s.counts.status[c] \in Nat
      /\ s.counts.status = [c \in Codes \ {0} |-> s.counts.status[c]]
  BY <1>2, <1>4, <1>6
<1>9. /\ DOMAIN s.signals = Categories
      /\ \A c \in Categories : s.signals[c] \in Nat
      /\ s.signals = [c \in Categories |-> s.signals[c]]
  BY <1>1, <1>2
<1>10. DOMAIN s.counts.hist.buckets = Buckets
  BY <1>4, <1>7
<1>11. /\ s = [counts |-> s.counts, signals |-> s.signals]
      /\ s.counts = [total |-> s.counts.total, errors |-> s.counts.errors,
                      timeouts |-> s.counts.timeouts, status |-> s.counts.status,
                      hist |-> s.counts.hist]
      /\ s.counts.hist = [buckets |-> s.counts.hist.buckets, max |-> s.counts.hist.max]
  BY <1>4, <1>5, <1>7
<1>12. [c \in Codes \ {0} |-> get(d.status, c)] = s.counts.status
  BY <1>3, <1>8
<1>13. [g \in Categories |-> get(d.signals, g)] = s.signals
  BY <1>3, <1>9
<1>14. LoadSummary(d)
         = [counts |-> [total |-> d.total, errors |-> d.errors, timeouts |-> d.timeouts,
                        status |-> [c \in Codes \ {0} |-> get(d.status, c)],
                        hist |-> [buckets |-> d.buckets, max |-> d.max]],
            signals |-> [g \in Categories |-> get(d.signals, g)]]
  BY Zenon DEF LoadSummary
<1>15. LoadSummary(d) = s
  <2>. HIDE DEF get
  <2>. QED BY <1>3, <1>11, <1>12, <1>13, <1>14
<1>16. Loadable(d)
  BY <1>3, <1>10 DEF Loadable
<1>. QED BY <1>15, <1>16 DEF d, s

----------------------------------------------------------------------------
(* Control: types, who may act, and when a shard's call ends *)

LEMMA InvParts ==
    ASSUME ClusterInv
    PROVE  Mode /\ ControlInv /\ StreamInv /\ SummaryInv /\ Walks
BY DEF ClusterInv, Mode, Walks

LEMMA Active ==
    ASSUME ControlInv, NEW w \in Workers, worker[w] # "idle" \/ shard[w] # "end"
    PROVE  w \in Shards
BY DEF ControlInv

LEMMA OwnUser ==
    ASSUME NEW w \in Shards, NEW u \in buildUsers(w)
    PROVE  u.name \in Own(w) /\ u.name \in Users /\ u.seed = u.name
BY OwnIs, Partition

LEMMA OwnStays == ASSUME UNCHANGED inputs, NEW w PROVE Own(w)' = Own(w)
BY DEF inputs, Own, buildUsers

LEMMA ModeStep ==
    ASSUME Mode, ControlInv, [Next]_vars
    PROVE  Mode'
<1>. USE DEF Mode, inputs, workerSide, master
<1>1. CASE UNCHANGED vars
  BY <1>1 DEF vars
<1>2. CASE MergeNext
  BY <1>2 DEF MergeNext
<1>3. CASE Return
  BY <1>3 DEF Return
<1>4. CASE Cancel
  BY <1>4 DEF Cancel
<1>5. ASSUME NEW w \in Workers, WorkerNext(w)
      PROVE  Mode'
  <2>1. CASE Open(w)
    BY <2>1 DEF Open
  <2>2. CASE UserStep(w)
    <3>1. PICK u \in buildUsers(w) :
            /\ finished[u.name] < MaxSteps
            /\ finished' = [finished EXCEPT ![u.name] = @ + 1]
            /\ DOMAIN wire' = Workers /\ DOMAIN summary' = Workers
      BY <2>2 DEF UserStep
    <3>2. w \in Shards
      BY <2>2, Active DEF UserStep
    <3>3. u.name \in Users
      BY <3>2, OwnUser
    <3>4. finished' \in [Users -> 0..MaxSteps]
      BY <3>1, <3>3, Sizes
    <3>. QED BY <2>2, <3>1, <3>4 DEF UserStep
  <2>3. CASE ShardEnds(w)
    BY <2>3 DEF ShardEnds
  <2>4. CASE WorkerFails(w)
    BY <2>4 DEF WorkerFails
  <2>5. CASE WorkerStops(w)
    BY <2>5 DEF WorkerStops
  <2>. QED BY <1>5, <2>1, <2>2, <2>3, <2>4, <2>5 DEF WorkerNext
<1>6. ASSUME NEW w \in Workers, MasterNext(w)
      PROVE  Mode'
  <2>1. CASE Recv(w)
    BY <2>1 DEF Recv
  <2>2. CASE Add(w)
    BY <2>2 DEF Add
  <2>3. CASE RecvSummary(w)
    BY <2>3 DEF RecvSummary
  <2>4. CASE RecvEOF(w)
    BY <2>4 DEF RecvEOF
  <2>5. CASE RecvError(w)
    BY <2>5 DEF RecvError
  <2>. QED BY <1>6, <2>1, <2>2, <2>3, <2>4, <2>5 DEF MasterNext
<1>. QED BY <1>1, <1>2, <1>3, <1>4, <1>5, <1>6 DEF Next

LEMMA ControlStep ==
    ASSUME ClusterInv, [Next]_vars
    PROVE  ControlInv'
<1>. USE DEF inputs, workerSide, master
<1>0. Mode /\ ControlInv /\ StreamInv /\ SummaryInv
  BY InvParts
<1>1. CASE UNCHANGED vars
  <2>1. \A w : Own(w)' = Own(w)
    BY <1>1, OwnStays DEF vars
  <2>. QED BY <1>0, <1>1, <2>1 DEF vars, ControlInv, Barrier
<1>2. CASE MergeNext \/ Return \/ Cancel
  <2>1. \A w : Own(w)' = Own(w)
    BY <1>2, OwnStays DEF MergeNext, Return, Cancel
  <2>. QED BY <1>0, <1>2, <2>1 DEF MergeNext, Return, Cancel, ControlInv, Barrier
<1>3. ASSUME NEW w \in Workers, WorkerNext(w) \/ MasterNext(w)
      PROVE  ControlInv'
  <2>0. w \in Shards
    BY <1>0, <1>3, Active DEF WorkerNext, MasterNext, Open, UserStep, ShardEnds, WorkerFails,
         WorkerStops, Recv, Add, RecvSummary, RecvEOF, RecvError, CallFails
  <2>1. \A v : Own(v)' = Own(v)
    BY <1>3, OwnStays DEF WorkerNext, MasterNext, Open, UserStep, ShardEnds, WorkerFails,
         WorkerStops, Recv, Add, RecvSummary, RecvEOF, RecvError
  <2>. USE DEF Mode
  <2>2. CASE UserStep(w)
    <3>1. PICK u \in buildUsers(w) : finished' = [finished EXCEPT ![u.name] = @ + 1]
      BY <2>2 DEF UserStep
    <3>2. u.name \in Own(w)
      BY <2>0, OwnUser
    <3>3. \A v \in Shards : v # w => \A g \in Own(v) : finished'[g] = finished[g]
      BY <1>0, <2>0, <3>1, <3>2, Partition
    <3>. QED BY <1>0, <2>1, <2>2, <3>3 DEF UserStep, ControlInv, Barrier
  <2>3. CASE Open(w) \/ ShardEnds(w) \/ WorkerFails(w) \/ WorkerStops(w)
    <3>1. ShardEnds(w) => \A g \in Own(w) : finished[g] = MaxSteps
      BY DEF ShardEnds, Own
    <3>2. CASE Open(w)
      BY <1>0, <2>0, <2>1, <3>2 DEF Open, ControlInv, Barrier
    <3>3. CASE ShardEnds(w)
      BY <1>0, <2>0, <2>1, <3>1, <3>3 DEF ShardEnds, ControlInv, Barrier
    <3>4. CASE WorkerFails(w)
      BY <1>0, <2>0, <2>1, <3>4 DEF WorkerFails, ControlInv, Barrier
    <3>5. CASE WorkerStops(w)
      BY <1>0, <2>0, <2>1, <3>5 DEF WorkerStops, ControlInv, Barrier
    <3>. QED BY <2>3, <3>2, <3>3, <3>4, <3>5
  <2>4. CASE Recv(w) \/ Add(w) \/ RecvEOF(w) \/ RecvError(w)
    <3>1. CASE Recv(w)
      BY <1>0, <2>0, <2>1, <3>1 DEF Recv, ControlInv, Barrier
    <3>2. CASE Add(w)
      BY <1>0, <2>0, <2>1, <3>2 DEF Add, ControlInv, Barrier
    <3>3. CASE RecvEOF(w)
      BY <1>0, <2>0, <2>1, <3>3 DEF RecvEOF, ControlInv, Barrier
    <3>4. CASE RecvError(w)
      BY <1>0, <2>0, <2>1, <3>4 DEF RecvError, CallFails, ControlInv, Barrier
    <3>. QED BY <2>4, <3>1, <3>2, <3>3, <3>4
  <2>5. CASE RecvSummary(w)
    BY <1>0, <2>0, <2>1, <2>5 DEF RecvSummary, ControlInv, Barrier, SummaryInv
  <2>. QED BY <1>3, <2>2, <2>3, <2>4, <2>5 DEF WorkerNext, MasterNext
<1>. QED BY <1>1, <1>2, <1>3 DEF Next

----------------------------------------------------------------------------
(* Requests: those of a shard, those that are finished, and what is sent of them *)

LEMMA RequestsOf ==
    /\ \A w \in Shards : AllOf(w) \subseteq Requests
    /\ \A v, w \in Shards : v # w => AllOf(v) \cap AllOf(w) = {}
    /\ Requests = UNION {AllOf(w) : w \in Shards}
<1>1. \A w \in Shards : AllOf(w) \subseteq Requests
  BY Partition DEF AllOf, Requests
<1>2. \A v, w \in Shards : v # w => AllOf(v) \cap AllOf(w) = {}
  BY Partition DEF AllOf
<1>3. ASSUME NEW p \in Requests
      PROVE  \E w \in Shards : p \in AllOf(w)
  <2>1. p[1] \in Users /\ p[2] \in 1..MaxSteps /\ p = <<p[1], p[2]>>
    BY DEF Requests
  <2>2. PICK w \in Shards : p[1] \in Own(w)
    BY <2>1, Partition
  <2>. QED BY <2>1, <2>2 DEF AllOf
<1>. QED BY <1>1, <1>2, <1>3

LEMMA DoneSub ==
    /\ Done \subseteq Requests
    /\ \A w : DoneBy(w) \subseteq Done
    /\ \A w \in Shards : DoneBy(w) \subseteq AllOf(w)
BY DEF Done, DoneBy, AllOf, Requests

\* When the last user of a shard is through, all of its requests are finished.
LEMMA DoneAll ==
    ASSUME NEW w \in Shards, \A g \in Own(w) : finished[g] = MaxSteps
    PROVE  DoneBy(w) = AllOf(w)
<1>1. ASSUME NEW p \in AllOf(w)
      PROVE  p \in DoneBy(w)
  <2>1. p[1] \in Own(w) /\ p[2] \in 1..MaxSteps /\ p \in Requests
    BY RequestsOf DEF AllOf
  <2>2. p[2] <= finished[p[1]]
    BY <2>1, Sizes
  <2>. QED BY <2>1, <2>2 DEF DoneBy, Done
<1>. QED BY <1>1, DoneSub

\* A user that finishes a request adds it, for its own shard alone.
LEMMA DoneGrows ==
    ASSUME finished \in [Users -> 0..MaxSteps], UNCHANGED inputs,
           NEW w \in Shards, NEW u \in buildUsers(w), finished[u.name] < MaxSteps,
           finished' = [finished EXCEPT ![u.name] = @ + 1],
           NEW p, p = <<u.name, finished[u.name] + 1>>
    PROVE  /\ p \in AllOf(w) /\ p \in Requests /\ p \notin Done
           /\ Done' = Done \cup {p}
           /\ DoneBy(w)' = DoneBy(w) \cup {p}
           /\ \A v \in Shards : v # w => DoneBy(v)' = DoneBy(v)
<1>1. u.name \in Users /\ u.name \in Own(w)
  BY OwnUser
<1>2. finished[u.name] + 1 \in 1..MaxSteps /\ finished[u.name] \in 0..MaxSteps
  BY <1>1, Sizes
<1>3. p \in AllOf(w) /\ p \in Requests
  BY <1>1, <1>2 DEF AllOf, Requests
<1>4. p \notin Done
  BY <1>2 DEF Done
<1>5. ASSUME NEW q \in Requests
      PROVE  q[2] <= finished'[q[1]] <=> q[2] <= finished[q[1]] \/ q = p
  <2>1. q = <<q[1], q[2]>> /\ q[1] \in Users /\ q[2] \in 1..MaxSteps
    BY DEF Requests
  <2>2. CASE q[1] = u.name
    <3>1. finished'[q[1]] = finished[u.name] + 1 /\ finished[q[1]] = finished[u.name]
      BY <1>1, <2>2
    <3>2. q = p <=> q[2] = finished[u.name] + 1
      BY <2>1, <2>2
    <3>. QED BY <1>2, <2>1, <3>1, <3>2
  <2>3. CASE q[1] # u.name
    <3>1. finished'[q[1]] = finished[q[1]] /\ q # p
      BY <1>1, <2>1, <2>3
    <3>. QED BY <3>1
  <2>. QED BY <2>2, <2>3
<1>6. Done' = Done \cup {p}
  BY <1>3, <1>5 DEF Done, Requests
<1>7. \A v : Own(v)' = Own(v)
  BY OwnStays
<1>8. p[1] = u.name
  OBVIOUS
<1>9. DoneBy(w)' = DoneBy(w) \cup {p}
  BY <1>1, <1>6, <1>7, <1>8 DEF DoneBy
<1>10. ASSUME NEW v \in Shards, v # w
       PROVE  DoneBy(v)' = DoneBy(v)
  <2>1. p[1] \notin Own(v)
    BY <1>1, <1>8, <1>10, Partition
  <2>. QED BY <1>6, <1>7, <2>1 DEF DoneBy
<1>. QED BY <1>3, <1>4, <1>6, <1>9, <1>10

LEMMA SentIs ==
    ASSUME Walks, NEW w \in Shards, NEW r \in Sent(w), NEW p, p = <<r.user, r.step>>
    PROVE  /\ p \in AllOf(w) /\ p \in Requests
           /\ Tells(r, p)
           /\ [api |-> r.api, code |-> r.code, lat |-> r.lat, class |-> r.class] = Met(p)
           /\ r.ranSeed = r.user
           /\ r.ranAs = pool[w][(r.user % Len(pool[w])) + 1]
<1>1. PICK u \in buildUsers(w), k \in 1..MaxSteps : r = toShardResult(u, k)
  BY DEF Sent
<1>2. /\ u.name \in Own(w) /\ u.name \in Users /\ u.seed = u.name
      /\ u.principal = pool[w][(u.name % Len(pool[w])) + 1]
  BY OwnUser, OwnIs
<1>3. /\ r.user = u.name /\ r.step = k /\ r.ranSeed = u.seed /\ r.ranAs = u.principal
      /\ r.api = answer[u.seed][k].api /\ r.code = answer[u.seed][k].code
      /\ r.lat = answer[u.seed][k].lat /\ r.class = answer[u.seed][k].class
  BY <1>1 DEF toShardResult
<1>4. p = <<u.name, k>> /\ Met(p) = answer[u.seed][k]
  BY <1>2, <1>3 DEF Met
<1>5. p \in AllOf(w) /\ p \in Requests
  BY <1>2, <1>4 DEF AllOf, Requests
<1>6. Met(p) = [api |-> Met(p).api, code |-> Met(p).code, lat |-> Met(p).lat,
                class |-> Met(p).class]
  <2>1. Kinds \subseteq [api : APIs \cup {""}, code : Codes, lat : Nat, class : STRING]
    BY ClusterAssumption, Zenon
  <2>2. Met(p) \in Kinds
    BY <1>5, MetIs
  <2>. QED BY <2>1, <2>2
<1>. QED BY <1>2, <1>3, <1>4, <1>5, <1>6 DEF Tells

LEMMA StampIs ==
    ASSUME NEW r, NEW t, NEW o, o = Observation(r, t)
    PROVE  /\ ObsKey(o) = <<r.user, r.step>> /\ o.mutated = FALSE
           /\ o.api = r.api /\ o.code = r.code /\ o.lat = r.lat /\ o.class = r.class
           /\ o.session = r.user /\ o.seed = r.user /\ o.step = r.step
           /\ o.ranSeed = r.ranSeed /\ o.ranAs = r.ranAs
BY DEF Observation, ObsKey

LEMMA SentStays == ASSUME UNCHANGED inputs, NEW w PROVE Sent(w)' = Sent(w) /\ AllOf(w)' = AllOf(w)
<1>1. answer' = answer /\ pool' = pool
  BY DEF inputs
<1>. QED BY <1>1 DEF Sent, AllOf, Own, buildUsers, toShardResult

----------------------------------------------------------------------------
(* The streamed run *)

\* Every key on a shard's wire or in its hand is of that shard.
LEMMA KeysOf ==
    ASSUME Walks, NEW w \in Shards, ShardStream(w)
    PROVE  /\ OnWire(w) \subseteq AllOf(w) /\ InHand(w) \subseteq AllOf(w)
           /\ \A i \in DOMAIN wire[w] : wire[w][i] \in Sent(w)
<1>1. \A i \in DOMAIN wire[w] : wire[w][i] \in Sent(w)
  BY LenProperties, ElementOfSeq DEF ShardStream
<1>2. OnWire(w) \subseteq AllOf(w)
  BY <1>1, SentIs DEF OnWire
<1>3. InHand(w) \subseteq AllOf(w)
  <2>1. CASE shard[w] = "add"
    <3>1. PICK r \in Sent(w), t \in 1..clock : stamped[w] = Observation(r, t)
      BY <2>1 DEF ShardStream
    <3>2. ObsKey(stamped[w]) = <<r.user, r.step>>
      BY <3>1, StampIs, ZenonT(60)
    <3>. QED BY <2>1, <3>2, SentIs DEF InHand
  <2>. QED BY <2>1 DEF InHand
<1>. QED BY <1>1, <1>2, <1>3

\* Steps that move no result.
LEMMA StreamStays ==
    ASSUME mode = "stream", StreamInv, UNCHANGED inputs,
           UNCHANGED <<wire, stamped, agg, collector, clock, finished, summaries>>,
           \A v \in Shards :
             /\ shard'[v] = "add" <=> shard[v] = "add"
             /\ worker'[v] # "failed" => worker[v] # "failed"
             /\ shard'[v] = "end" /\ ~firstErr' => wire[v] = <<>>
    PROVE  StreamInv'
<1>1. /\ Seen' = Seen /\ Done' = Done
      /\ \A v \in Shards : /\ InHand(v)' = InHand(v) /\ OnWire(v)' = OnWire(v)
                          /\ DoneBy(v)' = DoneBy(v) /\ Sent(v)' = Sent(v)
  <2>1. Seen' = Seen /\ Done' = Done
    BY DEF Seen, Done
  <2>2. ASSUME NEW v \in Shards
        PROVE  /\ InHand(v)' = InHand(v) /\ OnWire(v)' = OnWire(v)
               /\ DoneBy(v)' = DoneBy(v) /\ Sent(v)' = Sent(v)
    <3>1. Own(v)' = Own(v) /\ Sent(v)' = Sent(v)
      BY OwnStays, SentStays
    <3>2. DoneBy(v)' = DoneBy(v)
      BY <2>1, <3>1 DEF DoneBy
    <3>3. InHand(v)' = InHand(v)
      BY DEF InHand
    <3>4. OnWire(v)' = OnWire(v)
      BY DEF OnWire
    <3>. QED BY <3>1, <3>2, <3>3, <3>4
  <2>. QED BY <2>1, <2>2
<1>2. Received' = Received /\ Stamps' = Stamps
  <2>1. {InHand(v)' : v \in Shards} = {InHand(v) : v \in Shards}
    BY <1>1
  <2>2. {Sent(v)' : v \in Shards} = {Sent(v) : v \in Shards}
    BY <1>1
  <2>. QED BY <1>1, <2>1, <2>2 DEF Received, Stamps
<1>3. ASSUME NEW v \in Shards
      PROVE  ShardStream(v)'
  <2>1. ShardStream(v)
    BY DEF StreamInv
  <2>. QED BY <1>1, <2>1 DEF ShardStream
<1>4. CollectorOf(Received)' = CollectorOf(Received)
  BY <1>2 DEF CollectorOf, Counted, Requests, Met, inputs
<1>. QED BY <1>1, <1>2, <1>3, <1>4 DEF StreamInv

\* What a longer, or a shorter, wire carries.
LEMMA WireAppend ==
    ASSUME NEW S, NEW q \in Seq(S), NEW e \in S
    PROVE  /\ Append(q, e) \in Seq(S)
           /\ DOMAIN q = 1..Len(q) /\ Len(q) \in Nat
           /\ DOMAIN Append(q, e) = DOMAIN q \cup {Len(q) + 1} /\ Len(q) + 1 \notin DOMAIN q
           /\ \A i \in DOMAIN q : Append(q, e)[i] = q[i]
           /\ Append(q, e)[Len(q) + 1] = e
<1>1. DOMAIN q = 1..Len(q) /\ Len(q) \in Nat
  BY LenProperties
<1>2. /\ Append(q, e) \in Seq(S) /\ Len(Append(q, e)) = Len(q) + 1
      /\ \A i \in 1..Len(q) : Append(q, e)[i] = q[i]
      /\ Append(q, e)[Len(q) + 1] = e
  BY AppendProperties
<1>3. DOMAIN Append(q, e) = 1..(Len(q) + 1)
  BY <1>2, LenProperties
<1>. QED BY <1>1, <1>2, <1>3

LEMMA WireTail ==
    ASSUME NEW S, NEW q \in Seq(S), q # <<>>
    PROVE  /\ Head(q) \in S /\ Head(q) = q[1] /\ Tail(q) \in Seq(S)
           /\ 1 \in DOMAIN q
           /\ \A i \in DOMAIN Tail(q) : i + 1 \in DOMAIN q /\ i + 1 # 1 /\ Tail(q)[i] = q[i + 1]
           /\ \A j \in DOMAIN q : j # 1 => j - 1 \in DOMAIN Tail(q) /\ Tail(q)[j - 1] = q[j]
           /\ \A i, j \in DOMAIN Tail(q) : i + 1 = j + 1 => i = j
<1>1. DOMAIN q = 1..Len(q) /\ Len(q) \in Nat \ {0}
  BY LenProperties, EmptySeq
<1>2. /\ Head(q) \in S /\ Tail(q) \in Seq(S) /\ Len(Tail(q)) = Len(q) - 1
      /\ \A i \in 1..Len(Tail(q)) : Tail(q)[i] = q[i + 1]
  BY HeadTailProperties
<1>3. DOMAIN Tail(q) = 1..(Len(q) - 1)
  BY <1>2, LenProperties
<1>4. Head(q) = q[1]
  OBVIOUS
<1>5. \A j \in DOMAIN q : j # 1 => j - 1 \in DOMAIN Tail(q) /\ Tail(q)[j - 1] = q[j]
  <2>1. ASSUME NEW j \in DOMAIN q, j # 1
        PROVE  j - 1 \in DOMAIN Tail(q) /\ Tail(q)[j - 1] = q[j]
    <3>1. j - 1 \in 1..(Len(q) - 1) /\ (j - 1) + 1 = j
      BY <1>1, <2>1
    <3>. QED BY <1>2, <1>3, <3>1
  <2>. QED BY <2>1
<1>6. \A i \in DOMAIN Tail(q) : i + 1 \in DOMAIN q /\ i + 1 # 1 /\ Tail(q)[i] = q[i + 1]
  BY <1>1, <1>2, <1>3
<1>7. \A i, j \in DOMAIN Tail(q) : i + 1 = j + 1 => i = j
  BY <1>1, <1>3
<1>. QED BY <1>1, <1>2, <1>4, <1>5, <1>6, <1>7

LEMMA WirePrefix ==
    ASSUME NEW S, NEW q \in Seq(S), NEW n \in 0..Len(q)
    PROVE  /\ SubSeq(q, 1, n) \in Seq(S)
           /\ DOMAIN SubSeq(q, 1, n) \subseteq DOMAIN q
           /\ \A i \in DOMAIN SubSeq(q, 1, n) : SubSeq(q, 1, n)[i] = q[i]
<1>1. DOMAIN q = 1..Len(q) /\ Len(q) \in Nat /\ \A i \in 1..Len(q) : q[i] \in S
  BY LenProperties, ElementOfSeq
<1>2. \A i \in 1..n : q[i] \in S
  BY <1>1
<1>3. /\ SubSeq(q, 1, n) \in Seq(S)
      /\ Len(SubSeq(q, 1, n)) = IF 1 <= n THEN n - 1 + 1 ELSE 0
      /\ \A i \in 1..(n - 1 + 1) : SubSeq(q, 1, n)[i] = q[1 + i - 1]
  BY <1>1, <1>2, SubSeqProperties
<1>4. Len(SubSeq(q, 1, n)) = n
  BY <1>1, <1>3
<1>5. DOMAIN SubSeq(q, 1, n) = 1..n
  BY <1>3, <1>4, LenProperties
<1>6. \A i \in 1..n : SubSeq(q, 1, n)[i] = q[i]
  <2>1. ASSUME NEW i \in 1..n
        PROVE  SubSeq(q, 1, n)[i] = q[i]
    <3>1. i \in 1..(n - 1 + 1) /\ 1 + i - 1 = i
      BY <1>1
    <3>. QED BY <1>3, <3>1
  <2>. QED BY <2>1
<1>. QED BY <1>1, <1>3, <1>5, <1>6

LEMMA StreamUserStep ==
    ASSUME Mode, ControlInv, mode = "stream", StreamInv, NEW w \in Shards, UserStep(w)
    PROVE  StreamInv'
<1>1. PICK u \in buildUsers(w) :
        /\ finished[u.name] < MaxSteps
        /\ finished' = [finished EXCEPT ![u.name] = @ + 1]
        /\ wire' = [wire EXCEPT ![w] = Append(@, toShardResult(u, finished'[u.name]))]
        /\ UNCHANGED summary
  BY DEF UserStep
<1>2. UNCHANGED inputs /\ UNCHANGED <<worker, shard, master, firstErr, cancelled, ret>>
  BY DEF UserStep
<1>. DEFINE p == <<u.name, finished[u.name] + 1>>
            res == toShardResult(u, finished'[u.name])
<1>3. Walks /\ finished \in [Users -> 0..MaxSteps] /\ DOMAIN wire = Workers /\ w \in Workers
  BY ShardsAre DEF Mode, Walks
<1>4. /\ p \in AllOf(w) /\ p \in Requests /\ p \notin Done
      /\ Done' = Done \cup {p}
      /\ DoneBy(w)' = DoneBy(w) \cup {p}
      /\ \A v \in Shards : v # w => DoneBy(v)' = DoneBy(v)
  BY <1>1, <1>2, <1>3, DoneGrows
<1>5. finished'[u.name] = finished[u.name] + 1
  BY <1>1, <1>3, OwnUser
<1>6. finished[u.name] + 1 \in 1..MaxSteps
  BY <1>4 DEF Requests
<1>7. res \in Sent(w) /\ <<res.user, res.step>> = p
  BY <1>5, <1>6 DEF Sent, toShardResult
<1>8. \A v \in Shards : ShardStream(v)
  BY DEF StreamInv
<1>. HIDE DEF p, res
<1>9. wire'[w] = Append(wire[w], res) /\ \A v \in Shards : v # w => wire'[v] = wire[v]
  BY <1>1, <1>3, ShardsAre DEF res
<1>10. /\ wire'[w] \in Seq(Sent(w))
       /\ DOMAIN wire'[w] = DOMAIN wire[w] \cup {Len(wire[w]) + 1}
       /\ Len(wire[w]) + 1 \notin DOMAIN wire[w]
       /\ \A i \in DOMAIN wire[w] : wire'[w][i] = wire[w][i]
       /\ wire'[w][Len(wire[w]) + 1] = res
  <2>1. wire[w] \in Seq(Sent(w))
    BY <1>8 DEF ShardStream
  <2>. QED BY <1>7, <1>9, <2>1, WireAppend
<1>11. OnWire(w)' = OnWire(w) \cup {p} /\ \A v \in Shards : v # w => OnWire(v)' = OnWire(v)
  <2>1. OnWire(w)' = OnWire(w) \cup {p}
    BY <1>7, <1>10 DEF OnWire
  <2>2. \A v \in Shards : v # w => OnWire(v)' = OnWire(v)
    BY <1>9 DEF OnWire
  <2>. QED BY <2>1, <2>2
<1>12. Seen' = Seen /\ \A v \in Shards : InHand(v)' = InHand(v) /\ Sent(v)' = Sent(v)
  BY <1>2, SentStays DEF Seen, InHand, master
<1>13. Received' = Received /\ Stamps' = Stamps
  <2>1. {InHand(v)' : v \in Shards} = {InHand(v) : v \in Shards}
    BY <1>12
  <2>2. {Sent(v)' : v \in Shards} = {Sent(v) : v \in Shards}
    BY <1>12
  <2>. QED BY <1>2, <1>12, <2>1, <2>2 DEF Received, Stamps, master
<1>14. ShardStream(w)'
  <2>1. ShardStream(w)
    BY <1>8
  <2>2. \A i, j \in DOMAIN wire'[w] :
          wire'[w][i].user = wire'[w][j].user /\ wire'[w][i].step = wire'[w][j].step => i = j
    <3>1. \A i \in DOMAIN wire[w] : <<wire[w][i].user, wire[w][i].step>> # p
      BY <1>4, <2>1 DEF ShardStream, OnWire
    <3>2. \A i, j \in DOMAIN wire[w] :
            wire[w][i].user = wire[w][j].user /\ wire[w][i].step = wire[w][j].step => i = j
      BY <2>1 DEF ShardStream
    <3>. QED BY <1>7, <1>10, <3>1, <3>2
  <2>3. OnWire(w)' \subseteq Done' \ (InHand(w)' \cup Seen')
    <3>1. Seen \subseteq Done /\ InHand(w) \subseteq Done
      BY <2>1 DEF StreamInv, ShardStream
    <3>. QED BY <1>4, <1>11, <1>12, <2>1, <3>1 DEF ShardStream
  <2>4. worker'[w] # "failed" => DoneBy(w)' \subseteq OnWire(w)' \cup InHand(w)' \cup Seen'
    BY <1>2, <1>4, <1>11, <1>12, <2>1 DEF ShardStream
  <2>5. ~(shard'[w] = "end" /\ ~firstErr')
    BY <1>2 DEF UserStep, ControlInv
  <2>. QED BY <1>2, <1>4, <1>10, <1>12, <2>1, <2>2, <2>3, <2>4, <2>5 DEF ShardStream, master
<1>15. ASSUME NEW v \in Shards, v # w
       PROVE  ShardStream(v)'
  <2>1. ShardStream(v) /\ wire'[v] = wire[v] /\ DoneBy(v)' = DoneBy(v) /\ OnWire(v)' = OnWire(v)
    BY <1>4, <1>8, <1>9, <1>11, <1>15
  <2>. QED BY <1>2, <1>4, <1>12, <2>1 DEF ShardStream, master
<1>16. CollectorOf(Received)' = CollectorOf(Received)
  BY <1>2, <1>13 DEF CollectorOf, Counted, Requests, Met, inputs
<1>. QED BY <1>2, <1>4, <1>12, <1>13, <1>14, <1>15, <1>16 DEF StreamInv, master

LEMMA StreamWorkerFails ==
    ASSUME Mode, ControlInv, mode = "stream", StreamInv, NEW w \in Shards, WorkerFails(w)
    PROVE  StreamInv'
<1>1. PICK n \in 0..Len(wire[w]) : wire' = [wire EXCEPT ![w] = SubSeq(@, 1, n)]
  BY DEF WorkerFails
<1>2. /\ UNCHANGED inputs /\ UNCHANGED <<finished, summary, shard, master, firstErr, cancelled, ret>>
      /\ worker' = [worker EXCEPT ![w] = "failed"] /\ worker[w] = "running"
  BY DEF WorkerFails
<1>3. DOMAIN wire = Workers /\ w \in Workers /\ Shards \subseteq Workers
  BY ShardsAre DEF Mode
<1>4. wire'[w] = SubSeq(wire[w], 1, n) /\ \A v \in Shards : v # w => wire'[v] = wire[v]
  BY <1>1, <1>3
<1>5. \A v \in Shards : ShardStream(v)
  BY DEF StreamInv
<1>6. /\ wire'[w] \in Seq(Sent(w))
      /\ DOMAIN wire'[w] \subseteq DOMAIN wire[w]
      /\ \A i \in DOMAIN wire'[w] : wire'[w][i] = wire[w][i]
  <2>1. wire[w] \in Seq(Sent(w))
    BY <1>5 DEF ShardStream
  <2>. QED BY <1>4, <2>1, WirePrefix
<1>7. Seen' = Seen /\ Done' = Done
  BY <1>2 DEF Seen, Done, master
<1>8. ASSUME NEW v \in Shards
      PROVE  InHand(v)' = InHand(v) /\ Sent(v)' = Sent(v) /\ DoneBy(v)' = DoneBy(v)
  <2>1. Own(v)' = Own(v) /\ Sent(v)' = Sent(v)
    BY <1>2, OwnStays, SentStays
  <2>2. DoneBy(v)' = DoneBy(v)
    BY <1>7, <2>1 DEF DoneBy
  <2>3. InHand(v)' = InHand(v)
    BY <1>2 DEF InHand, master
  <2>. QED BY <2>1, <2>2, <2>3
<1>9. OnWire(w)' \subseteq OnWire(w)
  BY <1>6 DEF OnWire
<1>10. Received' = Received /\ Stamps' = Stamps
  <2>1. {InHand(v)' : v \in Shards} = {InHand(v) : v \in Shards}
    BY <1>8
  <2>2. {Sent(v)' : v \in Shards} = {Sent(v) : v \in Shards}
    BY <1>8
  <2>3. Received' = Received
    BY <1>7, <2>1 DEF Received
  <2>4. clock' = clock
    BY <1>2 DEF master
  <2>5. Stamps' = Stamps
    BY <2>2, <2>4 DEF Stamps
  <2>. QED BY <2>3, <2>5
<1>11. ShardStream(w)'
  <2>1. ShardStream(w)
    BY <1>5
  <2>2. \A i, j \in DOMAIN wire'[w] :
          wire'[w][i].user = wire'[w][j].user /\ wire'[w][i].step = wire'[w][j].step => i = j
    BY <1>6, <2>1, SMTT(30) DEF ShardStream
  <2>3. worker'[w] = "failed"
    BY <1>2, <1>3 DEF Mode
  <2>4. ~(shard'[w] = "end" /\ ~firstErr')
    BY <1>2 DEF ControlInv
  <2>. QED BY <1>2, <1>6, <1>7, <1>8, <1>9, <2>1, <2>2, <2>3, <2>4 DEF ShardStream, master
<1>12. ASSUME NEW v \in Shards, v # w
       PROVE  ShardStream(v)'
  <2>1. ShardStream(v) /\ wire'[v] = wire[v]
    BY <1>4, <1>5, <1>12
  <2>2. OnWire(v)' = OnWire(v)
    BY <2>1 DEF OnWire
  <2>3. worker'[v] = worker[v]
    BY <1>2, <1>3, <1>12 DEF Mode
  <2>. QED BY <1>2, <1>7, <1>8, <2>1, <2>2, <2>3 DEF ShardStream, master
<1>13. CollectorOf(Received)' = CollectorOf(Received)
  BY <1>2, <1>10 DEF CollectorOf, Counted, Requests, Met, inputs
<1>. QED BY <1>2, <1>7, <1>10, <1>11, <1>12, <1>13 DEF StreamInv, master

\* A result received is off the wire and in hand, and counted.
LEMMA StreamRecv ==
    ASSUME Mode, ControlInv, mode = "stream", StreamInv, NEW w \in Shards, Recv(w)
    PROVE  StreamInv'
<1>. DEFINE r == Head(wire[w])
            p == <<r.user, r.step>>
<1>1. /\ UNCHANGED inputs
      /\ UNCHANGED <<workerSide, agg, summaries, merged, firstErr, cancelled, ret>>
      /\ shard[w] = "recv" /\ wire[w] # <<>>
      /\ collector' = Record(collector, r)
      /\ stamped' = [stamped EXCEPT ![w] = Observation(r, clock)]
      /\ clock' = clock + 1
      /\ wire' = [wire EXCEPT ![w] = Tail(@)]
      /\ shard' = [shard EXCEPT ![w] = "add"]
  BY DEF Recv
<1>2. /\ Walks /\ DOMAIN wire = Workers /\ DOMAIN stamped = Workers /\ DOMAIN shard = Workers
      /\ clock \in Nat \ {0} /\ w \in Workers /\ Shards \subseteq Workers
  BY ShardsAre DEF Mode, Walks
<1>3. /\ wire'[w] = Tail(wire[w]) /\ stamped'[w] = Observation(r, clock) /\ shard'[w] = "add"
      /\ \A v \in Shards : v # w =>
           wire'[v] = wire[v] /\ stamped'[v] = stamped[v] /\ shard'[v] = shard[v]
  BY <1>1, <1>2
<1>4. \A v \in Shards : ShardStream(v)
  BY DEF StreamInv
<1>5. /\ r \in Sent(w) /\ r = wire[w][1] /\ wire'[w] \in Seq(Sent(w)) /\ 1 \in DOMAIN wire[w]
      /\ \A i \in DOMAIN wire'[w] :
           i + 1 \in DOMAIN wire[w] /\ i + 1 # 1 /\ wire'[w][i] = wire[w][i + 1]
      /\ \A j \in DOMAIN wire[w] : j # 1 => j - 1 \in DOMAIN wire'[w] /\ wire'[w][j - 1] = wire[w][j]
      /\ \A i, j \in DOMAIN wire'[w] : i + 1 = j + 1 => i = j
  <2>1. wire[w] \in Seq(Sent(w)) /\ wire[w] # <<>> /\ wire'[w] = Tail(wire[w])
    BY <1>1, <1>3, <1>4 DEF ShardStream
  <2>2. r = Head(wire[w])
    OBVIOUS
  <2>. HIDE DEF r
  <2>. DEFINE q == wire[w]
              qt == wire'[w]
  <2>3. q \in Seq(Sent(w)) /\ q # <<>> /\ qt = Tail(q) /\ r = Head(q)
    BY <2>1, <2>2
  <2>. HIDE DEF q, qt
  <2>4. /\ r \in Sent(w) /\ r = q[1] /\ qt \in Seq(Sent(w)) /\ 1 \in DOMAIN q
        /\ \A i \in DOMAIN qt : i + 1 \in DOMAIN q /\ i + 1 # 1 /\ qt[i] = q[i + 1]
        /\ \A j \in DOMAIN q : j # 1 => j - 1 \in DOMAIN qt /\ qt[j - 1] = q[j]
        /\ \A i, j \in DOMAIN qt : i + 1 = j + 1 => i = j
    BY <2>3, WireTail
  <2>. QED BY <2>4 DEF q, qt
<1>6. p \in AllOf(w) /\ p \in Requests /\ Tells(r, p)
  BY <1>2, <1>5, SentIs
<1>. HIDE DEF p, r
<1>7. p = <<r.user, r.step>> /\ ObsKey(Observation(r, clock)) = p
  BY StampIs DEF p
<1>8. OnWire(w)' = OnWire(w) \ {p} /\ p \in OnWire(w)
  <2>1. \A i, j \in DOMAIN wire[w] :
          wire[w][i].user = wire[w][j].user /\ wire[w][i].step = wire[w][j].step => i = j
    BY <1>4 DEF ShardStream
  <2>2. \A i \in DOMAIN wire[w] : i # 1 => <<wire[w][i].user, wire[w][i].step>> # p
    BY <1>5, <1>7, <2>1
  <2>3. p \in OnWire(w)
    BY <1>5, <1>7 DEF OnWire
  <2>4. ASSUME NEW q \in OnWire(w)' PROVE q \in OnWire(w) \ {p}
    BY <1>5, <2>2, <2>4 DEF OnWire
  <2>5. ASSUME NEW q \in OnWire(w), q # p PROVE q \in OnWire(w)'
    <3>1. PICK j \in DOMAIN wire[w] : q = <<wire[w][j].user, wire[w][j].step>>
      BY <2>5 DEF OnWire
    <3>2. j # 1
      BY <1>5, <1>7, <2>5, <3>1
    <3>3. j - 1 \in DOMAIN wire'[w] /\ wire'[w][j - 1] = wire[w][j]
      BY <1>5, <3>2
    <3>. QED BY <3>1, <3>3 DEF OnWire
  <2>. QED BY <2>3, <2>4, <2>5
<1>9. Seen' = Seen /\ Done' = Done
  BY <1>1 DEF Seen, Done, workerSide
<1>10. InHand(w)' = {p} /\ InHand(w) = {}
  BY <1>1, <1>3, <1>7 DEF InHand
<1>11. ASSUME NEW v \in Shards
       PROVE  /\ Sent(v)' = Sent(v) /\ DoneBy(v)' = DoneBy(v)
              /\ v # w => InHand(v)' = InHand(v) /\ OnWire(v)' = OnWire(v)
  <2>1. Own(v)' = Own(v) /\ Sent(v)' = Sent(v)
    BY <1>1, OwnStays, SentStays
  <2>2. DoneBy(v)' = DoneBy(v)
    BY <1>9, <2>1 DEF DoneBy
  <2>3. v # w => InHand(v)' = InHand(v) /\ OnWire(v)' = OnWire(v)
    BY <1>3 DEF InHand, OnWire
  <2>. QED BY <2>1, <2>2, <2>3
<1>12. p \in Done /\ p \notin Seen
  BY <1>4, <1>8 DEF ShardStream
<1>13. p \notin Received
  <2>1. \A v \in Shards : v # w => InHand(v) \subseteq AllOf(v)
    BY <1>2, <1>4, KeysOf
  <2>2. \A v \in Shards : p \notin InHand(v)
    BY <1>6, <1>10, <2>1, RequestsOf
  <2>. QED BY <1>12, <2>2 DEF Received
<1>14. Received' = Received \cup {p}
  <2>1. \A q : (\E v \in Shards : q \in InHand(v)') <=> (q = p \/ \E v \in Shards : q \in InHand(v))
    BY <1>10, <1>11
  <2>2. \A q : q \in UNION {InHand(v)' : v \in Shards} <=> \E v \in Shards : q \in InHand(v)'
    OBVIOUS
  <2>3. \A q : q \in UNION {InHand(v) : v \in Shards} <=> \E v \in Shards : q \in InHand(v)
    OBVIOUS
  <2>4. \A q : q \in Received' <=> q \in Seen \/ \E v \in Shards : q \in InHand(v)'
    BY <1>9, <2>2 DEF Received
  <2>5. \A q : q \in Received <=> q \in Seen \/ \E v \in Shards : q \in InHand(v)
    BY <2>3 DEF Received
  <2>6. \A q : q \in Received' <=> q \in Received \cup {p}
    BY <2>1, <2>4, <2>5
  <2>. QED BY <2>6
<1>15. collector' = CollectorOf(Received')
  <2>1. Received \subseteq Requests
    <3>1. \A v \in Shards : InHand(v) \subseteq Done
      BY <1>4 DEF ShardStream
    <3>2. Seen \subseteq Done
      BY DEF StreamInv
    <3>. QED BY <3>1, <3>2, DoneSub DEF Received
  <2>2. Record(CollectorOf(Received), r) = CollectorOf(Received \cup {p})
    BY <1>2, <1>6, <1>13, <2>1, RecordOne
  <2>. QED BY <1>1, <1>14, <2>2 DEF StreamInv
<1>16. CollectorOf(Received)' = CollectorOf(Received')
  BY <1>1 DEF CollectorOf, Counted, Requests, Met, inputs
<1>17. \A t \in 1..clock : t \in 1..clock'
  BY <1>1, <1>2
<1>18. clock \in 1..clock'
  BY <1>1, <1>2
<1>19. Stamps \subseteq Stamps'
  <2>1. {Sent(v)' : v \in Shards} = {Sent(v) : v \in Shards}
    BY <1>11
  <2>. QED BY <1>17, <2>1 DEF Stamps
<1>20. ShardStream(w)'
  <2>1. ShardStream(w)
    BY <1>4
  <2>2. \A i, j \in DOMAIN wire'[w] :
          wire'[w][i].user = wire'[w][j].user /\ wire'[w][i].step = wire'[w][j].step => i = j
    <3>1. \A i, j \in DOMAIN wire[w] :
            wire[w][i].user = wire[w][j].user /\ wire[w][i].step = wire[w][j].step => i = j
      BY <2>1 DEF ShardStream
    <3>2. ASSUME NEW i \in DOMAIN wire'[w], NEW j \in DOMAIN wire'[w],
                 wire'[w][i].user = wire'[w][j].user, wire'[w][i].step = wire'[w][j].step
          PROVE  i = j
      <4>1. /\ i + 1 \in DOMAIN wire[w] /\ wire'[w][i] = wire[w][i + 1]
            /\ j + 1 \in DOMAIN wire[w] /\ wire'[w][j] = wire[w][j + 1]
        BY <1>5
      <4>2. i + 1 = j + 1
        BY <3>1, <3>2, <4>1
      <4>. QED BY <1>5, <4>2
    <3>. QED BY <3>2
  <2>3. stamped'[w] \in {Observation(x, t) : x \in Sent(w), t \in 1..clock'}
    BY <1>3, <1>5, <1>18
  <2>4. OnWire(w)' \subseteq Done' \ (InHand(w)' \cup Seen')
    BY <1>8, <1>9, <1>10, <2>1 DEF ShardStream
  <2>5. worker'[w] # "failed" => DoneBy(w)' \subseteq OnWire(w)' \cup InHand(w)' \cup Seen'
    BY <1>1, <1>8, <1>9, <1>10, <1>11, <2>1 DEF ShardStream, workerSide
  <2>. QED BY <1>3, <1>5, <1>9, <1>10, <1>11, <1>12, <2>2, <2>3, <2>4, <2>5 DEF ShardStream
<1>21. ASSUME NEW v \in Shards, v # w
       PROVE  ShardStream(v)'
  <2>1. ShardStream(v) /\ wire'[v] = wire[v] /\ stamped'[v] = stamped[v] /\ shard'[v] = shard[v]
    BY <1>3, <1>4, <1>21
  <2>2. InHand(v)' = InHand(v) /\ OnWire(v)' = OnWire(v)
    BY <1>11, <1>21
  <2>3. shard'[v] = "add" => stamped'[v] \in {Observation(x, t) : x \in Sent(v), t \in 1..clock'}
    BY <1>17, <2>1 DEF ShardStream
  <2>4. worker'[v] = worker[v] /\ firstErr' = firstErr /\ Sent(v)' = Sent(v)
        /\ DoneBy(v)' = DoneBy(v)
    BY <1>1, <1>11 DEF workerSide
  <2>. QED BY <1>9, <2>1, <2>2, <2>3, <2>4 DEF ShardStream
<1>22. agg' \in Seq(Stamps')
  BY <1>1, <1>19, SeqMonotonic DEF StreamInv
<1>. QED BY <1>1, <1>9, <1>15, <1>16, <1>20, <1>21, <1>22 DEF StreamInv

\* The result in hand joins the aggregator.
LEMMA StreamAdd ==
    ASSUME Mode, ControlInv, mode = "stream", StreamInv, NEW w \in Shards, Add(w)
    PROVE  StreamInv'
<1>. DEFINE o == stamped[w]
            p == ObsKey(o)
<1>1. /\ UNCHANGED inputs
      /\ UNCHANGED <<workerSide, wire, collector, summaries, merged, clock, firstErr, cancelled, ret>>
      /\ shard[w] = "add"
      /\ agg' = Append(agg, o)
      /\ stamped' = [stamped EXCEPT ![w] = <<>>]
      /\ shard' = [shard EXCEPT ![w] = "recv"]
  BY DEF Add
<1>2. /\ Walks /\ DOMAIN stamped = Workers /\ DOMAIN shard = Workers
      /\ w \in Workers /\ Shards \subseteq Workers
  BY ShardsAre DEF Mode, Walks
<1>3. /\ shard'[w] = "recv"
      /\ \A v \in Shards : v # w => stamped'[v] = stamped[v] /\ shard'[v] = shard[v]
  BY <1>1, <1>2
<1>4. \A v \in Shards : ShardStream(v)
  BY DEF StreamInv
<1>5. InHand(w) = {p} /\ InHand(w)' = {}
  BY <1>1, <1>3 DEF InHand
<1>6. o \in Stamps /\ p \in AllOf(w) /\ p \in Done /\ p \notin Seen
  <2>1. ShardStream(w)
    BY <1>4
  <2>2. PICK r \in Sent(w), t \in 1..clock : o = Observation(r, t)
    BY <1>1, <2>1 DEF ShardStream
  <2>3. r \in UNION {Sent(v) : v \in Shards}
    OBVIOUS
  <2>4. o \in Stamps
    BY <2>2, <2>3 DEF Stamps
  <2>5. p \in AllOf(w)
    BY <1>2, <1>5, <2>1, KeysOf
  <2>6. p \in Done /\ p \notin Seen
    BY <1>5, <2>1 DEF ShardStream
  <2>. QED BY <2>4, <2>5, <2>6
<1>. HIDE DEF p, o
<1>7. p = ObsKey(o)
  BY DEF p
<1>8. agg \in Seq(Stamps) /\ \A i, j \in DOMAIN agg : ObsKey(agg[i]) = ObsKey(agg[j]) => i = j
  BY DEF StreamInv
<1>9. /\ agg' \in Seq(Stamps)
      /\ DOMAIN agg' = DOMAIN agg \cup {Len(agg) + 1} /\ Len(agg) + 1 \notin DOMAIN agg
      /\ \A i \in DOMAIN agg : agg'[i] = agg[i]
      /\ agg'[Len(agg) + 1] = o
  BY <1>1, <1>6, <1>8, WireAppend
<1>10. Seen' = Seen \cup {p}
  BY <1>7, <1>9 DEF Seen
<1>11. \A i, j \in DOMAIN agg' : ObsKey(agg'[i]) = ObsKey(agg'[j]) => i = j
  <2>1. \A i \in DOMAIN agg : ObsKey(agg[i]) # p
    BY <1>6 DEF Seen
  <2>. QED BY <1>7, <1>8, <1>9, <2>1
<1>12. Done' = Done
  BY <1>1 DEF Done, workerSide
<1>13. ASSUME NEW v \in Shards
       PROVE  /\ Sent(v)' = Sent(v) /\ DoneBy(v)' = DoneBy(v) /\ OnWire(v)' = OnWire(v)
              /\ v # w => InHand(v)' = InHand(v)
  <2>1. Own(v)' = Own(v) /\ Sent(v)' = Sent(v)
    BY <1>1, OwnStays, SentStays
  <2>2. DoneBy(v)' = DoneBy(v)
    BY <1>12, <2>1 DEF DoneBy
  <2>3. OnWire(v)' = OnWire(v) /\ (v # w => InHand(v)' = InHand(v))
    BY <1>1, <1>3 DEF InHand, OnWire
  <2>. QED BY <2>1, <2>2, <2>3
<1>14. Received' = Received
  <2>1. \A q : q \in UNION {InHand(v)' : v \in Shards} <=> \E v \in Shards : q \in InHand(v)'
    OBVIOUS
  <2>2. \A q : q \in UNION {InHand(v) : v \in Shards} <=> \E v \in Shards : q \in InHand(v)
    OBVIOUS
  <2>3. \A q : q \in Received' <=> q \in Seen \cup {p} \/ \E v \in Shards : q \in InHand(v)'
    BY <1>10, <2>1 DEF Received
  <2>4. \A q : q \in Received <=> q \in Seen \/ \E v \in Shards : q \in InHand(v)
    BY <2>2 DEF Received
  <2>5. \A q : q \in Received' <=> q \in Received
    BY <1>5, <1>13, <2>3, <2>4
  <2>. QED BY <2>5
<1>15. Stamps' = Stamps
  <2>1. {Sent(v)' : v \in Shards} = {Sent(v) : v \in Shards}
    BY <1>13
  <2>2. clock' = clock
    BY <1>1
  <2>. QED BY <2>1, <2>2 DEF Stamps
<1>16. ShardStream(w)'
  <2>1. ShardStream(w)
    BY <1>4
  <2>2. OnWire(w)' \subseteq Done' \ (InHand(w)' \cup Seen')
    BY <1>5, <1>10, <1>12, <1>13, <2>1 DEF ShardStream
  <2>3. worker'[w] # "failed" => DoneBy(w)' \subseteq OnWire(w)' \cup InHand(w)' \cup Seen'
    BY <1>1, <1>5, <1>10, <1>13, <2>1 DEF ShardStream, workerSide
  <2>. QED BY <1>1, <1>3, <1>5, <1>13, <2>1, <2>2, <2>3 DEF ShardStream
<1>17. ASSUME NEW v \in Shards, v # w
       PROVE  ShardStream(v)'
  <2>1. ShardStream(v) /\ stamped'[v] = stamped[v] /\ shard'[v] = shard[v] /\ wire'[v] = wire[v]
    BY <1>1, <1>3, <1>4, <1>17
  <2>2. p \notin OnWire(v) /\ p \notin InHand(v)
    <3>1. OnWire(v) \subseteq AllOf(v) /\ InHand(v) \subseteq AllOf(v)
      BY <1>2, <2>1, KeysOf
    <3>. QED BY <1>6, <1>17, <3>1, RequestsOf
  <2>3. /\ worker'[v] = worker[v] /\ firstErr' = firstErr /\ clock' = clock
        /\ Sent(v)' = Sent(v) /\ DoneBy(v)' = DoneBy(v) /\ OnWire(v)' = OnWire(v)
        /\ InHand(v)' = InHand(v)
    BY <1>1, <1>13, <1>17 DEF workerSide
  <2>. QED BY <1>10, <1>12, <2>1, <2>2, <2>3 DEF ShardStream
<1>18. CollectorOf(Received)' = CollectorOf(Received)
  BY <1>1, <1>14 DEF CollectorOf, Counted, Requests, Met, inputs
<1>19. Seen' \subseteq Done'
  BY <1>6, <1>10, <1>12 DEF StreamInv
<1>. QED BY <1>1, <1>9, <1>11, <1>15, <1>16, <1>17, <1>18, <1>19 DEF StreamInv

LEMMA StreamStep ==
    ASSUME ClusterInv, mode = "stream", [Next]_vars
    PROVE  StreamInv'
<1>0. Mode /\ ControlInv /\ StreamInv /\ Walks
  BY InvParts
<1>1. CASE UNCHANGED vars
  <2>1. \A v \in Shards : shard[v] = "end" /\ ~firstErr => wire[v] = <<>>
    BY <1>0 DEF StreamInv, ShardStream
  <2>. QED BY <1>0, <1>1, <2>1, StreamStays DEF vars, inputs
<1>2. CASE Return \/ Cancel
  <2>1. \A v \in Shards : shard[v] = "end" /\ ~firstErr => wire[v] = <<>>
    BY <1>0 DEF StreamInv, ShardStream
  <2>. QED BY <1>0, <1>2, <2>1, StreamStays DEF Return, Cancel, workerSide, master
<1>3. CASE MergeNext
  BY <1>0, <1>3 DEF MergeNext, StreamInv
<1>4. ASSUME NEW w \in Workers, WorkerNext(w) \/ MasterNext(w)
      PROVE  StreamInv'
  <2>0. w \in Shards
    BY <1>0, <1>4, Active DEF WorkerNext, MasterNext, Open, UserStep, ShardEnds, WorkerFails,
         WorkerStops, Recv, Add, RecvSummary, RecvEOF, RecvError, CallFails
  <2>1. \A v \in Shards : shard[v] = "end" /\ ~firstErr => wire[v] = <<>>
    BY <1>0 DEF StreamInv, ShardStream
  <2>2. DOMAIN shard = Workers /\ DOMAIN worker = Workers /\ Shards \subseteq Workers
    BY <1>0, ShardsAre DEF Mode
  <2>3. CASE Open(w)
    <3>1. /\ UNCHANGED inputs
          /\ UNCHANGED <<wire, stamped, agg, collector, clock, finished, summaries, firstErr>>
          /\ shard[w] = "open" /\ shard' = [shard EXCEPT ![w] = "recv"]
          /\ worker' = [worker EXCEPT ![w] = "running"]
      BY <2>3 DEF Open, master
    <3>2. worker[w] = "idle"
      BY <1>0, <2>0, <3>1 DEF ControlInv
    <3>. QED BY <1>0, <2>0, <2>1, <2>2, <3>1, <3>2, StreamStays
  <2>4. CASE UserStep(w)
    BY <1>0, <2>0, <2>4, StreamUserStep
  <2>5. CASE ShardEnds(w) \/ WorkerStops(w)
    <3>1. /\ UNCHANGED inputs
          /\ UNCHANGED <<wire, stamped, agg, collector, clock, finished, summaries, firstErr, shard>>
          /\ worker[w] = "running"
          /\ worker' = [worker EXCEPT ![w] = "ended"] \/ worker' = [worker EXCEPT ![w] = "failed"]
      BY <2>5 DEF ShardEnds, WorkerStops, master
    <3>. QED BY <1>0, <2>0, <2>1, <2>2, <3>1, StreamStays
  <2>6. CASE WorkerFails(w)
    BY <1>0, <2>0, <2>6, StreamWorkerFails
  <2>7. CASE Recv(w)
    BY <1>0, <2>0, <2>7, StreamRecv
  <2>8. CASE Add(w)
    BY <1>0, <2>0, <2>8, StreamAdd
  <2>9. CASE RecvSummary(w)
    BY <2>9 DEF RecvSummary
  <2>10. CASE RecvEOF(w) \/ RecvError(w)
    <3>1. /\ UNCHANGED inputs
          /\ UNCHANGED <<wire, stamped, agg, collector, clock, finished, summaries, worker>>
          /\ shard[w] \in {"open", "recv"} /\ shard' = [shard EXCEPT ![w] = "end"]
          /\ firstErr' \/ (firstErr' = firstErr /\ wire[w] = <<>>)
      BY <2>10 DEF RecvEOF, RecvError, CallFails, workerSide, master
    <3>. QED BY <1>0, <2>0, <2>1, <2>2, <3>1, StreamStays
  <2>. QED BY <1>4, <2>3, <2>4, <2>5, <2>6, <2>7, <2>8, <2>9, <2>10 DEF WorkerNext, MasterNext
<1>. QED BY <1>1, <1>2, <1>3, <1>4 DEF Next

----------------------------------------------------------------------------
(* The run aggregated on the workers *)

LEMMA ReportStays ==
    ASSUME UNCHANGED inputs, NEW w
    PROVE  /\ Report(w)' = Report(w) /\ AllOf(w)' = AllOf(w)
           /\ SummaryOf(AllOf(w))' = SummaryOf(AllOf(w))
<1>1. AllOf(w)' = AllOf(w)
  BY SentStays
<1>2. SummaryOf(AllOf(w))' = SummaryOf(AllOf(w))
  BY <1>1 DEF SummaryOf, Counted, Requests, Met, Plain, inputs
<1>. QED BY <1>1, <1>2 DEF Report

LEMMA ReportsStay ==
    ASSUME UNCHANGED inputs
    PROVE  {Report(w)' : w \in Shards} = {Report(w) : w \in Shards}
BY ReportStays

LEMMA FoldedStays ==
    ASSUME UNCHANGED inputs, Folded' = Folded
    PROVE  /\ SummaryOf(UNION {AllOf(w) : w \in Folded})'
               = SummaryOf(UNION {AllOf(w) : w \in Folded})
<1>1. UNION {AllOf(w)' : w \in Folded'} = UNION {AllOf(w) : w \in Folded}
  BY SentStays
<1>. QED BY <1>1 DEF SummaryOf, Counted, Requests, Met, Plain, inputs

\* Steps that count nothing and bring no summary.
LEMMA SummaryStays ==
    ASSUME mode = "summary", SummaryInv, UNCHANGED inputs,
           UNCHANGED <<agg, finished, summary, summaries, merged>>,
           \A v \in Shards :
             /\ wire'[v] = wire[v]
             /\ shard'[v] # "add"
             /\ worker[v] = "ended" => worker'[v] = "ended"
             /\ shard[v] = "end" => shard'[v] = "end"
             /\ ~firstErr' => ~firstErr /\ (shard'[v] = "end" => shard[v] = "end")
    PROVE  SummaryInv'
<1>1. Done' = Done
  BY DEF Done
<1>2. ASSUME NEW v \in Shards
      PROVE  /\ summary'[v] = SummaryOf(DoneBy(v))' /\ shard'[v] # "add"
             /\ wire'[v] # <<>> =>
                  worker'[v] = "ended" /\ wire'[v] = <<Export(SummaryOf(AllOf(v))')>>
  <2>1. DoneBy(v)' = DoneBy(v)
    BY <1>1, OwnStays DEF DoneBy
  <2>2. SummaryOf(DoneBy(v))' = SummaryOf(DoneBy(v))
    BY <2>1 DEF SummaryOf, Counted, Requests, Met, Plain, inputs
  <2>3. SummaryOf(AllOf(v))' = SummaryOf(AllOf(v))
    BY ReportStays
  <2>. QED BY <2>2, <2>3 DEF SummaryInv
<1>3. Arrived' = Arrived
  BY DEF Arrived
<1>4. ~firstErr' => merged' = SummaryOf(UNION {AllOf(w) : w \in Folded})'
  <2>. SUFFICES ASSUME ~firstErr'
                PROVE  merged' = SummaryOf(UNION {AllOf(w) : w \in Folded})'
    OBVIOUS
  <2>1. CASE Shards = {}
    <3>1. FALSE
      BY <2>1, ShardsAre, LastShardIs
    <3>. QED BY <3>1
  <2>2. CASE Shards # {}
    <3>1. ~firstErr
      BY <2>2
    <3>2. Folded' = Folded
      BY <1>3 DEF Folded
    <3>. QED BY <3>1, <3>2, FoldedStays DEF SummaryInv
  <2>. QED BY <2>1, <2>2
<1>5. summaries' \in Seq({Report(w)' : w \in Shards})
  BY ReportsStay DEF SummaryInv
<1>6. \A w \in Arrived' : w \in Shards => shard'[w] = "end"
  BY <1>3 DEF SummaryInv
<1>7. Arrived \subseteq Shards
  <2>1. \A i \in DOMAIN summaries : summaries[i] \in {Report(w) : w \in Shards}
    BY LenProperties, ElementOfSeq DEF SummaryInv
  <2>. QED BY <2>1 DEF Arrived, Report
<1>. QED BY <1>2, <1>3, <1>4, <1>5, <1>6, <1>7 DEF SummaryInv

LEMMA ArrivedSub == ASSUME mode = "summary", SummaryInv PROVE Arrived \subseteq Shards
<1>1. \A i \in DOMAIN summaries : summaries[i] \in {Report(w) : w \in Shards}
  BY LenProperties, ElementOfSeq DEF SummaryInv
<1>. QED BY <1>1 DEF Arrived, Report

LEMMA SummaryUserStep ==
    ASSUME Mode, ControlInv, mode = "summary", SummaryInv, NEW w \in Shards, UserStep(w)
    PROVE  SummaryInv'
<1>1. PICK u \in buildUsers(w) :
        /\ finished[u.name] < MaxSteps
        /\ finished' = [finished EXCEPT ![u.name] = @ + 1]
        /\ summary' = [summary EXCEPT ![w] =
                         AddSummary(@, Observation(toShardResult(u, finished'[u.name]), NoTime))]
        /\ UNCHANGED wire
  BY DEF UserStep
<1>2. /\ UNCHANGED inputs /\ UNCHANGED <<worker, shard, firstErr>>
      /\ UNCHANGED <<agg, summaries, merged>>
  BY DEF UserStep, master
<1>. DEFINE p == <<u.name, finished[u.name] + 1>>
            res == toShardResult(u, finished'[u.name])
            o == Observation(res, NoTime)
<1>3. Walks /\ finished \in [Users -> 0..MaxSteps] /\ DOMAIN summary = Workers
      /\ Shards \subseteq Workers
  BY ShardsAre DEF Mode, Walks
<1>4. /\ p \in AllOf(w) /\ p \in Requests /\ p \notin Done
      /\ DoneBy(w)' = DoneBy(w) \cup {p}
      /\ \A v \in Shards : v # w => DoneBy(v)' = DoneBy(v)
  BY <1>1, <1>2, <1>3, DoneGrows
<1>5. finished'[u.name] = finished[u.name] + 1
  BY <1>1, <1>3, OwnUser
<1>6. finished[u.name] + 1 \in 1..MaxSteps
  BY <1>4 DEF Requests
<1>7. res \in Sent(w) /\ <<res.user, res.step>> = p
  BY <1>5, <1>6 DEF Sent, toShardResult
<1>8. Tells(o, p) /\ o.mutated = FALSE
  <2>. HIDE DEF p, res
  <2>1. Tells(res, p)
    BY <1>3, <1>7, SentIs
  <2>2. /\ o.mutated = FALSE /\ o.code = res.code /\ o.lat = res.lat /\ o.class = res.class
    BY DEF Observation
  <2>. HIDE DEF o
  <2>. QED BY <2>1, <2>2 DEF Tells
<1>. HIDE DEF p, res, o
<1>9. /\ summary'[w] = AddSummary(summary[w], o)
      /\ \A v \in Shards : v # w => summary'[v] = summary[v]
  BY <1>1, <1>3 DEF o, res
<1>10. AddSummary(SummaryOf(DoneBy(w)), o) = SummaryOf(DoneBy(w) \cup {p})
  <2>1. DoneBy(w) \subseteq Requests /\ p \in Requests \ DoneBy(w)
    BY <1>4, DoneSub
  <2>. QED BY <1>3, <1>8, <2>1, AddOne
<1>11. ASSUME NEW v \in Shards
       PROVE  /\ summary'[v] = SummaryOf(DoneBy(v))'
              /\ wire'[v] # <<>> =>
                   worker'[v] = "ended" /\ wire'[v] = <<Export(SummaryOf(AllOf(v))')>>
  <2>1. SummaryOf(AllOf(v))' = SummaryOf(AllOf(v))
    BY <1>2, ReportStays
  <2>2. CASE v = w
    <3>1. SummaryOf(DoneBy(w))' = SummaryOf(DoneBy(w) \cup {p})
      BY <1>2, <1>4 DEF SummaryOf, Counted, Requests, Met, Plain, inputs
    <3>. QED BY <1>1, <1>2, <1>9, <1>10, <2>1, <2>2, <3>1 DEF SummaryInv
  <2>3. CASE v # w
    <3>1. SummaryOf(DoneBy(v))' = SummaryOf(DoneBy(v))
      BY <1>2, <1>4, <2>3, ZenonT(60) DEF SummaryOf, Counted, Requests, Met, Plain, inputs
    <3>. QED BY <1>1, <1>2, <1>9, <2>1, <2>3, <3>1 DEF SummaryInv
  <2>. QED BY <2>2, <2>3
<1>12. Arrived' = Arrived /\ Folded' = Folded
  BY <1>2 DEF Arrived, Folded
<1>13. ~firstErr' => merged' = SummaryOf(UNION {AllOf(v) : v \in Folded})'
  BY <1>2, <1>12, FoldedStays DEF SummaryInv
<1>14. summaries' \in Seq({Report(v)' : v \in Shards})
  BY <1>2, ReportsStay DEF SummaryInv
<1>. QED BY <1>2, <1>11, <1>12, <1>13, <1>14 DEF SummaryInv

LEMMA SummaryShardEnds ==
    ASSUME Mode, ControlInv, mode = "summary", SummaryInv, NEW w \in Shards, ShardEnds(w)
    PROVE  SummaryInv'
<1>1. /\ UNCHANGED inputs /\ UNCHANGED <<finished, summary, shard, firstErr>>
      /\ UNCHANGED <<agg, summaries, merged>>
      /\ worker' = [worker EXCEPT ![w] = "ended"]
      /\ wire' = [wire EXCEPT ![w] = <<Export(summary[w])>>]
      /\ \A g \in Own(w) : finished[g] = MaxSteps
  BY DEF ShardEnds, master, Own
<1>2. DOMAIN worker = Workers /\ DOMAIN wire = Workers /\ Shards \subseteq Workers
  BY ShardsAre DEF Mode
<1>3. /\ worker'[w] = "ended" /\ wire'[w] = <<Export(summary[w])>>
      /\ \A v \in Shards : v # w => worker'[v] = worker[v] /\ wire'[v] = wire[v]
  BY <1>1, <1>2
<1>4. summary[w] = SummaryOf(AllOf(w))
  BY <1>1, DoneAll DEF SummaryInv
<1>5. Done' = Done
  BY <1>1 DEF Done
<1>6. ASSUME NEW v \in Shards
      PROVE  /\ summary'[v] = SummaryOf(DoneBy(v))'
             /\ wire'[v] # <<>> =>
                  worker'[v] = "ended" /\ wire'[v] = <<Export(SummaryOf(AllOf(v))')>>
  <2>1. DoneBy(v)' = DoneBy(v)
    BY <1>1, <1>5, OwnStays DEF DoneBy
  <2>2. SummaryOf(DoneBy(v))' = SummaryOf(DoneBy(v))
    BY <1>1, <2>1 DEF SummaryOf, Counted, Requests, Met, Plain, inputs
  <2>3. SummaryOf(AllOf(v))' = SummaryOf(AllOf(v))
    BY <1>1, ReportStays
  <2>. QED BY <1>1, <1>3, <1>4, <2>2, <2>3 DEF SummaryInv
<1>7. Arrived' = Arrived /\ Folded' = Folded
  BY <1>1 DEF Arrived, Folded
<1>8. ~firstErr' => merged' = SummaryOf(UNION {AllOf(v) : v \in Folded})'
  BY <1>1, <1>7, FoldedStays DEF SummaryInv
<1>9. summaries' \in Seq({Report(v)' : v \in Shards})
  BY <1>1, ReportsStay DEF SummaryInv
<1>. QED BY <1>1, <1>6, <1>7, <1>8, <1>9 DEF SummaryInv

\* A summary that arrives is its shard's, whole, and comes once.
LEMMA SummaryRecv ==
    ASSUME Mode, ControlInv, mode = "summary", SummaryInv, NEW w \in Shards, RecvSummary(w)
    PROVE  SummaryInv'
<1>1. /\ UNCHANGED inputs /\ UNCHANGED <<worker, finished, summary>>
      /\ UNCHANGED <<agg, merged, firstErr>>
      /\ shard[w] = "recv" /\ wire[w] # <<>>
      /\ summaries' = Append(summaries, [of |-> w, sum |-> LoadSummary(Head(wire[w]))])
      /\ wire' = [wire EXCEPT ![w] = Tail(@)]
      /\ shard' = [shard EXCEPT ![w] = "end"]
  BY DEF RecvSummary, workerSide
<1>2. DOMAIN shard = Workers /\ DOMAIN wire = Workers /\ Shards \subseteq Workers
  BY ShardsAre DEF Mode
<1>3. wire[w] = <<Export(SummaryOf(AllOf(w)))>>
  BY <1>1 DEF SummaryInv
<1>4. /\ shard'[w] = "end" /\ wire'[w] = <<>>
      /\ \A v \in Shards : v # w => shard'[v] = shard[v] /\ wire'[v] = wire[v]
  <2>1. \A x : Tail(<<x>>) = <<>>
    OBVIOUS
  <2>. QED BY <1>1, <1>2, <1>3, <2>1
<1>5. summaries' = Append(summaries, Report(w))
  <2>1. LoadSummary(Head(wire[w])) = SummaryOf(AllOf(w))
    <3>1. \A x : Head(<<x>>) = x
      OBVIOUS
    <3>2. LoadSummary(Export(SummaryOf(AllOf(w)))) = SummaryOf(AllOf(w))
      BY RequestsOf, ExportLoads
    <3>. QED BY <1>3, <3>1, <3>2
  <2>. QED BY <1>1, <2>1 DEF Report
<1>. DEFINE Reports == {Report(v) : v \in Shards}
<1>6. summaries \in Seq(Reports) /\ Report(w) \in Reports /\ Report(w).of = w
  BY DEF SummaryInv, Report
<1>. HIDE DEF Reports
<1>7. /\ summaries' \in Seq(Reports)
      /\ DOMAIN summaries' = DOMAIN summaries \cup {Len(summaries) + 1}
      /\ Len(summaries) + 1 \notin DOMAIN summaries
      /\ \A i \in DOMAIN summaries : summaries'[i] = summaries[i]
      /\ summaries'[Len(summaries) + 1] = Report(w)
  BY <1>5, <1>6, WireAppend
<1>8. Arrived' = Arrived \cup {w}
  BY <1>6, <1>7 DEF Arrived
<1>9. w \notin Arrived
  BY <1>1 DEF SummaryInv
<1>10. \A i, j \in DOMAIN summaries' : summaries'[i].of = summaries'[j].of => i = j
  <2>1. \A i \in DOMAIN summaries : summaries[i].of # w
    BY <1>9 DEF Arrived
  <2>2. \A i, j \in DOMAIN summaries : summaries[i].of = summaries[j].of => i = j
    BY DEF SummaryInv
  <2>. QED BY <1>6, <1>7, <2>1, <2>2
<1>11. Folded' = Folded
  BY <1>1, <1>4, <1>8 DEF Folded
<1>12. Done' = Done
  BY <1>1 DEF Done
<1>13. ASSUME NEW v \in Shards
       PROVE  /\ summary'[v] = SummaryOf(DoneBy(v))' /\ shard'[v] # "add"
              /\ wire'[v] # <<>> =>
                   worker'[v] = "ended" /\ wire'[v] = <<Export(SummaryOf(AllOf(v))')>>
  <2>1. DoneBy(v)' = DoneBy(v)
    BY <1>1, <1>12, OwnStays DEF DoneBy
  <2>2. SummaryOf(DoneBy(v))' = SummaryOf(DoneBy(v))
    BY <1>1, <2>1 DEF SummaryOf, Counted, Requests, Met, Plain, inputs
  <2>3. SummaryOf(AllOf(v))' = SummaryOf(AllOf(v))
    BY <1>1, ReportStays
  <2>. QED BY <1>1, <1>4, <2>2, <2>3 DEF SummaryInv
<1>14. ~firstErr' => merged' = SummaryOf(UNION {AllOf(v) : v \in Folded})'
  BY <1>1, <1>11, FoldedStays DEF SummaryInv
<1>15. summaries' \in Seq({Report(v)' : v \in Shards})
  BY <1>1, <1>7, ReportsStay DEF Reports
<1>16. \A v \in Arrived' : shard'[v] = "end"
  <2>1. Arrived \subseteq Shards /\ \A v \in Arrived : shard[v] = "end"
    BY ArrivedSub DEF SummaryInv
  <2>. QED BY <1>4, <1>8, <2>1
<1>. QED BY <1>1, <1>10, <1>13, <1>14, <1>15, <1>16 DEF SummaryInv

\* Merging the next summary counts the requests of its shard, which no other has.
LEMMA SummaryMerge ==
    ASSUME Mode, ControlInv, mode = "summary", SummaryInv, MergeNext
    PROVE  SummaryInv'
<1>1. /\ UNCHANGED inputs /\ UNCHANGED <<worker, finished, summary, wire, shard, agg, firstErr>>
      /\ Barrier /\ ~firstErr /\ summaries # <<>>
      /\ merged' = MergeSummary(merged, Head(summaries).sum)
      /\ summaries' = Tail(summaries)
  BY DEF MergeNext, workerSide
<1>. DEFINE Reports == {Report(v) : v \in Shards}
            h == Head(summaries)
<1>2. summaries \in Seq(Reports)
  BY DEF SummaryInv
<1>3. \A i, j \in DOMAIN summaries : summaries[i].of = summaries[j].of => i = j
  BY DEF SummaryInv
<1>4. PICK w \in Shards : h = Report(w)
  <2>1. h \in Reports
    BY <1>1, <1>2, HeadTailProperties
  <2>. QED BY <2>1
<1>. HIDE DEF Reports, h
<1>5. /\ summaries' \in Seq(Reports) /\ 1 \in DOMAIN summaries /\ h = summaries[1]
      /\ \A i \in DOMAIN summaries' :
           i + 1 \in DOMAIN summaries /\ i + 1 # 1 /\ summaries'[i] = summaries[i + 1]
      /\ \A j \in DOMAIN summaries : j # 1 =>
           j - 1 \in DOMAIN summaries' /\ summaries'[j - 1] = summaries[j]
      /\ \A i, j \in DOMAIN summaries' : i + 1 = j + 1 => i = j
  BY <1>1, <1>2, WireTail DEF h
<1>6. h.of = w /\ h.sum = SummaryOf(AllOf(w)) /\ summaries[1].of = w
  BY <1>4, <1>5 DEF Report
<1>7. Arrived' = Arrived \ {w} /\ w \in Arrived
  <2>1. w \in Arrived
    BY <1>5, <1>6 DEF Arrived
  <2>2. ASSUME NEW q \in Arrived' PROVE q \in Arrived \ {w}
    <3>1. PICK i \in DOMAIN summaries' : q = summaries'[i].of
      BY <2>2 DEF Arrived
    <3>2. i + 1 \in DOMAIN summaries /\ i + 1 # 1 /\ q = summaries[i + 1].of
      BY <1>5, <3>1
    <3>3. q # w
      BY <1>3, <1>5, <1>6, <3>2
    <3>. QED BY <3>2, <3>3 DEF Arrived
  <2>3. ASSUME NEW q \in Arrived, q # w PROVE q \in Arrived'
    <3>1. PICK j \in DOMAIN summaries : q = summaries[j].of
      BY <2>3 DEF Arrived
    <3>2. j # 1
      BY <1>6, <2>3, <3>1
    <3>3. j - 1 \in DOMAIN summaries' /\ summaries'[j - 1] = summaries[j]
      BY <1>5, <3>2
    <3>. QED BY <3>1, <3>3 DEF Arrived
  <2>. QED BY <2>1, <2>2, <2>3
<1>8. \A i, j \in DOMAIN summaries' : summaries'[i].of = summaries'[j].of => i = j
  <2>1. ASSUME NEW i \in DOMAIN summaries', NEW j \in DOMAIN summaries',
               summaries'[i].of = summaries'[j].of
        PROVE  i = j
    <3>1. /\ i + 1 \in DOMAIN summaries /\ summaries'[i] = summaries[i + 1]
          /\ j + 1 \in DOMAIN summaries /\ summaries'[j] = summaries[j + 1]
      BY <1>5
    <3>2. i + 1 = j + 1
      BY <1>3, <2>1, <3>1
    <3>. QED BY <1>5, <3>2
  <2>. QED BY <2>1
<1>9. shard[w] = "end" /\ Folded' = Folded \cup {w} /\ w \notin Folded
  <2>1. shard[w] = "end"
    BY <1>7 DEF SummaryInv
  <2>. QED BY <1>1, <1>7, <2>1 DEF Folded
<1>10. merged' = SummaryOf((UNION {AllOf(v) : v \in Folded}) \cup AllOf(w))
  <2>. DEFINE R == UNION {AllOf(v) : v \in Folded}
              S == AllOf(w)
  <2>1. R \subseteq Requests /\ S \subseteq Requests /\ R \cap S = {}
    BY <1>9, RequestsOf DEF Folded
  <2>2. Walks
    BY DEF Mode, Walks
  <2>3. merged = SummaryOf(R)
    BY <1>1 DEF SummaryInv
  <2>. HIDE DEF R, S
  <2>4. MergeSummary(SummaryOf(R), SummaryOf(S)) = SummaryOf(R \cup S)
    BY <2>1, <2>2, CountedTwo
  <2>5. merged' = MergeSummary(SummaryOf(R), SummaryOf(S))
    BY <1>1, <1>6, <2>3 DEF S, h
  <2>. QED BY <2>4, <2>5, Zenon DEF R, S
<1>11. (UNION {AllOf(v) : v \in Folded})' = (UNION {AllOf(v) : v \in Folded}) \cup AllOf(w)
  <2>1. \A v : AllOf(v)' = AllOf(v)
    BY <1>1, SentStays
  <2>. QED BY <1>9, <2>1
<1>12. SummaryOf(UNION {AllOf(v) : v \in Folded})'
         = SummaryOf((UNION {AllOf(v) : v \in Folded}) \cup AllOf(w))
  BY <1>1, <1>11 DEF SummaryOf, Counted, Requests, Met, Plain, inputs
<1>13. Done' = Done
  BY <1>1 DEF Done
<1>14. ASSUME NEW v \in Shards
       PROVE  /\ summary'[v] = SummaryOf(DoneBy(v))'
              /\ wire'[v] # <<>> =>
                   worker'[v] = "ended" /\ wire'[v] = <<Export(SummaryOf(AllOf(v))')>>
  <2>1. DoneBy(v)' = DoneBy(v)
    BY <1>1, <1>13, OwnStays DEF DoneBy
  <2>2. SummaryOf(DoneBy(v))' = SummaryOf(DoneBy(v))
    BY <1>1, <2>1 DEF SummaryOf, Counted, Requests, Met, Plain, inputs
  <2>3. SummaryOf(AllOf(v))' = SummaryOf(AllOf(v))
    BY <1>1, ReportStays
  <2>. QED BY <1>1, <2>2, <2>3 DEF SummaryInv
<1>15. summaries' \in Seq({Report(v)' : v \in Shards})
  BY <1>1, <1>5, ReportsStay DEF Reports
<1>16. \A v \in Arrived' : shard'[v] = "end"
  BY <1>1, <1>7 DEF SummaryInv
<1>. QED BY <1>1, <1>8, <1>10, <1>12, <1>14, <1>15, <1>16 DEF SummaryInv

LEMMA SummaryStep ==
    ASSUME ClusterInv, mode = "summary", [Next]_vars
    PROVE  SummaryInv'
<1>0. Mode /\ ControlInv /\ SummaryInv
  BY InvParts
<1>5. \A v \in Shards : shard[v] # "add" /\ (worker[v] = "running" => wire[v] = <<>>)
  BY <1>0 DEF SummaryInv
<1>1. CASE UNCHANGED vars
  BY <1>0, <1>1, <1>5, SummaryStays DEF vars, inputs
<1>2. CASE Return \/ Cancel
  BY <1>0, <1>2, <1>5, SummaryStays DEF Return, Cancel, workerSide, master
<1>3. CASE MergeNext
  BY <1>0, <1>3, SummaryMerge
<1>4. ASSUME NEW w \in Workers, WorkerNext(w) \/ MasterNext(w)
      PROVE  SummaryInv'
  <2>0. w \in Shards
    BY <1>0, <1>4, Active DEF WorkerNext, MasterNext, Open, UserStep, ShardEnds, WorkerFails,
         WorkerStops, Recv, Add, RecvSummary, RecvEOF, RecvError, CallFails
  <2>2. DOMAIN shard = Workers /\ DOMAIN worker = Workers /\ DOMAIN wire = Workers
        /\ Shards \subseteq Workers
    BY <1>0, ShardsAre DEF Mode
  <2>3. CASE Open(w)
    <3>1. /\ UNCHANGED inputs
          /\ UNCHANGED <<wire, agg, finished, summary, summaries, merged, firstErr>>
          /\ shard[w] = "open" /\ shard' = [shard EXCEPT ![w] = "recv"]
          /\ worker' = [worker EXCEPT ![w] = "running"]
      BY <2>3 DEF Open, master
    <3>2. worker[w] = "idle"
      BY <1>0, <2>0, <3>1 DEF ControlInv
    <3>. QED BY <1>0, <1>5, <2>0, <2>2, <3>1, <3>2, SummaryStays
  <2>4. CASE UserStep(w)
    BY <1>0, <2>0, <2>4, SummaryUserStep
  <2>5. CASE ShardEnds(w)
    BY <1>0, <2>0, <2>5, SummaryShardEnds
  <2>6. CASE WorkerFails(w) \/ WorkerStops(w)
    <3>1. /\ UNCHANGED inputs
          /\ UNCHANGED <<agg, finished, summary, summaries, merged, firstErr, shard>>
          /\ worker[w] = "running" /\ worker' = [worker EXCEPT ![w] = "failed"]
      BY <2>6 DEF WorkerFails, WorkerStops, master
    <3>2. \A v \in Shards : wire'[v] = wire[v]
      <4>1. CASE WorkerStops(w)
        BY <4>1 DEF WorkerStops
      <4>2. CASE WorkerFails(w)
        <5>1. wire[w] = <<>>
          BY <1>5, <2>0, <3>1
        <5>2. PICK n \in 0..Len(wire[w]) : wire' = [wire EXCEPT ![w] = SubSeq(@, 1, n)]
          BY <4>2 DEF WorkerFails
        <5>3. n = 0
          BY <5>1, <5>2
        <5>4. SubSeq(wire[w], 1, n) = <<>>
          BY <5>3, SubSeqEmpty
        <5>. QED BY <2>2, <5>1, <5>2, <5>4
      <4>. QED BY <2>6, <4>1, <4>2
    <3>. QED BY <1>0, <1>5, <2>0, <2>2, <3>1, <3>2, SummaryStays
  <2>7. CASE RecvSummary(w)
    BY <1>0, <2>0, <2>7, SummaryRecv
  <2>8. CASE Recv(w) \/ RecvEOF(w)
    BY <2>8 DEF Recv, RecvEOF
  <2>9. CASE Add(w)
    BY <1>5, <2>0, <2>9 DEF Add
  <2>10. CASE RecvError(w)
    <3>1. /\ UNCHANGED inputs
          /\ UNCHANGED <<wire, agg, finished, summary, summaries, merged, worker>>
          /\ firstErr' = TRUE /\ shard' = [shard EXCEPT ![w] = "end"]
      BY <2>10 DEF RecvError, workerSide, master
    <3>. QED BY <1>0, <1>5, <2>0, <2>2, <3>1, SummaryStays
  <2>. QED BY <1>4, <2>3, <2>4, <2>5, <2>6, <2>7, <2>8, <2>9, <2>10 DEF WorkerNext, MasterNext
<1>. QED BY <1>1, <1>2, <1>3, <1>4 DEF Next

----------------------------------------------------------------------------
(* The invariant holds, and what it gives *)

LEMMA InitInv == ASSUME Init PROVE ClusterInv
<1>. USE DEF Init
<1>1. Mode
  <2>1. finished \in [Users -> 0..MaxSteps]
    BY Sizes
  <2>2. /\ worker \in [Workers -> {"idle", "running", "ended", "failed"}]
        /\ shard \in [Workers -> {"open", "recv", "add", "end"}]
    OBVIOUS
  <2>3. DOMAIN wire = Workers /\ DOMAIN stamped = Workers /\ DOMAIN summary = Workers
    OBVIOUS
  <2>4. clock \in Nat \ {0}
    OBVIOUS
  <2>5. firstErr \in BOOLEAN
    OBVIOUS
  <2>. QED BY <2>1, <2>2, <2>3, <2>4, <2>5 DEF Mode
<1>2. ControlInv
  BY ShardsAre DEF ControlInv
<1>3. Done = {}
  <2>1. \A p \in Requests : ~(p[2] <= finished[p[1]])
    BY Sizes DEF Requests
  <2>. QED BY <2>1 DEF Done
<1>4. \A w : DoneBy(w) = {}
  BY <1>3 DEF DoneBy
<1>5. ASSUME NEW w \in Shards
      PROVE  shard[w] = "open" /\ wire[w] = <<>> /\ summary[w] = NewSummary
  BY ShardsAre
<1>6. StreamInv
  <2>1. ASSUME NEW w \in Shards
        PROVE  OnWire(w) = {} /\ InHand(w) = {} /\ wire[w] \in Seq(Sent(w)) /\ DOMAIN wire[w] = {}
    <3>1. shard[w] = "open" /\ wire[w] = <<>>
      BY <1>5
    <3>. HIDE DEF Init
    <3>2. <<>> \in Seq(Sent(w)) /\ DOMAIN <<>> = {}
      BY EmptySeq
    <3>. QED BY <3>1, <3>2 DEF OnWire, InHand
  <2>2. Seen = {}
    BY DEF Seen
  <2>3. Received = {}
    BY <2>1, <2>2 DEF Received
  <2>4. collector = CollectorOf(Received)
    BY <2>3, CountedNone
  <2>5. ASSUME NEW w \in Shards
        PROVE  ShardStream(w)
    <3>1. shard[w] = "open" /\ DoneBy(w) = {} /\ wire[w] = <<>>
      BY <1>4, <1>5
    <3>. HIDE DEF Init
    <3>. QED BY <2>1, <3>1 DEF ShardStream
  <2>6. agg \in Seq(Stamps) /\ DOMAIN agg = {}
    BY EmptySeq
  <2>. QED BY <2>2, <2>4, <2>5, <2>6 DEF StreamInv
<1>7. SummaryInv
  <2>1. \A w \in Shards : summary[w] = SummaryOf(DoneBy(w))
    BY <1>4, <1>5, CountedNone
  <2>2. summaries \in Seq({Report(w) : w \in Shards}) /\ DOMAIN summaries = {}
    BY EmptySeq
  <2>3. Arrived = {}
    BY <2>2 DEF Arrived
  <2>4. Folded = {}
    BY <1>5 DEF Folded
  <2>5. UNION {AllOf(w) : w \in Folded} = {}
    BY <2>4
  <2>6. merged = SummaryOf(UNION {AllOf(w) : w \in Folded})
    BY <2>5, CountedNone
  <2>. QED BY <1>5, <2>1, <2>2, <2>3, <2>6 DEF SummaryInv
<1>. QED BY <1>1, <1>2, <1>6, <1>7 DEF ClusterInv

LEMMA StepInv == ASSUME ClusterInv, [Next]_vars PROVE ClusterInv'
<1>0. Mode /\ ControlInv /\ StreamInv /\ SummaryInv
  BY InvParts
<1>1. Mode' /\ ControlInv'
  BY <1>0, ModeStep, ControlStep
<1>2. mode' = mode
  <2>. USE DEF inputs
  <2>1. CASE UNCHANGED vars
    BY <2>1 DEF vars
  <2>2. CASE MergeNext \/ Return \/ Cancel
    BY <2>2 DEF MergeNext, Return, Cancel
  <2>3. ASSUME NEW w \in Workers, WorkerNext(w) \/ MasterNext(w)
        PROVE  mode' = mode
    BY <2>3 DEF WorkerNext, MasterNext, Open, UserStep, ShardEnds, WorkerFails, WorkerStops, Recv,
         Add, RecvSummary, RecvEOF, RecvError
  <2>. QED BY <2>1, <2>2, <2>3 DEF Next
<1>3. CASE mode = "stream"
  <2>1. StreamInv'
    BY <1>3, StreamStep
  <2>2. SummaryInv'
    BY <1>2, <1>3 DEF SummaryInv
  <2>. QED BY <1>1, <2>1, <2>2 DEF ClusterInv
<1>4. CASE mode = "summary"
  <2>1. SummaryInv'
    BY <1>4, SummaryStep
  <2>2. StreamInv'
    BY <1>2, <1>4 DEF StreamInv
  <2>. QED BY <1>1, <2>1, <2>2 DEF ClusterInv
<1>. QED BY <1>0, <1>3, <1>4 DEF Mode

\* The inductive invariant: who may act, where each finished request is, and what
\* the collector and the merged summary have counted.
THEOREM ClusterInvariance == Spec => []ClusterInv
<1>1. Init => ClusterInv
  BY InitInv
<1>2. ClusterInv /\ [Next]_vars => ClusterInv'
  BY StepInv
<1>. QED BY <1>1, <1>2, PTL DEF Spec

\* A call that returned without error finished every request of every shard.
LEMMA AllDone ==
    ASSUME ClusterInv, ret = "ok"
    PROVE  /\ Done = Requests /\ ~firstErr /\ summaries = <<>>
           /\ \A w \in Shards : /\ shard[w] = "end" /\ worker[w] = "ended"
                               /\ DoneBy(w) = AllOf(w)
<1>1. ~firstErr /\ summaries = <<>> /\ \A w \in Shards : shard[w] = "end"
  BY InvParts, ShardsAre DEF ControlInv, Barrier
<1>2. \A w \in Shards : worker[w] = "ended" /\ \A g \in Own(w) : finished[g] = MaxSteps
  BY <1>1, InvParts DEF ControlInv
<1>3. \A w \in Shards : DoneBy(w) = AllOf(w)
  BY <1>2, DoneAll
<1>4. Done = Requests
  BY <1>3, DoneSub, RequestsOf
<1>. QED BY <1>1, <1>2, <1>3, <1>4

\* An aggregator without repetition that has seen every request has each exactly once.
LEMMA OnceEach ==
    ASSUME NEW T, agg \in Seq(T), Seen = Requests,
           \A i, j \in DOMAIN agg : ObsKey(agg[i]) = ObsKey(agg[j]) => i = j
    PROVE  EveryRequestOnce
<1>1. DOMAIN agg = 1..Len(agg) /\ Len(agg) \in Nat
  BY LenProperties
<1>2. ASSUME NEW p \in Requests
      PROVE  Cardinality({i \in DOMAIN agg : ObsKey(agg[i]) = p}) = 1
  <2>1. PICK i \in DOMAIN agg : p = ObsKey(agg[i])
    BY DEF Seen
  <2>2. {j \in DOMAIN agg : ObsKey(agg[j]) = p} = {i}
    BY <2>1
  <2>. QED BY <2>2, FS_Singleton
<1>3. Len(agg) = TotalUsers * MaxSteps
  <2>. DEFINE f == [i \in DOMAIN agg |-> ObsKey(agg[i])]
  <2>1. f \in Bijection(1..Len(agg), Requests)
    <3>1. f \in [1..Len(agg) -> Requests]
      BY <1>1 DEF Seen
    <3>2. \A i, j \in 1..Len(agg) : f[i] = f[j] => i = j
      BY <1>1
    <3>3. \A p \in Requests : \E i \in 1..Len(agg) : f[i] = p
      BY <1>1 DEF Seen
    <3>. HIDE DEF f
    <3>. QED BY <3>1, <3>2, <3>3, Fun_IsBij
  <2>2. ExistsBijection(1..Len(agg), Requests)
    BY <2>1 DEF ExistsBijection
  <2>3. IsFiniteSet(1..Len(agg)) /\ Cardinality(1..Len(agg)) = Len(agg)
    BY <1>1, FS_Interval
  <2>4. Cardinality(Requests) = Len(agg)
    BY <2>2, <2>3, FS_Bijection
  <2>5. /\ IsFiniteSet(Users) /\ Cardinality(Users) = TotalUsers
        /\ IsFiniteSet(1..MaxSteps) /\ Cardinality(1..MaxSteps) = MaxSteps
    BY Sizes, FS_Interval DEF Users
  <2>. QED BY <2>4, <2>5, FS_Product DEF Requests
<1>. QED BY <1>2, <1>3 DEF EveryRequestOnce

LEMMA InvWhole == ASSUME ClusterInv PROVE WholeRun
<1>. SUFFICES ASSUME ret = "ok"
              PROVE  IF mode = "stream"
                     THEN EveryRequestOnce /\ collector = CollectorOf(Requests)
                     ELSE merged = SummaryOf(Requests)
  BY DEF WholeRun
<1>0. Mode /\ StreamInv /\ SummaryInv
  BY InvParts
<1>1. CASE mode = "stream"
  <2>1. \A w \in Shards : ShardStream(w)
    BY <1>0, <1>1 DEF StreamInv
  <2>2. \A w \in Shards : OnWire(w) = {} /\ InHand(w) = {}
    BY <2>1, AllDone DEF ShardStream, OnWire, InHand
  <2>3. \A w \in Shards : AllOf(w) \subseteq Seen
    BY <2>1, <2>2, AllDone DEF ShardStream
  <2>4. Seen = Requests
    BY <1>0, <1>1, <2>3, AllDone, RequestsOf DEF StreamInv
  <2>5. Received = Requests
    BY <2>2, <2>4 DEF Received
  <2>. QED BY <1>0, <1>1, <2>4, <2>5, OnceEach DEF StreamInv
<1>2. CASE mode = "summary"
  <2>1. Arrived = {}
    BY AllDone DEF Arrived
  <2>2. Folded = Shards
    BY <2>1, AllDone DEF Folded
  <2>3. UNION {AllOf(w) : w \in Folded} = Requests
    BY <2>2, RequestsOf
  <2>. QED BY <1>0, <1>2, <2>3, AllDone DEF SummaryInv
<1>. QED BY <1>0, <1>1, <1>2 DEF Mode

LEMMA InvReplays == ASSUME ClusterInv PROVE EvidenceReplays
<1>. SUFFICES ASSUME NEW i \in DOMAIN agg, NEW o, o = agg[i]
              PROVE  /\ o.ranSeed = o.seed
                     /\ [api |-> o.api, code |-> o.code, lat |-> o.lat, class |-> o.class]
                          = answer[o.seed][o.step]
                     /\ (\A v, w \in Workers : pool[v] = pool[w]) =>
                          o.ranAs = pool[1][(o.session % Len(pool[1])) + 1]
  BY DEF EvidenceReplays
<1>0. Mode /\ StreamInv /\ SummaryInv /\ Walks
  BY InvParts
<1>1. mode = "stream"
  BY <1>0 DEF Mode, SummaryInv
<1>2. o \in Stamps
  <2>1. agg \in Seq(Stamps)
    BY <1>0, <1>1 DEF StreamInv
  <2>. QED BY <2>1, LenProperties, ElementOfSeq
<1>3. PICK r \in UNION {Sent(w) : w \in Shards}, t \in 1..clock : o = Observation(r, t)
  BY <1>2 DEF Stamps
<1>4. PICK w \in Shards : r \in Sent(w)
  BY <1>3
<1>5. /\ o.api = r.api /\ o.code = r.code /\ o.lat = r.lat /\ o.class = r.class
      /\ o.session = r.user /\ o.seed = r.user /\ o.step = r.step
      /\ o.ranSeed = r.ranSeed /\ o.ranAs = r.ranAs
  BY <1>3 DEF Observation
<1>6. /\ [api |-> r.api, code |-> r.code, lat |-> r.lat, class |-> r.class] = Met(<<r.user, r.step>>)
      /\ r.ranSeed = r.user /\ r.ranAs = pool[w][(r.user % Len(pool[w])) + 1]
  BY <1>0, <1>4, SentIs
<1>7. w \in Workers /\ 1 \in Workers
  BY ShardsAre, Sizes DEF Workers
<1>. QED BY <1>5, <1>6, <1>7 DEF Met

\* WholeRun: a distributed run that returns without error has every request of every
\* user exactly once, whatever failed, was cut short or was cancelled on the way.
THEOREM RunIsWhole == Spec => []WholeRun
<1>1. ClusterInv => WholeRun
  BY InvWhole
<1>. QED BY <1>1, ClusterInvariance, PTL

\* EvidenceReplays: a streamed observation names the seed and the principal it ran
\* under, however many workers the users were split over.
THEOREM EvidenceIsReplayable == Spec => []EvidenceReplays
<1>1. ClusterInv => EvidenceReplays
  BY InvReplays
<1>. QED BY <1>1, ClusterInvariance, PTL
=============================================================================
