--------------------------- MODULE SessionProofs ---------------------------
(***************************************************************************)
(* What a session rests on: the account that is signed up for it, and the  *)
(* journey it then walks.                                                  *)
(*                                                                         *)
(* Bootstrap: no account of a bootstrap-signup run is lost silently and no *)
(* closed run starts half-authenticated, for every pool size, burst width  *)
(* and number of signup attempts.  Scenario: whatever documents are        *)
(* authored or posted, no walk breaks a rule of its graph, and a session   *)
(* of an ordinary flow visits its steps in the authored order.             *)
(***************************************************************************)
EXTENDS Bootstrap, Scenario, FiniteSetTheorems, TLAPS

(***************************************************************************)
(* Bootstrap: the provider, the run and its teardown                       *)
(***************************************************************************)
LEMMA BootInit == Init => BootInv
  BY UsersAssumption DEF Init, BootInv, ProviderInv, MainInv, AccountInv, AssignInv, Ending,
             Signing, PCs, Users, env, provider, target, cleanup

\* The run's goroutine acquires one index and returns from it: with the credential,
\* with an error that ends a closed run, or with one that an open run skips.
LEMMA AssignReturnStep == BootInv /\ AssignReturn => BootInv'
<1>. SUFFICES ASSUME BootInv, AssignReturn PROVE BootInv'
  OBVIOUS
<1>. USE UsersAssumption
<1>1. /\ main = "acquiring" /\ next \in Users
      /\ pc \in [Users -> PCs]
      /\ pc' = [pc EXCEPT ![next] = "gone"]
      /\ \A i \in Users \ {next} : pc[i] \in {"idle", "gone"}
  BY DEF AssignReturn, Goto, BootInv, ProviderInv, MainInv, Users
<1>2. \A i \in Users : pc'[i] \in {"idle", "gone"}
  BY <1>1
<1>3. \A i \in Users : pc[i] \notin Signing \cup {"signed"}
  BY <1>1 DEF AssignReturn, Signing
<1>4. inflight = {} /\ inflight' = {} /\ cache' = cache
  BY <1>3 DEF AssignReturn, BootInv, ProviderInv, provider
<1>5. /\ todo' = {} /\ confirmed' = confirmed /\ confirmed \subseteq cache
      /\ assigned \subseteq cache
      /\ ~open => assigned = 1 .. next - 1
      /\ open' = open
  BY <1>1, <1>3 DEF AssignReturn, BootInv, AccountInv, AssignInv, Ending, env, target, cleanup
<1>6. pc' \in [Users -> PCs]
  BY <1>1 DEF PCs
<1>7. CASE pc[next] = "leave"
  <2>1. /\ main' = "assign" /\ next' = next + 1
        /\ assigned' = assigned \cup {next} /\ next \in cache
    BY <1>1, <1>7 DEF AssignReturn, BootInv, ProviderInv, Ending
  <2>2. ProviderInv' /\ MainInv'
    BY <1>1, <1>2, <1>4, <1>6, <2>1 DEF ProviderInv, MainInv, Ending, Signing, Users
  <2>3. AccountInv'
    BY <1>4, <1>5, <2>1 DEF AccountInv, Ending
  <2>4. AssignInv'
    BY <1>1, <1>5, <2>1 DEF AssignInv, Users
  <2>. QED BY <2>2, <2>3, <2>4 DEF BootInv
<1>8. CASE pc[next] = "error" /\ open
  <2>1. main' = "assign" /\ next' = next + 1 /\ assigned' = assigned
    BY <1>8 DEF AssignReturn
  <2>2. ProviderInv' /\ MainInv'
    BY <1>1, <1>2, <1>4, <1>6, <2>1 DEF ProviderInv, MainInv, Ending, Signing, Users
  <2>3. AccountInv' /\ AssignInv'
    BY <1>4, <1>5, <1>8, <2>1 DEF AccountInv, AssignInv, Ending
  <2>. QED BY <2>2, <2>3 DEF BootInv
<1>9. CASE pc[next] = "error" /\ ~open
  <2>1. main' = "clear" /\ next' = next /\ assigned' = assigned
    BY <1>9 DEF AssignReturn
  <2>2. ProviderInv' /\ MainInv'
    BY <1>1, <1>2, <1>4, <1>6, <2>1 DEF ProviderInv, MainInv, Ending, Signing, Users
  <2>3. AccountInv' /\ AssignInv'
    BY <1>4, <1>5, <2>1 DEF AccountInv, AssignInv, Ending
  <2>. QED BY <2>2, <2>3 DEF BootInv
<1>. QED BY <1>7, <1>8, <1>9 DEF AssignReturn

LEMMA BootNext == BootInv /\ [Next]_vars => BootInv'
<1>. SUFFICES ASSUME BootInv, [Next]_vars PROVE BootInv'
  OBVIOUS
<1>. USE UsersAssumption
     DEF BootInv, ProviderInv, MainInv, AccountInv, AssignInv, Ending, Signing,
         PCs, Users, env, provider, target, cleanup
<1>1. CASE BurstCheck
  BY <1>1 DEF BurstCheck
<1>2. CASE BurstLaunch
  BY <1>2 DEF BurstLaunch, Goto, SlotFree
<1>3. CASE BurstStop
  BY <1>3 DEF BurstStop
<1>4. CASE BurstDrained
  BY <1>4 DEF BurstDrained, Burst
<1>5. CASE Assign
  BY <1>5 DEF Assign, Goto
<1>6. CASE AssignReturn
  BY <1>6, AssignReturnStep
<1>7. CASE Load
  BY <1>7 DEF Load
<1>8. CASE TeardownClear
  BY <1>8 DEF TeardownClear
<1>9. CASE TeardownSend
  BY <1>9 DEF TeardownSend
<1>10. CASE TeardownReturn
  BY <1>10 DEF TeardownReturn
<1>11. ASSUME NEW i \in Users, TeardownOne(i) PROVE BootInv'
  BY <1>11 DEF TeardownOne, Lowest
<1>12. ASSUME NEW i \in Users, TeardownFails(i) PROVE BootInv'
  BY <1>12 DEF TeardownFails, Lowest, Orphaned
<1>13. ASSUME NEW i \in Users, TeardownRefused(i) PROVE BootInv'
  BY <1>13 DEF TeardownRefused, Lowest, Orphaned
<1>14. ASSUME NEW i \in Users, Acquire(i) PROVE BootInv'
  BY <1>14 DEF Acquire, Goto
<1>15. ASSUME NEW i \in Users, Attempt(i) PROVE BootInv'
  BY <1>15 DEF Attempt, Goto, CtxDone
<1>16. ASSUME NEW i \in Users, Backoff(i) PROVE BootInv'
  BY <1>16 DEF Backoff, Goto, CtxDone
<1>17. ASSUME NEW i \in Users, AcquireRecord(i) PROVE BootInv'
  BY <1>17 DEF AcquireRecord, Goto
<1>18. ASSUME NEW i \in Users, BurstLeave(i) PROVE BootInv'
  BY <1>18 DEF BurstLeave, Goto
<1>19. ASSUME NEW i \in Users, SignupRefused(i) PROVE BootInv'
  BY <1>19 DEF SignupRefused, Transient, Goto
<1>20. ASSUME NEW i \in Users, SignupSend(i) PROVE BootInv'
  BY <1>20 DEF SignupSend, Goto
<1>21. ASSUME NEW i \in Users, SignupTransient(i) PROVE BootInv'
  BY <1>21 DEF SignupTransient, Transient, Goto
<1>22. ASSUME NEW i \in Users, SignupRejected(i) PROVE BootInv'
  BY <1>22 DEF SignupRejected, Goto
<1>23. ASSUME NEW i \in Users, SignupAccepted(i) PROVE BootInv'
  BY <1>23 DEF SignupAccepted, Goto
<1>24. ASSUME NEW i \in Users, SignupStops(i) PROVE BootInv'
  BY <1>24 DEF SignupStops, Goto, CtxDone
<1>25. CASE KillGuard \/ Cancel
  BY <1>25 DEF KillGuard, Cancel
<1>26. CASE UNCHANGED vars
  BY <1>26 DEF vars
<1>. HIDE DEF BootInv
<1>. QED
  BY <1>1, <1>2, <1>3, <1>4, <1>5, <1>6, <1>7, <1>8, <1>9, <1>10, <1>11, <1>12, <1>13,
     <1>14, <1>15, <1>16, <1>17, <1>18, <1>19, <1>20, <1>21, <1>22, <1>23, <1>24, <1>25, <1>26
  DEF Next, Main, Signup

\* The inductive invariant: the provider's maps agree with the acquisitions, the run's
\* goroutine acquires alone outside the burst, and a confirmed account stays in the
\* cache until teardown takes it over.
THEOREM BootInvariance == Spec => []BootInv
  BY BootInit, BootNext, PTL DEF Spec

\* Every account that a signup of the run confirmed is known to the provider until the
\* run is over, and then deleted or logged as an orphan: Acquire, prewarmBounded and
\* Teardown lose none, whatever fails and wherever the run is cut short.
THEOREM NoAccountLost == Spec => []Accounted
<1>1. BootInv => Accounted
  BY DEF BootInv, AccountInv, Accounted, Ending
<1>. QED BY <1>1, BootInvariance, PTL

\* A closed run reaches its load only with every user holding the credential of an
\* account confirmed for it (authenticateClosedUsers after a burst that may have been
\* cut short without an error).
THEOREM AuthenticatedLoad == Spec => []FullyAuthenticated
<1>1. BootInv => FullyAuthenticated
  BY DEF BootInv, AccountInv, AssignInv, FullyAuthenticated, Ending
<1>. QED BY <1>1, BootInvariance, PTL

\* No run has two acquisitions of one index at once, so Acquire's joining branch is
\* never taken by one.
THEOREM SignupsAlone == Spec => []LoneSignup
<1>1. BootInv => LoneSignup
  BY DEF BootInv, ProviderInv, LoneSignup, Signing
<1>. QED BY <1>1, BootInvariance, PTL

(***************************************************************************)
(* Scenario: the graph of a flow                                           *)
(***************************************************************************)

\* Two members of a set of numbers with as many members up to them are the same one.
LEMMA RankInjective ==
    ASSUME NEW S \in SUBSET Nat, IsFiniteSet(S), NEW a \in S, NEW b \in S,
           Cardinality({j \in S : j <= a}) = Cardinality({j \in S : j <= b})
    PROVE  a = b
<1>1. ASSUME NEW x \in S, NEW y \in S, x < y
      PROVE  Cardinality({j \in S : j <= x}) # Cardinality({j \in S : j <= y})
  <2> DEFINE X == {j \in S : j <= x}
             Y == {j \in S : j <= y}
  <2>1. IsFiniteSet(Y) /\ X \in SUBSET Y
    <3>1. Y \in SUBSET S
      OBVIOUS
    <3>2. X \in SUBSET Y
      <4>1. \A j \in S : j \in Nat
        OBVIOUS
      <4>2. \A j \in S : j <= x => j <= y
        BY <1>1, <4>1
      <4>. QED BY <4>2, Zenon
    <3>. HIDE DEF X, Y
    <3>. QED BY <3>1, <3>2, FS_Subset
  <2>2. y \in Y /\ y \notin X
    BY <1>1
  <2>. HIDE DEF X, Y
  <2>3. Cardinality(X) # Cardinality(Y)
    BY <2>1, <2>2, FS_Subset
  <2>. QED BY <2>3 DEF X, Y
<1>. QED BY <1>1

\* Nth ranks the members of a finite set: the k-th is a member, and every member is one
\* of them.
LEMMA NthMember ==
    ASSUME NEW S \in SUBSET Nat, IsFiniteSet(S), NEW k \in 1 .. Cardinality(S)
    PROVE  Nth(S, k) \in S /\ Cardinality({j \in S : j <= Nth(S, k)}) = k
<1> DEFINE n == Cardinality(S)
           rank == [i \in S |-> Cardinality({j \in S : j <= i})]
           T == {rank[i] : i \in S}
<1>1. n \in Nat
  BY FS_CardinalityType
<1>2. ASSUME NEW i \in S PROVE rank[i] \in 1 .. n
  <2> DEFINE X == {j \in S : j <= i}
  <2>1. X \in SUBSET S /\ i \in X
    OBVIOUS
  <2>. HIDE DEF X
  <2>2. IsFiniteSet(X) /\ Cardinality(X) <= n
    BY <2>1, FS_Subset
  <2>3. Cardinality(X) \in Nat /\ Cardinality(X) # 0
    BY <2>1, <2>2, FS_CardinalityType, FS_EmptySet
  <2>. QED BY <1>1, <2>2, <2>3 DEF X
<1>3. \A a \in S : \A b \in S : rank[a] = rank[b] => a = b
  BY RankInjective
<1>4. T \in SUBSET (1 .. n)
  BY <1>2
<1>5. IsFiniteSet(1 .. n) /\ Cardinality(1 .. n) = n
  BY <1>1, FS_Interval
<1>6. rank \in Bijection(S, T)
  BY <1>3 DEF Bijection, Injection, Surjection, IsInjective
<1>7. Cardinality(T) = n
  BY <1>6, FS_Bijection, Zenon DEF ExistsBijection
<1>. HIDE DEF T, n
<1>8. T = 1 .. n
  BY <1>4, <1>5, <1>7, FS_Subset
<1>9. \E i \in S : Cardinality({j \in S : j <= i}) = k
  BY <1>8 DEF T, n
<1>. QED BY <1>9 DEF Nth

LEMMA NthCovers ==
    ASSUME NEW S \in SUBSET Nat, IsFiniteSet(S), NEW i \in S
    PROVE  \E k \in 1 .. Cardinality(S) : Nth(S, k) = i
<1> DEFINE X == {j \in S : j <= i}
           k == Cardinality(X)
<1>1. X \in SUBSET S /\ i \in X
  OBVIOUS
<1>2. k \in Nat /\ k # 0 /\ k <= Cardinality(S)
  <2>. HIDE DEF X
  <2>. QED BY <1>1, FS_Subset, FS_CardinalityType, FS_EmptySet
<1>3. Cardinality(S) \in Nat
  BY FS_CardinalityType
<1>. HIDE DEF k
<1>4. k \in 1 .. Cardinality(S)
  BY <1>2, <1>3
<1>5. Nth(S, k) \in S /\ Cardinality({j \in S : j <= Nth(S, k)}) = k
  BY <1>4, NthMember
<1>6. Nth(S, k) = i
  BY <1>5, RankInjective DEF k
<1>. QED BY <1>4, <1>6

\* The distant requirements of a flow are finitely many of its positions.
LEMMA DistantFinite ==
    ASSUME NEW flow, Len(flow) \in Nat, DOMAIN flow = 1 .. Len(flow)
    PROVE  /\ Distant(flow) \in SUBSET Nat /\ IsFiniteSet(Distant(flow))
           /\ Distant(flow) \subseteq 1 .. Len(flow)
           /\ Cardinality(Distant(flow)) \in Nat
<1> DEFINE D == Distant(flow)
<1>1. D \in SUBSET (1 .. Len(flow))
  BY DEF Distant
<1>. HIDE DEF D
<1>2. IsFiniteSet(1 .. Len(flow))
  BY FS_Interval
<1>3. IsFiniteSet(D) /\ Cardinality(D) \in Nat
  BY <1>1, <1>2, FS_Subset, FS_CardinalityType
<1>4. D \in SUBSET Nat /\ D \subseteq 1 .. Len(flow)
  BY <1>1
<1>. QED BY <1>3, <1>4 DEF D

\* The edges of a flow's graph are the transitions and the distant requirements.
LEMMA FlowEdges ==
    ASSUME NEW flow, Len(flow) \in Nat, DOMAIN flow = 1 .. Len(flow)
    PROVE  Edges(buildGraph(flow)) =
             {flowEdge(flow[i], flow[i + 1]) : i \in 1 .. Len(flow) - 1}
             \cup {requiredEdge(flow[i]) : i \in Distant(flow)}
<1> DEFINE D == Distant(flow)
           n == Len(flow)
           m == Cardinality(D)
           TE == {flowEdge(flow[i], flow[i + 1]) : i \in 1 .. n - 1}
           RE == {requiredEdge(flow[i]) : i \in D}
           A == [i \in 1 .. n - 1 |-> flowEdge(flow[i], flow[i + 1])]
           B == [k \in 1 .. m |-> requiredEdge(flow[Nth(D, k)])]
<1>1. D \in SUBSET Nat /\ IsFiniteSet(D) /\ m \in Nat
  BY DistantFinite
<1>2. \A k \in 1 .. m : Nth(D, k) \in D
  BY <1>1, NthMember
<1>3. \A i \in D : \E k \in 1 .. m : Nth(D, k) = i
  BY <1>1, NthCovers
<1>4. buildGraph(flow).edges = A \o B
  BY DEF buildGraph
<1>. HIDE DEF D, m
<1>5. {A[i] : i \in 1 .. n - 1} = TE
  OBVIOUS
<1>6. {B[k] : k \in 1 .. m} = RE
  BY <1>2, <1>3
<1>. HIDE DEF TE, RE
<1>7. CASE n = 0
  <2>1. A \in Seq(TE \cup RE) /\ Len(A) = 0
    BY <1>7
  <2>2. B \in Seq(TE \cup RE) /\ Len(B) = m
    BY <1>1, <1>6
  <2>3. TE = {}
    BY <1>5, <1>7
  <2>. HIDE DEF A, B
  <2>4. Range(A \o B) = RE
    BY <1>1, <1>6, <2>1, <2>2, <2>3 DEF Range
  <2>. QED BY <1>4, <2>3, <2>4 DEF Edges, TE, RE, D
<1>8. CASE n # 0
  <2>0. n - 1 \in Nat
    BY <1>8
  <2>1. A \in Seq(TE \cup RE) /\ Len(A) = n - 1
    BY <1>5, <2>0
  <2>2. B \in Seq(TE \cup RE) /\ Len(B) = m
    BY <1>1, <1>6
  <2>. HIDE DEF A, B
  <2>3. /\ DOMAIN (A \o B) = 1 .. (n - 1) + m
        /\ \A i \in 1 .. n - 1 : (A \o B)[i] = A[i]
        /\ \A i \in 1 .. m : (A \o B)[(n - 1) + i] = B[i]
        /\ \A i \in 1 .. (n - 1) + m : \/ i \in 1 .. n - 1
                                      \/ \E k \in 1 .. m : i = (n - 1) + k
    <3>1. \A i \in 1 .. (n - 1) + m : i \notin 1 .. n - 1 =>
             i - (n - 1) \in 1 .. m /\ i = (n - 1) + (i - (n - 1))
      BY <1>1, <2>0
    <3>2. \A i \in 1 .. (n - 1) + m : \/ i \in 1 .. n - 1
                                     \/ \E k \in 1 .. m : i = (n - 1) + k
      BY <3>1
    <3>3. Len(A \o B) = (n - 1) + m /\ DOMAIN (A \o B) = 1 .. (n - 1) + m
      BY <1>1, <2>0, <2>1, <2>2
    <3>4. \A i \in 1 .. n - 1 : (A \o B)[i] = A[i]
      BY <1>1, <2>0, <2>1, <2>2
    <3>5. ASSUME NEW i \in 1 .. m PROVE (A \o B)[(n - 1) + i] = B[i]
      <4>. HIDE DEF n
      <4>1. /\ (n - 1) + i \in 1 .. (n - 1) + m
            /\ ~ ((n - 1) + i <= n - 1) /\ ((n - 1) + i) - (n - 1) = i
        BY <1>1, <2>0
      <4>2. Len(A) = n - 1 /\ Len(B) = m /\ A \in Seq(TE \cup RE) /\ B \in Seq(TE \cup RE)
        BY <2>1, <2>2
      <4>. DEFINE k == (n - 1) + i
      <4>3. k \in 1 .. Len(A) + Len(B) /\ ~ (k <= Len(A)) /\ k - Len(A) = i
        BY <4>1, <4>2
      <4>. HIDE DEF k
      <4>4. (A \o B)[k] = B[k - Len(A)]
        BY <4>2, <4>3
      <4>. QED BY <4>3, <4>4 DEF k
    <3>. QED BY <3>2, <3>3, <3>4, <3>5
  <2>4. Range(A \o B) = TE \cup RE
    <3>1. ASSUME NEW x \in Range(A \o B) PROVE x \in TE \cup RE
      <4>1. PICK i \in 1 .. (n - 1) + m : x = (A \o B)[i]
        BY <2>3, <3>1 DEF Range
      <4>2. CASE i \in 1 .. n - 1
        BY <1>5, <2>3, <4>1, <4>2
      <4>3. CASE \E k \in 1 .. m : i = (n - 1) + k
        BY <1>6, <2>3, <4>1, <4>3
      <4>. QED BY <2>3, <4>2, <4>3
    <3>2. ASSUME NEW x \in TE PROVE x \in Range(A \o B)
      <4>1. PICK i \in 1 .. n - 1 : x = A[i]
        BY <1>5, <3>2
      <4>2. i \in 1 .. (n - 1) + m
        BY <1>1, <2>0
      <4>. QED BY <2>3, <4>1, <4>2 DEF Range
    <3>3. ASSUME NEW x \in RE PROVE x \in Range(A \o B)
      <4>1. PICK k \in 1 .. m : x = B[k]
        BY <1>6, <3>3
      <4>2. (n - 1) + k \in 1 .. (n - 1) + m
        BY <1>1, <2>0
      <4>. QED BY <2>3, <4>1, <4>2 DEF Range
    <3>. QED BY <3>1, <3>2, <3>3
  <2>. QED BY <1>4, <2>4 DEF Edges, TE, RE, D
<1>. QED BY <1>7, <1>8

\* In the graph of a flow every requirement of a step is a dependency edge.
LEMMA RequirementEdge ==
    ASSUME NEW flow \in Seq(Step), NEW k \in DOMAIN flow, flow[k].dependsOn # NoStep
    PROVE  flow[k].dependsOn \in depPreds(buildGraph(flow), flow[k].id)
<1>1. Len(flow) \in Nat /\ DOMAIN flow = 1 .. Len(flow)
  OBVIOUS
<1>2. \E e \in Edges(buildGraph(flow)) :
         e.dependency /\ e.to = flow[k].id /\ e.from = flow[k].dependsOn
  <2>1. CASE k \in Distant(flow)
    <3>1. requiredEdge(flow[k]) \in Edges(buildGraph(flow))
      BY <1>1, <2>1, FlowEdges
    <3>. QED BY <3>1 DEF requiredEdge
  <2>2. CASE k \notin Distant(flow)
    <3>1. k > 1 /\ flow[k - 1].id = flow[k].dependsOn
      BY <2>2, Zenon DEF Distant
    <3>2. k - 1 \in 1 .. Len(flow) - 1 /\ (k - 1) + 1 = k
      BY <1>1, <3>1
    <3>3. flowEdge(flow[k - 1], flow[k]) \in Edges(buildGraph(flow))
      BY <1>1, <3>2, FlowEdges
    <3>. QED BY <3>1, <3>3 DEF flowEdge
  <2>. QED BY <2>1, <2>2
<1>. QED BY <1>2 DEF depPreds

\* The dependency predecessors of a step of an accepted flow: what the step requires,
\* and nothing else.
LEMMA FlowPreds ==
    ASSUME NEW flow \in Seq(Step), FlowOK(flow), NEW k \in DOMAIN flow,
           NEW p \in depPreds(buildGraph(flow), flow[k].id)
    PROVE  p = flow[k].dependsOn /\ p # NoStep
<1>1. Len(flow) \in Nat /\ DOMAIN flow = 1 .. Len(flow)
  OBVIOUS
<1>2. PICK e \in Edges(buildGraph(flow)) :
         e.dependency /\ e.to = flow[k].id /\ e.from = p
  BY DEF depPreds
<1>3. \A i, j \in DOMAIN flow : flow[i].id = flow[j].id => i = j
  BY Zenon DEF FlowOK, IsInjective
<1>4. \A i \in DOMAIN flow : flow[i].id # NoStep
  BY DEF FlowOK
<1>5. CASE \E i \in 1 .. Len(flow) - 1 : e = flowEdge(flow[i], flow[i + 1])
  <2>1. PICK i \in 1 .. Len(flow) - 1 : e = flowEdge(flow[i], flow[i + 1])
    BY <1>5
  <2>2. i \in DOMAIN flow /\ i + 1 \in DOMAIN flow
    BY <1>1
  <2>3. e.to = flow[i + 1].id /\ e.from = flow[i].id
        /\ e.dependency = (flow[i + 1].dependsOn = flow[i].id)
    BY <2>1 DEF flowEdge
  <2>4. i + 1 = k
    BY <1>2, <1>3, <2>2, <2>3
  <2>. QED BY <1>2, <1>4, <2>2, <2>3, <2>4
<1>6. CASE \E i \in Distant(flow) : e = requiredEdge(flow[i])
  <2>1. PICK i \in Distant(flow) : e = requiredEdge(flow[i])
    BY <1>6
  <2>2. i \in DOMAIN flow /\ flow[i].dependsOn # NoStep
    BY Zenon DEF Distant
  <2>3. e.to = flow[i].id /\ e.from = flow[i].dependsOn
    BY <2>1 DEF requiredEdge
  <2>4. i = k
    BY <1>2, <1>3, <2>2, <2>3
  <2>. QED BY <1>2, <2>2, <2>3, <2>4
<1>. QED BY <1>1, <1>2, <1>5, <1>6, FlowEdges

\* A positive transition out of a step of an accepted flow leads to the next step.
LEMMA FlowTransition ==
    ASSUME NEW flow \in Seq(Step), FlowOK(flow), NEW k \in DOMAIN flow,
           NEW e \in Edges(buildGraph(flow)), e.from = flow[k].id, e.weight > 0
    PROVE  k + 1 \in DOMAIN flow /\ e.to = flow[k + 1].id
<1>1. Len(flow) \in Nat /\ DOMAIN flow = 1 .. Len(flow)
  OBVIOUS
<1>2. \A i, j \in DOMAIN flow : flow[i].id = flow[j].id => i = j
  BY Zenon DEF FlowOK, IsInjective
<1>3. CASE \E i \in 1 .. Len(flow) - 1 : e = flowEdge(flow[i], flow[i + 1])
  <2>1. PICK i \in 1 .. Len(flow) - 1 : e = flowEdge(flow[i], flow[i + 1])
    BY <1>3
  <2>2. i \in DOMAIN flow /\ i + 1 \in DOMAIN flow
    BY <1>1
  <2>3. e.to = flow[i + 1].id /\ e.from = flow[i].id
    BY <2>1 DEF flowEdge
  <2>4. i = k
    BY <1>2, <2>2, <2>3
  <2>. QED BY <2>2, <2>3, <2>4
<1>4. CASE \E i \in Distant(flow) : e = requiredEdge(flow[i])
  <2>1. e.weight = 0
    BY <1>4 DEF requiredEdge
  <2>. QED BY <2>1
<1>. QED BY <1>1, <1>3, <1>4, FlowEdges

(***************************************************************************)
(* What a document gives the walk                                          *)
(***************************************************************************)

\* The fields of a document have their types.
LEMMA DocumentTypes ==
    ASSUME NEW d \in Documents
    PROVE  /\ d.flow \in Seq(Step) /\ d.maxSteps \in Int /\ d.segments \in Seq(Segment)
           /\ d.posted \in Seq(RunSpec) /\ d.graph \in ScenarioGraph
           /\ d.form = "posted" => d.posted # <<>>
<1>1. d \in ScenarioDoc /\ (d.form = "posted" => d.posted # <<>>)
  BY ScenarioAssumption, Zenon
<1>2. /\ d.flow \in Seq(Step) /\ d.maxSteps \in Int /\ d.segments \in Seq(Segment)
      /\ d.posted \in Seq(RunSpec) /\ d.graph \in ScenarioGraph
  BY <1>1, Zenon DEF ScenarioDoc
<1>. QED BY <1>1, <1>2

\* What Expand hands on.
LEMMA ExpandedFields ==
    ASSUME NEW d
    PROVE  /\ expandFrom(d).graph = Journey(d) /\ expandFrom(d).start = Start(d)
           /\ expandFrom(d).maxSteps =
                (IF d.maxSteps > 0 THEN d.maxSteps ELSE Len(Journey(d).nodes))
           /\ expandFrom(d).deviation = d.deviation /\ expandFrom(d).segments = d.segments
  BY DEF expandFrom

\* A flow's graph has one node a step.
LEMMA FlowNodes ==
    ASSUME NEW flow \in Seq(Step)
    PROVE  /\ Len(buildGraph(flow).nodes) = Len(flow) /\ Len(flow) \in Nat
           /\ Ids(buildGraph(flow)) = {flow[i].id : i \in DOMAIN flow}
<1>1. Len(flow) \in Nat /\ DOMAIN flow = 1 .. Len(flow)
  OBVIOUS
<1> DEFINE N == [i \in DOMAIN flow |-> flowNode(flow[i])]
<1>2. buildGraph(flow).nodes = N
  BY DEF buildGraph
<1>3. Len(N) = Len(flow)
  BY <1>1
<1>4. DOMAIN N = DOMAIN flow /\ \A i \in DOMAIN flow : N[i].id = flow[i].id
  BY DEF flowNode
<1>. HIDE DEF N
<1>5. {N[i].id : i \in DOMAIN N} = {flow[i].id : i \in DOMAIN flow}
  BY <1>4
<1>. QED BY <1>1, <1>2, <1>3, <1>5 DEF Ids

\* Only an accepted flow or a graph is expanded, and it passed the scenario checks.
LEMMA ExpandableForm ==
    ASSUME NEW d, Expandable(d)
    PROVE  /\ d.form \in {"flow", "graph"}
           /\ d.form = "flow" => FlowOK(d.flow)
           /\ ValidScenario(Journey(d))
  BY DEF Expandable, JourneyForm

\* The bound and the personas of a run spec that reached the control plane.
LEMMA SpecTypes ==
    ASSUME SourceInv, stage \notin {"authored", "rejected"}
    PROVE  spec.maxSteps \in Int /\ spec.segments \in Seq(Segment)
<1>1. doc \in Documents
  BY DEF SourceInv
<1>2. /\ doc.flow \in Seq(Step) /\ doc.maxSteps \in Int /\ doc.segments \in Seq(Segment)
      /\ doc.posted \in Seq(RunSpec) /\ doc.graph \in ScenarioGraph
      /\ doc.form = "posted" => doc.posted # <<>>
  BY <1>1, DocumentTypes
<1>3. CASE doc.form = "posted"
  <2>1. spec = doc.posted[1]
    BY <1>3 DEF SourceInv
  <2>2. doc.posted[1] \in RunSpec
    <3>. HIDE DEF RunSpec
    <3>1. ASSUME NEW T, NEW s \in Seq(T), s # <<>> PROVE s[1] \in T
      BY <3>1
    <3>. QED BY <1>2, <1>3, <3>1
  <2>. QED BY <2>1, <2>2, Zenon DEF RunSpec
<1>4. CASE doc.form # "posted"
  <2>1. Expandable(doc) /\ spec = expandFrom(doc)
    BY <1>4, Zenon DEF SourceInv
  <2>2. Len(Journey(doc).nodes) \in Int
    <3>1. CASE doc.form = "flow"
      BY <1>2, <3>1, FlowNodes DEF Journey
    <3>2. CASE doc.form # "flow"
      <4>1. doc.graph.nodes \in Seq(Node)
        BY <1>2, Zenon DEF ScenarioGraph
      <4>. HIDE DEF Node
      <4>2. Len(doc.graph.nodes) \in Int
        BY <4>1
      <4>. QED BY <3>2, <4>2 DEF Journey
    <3>. QED BY <3>1, <3>2
  <2>. QED BY <1>2, <2>1, <2>2, ExpandedFields
<1>. QED BY <1>3, <1>4

\* The step bound a session draws is a number.
LEMMA EntryTypes ==
    ASSUME SourceInv, stage = "created", NEW entry \in Entries(spec)
    PROVE  entry.maxSteps \in Int
<1>1. spec.maxSteps \in Int /\ spec.segments \in Seq(Segment)
  BY SpecTypes
<1>2. \A seg \in Range(spec.segments) : seg.maxSteps \in Int
  <2>1. \A seg \in Range(spec.segments) : seg \in Segment
    <3>1. ASSUME NEW T, NEW s \in Seq(T), NEW x \in Range(s) PROVE x \in T
      BY <3>1 DEF Range
    <3>. QED BY <1>1, <3>1
  <2>. QED BY <2>1, Zenon DEF Segment
<1>. QED BY <1>1, <1>2 DEF Entries

\* An ordinary flow's run spec is the graph of its steps, entered at the first one and
\* bounded by their number.
LEMMA OrdinarySpec ==
    ASSUME SourceInv, Ordinary(doc), stage \notin {"authored", "rejected"}
    PROVE  /\ doc.flow \in Seq(Step) /\ doc.flow # <<>> /\ FlowOK(doc.flow)
           /\ spec.graph = buildGraph(doc.flow) /\ spec.start = doc.flow[1].id
           /\ spec.maxSteps = Len(doc.flow) /\ spec.deviation = 0
           /\ spec.segments = <<>>
           /\ validateWeights(buildGraph(doc.flow))
<1>1. doc.flow \in Seq(Step)
  BY DocumentTypes DEF SourceInv
<1>2. /\ doc.form = "flow" /\ doc.flow # <<>> /\ FlowOK(doc.flow) /\ doc.start = NoStep
      /\ doc.maxSteps = 0 /\ doc.deviation = 0 /\ doc.segments = <<>>
  BY Zenon DEF Ordinary
<1>3. Expandable(doc) /\ spec = expandFrom(doc)
  BY <1>2 DEF SourceInv
<1>4. Journey(doc) = buildGraph(doc.flow) /\ Start(doc) = doc.flow[1].id
  BY <1>2 DEF Journey, Start
<1>5. ValidScenario(Journey(doc))
  BY <1>3, ExpandableForm
<1>6. Len(Journey(doc).nodes) = Len(doc.flow)
  BY <1>1, <1>4, FlowNodes
<1>. QED BY <1>1, <1>2, <1>3, <1>4, <1>5, <1>6, ExpandedFields DEF ValidScenario

\* What a step of an ordinary flow requires is an earlier step.
LEMMA OrdinaryPreds ==
    ASSUME Ordinary(doc), doc.flow \in Seq(Step), NEW k \in DOMAIN doc.flow,
           NEW p \in depPreds(buildGraph(doc.flow), doc.flow[k].id)
    PROVE  \E j \in 1 .. k - 1 : p = doc.flow[j].id
<1>1. FlowOK(doc.flow)
      /\ doc.flow[k].dependsOn \in {NoStep} \cup {doc.flow[j].id : j \in 1 .. k - 1}
  BY Zenon DEF Ordinary
<1>2. p = doc.flow[k].dependsOn /\ p # NoStep
  BY <1>1, FlowPreds
<1>. QED BY <1>1, <1>2

(***************************************************************************)
(* The invariant of the walk, step by step                                 *)
(***************************************************************************)

LEMMA JourneyStart == JourneyInit => WalkInv
  BY Zenon DEF JourneyInit, WalkInv, SourceInv, PathInv, FlowInv

\* The document is expanded, or refused with an error to its author.
LEMMA ExpandStep == WalkInv /\ Expand => WalkInv'
<1>. SUFFICES ASSUME WalkInv, Expand PROVE WalkInv'
  OBVIOUS
<1>1. Expandable(doc) => doc.form # "posted"
  BY ExpandableForm
<1>2. /\ doc' = doc /\ stage' \in {"expanded", "rejected"}
      /\ stage' = "expanded" => Expandable(doc) /\ spec' = expandFrom(doc)
      /\ stage' = "rejected" => spec' = spec
  BY DEF Expand
<1>3. SourceInv'
  BY <1>1, <1>2 DEF WalkInv, SourceInv
<1>4. PathInv' /\ FlowInv'
  BY <1>2 DEF PathInv, FlowInv
<1>. QED BY <1>3, <1>4 DEF WalkInv

\* The control plane takes the run spec, or refuses it.
LEMMA CreateStep == WalkInv /\ Create => WalkInv'
<1>. SUFFICES ASSUME WalkInv, Create PROVE WalkInv'
  OBVIOUS
<1>1. /\ doc' = doc /\ spec' = spec /\ stage = "expanded" /\ stage' \in {"created", "rejected"}
      /\ stage' = "created" => ValidRunSpec(spec)
  BY DEF Create
<1>2. SourceInv'
  BY <1>1 DEF WalkInv, SourceInv
<1>3. PathInv' /\ FlowInv'
  BY <1>1 DEF PathInv, FlowInv
<1>. QED BY <1>2, <1>3 DEF WalkInv

\* A session draws its entry point: nothing has been required yet, and an ordinary flow
\* is entered at its first step, which requires nothing.
LEMMA BeginWalkStep == WalkInv /\ BeginWalk => WalkInv'
<1>. SUFFICES ASSUME WalkInv, BeginWalk PROVE WalkInv'
  OBVIOUS
<1>1. PICK entry \in Entries(spec) :
         /\ maxSteps' = entry.maxSteps
         /\ IF /\ entry.maxSteps >= 0
               /\ entry.start \in Ids(spec.graph) /\ canEnter(spec.graph, entry.start, {})
            THEN stage' = "walking" /\ path' = <<entry.start>>
            ELSE stage' = "failed" /\ path' = path
  BY DEF BeginWalk
<1>2. doc' = doc /\ spec' = spec /\ stage = "created" /\ SourceInv
  BY DEF BeginWalk, WalkInv
<1>3. stage' \in {"walking", "failed"}
  BY <1>1
<1>4. SourceInv'
  BY <1>2, <1>3 DEF SourceInv
<1>5. entry.maxSteps \in Int
  BY <1>2, EntryTypes
<1>6. PathInv'
  <2>. SUFFICES ASSUME stage' = "walking" PROVE PathInv'
    BY <1>3 DEF PathInv
  <2>1. /\ entry.maxSteps \in Nat /\ entry.start \in Ids(spec.graph)
        /\ canEnter(spec.graph, entry.start, {}) /\ path' = <<entry.start>>
    BY <1>1, <1>5
  <2>2. depPreds(spec.graph, entry.start) = {}
    BY <2>1 DEF canEnter
  <2>3. /\ path' \in Seq(Ids(spec.graph)) /\ path' # <<>> /\ Len(path') = 1
        /\ DOMAIN path' = {1} /\ path'[1] = entry.start
    BY <2>1
  <2>4. /\ maxSteps' \in Nat /\ Len(path') <= maxSteps' + 1 /\ 1 .. Len(path') - 1 = {}
    BY <1>1, <2>1, <2>3
  <2>. QED BY <1>2, <2>2, <2>3, <2>4 DEF PathInv
<1>7. FlowInv'
  <2>. SUFFICES ASSUME Ordinary(doc) PROVE FlowInv'
    BY <1>2 DEF FlowInv
  <2>1. /\ doc.flow \in Seq(Step) /\ doc.flow # <<>> /\ FlowOK(doc.flow)
        /\ spec.graph = buildGraph(doc.flow) /\ spec.start = doc.flow[1].id
        /\ spec.maxSteps = Len(doc.flow) /\ spec.segments = <<>>
    BY <1>2, OrdinarySpec
  <2>2. entry.start = doc.flow[1].id /\ entry.maxSteps = Len(doc.flow)
    BY <2>1 DEF Entries
  <2>3. Len(doc.flow) \in Nat /\ Len(doc.flow) >= 1 /\ 1 \in DOMAIN doc.flow
    BY <2>1
  <2>4. entry.start \in Ids(spec.graph)
    BY <2>1, <2>2, <2>3, FlowNodes
  <2>5. depPreds(spec.graph, entry.start) = {}
    <3>1. ASSUME NEW p \in depPreds(buildGraph(doc.flow), doc.flow[1].id) PROVE FALSE
      <4>1. \E j \in 1 .. 1 - 1 : p = doc.flow[j].id
        BY <2>1, <2>3, OrdinaryPreds
      <4>. QED BY <4>1
    <3>. QED BY <2>1, <2>2, <3>1
  <2>6. stage' = "walking" /\ path' = <<doc.flow[1].id>> /\ maxSteps' = Len(doc.flow)
    BY <1>1, <2>2, <2>3, <2>4, <2>5 DEF canEnter
  <2>. QED BY <1>2, <2>3, <2>6 DEF FlowInv
<1>. QED BY <1>4, <1>6, <1>7 DEF WalkInv

\* A transition: a positive edge to a node whose requirements have been met.
LEMMA TransitionStep == WalkInv /\ Transition => WalkInv'
<1>. SUFFICES ASSUME WalkInv, Transition PROVE WalkInv'
  OBVIOUS
<1> DEFINE g == spec.graph
<1>1. PICK e \in eligible(g, Last(path), Range(path)) : path' = Append(path, e.to)
  BY DEF Transition
<1>2. /\ doc' = doc /\ spec' = spec /\ maxSteps' = maxSteps /\ stage' = stage
      /\ stage = "walking" /\ SourceInv /\ ~ WalkOver
  BY DEF Transition, WalkInv
<1>3. /\ maxSteps \in Nat
      /\ path \in Seq(Ids(g)) /\ path # <<>> /\ Len(path) <= maxSteps + 1
      /\ \A i \in DOMAIN path : depPreds(g, path[i]) \subseteq {path[j] : j \in 1 .. i - 1}
      /\ \A i \in 1 .. Len(path) - 1 :
            \E d \in Edges(g) : d.from = path[i] /\ d.to = path[i + 1] /\ d.weight > 0
  BY <1>2 DEF WalkInv, PathInv
<1>4. e \in Edges(g) /\ e.from = Last(path) /\ e.weight > 0 /\ canEnter(g, e.to, Range(path))
  BY DEF eligible
<1>5. SourceInv'
  BY <1>2 DEF SourceInv
<1> DEFINE L == Len(path)
<1>6. L \in Nat /\ L >= 1 /\ L <= maxSteps
  BY <1>2, <1>3 DEF WalkOver
<1>7. DOMAIN path = 1 .. L /\ Last(path) = path[L] /\ Range(path) = {path[j] : j \in 1 .. L}
  BY <1>3 DEF Last, Range
<1>8. e.to \in Ids(g)
  <2>1. ValidGraph(g)
    BY <1>2 DEF SourceInv, ValidRunSpec
  <2>. QED BY <1>4, <2>1, Zenon DEF ValidGraph
<1>9. /\ path' \in Seq(Ids(g)) /\ path' # <<>> /\ Len(path') = L + 1
      /\ DOMAIN path' = 1 .. L + 1
      /\ \A i \in 1 .. L : path'[i] = path[i]
      /\ path'[L + 1] = e.to
  BY <1>1, <1>3, <1>8
<1>. HIDE DEF g, L
<1>10. PathInv'
  <2>1. ASSUME NEW i \in DOMAIN path'
        PROVE  depPreds(g, path'[i]) \subseteq {path'[j] : j \in 1 .. i - 1}
    <3>1. CASE i = L + 1
      <4>1. depPreds(g, path'[i]) \subseteq {path[j] : j \in 1 .. L}
        BY <1>4, <1>7, <1>9, <3>1 DEF canEnter
      <4>2. {path[j] : j \in 1 .. L} \subseteq {path'[j] : j \in 1 .. i - 1}
        BY <1>6, <1>9, <3>1
      <4>. QED BY <4>1, <4>2
    <3>2. CASE i # L + 1
      <4>1. i \in 1 .. L
        BY <1>6, <1>9, <3>2
      <4>2. \A j \in 1 .. i - 1 : path'[j] = path[j]
        BY <1>6, <1>9, <4>1
      <4>3. depPreds(g, path'[i]) \subseteq {path[j] : j \in 1 .. i - 1}
        BY <1>3, <1>7, <1>9, <4>1
      <4>. QED BY <4>2, <4>3
    <3>. QED BY <3>1, <3>2
  <2>2. ASSUME NEW i \in 1 .. Len(path') - 1
        PROVE  \E d \in Edges(g) : d.from = path'[i] /\ d.to = path'[i + 1] /\ d.weight > 0
    <3>1. i \in 1 .. L
      BY <1>6, <1>9
    <3>2. CASE i = L
      BY <1>4, <1>6, <1>7, <1>9, <3>1, <3>2
    <3>3. CASE i # L
      <4>1. i \in 1 .. L - 1 /\ i + 1 \in 1 .. L
        BY <1>6, <3>1, <3>3
      <4>. QED BY <1>3, <1>9, <3>1, <4>1 DEF L
    <3>. QED BY <3>2, <3>3
  <2>3. Len(path') <= maxSteps + 1
    BY <1>3, <1>6, <1>9
  <2>4. g' = g
    BY <1>2 DEF g
  <2>. QED BY <1>2, <1>3, <1>9, <2>1, <2>2, <2>3, <2>4 DEF PathInv, g
<1>11. FlowInv'
  <2>. SUFFICES ASSUME Ordinary(doc) PROVE FlowInv'
    BY <1>2 DEF FlowInv
  <2>1. doc.flow \in Seq(Step) /\ FlowOK(doc.flow) /\ g = buildGraph(doc.flow)
    BY <1>2, OrdinarySpec DEF g
  <2>2. /\ maxSteps = Len(doc.flow) /\ L <= Len(doc.flow)
        /\ \A i \in 1 .. L : path[i] = doc.flow[i].id
    BY <1>2, <1>7 DEF WalkInv, FlowInv, L
  <2>3. Len(doc.flow) \in Nat /\ DOMAIN doc.flow = 1 .. Len(doc.flow) /\ L \in DOMAIN doc.flow
    BY <1>6, <2>1, <2>2
  <2>4. e.from = doc.flow[L].id
    BY <1>4, <1>6, <1>7, <2>2
  <2>5. L + 1 \in DOMAIN doc.flow /\ e.to = doc.flow[L + 1].id
    BY <1>4, <2>1, <2>3, <2>4, FlowTransition
  <2>6. \A i \in DOMAIN path' : path'[i] = doc.flow[i].id
    <3>1. \A i \in 1 .. L + 1 : i \in 1 .. L \/ i = L + 1
      BY <1>6
    <3>. QED BY <1>9, <2>2, <2>5, <3>1
  <2>7. Len(path') <= Len(doc.flow)
    BY <1>6, <1>9, <2>3, <2>5
  <2>. QED BY <1>2, <2>2, <2>6, <2>7 DEF FlowInv
<1>. QED BY <1>5, <1>10, <1>11 DEF WalkInv

\* A session may abandon its walk only where the run has a deviation rate.
LEMMA AbandonStep == WalkInv /\ Abandon => WalkInv'
<1>. SUFFICES ASSUME WalkInv, Abandon PROVE WalkInv'
  OBVIOUS
<1>1. /\ doc' = doc /\ spec' = spec /\ path' = path /\ maxSteps' = maxSteps
      /\ stage = "walking" /\ stage' = "done" /\ spec.deviation > 0
  BY DEF Abandon
<1>2. SourceInv' /\ PathInv'
  BY <1>1 DEF WalkInv, SourceInv, PathInv
<1>3. FlowInv'
  <2>1. ~ Ordinary(doc)
    BY <1>1, OrdinarySpec DEF WalkInv
  <2>. QED BY <1>1, <2>1 DEF FlowInv
<1>. QED BY <1>2, <1>3 DEF WalkInv

\* The walk ends; before the last step of an ordinary flow there is a way on.
LEMMA EndWalkStep == WalkInv /\ EndWalk => WalkInv'
<1>. SUFFICES ASSUME WalkInv, EndWalk PROVE WalkInv'
  OBVIOUS
<1>1. /\ doc' = doc /\ spec' = spec /\ path' = path /\ maxSteps' = maxSteps
      /\ stage = "walking" /\ stage' = "done" /\ WalkOver
  BY DEF EndWalk
<1>2. SourceInv' /\ PathInv'
  BY <1>1 DEF WalkInv, SourceInv, PathInv
<1>3. FlowInv'
  <2>. SUFFICES ASSUME Ordinary(doc) PROVE FlowInv'
    BY <1>1 DEF FlowInv
  <2> DEFINE flow == doc.flow
             g == buildGraph(flow)
             L == Len(path)
  <2>1. /\ flow \in Seq(Step) /\ FlowOK(flow) /\ spec.graph = g /\ validateWeights(g)
    BY <1>1, OrdinarySpec DEF WalkInv
  <2>2. /\ maxSteps = Len(flow) /\ L <= Len(flow)
        /\ \A i \in DOMAIN path : path[i] = flow[i].id
    BY <1>1 DEF WalkInv, FlowInv
  <2>3. path \in Seq(Ids(g)) /\ path # <<>>
    BY <1>1, <2>1 DEF WalkInv, PathInv
  <2>4. L \in Nat /\ L >= 1 /\ DOMAIN path = 1 .. L /\ Last(path) = path[L]
    BY <2>3 DEF Last
  <2>5. Len(flow) \in Nat /\ DOMAIN flow = 1 .. Len(flow)
    BY <2>1
  <2>6. ASSUME L # Len(flow) PROVE FALSE
    <3> DEFINE e == flowEdge(flow[L], flow[L + 1])
    <3>1. L \in 1 .. Len(flow) - 1 /\ L \in DOMAIN flow /\ L + 1 \in DOMAIN flow
      BY <2>2, <2>4, <2>5, <2>6
    <3>2. e \in Edges(g)
      BY <2>5, <3>1, FlowEdges
    <3>3. e.from = path[L] /\ e.to = flow[L + 1].id
      BY <2>2, <2>4 DEF flowEdge
    <3>4. e.weight \in 0 .. 100
      BY <2>1, <3>2, Zenon DEF validateWeights
    <3>5. e.weight # 0
      BY DEF flowEdge
    <3>6. depPreds(g, flow[L + 1].id) \subseteq Range(path)
      <4>1. ASSUME NEW p \in depPreds(g, flow[L + 1].id) PROVE p \in Range(path)
        <5>1. PICK j \in 1 .. (L + 1) - 1 : p = flow[j].id
          BY <2>1, <3>1, OrdinaryPreds
        <5>2. j \in DOMAIN path
          BY <2>4
        <5>. QED BY <2>2, <5>1, <5>2 DEF Range
      <4>. QED BY <4>1
    <3>. HIDE DEF e, g, L, flow
    <3>7. e \in eligible(g, Last(path), Range(path))
      <4>1. e.weight > 0
        BY <3>4, <3>5
      <4>3. e.from = Last(path)
        BY <2>4, <3>3
      <4>2. canEnter(g, e.to, Range(path))
        BY <3>3, <3>6 DEF canEnter
      <4>. QED BY <3>2, <4>1, <4>2, <4>3 DEF eligible
    <3>8. L # maxSteps + 1
      BY <2>2, <2>4, <2>5
    <3>. QED BY <1>1, <2>1, <3>7, <3>8 DEF WalkOver, L
  <2>. QED BY <1>1, <2>2, <2>6 DEF FlowInv
<1>. QED BY <1>2, <1>3 DEF WalkInv

LEMMA JourneyStutter == WalkInv /\ UNCHANGED journeyVars => WalkInv'
  BY DEF journeyVars, WalkInv, SourceInv, PathInv, FlowInv

\* WalkInv is an invariant: what a session goes by is its document's expansion, its
\* walk has kept the graph's rules, and the walk of an ordinary flow is a prefix of it
\* (Expand, Create and Walker.Walk).
THEOREM WalkInvariance == JourneySpec => []WalkInv
<1>1. WalkInv /\ [JourneyNext]_journeyVars => WalkInv'
  BY ExpandStep, CreateStep, BeginWalkStep, TransitionStep, AbandonStep, EndWalkStep,
     JourneyStutter DEF JourneyNext
<1>. QED BY JourneyStart, <1>1, PTL DEF JourneySpec

\* The walk's invariant gives the flow author's rule: a requirement is an edge.
LEMMA WalksKeepRules == WalkInv => RulesKept
<1>. SUFFICES ASSUME WalkInv, stage \in {"walking", "done"}
     PROVE  RulesKept
  BY DEF RulesKept
<1>1. /\ Len(path) <= maxSteps + 1
      /\ \A i \in DOMAIN path :
            depPreds(spec.graph, path[i]) \subseteq {path[j] : j \in 1 .. i - 1}
      /\ \A i \in 1 .. Len(path) - 1 :
            \E e \in Edges(spec.graph) :
                e.from = path[i] /\ e.to = path[i + 1] /\ e.weight > 0
  BY DEF WalkInv, PathInv
<1>2. ASSUME doc.form = "flow", NEW i \in DOMAIN path, NEW k \in DOMAIN doc.flow,
             doc.flow[k].id = path[i], doc.flow[k].dependsOn # NoStep
      PROVE  doc.flow[k].dependsOn \in {path[j] : j \in 1 .. i - 1}
  <2>1. doc \in Documents /\ Expandable(doc) /\ spec = expandFrom(doc)
    BY <1>2 DEF WalkInv, SourceInv
  <2>2. doc.flow \in Seq(Step)
    BY <2>1, DocumentTypes
  <2>3. spec.graph = buildGraph(doc.flow)
    BY <1>2, <2>1, ExpandedFields DEF Journey
  <2>4. doc.flow[k].dependsOn \in depPreds(spec.graph, path[i])
    BY <1>2, <2>2, <2>3, RequirementEdge
  <2>. QED BY <1>1, <2>4
<1>. QED BY <1>1, <1>2 DEF RulesKept

LEMMA FlowsAreWalked == WalkInv => FlowWalked
<1>. SUFFICES ASSUME WalkInv, Ordinary(doc) PROVE FlowWalked
  BY DEF FlowWalked
<1>1. stage # "failed"
  BY DEF WalkInv, FlowInv
<1>2. ASSUME stage = "done" PROVE path = [i \in DOMAIN doc.flow |-> doc.flow[i].id]
  <2>1. /\ Len(path) = Len(doc.flow) /\ \A i \in DOMAIN path : path[i] = doc.flow[i].id
    BY <1>2 DEF WalkInv, FlowInv
  <2>2. path \in Seq(Ids(spec.graph))
    BY <1>2 DEF WalkInv, PathInv
  <2>3. doc.flow \in Seq(Step)
    BY <1>2, OrdinarySpec DEF WalkInv
  <2>4. DOMAIN path = DOMAIN doc.flow /\ path = [i \in DOMAIN path |-> path[i]]
    <3>. HIDE DEF Step
    <3>. QED BY <2>1, <2>2, <2>3
  <2>. QED BY <2>1, <2>4
<1>. QED BY <1>1, <1>2 DEF FlowWalked

\* No session takes a transition of weight zero, enters a node before everything it
\* requires, or exceeds its bound, whatever deviation and personas do; and a session of
\* an ordinary flow starts, and ends having visited every step once in the authored
\* order (Walker.Walk over the graph buildGraph makes), for all documents.
THEOREM WalksAreSound == JourneySpec => []WalkSound
<1>1. WalkInv => WalkSound
  BY WalksKeepRules, FlowsAreWalked DEF WalkSound
<1>. QED BY WalkInvariance, <1>1, PTL
=============================================================================
