------------------------ MODULE OpenSchedulerProofs ------------------------
(***************************************************************************)
(* The open-model scheduler for every valid arrival profile, duration, cap *)
(* and session length: its thinning is sound, its back-pressure gauge is   *)
(* exact and its result is complete.                                       *)
(***************************************************************************)
EXTENDS OpenScheduler, FiniteSetTheorems, TLAPS

----------------------------------------------------------------------------
(* Rates *)

LEMMA TimesMonotone ==
    ASSUME NEW a \in Nat, NEW b \in Nat, NEW c \in Nat, a <= b
    PROVE  c * a <= c * b
<1>1. PICK d \in Nat : b = a + d
  <2>. WITNESS b - a \in Nat
  <2>. QED OBVIOUS
<1>2. c * b = c * a + c * d
  BY <1>1
<1>3. c * d \in Nat /\ c * a \in Nat
  OBVIOUS
<1>. QED BY <1>2, <1>3

LEMMA RampDown ==
    ASSUME NEW k \in Nat, NEW d \in Nat, NEW r \in Nat, NEW t \in Nat
    PROVE  (k + d) * r + (k - (k + d)) * t = k * r + (d * r - d * t)
<1>1. k - (k + d) = -d
  OBVIOUS
<1>2. (k + d) * r = k * r + d * r
  OBVIOUS
<1>3. (-d) * t = -(d * t)
  OBVIOUS
<1>. QED BY <1>1, <1>2, <1>3

\* No profile that Validate accepts ever demands more than peakRate returns for it.
LEMMA RateBounded ==
    ASSUME NEW p, ValidProfile(p), NEW t \in Nat
    PROVE  0 <= RateFunc(p, t) /\ RateFunc(p, t) <= PeakRate(p) * Den(p)
<1>. DEFINE s == p.start
            k == p.peak
            r == p.ramp
<1>0. s \in Nat /\ k \in Nat /\ r \in Int /\ p.hold \in Int
  BY DEF ValidProfile
<1>1. CASE p.shape # "ramp"
  BY <1>0, <1>1 DEF ValidProfile, RateFunc, PeakRate, Den, Level
<1>2. CASE p.shape = "ramp" /\ (r <= 0 \/ t >= r)
  <2>1. RateFunc(p, t) = k * Den(p) /\ Den(p) \in Nat
    BY <1>0, <1>2 DEF RateFunc, Den
  <2>2. k <= PeakRate(p) /\ PeakRate(p) \in Nat
    BY <1>0 DEF PeakRate
  <2>3. Den(p) * k <= Den(p) * PeakRate(p)
    BY <1>0, <2>1, <2>2, TimesMonotone
  <2>. QED BY <1>0, <2>1, <2>2, <2>3
<1>3. CASE p.shape = "ramp" /\ r > 0 /\ t < r
  <2>0. r \in Nat
    BY <1>0, <1>3
  <2>1. RateFunc(p, t) = s * r + (k - s) * t /\ Den(p) = r
    BY <1>0, <1>3 DEF RateFunc, Den
  <2>2. CASE s <= k
    <3>1. PICK d \in Nat : k = s + d
      <4>1. k - s \in Nat /\ k = s + (k - s)
        BY <1>0, <2>0, <2>2
      <4>. QED BY <4>1
    <3>2. d * t <= d * r
      BY <1>0, <2>0, <1>3, TimesMonotone
    <3>3. RateFunc(p, t) = s * r + d * t /\ PeakRate(p) * Den(p) = s * r + d * r
      BY <1>0, <2>0, <2>1, <2>2, <3>1 DEF PeakRate
    <3>. QED BY <1>0, <2>0, <3>2, <3>3
  <2>3. CASE s > k
    <3>1. PICK d \in Nat : s = k + d
      <4>1. s - k \in Nat /\ s = k + (s - k)
        BY <1>0, <2>0, <2>3
      <4>. QED BY <4>1
    <3>2. d * t <= d * r
      BY <1>0, <2>0, <1>3, TimesMonotone
    <3>3. RateFunc(p, t) = k * r + (d * r - d * t)
      BY <1>0, <2>0, <2>1, <3>1, RampDown
    <3>4. PeakRate(p) * Den(p) = k * r + d * r
      BY <1>0, <2>0, <2>1, <2>3, <3>1 DEF PeakRate
    <3>. QED BY <1>0, <2>0, <3>2, <3>3, <3>4
  <2>. QED BY <1>0, <2>0, <2>2, <2>3
<1>. QED BY <1>0, <1>1, <1>2, <1>3

----------------------------------------------------------------------------
(* Counting sessions *)

LEMMA ArrivalsFinite ==
    ASSUME NEW S \in SUBSET Arrivals
    PROVE  IsFiniteSet(S) /\ Cardinality(S) \in Nat
<1>1. IsFiniteSet(Arrivals)
  BY DurationAssumption, FS_Interval DEF Arrivals
<1>2. IsFiniteSet(S)
  BY <1>1, FS_Subset
<1>. QED BY <1>2, FS_CardinalityType

LEMMA OneMore ==
    ASSUME NEW S \in SUBSET Arrivals, NEW a \in Arrivals \ S
    PROVE  Cardinality(S \cup {a}) = Cardinality(S) + 1
  BY ArrivalsFinite, FS_AddElement

LEMMA OneLess ==
    ASSUME NEW S \in SUBSET Arrivals, NEW a \in S
    PROVE  Cardinality(S \ {a}) = Cardinality(S) - 1
  BY ArrivalsFinite, FS_RemoveElement

\* The three sets of sessions, and the types of what counts them.
LEMMA CountTypes ==
    ASSUME SchedInv
    PROVE  /\ Running \in SUBSET Arrivals /\ Started \in SUBSET Arrivals
           /\ Unresolved \in SUBSET Arrivals
           /\ Cardinality(Running) \in Nat /\ Cardinality(Started) \in Nat
           /\ Cardinality(Unresolved) \in Nat
           /\ Pending \in {0, 1} /\ live \in Nat
<1>1. /\ Running \in SUBSET Arrivals /\ Started \in SUBSET Arrivals
      /\ Unresolved \in SUBSET Arrivals
  BY DEF Running, Started, Unresolved
<1>2. /\ Cardinality(Running) \in Nat /\ Cardinality(Started) \in Nat
      /\ Cardinality(Unresolved) \in Nat
  BY <1>1, ArrivalsFinite
<1>. QED BY <1>1, <1>2 DEF Pending, SchedInv, LiveExact

----------------------------------------------------------------------------
(* Init and the steps *)

LEMMA SchedInit == Init => SchedInv
<1>. SUFFICES ASSUME Init PROVE SchedInv
  OBVIOUS
<1>1. Running = {} /\ Started = {} /\ Unresolved = {} /\ Pending = 0
  BY DEF Init, Running, Started, Unresolved, Pending
<1>2. Cardinality({}) = 0
  BY FS_EmptySet
<1>3. LiveExact
  BY <1>1, <1>2, CapAssumption DEF Init, LiveExact
<1>4. CountInv
  BY <1>1, <1>2 DEF Init, CountInv
<1>5. OrderInv /\ RecordInv
  BY DEF Init, OrderInv, RecordInv, PCs
<1>. QED BY <1>3, <1>4, <1>5 DEF Init, SchedInv

\* A step of the loop that touches no session keeps their sets.
LEMMA SameSessions ==
    ASSUME pc' = pc
    PROVE  Running' = Running /\ Started' = Started /\ Unresolved' = Unresolved
  BY DEF Running, Started, Unresolved

LEMMA LoopStep == SchedInv /\ Loop => SchedInv'
<1>. SUFFICES ASSUME SchedInv, Loop PROVE SchedInv'
  OBVIOUS
<1>. USE DurationAssumption, CapAssumption
<1>0. /\ Cardinality(Running) \in Nat /\ Cardinality(Started) \in Nat
      /\ Cardinality(Unresolved) \in Nat
      /\ live \in Nat
  BY CountTypes
<1>1. CASE Head
  <2>1. /\ Running' = Running /\ Started' = Started /\ Unresolved' = Unresolved
    BY <1>1, SameSessions DEF Head, sessions
  <2>. QED BY <1>0, <1>1, <2>1 DEF Head, SchedInv, OrderInv, LiveExact, RecordInv, CountInv,
                              Pending, config, counts, sessions
<1>2. ASSUME NEW gap \in 1 .. Duration, Sleep(gap) PROVE SchedInv'
  <2>1. /\ Running' = Running /\ Started' = Started /\ Unresolved' = Unresolved
    BY <1>2, SameSessions DEF Sleep, sessions
  <2>. QED BY <1>0, <1>2, <2>1 DEF Sleep, SchedInv, OrderInv, LiveExact, RecordInv, CountInv,
                              Pending, config, counts, sessions
<1>3. CASE Sample
  <2>1. /\ Running' = Running /\ Started' = Started /\ Unresolved' = Unresolved
    BY <1>3, SameSessions DEF Sample, sessions
  <2>2. /\ main = "sample" /\ main' \in {"wait", "head", "admit"}
        /\ main' = "admit" => elapsed < Duration
        /\ UNCHANGED <<config, elapsed, cancelled, counts, sessions, failed>>
    BY <1>3 DEF Sample
  <2>. QED BY <1>0, <2>1, <2>2 DEF SchedInv, OrderInv, LiveExact, RecordInv, CountInv,
                              Pending, config, counts, sessions
<1>4. CASE Shed
  <2>1. /\ Running' = Running /\ Started' = Started /\ Unresolved' = Unresolved
    BY <1>4, SameSessions DEF Shed, sessions
  <2>. QED BY <1>0, <1>4, <2>1 DEF Shed, SchedInv, OrderInv, LiveExact, RecordInv, CountInv,
                              Pending, config, sessions
<1>5. CASE Admit
  <2>1. /\ Running' = Running /\ Started' = Started /\ Unresolved' = Unresolved
    BY <1>5, SameSessions DEF Admit, sessions
  <2>2. OrderInv'
    BY <1>5 DEF Admit, SchedInv, OrderInv, sessions, Arrivals
  <2>3. LiveExact' /\ CountInv'
    BY <1>0, <1>5, <2>1 DEF Admit, SchedInv, LiveExact, CountInv, Pending, config
  <2>. QED BY <1>5, <2>2, <2>3 DEF Admit, SchedInv, RecordInv, config, sessions
<1>6. CASE AcquireOK
  <2>1. /\ Running' = Running /\ Started' = Started /\ Unresolved' = Unresolved
    BY <1>6, SameSessions DEF AcquireOK, sessions
  <2>. QED BY <1>0, <1>6, <2>1 DEF AcquireOK, SchedInv, OrderInv, LiveExact, RecordInv, CountInv,
                              Pending, config, counts, sessions
<1>7. CASE AcquireFails
  <2>1. /\ Running' = Running /\ Started' = Started /\ Unresolved' = Unresolved
    BY <1>7, SameSessions DEF AcquireFails, sessions
  <2>. QED BY <1>0, <1>7, <2>1 DEF AcquireFails, SchedInv, OrderInv, LiveExact, RecordInv,
                              CountInv, Pending, config, sessions
<1>8. CASE Launch
  <2>1. idx \in Arrivals /\ pc[idx] = "none" /\ pc \in [Arrivals -> PCs]
    BY <1>8 DEF Launch, SchedInv, OrderInv, Arrivals
  <2>2. /\ Running' = Running \cup {idx} /\ idx \notin Running
        /\ Started' = Started \cup {idx} /\ idx \notin Started
        /\ Unresolved' = Unresolved \cup {idx} /\ idx \notin Unresolved
    BY <1>8, <2>1 DEF Launch, Running, Started, Unresolved
  <2>3. /\ Cardinality(Running') = Cardinality(Running) + 1
        /\ Cardinality(Started') = Cardinality(Started) + 1
        /\ Cardinality(Unresolved') = Cardinality(Unresolved) + 1
    BY <2>1, <2>2, CountTypes, OneMore
  <2>4. LiveExact' /\ CountInv'
    BY <1>0, <1>8, <2>3 DEF Launch, SchedInv, LiveExact, CountInv, Pending, config, counts
  <2>5. OrderInv' /\ RecordInv'
    BY <1>8, <2>1 DEF Launch, SchedInv, OrderInv, RecordInv, PCs, counts
  <2>. QED BY <1>8, <2>4, <2>5 DEF Launch, SchedInv, config
<1>9. CASE Return
  <2>1. /\ Running' = Running /\ Started' = Started /\ Unresolved' = Unresolved
    BY <1>9, SameSessions DEF Return, sessions
  <2>2. Drained'
    BY <1>9 DEF Return, Drained, sessions
  <2>. QED BY <1>0, <1>9, <2>1, <2>2 DEF Return, SchedInv, OrderInv, LiveExact, RecordInv,
                              CountInv, Pending, config, counts, sessions
<1>. QED BY <1>1, <1>2, <1>3, <1>4, <1>5, <1>6, <1>7, <1>8, <1>9 DEF Loop

LEMMA SessionStep == ASSUME SchedInv, NEW a \in Arrivals, Session(a) PROVE SchedInv'
<1>. USE DurationAssumption, CapAssumption
<1>0. /\ Cardinality(Running) \in Nat /\ Cardinality(Started) \in Nat
      /\ Cardinality(Unresolved) \in Nat
      /\ live \in Nat
      /\ pc \in [Arrivals -> PCs]
  BY CountTypes DEF SchedInv, OrderInv
<1>1. CASE SessionFails(a)
  <2>1. /\ Running' = Running /\ Started' = Started
        /\ Unresolved' = Unresolved \ {a} /\ a \in Unresolved
    BY <1>0, <1>1 DEF SessionFails, Running, Started, Unresolved
  <2>2. Cardinality(Unresolved') = Cardinality(Unresolved) - 1
    BY <2>1, CountTypes, OneLess
  <2>3. LiveExact' /\ CountInv'
    BY <1>0, <1>1, <2>1, <2>2 DEF SessionFails, SchedInv, LiveExact, CountInv, Pending, config
  <2>4. OrderInv' /\ RecordInv'
    BY <1>0, <1>1 DEF SessionFails, SchedInv, OrderInv, RecordInv, PCs
  <2>5. main = "returned" => pc[a] # "run"
    BY DEF SchedInv, Drained
  <2>. QED BY <1>1, <2>3, <2>4, <2>5 DEF SessionFails, SchedInv, config
<1>2. ASSUME NEW n \in 0 .. Steps, SessionReturns(a, n) PROVE SchedInv'
  <2>0. n \in Nat
    BY StepsAssumption
  <2>1. Running' = Running /\ Started' = Started /\ ~broken
    BY <1>0, <1>2 DEF SessionReturns, Running, Started
  <2>2. LiveExact' /\ CountInv'
    BY <1>0, <1>2, <2>1 DEF SessionReturns, SchedInv, LiveExact, CountInv, Pending, config, counts
  <2>3. OrderInv'
    BY <1>0, <1>2 DEF SessionReturns, SchedInv, OrderInv, PCs, counts
  <2>4. RecordInv'
    <3>1. /\ size \in [Arrivals -> Nat] /\ recorded \in [Arrivals -> Nat]
          /\ recorded[a] = size[a]
      BY <1>2 DEF SessionReturns, SchedInv, RecordInv
    <3>2. recorded[a] = 0
      BY <1>2 DEF SessionReturns, SchedInv, RecordInv
    <3>. QED BY <1>0, <1>2, <2>0, <3>1, <3>2 DEF SessionReturns, SchedInv, RecordInv
  <2>5. main = "returned" => pc[a] # "run"
    BY DEF SchedInv, Drained
  <2>. QED BY <1>2, <2>2, <2>3, <2>4, <2>5 DEF SessionReturns, SchedInv, config
<1>3. CASE Record(a)
  <2>1. Running' = Running /\ Started' = Started /\ Unresolved' = Unresolved
    BY <1>0, <1>3 DEF Record, Running, Started, Unresolved
  <2>2. LiveExact' /\ CountInv'
    BY <1>0, <1>3, <2>1 DEF Record, SchedInv, LiveExact, CountInv, Pending, config, counts
  <2>3. OrderInv'
    <3>1. /\ pc' \in [Arrivals -> PCs] /\ pc[a] = "record"
          /\ \A b \in Arrivals : pc[b] = "none" => pc'[b] = "none"
      BY <1>0, <1>3 DEF Record, PCs
    <3>2. main \in {"acquire", "go"} => idx \in Arrivals
      BY DEF SchedInv, OrderInv, Arrivals
    <3>3. UNCHANGED <<elapsed, main, idx>>
      BY <1>3 DEF Record, counts
    <3>. QED BY <3>1, <3>2, <3>3 DEF SchedInv, OrderInv
  <2>4. RecordInv'
    BY <1>0, <1>3 DEF Record, SchedInv, RecordInv
  <2>5. main = "returned" => pc[a] # "record"
    BY DEF SchedInv, Drained
  <2>. QED BY <1>3, <2>2, <2>3, <2>4, <2>5 DEF Record, SchedInv, config
<1>4. CASE Leave(a)
  <2>1. /\ Running' = Running \ {a} /\ a \in Running
        /\ Started' = Started /\ Unresolved' = Unresolved
    BY <1>0, <1>4 DEF Leave, Running, Started, Unresolved
  <2>2. Cardinality(Running') = Cardinality(Running) - 1
    BY <2>1, CountTypes, OneLess
  <2>3. LiveExact' /\ CountInv'
    BY <1>0, <1>4, <2>1, <2>2 DEF Leave, SchedInv, LiveExact, CountInv, Pending, config
  <2>4. OrderInv' /\ RecordInv'
    BY <1>0, <1>4 DEF Leave, SchedInv, OrderInv, RecordInv, PCs
  <2>5. main = "returned" => pc[a] # "leave"
    BY DEF SchedInv, Drained
  <2>. QED BY <1>4, <2>3, <2>4, <2>5 DEF Leave, SchedInv, config
<1>5. CASE Finish(a)
  <2>1. Running' = Running /\ Started' = Started /\ Unresolved' = Unresolved
    BY <1>0, <1>5 DEF Finish, Running, Started, Unresolved
  <2>2. LiveExact' /\ CountInv'
    BY <1>0, <1>5, <2>1 DEF Finish, SchedInv, LiveExact, CountInv, Pending, config, counts
  <2>3. OrderInv' /\ RecordInv'
    BY <1>0, <1>5 DEF Finish, SchedInv, OrderInv, RecordInv, PCs, counts
  <2>4. main = "returned" => pc[a] # "finish"
    BY DEF SchedInv, Drained
  <2>. QED BY <1>5, <2>2, <2>3, <2>4 DEF Finish, SchedInv, config
<1>. QED BY <1>1, <1>2, <1>3, <1>4, <1>5 DEF Session

LEMMA SchedNext == SchedInv /\ [Next]_vars => SchedInv'
<1>. SUFFICES ASSUME SchedInv, [Next]_vars PROVE SchedInv'
  OBVIOUS
<1>1. CASE Loop
  BY <1>1, LoopStep
<1>2. ASSUME NEW a \in Arrivals, Session(a) PROVE SchedInv'
  BY <1>2, SessionStep
<1>3. CASE Cancel \/ UNCHANGED vars
  <2>1. UNCHANGED <<config, elapsed, main, counts, sessions>>
    BY <1>3 DEF Cancel, vars, config, counts, sessions
  <2>2. Running' = Running /\ Started' = Started /\ Unresolved' = Unresolved
    BY <2>1, SameSessions DEF sessions
  <2>3. Drained' = Drained
    BY <2>1 DEF Drained, sessions
  <2>. QED BY <2>1, <2>2, <2>3 DEF SchedInv, OrderInv, LiveExact, RecordInv, CountInv, Pending,
                                config, counts, sessions
<1>. QED BY <1>1, <1>2, <1>3 DEF Next

\* The inductive invariant: arrivals are numbered within the window, every admitted one
\* is pending, skipped or launched, and no result is lost on its way to the collector.
THEOREM SchedInvariance == Spec => []SchedInv
  BY SchedInit, SchedNext, PTL DEF Spec

\* The back-pressure gauge counts exactly the sessions that hold a place and never
\* exceeds the cap, for every cap, duration and profile (the atomic counter live).
THEOREM GaugeExact == Spec => []LiveExact
<1>1. SchedInv => LiveExact
  BY DEF SchedInv
<1>. QED BY <1>1, SchedInvariance, PTL

\* Whatever profile Validate accepts, the scheduler never samples a rate above the
\* ceiling it draws candidates at (NewRateFunc against peakRate).
THEOREM ThinningIsSound == Spec => []ThinningSound
<1>1. SchedInv => ThinningSound
  <2>. SUFFICES ASSUME SchedInv PROVE ThinningSound
    OBVIOUS
  <2>1. ValidProfile(profile) /\ elapsed \in Nat
    BY ProfilesAssumption DEF SchedInv, OrderInv
  <2>. HIDE DEF SchedInv
  <2>2. 0 <= RateFunc(profile, elapsed)
        /\ RateFunc(profile, elapsed) <= PeakRate(profile) * Den(profile)
    BY <2>1, RateBounded
  <2>. QED BY <2>2 DEF ThinningSound
<1>. QED BY <1>1, SchedInvariance, PTL

\* Run returns only when every session is gone, counts each admitted arrival once as
\* run or as a setup error, and returns statistics that hold every result.
THEOREM ResultIsComplete == Spec => []ResultComplete
<1>1. SchedInv => ResultComplete
  <2>. SUFFICES ASSUME SchedInv, main = "returned"
       PROVE  /\ Drained /\ recorded = size
              /\ IF broken THEN launched = setupErr
                 ELSE launched = setupErr + Cardinality({a \in Arrivals : pc[a] = "gone"})
    BY DEF ResultComplete
  <2>1. Drained
    BY DEF SchedInv
  <2>2. recorded = size
    BY <2>1 DEF SchedInv, RecordInv, Drained
  <2>3. Started = {a \in Arrivals : pc[a] = "gone"} /\ Unresolved = {} /\ Pending = 0
    BY <2>1 DEF Started, Unresolved, Pending, Drained
  <2>4. Cardinality({}) = 0
    BY FS_EmptySet
  <2>5. Cardinality(Started) \in Nat
    BY CountTypes
  <2>. QED BY <2>1, <2>2, <2>3, <2>4, <2>5 DEF SchedInv, CountInv
<1>. QED BY <1>1, SchedInvariance, PTL

\* Load is shed only while the cap is full of sessions that run: the gauge read by the
\* back-pressure test never counts a place that nobody holds (scheduler.go, live).
THEOREM ShedsHonestly == Spec => ShedHonest
<1>1. ASSUME SchedInv, [Next]_vars, dropped' # dropped
      PROVE  Cardinality(Running) = MaxConcurrency
  <2>1. Shed
    <3>1. ~(Head \/ (\E gap \in 1 .. Duration : Sleep(gap)) \/ Sample \/ Admit \/ AcquireOK
            \/ AcquireFails \/ Launch \/ Return \/ Cancel \/ UNCHANGED vars)
      BY <1>1 DEF Head, Sleep, Sample, Admit, AcquireOK, AcquireFails, Launch, Return, Cancel,
                  vars, counts
    <3>2. \A a \in Arrivals : ~Session(a)
      BY <1>1 DEF Session, SessionFails, SessionReturns, Record, Leave, Finish, counts
    <3>. QED BY <1>1, <3>1, <3>2 DEF Next, Loop
  <2>2. main = "admit" /\ MaxConcurrency > 0 /\ live >= MaxConcurrency
    BY <2>1 DEF Shed
  <2>3. Pending = 0
    BY <2>2 DEF Pending
  <2>4. Cardinality(Running) \in Nat /\ live \in Nat
    BY <1>1, CountTypes
  <2>5. live = Cardinality(Running) + Pending /\ live <= MaxConcurrency
    BY <1>1, <2>2 DEF SchedInv, LiveExact
  <2>. QED BY <2>2, <2>3, <2>4, <2>5, CapAssumption
<1>. QED BY <1>1, SchedInvariance, PTL DEF Spec, ShedHonest
=============================================================================
