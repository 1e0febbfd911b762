--------------------------- MODULE RunnerProofs ---------------------------
(***************************************************************************)
(* Theorems about the guard, for every rate, ceiling, clock resolution and *)
(* set of callers; that the load runner uses its guard as Guard.tla        *)
(* demands, for every number of users, pool size and set of walks; and     *)
(* what follows for a run.                                                 *)
(***************************************************************************)
EXTENDS Runner, FiniteSetTheorems, FunctionTheorems, SequenceTheorems, TLAPS

(***************************************************************************)
(* The guard                                                               *)
(***************************************************************************)
(* Arithmetic of the bucket, kept apart from the state. *)

LEMMA Distribute == ASSUME NEW a \in Int, NEW b \in Int, NEW k \in Int
                    PROVE  /\ (a + b) * k = a * k + b * k
                           /\ (a - b) * k = a * k - b * k
  OBVIOUS

LEMMA ProductNat == ASSUME NEW a \in Nat, NEW b \in Nat
                    PROVE  a * b \in Nat
  OBVIOUS

LEMMA BurstNat == Burst \in Nat /\ Burst >= TicksPerSec
<1>1. Burst \in Nat
  BY RateAssumption, ClockAssumption, ProductNat DEF Burst
<1>2. Burst = (MaxRPS - 1) * TicksPerSec + 1 * TicksPerSec
  <2>1. MaxRPS - 1 \in Int /\ TicksPerSec \in Int /\ MaxRPS = (MaxRPS - 1) + 1
    BY RateAssumption, ClockAssumption
  <2>. QED BY <2>1, Distribute DEF Burst
<1>3. (MaxRPS - 1) * TicksPerSec \in Nat
  <2>1. MaxRPS - 1 \in Nat
    BY RateAssumption
  <2>. QED BY <2>1, ClockAssumption, ProductNat
<1>. QED BY <1>1, <1>2, <1>3, ClockAssumption

\* What the type invariant says of the integers.
LEMMA BucketFacts ==
    ASSUME BucketTypeOK
    PROVE  /\ tokens \in Nat /\ tokens <= Burst
           /\ lastFill \in Nat /\ now \in Nat /\ lastFill <= now /\ now <= MaxTime
           /\ now \in 0 .. MaxTime /\ now - lastFill \in Nat
           /\ grants \in Seq(Nat) /\ Len(grants) \in Nat
           /\ \A i \in 1 .. Len(grants) : grants[i] \in Nat
<1>. HIDE DEF Burst
<1>1. Burst \in Nat /\ MaxTime \in Nat
  BY BurstNat, ClockAssumption
<1>2. tokens \in 0 .. Burst /\ lastFill \in 0 .. MaxTime /\ now \in lastFill .. MaxTime
  BY DEF BucketTypeOK
<1>3. grants \in Seq(Nat)
  BY DEF BucketTypeOK
<1>4. Len(grants) \in Nat /\ \A i \in 1 .. Len(grants) : grants[i] \in Nat
  BY <1>3
<1>. QED BY <1>1, <1>2, <1>3, <1>4

\* refillLocked: the bucket gains at most what the elapsed time earned, loses
\* nothing, and never exceeds one second of rate.
LEMMA RefillBounds ==
    ASSUME BucketTypeOK
    PROVE  /\ Refilled \in 0 .. Burst
           /\ Refilled <= tokens + (now - lastFill) * MaxRPS
<1>1. tokens \in Nat /\ tokens <= Burst /\ now - lastFill \in Nat /\ MaxRPS \in Nat
  BY RateAssumption, BucketFacts
<1>2. (now - lastFill) * MaxRPS \in Nat
  BY <1>1, ProductNat
<1>. QED BY <1>1, <1>2, BurstNat DEF Refilled

LEMMA InitInv == GuardInit => GuardInv
<1>. SUFFICES ASSUME GuardInit PROVE GuardInv
  OBVIOUS
<1>. HIDE DEF Burst
<1>1. BucketTypeOK
  <2>1. 0 \in 0 .. MaxTime /\ 0 \in 0 .. MaxConc /\ Burst \in 0 .. Burst
    BY BurstNat, ClockAssumption, RateAssumption
  <2>2. <<>> \in Seq(Nat)
    OBVIOUS
  <2>. QED BY <2>1, <2>2 DEF GuardInit, BucketTypeOK
<1>2. InFlightExact
  <2>1. Cardinality(held) = 0 /\ inFlight = 0
    BY FS_EmptySet DEF GuardInit
  <2>. QED BY <2>1, RateAssumption DEF InFlightExact
<1>3. RateWindow /\ OpenWindows
  <2>1. Len(grants) = 0
    BY DEF GuardInit
  <2>. QED BY <2>1 DEF RateWindow, OpenWindows
<1>. QED BY <1>1, <1>2, <1>3 DEF GuardInv

\* A refill keeps every open window within its allowance: the bucket gains no more
\* than the window does.
LEMMA RefillWindows ==
    ASSUME GuardInv, NEW i \in 1 .. Len(grants)
    PROVE  /\ grants[i] \in Nat /\ grants[i] <= now
           /\ (Len(grants) - i + 1) * TicksPerSec + Refilled
                <= Burst + (now - grants[i]) * MaxRPS
<1>1. /\ Len(grants) \in Nat /\ grants[i] \in Nat
      /\ now \in Nat /\ lastFill \in Nat /\ lastFill <= now /\ tokens \in Nat
  BY BucketFacts DEF GuardInv
<1>2. /\ grants[i] <= lastFill
      /\ (Len(grants) - i + 1) * TicksPerSec + tokens <= Burst + (lastFill - grants[i]) * MaxRPS
  BY DEF GuardInv, OpenWindows
<1>3. (now - grants[i]) * MaxRPS = (now - lastFill) * MaxRPS + (lastFill - grants[i]) * MaxRPS
  <2>1. now - lastFill \in Int /\ lastFill - grants[i] \in Int /\ MaxRPS \in Int
        /\ now - grants[i] = (now - lastFill) + (lastFill - grants[i])
    BY <1>1, RateAssumption
  <2>. QED BY <2>1, Distribute
<1>4. Refilled \in Nat /\ Refilled <= tokens + (now - lastFill) * MaxRPS
  BY RefillBounds, BurstNat DEF GuardInv
<1>5. /\ (now - lastFill) * MaxRPS \in Int /\ (lastFill - grants[i]) * MaxRPS \in Int
      /\ (Len(grants) - i + 1) * TicksPerSec \in Int
  BY <1>1, RateAssumption, ClockAssumption
<1>. DEFINE since == (Len(grants) - i + 1) * TicksPerSec
            later == (now - lastFill) * MaxRPS
            earlier == (lastFill - grants[i]) * MaxRPS
            whole == (now - grants[i]) * MaxRPS
<1>6. /\ since \in Int /\ later \in Int /\ earlier \in Int /\ whole = later + earlier
      /\ since + tokens <= Burst + earlier /\ Refilled <= tokens + later
  BY <1>2, <1>3, <1>4, <1>5
<1>7. since + Refilled <= Burst + whole
  <2>. HIDE DEF Refilled, Burst, since, later, earlier, whole
  <2>. QED BY <1>1, <1>4, <1>6, BurstNat
<1>8. grants[i] <= now
  BY <1>1, <1>2
<1>. QED BY <1>1, <1>7, <1>8

\* Steps that leave the bucket alone.
LEMMA BucketUnchanged ==
    ASSUME GuardInv, BucketTypeOK', UNCHANGED bucketVars
    PROVE  GuardInv'
  BY DEF GuardInv, bucketVars, InFlightExact, RateWindow, OpenWindows

LEMMA GrantInv ==
    ASSUME GuardInv, NEW c \in Callers \ held, ReserveGranted(c)
    PROVE  GuardInv'
<1>1. /\ Len(grants) \in Nat /\ now \in 0 .. MaxTime /\ now \in Nat
      /\ grants \in Seq(Nat)
  BY BucketFacts DEF GuardInv
<1>2. Refilled \in 0 .. Burst /\ TicksPerSec <= Refilled
  BY RefillBounds, ClockAssumption, BurstNat DEF GuardInv, ReserveGranted
<1>3. /\ grants' = Append(grants, now) /\ lastFill' = now /\ now' = now
      /\ tokens' = Refilled - TicksPerSec
      /\ Len(grants') = Len(grants) + 1
      /\ grants'[Len(grants) + 1] = now
      /\ \A i \in 1 .. Len(grants) : grants'[i] = grants[i]
      /\ grants' \in Seq(Nat)
  BY <1>1 DEF ReserveGranted
<1>. HIDE DEF Refilled, Burst
<1>4. BucketTypeOK'
  <2>1. tokens' \in 0 .. Burst
    BY <1>2, <1>3, BurstNat, ClockAssumption
  <2>2. inFlight' \in 0 .. MaxConc
    <3>1. inFlight \in 0 .. MaxConc
      BY DEF GuardInv, BucketTypeOK
    <3>2. inFlight < MaxConc /\ inFlight' = inFlight + 1
      BY DEF ReserveGranted
    <3>. QED BY <3>1, <3>2, RateAssumption
  <2>3. lastFill' \in 0 .. MaxTime /\ now' \in lastFill' .. MaxTime
    BY <1>1, <1>3, ClockAssumption
  <2>4. killed' \in BOOLEAN /\ reason' \in {"", "operator", "auto"} /\ held' \subseteq Callers
    BY DEF GuardInv, BucketTypeOK, ReserveGranted
  <2>. QED BY <1>3, <2>1, <2>2, <2>3, <2>4 DEF BucketTypeOK
<1>5. InFlightExact'
  <2>1. IsFiniteSet(held) /\ c \notin held
    BY CallersAssumption, FS_Subset DEF GuardInv, BucketTypeOK
  <2>2. Cardinality(held \cup {c}) = Cardinality(held) + 1
    BY <2>1, FS_AddElement
  <2>3. inFlight' = inFlight + 1 /\ held' = held \cup {c} /\ inFlight = Cardinality(held)
    BY DEF GuardInv, InFlightExact, ReserveGranted
  <2>4. inFlight' \in 0 .. MaxConc
    BY <1>4 DEF BucketTypeOK
  <2>. QED BY <2>2, <2>3, <2>4, RateAssumption DEF InFlightExact
<1>6. OpenWindows'
  <2>. SUFFICES ASSUME NEW i \in 1 .. Len(grants')
                PROVE  /\ grants'[i] <= lastFill'
                       /\ (Len(grants') - i + 1) * TicksPerSec + tokens'
                            <= Burst + (lastFill' - grants'[i]) * MaxRPS
    BY DEF OpenWindows, Burst
  <2>1. CASE i \in 1 .. Len(grants)
    <3>1. (Len(grants) + 1 - i + 1) * TicksPerSec
            = (Len(grants) - i + 1) * TicksPerSec + 1 * TicksPerSec
      <4>1. Len(grants) - i + 1 \in Int /\ TicksPerSec \in Int
            /\ Len(grants) + 1 - i + 1 = (Len(grants) - i + 1) + 1
        BY <1>1, ClockAssumption
      <4>. QED BY <4>1, Distribute
    <3>2. (Len(grants) - i + 1) * TicksPerSec \in Int /\ (now - grants[i]) * MaxRPS \in Int
          /\ grants[i] \in Nat
      BY <1>1, <2>1, ClockAssumption, RateAssumption
    <3>. QED BY <2>1, <3>1, <3>2, <1>1, <1>2, <1>3, RefillWindows, BurstNat, ClockAssumption
  <2>2. CASE i = Len(grants) + 1
    <3>1. grants'[i] = now /\ Len(grants') - i + 1 = 1 /\ lastFill' - grants'[i] = 0
      BY <1>1, <1>3, <2>2
    <3>2. 0 * MaxRPS = 0 /\ 1 * TicksPerSec = TicksPerSec
      BY RateAssumption, ClockAssumption
    <3>3. (Len(grants') - i + 1) * TicksPerSec = TicksPerSec
          /\ (lastFill' - grants'[i]) * MaxRPS = 0
      BY <3>1, <3>2
    <3>4. TicksPerSec + tokens' <= Burst + 0 /\ grants'[i] <= lastFill'
      BY <3>1, <1>1, <1>2, <1>3, BurstNat, ClockAssumption
    <3>. QED BY <3>3, <3>4
  <2>. QED BY <1>1, <1>3, <2>1, <2>2
<1>7. RateWindow'
  <2>. SUFFICES ASSUME NEW i \in 1 .. Len(grants'), NEW j \in 1 .. Len(grants'), i <= j
                PROVE  (j - i + 1) * TicksPerSec <= Burst + (grants'[j] - grants'[i]) * MaxRPS
    BY DEF RateWindow, Burst
  <2>1. CASE j \in 1 .. Len(grants)
    <3>1. i \in 1 .. Len(grants) /\ grants'[i] = grants[i] /\ grants'[j] = grants[j]
      BY <1>1, <1>3, <2>1
    <3>. QED BY <2>1, <3>1 DEF GuardInv, RateWindow
  <2>2. CASE j = Len(grants) + 1
    <3>1. /\ (j - i + 1) * TicksPerSec + tokens' <= Burst + (lastFill' - grants'[i]) * MaxRPS
          /\ lastFill' = grants'[j]
      BY <1>3, <1>6, <2>2 DEF OpenWindows, Burst
    <3>2. tokens' \in Nat
      BY <1>2, <1>3, BurstNat, ClockAssumption
    <3>3. (j - i + 1) * TicksPerSec \in Int /\ (grants'[j] - grants'[i]) * MaxRPS \in Int
      <4>1. grants'[i] \in Nat /\ grants'[j] \in Nat
        BY <1>3
      <4>. QED BY <4>1, <1>1, <1>3, ClockAssumption, RateAssumption, SMTT(30)
    <3>. QED BY <3>1, <3>2, <3>3, BurstNat
  <2>. QED BY <1>1, <1>3, <2>1, <2>2
<1>. QED BY <1>4, <1>5, <1>6, <1>7 DEF GuardInv

LEMMA LimitedInv ==
    ASSUME GuardInv, ReserveLimited
    PROVE  GuardInv'
<1>1. tokens' = Refilled /\ lastFill' = now /\ grants' = grants /\ now' = now
      /\ inFlight' = inFlight /\ held' = held /\ killed' = killed /\ reason' = reason
  BY DEF ReserveLimited
<1>2. Refilled \in 0 .. Burst
  BY RefillBounds DEF GuardInv
<1>. HIDE DEF Refilled, Burst
<1>3. BucketTypeOK'
  <2>1. lastFill' \in 0 .. MaxTime /\ now' \in lastFill' .. MaxTime
    BY <1>1, BucketFacts, ClockAssumption DEF GuardInv
  <2>2. tokens' \in 0 .. Burst
    BY <1>1, <1>2
  <2>. QED BY <1>1, <2>1, <2>2 DEF GuardInv, BucketTypeOK
<1>4. OpenWindows'
  BY <1>1, RefillWindows DEF OpenWindows, Burst
<1>5. InFlightExact' /\ RateWindow'
  BY <1>1 DEF GuardInv, InFlightExact, RateWindow
<1>. QED BY <1>3, <1>4, <1>5 DEF GuardInv

LEMMA ReleaseInv ==
    ASSUME GuardInv, NEW c \in held, Release(c)
    PROVE  GuardInv'
<1>1. IsFiniteSet(held) /\ held \subseteq Callers
  BY CallersAssumption, FS_Subset DEF GuardInv, BucketTypeOK
<1>2. Cardinality(held \ {c}) = Cardinality(held) - 1 /\ Cardinality(held) \in Nat
      /\ Cardinality(held \ {c}) \in Nat
  BY <1>1, FS_RemoveElement, FS_CardinalityType, FS_Subset
<1>3. inFlight' = inFlight - 1 /\ held' = held \ {c}
  BY <1>2 DEF GuardInv, InFlightExact, Release
<1>4. inFlight = Cardinality(held) /\ inFlight <= MaxConc
  BY DEF GuardInv, InFlightExact
<1>5. InFlightExact' /\ inFlight' \in 0 .. MaxConc
  BY <1>2, <1>3, <1>4, RateAssumption DEF InFlightExact
<1>7. BucketTypeOK'
  BY <1>1, <1>3, <1>5 DEF GuardInv, BucketTypeOK, Release
<1>6. RateWindow' /\ OpenWindows'
  BY DEF GuardInv, Release, RateWindow, OpenWindows, Burst
<1>. QED BY <1>5, <1>6, <1>7 DEF GuardInv

LEMMA NextInv == GuardInv /\ [GuardNext]_guardVars => GuardInv'
<1>. SUFFICES ASSUME GuardInv, [GuardNext]_guardVars PROVE GuardInv'
  OBVIOUS
<1>1. CASE Tick
  <2>1. BucketTypeOK'
    <3>1. now' \in lastFill .. MaxTime
      BY <1>1, BucketFacts, ClockAssumption DEF Tick, GuardInv
    <3>. QED BY <1>1, <3>1 DEF Tick, GuardInv, BucketTypeOK, bucketVars
  <2>. QED BY <1>1, <2>1, BucketUnchanged DEF Tick
<1>2. CASE Kill
  <2>1. BucketTypeOK'
    BY <1>2 DEF Kill, GuardInv, BucketTypeOK, bucketVars, Burst
  <2>. QED BY <1>2, <2>1, BucketUnchanged DEF Kill
<1>3. CASE \E c \in Callers \ held : ReserveGranted(c)
  BY <1>3, GrantInv
<1>4. CASE ReserveLimited
  BY <1>4, LimitedInv
<1>5. CASE \E c \in held : Release(c)
  BY <1>5, ReleaseInv
<1>6. CASE \E ok \in BOOLEAN : ReportOutcome(ok)
  <2>1. PICK ok \in BOOLEAN : ReportOutcome(ok)
    BY <1>6
  <2>2. UNCHANGED <<now, bucketVars>>
    BY <2>1 DEF ReportOutcome, guardVars, bucketVars
  <2>3. killed' \in BOOLEAN /\ reason' \in {"", "operator", "auto"}
    <3>1. CASE MinSamples = 0 \/ killed
      BY <2>1, <3>1 DEF ReportOutcome, guardVars, GuardInv, BucketTypeOK
    <3>2. CASE ~(MinSamples = 0 \/ killed)
      <4>1. /\ killed' = (winFilled' = MinSamples /\ Exceeds(winErrs'))
            /\ reason' = IF killed' THEN "auto" ELSE reason
        BY <2>1, <3>2 DEF ReportOutcome
      <4>. HIDE DEF Exceeds
      <4>. QED BY <4>1 DEF GuardInv, BucketTypeOK
    <3>. QED BY <3>1, <3>2
  <2>4. BucketTypeOK'
    BY <2>2, <2>3 DEF GuardInv, BucketTypeOK, bucketVars, Burst
  <2>. QED BY <2>2, <2>4, BucketUnchanged
<1>7. CASE UNCHANGED guardVars
  BY <1>7 DEF guardVars, GuardInv, BucketTypeOK, InFlightExact, RateWindow, OpenWindows, Burst
<1>. QED BY <1>1, <1>2, <1>3, <1>4, <1>5, <1>6, <1>7 DEF GuardNext

\* The inductive invariant of the bucket and the slots (Reserve, Release, refillLocked).
THEOREM GuardInvariance == GuardSpec => []GuardInv
  BY InitInv, NextInv, PTL DEF GuardSpec

\* Reserve and Release never leak a slot or free one twice, whatever the ceiling
\* and however many callers race.
THEOREM SlotsExact == GuardSpec => []InFlightExact
<1>1. GuardInv => InFlightExact
  BY DEF GuardInv
<1>. QED BY <1>1, GuardInvariance, PTL

\* The token bucket of Reserve and refillLocked bounds every window of grants, for
\* every rate, clock resolution and schedule of callers.
THEOREM RateBounded == GuardSpec => []RateWindow
<1>1. GuardInv => RateWindow
  BY DEF GuardInv
<1>. QED BY <1>1, GuardInvariance, PTL

\* A tripped kill switch is final: nothing is granted after it.
THEOREM KillIsFinal == GuardSpec => KillFinal
<1>1. [GuardNext]_guardVars =>
        [killed => killed' /\ reason' = reason /\ grants' = grants /\ held' \subseteq held]_guardVars
  BY DEF GuardNext, guardVars, bucketVars, Tick, Kill, ReserveGranted, ReserveLimited,
         Release, ReportOutcome
<1>. QED BY <1>1, PTL DEF GuardSpec, KillFinal

----------------------------------------------------------------------------
(* The rolling error window *)

\* The failures among the outcomes of a sequence.
Bad(s) == {i \in 1 .. Len(s) : ~s[i]}

Misses(ok) == IF ok THEN 0 ELSE 1

\* The failures are finitely many, and one is no more than an outcome.
LEMMA BadFinite == ASSUME NEW s \in Seq(BOOLEAN)
                   PROVE  /\ IsFiniteSet(Bad(s))
                          /\ Cardinality(Bad(s)) \in 0 .. Len(s)
                          /\ Bad(s) = {i \in DOMAIN s : ~s[i]}
<1>1. /\ IsFiniteSet(1 .. Len(s)) /\ Cardinality(1 .. Len(s)) = Len(s)
      /\ Len(s) \in Nat /\ DOMAIN s = 1 .. Len(s)
  <2>1. Len(s) \in Nat /\ DOMAIN s = 1 .. Len(s)
    OBVIOUS
  <2>. QED BY <2>1, FS_Interval
<1>2. Bad(s) \subseteq 1 .. Len(s)
  BY DEF Bad
<1>3. /\ IsFiniteSet(Bad(s)) /\ Cardinality(Bad(s)) <= Cardinality(1 .. Len(s))
      /\ Cardinality(Bad(s)) \in Nat
  BY <1>1, <1>2, FS_Subset, FS_CardinalityType
<1>4. Bad(s) = {i \in DOMAIN s : ~s[i]}
  BY <1>1, Zenon DEF Bad
<1>. QED BY <1>1, <1>3, <1>4

\* One more outcome counts once if it is a failure.
LEMMA BadAppend ==
    ASSUME NEW s \in Seq(BOOLEAN), NEW ok \in BOOLEAN
    PROVE  Cardinality(Bad(Append(s, ok))) = Cardinality(Bad(s)) + Misses(ok)
<1>. DEFINE t == Append(s, ok)
            n == Len(s)
<1>1. /\ n \in Nat /\ Len(t) = n + 1 /\ t[n + 1] = ok
      /\ \A i \in 1 .. n : t[i] = s[i]
  OBVIOUS
<1>2. n + 1 \notin 1 .. n /\ 1 .. n + 1 = (1 .. n) \cup {n + 1}
  BY <1>1
<1>. HIDE DEF t, n
<1>3. CASE ok
  <2>1. Bad(t) = Bad(s)
    BY <1>1, <1>2, <1>3, Zenon DEF Bad, n
  <2>. QED BY <2>1, <1>3, BadFinite DEF Misses, t
<1>4. CASE ~ok
  <2>1. Bad(t) = Bad(s) \cup {n + 1} /\ n + 1 \notin Bad(s)
    BY <1>1, <1>2, <1>4, Zenon DEF Bad, n
  <2>. QED BY <2>1, <1>4, BadFinite, FS_AddElement DEF Misses, t
<1>. QED BY <1>3, <1>4

\* Dropping the oldest outcome uncounts it.
LEMMA BadDrop ==
    ASSUME NEW t \in Seq(BOOLEAN), Len(t) > 0
    PROVE  LET u == SubSeq(t, 2, Len(t))
           IN  /\ u \in Seq(BOOLEAN) /\ Len(u) = Len(t) - 1
               /\ \A i \in 1 .. Len(u) : u[i] = t[i + 1]
               /\ Cardinality(Bad(u)) = Cardinality(Bad(t)) - Misses(t[1])
<1>. DEFINE u == SubSeq(t, 2, Len(t))
            later == Bad(t) \ {1}
            Shift == [i \in Bad(u) |-> i + 1]
<1>1. /\ Len(t) \in Nat \ {0}
      /\ u \in Seq(BOOLEAN) /\ Len(u) = Len(t) - 1
      /\ \A i \in 1 .. Len(u) : u[i] = t[i + 1]
  <2>1. Len(t) \in Nat \ {0} /\ t # <<>>
    OBVIOUS
  <2>2. u = Tail(t)
    BY <2>1, TailIsSubSeq
  <2>. QED BY <2>1, <2>2, HeadTailProperties
<1>. HIDE DEF u
<1>2. Shift \in [Bad(u) -> later]
  <2>. SUFFICES ASSUME NEW i \in Bad(u) PROVE i + 1 \in later
    OBVIOUS
  <2>1. i \in 1 .. Len(u) /\ ~u[i]
    BY DEF Bad
  <2>2. i + 1 \in 1 .. Len(t) /\ i + 1 # 1 /\ ~t[i + 1]
    BY <1>1, <2>1
  <2>. QED BY <2>2 DEF Bad
<1>3. \A a, b \in Bad(u) : Shift[a] = Shift[b] => a = b
  <2>1. Bad(u) \subseteq Int
    BY DEF Bad
  <2>. QED BY <2>1
<1>4. \A j \in later : \E i \in Bad(u) : Shift[i] = j
  <2>. SUFFICES ASSUME NEW j \in later PROVE \E i \in Bad(u) : Shift[i] = j
    OBVIOUS
  <2>1. j \in 1 .. Len(t) /\ ~t[j] /\ j # 1
    BY DEF Bad
  <2>2. j - 1 \in 1 .. Len(u) /\ (j - 1) + 1 = j
    BY <1>1, <2>1
  <2>3. ~u[j - 1]
    <3>1. u[j - 1] = t[(j - 1) + 1]
      BY <1>1, <2>2
    <3>. QED BY <3>1, <2>1, <2>2, Zenon
  <2>4. j - 1 \in Bad(u)
    BY <2>2, <2>3, Zenon DEF Bad
  <2>. QED BY <2>2, <2>4
<1>. HIDE DEF Shift, later
<1>5. IsFiniteSet(Bad(u)) /\ IsFiniteSet(Bad(t)) /\ Cardinality(Bad(t)) \in Nat
  BY <1>1, BadFinite
<1>6. Shift \in Bijection(Bad(u), later)
  BY <1>2, <1>3, <1>4, Fun_IsBij
<1>7. Cardinality(later) = Cardinality(Bad(u))
  <2>1. ExistsBijection(Bad(u), later)
    BY <1>6, Zenon DEF ExistsBijection
  <2>. QED BY <2>1, <1>5, FS_Bijection
<1>8. Cardinality(later) = IF 1 \in Bad(t) THEN Cardinality(Bad(t)) - 1 ELSE Cardinality(Bad(t))
  BY <1>5, FS_RemoveElement DEF later
<1>9. 1 \in Bad(t) <=> ~t[1]
  <2>1. 1 \in 1 .. Len(t)
    BY <1>1
  <2>. QED BY <2>1 DEF Bad
<1>10. t[1] \in BOOLEAN
  BY <1>1
<1>11. Cardinality(Bad(u)) = Cardinality(Bad(t)) - Misses(t[1])
  BY <1>5, <1>7, <1>8, <1>9, <1>10 DEF Misses
<1>. QED BY <1>1, <1>11 DEF u

\* Where the ring goes after slot p.
LEMMA NextSlot ==
    ASSUME NEW m \in Nat \ {0}, NEW p \in 0 .. m - 1
    PROVE  (p + 1) % m = IF p + 1 < m THEN p + 1 ELSE 0
  OBVIOUS

LEMMA InitWindow == GuardInit => WindowInv
<1>. SUFFICES ASSUME GuardInit PROVE WindowInv
  OBVIOUS
<1>0. /\ recent = <<>> /\ winPos = 0 /\ winFilled = 0 /\ winErrs = 0 /\ reason = ""
      /\ killed = FALSE /\ window = [i \in Slots |-> FALSE]
  BY Zenon DEF GuardInit
<1>1. Len(recent) = 0 /\ recent \in Seq(BOOLEAN)
  BY <1>0, EmptySeq
<1>2. WindowTypeOK
  <2>1. window \in [Slots -> BOOLEAN]
    BY <1>0, Zenon
  <2>2. 0 \in 0 .. MinSamples
    BY AutoKillAssumption
  <2>. QED BY <1>0, <1>1, <2>1, <2>2, Zenon DEF WindowTypeOK
<1>3. RingHolds
  <2>1. 1 .. Len(recent) = {}
    BY <1>1
  <2>. QED BY <1>0, <2>1 DEF RingHolds
<1>4. winErrs = Cardinality({i \in DOMAIN recent : ~recent[i]})
  <2>1. {i \in DOMAIN recent : ~recent[i]} = {}
    <3>1. 1 .. Len(recent) = {}
      BY <1>1
    <3>. QED BY <1>1, <3>1, BadFinite DEF Bad
  <2>. QED BY <1>0, <2>1, FS_EmptySet
<1>5. WindowExact
  <2>1. ~(MinSamples > 0 /\ Len(recent) = MinSamples)
    BY <1>1, AutoKillAssumption
  <2>. QED BY <1>0, <1>1, <1>4, <2>1, Zenon DEF WindowExact
<1>. QED BY <1>0, <1>2, <1>3, <1>5, Zenon DEF WindowInv

\* What the invariant says of the ring when the next outcome arrives: it goes where the
\* oldest of a full window is.
LEMMA RingFacts ==
    ASSUME WindowInv, MinSamples > 0
    PROVE  /\ MinSamples \in Nat \ {0} /\ winPos \in Slots
           /\ winFilled = Len(recent) /\ Len(recent) \in 0 .. MinSamples
           /\ recent \in Seq(BOOLEAN) /\ window \in [Slots -> BOOLEAN]
           /\ winErrs = Cardinality(Bad(recent)) /\ winErrs \in Nat
           /\ winFilled = MinSamples => recent[1] = window[winPos]
<1>1. MinSamples \in Nat \ {0} /\ winPos \in Slots
  BY AutoKillAssumption DEF WindowInv, WindowTypeOK, RingHolds, Slots
<1>2. /\ recent \in Seq(BOOLEAN) /\ window \in [Slots -> BOOLEAN]
      /\ winFilled = Len(recent) /\ winFilled \in 0 .. MinSamples /\ winErrs \in 0 .. MinSamples
  BY DEF WindowInv, WindowTypeOK, WindowExact
<1>3. winErrs = Cardinality(Bad(recent))
  BY <1>2, BadFinite DEF WindowInv, WindowExact
<1>4. ASSUME winFilled = MinSamples PROVE recent[1] = window[winPos]
  <2>1. 1 \in 1 .. Len(recent) /\ RingAt(1) = winPos
    BY <1>1, <1>2, <1>4 DEF RingAt, Slots
  <2>. QED BY <2>1 DEF WindowInv, RingHolds
<1>. QED BY <1>1, <1>2, <1>3, <1>4

\* An outcome that fills a slot of a window not yet full.
LEMMA FillWindow ==
    ASSUME WindowInv, NEW ok \in BOOLEAN, ReportOutcome(ok),
           MinSamples > 0, ~killed, winFilled < MinSamples
    PROVE  WindowTypeOK' /\ RingHolds' /\ winFilled' = Len(recent')
           /\ winErrs' = Cardinality(Bad(recent'))
<1>. DEFINE n == Len(recent)
<1>1. /\ MinSamples \in Nat \ {0} /\ n \in Nat /\ n < MinSamples /\ winPos = n /\ winFilled = n
      /\ recent \in Seq(BOOLEAN) /\ window \in [Slots -> BOOLEAN]
      /\ winErrs = Cardinality(Bad(recent))
  BY RingFacts DEF WindowInv, RingHolds
<1>2. /\ recent' = Latest(Append(recent, ok), MinSamples)
      /\ winErrs' = winErrs + Misses(ok)
      /\ winFilled' = n + 1 /\ window' = [window EXCEPT ![n] = ok]
      /\ winPos' = (n + 1) % MinSamples
  <2>1. winFilled # MinSamples
    BY <1>1
  <2>2. winErrs' = winErrs - 0 + Misses(ok)
    BY <2>1 DEF ReportOutcome, Misses
  <2>3. winErrs \in Int
    BY RingFacts
  <2>4. winErrs - 0 + Misses(ok) = winErrs + Misses(ok)
    BY <2>3 DEF Misses
  <2>. QED BY <1>1, <2>1, <2>2, <2>4 DEF ReportOutcome
<1>3. /\ Append(recent, ok) \in Seq(BOOLEAN)
      /\ Len(Append(recent, ok)) = n + 1
      /\ \A k \in 1 .. n : Append(recent, ok)[k] = recent[k]
      /\ Append(recent, ok)[n + 1] = ok
  BY <1>1, AppendProperties
<1>4. recent' = Append(recent, ok)
  <2>1. ~(Len(Append(recent, ok)) > MinSamples)
    BY <1>1, <1>3
  <2>. QED BY <1>2, <2>1 DEF Latest
<1>5. winErrs' = Cardinality(Bad(recent'))
  BY <1>1, <1>2, <1>4, BadAppend
<1>6. winPos' = IF n + 1 < MinSamples THEN n + 1 ELSE 0
  BY <1>1, <1>2, NextSlot
<1>7. winFilled' = Len(recent')
  BY <1>2, <1>3, <1>4
<1>8. n \in Slots /\ window' \in [Slots -> BOOLEAN] /\ window'[n] = ok
      /\ \A i \in Slots : i # n => window'[i] = window[i]
  BY <1>1, <1>2 DEF Slots
<1>9. WindowTypeOK'
  <2>1. winErrs' \in 0 .. MinSamples
    <3>1. winErrs' \in 0 .. Len(recent') /\ Len(recent') = n + 1
      BY <1>3, <1>4, <1>5, BadFinite
    <3>. QED BY <1>1, <3>1
  <2>2. winPos' \in 0 .. MinSamples /\ winFilled' \in 0 .. MinSamples
    BY <1>1, <1>2, <1>6
  <2>3. recent' \in Seq(BOOLEAN)
    BY <1>3, <1>4
  <2>. QED BY <1>8, <2>1, <2>2, <2>3 DEF WindowTypeOK, Slots
<1>10. RingHolds'
  <2>1. ASSUME NEW k \in 1 .. Len(recent') PROVE recent'[k] = window'[RingAt(k)']
    <3>1. k \in 1 .. n + 1 /\ RingAt(k)' = k - 1
      BY <1>1, <1>2, <1>3, <1>4, <1>6, SMTT(30) DEF RingAt
    <3>2. CASE k \in 1 .. n
      <4>1. k - 1 \in Slots /\ k - 1 # n /\ RingAt(k) = k - 1
        BY <1>1, <3>2 DEF RingAt, Slots
      <4>2. recent[k] = window[k - 1]
        BY <3>2, <4>1 DEF WindowInv, RingHolds
      <4>3. recent'[k] = recent[k]
        BY <1>3, <1>4, <3>2
      <4>4. window'[k - 1] = window[k - 1]
        BY <1>8, <4>1
      <4>. QED BY <3>1, <4>2, <4>3, <4>4
    <3>3. CASE k = n + 1
      <4>1. k - 1 = n
        BY <1>1, <3>3
      <4>2. recent'[k] = ok
        BY <1>3, <1>4, <3>3
      <4>. QED BY <1>8, <3>1, <4>1, <4>2
    <3>. QED BY <1>1, <3>1, <3>2, <3>3
  <2>2. MinSamples > 0 => winPos' < MinSamples
    BY <1>1, <1>6
  <2>3. winFilled' < MinSamples => winPos' = winFilled'
    BY <1>1, <1>2, <1>6
  <2>. QED BY <2>1, <2>2, <2>3 DEF RingHolds
<1>. QED BY <1>5, <1>7, <1>9, <1>10

\* An outcome that overwrites the oldest one of a full window.
LEMMA SlideWindow ==
    ASSUME WindowInv, NEW ok \in BOOLEAN, ReportOutcome(ok),
           MinSamples > 0, ~killed, winFilled = MinSamples
    PROVE  WindowTypeOK' /\ RingHolds' /\ winFilled' = Len(recent')
           /\ winErrs' = Cardinality(Bad(recent'))
<1>. DEFINE all == Append(recent, ok)
            m == MinSamples
<1>1. /\ m \in Nat \ {0} /\ Len(recent) = m /\ winPos \in 0 .. m - 1 /\ winPos \in Slots
      /\ recent \in Seq(BOOLEAN) /\ window \in [Slots -> BOOLEAN]
      /\ winErrs = Cardinality(Bad(recent)) /\ winErrs \in Nat
      /\ recent[1] = window[winPos]
  BY RingFacts DEF Slots
<1>2. /\ recent' = Latest(all, m)
      /\ winErrs' = winErrs - Misses(window[winPos]) + Misses(ok)
      /\ winFilled' = m /\ window' = [window EXCEPT ![winPos] = ok]
      /\ winPos' = (winPos + 1) % m
  BY <1>1, Zenon DEF ReportOutcome, Misses
<1>3. /\ all \in Seq(BOOLEAN) /\ Len(all) = m + 1
      /\ \A k \in 1 .. m : all[k] = recent[k]
      /\ all[m + 1] = ok
  BY <1>1, AppendProperties
<1>. HIDE DEF all
<1>4. recent' = SubSeq(all, 2, Len(all))
  <2>1. Len(all) > m /\ Len(all) - m + 1 = 2
    BY <1>1, <1>3
  <2>. QED BY <1>2, <2>1 DEF Latest
<1>5. /\ recent' \in Seq(BOOLEAN) /\ Len(recent') = m
      /\ \A k \in 1 .. m : recent'[k] = all[k + 1]
      /\ Cardinality(Bad(recent')) = Cardinality(Bad(all)) - Misses(all[1])
  <2>1. Len(all) > 0 /\ Len(all) - 1 = m
    BY <1>1, <1>3
  <2>. QED BY <1>3, <1>4, <2>1, BadDrop
<1>6. winErrs' = Cardinality(Bad(recent'))
  <2>1. Cardinality(Bad(all)) = winErrs + Misses(ok)
    BY <1>1, BadAppend DEF all
  <2>2. all[1] = window[winPos]
    <3>1. 1 \in 1 .. m
      BY <1>1
    <3>. QED BY <1>1, <1>3, <3>1, Zenon
  <2>3. Misses(ok) \in Int /\ Misses(window[winPos]) \in Int
    BY DEF Misses
  <2>4. Cardinality(Bad(recent')) = (winErrs + Misses(ok)) - Misses(window[winPos])
    <3>1. Misses(all[1]) = Misses(window[winPos])
      BY <2>2, Zenon DEF Misses
    <3>2. Cardinality(Bad(recent')) = Cardinality(Bad(all)) - Misses(all[1])
      BY <1>5, Zenon
    <3>. QED BY <2>1, <3>1, <3>2, Zenon
  <2>5. winErrs \in Int
    BY <1>1
  <2>. QED BY <1>2, <2>3, <2>4, <2>5
<1>7. winPos' = IF winPos + 1 < m THEN winPos + 1 ELSE 0
  BY <1>1, <1>2, NextSlot
<1>8. window' \in [Slots -> BOOLEAN] /\ window'[winPos] = ok
      /\ \A i \in Slots : i # winPos => window'[i] = window[i]
  BY <1>1, <1>2
<1>9. WindowTypeOK'
  <2>1. winErrs' \in 0 .. m
    BY <1>5, <1>6, BadFinite
  <2>2. winPos' \in 0 .. m /\ winFilled' \in 0 .. m
    BY <1>1, <1>2, <1>7
  <2>. QED BY <1>5, <1>8, <2>1, <2>2 DEF WindowTypeOK, Slots
<1>10. RingHolds'
  <2>1. ASSUME NEW k \in 1 .. Len(recent') PROVE recent'[k] = window'[RingAt(k)']
    <3>. DEFINE slot == RingAt(k)'
    <3>0. k \in 1 .. m /\ winPos \in Int
      BY <1>1, <1>5
    <3>1. slot = IF winPos' + k - 1 < m THEN winPos' + k - 1 ELSE winPos' + k - 1 - m
      BY <1>1, <1>2 DEF RingAt
    <3>. HIDE DEF slot
    <3>2. CASE k < m
      <4>1. k + 1 \in 1 .. m
        BY <1>1, <3>0, <3>2
      <4>2. RingAt(k + 1) = IF winPos + k < m THEN winPos + k ELSE winPos + k - m
        BY <1>1, <4>1, <3>0 DEF RingAt
      <4>3. slot = RingAt(k + 1) /\ slot \in Slots /\ slot # winPos
        BY <1>1, <1>7, <3>0, <3>1, <3>2, <4>2 DEF Slots
      <4>4. recent[k + 1] = window[slot]
        BY <1>1, <4>1, <4>3 DEF WindowInv, RingHolds
      <4>5. recent'[k] = recent[k + 1]
        BY <1>3, <1>5, <3>0, <4>1
      <4>. QED BY <1>8, <4>3, <4>4, <4>5 DEF slot
    <3>3. CASE k = m
      <4>1. slot = winPos
        BY <1>1, <1>7, <3>0, <3>1, <3>3
      <4>2. recent'[k] = ok
        BY <1>3, <1>5, <3>0, <3>3
      <4>. QED BY <1>8, <4>1, <4>2 DEF slot
    <3>. QED BY <1>1, <3>0, <3>2, <3>3
  <2>2. winPos' < m
    BY <1>1, <1>7
  <2>3. ~(winFilled' < m)
    BY <1>1, <1>2
  <2>. QED BY <2>1, <2>2, <2>3 DEF RingHolds
<1>. QED BY <1>2, <1>5, <1>6, <1>9, <1>10

\* The other operations leave the window alone.
LEMMA WindowUnchanged ==
    ASSUME WindowInv, UNCHANGED windowVars, killed => killed',
           reason' = reason \/ (killed' /\ reason' = "operator")
    PROVE  WindowInv'
<1>1. WindowTypeOK' /\ RingHolds'
  BY Zenon DEF WindowInv, windowVars, WindowTypeOK, RingHolds, RingAt
<1>2. WindowExact'
  BY DEF WindowInv, windowVars, WindowExact, Exceeds
<1>. QED BY <1>1, <1>2 DEF WindowInv

LEMMA OutcomeStep ==
    ASSUME WindowInv, NEW ok \in BOOLEAN, ReportOutcome(ok)
    PROVE  WindowInv'
<1>1. CASE MinSamples = 0 \/ killed
  <2>1. UNCHANGED <<killed, reason, windowVars>>
    BY <1>1, Zenon DEF ReportOutcome, guardVars, windowVars
  <2>. QED BY <2>1, WindowUnchanged
<1>2. CASE ~(MinSamples = 0 \/ killed)
  <2>0. MinSamples > 0 /\ MinSamples \in Nat
    BY <1>2, AutoKillAssumption
  <2>1. winFilled < MinSamples \/ winFilled = MinSamples
    BY <2>0, RingFacts
  <2>2. /\ WindowTypeOK' /\ RingHolds' /\ winFilled' = Len(recent')
        /\ winErrs' = Cardinality(Bad(recent'))
    BY <1>2, <2>0, <2>1, FillWindow, SlideWindow
  <2>3. /\ killed' = (winFilled' = MinSamples /\ Exceeds(winErrs'))
        /\ reason' = IF killed' THEN "auto" ELSE reason
    BY <1>2, Zenon DEF ReportOutcome
  <2>4. reason # "auto"
    BY <1>2 DEF WindowInv
  <2>5. winErrs' = Cardinality({i \in DOMAIN recent' : ~recent'[i]})
    <3>1. recent' \in Seq(BOOLEAN)
      BY <2>2 DEF WindowTypeOK
    <3>. QED BY <2>2, <3>1, BadFinite
  <2>6. reason' = "auto" => killed'
    BY <2>3, <2>4, Zenon
  <2>7. reason' = "auto" => Len(recent') = MinSamples /\ Exceeds(winErrs')
    BY <2>2, <2>3, <2>6, Zenon
  <2>8. ~killed' => ~(MinSamples > 0 /\ Len(recent') = MinSamples /\ Exceeds(winErrs'))
    BY <2>2, <2>3, Zenon
  <2>. HIDE DEF Exceeds
  <2>. QED BY <2>2, <2>5, <2>6, <2>7, <2>8, Zenon DEF WindowInv, WindowExact
<1>. QED BY <1>1, <1>2

LEMMA NextWindow == WindowInv /\ [GuardNext]_guardVars => WindowInv'
<1>. SUFFICES ASSUME WindowInv, [GuardNext]_guardVars PROVE WindowInv'
  OBVIOUS
<1>1. CASE \E ok \in BOOLEAN : ReportOutcome(ok)
  BY <1>1, OutcomeStep
<1>2. CASE Kill
  BY <1>2, WindowUnchanged DEF Kill
<1>3. CASE \/ Tick \/ ReserveLimited \/ UNCHANGED guardVars
           \/ \E c \in Callers \ held : ReserveGranted(c)
           \/ \E c \in held : Release(c)
  <2>1. UNCHANGED <<killed, reason, windowVars>>
    BY <1>3 DEF Tick, ReserveLimited, guardVars, windowVars, ReserveGranted, Release
  <2>. QED BY <2>1, WindowUnchanged
<1>. QED BY <1>1, <1>2, <1>3 DEF GuardNext

\* The ring and its incremental error count say of the latest outcomes what counting
\* them one by one would, for every window length and threshold.
THEOREM WindowIsExact == GuardSpec => []WindowExact
<1>1. WindowInv => WindowExact
  BY DEF WindowInv
<1>. QED BY <1>1, InitWindow, NextWindow, PTL DEF GuardSpec

(***************************************************************************)
(* The runner                                                              *)
(***************************************************************************)
LEMMA RunInit == Init => RunInv
<1>. SUFFICES ASSUME Init PROVE RunInv
  OBVIOUS
<1>1. SlotInv
  <2>1. pc \in [Users -> PCs] /\ \A u \in Users : pc[u] = "idle"
    BY DEF Init, PCs
  <2>2. HeldBySenders
    BY <2>1 DEF Init, GuardInit, HeldBySenders, Holding
  <2>3. next \in Nat \ {0} /\ main # "acquire"
    BY DEF Init
  <2>. QED BY <2>1, <2>2, <2>3 DEF SlotInv
<1>2. WaitInv
  <2>1. Live = {}
    BY DEF Init, Live
  <2>. QED BY <2>1, FS_EmptySet DEF Init, WaitInv
<1>3. PromptInv
  BY DEF Init, PromptInv
<1>. QED BY <1>1, <1>2, <1>3 DEF RunInv

----------------------------------------------------------------------------
(* Steps of one session *)

\* A session that moves keeps the launch order, and the guard's count as long as
\* it enters and leaves send through Reserve and Release.
LEMMA MoveSlot ==
    ASSUME SlotInv, NEW u \in Users, NEW x \in PCs, pc[u] # "idle",
           pc' = [pc EXCEPT ![u] = x], UNCHANGED <<main, next>>,
           \/ held' = held /\ (pc[u] \in Holding <=> x \in Holding)
           \/ held' = held \cup {u} /\ x \in Holding
           \/ held' = held \ {u} /\ x \notin Holding
    PROVE  SlotInv'
<1>1. pc' \in [Users -> PCs] /\ next' \in Nat /\ (main' = "acquire" => next' <= NumUsers)
  BY DEF SlotInv
<1>2. \A v \in Users : v >= next' => pc'[v] = "idle"
  BY DEF SlotInv
<1>3. HeldBySenders'
  <2>1. pc'[u] = x /\ \A v \in Users \ {u} : pc'[v] = pc[v]
    BY DEF SlotInv
  <2>2. held = {v \in Users : pc[v] \in Holding}
    BY DEF SlotInv, HeldBySenders
  <2>3. CASE held' = held /\ (pc[u] \in Holding <=> x \in Holding)
    BY <2>1, <2>2, <2>3 DEF HeldBySenders
  <2>4. CASE held' = held \cup {u} /\ x \in Holding
    BY <2>1, <2>2, <2>4 DEF HeldBySenders
  <2>5. CASE held' = held \ {u} /\ x \notin Holding
    BY <2>1, <2>2, <2>5 DEF HeldBySenders
  <2>. QED BY <2>3, <2>4, <2>5
<1>. QED BY <1>1, <1>2, <1>3 DEF SlotInv

\* A live session that stays live leaves the wait group as it is.
LEMMA MoveWait ==
    ASSUME SlotInv, WaitInv, NEW u \in Users, NEW x \in PCs \ {"idle", "gone"},
           pc[u] \notin {"idle", "gone"},
           pc' = [pc EXCEPT ![u] = x], UNCHANGED <<main, wg>>
    PROVE  WaitInv'
<1>1. Live' = Live
  BY DEF SlotInv, Live
<1>. QED BY <1>1 DEF WaitInv

\* A session emits only at the end of a step, and begins none once cancelled.
LEMMA MovePrompt ==
    ASSUME SlotInv, PromptInv, NEW u \in Users, NEW x \in PCs,
           pc' = [pc EXCEPT ![u] = x], UNCHANGED <<cancelled, atCancel>>,
           step' \in [Users -> Nat],
           \/ results' = results /\ (pc[u] \in Between /\ cancelled => x \in Between)
           \/ \E i \in Nat : /\ results' = [results EXCEPT ![u] = Append(@, i)]
                             /\ pc[u] \notin Between /\ x \in Between
    PROVE  PromptInv'
<1>. DEFINE Slack(p) == IF p \in Between THEN 1 ELSE 0
<1>1. pc'[u] = x /\ \A v \in Users \ {u} : pc'[v] = pc[v]
  BY DEF SlotInv
<1>2. CASE results' = results /\ (pc[u] \in Between /\ cancelled => x \in Between)
  <2>1. step' \in [Users -> Nat] /\ results' \in [Users -> Seq(Nat)]
        /\ atCancel' \in [Users -> Nat]
    BY <1>2 DEF PromptInv
  <2>2. ASSUME cancelled', NEW v \in Users
        PROVE  Len(results'[v]) <= atCancel'[v] + Slack(pc'[v])
    <3>1. Len(results[v]) \in Nat /\ atCancel[v] \in Nat
          /\ Len(results[v]) <= atCancel[v] + Slack(pc[v])
      BY <2>2 DEF PromptInv
    <3>2. CASE v = u
      BY <1>1, <1>2, <2>2, <3>1, <3>2
    <3>3. CASE v # u
      BY <1>1, <1>2, <3>1, <3>3
    <3>. QED BY <3>2, <3>3
  <2>. QED BY <2>1, <2>2 DEF PromptInv
<1>3. CASE \E i \in Nat : /\ results' = [results EXCEPT ![u] = Append(@, i)]
                          /\ pc[u] \notin Between /\ x \in Between
  <2>1. PICK i \in Nat : /\ results' = [results EXCEPT ![u] = Append(@, i)]
                         /\ pc[u] \notin Between /\ x \in Between
    BY <1>3
  <2>2. results[u] \in Seq(Nat) /\ Len(Append(results[u], i)) = Len(results[u]) + 1
        /\ Append(results[u], i) \in Seq(Nat)
    BY DEF PromptInv
  <2>3. step' \in [Users -> Nat] /\ results' \in [Users -> Seq(Nat)]
        /\ atCancel' \in [Users -> Nat]
    BY <2>1, <2>2 DEF PromptInv
  <2>4. ASSUME cancelled', NEW v \in Users
        PROVE  Len(results'[v]) <= atCancel'[v] + Slack(pc'[v])
    <3>1. Len(results[v]) \in Nat /\ atCancel[v] \in Nat
          /\ Len(results[v]) <= atCancel[v] + Slack(pc[v])
      BY <2>4 DEF PromptInv
    <3>2. CASE v = u
      <4>1. results'[v] = Append(results[u], i)
        BY <2>1, <3>2 DEF PromptInv
      <4>. QED BY <1>1, <2>1, <2>2, <3>1, <3>2, <4>1
    <3>3. CASE v # u
      <4>1. results'[v] = results[v]
        BY <2>1, <3>3 DEF PromptInv
      <4>. QED BY <1>1, <3>1, <3>3, <4>1
    <3>. QED BY <3>2, <3>3
  <2>. QED BY <2>3, <2>4 DEF PromptInv
<1>. QED BY <1>2, <1>3

\* The three together, for the steps that neither finish nor touch the guard's count.
LEMMA Move ==
    ASSUME RunInv, NEW u \in Users, NEW x \in PCs \ {"idle", "gone"},
           pc[u] \notin {"idle", "gone"},
           pc' = [pc EXCEPT ![u] = x], UNCHANGED <<main, next, wg, cancelled, atCancel>>,
           step' \in [Users -> Nat],
           \/ held' = held /\ (pc[u] \in Holding <=> x \in Holding)
           \/ held' = held \cup {u} /\ x \in Holding
           \/ held' = held \ {u} /\ x \notin Holding,
           \/ results' = results /\ (pc[u] \in Between /\ cancelled => x \in Between)
           \/ \E i \in Nat : /\ results' = [results EXCEPT ![u] = Append(@, i)]
                             /\ pc[u] \notin Between /\ x \in Between
    PROVE  RunInv'
<1>1. SlotInv /\ WaitInv /\ PromptInv
  BY DEF RunInv
<1>2. SlotInv'
  BY <1>1, MoveSlot
<1>3. WaitInv'
  BY <1>1, MoveWait
<1>4. PromptInv'
  BY <1>1, MovePrompt
<1>. QED BY <1>2, <1>3, <1>4 DEF RunInv

LEMMA SessionInv ==
    ASSUME RunInv, NEW u \in Users, Session(u)
    PROVE  RunInv'
<1>. DEFINE Inner == PCs \ {"idle", "gone"}
            Enters(x) == x \in Inner /\ pc' = [pc EXCEPT ![u] = x]
<1>. USE DEF Goto, localVars, guardVars, EmitStep
<1>1. step \in [Users -> Nat] /\ pc \in [Users -> PCs]
  BY DEF RunInv, PromptInv, SlotInv
<1>2. CASE WalkFails(u)
  <2>1. Enters("unslot") /\ step' \in [Users -> Nat]
    BY <1>1, <1>2 DEF WalkFails, PCs
  <2>. QED BY <1>2, <2>1, Move DEF WalkFails, Between, Holding
<1>3. CASE \E w \in Walks : Walk(u, w)
  <2>1. Enters("step") /\ step' \in [Users -> Nat]
    BY <1>1, <1>3 DEF Walk, PCs
  <2>. QED BY <1>3, <2>1, Move DEF Walk, Between, Holding
<1>4. CASE NextNode(u)
  <2>1. /\ pc[u] = "step" /\ step' \in [Users -> Nat]
        /\ UNCHANGED <<main, next, wg, cancelled, atCancel, held, results>>
    BY <1>1, <1>4 DEF NextNode
  <2>2. PICK x \in {"unslot", "step", "think", "render"} :
            Enters(x) /\ (cancelled => x = "unslot")
    BY <1>1, <1>4 DEF NextNode, PCs
  <2>. QED BY <2>1, <2>2, Move DEF Between, Holding
<1>5. CASE Think(u)
  <2>1. /\ pc[u] = "think" /\ step' \in [Users -> Nat]
        /\ UNCHANGED <<main, next, wg, cancelled, atCancel, held, results>>
    BY <1>1, <1>5 DEF Think
  <2>2. PICK x \in {"unslot", "render"} : Enters(x)
    BY <1>5 DEF Think, PCs
  <2>. QED BY <2>1, <2>2, Move DEF Between, Holding
<1>6. CASE Render(u)
  <2>1. /\ pc[u] = "render" /\ step' \in [Users -> Nat] /\ step[u] + 1 \in Nat
        /\ UNCHANGED <<main, next, wg, cancelled, atCancel, held>>
    BY <1>1, <1>6 DEF Render
  <2>2. CASE Node(u) = "bad"
    <3>1. Enters("step") /\ results' = [results EXCEPT ![u] = Append(@, step[u] + 1)]
      BY <1>6, <2>2 DEF Render, PCs
    <3>. QED BY <2>1, <3>1, Move DEF Between, Holding
  <2>3. CASE Node(u) # "bad"
    <3>1. Enters("allow") /\ results' = results
      BY <1>6, <2>3 DEF Render, PCs
    <3>. QED BY <2>1, <3>1, Move DEF Between, Holding
  <2>. QED BY <2>2, <2>3
<1>7. CASE SendAllow(u)
  <2>1. /\ pc[u] = "allow" /\ step' \in [Users -> Nat]
        /\ UNCHANGED <<main, next, wg, cancelled, atCancel, held, results>>
    BY <1>1, <1>7 DEF SendAllow
  <2>2. PICK x \in {"reserve", "answer"} : Enters(x)
    BY <1>7 DEF SendAllow, PCs
  <2>. QED BY <2>1, <2>2, Move DEF Between, Holding
<1>8. CASE Reserve(u)
  <2>1. /\ pc[u] = "reserve" /\ step' \in [Users -> Nat] /\ Enters("sending")
        /\ UNCHANGED <<main, next, wg, cancelled, atCancel, results>>
        /\ held' = held \cup {u}
    BY <1>1, <1>8 DEF Reserve, ReserveGranted, PCs
  <2>. QED BY <2>1, Move DEF Between, Holding
<1>9. CASE ReserveWait(u)
  <2>1. /\ pc[u] = "reserve" /\ step' \in [Users -> Nat] /\ Enters("throttle")
        /\ UNCHANGED <<main, next, wg, cancelled, atCancel, held, results>>
    BY <1>1, <1>9 DEF ReserveWait, ReserveLimited, PCs
  <2>. QED BY <2>1, Move DEF Between, Holding
<1>10. CASE ReserveRefused(u)
  <2>1. /\ pc[u] = "reserve" /\ step' \in [Users -> Nat] /\ Enters("answer")
        /\ UNCHANGED <<main, next, wg, cancelled, atCancel, held, results>>
    BY <1>1, <1>10 DEF ReserveRefused, ReserveKilled, PCs
  <2>. QED BY <2>1, Move DEF Between, Holding
<1>11. CASE Throttle(u)
  <2>1. /\ pc[u] = "throttle" /\ step' \in [Users -> Nat]
        /\ UNCHANGED <<main, next, wg, cancelled, atCancel, held, results>>
    BY <1>1, <1>11 DEF Throttle
  <2>2. PICK x \in {"reserve", "answer"} : Enters(x)
    BY <1>11 DEF Throttle, PCs
  <2>. QED BY <2>1, <2>2, Move DEF Between, Holding
<1>12. CASE \E r \in Responses \ {"none"} : SendReturns(u, r)
  <2>1. /\ pc[u] = "sending" /\ step' \in [Users -> Nat] /\ Enters("report")
        /\ UNCHANGED <<main, next, wg, cancelled, atCancel, held, results>>
    BY <1>1, <1>12 DEF SendReturns, PCs
  <2>. QED BY <2>1, Move DEF Between, Holding
<1>13. CASE Report(u)
  <2>1. /\ pc[u] = "report" /\ step' \in [Users -> Nat] /\ Enters("release")
        /\ UNCHANGED <<main, next, wg, cancelled, atCancel, held, results>>
    BY <1>1, <1>13 DEF Report, ReportOutcome, bucketVars, PCs
  <2>. QED BY <2>1, Move DEF Between, Holding
<1>14. CASE SendRelease(u)
  <2>1. /\ pc[u] = "release" /\ step' \in [Users -> Nat] /\ Enters("answer")
        /\ UNCHANGED <<main, next, wg, cancelled, atCancel, results>>
        /\ held' = held \ {u}
    BY <1>1, <1>14 DEF SendRelease, Release, PCs
  <2>. QED BY <2>1, Move DEF Between, Holding
<1>15. CASE Refresh(u) \/ RefreshRetry(u) \/ RefreshFails(u)
  <2>1. /\ pc[u] \in {"answer", "refresh"} /\ step' \in [Users -> Nat]
        /\ UNCHANGED <<main, next, wg, cancelled, atCancel, held, results>>
    BY <1>1, <1>15 DEF Refresh, RefreshRetry, RefreshFails
  <2>2. PICK x \in {"refresh", "allow", "answer"} : Enters(x)
    BY <1>15 DEF Refresh, RefreshRetry, RefreshFails, PCs
  <2>. QED BY <2>1, <2>2, Move DEF Between, Holding
<1>16. CASE Emit(u)
  <2>1. /\ pc[u] = "answer" /\ step' \in [Users -> Nat] /\ Enters("step")
        /\ step[u] + 1 \in Nat
        /\ results' = [results EXCEPT ![u] = Append(@, step[u] + 1)]
        /\ UNCHANGED <<main, next, wg, cancelled, atCancel, held>>
    BY <1>1, <1>16 DEF Emit, PCs
  <2>. QED BY <2>1, Move DEF Between, Holding
<1>17. CASE Unslot(u)
  <2>1. /\ pc[u] = "unslot" /\ step' \in [Users -> Nat] /\ Enters("finish")
        /\ UNCHANGED <<main, next, wg, cancelled, atCancel, held, results>>
    BY <1>1, <1>17 DEF Unslot, PCs
  <2>. QED BY <2>1, Move DEF Between, Holding
<1>18. CASE Finish(u)
  <2>1. /\ pc[u] = "finish" /\ step' \in [Users -> Nat]
        /\ pc' = [pc EXCEPT ![u] = "gone"] /\ "gone" \in PCs
        /\ UNCHANGED <<main, next, cancelled, atCancel, held, results>>
        /\ wg' = wg - 1
    BY <1>1, <1>18 DEF Finish, PCs
  <2>2. SlotInv' /\ PromptInv'
    BY <2>1, MoveSlot, MovePrompt DEF RunInv, Between, Holding
  <2>3. WaitInv'
    <3>1. Live' = Live \ {u} /\ u \in Live
      BY <1>1, <2>1 DEF Live
    <3>2. IsFiniteSet(Live)
      BY CallersAssumption, UsersAssumption, FS_Subset DEF Live
    <3>3. Cardinality(Live \ {u}) = Cardinality(Live) - 1
      BY <3>1, <3>2, FS_RemoveElement
    <3>. QED BY <2>1, <3>1, <3>3 DEF RunInv, WaitInv
  <2>. QED BY <2>2, <2>3 DEF RunInv
<1>. QED BY <1>2, <1>3, <1>4, <1>5, <1>6, <1>7, <1>8, <1>9, <1>10, <1>11, <1>12, <1>13,
            <1>14, <1>15, <1>16, <1>17, <1>18 DEF Session

----------------------------------------------------------------------------
(* Steps of Run, of the context and of the guard *)

LEMMA LiveFinite == IsFiniteSet(Live)
  BY CallersAssumption, UsersAssumption, FS_Subset DEF Live

LEMMA LaunchInv ==
    ASSUME RunInv, Launch
    PROVE  RunInv'
<1>1. /\ next \in Users /\ pc[next] = "idle" /\ pc \in [Users -> PCs] /\ next \in Nat
      /\ pc' = [pc EXCEPT ![next] = "walk"] /\ next' = next + 1 /\ main' = "loop"
      /\ wg' = wg + 1 /\ UNCHANGED <<held, cancelled, results, atCancel, step>>
  <2>1. main = "acquire" /\ next \in Nat /\ next <= NumUsers
    BY DEF RunInv, SlotInv, Launch
  <2>2. next \in Users
    <3>1. next # 0
      BY DEF RunInv, SlotInv
    <3>. QED BY <2>1, <3>1, UsersAssumption DEF Users
  <2>3. pc[next] = "idle" /\ pc \in [Users -> PCs]
    BY <2>1, <2>2 DEF RunInv, SlotInv
  <2>. QED BY <2>1, <2>2, <2>3 DEF Launch, Goto, guardVars
<1>2. "walk" \in PCs /\ "walk" \notin Holding /\ "idle" \notin Holding
  BY DEF PCs, Holding
<1>3. SlotInv'
  <2>1. pc' \in [Users -> PCs] /\ next' \in Nat
    BY <1>1, <1>2
  <2>2. \A u \in Users : u >= next' => pc'[u] = "idle"
    BY <1>1, UsersAssumption DEF RunInv, SlotInv, Users
  <2>3. HeldBySenders'
    BY <1>1, <1>2 DEF RunInv, SlotInv, HeldBySenders
  <2>. QED BY <1>1, <2>1, <2>2, <2>3 DEF SlotInv
<1>4. WaitInv'
  <2>1. Live' = Live \cup {next} /\ next \notin Live
    BY <1>1 DEF Live
  <2>2. Cardinality(Live \cup {next}) = Cardinality(Live) + 1
    BY <2>1, LiveFinite, FS_AddElement
  <2>. QED BY <1>1, <2>1, <2>2 DEF RunInv, WaitInv
<1>5. PromptInv'
  <2>1. \A u \in Users : pc'[u] \in Between <=> pc[u] \in Between
    BY <1>1 DEF Between
  <2>. QED BY <1>1, <2>1 DEF RunInv, PromptInv
<1>. QED BY <1>3, <1>4, <1>5 DEF RunInv

LEMMA CancelInv ==
    ASSUME RunInv, Cancel
    PROVE  RunInv'
<1>1. SlotInv' /\ WaitInv'
  BY DEF RunInv, SlotInv, WaitInv, HeldBySenders, Live, Cancel, guardVars
<1>2. PromptInv'
  <2>1. /\ step \in [Users -> Nat] /\ results \in [Users -> Seq(Nat)]
        /\ UNCHANGED <<step, results, pc>> /\ atCancel' = [u \in Users |-> Len(results[u])]
    BY DEF RunInv, PromptInv, Cancel
  <2>2. \A u \in Users : Len(results[u]) \in Nat
    BY <2>1
  <2>. QED BY <2>1, <2>2 DEF PromptInv
<1>. QED BY <1>1, <1>2 DEF RunInv

LEMMA RunNext == RunInv /\ [Next]_vars => RunInv'
<1>. SUFFICES ASSUME RunInv, [Next]_vars PROVE RunInv'
  OBVIOUS
<1>1. CASE LaunchCheck
  <2>1. /\ UNCHANGED <<pc, next, wg, held, cancelled, results, atCancel, step>>
        /\ main' = IF next > NumUsers \/ cancelled THEN "wait" ELSE "acquire"
    BY <1>1 DEF LaunchCheck, guardVars
  <2>2. SlotInv'
    BY <2>1, UsersAssumption DEF RunInv, SlotInv, HeldBySenders
  <2>3. WaitInv' /\ PromptInv'
    BY <2>1 DEF RunInv, WaitInv, PromptInv, Live
  <2>. QED BY <2>2, <2>3 DEF RunInv
<1>2. CASE Launch
  BY <1>2, LaunchInv
<1>3. CASE RunReturn
  <2>1. /\ UNCHANGED <<pc, next, wg, held, cancelled, results, atCancel, step>>
        /\ main' = "returned" /\ wg = 0
    BY <1>3 DEF RunReturn, guardVars
  <2>2. SlotInv' /\ PromptInv'
    BY <2>1 DEF RunInv, SlotInv, PromptInv, HeldBySenders
  <2>3. Live = {}
    BY <2>1, LiveFinite, FS_EmptySet DEF RunInv, WaitInv
  <2>4. WaitInv'
    BY <2>1, <2>3 DEF RunInv, WaitInv, Live
  <2>. QED BY <2>2, <2>4 DEF RunInv
<1>4. CASE \E u \in Users : Session(u)
  BY <1>4, SessionInv
<1>5. CASE Cancel
  BY <1>5, CancelInv
<1>6. CASE OperatorKill \/ ClockTick \/ UNCHANGED vars
  <2>1. UNCHANGED <<runVars, held>>
    BY <1>6 DEF OperatorKill, ClockTick, Kill, Tick, vars, guardVars, bucketVars
  <2>. QED BY <2>1 DEF runVars, RunInv, SlotInv, WaitInv, PromptInv, HeldBySenders, Live
<1>. QED BY <1>1, <1>2, <1>3, <1>4, <1>5, <1>6 DEF Next

\* The inductive invariant of Run and its sessions: who is in send holds a slot, the wait
\* group counts the live goroutines, a cancelled session is at most one result further.
THEOREM RunInvariance == Spec => []RunInv
  BY RunInit, RunNext, PTL DEF Spec

\* Every step of the runner is a step of the guard among disciplined callers: send
\* reserves only when it holds nothing and releases exactly what it reserved.
LEMMA GuardStep == RunInv /\ [Next]_vars => [GuardNext]_guardVars
<1>. SUFFICES ASSUME RunInv, [Next]_vars PROVE [GuardNext]_guardVars
  OBVIOUS
<1>1. held = {v \in Users : pc[v] \in Holding} /\ Callers = Users
  BY UsersAssumption DEF RunInv, SlotInv, HeldBySenders
<1>2. ASSUME NEW u \in Users, Session(u)
      PROVE  [GuardNext]_guardVars
  <2>1. CASE Reserve(u)
    <3>1. u \in Callers \ held /\ ReserveGranted(u)
      BY <1>1, <2>1 DEF Reserve, Holding
    <3>. QED BY <3>1 DEF GuardNext
  <2>2. CASE SendRelease(u)
    <3>1. u \in held /\ Release(u)
      BY <1>1, <2>2 DEF SendRelease, Holding
    <3>. QED BY <3>1 DEF GuardNext
  <2>3. CASE ReserveWait(u)
    BY <2>3 DEF ReserveWait, GuardNext
  <2>4. CASE Report(u)
    <3>1. PICK ok \in BOOLEAN : ReportOutcome(ok)
      <4>. DEFINE ok == resp[u] \notin {"error", "server"}
      <4>1. ok \in BOOLEAN /\ ReportOutcome(ok)
        BY <2>4 DEF Report
      <4>. QED BY <4>1
    <3>. QED BY <3>1 DEF GuardNext
  <2>5. CASE ReserveRefused(u)
    BY <2>5 DEF ReserveRefused, ReserveKilled
  <2>6. CASE ~(Reserve(u) \/ SendRelease(u) \/ ReserveWait(u) \/ Report(u) \/ ReserveRefused(u))
    BY <1>2, <2>6 DEF Session, WalkFails, Walk, NextNode, Think, Render, SendAllow, Throttle,
                      SendReturns, Refresh, RefreshRetry, RefreshFails, Emit, Unslot, Finish
  <2>. QED BY <2>1, <2>2, <2>3, <2>4, <2>5, <2>6
<1>3. CASE LaunchCheck \/ Launch \/ RunReturn \/ Cancel \/ UNCHANGED vars
  BY <1>3 DEF LaunchCheck, Launch, RunReturn, Cancel, vars
<1>4. CASE OperatorKill \/ ClockTick
  BY <1>4 DEF OperatorKill, ClockTick, GuardNext
<1>. QED BY <1>2, <1>3, <1>4 DEF Next

\* The load runner implements the guard's specification: with any number of
\* sessions, kills, cancellations, throttling and retries, no reservation leaks and
\* none is released twice (send and reserve).
THEOREM RunnerUsesGuard == Spec => GuardSpec
<1>1. Init => GuardInit
  BY DEF Init
<1>. QED BY <1>1, GuardStep, RunInvariance, PTL DEF Spec, GuardSpec

\* So a run never exceeds its rate cap over any window of its requests.
THEOREM RunRateBounded == Spec => []RateWindow
  BY RunnerUsesGuard, RateBounded, PTL

\* A cancelled session emits at most the result of the step it was in.
THEOREM StopsPromptly == Spec => []PromptStop
<1>1. RunInv => PromptStop
  <2>. SUFFICES ASSUME RunInv, cancelled, NEW u \in Users
                PROVE  Len(results[u]) <= atCancel[u] + 1
    BY DEF PromptStop
  <2>1. Len(results[u]) \in Nat /\ atCancel[u] \in Nat
        /\ Len(results[u]) <= atCancel[u] + (IF pc[u] \in Between THEN 1 ELSE 0)
    BY DEF RunInv, PromptInv
  <2>. QED BY <2>1
<1>. QED BY <1>1, RunInvariance, PTL

\* Run returns only when its sessions are gone and no request is in flight.
THEOREM ReturnsQuiescent == Spec => []ReturnQuiescent
<1>1. RunInv /\ InFlightExact => ReturnQuiescent
  <2>. SUFFICES ASSUME RunInv, InFlightExact, main = "returned"
                PROVE  (\A u \in Users : pc[u] \in {"idle", "gone"}) /\ inFlight = 0
    BY DEF ReturnQuiescent
  <2>1. \A u \in Users : pc[u] \in {"idle", "gone"}
    BY DEF RunInv, WaitInv, Live
  <2>2. held = {}
    BY <2>1 DEF RunInv, SlotInv, HeldBySenders, Holding
  <2>. QED BY <2>1, <2>2, FS_EmptySet DEF InFlightExact
<1>. QED BY <1>1, RunInvariance, RunnerUsesGuard, SlotsExact, PTL

----------------------------------------------------------------------------
(* What a session hands to the sink *)

\* The requesting nodes among the first n of a walk.
Due(p, n) == {i \in 1 .. n : p[i] # "pure"}

\* The results r are exactly those of the steps in S, in order.
InOrder(r, S) ==
    /\ {r[k] : k \in DOMAIN r} = S
    /\ \A k, l \in DOMAIN r : k < l => r[k] < r[l]

\* A pure node adds nothing.
LEMMA DuePure ==
    ASSUME NEW p, NEW n \in Nat, p[n + 1] = "pure"
    PROVE  Due(p, n + 1) = Due(p, n)
<1>1. 1 .. n + 1 = (1 .. n) \cup {n + 1}
  OBVIOUS
<1>. QED BY <1>1, Zenon DEF Due

\* A requesting node adds itself, after all the others.
LEMMA DueNode ==
    ASSUME NEW p, NEW n \in Nat, p[n + 1] # "pure",
           NEW r \in Seq(Nat), InOrder(r, Due(p, n))
    PROVE  InOrder(Append(r, n + 1), Due(p, n + 1))
<1>. DEFINE t == Append(r, n + 1)
            m == Len(r)
<1>1. /\ m \in Nat /\ DOMAIN r = 1 .. m /\ t \in Seq(Nat) /\ DOMAIN t = 1 .. m + 1
      /\ \A k \in 1 .. m : t[k] = r[k] /\ r[k] \in Nat
      /\ t[m + 1] = n + 1
  OBVIOUS
<1>2. 1 .. n + 1 = (1 .. n) \cup {n + 1} /\ 1 .. m + 1 = (1 .. m) \cup {m + 1}
  BY <1>1
<1>. HIDE DEF t, m
<1>3. \A k \in 1 .. m : r[k] \in Due(p, n)
  BY <1>1 DEF InOrder
<1>4. \A k \in 1 .. m : r[k] <= n
  BY <1>3 DEF Due
<1>5. Due(p, n + 1) = Due(p, n) \cup {n + 1}
  BY <1>2, Zenon DEF Due
<1>6. {t[k] : k \in DOMAIN t} = Due(p, n + 1)
  <2>1. \A k \in DOMAIN t : t[k] \in Due(p, n + 1)
    BY <1>1, <1>2, <1>3, <1>5, Zenon
  <2>2. ASSUME NEW i \in Due(p, n + 1) PROVE \E k \in DOMAIN t : t[k] = i
    <3>1. CASE i = n + 1
      <4>1. m + 1 \in DOMAIN t
        BY <1>1
      <4>. QED BY <1>1, <3>1, <4>1
    <3>2. CASE i \in Due(p, n)
      <4>1. PICK k \in DOMAIN r : r[k] = i
        BY <3>2, Zenon DEF InOrder
      <4>. QED BY <1>1, <1>2, <4>1, Zenon
    <3>. QED BY <1>5, <2>2, <3>1, <3>2, Zenon
  <2>. QED BY <2>1, <2>2, Zenon
<1>7. ASSUME NEW k \in DOMAIN t, NEW l \in DOMAIN t, k < l PROVE t[k] < t[l]
  <2>1. k \in 1 .. m /\ t[k] = r[k] /\ r[k] <= n /\ r[k] \in Nat
    BY <1>1, <1>4, <1>7
  <2>2. CASE l \in 1 .. m
    BY <1>1, <1>7, <2>1, <2>2 DEF InOrder
  <2>3. CASE l = m + 1
    BY <1>1, <2>1, <2>3
  <2>. QED BY <1>1, <1>2, <2>2, <2>3
<1>. QED BY <1>6, <1>7, Zenon DEF InOrder, t

\* The journey of one session, and its results.
Exact(u) == InOrder(results[u], Due(path[u], step[u])) \/ (results[u] = << 0 >> /\ path[u] = <<>>)

LEMMA ExactDef == OneResultPerStep <=> \A u \in Users : Exact(u)
  BY Zenon DEF OneResultPerStep, Exact, InOrder, Due, Behind

\* A step of one session leaves the others where they are.
LEMMA JourneyFrame ==
    ASSUME RunInv, JourneyInv, NEW u \in Users, NEW x \in PCs, NEW w \in Seq(NodeKinds),
           NEW n \in Nat, NEW r \in Seq(Nat), cancelled' = cancelled,
           pc' = [pc EXCEPT ![u] = x], path' = [path EXCEPT ![u] = w],
           step' = [step EXCEPT ![u] = n], results' = [results EXCEPT ![u] = r],
           n \in 0 .. Len(w), x \in {"idle", "walk"} => w = <<>> /\ r = <<>>,
           x \in InStep => n < Len(w) /\ w[n + 1] # "pure",
           x \in Over => n = Len(w) \/ cancelled,
           InOrder(r, Due(w, n)) \/ (r = << 0 >> /\ w = <<>>)
    PROVE  JourneyInv'
<1>1. /\ pc \in [Users -> PCs] /\ path \in [Users -> Seq(NodeKinds)]
      /\ step \in [Users -> Nat] /\ results \in [Users -> Seq(Nat)]
  BY DEF RunInv, SlotInv, PromptInv, JourneyInv
<1>2. /\ pc'[u] = x /\ path'[u] = w /\ step'[u] = n /\ results'[u] = r
      /\ \A v \in Users \ {u} : /\ pc'[v] = pc[v] /\ path'[v] = path[v]
                                /\ step'[v] = step[v] /\ results'[v] = results[v]
  BY <1>1, Zenon
<1>3. ASSUME NEW v \in Users PROVE OnWalk(v)' /\ Exact(v)'
  <2>1. CASE v = u
    BY <1>2, <2>1, Zenon DEF OnWalk, Node, Exact
  <2>2. CASE v # u
    <3>1. OnWalk(v) /\ Exact(v)
      BY ExactDef, Zenon DEF JourneyInv
    <3>. QED BY <1>2, <2>2, <3>1, Zenon DEF OnWalk, Node, Exact
  <2>. QED BY <2>1, <2>2
<1>4. OneResultPerStep'
  BY <1>3, Zenon DEF OneResultPerStep, Exact, InOrder, Due, Behind
<1>5. path' \in [Users -> Seq(NodeKinds)]
  BY <1>1, Zenon
<1>. QED BY <1>3, <1>4, <1>5, Zenon DEF JourneyInv

\* A session moves without finishing a step.
LEMMA JourneyMove ==
    ASSUME RunInv, JourneyInv, NEW u \in Users, NEW x \in PCs \ {"idle", "walk"},
           pc' = [pc EXCEPT ![u] = x], UNCHANGED <<cancelled, path, step, results>>,
           x \in InStep => step[u] < Len(path[u]) /\ Node(u) # "pure",
           x \in Over => step[u] = Len(path[u]) \/ cancelled
    PROVE  JourneyInv'
<1>1. /\ path[u] \in Seq(NodeKinds) /\ step[u] \in Nat /\ results[u] \in Seq(Nat)
      /\ step[u] \in 0 .. Len(path[u])
      /\ InOrder(results[u], Due(path[u], step[u])) \/ (results[u] = << 0 >> /\ path[u] = <<>>)
  BY ExactDef DEF RunInv, PromptInv, JourneyInv, OnWalk, Exact
<1>2. /\ path' = [path EXCEPT ![u] = path[u]] /\ step' = [step EXCEPT ![u] = step[u]]
      /\ results' = [results EXCEPT ![u] = results[u]]
  BY DEF RunInv, PromptInv, JourneyInv
<1>3. x \in PCs /\ x \notin {"idle", "walk"} /\ cancelled' = cancelled
  OBVIOUS
<1>. QED BY <1>1, <1>2, <1>3, JourneyFrame DEF Node

\* A session passes a node, with a result unless it is a pure one.
LEMMA JourneyNext ==
    ASSUME RunInv, JourneyInv, NEW u \in Users, step[u] < Len(path[u]),
           pc' = [pc EXCEPT ![u] = "step"], UNCHANGED <<cancelled, path>>,
           step' = [step EXCEPT ![u] = @ + 1],
           results' = IF Node(u) = "pure" THEN results
                      ELSE [results EXCEPT ![u] = Append(@, step[u] + 1)]
    PROVE  JourneyInv'
<1>. DEFINE n == step[u]
            w == path[u]
            r == results[u]
            t == IF w[n + 1] = "pure" THEN r ELSE Append(r, n + 1)
<1>1. /\ w \in Seq(NodeKinds) /\ n \in Nat /\ r \in Seq(Nat) /\ n \in 0 .. Len(w)
      /\ InOrder(r, Due(w, n)) \/ (r = << 0 >> /\ w = <<>>)
      /\ step \in [Users -> Nat] /\ results \in [Users -> Seq(Nat)]
      /\ path \in [Users -> Seq(NodeKinds)]
  BY ExactDef DEF RunInv, PromptInv, JourneyInv, OnWalk, Exact
<1>2. w # <<>> /\ n + 1 \in Nat /\ n + 1 \in 0 .. Len(w) /\ Len(w) \in Nat
  <2>1. Len(w) \in Nat /\ (w = <<>> => Len(w) = 0)
    BY <1>1
  <2>. QED BY <1>1, <2>1
<1>3. InOrder(r, Due(w, n))
  BY <1>1, <1>2, Zenon
<1>4. InOrder(t, Due(w, n + 1)) /\ t \in Seq(Nat)
  <2>1. CASE w[n + 1] = "pure"
    BY <1>1, <1>3, <2>1, DuePure
  <2>2. CASE w[n + 1] # "pure"
    <3>1. Append(r, n + 1) \in Seq(Nat)
      BY <1>1, <1>2, AppendProperties
    <3>. QED BY <1>1, <1>3, <2>2, <3>1, DueNode
  <2>. QED BY <2>1, <2>2
<1>5. /\ path' = [path EXCEPT ![u] = w] /\ step' = [step EXCEPT ![u] = n + 1]
      /\ results' = [results EXCEPT ![u] = t] /\ cancelled' = cancelled
  BY <1>1 DEF Node
<1>6. "step" \in PCs /\ "step" \notin {"idle", "walk"} /\ "step" \notin InStep /\ "step" \notin Over
  BY DEF PCs, InStep, Over
<1>. HIDE DEF n, w, r, t
<1>. QED BY <1>1, <1>2, <1>4, <1>5, <1>6, JourneyFrame

LEMMA JourneySession ==
    ASSUME RunInv, JourneyInv, NEW u \in Users, Session(u)
    PROVE  JourneyInv'
<1>. USE DEF Goto, localVars, EmitStep
<1>0. /\ path[u] \in Seq(NodeKinds) /\ step[u] \in Nat /\ Len(path[u]) \in Nat
      /\ results[u] \in Seq(Nat) /\ OnWalk(u)
      /\ step \in [Users -> Nat] /\ results \in [Users -> Seq(Nat)]
      /\ path \in [Users -> Seq(NodeKinds)]
  BY DEF RunInv, PromptInv, JourneyInv
<1>1. CASE WalkFails(u)
  <2>1. path[u] = <<>> /\ results[u] = <<>> /\ step[u] = 0
    BY <1>0, <1>1 DEF WalkFails, OnWalk
  <2>2. Append(results[u], 0) = << 0 >> /\ << 0 >> \in Seq(Nat) /\ <<>> \in Seq(NodeKinds)
        /\ 0 \in 0 .. Len(<<>>)
    BY <2>1
  <2>3. /\ pc' = [pc EXCEPT ![u] = "unslot"] /\ path' = [path EXCEPT ![u] = <<>>]
        /\ step' = [step EXCEPT ![u] = 0] /\ results' = [results EXCEPT ![u] = << 0 >>]
        /\ cancelled' = cancelled
    BY <1>0, <1>1, <2>1, <2>2 DEF WalkFails
  <2>4. "unslot" \in PCs /\ "unslot" \notin {"idle", "walk"} /\ "unslot" \notin InStep
        /\ Len(<<>>) = 0
    BY DEF PCs, InStep
  <2>. QED BY <2>2, <2>3, <2>4, JourneyFrame
<1>2. CASE \E w \in Walks : Walk(u, w)
  <2>1. PICK w \in Walks : Walk(u, w)
    BY <1>2
  <2>2. results[u] = <<>> /\ step[u] = 0 /\ w \in Seq(NodeKinds) /\ Len(w) \in Nat
    BY <1>0, <2>1, WalksAssumption DEF Walk, OnWalk
  <2>3. /\ pc' = [pc EXCEPT ![u] = "step"] /\ path' = [path EXCEPT ![u] = w]
        /\ step' = [step EXCEPT ![u] = 0] /\ results' = [results EXCEPT ![u] = <<>>]
        /\ cancelled' = cancelled
    BY <1>0, <2>1, <2>2 DEF Walk
  <2>4. InOrder(<<>>, Due(w, 0)) /\ <<>> \in Seq(Nat) /\ 0 \in 0 .. Len(w)
    BY <2>2 DEF InOrder, Due
  <2>5. "step" \in PCs /\ "step" \notin {"idle", "walk"} /\ "step" \notin InStep /\ "step" \notin Over
    BY DEF PCs, InStep, Over
  <2>6. 0 \in Nat /\ cancelled' = cancelled
    BY <2>1 DEF Walk
  <2>. QED BY <2>2, <2>3, <2>4, <2>5, <2>6, JourneyFrame
<1>3. CASE NextNode(u)
  <2>1. UNCHANGED <<cancelled, path, results>> /\ pc[u] = "step" /\ step[u] <= Len(path[u])
    BY <1>0, <1>3 DEF NextNode, OnWalk
  <2>2. CASE step[u] = Len(path[u]) \/ cancelled
    <3>1. pc' = [pc EXCEPT ![u] = "unslot"] /\ step' = step
      BY <1>3, <2>2 DEF NextNode
    <3>2. "unslot" \in PCs \ {"idle", "walk"} /\ "unslot" \notin InStep
      BY DEF PCs, InStep
    <3>. QED BY <2>1, <2>2, <3>1, <3>2, JourneyMove
  <2>3. CASE ~(step[u] = Len(path[u]) \/ cancelled) /\ Node(u) = "pure"
    <3>1. step[u] < Len(path[u])
      BY <1>0, <2>1, <2>3
    <3>2. pc' = [pc EXCEPT ![u] = "step"] /\ step' = [step EXCEPT ![u] = @ + 1]
      BY <1>3, <2>1, <2>3 DEF NextNode, RunInv, SlotInv
    <3>. QED BY <2>1, <2>3, <3>1, <3>2, JourneyNext
  <2>4. CASE ~(step[u] = Len(path[u]) \/ cancelled) /\ Node(u) # "pure"
    <3>1. PICK x \in {"think", "render"} : pc' = [pc EXCEPT ![u] = x] /\ step' = step
      BY <1>3, <2>4 DEF NextNode
    <3>2. x \in PCs \ {"idle", "walk"} /\ x \notin Over
      BY DEF PCs, Over
    <3>3. step[u] < Len(path[u])
      BY <1>0, <2>1, <2>4
    <3>. QED BY <2>1, <2>4, <3>1, <3>2, <3>3, JourneyMove
  <2>. QED BY <2>2, <2>3, <2>4
<1>4. CASE pc[u] \in InStep
  <2>0. step[u] < Len(path[u]) /\ Node(u) # "pure"
    BY <1>0, <1>4 DEF OnWalk
  <2>1. CASE Think(u)
    <3>1. PICK x \in {"render", "unslot"} :
              pc' = [pc EXCEPT ![u] = x] /\ (x = "unslot" => cancelled)
      BY <2>1 DEF Think
    <3>2. x \in PCs \ {"idle", "walk"} /\ UNCHANGED <<cancelled, path, step, results>>
          /\ (x \in Over => cancelled)
      BY <2>1, <3>1 DEF Think, PCs, Over
    <3>. QED BY <2>0, <3>1, <3>2, JourneyMove
  <2>2. CASE \/ Render(u) /\ Node(u) = "bad"
             \/ Emit(u)
    <3>1. /\ pc' = [pc EXCEPT ![u] = "step"] /\ step' = [step EXCEPT ![u] = @ + 1]
          /\ results' = [results EXCEPT ![u] = Append(@, step[u] + 1)]
          /\ UNCHANGED <<cancelled, path>>
      BY <2>2 DEF Render, Emit
    <3>. QED BY <2>0, <3>1, JourneyNext
  <2>3. CASE \/ Render(u) /\ Node(u) # "bad"
             \/ SendAllow(u) \/ Reserve(u) \/ ReserveWait(u) \/ ReserveRefused(u) \/ Throttle(u)
             \/ \E r \in Responses \ {"none"} : SendReturns(u, r)
             \/ Report(u) \/ SendRelease(u)
             \/ Refresh(u) \/ RefreshRetry(u) \/ RefreshFails(u)
    <3>1. UNCHANGED <<cancelled, path, step, results>>
      BY <2>3 DEF Render, SendAllow, Reserve, ReserveWait, ReserveRefused, Throttle, SendReturns,
                  Report, SendRelease, Refresh, RefreshRetry, RefreshFails
    <3>2. PICK x \in InStep : pc' = [pc EXCEPT ![u] = x]
      BY <2>3 DEF Render, SendAllow, Reserve, ReserveWait, ReserveRefused, Throttle, SendReturns,
                  Report, SendRelease, Refresh, RefreshRetry, RefreshFails, InStep
    <3>3. x \in PCs \ {"idle", "walk"} /\ x \notin Over
      BY <3>2 DEF InStep, PCs, Over
    <3>. QED BY <2>0, <3>1, <3>2, <3>3, JourneyMove
  <2>. QED BY <1>4, <2>1, <2>2, <2>3
           DEF Session, WalkFails, Walk, NextNode, Unslot, Finish, InStep
<1>5. CASE Unslot(u) \/ Finish(u)
  <2>1. PICK x \in {"finish", "gone"} : pc' = [pc EXCEPT ![u] = x]
    BY <1>5 DEF Unslot, Finish
  <2>2. x \in PCs \ {"idle", "walk"} /\ x \notin InStep
    BY DEF PCs, InStep
  <2>3. step[u] = Len(path[u]) \/ cancelled
    BY <1>0, <1>5 DEF Unslot, Finish, OnWalk, Over
  <2>4. UNCHANGED <<cancelled, path, step, results>>
    BY <1>5 DEF Unslot, Finish
  <2>. QED BY <2>1, <2>2, <2>3, <2>4, JourneyMove
<1>. QED BY <1>1, <1>2, <1>3, <1>4, <1>5
         DEF Session, Think, Render, SendAllow, Reserve, ReserveWait, ReserveRefused, Throttle,
             SendReturns, Report, SendRelease, Refresh, RefreshRetry, RefreshFails, Emit, InStep

LEMMA JourneyStep ==
    ASSUME RunInv, JourneyInv, [Next]_vars
    PROVE  JourneyInv'
<1>1. CASE \E u \in Users : Session(u)
  BY <1>1, JourneySession
<1>2. CASE Launch
  <2>0. /\ next \in Users /\ pc[next] = "idle" /\ pc \in [Users -> PCs]
        /\ pc' = [pc EXCEPT ![next] = "walk"]
        /\ UNCHANGED <<cancelled, path, step, results>>
    BY <1>2, UsersAssumption DEF Launch, Goto, RunInv, SlotInv, Users
  <2>1. ASSUME NEW v \in Users PROVE OnWalk(v)'
    <3>1. OnWalk(v)
      BY DEF JourneyInv
    <3>2. CASE v = next
      BY <2>0, <3>1, <3>2 DEF OnWalk, InStep, Over
    <3>3. CASE v # next
      BY <2>0, <3>1, <3>3, Zenon DEF OnWalk, Node
    <3>. QED BY <3>2, <3>3
  <2>2. OneResultPerStep' /\ path' \in [Users -> Seq(NodeKinds)]
    BY <2>0 DEF JourneyInv, OneResultPerStep, Behind
  <2>. QED BY <2>1, <2>2 DEF JourneyInv
<1>3. CASE LaunchCheck \/ RunReturn \/ Cancel \/ OperatorKill \/ ClockTick \/ UNCHANGED vars
  <2>1. UNCHANGED <<pc, path, step, results>> /\ (cancelled => cancelled')
    BY <1>3 DEF LaunchCheck, RunReturn, Cancel, OperatorKill, ClockTick, vars, runVars
  <2>2. OneResultPerStep' /\ path' \in [Users -> Seq(NodeKinds)]
    BY <2>1 DEF JourneyInv, OneResultPerStep, Behind
  <2>3. \A v \in Users : OnWalk(v)'
    BY <2>1, Zenon DEF JourneyInv, OnWalk, Node
  <2>. QED BY <2>2, <2>3 DEF JourneyInv
<1>. QED BY <1>1, <1>2, <1>3 DEF Next

\* No session is launched twice or left out, unless the run is cancelled.
LEMMA LaunchedStep ==
    ASSUME RunInv, LaunchedInv, [Next]_vars
    PROVE  LaunchedInv'
<1>1. CASE \E u \in Users : Session(u)
  <2>1. PICK u \in Users : Session(u)
    BY <1>1
  <2>2. PICK x \in PCs \ {"idle"} : pc' = [pc EXCEPT ![u] = x]
    BY <2>1 DEF Session, WalkFails, Walk, NextNode, Think, Render, SendAllow, Reserve, ReserveWait,
                ReserveRefused, Throttle, SendReturns, Report, SendRelease, Refresh, RefreshRetry,
                RefreshFails, Emit, Unslot, Finish, Goto, PCs, RunInv, SlotInv
  <2>3. UNCHANGED <<main, next, cancelled>>
    BY <2>1 DEF Session, WalkFails, Walk, NextNode, Think, Render, SendAllow, Reserve, ReserveWait,
                ReserveRefused, Throttle, SendReturns, Report, SendRelease, Refresh, RefreshRetry,
                RefreshFails, Emit, Unslot, Finish, localVars
  <2>. QED BY <2>2, <2>3 DEF LaunchedInv, RunInv, SlotInv
<1>2. CASE Launch
  <2>1. /\ next \in Users /\ pc \in [Users -> PCs] /\ next \in Nat
        /\ pc' = [pc EXCEPT ![next] = "walk"] /\ next' = next + 1 /\ main' = "loop"
    BY <1>2, UsersAssumption DEF Launch, Goto, RunInv, SlotInv, Users
  <2>. QED BY <2>1 DEF LaunchedInv, Users
<1>3. CASE LaunchCheck \/ RunReturn \/ Cancel \/ OperatorKill \/ ClockTick \/ UNCHANGED vars
  <2>1. /\ UNCHANGED <<pc, next>> /\ (cancelled => cancelled')
        /\ main' \in {"wait", "returned"} =>
             main \in {"wait", "returned"} \/ cancelled \/ next > NumUsers
    BY <1>3 DEF LaunchCheck, RunReturn, Cancel, OperatorKill, ClockTick, vars, runVars, LaunchedInv
  <2>2. main' \in {"wait", "returned"} /\ ~cancelled' => next' > NumUsers
    BY <2>1 DEF LaunchedInv
  <2>. QED BY <2>1, <2>2 DEF LaunchedInv
<1>. QED BY <1>1, <1>2, <1>3 DEF Next

LEMMA InsideFinite == IsFiniteSet(Inside) /\ Cardinality(Inside) \in Nat
  BY CallersAssumption, UsersAssumption, FS_Subset, FS_CardinalityType DEF Inside

\* Every session inside runSession holds one slot of the semaphore.
LEMMA PoolStep ==
    ASSUME RunInv, PoolInv, [Next]_vars
    PROVE  PoolInv'
<1>0. Limit' = Limit /\ Limit \in Nat /\ sem \in Nat /\ sem = Cardinality(Inside) /\ sem <= Limit
  BY InsideFinite, UsersAssumption, SessionsAssumption DEF Limit, PoolInv
<1>1. CASE \E u \in Users : Session(u)
  <2>1. PICK u \in Users : Session(u)
    BY <1>1
  <2>2. CASE Unslot(u)
    <3>1. Inside' = Inside \ {u} /\ u \in Inside /\ sem' = sem - 1
      BY <2>2 DEF Unslot, Goto, Inside, RunInv, SlotInv
    <3>2. Cardinality(Inside \ {u}) = Cardinality(Inside) - 1
      BY <3>1, InsideFinite, FS_RemoveElement
    <3>. QED BY <1>0, <3>1, <3>2 DEF PoolInv
  <2>3. CASE Finish(u)
    <3>1. Inside' = Inside /\ sem' = sem
      BY <2>3 DEF Finish, Goto, Inside, RunInv, SlotInv
    <3>. QED BY <1>0, <3>1 DEF PoolInv
  <2>4. CASE ~(Unslot(u) \/ Finish(u))
    <3>1. PICK x \in PCs \ {"idle", "gone", "finish"} : pc' = [pc EXCEPT ![u] = x]
      BY <2>1, <2>4 DEF Session, WalkFails, Walk, NextNode, Think, Render, SendAllow, Reserve,
                ReserveWait, ReserveRefused, Throttle, SendReturns, Report, SendRelease, Refresh,
                RefreshRetry, RefreshFails, Emit, Goto, PCs, RunInv, SlotInv
    <3>2. sem' = sem /\ pc[u] \notin {"idle", "gone", "finish"}
      BY <2>1, <2>4 DEF Session, WalkFails, Walk, NextNode, Think, Render, SendAllow, Reserve,
                ReserveWait, ReserveRefused, Throttle, SendReturns, Report, SendRelease, Refresh,
                RefreshRetry, RefreshFails, Emit, localVars
    <3>3. Inside' = Inside
      BY <3>1, <3>2 DEF Inside, RunInv, SlotInv
    <3>. QED BY <1>0, <3>2, <3>3 DEF PoolInv
  <2>. QED BY <2>2, <2>3, <2>4
<1>2. CASE Launch
  <2>1. /\ next \in Users /\ pc[next] = "idle" /\ pc \in [Users -> PCs]
        /\ pc' = [pc EXCEPT ![next] = "walk"] /\ sem' = sem + 1 /\ sem < Limit
    BY <1>2, UsersAssumption DEF Launch, Goto, RunInv, SlotInv, Users
  <2>2. Inside' = Inside \cup {next} /\ next \notin Inside
    BY <2>1 DEF Inside
  <2>3. Cardinality(Inside \cup {next}) = Cardinality(Inside) + 1
    BY <2>2, InsideFinite, FS_AddElement
  <2>. QED BY <1>0, <2>1, <2>2, <2>3 DEF PoolInv
<1>3. CASE LaunchCheck \/ RunReturn \/ Cancel \/ OperatorKill \/ ClockTick \/ UNCHANGED vars
  <2>1. UNCHANGED <<pc, sem>>
    BY <1>3 DEF LaunchCheck, RunReturn, Cancel, OperatorKill, ClockTick, vars, runVars
  <2>. QED BY <1>0, <2>1 DEF PoolInv, Inside
<1>. QED BY <1>1, <1>2, <1>3 DEF Next

LEMMA ResultsInit == Init => ResultsInv
<1>. SUFFICES ASSUME Init PROVE ResultsInv
  OBVIOUS
<1>1. JourneyInv
  <2>1. ASSUME NEW u \in Users
        PROVE  OnWalk(u) /\ Exact(u)
    <3>1. path[u] = <<>> /\ results[u] = <<>> /\ step[u] = 0 /\ pc[u] = "idle"
      BY DEF Init
    <3>2. InOrder(<<>>, Due(<<>>, 0)) /\ Len(<<>>) = 0
      BY DEF InOrder, Due
    <3>. QED BY <3>1, <3>2 DEF OnWalk, Exact, InStep, Over
  <2>2. path \in [Users -> Seq(NodeKinds)]
    BY DEF Init
  <2>. QED BY <2>1, <2>2, ExactDef DEF JourneyInv
<1>2. LaunchedInv
  BY DEF Init, LaunchedInv, Users
<1>3. PoolInv
  <2>1. Inside = {} /\ sem = 0
    BY DEF Init, Inside
  <2>2. 0 <= Limit
    BY UsersAssumption, SessionsAssumption DEF Limit
  <2>. QED BY <2>1, <2>2, FS_EmptySet DEF PoolInv
<1>. QED BY <1>1, <1>2, <1>3, RunInit DEF ResultsInv

\* The inductive invariant of the journeys, the launch loop and the semaphore.
THEOREM ResultsInvariance == Spec => []ResultsInv
<1>1. ResultsInv /\ [Next]_vars => ResultsInv'
  BY RunNext, JourneyStep, LaunchedStep, PoolStep DEF ResultsInv
<1>. QED BY <1>1, ResultsInit, PTL DEF Spec

\* Every requesting node of a walk yields one result, in order; a run nobody cancels
\* finishes every walk; the pool bounds the sessions: for every number of users, pool
\* size and set of walks.
THEOREM ResultsAreExact == Spec => []ResultsExact
<1>1. ResultsInv => OneResultPerStep
  BY DEF ResultsInv, JourneyInv
<1>2. ResultsInv => Complete
  <2>. SUFFICES ASSUME ResultsInv, main = "returned", ~cancelled, NEW u \in Users
                PROVE  step[u] = Len(path[u])
    BY DEF Complete
  <2>1. pc[u] \in {"idle", "gone"}
    BY DEF ResultsInv, RunInv, WaitInv, Live
  <2>2. pc[u] # "idle"
    <3>1. u < next
      BY UsersAssumption DEF ResultsInv, LaunchedInv, RunInv, SlotInv, Users
    <3>. QED BY <3>1 DEF ResultsInv, LaunchedInv
  <2>3. OnWalk(u)
    BY DEF ResultsInv, JourneyInv
  <2>. QED BY <2>1, <2>2, <2>3 DEF OnWalk, Over
<1>3. ResultsInv => SessionsBounded
  <2>. SUFFICES ASSUME ResultsInv
                PROVE  /\ Cardinality(Inside) = sem /\ sem <= MaxSessions
                       /\ Cardinality(Live) = wg
    BY Zenon DEF SessionsBounded, Inside, Live
  <2>1. sem \in Nat /\ sem <= Limit /\ sem = Cardinality(Inside)
    BY InsideFinite DEF ResultsInv, PoolInv
  <2>2. Limit <= MaxSessions
    BY UsersAssumption, SessionsAssumption DEF Limit
  <2>3. Limit \in Int /\ MaxSessions \in Int
    BY UsersAssumption, SessionsAssumption DEF Limit
  <2>. QED BY <2>1, <2>2, <2>3 DEF ResultsInv, RunInv, WaitInv
<1>. QED BY <1>1, <1>2, <1>3, ResultsInvariance, PTL DEF ResultsExact
=============================================================================
