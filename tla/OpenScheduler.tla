--------------------------- MODULE OpenScheduler ---------------------------
(***************************************************************************)
(* The open-model scheduler (server/internal/workload/scheduler.go): the   *)
(* sampling loop that thins Poisson candidates to the profile's rate,      *)
(* sheds arrivals when the back-pressure cap is full and skips arrivals it *)
(* cannot authenticate, one goroutine per admitted session, and the result *)
(* computed once the wait group is empty. Rates are those of rate.go.      *)
(*                                                                         *)
(* Time is elapsed ticks of the clock; the gap of one round of the loop    *)
(* stands for its sleep and for the time its other calls take. Rates are   *)
(* integers over the common denominator Den(p).                            *)
(***************************************************************************)
EXTENDS Integers, FiniteSets

CONSTANTS
    Profiles,       \* the arrival profiles of an instance
    Duration,       \* DurationSeconds
    MaxConcurrency, \* the back-pressure cap, 0 for none
    Steps           \* the most results a session can have

\* WorkloadModel.Validate.
ValidProfile(p) ==
    /\ p.shape \in {"constant", "ramp", "spike", "soak"}
    /\ p.start \in Nat /\ p.peak \in Nat /\ p.start + p.peak > 0
    /\ p.shape \in {"ramp", "spike"} => p.peak > 0
    /\ p.ramp \in Int /\ p.hold \in Int

ASSUME ProfilesAssumption == \A p \in Profiles : ValidProfile(p)
ASSUME DurationAssumption == Duration \in Nat \ {0}
ASSUME CapAssumption == MaxConcurrency \in Nat
ASSUME StepsAssumption == Steps \in Nat

\* Every round of the loop takes a tick or more, so no instance has more arrivals.
Arrivals == 1 .. Duration

VARIABLES
    profile,    \* the run's arrival profile
    broken,     \* whether the graph names an unknown template
    auth,       \* whether arrivals acquire a credential
    elapsed,    \* clock.Now() - start
    cancelled,  \* ctx.Err() # nil
    main,       \* where Run stands
    live,       \* the back-pressure gauge
    launched,
    dropped,
    setupErr,
    idx,        \* the index of the latest admitted arrival
    pc,         \* where the session of an arrival stands
    size,       \* the results RunSession returned for it
    recorded,   \* how many of them are in the collector
    failed      \* Run returns an error

vars == <<profile, broken, auth, elapsed, cancelled, main, live, launched, dropped, setupErr,
          idx, pc, size, recorded, failed>>

config == <<profile, broken, auth>>
sessions == <<pc, size, recorded>>
counts == <<live, launched, dropped, setupErr, idx>>

Mains == {"head", "sleep", "sample", "admit", "acquire", "go", "wait", "returned"}
PCs == {"none", "run", "record", "leave", "finish", "gone"}

TypeOK ==
    /\ profile \in Profiles
    /\ {broken, auth, cancelled, failed} \subseteq BOOLEAN
    /\ elapsed \in 0 .. 2 * Duration
    /\ main \in Mains
    /\ live \in 0 .. Duration /\ idx \in 0 .. Duration
    /\ {launched, dropped, setupErr} \subseteq 0 .. Duration
    /\ pc \in [Arrivals -> PCs]
    /\ size \in [Arrivals -> 0 .. Steps]
    /\ recorded \in [Arrivals -> 0 .. Steps]

Init ==
    /\ profile \in Profiles
    /\ broken \in BOOLEAN
    /\ auth \in BOOLEAN
    /\ elapsed = 0
    /\ cancelled = FALSE
    /\ main = "head"
    /\ live = 0 /\ launched = 0 /\ dropped = 0 /\ setupErr = 0 /\ idx = 0
    /\ pc = [a \in Arrivals |-> "none"]
    /\ size = [a \in Arrivals |-> 0]
    /\ recorded = [a \in Arrivals |-> 0]
    /\ failed = FALSE

----------------------------------------------------------------------------
(* rate.go *)

Den(p) == IF p.shape = "ramp" /\ p.ramp > 0 THEN p.ramp ELSE 1

\* The level of a profile given by either of its rates.
Level(p) == IF p.peak = 0 THEN p.start ELSE p.peak

\* NewRateFunc: the rate at t, times Den(p).
RateFunc(p, t) ==
    CASE p.shape = "constant" -> Level(p)
      [] p.shape = "ramp" -> IF p.ramp <= 0 \/ t >= p.ramp THEN p.peak * Den(p)
                             ELSE p.start * p.ramp + (p.peak - p.start) * t
      [] p.shape = "spike" -> IF t >= p.ramp /\ t < p.ramp + p.hold THEN p.peak ELSE p.start
      [] p.shape = "soak" -> IF p.hold > 0 /\ t >= p.hold THEN 0 ELSE Level(p)

\* A ceiling taken from the peak alone.
Mut_PeakRate(p) == p.peak

\* peakRate: the ceiling the candidates are drawn at. A valid profile has a positive one.
PeakRate(p) == IF p.start > p.peak THEN p.start ELSE p.peak

----------------------------------------------------------------------------
(* The sampling loop *)

Head ==
    /\ main = "head"
    /\ main' = IF cancelled THEN "wait" ELSE "sleep"
    /\ UNCHANGED <<config, elapsed, cancelled, counts, sessions, failed>>

\* clock.Sleep: the gap elapses, or the context ends it and the loop.
Sleep(gap) ==
    /\ main = "sleep"
    /\ \/ elapsed' = elapsed + gap /\ main' = "sample"
       \/ cancelled /\ main' = "wait" /\ UNCHANGED elapsed
    /\ UNCHANGED <<config, cancelled, counts, sessions, failed>>

\* The window closes; a candidate in a quiet period is none; any other is kept with
\* probability rate / ceiling, so always when the rate is at the ceiling.
Sample ==
    /\ main = "sample"
    /\ LET r == RateFunc(profile, elapsed)
           ceiling == PeakRate(profile) * Den(profile)
       IN  \/ elapsed >= Duration /\ main' = "wait"
           \/ elapsed < Duration /\ (r <= 0 \/ r < ceiling) /\ main' = "head"
           \/ elapsed < Duration /\ r > 0 /\ main' = "admit"
    /\ UNCHANGED <<config, elapsed, cancelled, counts, sessions, failed>>

\* Back-pressure: shed the arrival when the cap is full.
Shed ==
    /\ main = "admit"
    /\ MaxConcurrency > 0 /\ live >= MaxConcurrency
    /\ dropped' = dropped + 1
    /\ main' = "head"
    /\ UNCHANGED <<config, elapsed, cancelled, live, launched, setupErr, idx, sessions, failed>>

\* Admit it. Only this loop increments live, so a session that leaves between the
\* load and the increment changes nothing.
Admit ==
    /\ main = "admit"
    /\ MaxConcurrency = 0 \/ live < MaxConcurrency
    /\ live' = live + 1
    /\ launched' = launched + 1
    /\ idx' = idx + 1
    /\ main' = IF auth THEN "acquire" ELSE "go"
    /\ UNCHANGED <<config, elapsed, cancelled, dropped, setupErr, sessions, failed>>

\* Auth.Acquire or WireAuth returns a credential.
AcquireOK ==
    /\ main = "acquire"
    /\ main' = "go"
    /\ UNCHANGED <<config, elapsed, cancelled, counts, sessions, failed>>

\* A skipped arrival that keeps its place under the cap.
Mut_AcquireFails ==
    /\ main = "acquire"
    /\ setupErr' = setupErr + 1
    /\ main' = "head"
    /\ UNCHANGED <<config, elapsed, cancelled, live, launched, dropped, idx, sessions, failed>>

\* It fails: the arrival is counted and skipped.
AcquireFails ==
    /\ main = "acquire"
    /\ setupErr' = setupErr + 1
    /\ live' = live - 1
    /\ main' = "head"
    /\ UNCHANGED <<config, elapsed, cancelled, launched, dropped, idx, sessions, failed>>

\* wg.Add(1) and the session's goroutine.
Launch ==
    /\ main = "go"
    /\ pc' = [pc EXCEPT ![idx] = "run"]
    /\ main' = "head"
    /\ UNCHANGED <<config, elapsed, cancelled, counts, size, recorded, failed>>

----------------------------------------------------------------------------
(* A session *)

\* RunSession cannot resolve the graph's templates.
SessionFails(a) ==
    /\ pc[a] = "run"
    /\ broken
    /\ setupErr' = setupErr + 1
    /\ pc' = [pc EXCEPT ![a] = "leave"]
    /\ UNCHANGED <<config, elapsed, cancelled, main, live, launched, dropped, idx, size, recorded,
                   failed>>

\* RunSession returns its results; none when the context ended first, and none on a
\* walk through pure-state nodes.
SessionReturns(a, n) ==
    /\ pc[a] = "run"
    /\ ~broken
    /\ size' = [size EXCEPT ![a] = n]
    /\ pc' = [pc EXCEPT ![a] = "record"]
    /\ UNCHANGED <<config, elapsed, cancelled, main, counts, recorded, failed>>

\* record: the results enter the collector and the aggregator one by one.
Record(a) ==
    /\ pc[a] = "record"
    /\ IF recorded[a] < size[a]
       THEN recorded' = [recorded EXCEPT ![a] = @ + 1] /\ UNCHANGED pc
       ELSE pc' = [pc EXCEPT ![a] = "leave"] /\ UNCHANGED recorded
    /\ UNCHANGED <<config, elapsed, cancelled, main, counts, size, failed>>

\* The deferred decrement of the gauge.
Leave(a) ==
    /\ pc[a] = "leave"
    /\ live' = live - 1
    /\ pc' = [pc EXCEPT ![a] = "finish"]
    /\ UNCHANGED <<config, elapsed, cancelled, main, launched, dropped, setupErr, idx, size,
                   recorded, failed>>

\* A session that signs off only when it could start.
Mut_Finish(a) ==
    /\ pc[a] = "finish"
    /\ ~broken
    /\ pc' = [pc EXCEPT ![a] = "gone"]
    /\ UNCHANGED <<config, elapsed, cancelled, main, counts, size, recorded, failed>>

\* The deferred wg.Done.
Finish(a) ==
    /\ pc[a] = "finish"
    /\ pc' = [pc EXCEPT ![a] = "gone"]
    /\ UNCHANGED <<config, elapsed, cancelled, main, counts, size, recorded, failed>>

----------------------------------------------------------------------------
(* The result *)

\* The wait group's counter is zero.
Drained == \A a \in Arrivals : pc[a] \in {"none", "gone"}

\* The collector's total.
NoObservation == \A a \in Arrivals : recorded[a] = 0

\* A Run that is done when its window is.
Mut_Return ==
    /\ main = "wait"
    /\ failed' = (setupErr > 0 /\ NoObservation)
    /\ main' = "returned"
    /\ UNCHANGED <<config, elapsed, cancelled, counts, sessions>>

\* wg.Wait() passes; setup errors without a single observation fail the run.
Return ==
    /\ main = "wait"
    /\ Drained
    /\ failed' = (setupErr > 0 /\ NoObservation)
    /\ main' = "returned"
    /\ UNCHANGED <<config, elapsed, cancelled, counts, sessions>>

\* The run's context is cancelled.
Cancel ==
    /\ ~cancelled
    /\ main # "returned"
    /\ cancelled' = TRUE
    /\ UNCHANGED <<config, elapsed, main, counts, sessions, failed>>

Loop ==
    \/ Head \/ \E gap \in 1 .. Duration : Sleep(gap)
    \/ Sample \/ Shed \/ Admit \/ AcquireOK \/ AcquireFails \/ Launch \/ Return

Session(a) ==
    \/ SessionFails(a) \/ \E n \in 0 .. Steps : SessionReturns(a, n)
    \/ Record(a) \/ Leave(a) \/ Finish(a)

Next == Loop \/ (\E a \in Arrivals : Session(a)) \/ Cancel

Spec == Init /\ [][Next]_vars

\* Go runs every goroutine that is ready, time passes, and a session ends because its
\* walk is bounded and every request has a timeout.
FairSpec == Spec /\ WF_vars(Loop) /\ \A a \in Arrivals : WF_vars(Session(a))

----------------------------------------------------------------------------
(* Properties *)

\* Sessions that were launched and have not yet given their place back.
Running == {a \in Arrivals : pc[a] \in {"run", "record", "leave"}}

\* The session the loop has admitted and not yet launched or skipped.
Pending == IF main \in {"acquire", "go"} THEN 1 ELSE 0

\* The gauge neither leaks nor double-frees a place, through skipped arrivals and
\* sessions that fail, so the cap means what it says.
LiveExact ==
    /\ live = Cardinality(Running) + Pending
    /\ MaxConcurrency > 0 => live <= MaxConcurrency

\* An arrival is shed only while the cap is full of sessions that really run: load is
\* never lost to places that nobody holds.
ShedHonest ==
    [][dropped' # dropped => Cardinality(Running) = MaxConcurrency]_vars

\* Run returns with every session gone, every one of them accounted for as run or as a
\* setup error, and every result of theirs in the statistics it returns.
ResultComplete ==
    main = "returned" =>
        /\ Drained
        /\ recorded = size
        /\ IF broken THEN launched = setupErr
           ELSE launched = setupErr + Cardinality({a \in Arrivals : pc[a] = "gone"})

\* The thinning is sound: at no time does the profile demand more than the ceiling the
\* candidates are drawn at, so the arrivals follow the profile's rate.
ThinningSound ==
    /\ RateFunc(profile, elapsed) >= 0
    /\ RateFunc(profile, elapsed) <= PeakRate(profile) * Den(profile)

\* The run ends: the window closes or the context does, and the sessions unwind.
RunEnds == <>(main = "returned")

----------------------------------------------------------------------------
(* The inductive invariant behind LiveExact and ResultComplete *)

\* A round of the loop takes a tick and admits one arrival at most, so arrivals are
\* numbered within the window, and the one being admitted has no session yet.
OrderInv ==
    /\ idx \in Nat /\ elapsed \in Nat
    /\ idx <= elapsed
    /\ main \in {"sample", "admit"} => idx < elapsed
    /\ main \in {"admit", "acquire", "go"} => elapsed < Duration
    /\ main \in {"acquire", "go"} => idx > 0 /\ pc[idx] = "none"
    /\ pc \in [Arrivals -> PCs]
    /\ \A a \in Arrivals : a > idx => pc[a] = "none"

\* No result is lost between RunSession and the collector.
RecordInv ==
    /\ size \in [Arrivals -> Nat] /\ recorded \in [Arrivals -> Nat]
    /\ \A a \in Arrivals :
         /\ recorded[a] <= size[a]
         /\ pc[a] # "record" => recorded[a] = size[a]
         /\ pc[a] \in {"none", "run"} => size[a] = 0

\* Every admitted arrival is pending, skipped or launched; with a broken graph those
\* that were launched end as setup errors.
Started == {a \in Arrivals : pc[a] # "none"}
Unresolved == {a \in Arrivals : pc[a] = "run"}

CountInv ==
    /\ setupErr \in Nat /\ launched \in Nat
    /\ ~broken => launched = setupErr + Cardinality(Started) + Pending
    /\ broken => launched = setupErr + Cardinality(Unresolved) + Pending

SchedInv ==
    /\ profile \in Profiles
    /\ OrderInv
    /\ LiveExact
    /\ RecordInv
    /\ CountInv
    /\ main = "returned" => Drained
=============================================================================
