------------------------------- MODULE Guard -------------------------------
(***************************************************************************)
(* The safety guard of one run (server/internal/safety/guard.go): a kill   *)
(* switch, a token bucket of MaxRPS requests per second, a ceiling on      *)
(* requests in flight, and the rolling error window of the auto-kill       *)
(* policy. Each operation is one critical section of g.mu.                 *)
(*                                                                         *)
(* The bucket is a float64 in the code. Here a second is TicksPerSec clock *)
(* ticks and a token is TicksPerSec units, so that a tick earns MaxRPS     *)
(* units and the arithmetic is exact.                                      *)
(*                                                                         *)
(* The specification at the end says how the guard promises to be used:    *)
(* any caller reserves at any time, and releases only what it reserved.    *)
(* Runner.tla shows that the load runner keeps that discipline.            *)
(***************************************************************************)
EXTENDS Integers, Sequences, FiniteSets

CONSTANTS
    Callers,      \* the goroutines that send requests through this guard
    MaxRPS,       \* Config.MaxRPS
    MaxConc,      \* Config.MaxConcurrency
    TicksPerSec,  \* resolution of the clock
    MaxTime,      \* bound: last tick of the clock
    MinSamples,   \* AutoKill.MinSamples; 0 when automatic kill is disabled
    ErrNum,       \* AutoKill.ErrorRateThreshold is ErrNum / ErrDen
    ErrDen

\* NewGuard and NewGuardForEnv refuse every other configuration.
ASSUME CallersAssumption == IsFiniteSet(Callers)
ASSUME RateAssumption == MaxRPS \in Nat \ {0} /\ MaxConc \in Nat \ {0}
ASSUME ClockAssumption == TicksPerSec \in Nat \ {0} /\ MaxTime \in Nat
ASSUME AutoKillAssumption == MinSamples \in Nat /\ ErrNum \in Nat /\ ErrDen \in Nat \ {0}

VARIABLES
    killed,     \* Guard.killed
    reason,     \* Guard.reason: who tripped it
    tokens,     \* Guard.tokens, in units of 1 / TicksPerSec token
    lastFill,   \* Guard.lastFill
    now,        \* the clock g.now reads
    inFlight,   \* Guard.inFlight
    window,     \* Guard.window (TRUE = ok)
    winPos,     \* Guard.winPos
    winFilled,  \* Guard.winFilled
    winErrs,    \* Guard.winErrs
    held,       \* history: the callers whose reservation is not released
    grants,     \* history: the instant of every granted reservation
    recent      \* history: the latest MinSamples outcomes, oldest first

bucketVars == <<tokens, lastFill, inFlight, held, grants>>
windowVars == <<window, winPos, winFilled, winErrs, recent>>
guardVars == <<killed, reason, tokens, lastFill, now, inFlight, window, winPos,
               winFilled, winErrs, held, grants, recent>>

\* One second's worth of rate: the most the bucket holds.
Burst == MaxRPS * TicksPerSec

Slots == 0 .. MinSamples - 1

BucketTypeOK ==
    /\ killed \in BOOLEAN
    /\ reason \in {"", "operator", "auto"}
    /\ tokens \in 0 .. Burst
    /\ lastFill \in 0 .. MaxTime
    /\ now \in lastFill .. MaxTime
    /\ inFlight \in 0 .. MaxConc
    /\ held \subseteq Callers
    /\ grants \in Seq(Nat)

WindowTypeOK ==
    /\ window \in [Slots -> BOOLEAN]
    /\ winPos \in 0 .. MinSamples
    /\ winFilled \in 0 .. MinSamples
    /\ winErrs \in 0 .. MinSamples
    /\ recent \in Seq(BOOLEAN)

GuardTypeOK == BucketTypeOK /\ WindowTypeOK

\* NewGuard: the bucket starts full.
GuardInit ==
    /\ killed = FALSE
    /\ reason = ""
    /\ tokens = Burst
    /\ lastFill = 0
    /\ now = 0
    /\ inFlight = 0
    /\ window = [i \in Slots |-> FALSE]
    /\ winPos = 0
    /\ winFilled = 0
    /\ winErrs = 0
    /\ held = {}
    /\ grants = <<>>
    /\ recent = <<>>

\* The clock advances between operations.
Tick ==
    /\ now < MaxTime
    /\ now' = now + 1
    /\ UNCHANGED <<killed, reason, bucketVars, windowVars>>

----------------------------------------------------------------------------
(* Operations *)

\* AllowHost: the kill switch is consulted before the allowlist. onList is what
\* matchAny says of the parsed host.
AllowHost(onList) == IF killed THEN "killed" ELSE IF onList THEN "ok" ELSE "offlist"

\* refillLocked: what the bucket holds once the time since lastFill is credited.
Refilled ==
    LET earned == tokens + (now - lastFill) * MaxRPS
    IN  IF earned > Burst THEN Burst ELSE earned

\* Reserve that credits the elapsed time without moving lastFill.
Mut_ReserveStaleFill(c) ==
    /\ ~killed
    /\ inFlight < MaxConc
    /\ Refilled >= TicksPerSec
    /\ tokens' = Refilled - TicksPerSec
    /\ inFlight' = inFlight + 1
    /\ held' = held \cup {c}
    /\ grants' = Append(grants, now)
    /\ UNCHANGED <<killed, reason, now, lastFill, windowVars>>

\* Reserve that forgets the kill switch.
Mut_ReserveNoKill(c) ==
    /\ inFlight < MaxConc
    /\ Refilled >= TicksPerSec
    /\ tokens' = Refilled - TicksPerSec
    /\ lastFill' = now
    /\ inFlight' = inFlight + 1
    /\ held' = held \cup {c}
    /\ grants' = Append(grants, now)
    /\ UNCHANGED <<killed, reason, now, windowVars>>

\* Reserve, granted: a token and a slot are taken.
ReserveGranted(c) ==
    /\ ~killed
    /\ inFlight < MaxConc
    /\ Refilled >= TicksPerSec
    /\ tokens' = Refilled - TicksPerSec
    /\ lastFill' = now
    /\ inFlight' = inFlight + 1
    /\ held' = held \cup {c}
    /\ grants' = Append(grants, now)
    /\ UNCHANGED <<killed, reason, now, windowVars>>

\* Reserve, refused by a cap: the refill alone remains.
ReserveLimited ==
    /\ ~killed
    /\ inFlight >= MaxConc \/ Refilled < TicksPerSec
    /\ tokens' = Refilled
    /\ lastFill' = now
    /\ UNCHANGED <<killed, reason, now, inFlight, held, grants, windowVars>>

\* Reserve, refused by the kill switch: nothing changes.
ReserveKilled == killed /\ UNCHANGED guardVars

\* Release that never gives the slot back at the ceiling.
Mut_Release(c) ==
    /\ inFlight' = IF inFlight > 1 THEN inFlight - 1 ELSE inFlight
    /\ held' = held \ {c}
    /\ UNCHANGED <<killed, reason, now, tokens, lastFill, grants, windowVars>>

\* Release.
Release(c) ==
    /\ inFlight' = IF inFlight > 0 THEN inFlight - 1 ELSE inFlight
    /\ held' = held \ {c}
    /\ UNCHANGED <<killed, reason, now, tokens, lastFill, grants, windowVars>>

\* Kill: the first reason wins.
Kill ==
    /\ killed' = TRUE
    /\ reason' = IF killed THEN reason ELSE "operator"
    /\ UNCHANGED <<now, bucketVars, windowVars>>

\* The latest n elements of a sequence.
Latest(s, n) == IF Len(s) > n THEN SubSeq(s, Len(s) - n + 1, Len(s)) ELSE s

\* The error rate of a full window exceeds the threshold.
Exceeds(errs) == errs * ErrDen > ErrNum * MinSamples

\* ReportOutcome that does not uncount the outcome it overwrites.
Mut_ReportOutcome(ok) ==
    IF MinSamples = 0 \/ killed
    THEN UNCHANGED guardVars
    ELSE /\ winErrs' = winErrs + (IF ok THEN 0 ELSE 1)
         /\ winFilled' = IF winFilled = MinSamples THEN winFilled ELSE winFilled + 1
         /\ window' = [window EXCEPT ![winPos] = ok]
         /\ winPos' = (winPos + 1) % MinSamples
         /\ recent' = Latest(Append(recent, ok), MinSamples)
         /\ killed' = (winFilled' = MinSamples /\ Exceeds(winErrs'))
         /\ reason' = IF killed' THEN "auto" ELSE reason
         /\ UNCHANGED <<now, bucketVars>>

\* ReportOutcome: the window slides over the outcome it overwrites; a full window
\* over the threshold trips the switch.
ReportOutcome(ok) ==
    IF MinSamples = 0 \/ killed
    THEN UNCHANGED guardVars
    ELSE LET full == winFilled = MinSamples
             evicted == IF full /\ ~window[winPos] THEN 1 ELSE 0
         IN  /\ winErrs' = winErrs - evicted + (IF ok THEN 0 ELSE 1)
             /\ winFilled' = IF full THEN winFilled ELSE winFilled + 1
             /\ window' = [window EXCEPT ![winPos] = ok]
             /\ winPos' = (winPos + 1) % MinSamples
             /\ recent' = Latest(Append(recent, ok), MinSamples)
             /\ killed' = (winFilled' = MinSamples /\ Exceeds(winErrs'))
             /\ reason' = IF killed' THEN "auto" ELSE reason
             /\ UNCHANGED <<now, bucketVars>>

----------------------------------------------------------------------------
(* The guard among callers that release only what they reserved *)

GuardNext ==
    \/ Tick
    \/ Kill
    \/ \E c \in Callers \ held : ReserveGranted(c)
    \/ ReserveLimited
    \/ \E c \in held : Release(c)
    \/ \E ok \in BOOLEAN : ReportOutcome(ok)

GuardSpec == GuardInit /\ [][GuardNext]_guardVars

----------------------------------------------------------------------------
(* Properties *)

\* Reserve and Release keep Guard.inFlight equal to the number of requests really
\* outstanding, and never above the ceiling: no slot leaks and none is freed twice.
InFlightExact ==
    /\ inFlight = Cardinality(held)
    /\ inFlight <= MaxConc

\* The token bucket bounds every window, not just the run as a whole: between any
\* two grants the requests granted are at most one second's burst plus the rate
\* times the time between them (Reserve and refillLocked).
RateWindow ==
    \A i, j \in 1 .. Len(grants) :
        i <= j => (j - i + 1) * TicksPerSec <= Burst + (grants[j] - grants[i]) * MaxRPS

\* The kill switch is final: once Kill or ReportOutcome has tripped it no
\* reservation is granted, no reason replaces the first, and requests in flight
\* only drain.
KillFinal == [][killed => killed' /\ reason' = reason /\ grants' = grants
                          /\ held' \subseteq held]_guardVars

\* ReportOutcome's ring and its incremental error count agree with the latest
\* MinSamples outcomes taken one by one, and the switch is tripped by "auto"
\* exactly when a full window of them exceeds the threshold.
WindowExact ==
    /\ winFilled = Len(recent)
    /\ winErrs = Cardinality({i \in DOMAIN recent : ~recent[i]})
    /\ reason = "auto" => Len(recent) = MinSamples /\ Exceeds(winErrs)
    /\ ~killed => ~(MinSamples > 0 /\ Len(recent) = MinSamples /\ Exceeds(winErrs))

----------------------------------------------------------------------------
(* The inductive invariant behind InFlightExact and RateWindow *)

\* What the bucket still holds counts against every window that is open: the grants
\* since grant i and the tokens left are together within the window's allowance.
OpenWindows ==
    \A i \in 1 .. Len(grants) :
        /\ grants[i] <= lastFill
        /\ (Len(grants) - i + 1) * TicksPerSec + tokens
             <= Burst + (lastFill - grants[i]) * MaxRPS

GuardInv == BucketTypeOK /\ InFlightExact /\ RateWindow /\ OpenWindows

----------------------------------------------------------------------------
(* The inductive invariant behind WindowExact *)

\* The slot of the ring that holds the k-th oldest of the latest outcomes.
RingAt(k) ==
    LET turn == IF winFilled < MinSamples THEN k - 1 ELSE winPos + k - 1
    IN  IF turn < MinSamples THEN turn ELSE turn - MinSamples

\* The ring holds the latest outcomes, and winPos is where the next one goes.
RingHolds ==
    /\ MinSamples > 0 => winPos < MinSamples
    /\ winFilled < MinSamples => winPos = winFilled
    /\ \A k \in 1 .. Len(recent) : recent[k] = window[RingAt(k)]

WindowInv ==
    /\ WindowTypeOK
    /\ RingHolds
    /\ reason = "auto" => killed
    /\ WindowExact
=============================================================================
