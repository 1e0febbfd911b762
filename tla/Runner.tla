------------------------------ MODULE Runner ------------------------------
(***************************************************************************)
(* The closed-model load runner (server/internal/load/runtime.go): Run's   *)
(* launch loop with its counting semaphore and wait group, and one session *)
(* goroutine per virtual user that walks its path and sends each node's    *)
(* request through the guard of Guard.tla, waiting while a cap refuses it. *)
(*                                                                         *)
(* A node of a walk is abstracted to what steers runSession: "api" a       *)
(* request to an allowlisted host, "off" a request to any other host,      *)
(* "bad" a template that does not render, "pure" a state without request.  *)
(* The walk itself is engine.Walker's; here it is any member of Walks.     *)
(***************************************************************************)
EXTENDS Guard

CONSTANTS
    NumUsers,       \* len(users)
    MaxSessions,    \* Runner.maxConcurrency
    Walks,          \* the walks the sessions may take
    Thinks,         \* whether a think time is configured
    Refreshes,      \* whether users carry a Refresh closure
    MayCancel       \* whether the run's context may be cancelled

Users == 1 .. NumUsers
NodeKinds == {"api", "off", "bad", "pure"}

ASSUME UsersAssumption == NumUsers \in Nat /\ Callers = Users
ASSUME SessionsAssumption == MaxSessions \in Nat \ {0}
ASSUME WalksAssumption == Walks \subseteq Seq(NodeKinds)
ASSUME FlagsAssumption == {Thinks, Refreshes, MayCancel} \subseteq BOOLEAN

VARIABLES
    cancelled,  \* ctx.Err() # nil
    main,       \* where Run stands
    next,       \* the loop variable of Run: the next user to launch
    sem,        \* sessions holding a slot of the semaphore
    wg,         \* the wait group's counter
    pc,         \* where a session stands
    path,       \* the walk of a session
    step,       \* how many nodes of it are behind the session
    resp,       \* what the latest send returned
    tries,      \* sends made for the current node
    results,    \* per user: the steps whose StepResult was emitted (0: the walk)
    atCancel    \* history: Len(results[u]) when the context was cancelled

runVars == <<cancelled, main, next, sem, wg, pc, path, step, resp, tries, results, atCancel>>
vars == <<guardVars, runVars>>

PCs == {"idle", "walk", "step", "think", "render", "allow", "reserve", "throttle",
        "sending", "report", "release", "answer", "refresh", "unslot", "finish", "gone"}

\* send is between Reserve and the deferred Release.
Holding == {"sending", "report", "release"}

\* Responses: a 401, a 5xx, any other status, or an error (the adapter's, the
\* guard's or the context's).
Responses == {"none", "ok", "unauth", "server", "error"}

TypeOK ==
    /\ GuardTypeOK
    /\ cancelled \in BOOLEAN
    /\ main \in {"loop", "acquire", "wait", "returned"}
    /\ next \in 1 .. NumUsers + 1
    /\ sem \in 0 .. NumUsers
    /\ wg \in 0 .. NumUsers
    /\ pc \in [Users -> PCs]
    /\ path \in [Users -> Seq(NodeKinds)]
    /\ step \in [Users -> Nat]
    /\ resp \in [Users -> Responses]
    /\ tries \in [Users -> 0 .. 2]
    /\ results \in [Users -> Seq(Nat)]
    /\ atCancel \in [Users -> Nat]

Init ==
    /\ GuardInit
    /\ cancelled = FALSE
    /\ main = "loop"
    /\ next = 1
    /\ sem = 0
    /\ wg = 0
    /\ pc = [u \in Users |-> "idle"]
    /\ path = [u \in Users |-> <<>>]
    /\ step = [u \in Users |-> 0]
    /\ resp = [u \in Users |-> "none"]
    /\ tries = [u \in Users |-> 0]
    /\ results = [u \in Users |-> <<>>]
    /\ atCancel = [u \in Users |-> 0]

\* The session moves to another place and changes nothing else of its own.
Goto(u, place) == pc' = [pc EXCEPT ![u] = place]

----------------------------------------------------------------------------
(* Run *)

\* The semaphore's size: a small pool is not over-provisioned.
Limit == IF NumUsers < MaxSessions THEN NumUsers ELSE MaxSessions

\* The head of the launch loop: no session is launched once cancelled.
LaunchCheck ==
    /\ main = "loop"
    /\ main' = IF next > NumUsers \/ cancelled THEN "wait" ELSE "acquire"
    /\ UNCHANGED <<guardVars, cancelled, next, sem, wg, pc, path, step, resp, tries,
                   results, atCancel>>

\* sem <- struct{}{} blocks while Limit sessions are in flight; wg.Add; go.
Launch ==
    /\ main = "acquire"
    /\ sem < Limit
    /\ sem' = sem + 1
    /\ wg' = wg + 1
    /\ Goto(next, "walk")
    /\ next' = next + 1
    /\ main' = "loop"
    /\ UNCHANGED <<guardVars, cancelled, path, step, resp, tries, results, atCancel>>

\* wg.Wait() passes and Run returns.
RunReturn ==
    /\ main = "wait"
    /\ wg = 0
    /\ main' = "returned"
    /\ UNCHANGED <<guardVars, cancelled, next, sem, wg, pc, path, step, resp, tries,
                   results, atCancel>>

\* The run's context is cancelled: by killRun after guard.Kill, by Shutdown, or by
\* the run's own deadline.
Cancel ==
    /\ MayCancel
    /\ ~cancelled
    /\ main # "returned"
    /\ cancelled' = TRUE
    /\ atCancel' = [u \in Users |-> Len(results[u])]
    /\ UNCHANGED <<guardVars, main, next, sem, wg, pc, path, step, resp, tries, results>>

----------------------------------------------------------------------------
(* runSession *)

localVars == <<cancelled, main, next, sem, wg, path, atCancel>>

\* A StepResult for the given step reaches the sink.
EmitStep(u, i) == results' = [results EXCEPT ![u] = Append(@, i)]

\* NewWalker or Walk fails: one error result and the session is over.
WalkFails(u) ==
    /\ pc[u] = "walk"
    /\ EmitStep(u, 0)
    /\ Goto(u, "unslot")
    /\ UNCHANGED <<guardVars, localVars, step, resp, tries>>

\* The walk is drawn up front; the session only follows it.
Walk(u, w) ==
    /\ pc[u] = "walk"
    /\ path' = [path EXCEPT ![u] = w]
    /\ Goto(u, "step")
    /\ UNCHANGED <<guardVars, cancelled, main, next, sem, wg, step, resp, tries, results,
                   atCancel>>

\* The node the session is at.
Node(u) == path[u][step[u] + 1]

\* sent: a result of a node whose request rendered was emitted.
Sent(u) == \E k \in DOMAIN results[u] : results[u][k] > 0 /\ path[u][results[u][k]] # "bad"

\* The head of the loop that does not look at the context.
Mut_NextNode(u) ==
    /\ pc[u] = "step"
    /\ IF step[u] = Len(path[u])
       THEN Goto(u, "unslot") /\ UNCHANGED step
       ELSE IF Node(u) = "pure"
       THEN step' = [step EXCEPT ![u] = @ + 1] /\ UNCHANGED pc
       ELSE Goto(u, IF Sent(u) /\ Thinks THEN "think" ELSE "render") /\ UNCHANGED step
    /\ UNCHANGED <<guardVars, localVars, resp, tries, results>>

\* The head of the loop over the walk: the journey ends with the walk or with the
\* context; a pure-state node is passed over (its terminal event aside); a think
\* time precedes every request but the first.
NextNode(u) ==
    /\ pc[u] = "step"
    /\ IF step[u] = Len(path[u]) \/ cancelled
       THEN Goto(u, "unslot") /\ UNCHANGED step
       ELSE IF Node(u) = "pure"
       THEN step' = [step EXCEPT ![u] = @ + 1] /\ UNCHANGED pc
       ELSE Goto(u, IF Sent(u) /\ Thinks THEN "think" ELSE "render") /\ UNCHANGED step
    /\ UNCHANGED <<guardVars, localVars, resp, tries, results>>

\* sleepFn: the pause elapses, or the context ends it and the journey. When both
\* are ready select takes either.
Think(u) ==
    /\ pc[u] = "think"
    /\ \/ Goto(u, "render")
       \/ cancelled /\ Goto(u, "unslot")
    /\ UNCHANGED <<guardVars, localVars, step, resp, tries, results>>

\* Render: a failure is the step's result, and the walk goes on.
Render(u) ==
    /\ pc[u] = "render"
    /\ IF Node(u) = "bad"
       THEN /\ EmitStep(u, step[u] + 1)
            /\ step' = [step EXCEPT ![u] = @ + 1]
            /\ Goto(u, "step")
            /\ UNCHANGED tries
       ELSE /\ Goto(u, "allow")
            /\ tries' = [tries EXCEPT ![u] = 1]
            /\ UNCHANGED <<step, results>>
    /\ UNCHANGED <<guardVars, localVars, resp>>

\* send: AllowHost refuses an off-list host, or every host once killed.
SendAllow(u) ==
    /\ pc[u] = "allow"
    /\ IF AllowHost(Node(u) = "api") = "ok"
       THEN Goto(u, "reserve") /\ UNCHANGED resp
       ELSE Goto(u, "answer") /\ resp' = [resp EXCEPT ![u] = "error"]
    /\ UNCHANGED <<guardVars, localVars, step, tries, results>>

\* reserve: granted.
Reserve(u) ==
    /\ pc[u] = "reserve"
    /\ ReserveGranted(u)
    /\ Goto(u, "sending")
    /\ UNCHANGED <<localVars, step, resp, tries, results>>

\* reserve: a cap refuses, the session waits throttleInterval.
ReserveWait(u) ==
    /\ pc[u] = "reserve"
    /\ ReserveLimited
    /\ Goto(u, "throttle")
    /\ UNCHANGED <<localVars, step, resp, tries, results>>

\* A send whose deferred Release also runs when the reservation failed.
Mut_ReserveRefused(u) ==
    /\ pc[u] = "reserve"
    /\ killed
    /\ Release(u)
    /\ Goto(u, "answer")
    /\ resp' = [resp EXCEPT ![u] = "error"]
    /\ UNCHANGED <<localVars, step, tries, results>>

\* reserve: the kill switch refuses, which is the step's error.
ReserveRefused(u) ==
    /\ pc[u] = "reserve"
    /\ ReserveKilled
    /\ Goto(u, "answer")
    /\ resp' = [resp EXCEPT ![u] = "error"]
    /\ UNCHANGED <<localVars, step, tries, results>>

\* A throttle sleep that the context does not end.
Mut_Throttle(u) ==
    /\ pc[u] = "throttle"
    /\ Goto(u, "reserve")
    /\ UNCHANGED <<guardVars, localVars, step, resp, tries, results>>

\* sleep(ctx, throttleInterval): try again, or give up with the context's error.
Throttle(u) ==
    /\ pc[u] = "throttle"
    /\ \/ Goto(u, "reserve") /\ UNCHANGED resp
       \/ cancelled /\ Goto(u, "answer") /\ resp' = [resp EXCEPT ![u] = "error"]
    /\ UNCHANGED <<guardVars, localVars, step, tries, results>>

\* adapter.Send returns.
SendReturns(u, r) ==
    /\ pc[u] = "sending"
    /\ resp' = [resp EXCEPT ![u] = r]
    /\ Goto(u, "report")
    /\ UNCHANGED <<guardVars, localVars, step, tries, results>>

\* ReportOutcome: an error or a 5xx counts against the target.
Report(u) ==
    /\ pc[u] = "report"
    /\ ReportOutcome(resp[u] \notin {"error", "server"})
    /\ Goto(u, "release")
    /\ UNCHANGED <<localVars, step, resp, tries, results>>

\* A Release that is skipped when the adapter returned an error.
Mut_SendRelease(u) ==
    /\ pc[u] = "release"
    /\ IF resp[u] = "error" THEN UNCHANGED guardVars ELSE Release(u)
    /\ Goto(u, "answer")
    /\ UNCHANGED <<localVars, step, resp, tries, results>>

\* The deferred Release.
SendRelease(u) ==
    /\ pc[u] = "release"
    /\ Release(u)
    /\ Goto(u, "answer")
    /\ UNCHANGED <<localVars, step, resp, tries, results>>

\* Mid-run auth recovery is due: the first answer was a 401 and there is a refresher.
NeedsRefresh(u) == resp[u] = "unauth" /\ Refreshes /\ tries[u] = 1

\* The refresh succeeded and the request is sent once more, through the guard.
RefreshRetry(u) ==
    /\ pc[u] = "refresh"
    /\ tries' = [tries EXCEPT ![u] = 2]
    /\ Goto(u, "allow")
    /\ UNCHANGED <<guardVars, localVars, step, resp, results>>

\* The refresh failed: the 401 stands, as an auth-refresh result.
RefreshFails(u) ==
    /\ pc[u] = "refresh"
    /\ tries' = [tries EXCEPT ![u] = 2]
    /\ Goto(u, "answer")
    /\ UNCHANGED <<guardVars, localVars, step, resp, results>>

\* The 401 is swallowed and the token refreshed.
Refresh(u) ==
    /\ pc[u] = "answer"
    /\ NeedsRefresh(u)
    /\ Goto(u, "refresh")
    /\ UNCHANGED <<guardVars, localVars, step, resp, tries, results>>

\* A session that stops at its first failed step.
Mut_Emit(u) ==
    /\ pc[u] = "answer"
    /\ ~NeedsRefresh(u)
    /\ EmitStep(u, step[u] + 1)
    /\ step' = [step EXCEPT ![u] = @ + 1]
    /\ tries' = [tries EXCEPT ![u] = 0]
    /\ resp' = [resp EXCEPT ![u] = "none"]
    /\ Goto(u, IF resp[u] = "error" THEN "unslot" ELSE "step")
    /\ UNCHANGED <<guardVars, localVars>>

\* The step's one result is emitted and the walk goes on, whatever the answer.
Emit(u) ==
    /\ pc[u] = "answer"
    /\ ~NeedsRefresh(u)
    /\ EmitStep(u, step[u] + 1)
    /\ step' = [step EXCEPT ![u] = @ + 1]
    /\ tries' = [tries EXCEPT ![u] = 0]
    /\ resp' = [resp EXCEPT ![u] = "none"]
    /\ Goto(u, "step")
    /\ UNCHANGED <<guardVars, localVars>>

\* The deferred <-sem of a goroutine that has already signed off.
Unslot(u) ==
    /\ pc[u] = "unslot"
    /\ sem' = sem - 1
    /\ Goto(u, "finish")
    /\ UNCHANGED <<guardVars, cancelled, main, next, wg, path, step, resp, tries, results,
                   atCancel>>

\* The deferred wg.Done, after the slot is free.
Finish(u) ==
    /\ pc[u] = "finish"
    /\ wg' = wg - 1
    /\ Goto(u, "gone")
    /\ UNCHANGED <<guardVars, cancelled, main, next, sem, path, step, resp, tries, results,
                   atCancel>>

\* The operator's kill, and the clock, act on the guard alone.
OperatorKill == main # "returned" /\ ~killed /\ Kill /\ UNCHANGED runVars
ClockTick == Tick /\ UNCHANGED runVars

----------------------------------------------------------------------------

Session(u) ==
    \/ WalkFails(u) \/ \E w \in Walks : Walk(u, w)
    \/ NextNode(u) \/ Think(u) \/ Render(u)
    \/ SendAllow(u) \/ Reserve(u) \/ ReserveWait(u) \/ ReserveRefused(u) \/ Throttle(u)
    \/ \E r \in Responses \ {"none"} : SendReturns(u, r)
    \/ Report(u) \/ SendRelease(u)
    \/ Refresh(u) \/ RefreshRetry(u) \/ RefreshFails(u) \/ Emit(u)
    \/ Unslot(u) \/ Finish(u)

Next ==
    \/ LaunchCheck \/ Launch \/ RunReturn
    \/ \E u \in Users : Session(u)
    \/ Cancel \/ OperatorKill \/ ClockTick

Spec == Init /\ [][Next]_vars

\* Go runs every goroutine that is ready. A throttled session leaves its sleep when
\* the context ends it: select cannot take an expired timer for ever, so giving up
\* is strongly fair. adapter.Send returns because every request has a timeout. Time
\* passes.
Fairness ==
    /\ WF_vars(ClockTick)
    /\ WF_vars(LaunchCheck) /\ WF_vars(Launch) /\ WF_vars(RunReturn)
    /\ \A u \in Users : WF_vars(Session(u)) /\ SF_vars(Throttle(u) /\ pc'[u] = "answer")

FairSpec == Spec /\ Fairness

----------------------------------------------------------------------------
(* Properties *)

\* The sessions between Reserve and Release are exactly the ones the guard counts:
\* send pairs every grant with one Release on every path, retries, kills and
\* cancellations included.
HeldBySenders == held = {u \in Users : pc[u] \in Holding}

\* Run returns only when every goroutine it launched has left runSession, so no
\* result reaches the sink and no request is in flight after it (wg.Wait).
ReturnQuiescent ==
    main = "returned" =>
        /\ \A u \in Users : pc[u] \in {"idle", "gone"}
        /\ inFlight = 0

\* At most MaxSessions sessions are inside runSession at once, and the wait group counts
\* every goroutine that is not gone.
SessionsBounded ==
    LET live(S) == {u \in Users : pc[u] \notin S}
    IN  /\ Cardinality(live({"idle", "gone", "finish"})) = sem /\ sem <= MaxSessions
        /\ Cardinality(live({"idle", "gone"})) = wg

\* Every requesting node behind a session has exactly one result, in walk order,
\* whether its request was answered, refused, cancelled or retried after a 401; a
\* walk that failed has one. Behind(u) is what is behind it.
Behind(u) == {i \in 1 .. step[u] : path[u][i] # "pure"}

OneResultPerStep ==
    \A u \in Users :
        LET r == results[u]
        IN  \/ /\ {r[k] : k \in DOMAIN r} = Behind(u)
               /\ \A k, l \in DOMAIN r : k < l => r[k] < r[l]
            \/ r = <<0>> /\ path[u] = <<>>

\* A run nobody cancels drives every user through its whole walk.
Complete ==
    main = "returned" /\ ~cancelled =>
        \A u \in Users : results[u] # <<0>> => step[u] = Len(path[u])

\* What Run hands to its sink and when it returns: one result for each requesting
\* node behind a session, the whole walk of every user unless the run is cancelled,
\* and no more sessions at once than the pool allows.
ResultsExact == OneResultPerStep /\ Complete /\ SessionsBounded

\* The run stops promptly: after the context is cancelled a session emits at most
\* the result of the step it was in (the context checks of runSession and reserve).
PromptStop ==
    cancelled => \A u \in Users : Len(results[u]) <= atCancel[u] + 1

\* A cancelled run returns: no session is left waiting on the guard, on a pause or
\* on the semaphore.
CancelReturns == cancelled ~> main = "returned"

\* Without a cancellation the run returns too, as long as the rate lasts (the clock
\* of an instance stops): the semaphore and the concurrency ceiling never leave
\* everyone waiting, and no answer of the target keeps a session retrying.
RateUsedUp == now = MaxTime /\ Refilled < TicksPerSec
RunReturns == <>(main = "returned" \/ RateUsedUp)

\* Run returns, cancelled or not.
Terminates == CancelReturns /\ RunReturns

----------------------------------------------------------------------------
(* The inductive invariants behind the refinement of Guard and PromptStop *)

\* Users are launched in order, and the guard counts the sessions in send.
SlotInv ==
    /\ pc \in [Users -> PCs]
    /\ next \in Nat \ {0}
    /\ main = "acquire" => next <= NumUsers
    /\ \A u \in Users : u >= next => pc[u] = "idle"
    /\ HeldBySenders

\* Goroutines the wait group still waits for.
Live == {u \in Users : pc[u] \notin {"idle", "gone"}}

WaitInv ==
    /\ wg = Cardinality(Live)
    /\ main = "returned" => Live = {}

\* Places a session can be in without a step under way.
Between == {"step", "unslot", "finish", "gone"}

PromptInv ==
    /\ step \in [Users -> Nat]
    /\ results \in [Users -> Seq(Nat)]
    /\ atCancel \in [Users -> Nat]
    /\ cancelled => \A u \in Users :
         Len(results[u]) <= atCancel[u] + (IF pc[u] \in Between THEN 1 ELSE 0)

RunInv == SlotInv /\ WaitInv /\ PromptInv

----------------------------------------------------------------------------
(* The inductive invariant behind ResultsExact *)

\* Places inside a step, and places at the end of a session.
InStep == {"think", "render", "allow", "reserve", "throttle", "sending", "report", "release",
           "answer", "refresh"}
Over == {"unslot", "finish", "gone"}

\* A session has nothing behind it until its walk is drawn, is inside a step only at a
\* requesting node, and ends early only when cancelled.
OnWalk(u) ==
    /\ step[u] \in 0 .. Len(path[u])
    /\ pc[u] \in {"idle", "walk"} => path[u] = <<>> /\ results[u] = <<>>
    /\ pc[u] \in InStep => step[u] < Len(path[u]) /\ Node(u) # "pure"
    /\ pc[u] \in Over => step[u] = Len(path[u]) \/ cancelled

JourneyInv ==
    /\ path \in [Users -> Seq(NodeKinds)]
    /\ \A u \in Users : OnWalk(u)
    /\ OneResultPerStep

\* Run stops launching before the last user only when cancelled.
LaunchedInv ==
    /\ \A u \in Users : u < next => pc[u] # "idle"
    /\ main \in {"wait", "returned"} /\ ~cancelled => next > NumUsers

\* Sessions that hold a slot of the semaphore.
Inside == {u \in Users : pc[u] \notin {"idle", "gone", "finish"}}

PoolInv == sem = Cardinality(Inside) /\ sem <= Limit

ResultsInv == RunInv /\ JourneyInv /\ LaunchedInv /\ PoolInv
=============================================================================
