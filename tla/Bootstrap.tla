----------------------------- MODULE Bootstrap -----------------------------
(***************************************************************************)
(* The real accounts of a bootstrap-signup run: provisioning before or     *)
(* during the load (auth/bootstrap.go, load/signup.go, api/prewarm.go) and *)
(* the deferred teardown (api/bootstrap.go), against a target that creates *)
(* and deletes accounts and may fail or lose an answer, an operator who    *)
(* kills the run and a context that may be cancelled at any point.         *)
(*                                                                         *)
(* A closed run provisions [0, n) with a bounded burst (prewarmBounded)    *)
(* and then acquires index by index; an open run acquires at each arrival. *)
(* A signup flow is one request here. Acquire's branch that joins a signup *)
(* in flight has no action: LoneSignup shows that no run ever enters it.   *)
(***************************************************************************)
EXTENDS Integers, FiniteSets

CONSTANTS
    NumUsers,       \* accounts the run asks for
    Width,          \* bootstrapAuth.prewarmConcurrency
    MaxAttempts     \* SignupRetry.MaxAttempts

Users == 1 .. NumUsers

ASSUME UsersAssumption == NumUsers \in Nat \ {0}
ASSUME WidthAssumption == Width \in Nat \ {0}
ASSUME AttemptsAssumption == MaxAttempts \in Nat \ {0}

VARIABLES
    open,       \* whether the run is an open-model run
    cancelled,  \* the run's context is cancelled
    killed,     \* the run's guard is tripped
    main,       \* where the run's goroutine stands
    next,       \* the index its loop is at
    pc,         \* where the acquisition of an index stands
    attempts,   \* signup walks made for it so far
    inflight,   \* the provider's inflight map
    cache,      \* the provider's cache
    failed,     \* prewarm's firstErr is set, and with it the burst cancelled
    assigned,   \* indices whose user or arrival got its credential
    account,    \* external: the accounts that exist at the target
    confirmed,  \* history: the accounts whose signup succeeded
    todo,       \* accounts teardown has yet to walk
    orphans     \* accounts whose teardown failed, logged as orphans

vars == <<open, cancelled, killed, main, next, pc, attempts, inflight, cache, failed, assigned,
          account, confirmed, todo, orphans>>

env == <<open, cancelled, killed>>
provider == <<inflight, cache>>
target == <<account, confirmed>>
cleanup == <<todo, orphans>>

Mains == {"burst", "slot", "drain", "assign", "acquiring", "load", "clear", "teardown", "deleting",
          "done"}
PCs == {"idle", "acquire", "attempt", "send", "sent", "backoff", "signed", "error", "leave", "gone"}

TypeOK ==
    /\ {open, cancelled, killed, failed} \subseteq BOOLEAN
    /\ main \in Mains
    /\ next \in 1 .. NumUsers + 1
    /\ pc \in [Users -> PCs]
    /\ attempts \in [Users -> 0 .. MaxAttempts]
    /\ {inflight, cache, assigned, account, confirmed, todo, orphans} \subseteq SUBSET Users

\* The target may hold an account of an earlier run: it answers 409 for it.
Init ==
    /\ open \in BOOLEAN
    /\ cancelled = FALSE
    /\ killed = FALSE
    /\ main = IF open THEN "assign" ELSE "burst"
    /\ next = 1
    /\ pc = [i \in Users |-> "idle"]
    /\ attempts = [i \in Users |-> 0]
    /\ inflight = {}
    /\ cache = {}
    /\ failed = FALSE
    /\ assigned = {}
    /\ account \in SUBSET Users
    /\ confirmed = {}
    /\ todo = {}
    /\ orphans = {}

Goto(i, place) == pc' = [pc EXCEPT ![i] = place]

\* Goroutines of the burst that hold a slot of its semaphore.
Burst == {i \in Users : pc[i] \notin {"idle", "gone"}}

\* The context an acquisition runs under: the burst's own, cancelled with the run or
\* by the first failure, or the run's.
CtxDone == cancelled \/ (main \in {"burst", "slot", "drain"} /\ failed)

----------------------------------------------------------------------------
(* prewarmBounded *)

\* The head of the scheduling loop.
BurstCheck ==
    /\ main = "burst"
    /\ main' = IF next > NumUsers \/ cancelled \/ failed THEN "drain" ELSE "slot"
    /\ UNCHANGED <<env, next, pc, attempts, provider, failed, assigned, target,
                   cleanup>>

\* A slot of the semaphore is free.
SlotFree == Cardinality(Burst) < Width

\* The select: take a slot and start the goroutine of the next index.
BurstLaunch ==
    /\ main = "slot"
    /\ SlotFree
    /\ Goto(next, "acquire")
    /\ next' = next + 1
    /\ main' = "burst"
    /\ UNCHANGED <<env, attempts, provider, failed, assigned, target, cleanup>>

\* The select: the context is done, stop scheduling.
BurstStop ==
    /\ main = "slot"
    /\ cancelled \/ failed
    /\ main' = "drain"
    /\ UNCHANGED <<env, next, pc, attempts, provider, failed, assigned, target,
                   cleanup>>

\* A Prewarm that does not wait for its goroutines.
Mut_BurstNoWait ==
    /\ main = "drain"
    /\ main' = IF failed THEN "clear" ELSE "assign"
    /\ next' = 1
    /\ UNCHANGED <<env, pc, attempts, provider, failed, assigned, target, cleanup>>

\* wg.Wait(): an error fails the run; otherwise the users are assigned. A cancelled
\* burst returns no error, though it may have provisioned only some accounts.
BurstDrained ==
    /\ main = "drain"
    /\ Burst = {}
    /\ main' = IF failed THEN "clear" ELSE "assign"
    /\ next' = 1
    /\ UNCHANGED <<env, pc, attempts, provider, failed, assigned, target, cleanup>>

\* A goroutine of the burst records its error, cancels the burst and frees its slot.
BurstLeave(i) ==
    /\ main \in {"burst", "slot", "drain"}
    /\ pc[i] \in {"leave", "error"}
    /\ failed' = (failed \/ pc[i] = "error")
    /\ Goto(i, "gone")
    /\ UNCHANGED <<env, main, next, attempts, provider, assigned, target, cleanup>>

----------------------------------------------------------------------------
(* Acquire and the signup behind it *)

\* A cached account is returned; otherwise this caller signs up.
Acquire(i) ==
    /\ pc[i] = "acquire"
    /\ IF i \in cache
       THEN Goto(i, "leave") /\ UNCHANGED <<inflight, attempts>>
       ELSE /\ Goto(i, "attempt")
            /\ inflight' = inflight \cup {i}
            /\ attempts' = [attempts EXCEPT ![i] = 0]
    /\ UNCHANGED <<env, main, next, cache, failed, assigned, target, cleanup>>

\* A retry loop that does not count its attempts.
Mut_Attempt(i) ==
    /\ pc[i] = "attempt"
    /\ IF CtxDone
       THEN Goto(i, "error") /\ inflight' = inflight \ {i}
       ELSE Goto(i, "send") /\ UNCHANGED inflight
    /\ UNCHANGED <<env, main, next, attempts, cache, failed, assigned, target, cleanup>>

\* The head of the retry loop: a done context is the signup's error.
Attempt(i) ==
    /\ pc[i] = "attempt"
    /\ IF CtxDone
       THEN Goto(i, "error") /\ inflight' = inflight \ {i} /\ UNCHANGED attempts
       ELSE /\ Goto(i, "send")
            /\ attempts' = [attempts EXCEPT ![i] = @ + 1]
            /\ UNCHANGED inflight
    /\ UNCHANGED <<env, main, next, cache, failed, assigned, target, cleanup>>

\* A transient failure: back off, or give up after the last attempt.
Transient(i) ==
    IF attempts[i] = MaxAttempts
    THEN Goto(i, "error") /\ inflight' = inflight \ {i}
    ELSE Goto(i, "backoff") /\ UNCHANGED inflight

\* The walk stops at its next node when the context is done, and is not retried.
SignupStops(i) ==
    /\ pc[i] = "send"
    /\ CtxDone
    /\ Goto(i, "error")
    /\ inflight' = inflight \ {i}
    /\ UNCHANGED <<env, main, next, attempts, cache, failed, assigned, target, cleanup>>

\* send: the guard of a killed run refuses, which counts as transient.
SignupRefused(i) ==
    /\ pc[i] = "send"
    /\ killed
    /\ Transient(i)
    /\ UNCHANGED <<env, main, next, attempts, cache, failed, assigned, target, cleanup>>

\* send: the request is on its way.
SignupSend(i) ==
    /\ pc[i] = "send"
    /\ ~killed
    /\ Goto(i, "sent")
    /\ UNCHANGED <<env, main, next, attempts, provider, failed, assigned, target, cleanup>>

\* The request fails, or the target answers 429 or 5xx: the account may have been
\* created all the same.
SignupTransient(i) ==
    /\ pc[i] = "sent"
    /\ Transient(i)
    /\ account' \in {account, account \cup {i}}
    /\ UNCHANGED <<env, main, next, attempts, cache, failed, assigned, confirmed, cleanup>>

\* A deterministic failure: another 4xx, an answer without token, or a 409 for an
\* account whose token the flow cannot recover.
SignupRejected(i) ==
    /\ pc[i] = "sent"
    /\ Goto(i, "error")
    /\ inflight' = inflight \ {i}
    /\ account' \in {account, account \cup {i}}
    /\ UNCHANGED <<env, main, next, attempts, cache, failed, assigned, confirmed, cleanup>>

\* The account is created, or exists and its token is captured from the 409.
SignupAccepted(i) ==
    /\ pc[i] = "sent"
    /\ account' = account \cup {i}
    /\ confirmed' = confirmed \cup {i}
    /\ Goto(i, "signed")
    /\ UNCHANGED <<env, main, next, attempts, provider, failed, assigned, cleanup>>

\* The backoff elapses, or the context ends it.
Backoff(i) ==
    /\ pc[i] = "backoff"
    /\ \/ Goto(i, "attempt") /\ UNCHANGED inflight
       \/ CtxDone /\ Goto(i, "error") /\ inflight' = inflight \ {i}
    /\ UNCHANGED <<env, main, next, attempts, cache, failed, assigned, target,
                   cleanup>>

\* The credential is cached and the in-flight entry removed.
AcquireRecord(i) ==
    /\ pc[i] = "signed"
    /\ cache' = cache \cup {i}
    /\ inflight' = inflight \ {i}
    /\ Goto(i, "leave")
    /\ UNCHANGED <<env, main, next, attempts, failed, assigned, target, cleanup>>

----------------------------------------------------------------------------
(* authenticateClosedUsers, or the arrivals of an open run; the load *)

\* The loop over the users acquires the next one's credential, or is over. An open
\* run's arrivals may end at any point, and end with the context.
Assign ==
    /\ main = "assign"
    /\ \/ /\ next <= NumUsers
          /\ ~(open /\ cancelled)
          /\ Goto(next, "acquire")
          /\ main' = "acquiring"
       \/ /\ next > NumUsers \/ open
          /\ main' = "load"
          /\ UNCHANGED pc
    /\ UNCHANGED <<env, next, attempts, provider, failed, assigned, target, cleanup>>

\* A loop that skips a user whose signup failed, in the closed model too.
Mut_AssignReturn ==
    /\ main = "acquiring"
    /\ pc[next] \in {"leave", "error"}
    /\ Goto(next, "gone")
    /\ assigned' = IF pc[next] = "leave" THEN assigned \cup {next} ELSE assigned
    /\ main' = "assign"
    /\ next' = next + 1
    /\ UNCHANGED <<env, attempts, provider, failed, target, cleanup>>

\* Acquire returns. A failure ends a closed run; an open run skips the arrival.
AssignReturn ==
    /\ main = "acquiring"
    /\ pc[next] \in {"leave", "error"}
    /\ Goto(next, "gone")
    /\ assigned' = IF pc[next] = "leave" THEN assigned \cup {next} ELSE assigned
    /\ main' = IF pc[next] = "error" /\ ~open THEN "clear" ELSE "assign"
    /\ next' = IF main' = "clear" THEN next ELSE next + 1
    /\ UNCHANGED <<env, attempts, provider, failed, target, cleanup>>

\* The load runs and ends; the deferred teardown is next.
Load ==
    /\ main = "load"
    /\ main' = "clear"
    /\ UNCHANGED <<env, next, pc, attempts, provider, failed, assigned, target,
                   cleanup>>

----------------------------------------------------------------------------
(* Teardown *)

\* The cache is copied and cleared under the lock.
TeardownClear ==
    /\ main = "clear"
    /\ todo' = cache
    /\ cache' = {}
    /\ main' = "teardown"
    /\ UNCHANGED <<env, next, pc, attempts, inflight, failed, assigned, target,
                   orphans>>

\* Ascending order.
Lowest(i) == i \in todo /\ \A j \in todo : i <= j

\* The teardown walk of the next account: its request is sent.
TeardownSend ==
    /\ main = "teardown"
    /\ todo # {}
    /\ ~killed
    /\ main' = "deleting"
    /\ UNCHANGED <<env, next, pc, attempts, provider, failed, assigned, target, cleanup>>

\* The account is gone.
TeardownOne(i) ==
    /\ main = "deleting"
    /\ Lowest(i)
    /\ account' = account \ {i}
    /\ todo' = todo \ {i}
    /\ main' = "teardown"
    /\ UNCHANGED <<env, next, pc, attempts, provider, failed, assigned, confirmed, orphans>>

\* A failed walk: the account is logged as an orphan.
Orphaned(i) ==
    /\ orphans' = orphans \cup {i}
    /\ main' = "teardown"

\* A teardown that aborts on the first failure.
Mut_TeardownFails(i) ==
    /\ main = "deleting"
    /\ Lowest(i)
    /\ Orphaned(i)
    /\ todo' = {}
    /\ account' \in {account, account \ {i}}
    /\ UNCHANGED <<env, next, pc, attempts, provider, failed, assigned, confirmed>>

\* It fails, by the target's answer or the end of the budget, and the others still
\* have their turn. The account may be gone when only the answer was lost.
TeardownFails(i) ==
    /\ main = "deleting"
    /\ Lowest(i)
    /\ Orphaned(i)
    /\ todo' = todo \ {i}
    /\ account' \in {account, account \ {i}}
    /\ UNCHANGED <<env, next, pc, attempts, provider, failed, assigned, confirmed>>

\* It fails because the guard of a killed run refuses to send.
TeardownRefused(i) ==
    /\ main = "teardown"
    /\ Lowest(i)
    /\ killed
    /\ Orphaned(i)
    /\ todo' = todo \ {i}
    /\ UNCHANGED <<env, next, pc, attempts, provider, failed, assigned, target>>

TeardownReturn ==
    /\ main = "teardown"
    /\ todo = {}
    /\ main' = "done"
    /\ UNCHANGED <<env, next, pc, attempts, provider, failed, assigned, target,
                   cleanup>>

----------------------------------------------------------------------------
(* The operator and the process *)

\* killRun trips the guard before it cancels.
KillGuard ==
    /\ main # "done"
    /\ ~killed
    /\ killed' = TRUE
    /\ UNCHANGED <<open, cancelled, main, next, pc, attempts, provider, failed, assigned, target,
                   cleanup>>

\* The run's context ends: killRun's second step, Shutdown or the run's deadline.
Cancel ==
    /\ main # "done"
    /\ ~cancelled
    /\ cancelled' = TRUE
    /\ UNCHANGED <<open, killed, main, next, pc, attempts, provider, failed, assigned, target, cleanup>>

Main ==
    \/ BurstCheck \/ BurstLaunch \/ BurstStop \/ BurstDrained
    \/ Assign \/ AssignReturn \/ Load
    \/ TeardownClear \/ TeardownSend \/ TeardownReturn
    \/ \E i \in Users : TeardownOne(i) \/ TeardownFails(i) \/ TeardownRefused(i)

Signup(i) ==
    \/ Acquire(i) \/ Attempt(i) \/ Backoff(i) \/ AcquireRecord(i) \/ BurstLeave(i)
    \/ SignupStops(i) \/ SignupRefused(i) \/ SignupSend(i)
    \/ SignupTransient(i) \/ SignupRejected(i) \/ SignupAccepted(i)

Next ==
    \/ Main
    \/ \E i \in Users : Signup(i)
    \/ KillGuard \/ Cancel

Spec == Init /\ [][Next]_vars

\* Go runs every goroutine that is ready, every request has a timeout and the load
\* ends on its own.
FairSpec == Spec /\ WF_vars(Main) /\ \A i \in Users : WF_vars(Signup(i))

----------------------------------------------------------------------------
(* Properties *)

\* Two acquisitions of one index never overlap in a run: Acquire's joining branch,
\* and the doubt whose context the shared signup runs under, never arise.
LoneSignup == \A i \in Users : pc[i] = "acquire" => i \notin inflight

\* A closed run puts load on the target only with every user authenticated as an
\* account that was confirmed for it, whatever was cancelled or failed on the way
\* ("a failed provision must fail the run, not run it half-authenticated").
FullyAuthenticated == main = "load" /\ ~open => assigned = Users /\ assigned \subseteq cache

\* No account is lost silently: one that a signup reported is known to the provider
\* for as long as the run lasts, and when the run is over it is deleted or logged as
\* an orphan, though signups and deletions fail and the run is cut short anywhere.
Accounted ==
    \A i \in confirmed \cap account :
        \/ i \in orphans
        \/ main # "done" /\ (i \in cache \cup todo \/ pc[i] = "signed")

\* A run ends, teardown included, whatever the target answers.
RunEnds == <>(main = "done")

----------------------------------------------------------------------------
(* The inductive invariant behind Accounted, FullyAuthenticated and LoneSignup *)

Ending == {"teardown", "deleting", "done"}
Signing == {"attempt", "send", "sent", "backoff"}

\* The provider's maps agree with where the acquisitions stand.
ProviderInv ==
    /\ pc \in [Users -> PCs]
    /\ inflight = {i \in Users : pc[i] \in Signing \cup {"signed"}}
    /\ \A i \in Users : pc[i] \in Signing \cup {"signed"} => i \notin cache
    /\ main \notin Ending => \A i \in Users : pc[i] = "leave" => i \in cache

\* Outside the burst the run's goroutine acquires alone, and one index at a time.
MainInv ==
    /\ next \in 1 .. NumUsers + 1
    /\ main = "slot" => next <= NumUsers
    /\ main \in {"burst", "slot"} => \A i \in Users : i >= next => pc[i] = "idle"
    /\ main \in {"assign", "load", "clear"} \cup Ending =>
         \A i \in Users : pc[i] \in {"idle", "gone"}
    /\ main = "acquiring" =>
         next <= NumUsers /\ \A i \in Users \ {next} : pc[i] \in {"idle", "gone"}

\* Confirmed accounts stay in the cache until teardown takes them over.
AccountInv ==
    /\ main \notin Ending =>
         /\ todo = {}
         /\ confirmed \subseteq cache \cup {i \in Users : pc[i] = "signed"}
         /\ assigned \subseteq cache
    /\ main \in Ending =>
         /\ cache = {}
         /\ confirmed \cap account \subseteq orphans \cup todo
    /\ main = "done" => todo = {}

\* A closed run assigns its users in order.
AssignInv ==
    /\ main \in {"burst", "slot", "drain"} => assigned = {}
    /\ main \in {"assign", "acquiring"} /\ ~open => assigned = 1 .. next - 1
    /\ main = "load" /\ ~open => assigned = Users

BootInv == ProviderInv /\ MainInv /\ AccountInv /\ AssignInv
=============================================================================
