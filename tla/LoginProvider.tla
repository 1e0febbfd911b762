--------------------------- MODULE LoginProvider ---------------------------
(***************************************************************************)
(* The login provider (server/internal/auth/login.go) and the shared-scope *)
(* session wiring above it (server/internal/api/login.go), with the 401    *)
(* recovery of runSession (server/internal/load/runtime.go).               *)
(*                                                                         *)
(* In the shared scope every session uses cache key 0, one holder and one  *)
(* refresh closure, so one principal is modelled. Tokens are generations   *)
(* in the order the identity provider issued them. Its refresh tokens      *)
(* rotate: one that was exchanged is spent.                                *)
(*                                                                         *)
(* Sessions seed, send and refresh. Warmers only Acquire: the run path     *)
(* prewarms before it seeds, but the provider promises to take Acquire     *)
(* calls at any time.                                                      *)
(***************************************************************************)
EXTENDS Naturals, Sequences, FiniteSets

CONSTANTS
    Sessions,    \* session goroutines of the run
    Warmers,     \* other goroutines that call Acquire
    Transport,   \* whether a refresh-token transport is wired (else re-login)
    MaxGen,      \* bound: tokens issued
    MaxCalls,    \* bound: single-flight calls made
    NoOne        \* not a goroutine

Goroutines == Sessions \cup Warmers

ASSUME SessionsAssumption == Sessions \cap Warmers = {} /\ NoOne \notin Goroutines
ASSUME BoundsAssumption == MaxGen \in Nat /\ MaxCalls \in Nat /\ Transport \in BOOLEAN

VARIABLES
    gen,       \* identity provider: the latest token issued
    expired,   \* target: tokens up to this one are answered 401
    spent,     \* identity provider: tokens whose refresh token was exchanged
    lost,      \* an exchange was accepted and its response lost
    cache,     \* LoginProvider.cache: the token served, 0 if none
    inflight,         \* LoginProvider.inflight: the login call, 0 if none
    refreshInflight,  \* LoginProvider.refreshInflight: the rotation, 0 if none
    calls,     \* the signupCall and refreshCall objects, in order of creation
    mints,     \* history: successful logins made through Acquire
    holder,    \* the shared holder's token, 0 before it is built
    sharedMu,  \* who holds loginAuth.sharedMu
    pc, call, cred  \* per goroutine: place, the call it made or joined, local token

idp == <<gen, expired, spent, lost>>
maps == <<cache, inflight, refreshInflight>>
vars == <<gen, expired, spent, lost, cache, inflight, refreshInflight, calls, mints, holder,
          sharedMu, pc, call, cred>>

Gens == 0 .. MaxGen
CallIds == 0 .. MaxCalls

PCs == {"start", "acquire", "login", "minted", "closeLogin", "joinLogin", "acquired",
        "ready", "sent", "refresh", "peek", "exchange", "relogin", "exchanged", "written",
        "closeRefresh", "joinRefresh", "refreshed", "retry", "resent", "failed", "done"}

\* Every token anyone holds was issued.
TypeOK ==
    /\ gen \in Gens /\ expired \in 0 .. gen /\ spent \subseteq 1 .. gen /\ lost \in BOOLEAN
    /\ cache \in 0 .. gen /\ inflight \in CallIds /\ refreshInflight \in CallIds
    /\ calls \in Seq([done : BOOLEAN, cred : 0 .. gen])
    /\ mints \in Nat /\ holder \in 0 .. gen
    /\ sharedMu \in Goroutines \cup {NoOne}
    /\ pc \in [Goroutines -> PCs]
    /\ call \in [Goroutines -> CallIds]
    /\ cred \in [Goroutines -> 0 .. gen]

\* newLoginAuthFromToken, NewLoginProvider.
Init ==
    /\ gen = 0 /\ expired = 0 /\ spent = {} /\ lost = FALSE
    /\ cache = 0 /\ inflight = 0 /\ refreshInflight = 0
    /\ calls = <<>>
    /\ mints = 0 /\ holder = 0
    /\ sharedMu = NoOne
    /\ pc = [c \in Goroutines |-> "start"]
    /\ call = [c \in Goroutines |-> 0]
    /\ cred = [c \in Goroutines |-> 0]

Goto(c, place) == pc' = [pc EXCEPT ![c] = place]

\* A new call object, made by c.
NewCall(c) ==
    /\ Len(calls) < MaxCalls
    /\ calls' = Append(calls, [done |-> FALSE, cred |-> 0])
    /\ call' = [call EXCEPT ![c] = Len(calls) + 1]

----------------------------------------------------------------------------
(* Acquire *)

\* A warmer calls Acquire at once.
WarmerStart(c) ==
    /\ c \in Warmers /\ pc[c] = "start"
    /\ Goto(c, "acquire")
    /\ UNCHANGED <<idp, maps, calls, mints, holder, sharedMu, call, cred>>

\* sharedSeed takes sharedMu; a holder that exists is returned as it is.
SharedSeed(c) ==
    /\ c \in Sessions /\ pc[c] = "start"
    /\ sharedMu = NoOne
    /\ IF holder # 0
       THEN Goto(c, "ready") /\ UNCHANGED sharedMu
       ELSE Goto(c, "acquire") /\ sharedMu' = c
    /\ UNCHANGED <<idp, maps, calls, mints, holder, call, cred>>

\* Acquire: a cached credential is served.
AcquireHit(c) ==
    /\ pc[c] = "acquire"
    /\ cache # 0
    /\ cred' = [cred EXCEPT ![c] = cache]
    /\ Goto(c, "acquired")
    /\ UNCHANGED <<idp, maps, calls, mints, holder, sharedMu, call>>

\* Acquire: a login in flight is joined.
AcquireJoin(c) ==
    /\ pc[c] = "acquire"
    /\ cache = 0 /\ inflight # 0
    /\ call' = [call EXCEPT ![c] = inflight]
    /\ Goto(c, "joinLogin")
    /\ UNCHANGED <<idp, maps, calls, mints, holder, sharedMu, cred>>

\* Acquire: otherwise this caller logs in, without the lock.
AcquireLead(c) ==
    /\ pc[c] = "acquire"
    /\ cache = 0 /\ inflight = 0
    /\ NewCall(c)
    /\ inflight' = Len(calls) + 1
    /\ Goto(c, "login")
    /\ UNCHANGED <<idp, cache, refreshInflight, mints, holder, sharedMu, cred>>

\* The identity provider answers a login: a new token, or a failure.
LoginReturns(c) ==
    /\ pc[c] \in {"login", "relogin"}
    /\ \/ /\ gen < MaxGen
          /\ gen' = gen + 1
          /\ cred' = [cred EXCEPT ![c] = gen + 1]
       \/ cred' = [cred EXCEPT ![c] = 0] /\ UNCHANGED gen
    /\ Goto(c, IF pc[c] = "login" THEN "minted" ELSE "exchanged")
    /\ UNCHANGED <<expired, spent, lost, maps, calls, mints, holder, sharedMu, call>>

\* Acquire's second critical section: a failure is not cached.
AcquireRecord(c) ==
    /\ pc[c] = "minted"
    /\ cache' = IF cred[c] # 0 THEN cred[c] ELSE cache
    /\ mints' = IF cred[c] # 0 THEN mints + 1 ELSE mints
    /\ calls' = [calls EXCEPT ![call[c]].cred = cred[c]]
    /\ inflight' = 0
    /\ Goto(c, "closeLogin")
    /\ UNCHANGED <<idp, refreshInflight, holder, sharedMu, call, cred>>

\* close(call.done) wakes the callers that joined.
CloseLogin(c) ==
    /\ pc[c] = "closeLogin"
    /\ calls' = [calls EXCEPT ![call[c]].done = TRUE]
    /\ Goto(c, "acquired")
    /\ UNCHANGED <<idp, maps, mints, holder, sharedMu, call, cred>>

\* <-call.done
LoginJoined(c) ==
    /\ pc[c] = "joinLogin"
    /\ calls[call[c]].done
    /\ cred' = [cred EXCEPT ![c] = calls[call[c]].cred]
    /\ Goto(c, "acquired")
    /\ UNCHANGED <<idp, maps, calls, mints, holder, sharedMu, call>>

\* Back in the caller: sharedSeed builds the holder and unlocks; a failed seed fails
\* its session.
Acquired(c) ==
    /\ pc[c] = "acquired"
    /\ holder' = IF c \in Sessions /\ cred[c] # 0 THEN cred[c] ELSE holder
    /\ sharedMu' = IF c \in Sessions THEN NoOne ELSE sharedMu
    /\ Goto(c, IF c \in Warmers THEN "done" ELSE IF cred[c] # 0 THEN "ready" ELSE "failed")
    /\ UNCHANGED <<idp, maps, calls, mints, call, cred>>

----------------------------------------------------------------------------
(* Sessions *)

\* runSession reads the holder's credential for the request it sends.
Send(c) ==
    /\ pc[c] = "ready"
    /\ cred' = [cred EXCEPT ![c] = holder]
    /\ Goto(c, "sent")
    /\ UNCHANGED <<idp, maps, calls, mints, holder, sharedMu, call>>

\* The target answers: an expired token gets a 401 and the session refreshes.
Answer(c) ==
    /\ pc[c] = "sent"
    /\ Goto(c, IF cred[c] <= expired THEN "refresh" ELSE "ready")
    /\ UNCHANGED <<idp, maps, calls, mints, holder, sharedMu, call, cred>>

\* The session's walk is over.
Leave(c) ==
    /\ pc[c] = "ready"
    /\ Goto(c, "done")
    /\ UNCHANGED <<idp, maps, calls, mints, holder, sharedMu, call, cred>>

\* Refresh: a rotation in flight is joined.
RefreshJoin(c) ==
    /\ pc[c] = "refresh"
    /\ refreshInflight # 0
    /\ call' = [call EXCEPT ![c] = refreshInflight]
    /\ Goto(c, "joinRefresh")
    /\ UNCHANGED <<idp, maps, calls, mints, holder, sharedMu, cred>>

\* Refresh that does not look for a rotation in flight.
Mut_RefreshLead(c) ==
    /\ pc[c] = "refresh"
    /\ NewCall(c)
    /\ refreshInflight' = Len(calls) + 1
    /\ Goto(c, "peek")
    /\ UNCHANGED <<idp, cache, inflight, mints, holder, sharedMu, cred>>

\* Refresh: otherwise this caller rotates, without the lock.
RefreshLead(c) ==
    /\ pc[c] = "refresh"
    /\ refreshInflight = 0
    /\ NewCall(c)
    /\ refreshInflight' = Len(calls) + 1
    /\ Goto(c, "peek")
    /\ UNCHANGED <<idp, cache, inflight, mints, holder, sharedMu, cred>>

\* refreshOnce, step 1: the current credential is read; without a transport, or a
\* refresh token in that credential, the login runs again.
Peek(c) ==
    /\ pc[c] = "peek"
    /\ cred' = [cred EXCEPT ![c] = cache]
    /\ \/ Transport /\ cache # 0 /\ Goto(c, "exchange")
       \/ Goto(c, "relogin")
    /\ UNCHANGED <<idp, maps, calls, mints, holder, sharedMu, call>>

\* Refresh that takes its entry out before the credential is written back.
Mut_Exchange(c) ==
    /\ pc[c] = "exchange"
    /\ \/ /\ cred[c] \notin spent /\ gen < MaxGen
          /\ gen' = gen + 1
          /\ spent' = spent \cup {cred[c]}
          /\ cred' = [cred EXCEPT ![c] = gen + 1]
       \/ cred' = [cred EXCEPT ![c] = 0] /\ UNCHANGED <<gen, spent>>
    /\ refreshInflight' = 0
    /\ Goto(c, "exchanged")
    /\ UNCHANGED <<expired, lost, cache, inflight, calls, mints, holder, sharedMu, call>>

\* refreshOnce, step 2: the exchange succeeds, is refused (a spent token always is),
\* or succeeds with its response lost.
Exchange(c) ==
    /\ pc[c] = "exchange"
    /\ \/ /\ cred[c] \notin spent /\ gen < MaxGen
          /\ gen' = gen + 1
          /\ spent' = spent \cup {cred[c]}
          /\ \/ cred' = [cred EXCEPT ![c] = gen + 1] /\ UNCHANGED lost
             \/ cred' = [cred EXCEPT ![c] = 0] /\ lost' = TRUE
       \/ cred' = [cred EXCEPT ![c] = 0] /\ UNCHANGED <<gen, spent, lost>>
    /\ Goto(c, "exchanged")
    /\ UNCHANGED <<expired, maps, calls, mints, holder, sharedMu, call>>

\* refreshOnce, step 3: the rotated credential is written back, a failure leaves the
\* cache as it is.
WriteBack(c) ==
    /\ pc[c] = "exchanged"
    /\ cache' = IF cred[c] # 0 THEN cred[c] ELSE cache
    /\ Goto(c, "written")
    /\ UNCHANGED <<idp, inflight, refreshInflight, calls, mints, holder, sharedMu, call, cred>>

\* Refresh's second critical section.
RefreshRecord(c) ==
    /\ pc[c] = "written"
    /\ calls' = [calls EXCEPT ![call[c]].cred = cred[c]]
    /\ refreshInflight' = 0
    /\ Goto(c, "closeRefresh")
    /\ UNCHANGED <<idp, cache, inflight, mints, holder, sharedMu, call, cred>>

\* Refresh whose error path returns without closing the call.
Mut_CloseRefresh(c) ==
    /\ pc[c] = "closeRefresh"
    /\ calls' = [calls EXCEPT ![call[c]].done = cred[c] # 0]
    /\ Goto(c, "refreshed")
    /\ UNCHANGED <<idp, maps, mints, holder, sharedMu, call, cred>>

\* close(call.done)
CloseRefresh(c) ==
    /\ pc[c] = "closeRefresh"
    /\ calls' = [calls EXCEPT ![call[c]].done = TRUE]
    /\ Goto(c, "refreshed")
    /\ UNCHANGED <<idp, maps, mints, holder, sharedMu, call, cred>>

\* <-call.done
RefreshJoined(c) ==
    /\ pc[c] = "joinRefresh"
    /\ calls[call[c]].done
    /\ cred' = [cred EXCEPT ![c] = calls[call[c]].cred]
    /\ Goto(c, "refreshed")
    /\ UNCHANGED <<idp, maps, calls, mints, holder, sharedMu, call>>

\* refreshFunc: on success the holder is rotated and the request retried; on an
\* error the 401 stands.
HolderSet(c) ==
    /\ pc[c] = "refreshed"
    /\ holder' = IF cred[c] # 0 THEN cred[c] ELSE holder
    /\ Goto(c, IF cred[c] # 0 THEN "retry" ELSE "ready")
    /\ UNCHANGED <<idp, maps, calls, mints, sharedMu, call, cred>>

\* The retry reads the holder again.
Retry(c) ==
    /\ pc[c] = "retry"
    /\ cred' = [cred EXCEPT ![c] = holder]
    /\ Goto(c, "resent")
    /\ UNCHANGED <<idp, maps, calls, mints, holder, sharedMu, call>>

\* Whatever the target answers the retry, the walk goes on.
RetryAnswer(c) ==
    /\ pc[c] = "resent"
    /\ Goto(c, "ready")
    /\ UNCHANGED <<idp, maps, calls, mints, holder, sharedMu, call, cred>>

\* The target stops accepting the tokens issued so far.
Expire ==
    /\ expired < gen
    /\ expired' = gen
    /\ UNCHANGED <<gen, spent, lost, maps, calls, mints, holder, sharedMu, pc, call, cred>>

----------------------------------------------------------------------------

Provider(c) ==
    \/ AcquireHit(c) \/ AcquireJoin(c) \/ AcquireLead(c) \/ LoginReturns(c)
    \/ AcquireRecord(c) \/ CloseLogin(c) \/ LoginJoined(c)
    \/ RefreshJoin(c) \/ RefreshLead(c) \/ Peek(c) \/ Exchange(c) \/ WriteBack(c)
    \/ RefreshRecord(c) \/ CloseRefresh(c) \/ RefreshJoined(c)

Caller(c) ==
    \/ WarmerStart(c) \/ SharedSeed(c) \/ Acquired(c)
    \/ Send(c) \/ Answer(c) \/ Leave(c) \/ HolderSet(c) \/ Retry(c) \/ RetryAnswer(c)

Next == Expire \/ \E c \in Goroutines : Provider(c) \/ Caller(c)

Spec == Init /\ [][Next]_vars

\* Goroutines are scheduled, the identity provider answers and every lock is taken in
\* turn. No session has to send, and no token has to expire.
Fairness ==
    \A c \in Goroutines :
        /\ WF_vars(Provider(c) \/ Acquired(c) \/ Answer(c) \/ HolderSet(c) \/ Retry(c)
                   \/ RetryAnswer(c))
        /\ SF_vars(SharedSeed(c))

FairSpec == Spec /\ Fairness

----------------------------------------------------------------------------
(* Properties *)

\* Rotations of the cached credential are single-flighted: seen from outside, the
\* token is minted once, and changes only within one rotation at a time and only to
\* a newer one, although the exchange and its write-back run without the lock.
Rotation == INSTANCE TokenRotation WITH token <- cache, rotating <- refreshInflight # 0
SingleFlight == Rotation!RotationSpec

\* No exchange presents a refresh token that was exchanged before: the credential is
\* written back before the next rotation can read it. Only a response that the
\* network lost can leave a spent token in the cache.
NoSpentExchange ==
    \A c \in Goroutines : pc[c] = "exchange" /\ cred[c] \in spent => lost

\* The provider logs in once: however many goroutines Acquire at the same time, at
\* most one login succeeds.
OneLogin == mints <= 1

\* Callers that shared a login or a rotation come back with the same token: the
\* result is recorded before the call is closed, and a waiter reads the call it
\* joined even if a later one has begun.
JoinersShare ==
    \A c, d \in Goroutines :
        pc[c] \in {"acquired", "refreshed"} /\ pc[d] = pc[c] /\ call[c] = call[d] /\ call[c] # 0
            => cred[c] = cred[d]

\* What the provider does with tokens, in every interleaving of logins, rotations and
\* their joiners: no refresh token is spent twice, the login is made once, and those
\* who share a call share its token.
RefreshSound == NoSpentExchange /\ OneLogin /\ JoinersShare

\* Nobody waits for ever: a session that starts to seed or to refresh gets an answer,
\* whoever leads the call it joined and whatever the identity provider says.
CallersReturn ==
    \A c \in Sessions : pc[c] \in {"acquire", "refresh"} ~>
                        \/ pc[c] \in {"ready", "failed"}
                        \/ Len(calls) = MaxCalls

----------------------------------------------------------------------------
(* The inductive invariant behind RefreshSound and SingleFlight *)

\* The places of the goroutine that leads a login, a rotation, or a call not yet closed.
LoggingIn == {"login", "minted"}
Rotating == {"peek", "exchange", "relogin", "exchanged", "written"}
Leading == LoggingIn \cup Rotating \cup {"closeLogin", "closeRefresh"}

\* The places of a session that was seeded.
Seeded == Rotating \cup {"ready", "sent", "refresh", "closeRefresh", "joinRefresh",
                        "refreshed", "retry", "resent"}

\* A call object has one leader, who alone may still write it, and the maps point to
\* the calls of the login and the rotation that are under way.
CallsInv ==
    /\ \A c \in Goroutines :
         pc[c] \in Leading => call[c] \in 1 .. Len(calls) /\ ~calls[call[c]].done
    /\ \A c, d \in Goroutines :
         pc[c] \in Leading /\ pc[d] \in Leading /\ call[c] = call[d] => c = d
    /\ \A c \in Goroutines : pc[c] \in LoggingIn => call[c] = inflight
    /\ \A c \in Goroutines : pc[c] \in Rotating => call[c] = refreshInflight
    /\ inflight <= Len(calls) /\ refreshInflight <= Len(calls)

\* A login runs only while nothing is cached, and whatever a caller was given, or a
\* session was seeded with, shows that something is.
CacheInv ==
    /\ mints = (IF cache = 0 THEN 0 ELSE 1)
    /\ \A c \in Goroutines :
         /\ pc[c] \in LoggingIn => cache = 0
         /\ pc[c] \in Seeded => cache # 0
         /\ pc[c] \in {"closeLogin", "acquired"} /\ cred[c] # 0 => cache # 0
    /\ \A i \in 1 .. Len(calls) : calls[i].cred # 0 => cache # 0
    /\ holder # 0 => cache # 0
    /\ refreshInflight # 0 => cache # 0

\* Who comes back from a call has the credential the closed call holds.
ShareInv ==
    \A c \in Goroutines :
        /\ pc[c] \in {"start", "acquire"} => call[c] = 0
        /\ pc[c] \in {"joinLogin", "joinRefresh"} => call[c] \in 1 .. Len(calls)
        /\ pc[c] \in {"closeLogin", "closeRefresh"} => cred[c] = calls[call[c]].cred
        /\ pc[c] = "refreshed" \/ (pc[c] = "acquired" /\ call[c] # 0) =>
              call[c] \in 1 .. Len(calls) /\ calls[call[c]].done
              /\ cred[c] = calls[call[c]].cred

\* A spent token is in the cache only while its successor is about to be written
\* back, or when the network lost that successor.
SpentInv ==
    /\ \A c \in Goroutines :
         /\ pc[c] = "exchange" => cred[c] = cache
         /\ pc[c] = "minted" => cred[c] \notin spent
         /\ pc[c] = "exchanged" /\ cred[c] # 0 => cred[c] > cache /\ cred[c] \notin spent
    /\ cache \in spent => lost \/ \E c \in Goroutines : pc[c] = "exchanged" /\ cred[c] # 0

ProviderInv == TypeOK /\ CallsInv /\ CacheInv /\ ShareInv /\ SpentInv
=============================================================================
