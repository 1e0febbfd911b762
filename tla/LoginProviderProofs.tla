------------------------ MODULE LoginProviderProofs ------------------------
(***************************************************************************)
(* Theorems about the login provider, for every set of sessions and        *)
(* warmers, with and without a refresh-token transport, and for every      *)
(* number of tokens and calls.                                             *)
(***************************************************************************)
EXTENDS LoginProvider, SequenceTheorems, TLAPS

Call(n) == [done : BOOLEAN, cred : 0 .. n]

(* What the typing of the state says of its parts. *)

LEMMA StateTypes ==
    ASSUME TypeOK
    PROVE  /\ gen \in Nat /\ gen <= MaxGen /\ MaxGen \in Nat /\ MaxCalls \in Nat
           /\ expired \in Nat /\ expired <= gen
           /\ cache \in Nat /\ cache <= gen /\ holder \in Nat /\ holder <= gen
           /\ calls \in Seq(Call(gen)) /\ Len(calls) \in Nat
           /\ \A c \in Goroutines :
                call[c] \in Nat /\ cred[c] \in Nat /\ cred[c] <= gen /\ pc[c] \in PCs
           /\ spent \subseteq 1 .. gen
           /\ inflight \in Nat /\ refreshInflight \in Nat
           /\ \A i \in 1 .. Len(calls) :
                calls[i].done \in BOOLEAN /\ calls[i].cred \in Nat /\ calls[i].cred <= gen
<1>1. gen \in Nat /\ gen <= MaxGen /\ MaxGen \in Nat /\ MaxCalls \in Nat
  BY BoundsAssumption DEF TypeOK, Gens
<1>2. calls \in Seq(Call(gen)) /\ Len(calls) \in Nat
  BY LenProperties DEF TypeOK, Call
<1>3. \A i \in 1 .. Len(calls) : calls[i] \in Call(gen)
  BY <1>2, ElementOfSeq
<1>4. \A c \in Goroutines :
         call[c] \in Nat /\ cred[c] \in Nat /\ cred[c] <= gen /\ pc[c] \in PCs
  BY <1>1 DEF TypeOK, CallIds
<1>. QED BY <1>1, <1>2, <1>3, <1>4 DEF TypeOK, Call, CallIds

\* A call object that is written keeps its place, and the others are as they were.
LEMMA CallWritten ==
    ASSUME NEW n \in Nat, NEW s \in Seq(Call(n)), NEW i \in 1 .. Len(s), NEW v \in 0 .. n
    PROVE  LET recorded == [s EXCEPT ![i].cred = v]
               closed == [s EXCEPT ![i].done = TRUE]
           IN  /\ recorded \in Seq(Call(n)) /\ Len(recorded) = Len(s)
               /\ closed \in Seq(Call(n)) /\ Len(closed) = Len(s)
               /\ recorded[i].done = s[i].done /\ recorded[i].cred = v
               /\ closed[i].done = TRUE /\ closed[i].cred = s[i].cred
               /\ \A j \in 1 .. Len(s) : j # i => recorded[j] = s[j] /\ closed[j] = s[j]
<1>. DEFINE r == [s[i] EXCEPT !.cred = v]
            t == [s[i] EXCEPT !.done = TRUE]
<1>1. s[i] \in Call(n)
  BY ElementOfSeq
<1>2. /\ r \in Call(n) /\ r.done = s[i].done /\ r.cred = v
      /\ t \in Call(n) /\ t.done = TRUE /\ t.cred = s[i].cred
  BY <1>1 DEF Call
<1>3. [s EXCEPT ![i].cred = v] = [s EXCEPT ![i] = r] /\ [s EXCEPT ![i].done = TRUE] = [s EXCEPT ![i] = t]
  OBVIOUS
<1>. HIDE DEF r, t
<1>4. /\ [s EXCEPT ![i] = r] \in Seq(Call(n)) /\ Len([s EXCEPT ![i] = r]) = Len(s)
      /\ \A j \in 1 .. Len(s) : [s EXCEPT ![i] = r][j] = IF j = i THEN r ELSE s[j]
      /\ [s EXCEPT ![i] = t] \in Seq(Call(n)) /\ Len([s EXCEPT ![i] = t]) = Len(s)
      /\ \A j \in 1 .. Len(s) : [s EXCEPT ![i] = t][j] = IF j = i THEN t ELSE s[j]
  BY <1>2, ExceptSeq
<1>. QED BY <1>2, <1>3, <1>4

\* Tokens issued later widen the type of a call.
LEMMA CallWider ==
    ASSUME NEW n \in Nat, NEW s \in Seq(Call(n))
    PROVE  s \in Seq(Call(n + 1))
<1>1. Call(n) \subseteq Call(n + 1)
  BY DEF Call
<1>. QED BY <1>1, SeqMonotonic

LEMMA CallAdded ==
    ASSUME NEW n \in Nat, NEW s \in Seq(Call(n))
    PROVE  LET t == Append(s, [done |-> FALSE, cred |-> 0])
           IN  /\ t \in Seq(Call(n)) /\ Len(t) = Len(s) + 1
               /\ t[Len(s) + 1] = [done |-> FALSE, cred |-> 0]
               /\ \A j \in 1 .. Len(s) : t[j] = s[j]
<1>1. [done |-> FALSE, cred |-> 0] \in Call(n)
  BY DEF Call
<1>. QED BY <1>1, AppendProperties

LEMMA InitProvider == Init => ProviderInv
<1>. SUFFICES ASSUME Init PROVE ProviderInv
  OBVIOUS
<1>1. Len(calls) = 0 /\ calls \in Seq(Call(gen))
  BY EmptySeq DEF Init
<1>2. TypeOK
  <2>1. gen = 0 /\ 0 \in 0 .. 0 /\ 0 \in 0 .. MaxGen /\ 0 \in 0 .. MaxCalls
    BY BoundsAssumption DEF Init
  <2>2. pc \in [Goroutines -> PCs]
    BY DEF Init, PCs
  <2>3. call \in [Goroutines -> CallIds] /\ cred \in [Goroutines -> 0 .. gen]
    BY <2>1 DEF Init, CallIds
  <2>4. spent \subseteq 1 .. gen /\ lost \in BOOLEAN /\ mints \in Nat
    BY DEF Init
  <2>. QED BY <1>1, <2>1, <2>2, <2>3, <2>4 DEF Init, TypeOK, Gens, CallIds, Call
<1>3. CallsInv /\ CacheInv /\ ShareInv /\ SpentInv
  BY <1>1 DEF Init, CallsInv, CacheInv, ShareInv, SpentInv, Leading, LoggingIn, Rotating, Seeded
<1>. QED BY <1>2, <1>3 DEF ProviderInv

----------------------------------------------------------------------------
(* Typing *)

\* What a step of a goroutine does to the list of calls: nothing, a call added, or its
\* own call written.
LEMMA CallsStep ==
    ASSUME TypeOK, CallsInv, NEW c \in Goroutines, Provider(c) \/ Caller(c)
    PROVE  \/ calls' = calls
           \/ calls' = Append(calls, [done |-> FALSE, cred |-> 0]) /\ UNCHANGED gen
           \/ /\ call[c] \in 1 .. Len(calls) /\ UNCHANGED gen
              /\ \/ calls' = [calls EXCEPT ![call[c]].cred = cred[c]]
                 \/ calls' = [calls EXCEPT ![call[c]].done = TRUE]
<1>. USE DEF idp, maps
<1>1. CASE AcquireRecord(c) \/ CloseLogin(c) \/ RefreshRecord(c) \/ CloseRefresh(c)
  <2>1. pc[c] \in Leading
    BY <1>1 DEF AcquireRecord, CloseLogin, RefreshRecord, CloseRefresh, Leading, LoggingIn, Rotating
  <2>. QED BY <1>1, <2>1 DEF AcquireRecord, CloseLogin, RefreshRecord, CloseRefresh, CallsInv
<1>2. CASE AcquireLead(c) \/ RefreshLead(c)
  BY <1>2 DEF AcquireLead, RefreshLead, NewCall
<1>3. CASE ~(\/ AcquireRecord(c) \/ CloseLogin(c) \/ RefreshRecord(c) \/ CloseRefresh(c)
             \/ AcquireLead(c) \/ RefreshLead(c))
  BY <1>3 DEF Provider, Caller, WarmerStart, SharedSeed, AcquireHit, AcquireJoin, LoginReturns,
     LoginJoined, Acquired, Send, Answer, Leave, RefreshJoin, Peek, Exchange, WriteBack,
     RefreshJoined, HolderSet, Retry, RetryAnswer
<1>. QED BY <1>1, <1>2, <1>3

LEMMA TypeStep ==
    ASSUME ProviderInv, [Next]_vars
    PROVE  TypeOK'
<1>. USE DEF idp, maps
<1>. TypeOK /\ CallsInv /\ CacheInv /\ ShareInv /\ SpentInv
  BY DEF ProviderInv
<1>1. /\ gen \in Nat /\ gen <= MaxGen /\ MaxGen \in Nat /\ MaxCalls \in Nat
      /\ calls \in Seq(Call(gen)) /\ Len(calls) \in Nat
  BY StateTypes
<1>2. ASSUME NEW c \in Goroutines, Provider(c) \/ Caller(c)
      PROVE  TypeOK'
  <2>1. pc' \in [Goroutines -> PCs]
    <3>1. \E x \in PCs : pc' = [pc EXCEPT ![c] = x]
      BY <1>2 DEF PCs, Provider, Caller, Goto, WarmerStart, SharedSeed, AcquireHit,
         AcquireJoin, AcquireLead, LoginReturns, AcquireRecord, CloseLogin, LoginJoined, Acquired,
         Send, Answer, Leave, RefreshJoin, RefreshLead, Peek, Exchange, WriteBack, RefreshRecord,
         CloseRefresh, RefreshJoined, HolderSet, Retry, RetryAnswer
    <3>. QED BY <3>1 DEF TypeOK
  <2>2. gen' \in Gens /\ expired' = expired /\ gen' \in gen .. gen + 1
    BY <1>1, <1>2 DEF TypeOK, Gens, Provider, Caller, WarmerStart, SharedSeed, AcquireHit,
       AcquireJoin, AcquireLead, LoginReturns, AcquireRecord, CloseLogin, LoginJoined, Acquired,
       Send, Answer, Leave, RefreshJoin, RefreshLead, Peek, Exchange, WriteBack, RefreshRecord,
       CloseRefresh, RefreshJoined, HolderSet, Retry, RetryAnswer
  <2>3. calls' \in Seq(Call(gen'))
    <3>1. CASE calls' = calls
      BY <1>1, <2>2, <3>1, CallWider
    <3>2. CASE calls' = Append(calls, [done |-> FALSE, cred |-> 0]) /\ UNCHANGED gen
      BY <1>1, <3>2, CallAdded
    <3>3. CASE /\ call[c] \in 1 .. Len(calls) /\ UNCHANGED gen
               /\ \/ calls' = [calls EXCEPT ![call[c]].cred = cred[c]]
                  \/ calls' = [calls EXCEPT ![call[c]].done = TRUE]
      <4>1. cred[c] \in 0 .. gen
        BY DEF TypeOK
      <4>2. /\ [calls EXCEPT ![call[c]].cred = cred[c]] \in Seq(Call(gen))
            /\ [calls EXCEPT ![call[c]].done = TRUE] \in Seq(Call(gen))
        BY <1>1, <3>3, <4>1, CallWritten
      <4>. QED BY <3>3, <4>2
    <3>. QED BY <1>2, <3>1, <3>2, <3>3, CallsStep
  <2>4. spent' \subseteq 1 .. gen' /\ lost' \in BOOLEAN
    <3>1. CASE Exchange(c)
      <4>1. cred[c] # 0
        BY <3>1 DEF Exchange, CacheInv, SpentInv, Seeded, Rotating
      <4>2. cred[c] \in 1 .. gen /\ gen \in Nat /\ spent \subseteq 1 .. gen /\ lost \in BOOLEAN
        BY <1>1, <4>1 DEF TypeOK
      <4>3. lost' \in BOOLEAN
        BY <3>1, <4>2 DEF Exchange
      <4>4. spent' \subseteq spent \cup {cred[c]} /\ gen' \in Nat /\ gen <= gen'
        BY <3>1, <4>2 DEF Exchange
      <4>5. 1 .. gen \subseteq 1 .. gen'
        BY <4>2, <4>4
      <4>. QED BY <4>2, <4>3, <4>4, <4>5
    <3>2. CASE ~Exchange(c)
      BY <1>1, <1>2, <2>2, <3>2 DEF TypeOK, Provider, Caller, WarmerStart, SharedSeed, AcquireHit,
       AcquireJoin, AcquireLead, LoginReturns, AcquireRecord, CloseLogin, LoginJoined, Acquired,
       Send, Answer, Leave, RefreshJoin, RefreshLead, Peek, WriteBack, RefreshRecord,
       CloseRefresh, RefreshJoined, HolderSet, Retry, RetryAnswer
    <3>. QED BY <3>1, <3>2
  <2>5. cred' \in [Goroutines -> 0 .. gen']
    <3>1. CASE LoginJoined(c) \/ RefreshJoined(c)
      <4>1. call[c] \in 1 .. Len(calls)
        BY <3>1 DEF LoginJoined, RefreshJoined, ShareInv
      <4>2. calls[call[c]].cred \in 0 .. gen
        BY <1>1, <4>1, StateTypes
      <4>. QED BY <3>1, <4>2 DEF LoginJoined, RefreshJoined, TypeOK
    <3>2. CASE LoginReturns(c) \/ Exchange(c)
      <4>1. PICK v \in 0 .. gen' : cred' = [cred EXCEPT ![c] = v]
        BY <1>1, <3>2 DEF LoginReturns, Exchange
      <4>2. cred \in [Goroutines -> 0 .. gen'] /\ gen' \in Nat
        BY <1>1, <2>2 DEF TypeOK
      <4>. QED BY <4>1, <4>2
    <3>3. CASE ~(LoginJoined(c) \/ RefreshJoined(c) \/ LoginReturns(c) \/ Exchange(c))
      BY <1>1, <1>2, <3>3 DEF TypeOK, Provider, Caller, WarmerStart, SharedSeed, AcquireHit,
       AcquireJoin, AcquireLead, AcquireRecord, CloseLogin, Acquired,
       Send, Answer, Leave, RefreshJoin, RefreshLead, Peek, WriteBack, RefreshRecord,
       CloseRefresh, HolderSet, Retry, RetryAnswer
    <3>. QED BY <3>1, <3>2, <3>3
  <2>6. /\ cache' \in 0 .. gen' /\ holder' \in 0 .. gen'
        /\ mints' \in Nat /\ sharedMu' \in Goroutines \cup {NoOne}
    BY <1>1, <1>2, <2>2, SMTT(30) DEF TypeOK, Provider, Caller, WarmerStart, SharedSeed, AcquireHit,
       AcquireJoin, AcquireLead, LoginReturns, AcquireRecord, CloseLogin, LoginJoined, Acquired,
       Send, Answer, Leave, RefreshJoin, RefreshLead, Peek, Exchange, WriteBack, RefreshRecord,
       CloseRefresh, RefreshJoined, HolderSet, Retry, RetryAnswer
  <2>7. /\ call' \in [Goroutines -> CallIds]
        /\ inflight' \in CallIds /\ refreshInflight' \in CallIds
    <3>1. CASE AcquireLead(c) \/ RefreshLead(c)
      <4>1. Len(calls) + 1 \in CallIds
        BY <1>1, <3>1 DEF AcquireLead, RefreshLead, NewCall, CallIds
      <4>. QED BY <3>1, <4>1 DEF AcquireLead, RefreshLead, NewCall, TypeOK
    <3>2. CASE ~(AcquireLead(c) \/ RefreshLead(c))
      <4>1. 0 \in CallIds
        BY <1>1 DEF CallIds
      <4>. QED BY <1>2, <3>2, <4>1 DEF TypeOK, Provider, Caller, WarmerStart, SharedSeed, AcquireHit, AcquireJoin, LoginReturns,
       AcquireRecord, CloseLogin, LoginJoined, Acquired, Send, Answer, Leave, RefreshJoin, Peek,
       Exchange, WriteBack, RefreshRecord, CloseRefresh, RefreshJoined, HolderSet, Retry,
       RetryAnswer
    <3>. QED BY <3>1, <3>2
  <2>. QED BY <2>1, <2>2, <2>3, <2>4, <2>5, <2>6, <2>7, SMTT(30) DEF TypeOK, Call
<1>3. CASE Expire
  BY <1>1, <1>3 DEF Expire, TypeOK
<1>4. CASE UNCHANGED vars
  BY <1>4 DEF vars, TypeOK, Gens, CallIds, PCs
<1>. QED BY <1>2, <1>3, <1>4 DEF Next

----------------------------------------------------------------------------
(* Calls *)

\* The actions that change the list of calls or the maps into it.
CallAction(c) ==
    \/ AcquireLead(c) \/ AcquireRecord(c) \/ CloseLogin(c)
    \/ RefreshLead(c) \/ RefreshRecord(c) \/ CloseRefresh(c)

\* The same, seen from the calls: how long the list is afterwards and what it holds.
LEMMA CallFrame ==
    ASSUME ProviderInv, NEW c \in Goroutines, Provider(c) \/ Caller(c)
    PROVE  /\ Len(calls') \in Nat /\ Len(calls) \in Nat /\ Len(calls) <= Len(calls')
           /\ AcquireLead(c) \/ RefreshLead(c) =>
                /\ Len(calls') = Len(calls) + 1
                /\ calls'[Len(calls) + 1].done = FALSE /\ calls'[Len(calls) + 1].cred = 0
           /\ ~(AcquireLead(c) \/ RefreshLead(c)) => Len(calls') = Len(calls)
           /\ AcquireRecord(c) \/ RefreshRecord(c) =>
                calls'[call[c]].done = calls[call[c]].done /\ calls'[call[c]].cred = cred[c]
           /\ CloseLogin(c) \/ CloseRefresh(c) =>
                calls'[call[c]].done = TRUE /\ calls'[call[c]].cred = calls[call[c]].cred
           /\ \A i \in 1 .. Len(calls) :
                (CallAction(c) => i # call[c] \/ AcquireLead(c) \/ RefreshLead(c)) => calls'[i] = calls[i]
<1>. USE DEF idp, maps
<1>1. /\ gen \in Nat /\ calls \in Seq(Call(gen)) /\ Len(calls) \in Nat /\ cred[c] \in 0 .. gen
      /\ TypeOK /\ CallsInv
  BY StateTypes DEF ProviderInv
<1>2. CASE AcquireLead(c) \/ RefreshLead(c)
  <2>1. calls' = Append(calls, [done |-> FALSE, cred |-> 0])
        /\ ~(AcquireRecord(c) \/ RefreshRecord(c) \/ CloseLogin(c) \/ CloseRefresh(c))
    BY <1>2 DEF AcquireLead, RefreshLead, NewCall, AcquireRecord, RefreshRecord, CloseLogin, CloseRefresh
  <2>2. /\ Len(calls') = Len(calls) + 1
        /\ calls'[Len(calls) + 1] = [done |-> FALSE, cred |-> 0]
        /\ \A j \in 1 .. Len(calls) : calls'[j] = calls[j]
    BY <1>1, <2>1, CallAdded
  <2>3. calls'[Len(calls) + 1].done = FALSE /\ calls'[Len(calls) + 1].cred = 0
    BY <2>2
  <2>4. Len(calls') \in Nat /\ Len(calls) <= Len(calls')
    BY <1>1, <2>2
  <2>5. \A i \in 1 .. Len(calls) : calls'[i] = calls[i]
    BY <2>2
  <2>. QED BY <1>1, <1>2, <2>1, <2>3, <2>4, <2>5, <2>2
<1>3. CASE AcquireRecord(c) \/ RefreshRecord(c) \/ CloseLogin(c) \/ CloseRefresh(c)
  <2>1. /\ pc[c] \in Leading /\ ~(AcquireLead(c) \/ RefreshLead(c))
        /\ ~((AcquireRecord(c) \/ RefreshRecord(c)) /\ (CloseLogin(c) \/ CloseRefresh(c)))
    BY <1>3 DEF AcquireRecord, RefreshRecord, CloseLogin, CloseRefresh, AcquireLead, RefreshLead,
       Leading, LoggingIn, Rotating
  <2>2. call[c] \in 1 .. Len(calls)
    BY <1>1, <2>1 DEF CallsInv
  <2>3. CASE AcquireRecord(c) \/ RefreshRecord(c)
    <3>1. calls' = [calls EXCEPT ![call[c]].cred = cred[c]]
      BY <2>3 DEF AcquireRecord, RefreshRecord
    <3>2. /\ Len(calls') = Len(calls)
          /\ calls'[call[c]].done = calls[call[c]].done /\ calls'[call[c]].cred = cred[c]
          /\ \A j \in 1 .. Len(calls) : j # call[c] => calls'[j] = calls[j]
      BY <1>1, <2>2, <3>1, CallWritten
    <3>. QED BY <1>1, <2>1, <2>3, <3>2 DEF CallAction
  <2>4. CASE CloseLogin(c) \/ CloseRefresh(c)
    <3>1. calls' = [calls EXCEPT ![call[c]].done = TRUE]
      BY <2>4 DEF CloseLogin, CloseRefresh
    <3>2. /\ Len(calls') = Len(calls)
          /\ calls'[call[c]].done = TRUE /\ calls'[call[c]].cred = calls[call[c]].cred
          /\ \A j \in 1 .. Len(calls) : j # call[c] => calls'[j] = calls[j]
      BY <1>1, <2>2, <3>1, CallWritten
    <3>. QED BY <1>1, <2>1, <2>4, <3>2 DEF CallAction
  <2>. QED BY <1>3, <2>3, <2>4
<1>4. CASE ~CallAction(c)
  <2>1. calls' = calls
    BY <1>4 DEF CallAction, Provider, Caller, WarmerStart, SharedSeed, AcquireHit, AcquireJoin, LoginReturns, LoginJoined, Acquired, Send,
       Answer, Leave, RefreshJoin, Peek, Exchange, WriteBack, RefreshJoined, HolderSet, Retry,
       RetryAnswer
  <2>. QED BY <1>1, <1>4, <2>1 DEF CallAction
<1>. QED BY <1>2, <1>3, <1>4 DEF CallAction

LEMMA CallsInvStep ==
    ASSUME ProviderInv, NEW c \in Goroutines, Provider(c) \/ Caller(c)
    PROVE  CallsInv'
<1>. USE DEF idp, maps, Goto, Leading, LoggingIn, Rotating
<1>1. /\ Len(calls) \in Nat /\ TypeOK /\ CallsInv
      /\ \A d \in Goroutines : call[d] \in Nat /\ pc[d] \in PCs
      /\ inflight \in Nat /\ refreshInflight \in Nat
      /\ pc \in [Goroutines -> PCs] /\ call \in [Goroutines -> CallIds]
  BY StateTypes DEF ProviderInv, TypeOK
<1>2. CASE AcquireLead(c) \/ RefreshLead(c)
  <2>1. /\ call'[c] = Len(calls) + 1 /\ Len(calls') = Len(calls) + 1
        /\ \A d \in Goroutines \ {c} : call'[d] = call[d] /\ pc'[d] = pc[d]
        /\ calls'[Len(calls) + 1].done = FALSE
        /\ \A j \in 1 .. Len(calls) : calls'[j] = calls[j]
    BY <1>1, <1>2, CallFrame DEF AcquireLead, RefreshLead, NewCall
  <2>2. \/ /\ pc'[c] = "login" /\ inflight = 0 /\ inflight' = Len(calls) + 1
           /\ refreshInflight' = refreshInflight
        \/ /\ pc'[c] = "peek" /\ refreshInflight = 0 /\ refreshInflight' = Len(calls) + 1
           /\ inflight' = inflight
    BY <1>1, <1>2 DEF AcquireLead, RefreshLead
  <2>3. \A d \in Goroutines \ {c} : pc[d] \in Leading => call[d] \in 1 .. Len(calls)
    BY <1>1 DEF CallsInv
  <2>. QED BY <1>1, <2>1, <2>2, <2>3, SMTT(30) DEF CallsInv
<1>3. CASE AcquireRecord(c) \/ RefreshRecord(c)
  <2>1. /\ Len(calls') = Len(calls) /\ call' = call
        /\ calls'[call[c]].done = calls[call[c]].done
        /\ \A j \in 1 .. Len(calls) : j # call[c] => calls'[j] = calls[j]
    <3>1. CallAction(c) /\ ~(AcquireLead(c) \/ RefreshLead(c)) /\ call' = call
      BY <1>3 DEF CallAction, AcquireRecord, RefreshRecord, AcquireLead, RefreshLead
    <3>. QED BY <1>3, <3>1, CallFrame
  <2>2. \/ /\ pc[c] = "minted" /\ pc'[c] = "closeLogin" /\ inflight' = 0
           /\ refreshInflight' = refreshInflight
        \/ /\ pc[c] = "written" /\ pc'[c] = "closeRefresh" /\ refreshInflight' = 0
           /\ inflight' = inflight
    BY <1>1, <1>3 DEF AcquireRecord, RefreshRecord
  <2>3. \A d \in Goroutines \ {c} : pc'[d] = pc[d]
    BY <1>1, <1>3 DEF AcquireRecord, RefreshRecord
  <2>. QED BY <1>1, <2>1, <2>2, <2>3 DEF CallsInv
<1>4. CASE CloseLogin(c) \/ CloseRefresh(c)
  <2>1. /\ Len(calls') = Len(calls) /\ call' = call
        /\ \A j \in 1 .. Len(calls) : j # call[c] => calls'[j] = calls[j]
    <3>1. CallAction(c) /\ ~(AcquireLead(c) \/ RefreshLead(c)) /\ call' = call
      BY <1>4 DEF CallAction, CloseLogin, CloseRefresh, AcquireLead, RefreshLead
    <3>. QED BY <1>4, <3>1, CallFrame
  <2>. QED BY <1>1, <1>4, <2>1 DEF CloseLogin, CloseRefresh, CallsInv
<1>5. CASE ~CallAction(c)
  <2>1. UNCHANGED <<calls, inflight, refreshInflight>>
    BY <1>5 DEF CallAction, Provider, Caller, WarmerStart, SharedSeed, AcquireHit, AcquireJoin, LoginReturns, LoginJoined, Acquired, Send,
       Answer, Leave, RefreshJoin, Peek, Exchange, WriteBack, RefreshJoined, HolderSet, Retry,
       RetryAnswer
  <2>. QED BY <1>1, <1>5, <2>1, SMTT(30) DEF CallsInv, CallAction, Provider, Caller, WarmerStart,
     SharedSeed, AcquireHit, AcquireJoin, LoginReturns, LoginJoined, Acquired, Send,
       Answer, Leave, RefreshJoin, Peek, Exchange, WriteBack, RefreshJoined, HolderSet, Retry,
       RetryAnswer
<1>. QED BY <1>2, <1>3, <1>4, <1>5 DEF CallAction

----------------------------------------------------------------------------
(* The cache *)

LEMMA CacheInvStep ==
    ASSUME ProviderInv, NEW c \in Goroutines, Provider(c) \/ Caller(c)
    PROVE  CacheInv'
<1>. USE DEF idp, maps, Goto, LoggingIn, Rotating, Seeded
<1>1. /\ Len(calls) \in Nat /\ cache \in Nat /\ mints \in Nat /\ holder \in Nat
      /\ \A d \in Goroutines : call[d] \in Nat /\ pc[d] \in PCs /\ cred[d] \in Nat
      /\ pc \in [Goroutines -> PCs] /\ call \in [Goroutines -> CallIds]
      /\ cred \in [Goroutines -> 0 .. gen]
      /\ CallsInv /\ CacheInv /\ ShareInv
  BY StateTypes DEF ProviderInv, TypeOK
<1>2. CASE AcquireLead(c) \/ RefreshLead(c)
  <2>1. /\ Len(calls') = Len(calls) + 1 /\ calls'[Len(calls) + 1].cred = 0
        /\ \A j \in 1 .. Len(calls) : calls'[j] = calls[j]
    BY <1>2, CallFrame
  <2>2. \A i \in 1 .. Len(calls') : calls'[i].cred # 0 => cache # 0
    BY <1>1, <2>1 DEF CacheInv
  <2>. QED BY <1>1, <1>2, <2>2 DEF AcquireLead, RefreshLead, NewCall, CacheInv
<1>3. CASE AcquireRecord(c)
  <2>1. \A d \in Goroutines \ {c} : pc[d] \notin LoggingIn
    BY <1>1, <1>3 DEF AcquireRecord, CallsInv, Leading
  <2>2. /\ Len(calls') = Len(calls) /\ calls'[call[c]].cred = cred[c]
        /\ \A j \in 1 .. Len(calls) : j # call[c] => calls'[j] = calls[j]
    <3>1. CallAction(c) /\ ~(AcquireLead(c) \/ RefreshLead(c))
      BY <1>3 DEF CallAction, AcquireRecord, AcquireLead, RefreshLead
    <3>. QED BY <1>3, <3>1, CallFrame
  <2>3. cache = 0 /\ mints = 0 /\ cache' = cred[c] /\ mints' = (IF cred[c] # 0 THEN 1 ELSE 0)
    BY <1>1, <1>3 DEF AcquireRecord, CacheInv
  <2>4. \A i \in 1 .. Len(calls') : calls'[i].cred # 0 => cache' # 0
    BY <1>1, <2>2, <2>3 DEF CacheInv
  <2>. QED BY <1>1, <1>3, <2>1, <2>3, <2>4 DEF AcquireRecord, CacheInv
<1>4. CASE CloseLogin(c) \/ CloseRefresh(c)
  <2>1. /\ Len(calls') = Len(calls)
        /\ calls'[call[c]].cred = calls[call[c]].cred
        /\ \A j \in 1 .. Len(calls) : j # call[c] => calls'[j] = calls[j]
    <3>1. CallAction(c) /\ ~(AcquireLead(c) \/ RefreshLead(c))
      BY <1>4 DEF CallAction, CloseLogin, CloseRefresh, AcquireLead, RefreshLead
    <3>. QED BY <1>4, <3>1, CallFrame
  <2>2. \A i \in 1 .. Len(calls') : calls'[i].cred # 0 => cache # 0
    BY <1>1, <2>1 DEF CacheInv
  <2>. QED BY <1>1, <1>4, <2>2 DEF CloseLogin, CloseRefresh, CacheInv
<1>5. CASE RefreshRecord(c)
  <2>1. /\ Len(calls') = Len(calls)
        /\ \A j \in 1 .. Len(calls) : j # call[c] => calls'[j] = calls[j]
    <3>1. CallAction(c) /\ ~(AcquireLead(c) \/ RefreshLead(c))
      BY <1>5 DEF CallAction, RefreshRecord, AcquireLead, RefreshLead
    <3>. QED BY <1>5, <3>1, CallFrame
  <2>2. cache # 0 /\ cache' = cache
    BY <1>1, <1>5 DEF RefreshRecord, CacheInv
  <2>. QED BY <1>1, <1>5, <2>1, <2>2 DEF RefreshRecord, CacheInv
<1>6. CASE WriteBack(c)
  BY <1>1, <1>6 DEF WriteBack, CacheInv
<1>7. CASE LoginJoined(c) \/ RefreshJoined(c)
  <2>1. call[c] \in 1 .. Len(calls)
    BY <1>1, <1>7 DEF LoginJoined, RefreshJoined, ShareInv
  <2>. QED BY <1>1, <1>7, <2>1 DEF LoginJoined, RefreshJoined, CacheInv
<1>8. CASE LoginReturns(c)
  BY <1>1, <1>8 DEF LoginReturns, CacheInv
<1>9. CASE ~(CallAction(c) \/ WriteBack(c) \/ LoginJoined(c) \/ RefreshJoined(c) \/ LoginReturns(c))
  BY <1>1, <1>9 DEF CacheInv, CallAction, Provider, Caller, WarmerStart, SharedSeed, AcquireHit,
       AcquireJoin, Acquired, Send, Answer, Leave, RefreshJoin, Peek, Exchange, HolderSet, Retry,
       RetryAnswer
<1>. QED BY <1>2, <1>3, <1>4, <1>5, <1>6, <1>7, <1>8, <1>9 DEF CallAction

----------------------------------------------------------------------------
(* Joiners and the token they share *)

LEMMA ShareInvStep ==
    ASSUME ProviderInv, NEW c \in Goroutines, Provider(c) \/ Caller(c)
    PROVE  ShareInv'
<1>. USE DEF idp, maps, Goto
<1>1. /\ Len(calls) \in Nat
      /\ \A d \in Goroutines : call[d] \in Nat /\ pc[d] \in PCs /\ cred[d] \in Nat
      /\ pc \in [Goroutines -> PCs] /\ call \in [Goroutines -> CallIds]
      /\ cred \in [Goroutines -> 0 .. gen]
      /\ inflight \in Nat /\ refreshInflight \in Nat
      /\ CallsInv /\ ShareInv
  BY StateTypes DEF ProviderInv, TypeOK
<1>2. CASE AcquireLead(c) \/ RefreshLead(c)
  <2>1. /\ Len(calls') = Len(calls) + 1
        /\ \A j \in 1 .. Len(calls) : calls'[j] = calls[j]
    BY <1>2, CallFrame
  <2>2. /\ \A d \in Goroutines \ {c} : call'[d] = call[d] /\ pc'[d] = pc[d] /\ cred'[d] = cred[d]
        /\ pc'[c] \in {"login", "peek"}
    BY <1>1, <1>2 DEF AcquireLead, RefreshLead, NewCall
  <2>3. \A d \in Goroutines : pc[d] \in {"closeLogin", "closeRefresh"} => call[d] \in 1 .. Len(calls)
    BY <1>1 DEF CallsInv, Leading
  <2>. QED BY <1>1, <2>1, <2>2, <2>3 DEF ShareInv
<1>3. CASE AcquireRecord(c) \/ RefreshRecord(c)
  <2>1. /\ Len(calls') = Len(calls) /\ calls'[call[c]].cred = cred[c]
        /\ \A j \in 1 .. Len(calls) : j # call[c] => calls'[j] = calls[j]
    <3>1. CallAction(c) /\ ~(AcquireLead(c) \/ RefreshLead(c))
      BY <1>3 DEF CallAction, AcquireRecord, RefreshRecord, AcquireLead, RefreshLead
    <3>. QED BY <1>3, <3>1, CallFrame
  <2>2. /\ call' = call /\ cred' = cred /\ \A d \in Goroutines \ {c} : pc'[d] = pc[d]
        /\ pc[c] \in Leading /\ pc'[c] \in {"closeLogin", "closeRefresh"}
    BY <1>1, <1>3 DEF AcquireRecord, RefreshRecord, Leading, LoggingIn, Rotating
  <2>3. ~calls[call[c]].done /\ call[c] \in 1 .. Len(calls)
    BY <1>1, <2>2 DEF CallsInv
  <2>4. \A d \in Goroutines \ {c} :
           pc[d] \in {"closeLogin", "closeRefresh"} => call[d] \in 1 .. Len(calls) /\ call[d] # call[c]
    BY <1>1, <2>2 DEF CallsInv, Leading
  <2>. QED BY <1>1, <2>1, <2>2, <2>3, <2>4 DEF ShareInv
<1>4. CASE CloseLogin(c) \/ CloseRefresh(c)
  <2>1. /\ Len(calls') = Len(calls)
        /\ calls'[call[c]].done = TRUE /\ calls'[call[c]].cred = calls[call[c]].cred
        /\ \A j \in 1 .. Len(calls) : j # call[c] => calls'[j] = calls[j]
    <3>1. CallAction(c) /\ ~(AcquireLead(c) \/ RefreshLead(c))
      BY <1>4 DEF CallAction, CloseLogin, CloseRefresh, AcquireLead, RefreshLead
    <3>. QED BY <1>4, <3>1, CallFrame
  <2>2. /\ call' = call /\ cred' = cred /\ \A d \in Goroutines \ {c} : pc'[d] = pc[d]
        /\ pc[c] \in {"closeLogin", "closeRefresh"} /\ pc'[c] \in {"acquired", "refreshed"}
    BY <1>1, <1>4 DEF CloseLogin, CloseRefresh
  <2>3. call[c] \in 1 .. Len(calls) /\ cred[c] = calls[call[c]].cred
    BY <1>1, <2>2 DEF CallsInv, ShareInv, Leading
  <2>4. \A i \in 1 .. Len(calls) :
           calls'[i].cred = calls[i].cred /\ (calls[i].done => calls'[i].done)
    BY <2>1
  <2>5. \A d \in Goroutines \ {c} :
           pc[d] \in {"closeLogin", "closeRefresh"} => call[d] \in 1 .. Len(calls)
    BY <1>1 DEF CallsInv, Leading
  <2>. QED BY <1>1, <2>1, <2>2, <2>3, <2>4, <2>5 DEF ShareInv
<1>5. CASE AcquireJoin(c) \/ RefreshJoin(c)
  BY <1>1, <1>5 DEF AcquireJoin, RefreshJoin, CallsInv, ShareInv
<1>6. CASE ~(CallAction(c) \/ AcquireJoin(c) \/ RefreshJoin(c))
  BY <1>1, <1>6 DEF ShareInv, CallAction, Provider, Caller, WarmerStart, SharedSeed, AcquireHit,
       LoginReturns, LoginJoined, Acquired, Send, Answer, Leave, Peek, Exchange, WriteBack,
       RefreshJoined, HolderSet, Retry, RetryAnswer
<1>. QED BY <1>2, <1>3, <1>4, <1>5, <1>6 DEF CallAction

----------------------------------------------------------------------------
(* Rotation *)

LEMMA SpentInvStep ==
    ASSUME ProviderInv, NEW c \in Goroutines, Provider(c) \/ Caller(c)
    PROVE  SpentInv'
<1>. USE DEF idp, maps, Goto
<1>1. /\ gen \in Nat /\ cache \in Nat /\ cache <= gen /\ spent \subseteq 1 .. gen
      /\ \A d \in Goroutines : pc[d] \in PCs /\ cred[d] \in Nat /\ cred[d] <= gen
      /\ pc \in [Goroutines -> PCs] /\ cred \in [Goroutines -> 0 .. gen]
      /\ SpentInv /\ 0 \notin spent /\ gen + 1 \notin spent
  BY StateTypes DEF ProviderInv, TypeOK
<1>2. /\ \A d \in Goroutines : pc[d] \in LoggingIn => cache = 0
      /\ \A d \in Goroutines : pc[d] \in Rotating => cache # 0
      /\ \A d, e \in Goroutines : pc[d] \in Rotating /\ pc[e] \in Rotating => d = e
  BY DEF ProviderInv, CallsInv, CacheInv, Seeded, Leading
<1>. USE DEF LoggingIn, Rotating
<1>3. CASE LoginReturns(c)
  BY <1>1, <1>3 DEF LoginReturns, SpentInv
<1>4. CASE AcquireRecord(c)
  BY <1>1, <1>2, <1>4 DEF AcquireRecord, SpentInv
<1>5. CASE Peek(c)
  BY <1>1, <1>5 DEF Peek, SpentInv
<1>6. CASE Exchange(c)
  <2>1. cred[c] = cache /\ pc[c] = "exchange" /\ cache # 0
    BY <1>1, <1>2, <1>6 DEF Exchange, SpentInv
  <2>2. \A d \in Goroutines \ {c} : pc[d] \notin Rotating /\ pc[d] # "minted"
                                  /\ pc'[d] = pc[d] /\ cred'[d] = cred[d]
    BY <1>1, <1>2, <1>6, <2>1 DEF Exchange
  <2>3. pc'[c] = "exchanged" /\ cache' = cache
    BY <1>1, <1>6 DEF Exchange
  <2>4. CASE cred'[c] = 0 /\ UNCHANGED <<gen, spent, lost>>
    BY <1>1, <1>2, <2>1, <2>2, <2>3, <2>4 DEF SpentInv
  <2>5. CASE cred' = [cred EXCEPT ![c] = gen + 1] /\ spent' = spent \cup {cred[c]}
    BY <1>1, <2>1, <2>2, <2>3, <2>5 DEF SpentInv
  <2>6. CASE cred'[c] = 0 /\ lost'
    BY <1>1, <2>1, <2>2, <2>3, <2>6 DEF SpentInv
  <2>. QED BY <1>1, <1>6, <2>4, <2>5, <2>6 DEF Exchange
<1>7. CASE WriteBack(c)
  BY <1>1, <1>2, <1>7 DEF WriteBack, SpentInv
<1>8. CASE ~(LoginReturns(c) \/ AcquireRecord(c) \/ Peek(c) \/ Exchange(c) \/ WriteBack(c))
  <2>1. UNCHANGED <<cache, spent, lost>>
    BY <1>8 DEF Provider, Caller, WarmerStart, SharedSeed, AcquireHit, AcquireJoin, AcquireLead, NewCall, CloseLogin,
       LoginJoined, Acquired, Send, Answer, Leave, RefreshJoin, RefreshLead, RefreshRecord,
       CloseRefresh, RefreshJoined, HolderSet, Retry, RetryAnswer
  <2>2. pc[c] # "exchanged" /\ pc'[c] \notin {"exchange", "minted", "exchanged"}
    BY <1>1, <1>8 DEF Provider, Caller, WarmerStart, SharedSeed, AcquireHit, AcquireJoin, AcquireLead, NewCall, CloseLogin,
       LoginJoined, Acquired, Send, Answer, Leave, RefreshJoin, RefreshLead, RefreshRecord,
       CloseRefresh, RefreshJoined, HolderSet, Retry, RetryAnswer
  <2>3. /\ \A d \in Goroutines \ {c} : pc'[d] = pc[d]
        /\ \A d \in Goroutines \ {c} : cred'[d] = cred[d]
    BY <1>1, <1>8 DEF Provider, Caller, WarmerStart, SharedSeed, AcquireHit, AcquireJoin, AcquireLead, NewCall, CloseLogin,
       LoginJoined, Acquired, Send, Answer, Leave, RefreshJoin, RefreshLead, RefreshRecord,
       CloseRefresh, RefreshJoined, HolderSet, Retry, RetryAnswer
  <2>4. \A d \in Goroutines :
          /\ pc'[d] = "exchange" => cred'[d] = cache'
          /\ pc'[d] = "minted" => cred'[d] \notin spent'
          /\ pc'[d] = "exchanged" /\ cred'[d] # 0 => cred'[d] > cache' /\ cred'[d] \notin spent'
    BY <1>1, <2>1, <2>2, <2>3 DEF SpentInv
  <2>5. cache' \in spent' => lost' \/ \E d \in Goroutines : pc'[d] = "exchanged" /\ cred'[d] # 0
    <3>. SUFFICES ASSUME cache \in spent, ~lost
                  PROVE  \E d \in Goroutines : pc'[d] = "exchanged" /\ cred'[d] # 0
      BY <2>1
    <3>1. PICK d \in Goroutines : pc[d] = "exchanged" /\ cred[d] # 0
      BY <1>1 DEF SpentInv
    <3>. QED BY <2>2, <2>3, <3>1
  <2>. QED BY <2>4, <2>5 DEF SpentInv
<1>. QED BY <1>3, <1>4, <1>5, <1>6, <1>7, <1>8

----------------------------------------------------------------------------
(* Theorems *)

LEMMA ProviderStep == ProviderInv /\ [Next]_vars => ProviderInv'
<1>. SUFFICES ASSUME ProviderInv, [Next]_vars PROVE ProviderInv'
  OBVIOUS
<1>1. TypeOK'
  BY TypeStep
<1>2. CASE \E c \in Goroutines : Provider(c) \/ Caller(c)
  BY <1>1, <1>2, CallsInvStep, CacheInvStep, ShareInvStep, SpentInvStep DEF ProviderInv
<1>3. CASE Expire \/ UNCHANGED vars
  <2>1. UNCHANGED <<gen, spent, lost, maps, calls, mints, holder, sharedMu, pc, call, cred>>
    BY <1>3 DEF Expire, vars, idp, maps
  <2>2. CallsInv' /\ CacheInv' /\ ShareInv' /\ SpentInv'
    BY <2>1 DEF maps, ProviderInv, CallsInv, CacheInv, ShareInv, SpentInv
  <2>. QED BY <1>1, <2>2 DEF ProviderInv
<1>. QED BY <1>2, <1>3 DEF Next

\* The inductive invariant of the provider's cache, its two single-flight maps and
\* their callers (Acquire, Refresh and refreshOnce).
THEOREM ProviderInvariance == Spec => []ProviderInv
  BY InitProvider, ProviderStep, PTL DEF Spec

\* Type correctness: every token anyone holds was issued.
THEOREM TokensIssued == Spec => []TypeOK
<1>1. ProviderInv => TypeOK
  BY DEF ProviderInv
<1>. QED BY <1>1, ProviderInvariance, PTL

\* However many sessions refresh and however logins, rotations and their joiners
\* interleave: no refresh token is presented twice unless the network lost the answer
\* to the first time, the login is made once, and those who share a call come back
\* with the same token.
THEOREM ProviderSound == Spec => []RefreshSound
<1>1. ProviderInv => RefreshSound
  <2>. SUFFICES ASSUME ProviderInv PROVE RefreshSound
    OBVIOUS
  <2>1. NoSpentExchange
    <3>. SUFFICES ASSUME NEW c \in Goroutines, pc[c] = "exchange", cred[c] \in spent
                  PROVE  lost
      BY DEF NoSpentExchange
    <3>1. cred[c] = cache
      BY DEF ProviderInv, SpentInv
    <3>2. \A d \in Goroutines : pc[d] # "exchanged"
      BY DEF ProviderInv, CallsInv, Leading, Rotating
    <3>. QED BY <3>1, <3>2 DEF ProviderInv, SpentInv
  <2>2. OneLogin
    BY DEF ProviderInv, CacheInv, OneLogin
  <2>3. JoinersShare
    BY DEF ProviderInv, ShareInv, JoinersShare
  <2>. QED BY <2>1, <2>2, <2>3 DEF RefreshSound
<1>. QED BY <1>1, ProviderInvariance, PTL

\* Every step of the provider is a step of the abstract rotation or changes nothing it
\* shows.
LEMMA RotationStep == ProviderInv /\ [Next]_vars => [Rotation!RotationNext]_(Rotation!rotationVars)
<1>. SUFFICES ASSUME ProviderInv, [Next]_vars
              PROVE  [Rotation!RotationNext]_(Rotation!rotationVars)
  OBVIOUS
<1>. USE DEF idp, maps, Rotation!rotationVars
<1>1. /\ cache \in Nat /\ Len(calls) \in Nat /\ CallsInv /\ CacheInv /\ SpentInv
      /\ \A d \in Goroutines : cred[d] \in Nat /\ call[d] \in Nat
  BY StateTypes DEF ProviderInv
<1>2. ASSUME NEW c \in Goroutines, Provider(c) \/ Caller(c)
      PROVE  [Rotation!RotationNext]_(Rotation!rotationVars)
  <2>1. CASE AcquireRecord(c)
    <3>1. cache = 0 /\ refreshInflight = 0 /\ refreshInflight' = refreshInflight
      BY <1>1, <2>1 DEF AcquireRecord, CacheInv, LoggingIn
    <3>2. cache' = cred[c] /\ cred[c] \in Nat
      BY <1>1, <2>1, <3>1 DEF AcquireRecord
    <3>3. CASE cred[c] # 0
      BY <3>1, <3>2, <3>3 DEF Rotation!RotationNext, Rotation!Mint
    <3>4. CASE cred[c] = 0
      BY <3>1, <3>2, <3>4
    <3>. QED BY <3>3, <3>4
  <2>2. CASE RefreshLead(c)
    <3>1. cache # 0 /\ refreshInflight = 0 /\ refreshInflight' # 0 /\ cache' = cache
      BY <1>1, <2>2 DEF RefreshLead, CacheInv, Seeded
    <3>. QED BY <3>1 DEF Rotation!RotationNext, Rotation!Begin
  <2>3. CASE WriteBack(c)
    <3>1. refreshInflight # 0 /\ refreshInflight' = refreshInflight
      BY <1>1, <2>3 DEF WriteBack, CallsInv, Leading, Rotating
    <3>2. cred[c] # 0 => cred[c] > cache /\ cache' = cred[c]
      BY <1>1, <2>3 DEF WriteBack, SpentInv
    <3>3. CASE cred[c] # 0
      BY <1>1, <3>1, <3>2, <3>3 DEF Rotation!RotationNext, Rotation!Rotate
    <3>4. CASE cred[c] = 0
      BY <2>3, <3>1, <3>4 DEF WriteBack
    <3>. QED BY <3>3, <3>4
  <2>4. CASE RefreshRecord(c)
    <3>1. refreshInflight # 0 /\ refreshInflight' = 0 /\ cache' = cache
      BY <1>1, <2>4 DEF RefreshRecord, CallsInv, Leading, Rotating
    <3>. QED BY <3>1 DEF Rotation!RotationNext, Rotation!End
  <2>5. CASE ~(AcquireRecord(c) \/ RefreshLead(c) \/ WriteBack(c) \/ RefreshRecord(c))
    <3>1. UNCHANGED <<cache, refreshInflight>>
      BY <1>2, <2>5 DEF Provider, Caller, WarmerStart, SharedSeed, AcquireHit, AcquireJoin,
         AcquireLead, LoginReturns, CloseLogin, LoginJoined, Acquired, Send, Answer, Leave,
         RefreshJoin, Peek, Exchange, CloseRefresh, RefreshJoined, HolderSet, Retry, RetryAnswer
    <3>. QED BY <3>1
  <2>. QED BY <2>1, <2>2, <2>3, <2>4, <2>5
<1>3. CASE Expire \/ UNCHANGED vars
  BY <1>3 DEF Expire, vars
<1>. QED BY <1>2, <1>3 DEF Next

\* The provider implements the abstract rotation: the token it serves is minted once,
\* and replaced only within one rotation at a time and only by a newer one.
THEOREM ImplementsRotation == Spec => SingleFlight
<1>1. Init => Rotation!RotationInit
  BY DEF Init, Rotation!RotationInit
<1>. QED BY <1>1, RotationStep, ProviderInvariance, PTL DEF Spec, SingleFlight, Rotation!RotationSpec
=============================================================================
