------------------------------ MODULE Console ------------------------------
(***************************************************************************)
(* Everything that looks at one run while it executes, ends, is persisted, *)
(* is evicted and outlives its engine: the live streams, the share links,  *)
(* the reproduce calls that write verdicts back, the command line that     *)
(* polls for an exit code, and the store with its snapshot file.           *)
(*                                                                         *)
(* A behaviour has the clients and the disturbances of one group of        *)
(* Groups, so that the groups' state spaces add up instead of multiplying. *)
(* Time advances in steps as wide as one column of the latency grid.       *)
(* A run's own sessions are abstracted to the step events they emit.       *)
(***************************************************************************)
EXTENDS Gate

CONSTANTS
    Groups,          \* sets of names from Clients \cup Disturbances
    Events,          \* the step events a session may emit
    HeatEdges,       \* the graph's transitions, in the order of heatAgg.edges
    Sessions,        \* the run's concurrent sessions
    MaxEvents,       \* bound: events one session emits
    Outcomes,        \* sets of findings the run may be classified with
    Requests,        \* reproduce requests
    Replays,         \* what one isolated replay of a session may answer
    Flags,           \* command lines
    TTLs,            \* ttl parameters of a share request: <<>> or <<seconds>>
    MaxTokens,       \* bound: share links ever created
    MaxNow,          \* bound: the clock
    MaxLives,        \* bound: engine processes
    traceBufCap, latencyMaxCols, maxRetainedShares,
    defaultReproduceAttempts, maxReproduceAttempts

Reproducers == {"repro1", "repro2"}
Watchers == {"trace", "heat", "latency", "stats"}
Clients == Reproducers \cup Watchers \cup {"sharer", "viewer", "cli"}
\* killer: POST /kill; evictor: later runs push this one out of the cache;
\* operator: stops, crashes and restarts the engine; flaky: a store write may fail.
Disturbances == {"killer", "evictor", "operator", "flaky"}

StepEvent == [edge : STRING, ok : BOOLEAN, row : {0, 1}, terminal : BOOLEAN]
StepResult == [node : STRING, err : BOOLEAN, status : Nat, slow : BOOLEAN]
\* What the run classifies: a finding, and whether it carries session coordinates.
RunFinding == [category : STRING, ref : STRING, severity : {"warning", "critical"},
               sessions : BOOLEAN]
ReproduceRequest == [category : STRING, ref : STRING, attempts : Int]

ASSUME ConsoleAssumption ==
    /\ \A g \in Groups : g \subseteq Clients \cup Disturbances
    /\ Events \subseteq StepEvent /\ IsFiniteSet(Events) /\ IsFiniteSet(Sessions)
    /\ HeatEdges \in Seq(STRING)
    /\ \A fs \in Outcomes : fs \subseteq RunFinding /\ IsFiniteSet(fs)
                            /\ \A f, g \in fs : keyOf(f) = keyOf(g) => f = g
    /\ Requests \subseteq ReproduceRequest
    /\ \A r \in Replays : r \in Seq(StepResult)
    /\ Flags \subseteq CLIFlags
    /\ {MaxEvents, MaxTokens, MaxNow, MaxLives, traceBufCap, latencyMaxCols,
        maxRetainedShares, defaultReproduceAttempts, maxReproduceAttempts} \subseteq Nat
    /\ traceBufCap > 0 /\ latencyMaxCols > 0 /\ maxRetainedShares > 0

VARIABLES
    who,        \* the clients and disturbances of this behaviour
    now,        \* the clock
    spec,       \* the run's spec: [open, trace, small]
    exec,       \* the execute goroutine: [pc, err, rep]
    rs,         \* the live run state: [status, findings, class, total, cancelled]
    viz,        \* its heatmap counters, trace ring and latency grid
    session,    \* where each session is in the event sink
    cache,      \* [run, spec]: whether s.runs and s.specs hold the run and its spec
    store,      \* the store's rows for this run: [run, stats, findings, class]
    disk,       \* the snapshot file and its sibling: [here, whole, snap, next]
    engine,     \* "up", "draining", "marshal", "write", "rename" or "down"
    lives,      \* engine processes so far
    annotateMu, \* the holder of the annotation lock, or Unlocked
    shares,     \* the share registry: [m, order], and the tokens issued; tokens are
                \* numbered as they are issued, so the set order is also a slice
    at,         \* each client's own state
    outcome,    \* history: what the run ended with, [status, findings]
    sent        \* history: how often each event was emitted

vars == <<who, now, spec, exec, rs, viz, session, cache, store, disk, engine, lives,
          annotateMu, shares, at, outcome, sent>>

runVars == <<spec, exec, rs, viz, session, sent, outcome>>
engineVars == <<cache, store, disk, engine, lives>>
clientVars == <<annotateMu, shares, at>>

NoRun == "none"
Unlocked == "unlocked"
Terminal == {"completed", "failed", "killed"}
EmptyStore == [run |-> NoRun, stats |-> 0, findings |-> {}, class |-> <<>>]
NoShares == [m |-> <<>>, order |-> {}, issued |-> 0]

\* A handler or a goroutine takes steps until the process is gone.
Alive == engine # "down"
\* New requests are answered until the listener is closed.
Serving == engine \in {"up", "draining"}

Idle == [pc |-> "idle"]

\* The sum of f over S.
Total(f, S) == Cardinality(UNION {{x} \X (1 .. f[x]) : x \in S})

(***************************************************************************)
(* Reports                                                                 *)
(***************************************************************************)
\* runState.report: the status and the findings are copied under one lock.
report == [run |-> rs.status, stats |-> rs.total, findings |-> rs.findings, class |-> rs.class]

\* From the cache, else rebuilt from the store; absent stats or findings are zero.
reportFromStore == IF store.run = NoRun THEN <<>> ELSE <<store>>

reportFor == IF cache.run THEN <<report>> ELSE reportFromStore

(***************************************************************************)
(* The event sink of a traced run                                          *)
(***************************************************************************)
newHeatAgg == [i \in DOMAIN HeatEdges |-> [req |-> 0, err |-> 0]]

Slot(e) == {i \in DOMAIN HeatEdges : HeatEdges[i] = e.edge}

addRequest(heat, S) ==
    [i \in DOMAIN heat |-> IF i \in S THEN [heat[i] EXCEPT !.req = @ + 1] ELSE heat[i]]

addError(heat, S) ==
    [i \in DOMAIN heat |-> IF i \in S THEN [heat[i] EXCEPT !.err = @ + 1] ELSE heat[i]]

\* heatAgg.record adds to two counters without a lock: first the requests.
RecordRequest(s, e) ==
    /\ Alive /\ exec.pc = "run" /\ spec.trace
    /\ session[s].pc = "idle" /\ session[s].left > 0
    /\ sent' = [sent EXCEPT ![e] = @ + 1]
    /\ rs' = [rs EXCEPT !.total = @ + 1]
    /\ viz' = [viz EXCEPT !.heat = addRequest(@, Slot(e))]
    /\ session' = [session EXCEPT ![s] =
                     [left |-> @.left - 1, ev |-> e,
                      pc |-> IF Slot(e) # {} /\ ~e.ok THEN "err" ELSE "trace"]]
    /\ UNCHANGED <<who, now, spec, exec, outcome>> /\ UNCHANGED <<engineVars, clientVars>>

\* ... then the errors.
RecordError(s) ==
    /\ Alive /\ session[s].pc = "err"
    /\ viz' = [viz EXCEPT !.heat = addError(@, Slot(session[s].ev))]
    /\ session' = [session EXCEPT ![s].pc = "trace"]
    /\ UNCHANGED <<who, now, spec, exec, rs, sent, outcome>> /\ UNCHANGED <<engineVars, clientVars>>

\* traceBuf.add: a full ring drops its oldest event.
AddTrace(s) ==
    /\ Alive /\ session[s].pc = "trace"
    /\ viz' = IF ~spec.small THEN viz
              ELSE [viz EXCEPT !.seq = @ + 1,
                               !.ring = Append(IF Len(@) < traceBufCap THEN @ ELSE Tail(@),
                                               viz.seq + 1)]
    /\ session' = [session EXCEPT ![s].pc = IF session[s].ev.terminal THEN "idle" ELSE "latency"]
    /\ UNCHANGED <<who, now, spec, exec, rs, sent, outcome>> /\ UNCHANGED <<engineVars, clientVars>>

\* latencyHeat.record: one cell of the column the clock is in.
RecordLatency(s) ==
    /\ Alive /\ session[s].pc = "latency"
    /\ viz' = [viz EXCEPT !.grid[now][session[s].ev.row] = @ + 1]
    /\ session' = [session EXCEPT ![s].pc = "idle"]
    /\ UNCHANGED <<who, now, spec, exec, rs, sent, outcome>> /\ UNCHANGED <<engineVars, clientVars>>

(***************************************************************************)
(* The execute goroutine                                                   *)
(***************************************************************************)
\* The sessions have returned, with or without an error.
EndRun(err) ==
    /\ Alive /\ exec.pc = "run" /\ \A s \in Sessions : session[s].pc = "idle"
    /\ exec' = [exec EXCEPT !.pc = "classify", !.err = err]
    /\ UNCHANGED <<who, now, spec, rs, viz, session, sent, outcome>>
    /\ UNCHANGED <<engineVars, clientVars>>

\* An open run hands its findings over only when it did not fail.
Classify(fs) ==
    /\ Alive /\ exec.pc = "classify"
    /\ rs' = IF spec.open /\ exec.err THEN rs
             ELSE [rs EXCEPT !.findings = fs, !.class = [k \in keySet(fs) |-> ""]]
    /\ exec' = [exec EXCEPT !.pc = "finalize"]
    /\ UNCHANGED <<who, now, spec, viz, session, sent, outcome>>
    /\ UNCHANGED <<engineVars, clientVars>>

FinalStatus ==
    CASE rs.status = "killed" \/ rs.cancelled -> "killed"
      [] rs.status # "killed" /\ ~rs.cancelled /\ exec.err -> "failed"
      [] OTHER -> "completed"

\* The final status is published before the findings are.
Mut_Finalize ==
    /\ Alive /\ exec.pc \in {"classify", "finalize"}
    /\ rs' = [rs EXCEPT !.status = FinalStatus]
    /\ outcome' = [status |-> FinalStatus, findings |-> rs.findings]
    /\ exec' = [exec EXCEPT !.pc = IF @ = "classify" THEN @ ELSE "capture"]
    /\ UNCHANGED <<who, now, spec, viz, session, sent>> /\ UNCHANGED <<engineVars, clientVars>>

Finalize ==
    /\ Alive /\ exec.pc = "finalize"
    /\ rs' = [rs EXCEPT !.status = FinalStatus]
    /\ outcome' = [status |-> FinalStatus, findings |-> rs.findings]
    /\ exec' = [exec EXCEPT !.pc = "capture"]
    /\ UNCHANGED <<who, now, spec, viz, session, sent>> /\ UNCHANGED <<engineVars, clientVars>>

\* persistRun works from one copy of the report.
Capture ==
    /\ Alive /\ exec.pc = "capture"
    /\ exec' = [exec EXCEPT !.pc = "run row", !.rep = <<report>>]
    /\ UNCHANGED <<who, now, spec, rs, viz, session, sent, outcome>>
    /\ UNCHANGED <<engineVars, clientVars>>

WriteOutcomes == IF "flaky" \in who THEN {TRUE, FALSE} ELSE {TRUE}

\* Three writes, each of which may fail without stopping the next.
Persist(ok) ==
    /\ Alive
    /\ \/ /\ exec.pc = "run row"
          /\ exec' = [exec EXCEPT !.pc = "stats row"]
          /\ store' = IF ok THEN [store EXCEPT !.run = exec.rep[1].run] ELSE store
       \/ /\ exec.pc = "stats row"
          /\ exec' = [exec EXCEPT !.pc = "findings row"]
          /\ store' = IF ok THEN [store EXCEPT !.stats = exec.rep[1].stats] ELSE store
       \/ /\ exec.pc = "findings row"
          /\ exec' = [exec EXCEPT !.pc = "done"]
          /\ store' = IF ok THEN [store EXCEPT !.findings = exec.rep[1].findings,
                                               !.class = exec.rep[1].class] ELSE store
    /\ UNCHANGED <<who, now, spec, rs, viz, session, sent, outcome>>
    /\ UNCHANGED <<cache, disk, engine, lives, clientVars>>

\* POST /runs/{id}/kill: only a running run, found in the cache.
killRun ==
    /\ "killer" \in who /\ Serving /\ cache.run /\ rs.status = "running"
    /\ rs' = [rs EXCEPT !.status = "killed", !.cancelled = TRUE]
    /\ UNCHANGED <<who, now, spec, exec, viz, session, sent, outcome>>
    /\ UNCHANGED <<engineVars, clientVars>>

\* enforceRunCapLocked on behalf of a later run.  Specs are kept under the
\* experiment's id and deleted under the run's, so the spec stays.
Evict ==
    /\ "evictor" \in who /\ Serving /\ cache.run /\ rs.status \in Terminal
    /\ cache' = [cache EXCEPT !.run = FALSE]
    /\ UNCHANGED <<who, now, store, disk, engine, lives>> /\ UNCHANGED <<runVars, clientVars>>

(***************************************************************************)
(* The engine process and its snapshot file                                *)
(***************************************************************************)
\* A signal: Shutdown cancels the runs in the cache.
Stop ==
    /\ "operator" \in who /\ engine = "up"
    /\ engine' = "draining"
    /\ rs' = [rs EXCEPT !.cancelled = @ \/ cache.run]
    /\ UNCHANGED <<who, now, spec, exec, viz, session, sent, outcome>>
    /\ UNCHANGED <<cache, store, disk, lives, clientVars>>

\* It waits for them, or for its five seconds.
Drained ==
    /\ engine = "draining"
    /\ engine' = "marshal"
    /\ UNCHANGED <<who, now, cache, store, disk, lives>> /\ UNCHANGED <<runVars, clientVars>>

\* The closer writes the snapshot over the old file; a crash meanwhile truncates it.
Mut_SaveToFile ==
    /\ \/ /\ engine = "marshal" /\ engine' = "write"
          /\ disk' = [disk EXCEPT !.next = store, !.here = TRUE, !.whole = FALSE]
       \/ /\ engine = "write" /\ engine' = "rename" /\ UNCHANGED disk
       \/ /\ engine = "write" /\ engine' = "down" /\ UNCHANGED disk
       \/ /\ engine = "rename" /\ engine' = "down"
          /\ disk' = [disk EXCEPT !.here = TRUE, !.whole = TRUE, !.snap = disk.next]
    /\ UNCHANGED <<who, now, cache, store, lives>> /\ UNCHANGED <<runVars, clientVars>>

\* The closer: marshal under the read lock, write a sibling file (which may
\* fail), rename it over the old one; then the process exits.
SaveToFile ==
    /\ \/ /\ engine = "marshal" /\ engine' = "write"
          /\ disk' = [disk EXCEPT !.next = store]
       \/ /\ engine = "write" /\ engine' = "rename" /\ UNCHANGED disk
       \/ /\ engine = "write" /\ engine' = "down" /\ UNCHANGED disk
       \/ /\ engine = "rename" /\ engine' = "down"
          /\ disk' = [disk EXCEPT !.here = TRUE, !.whole = TRUE, !.snap = disk.next]
    /\ UNCHANGED <<who, now, cache, store, lives>> /\ UNCHANGED <<runVars, clientVars>>

Crash ==
    /\ "operator" \in who /\ Alive
    /\ engine' = "down"
    /\ UNCHANGED <<who, now, cache, store, disk, lives>> /\ UNCHANGED <<runVars, clientVars>>

\* LoadFromFile: a missing or unreadable snapshot starts an empty store.
LoadFromFile == IF disk.here /\ disk.whole THEN disk.snap ELSE EmptyStore

\* The handlers, the run, the cache, the specs and the share links are gone.
Restart ==
    /\ engine = "down" /\ lives < MaxLives
    /\ engine' = "up" /\ lives' = lives + 1
    /\ store' = LoadFromFile
    /\ cache' = [run |-> FALSE, spec |-> FALSE]
    /\ exec' = [exec EXCEPT !.pc = "gone"]
    /\ session' = [s \in Sessions |-> [session[s] EXCEPT !.pc = "gone"]]
    /\ annotateMu' = Unlocked /\ shares' = [NoShares EXCEPT !.issued = shares.issued]
    /\ at' = [c \in Clients |-> IF at[c].pc \in {"idle", "exited"} THEN at[c] ELSE Idle]
    /\ UNCHANGED <<who, now, spec, rs, viz, sent, outcome, disk>>

(***************************************************************************)
(* Reproduce                                                               *)
(***************************************************************************)
\* Which replayed request carries the finding's signal; hasSignal: whether any can.
findingSignal(f, r) ==
    CASE f.category = "contract" -> r.node = f.ref /\ ~r.err /\ r.status >= 500
      [] f.category = "availability" -> r.node = f.ref /\ (r.err \/ r.status >= 500)
      [] f.category = "threshold" /\ f.ref = "error-rate" -> r.err \/ r.status >= 400
      [] f.category = "threshold" /\ f.ref = "p95-latency" -> ~r.err /\ r.slow

hasSignal(f) ==
    \/ f.category \in {"contract", "availability"}
    \/ f.category = "threshold" /\ f.ref \in {"error-rate", "p95-latency"}

buildAttempt(results, f) == \E i \in DOMAIN results : findingSignal(f, results[i])

rootCauseClass(reproduced, attempts) ==
    CASE reproduced = attempts -> "functional"
      [] reproduced = 0 -> "load-dependent"
      [] OTHER -> "flaky"

findingByKey(fs, req) == {f \in fs : f.category = req.category /\ f.ref = req.ref}

Attempts(req) == IF req.attempts = 0 THEN defaultReproduceAttempts ELSE req.attempts

\* The answer a request is refused with, or 0.  The safety policy, the persona
\* of the session and its credential may each refuse too: 403, 422, 410, 400.
Refusal(req) ==
    LET found == findingByKey(reportFor[1].findings, req)
        f == CHOOSE g \in found : TRUE
    IN  IF Attempts(req) \notin 1 .. maxReproduceAttempts THEN {400}
        ELSE IF reportFor = <<>> \/ found = {} THEN {404}
        ELSE IF f.category = "mutation" \/ ~f.sessions THEN {422}
        ELSE IF ~cache.spec THEN {410}
        ELSE {403, 422, 410, 400} \cup {code \in {0} : hasSignal(f)}

Reproduce(c, req) ==
    /\ c \in who \cap Reproducers /\ Serving /\ at[c].pc = "idle"
    /\ \E code \in Refusal(req) :
          at' = [at EXCEPT ![c] =
                   IF code # 0 THEN [pc |-> "answered", code |-> code]
                   ELSE [pc |-> "replay", key |-> keyOf(req), left |-> Attempts(req),
                         of |-> Attempts(req), hits |-> 0,
                         f |-> CHOOSE g \in findingByKey(reportFor[1].findings, req) : TRUE]]
    /\ UNCHANGED <<who, now, annotateMu, shares>> /\ UNCHANGED <<runVars, engineVars>>

\* One isolated replay; the caller may go away or the session may not start.
Replay(c, results) ==
    /\ Alive /\ at[c].pc = "replay" /\ at[c].left > 0
    /\ \/ at' = [at EXCEPT ![c].left = @ - 1,
                           ![c].hits = @ + IF buildAttempt(results, at[c].f) THEN 1 ELSE 0]
       \/ at' = [at EXCEPT ![c] = [pc |-> "answered", code |-> 400]]
    /\ UNCHANGED <<who, now, annotateMu, shares>> /\ UNCHANGED <<runVars, engineVars>>

Stamp(class, key, verdict) == IF key \in DOMAIN class THEN [class EXCEPT ![key] = verdict] ELSE class

\* annotateRootCause, first half: the live copy, when the run is still cached.
AnnotateLive(c) ==
    /\ Alive /\ at[c].pc = "replay" /\ at[c].left = 0
    /\ LET verdict == rootCauseClass(at[c].hits, at[c].of)
       IN  /\ rs' = IF cache.run THEN [rs EXCEPT !.class = Stamp(@, at[c].key, verdict)] ELSE rs
           /\ at' = [at EXCEPT ![c] = [pc |-> "annotate", key |-> at[c].key, verdict |-> verdict]]
    /\ UNCHANGED <<who, now, annotateMu, shares>>
    /\ UNCHANGED <<spec, exec, viz, session, sent, outcome, engineVars>>

Answered(c, saved) ==
    at' = [at EXCEPT ![c] = [pc |-> "answered", code |-> 200, key |-> at[c].key,
                             verdict |-> at[c].verdict, saved |-> saved]]

\* The store's rows are read without the lock that serializes the update.
Mut_AnnotateRead(c) ==
    /\ Alive /\ at[c].pc = "annotate"
    /\ \/ /\ at[c].key \in DOMAIN store.class
          /\ at' = [at EXCEPT ![c] = [pc |-> "save", key |-> at[c].key, verdict |-> at[c].verdict,
                                      rows |-> Stamp(store.class, at[c].key, at[c].verdict),
                                      fs |-> store.findings]]
          /\ UNCHANGED annotateMu
       \/ /\ at[c].key \notin DOMAIN store.class \/ "flaky" \in who
          /\ Answered(c, FALSE)
          /\ UNCHANGED annotateMu
    /\ UNCHANGED <<who, now, shares>> /\ UNCHANGED <<runVars, engineVars>>

\* Second half: read the rows, stamp the one finding, write them all back under
\* annotateMu.  No row to stamp, or a read that fails, ends it.
AnnotateRead(c) ==
    /\ Alive /\ at[c].pc = "annotate" /\ annotateMu = Unlocked
    /\ \/ /\ at[c].key \in DOMAIN store.class
          /\ annotateMu' = c
          /\ at' = [at EXCEPT ![c] = [pc |-> "save", key |-> at[c].key, verdict |-> at[c].verdict,
                                      rows |-> Stamp(store.class, at[c].key, at[c].verdict),
                                      fs |-> store.findings]]
       \/ /\ at[c].key \notin DOMAIN store.class \/ "flaky" \in who
          /\ Answered(c, FALSE)
          /\ UNCHANGED annotateMu
    /\ UNCHANGED <<who, now, shares>> /\ UNCHANGED <<runVars, engineVars>>

AnnotateSave(c, ok) ==
    /\ Alive /\ at[c].pc = "save"
    /\ store' = IF ok THEN [store EXCEPT !.class = at[c].rows, !.findings = at[c].fs] ELSE store
    /\ Answered(c, ok)
    /\ annotateMu' = Unlocked
    /\ UNCHANGED <<who, now, shares>> /\ UNCHANGED <<runVars, cache, disk, engine, lives>>

(***************************************************************************)
(* Share links                                                             *)
(***************************************************************************)
Expired(e) == e # <<>> /\ now > e[1]

\* deleteLocked
Without(reg, gone) ==
    [reg EXCEPT !.m = [t \in DOMAIN reg.m \ gone |-> reg.m[t]],
                !.order = @ \ gone]

\* The first n of the tokens S.
Oldest(S, n) == {t \in S : Cardinality({u \in S : u < t}) < n}

Excess(reg) == Cardinality(DOMAIN reg.m) - maxRetainedShares

\* Evict the oldest, expired or not.
Mut_enforceCapLocked(reg) ==
    IF Excess(reg) <= 0 THEN reg ELSE Without(reg, Oldest(reg.order, Excess(reg)))

\* Over the cap: the oldest expired tokens first, then the oldest.
enforceCapLocked(reg) ==
    LET stale == {t \in reg.order : Expired(reg.m[t])}
        pass1 == Without(reg, Oldest(stale, Excess(reg)))
    IN  IF Excess(reg) <= 0 THEN reg
        ELSE IF Excess(pass1) <= 0 THEN pass1
        ELSE Without(pass1, Oldest(pass1.order, Excess(pass1)))

\* registerLocked
Register(reg, token, expiry) ==
    [m |-> [t \in DOMAIN reg.m \cup {token} |-> IF t = token THEN expiry ELSE reg.m[t]],
     order |-> reg.order \cup {token}, issued |-> token]

\* POST /runs/{id}/share: a known run and a positive ttl.
createShare(ttl) ==
    /\ "sharer" \in who /\ Serving /\ shares.issued < MaxTokens
    /\ reportFor # <<>> /\ (ttl # <<>> => ttl[1] > 0)
    /\ shares' = enforceCapLocked(Register(shares, shares.issued + 1,
                                           IF ttl = <<>> THEN <<>> ELSE <<now + ttl[1]>>))
    /\ UNCHANGED <<who, now, annotateMu, at>> /\ UNCHANGED <<runVars, engineVars>>

\* GET /reports/shared/{token}: an expired token is dropped on read.
getSharedReport(token) ==
    /\ "viewer" \in who /\ Serving
    /\ LET known == token \in DOMAIN shares.m
           late == known /\ Expired(shares.m[token])
       IN  /\ shares' = IF late THEN Without(shares, {token}) ELSE shares
           /\ at' = [at EXCEPT !["viewer"] =
                       [pc |-> "idle",
                        code |-> CASE late -> 410
                                   [] ~late /\ (~known \/ reportFor = <<>>) -> 404
                                   [] OTHER -> 200]]
    /\ UNCHANGED <<who, now, annotateMu>> /\ UNCHANGED <<runVars, engineVars>>

(***************************************************************************)
(* The live streams                                                        *)
(***************************************************************************)
\* A stream opens on a run in the cache and keeps its run state.
Open(c) ==
    /\ c \in who \cap Watchers /\ Serving /\ at[c].pc = "idle" /\ cache.run
    /\ at' = [at EXCEPT ![c] =
                CASE c = "stats" -> [pc |-> "tick"]
                  [] c # "stats" /\ (~spec.trace \/ (c = "trace" /\ ~spec.small)) ->
                       [pc |-> "closed"]
                  [] OTHER -> [pc |-> "tick", last |-> 0, got |-> <<>>]]
    /\ UNCHANGED <<who, now, annotateMu, shares>> /\ UNCHANGED <<runVars, engineVars>>

Hangup(c) ==
    /\ Alive /\ c \in Watchers /\ at[c].pc = "tick"
    /\ at' = [at EXCEPT ![c] = [pc |-> "closed"]]
    /\ UNCHANGED <<who, now, annotateMu, shares>> /\ UNCHANGED <<runVars, engineVars>>

over == rs.status \in Terminal

\* streamRun: the last frame is cut once the run's goroutine is done.
LastStats ==
    /\ Alive /\ at["stats"].pc = "tick" /\ exec.pc = "done"
    /\ at' = [at EXCEPT !["stats"] = [pc |-> "final", status |-> rs.status, total |-> rs.total]]
    /\ UNCHANGED <<who, now, annotateMu, shares>> /\ UNCHANGED <<runVars, engineVars>>

\* traceBuf.since: the ring is in order, so what was delivered comes first.
since(seq) ==
    LET old == {k \in DOMAIN viz.ring : viz.ring[k] <= seq}
    IN  SubSeq(viz.ring, Cardinality(old) + 1, Len(viz.ring))

\* streamTrace: what is new in the ring, and then whether the run is over.
TraceSince ==
    /\ Alive /\ at["trace"].pc = "tick"
    /\ LET evs == since(at["trace"].last)
       IN  at' = [at EXCEPT !["trace"] =
                    [pc |-> "status", got |-> @.got \o evs,
                     last |-> IF evs = <<>> THEN @.last ELSE Last(evs)]]
    /\ UNCHANGED <<who, now, annotateMu, shares>> /\ UNCHANGED <<runVars, engineVars>>

TraceStatus ==
    /\ Alive /\ at["trace"].pc = "status"
    /\ at' = [at EXCEPT !["trace"].pc = IF over THEN "final" ELSE "tick"]
    /\ UNCHANGED <<who, now, annotateMu, shares>> /\ UNCHANGED <<runVars, engineVars>>

\* The first frame says done: the status is not looked at.
Mut_HeatStatus(c) ==
    /\ Alive /\ c \in {"heat", "latency"} /\ at[c].pc = "tick"
    /\ at' = [at EXCEPT ![c] = [pc |-> "snapshot", done |-> TRUE, frame |-> <<>>, req |-> 0]]
    /\ UNCHANGED <<who, now, annotateMu, shares>> /\ UNCHANGED <<runVars, engineVars>>

\* streamHeatmap, streamLatencyHeatmap: whether the run is over, and then the counters.
HeatStatus(c) ==
    /\ Alive /\ c \in {"heat", "latency"} /\ at[c].pc = "tick"
    /\ at' = [at EXCEPT ![c] = [pc |-> "snapshot", done |-> over, frame |-> <<>>, req |-> 0]]
    /\ UNCHANGED <<who, now, annotateMu, shares>> /\ UNCHANGED <<runVars, engineVars>>

\* A frame is sent; the one that says done is the last.
SendFrame(c, frame) ==
    at' = [at EXCEPT ![c] = IF at[c].done THEN [pc |-> "final", frame |-> frame]
                            ELSE [pc |-> "tick", last |-> 0, got |-> <<>>]]

\* heatAgg.snapshot, one edge: its requests, and then its errors.
HeatSnapshot ==
    /\ Alive /\ at["heat"].pc \in {"snapshot", "errors"}
    /\ LET h == at["heat"]
           i == Len(h.frame) + 1
           errors == Append(h.frame, [req |-> h.req, err |-> viz.heat[i].err])
       IN  \/ /\ h.pc = "snapshot" /\ i <= Len(HeatEdges)
              /\ at' = [at EXCEPT !["heat"].pc = "errors", !["heat"].req = viz.heat[i].req]
           \/ /\ h.pc = "errors"
              /\ at' = [at EXCEPT !["heat"].pc = "snapshot",
                                  !["heat"].frame =
                                     IF h.req = 0 THEN Append(@, [req |-> 0, err |-> 0]) ELSE errors]
           \/ /\ h.pc = "snapshot" /\ i > Len(HeatEdges)
              /\ SendFrame("heat", h.frame)
    /\ UNCHANGED <<who, now, annotateMu, shares>> /\ UNCHANGED <<runVars, engineVars>>

\* One row of a grid of columns.
rowOf(cells, r) == [k \in DOMAIN cells |-> cells[k][r]]

\* downsampleCols: every factor adjacent columns are summed into one.
downsampleCols(cells, factor) ==
    [c \in 1 .. (Len(cells) + factor - 1) \div factor |->
        [r \in {0, 1} |-> Total(rowOf(cells, r), {k \in DOMAIN cells : (k - 1) \div factor = c - 1})]]

\* latencyHeat.snapshot: the columns seen so far, merged until they fit.
snapshot ==
    LET seen == {c \in 0 .. MaxNow : viz.grid[c] # [r \in {0, 1} |-> 0]}
        cells == [k \in 1 .. (IF seen = {} THEN 0 ELSE Max(seen) + 1) |-> viz.grid[k - 1]]
        factor == (Len(cells) + latencyMaxCols - 1) \div latencyMaxCols
    IN  IF Len(cells) > latencyMaxCols
        THEN [cells |-> downsampleCols(cells, factor), bin |-> factor]
        ELSE [cells |-> cells, bin |-> 1]

LatencySnapshot ==
    /\ Alive /\ at["latency"].pc = "snapshot"
    /\ SendFrame("latency", snapshot)
    /\ UNCHANGED <<who, now, annotateMu, shares>> /\ UNCHANGED <<runVars, engineVars>>

(***************************************************************************)
(* tmula run                                                               *)
(***************************************************************************)
\* informed (history): the report came from the cache, or its findings row was written.
Exit(code, failed) ==
    at' = [at EXCEPT !["cli"] = [pc |-> "exited", code |-> code, failed |-> failed,
                                 flags |-> at["cli"].flags,
                                 informed |-> cache.run \/ store.findings = outcome.findings]]

\* The flags are checked before the run is started.
CLIStart(flags) ==
    /\ "cli" \in who /\ at["cli"].pc = "idle"
    /\ at' = [at EXCEPT !["cli"] = IF FlagsAccepted(flags) THEN [pc |-> "poll", flags |-> flags]
                                   ELSE [pc |-> "exited", code |-> 1, failed |-> TRUE]]
    /\ UNCHANGED <<who, now, annotateMu, shares>> /\ UNCHANGED <<runVars, engineVars>>

\* driveRun, driveRunInProcess: poll the report until its status is final.  A
\* lost connection, an unknown run and the timeout are errors: exit 1.
driveRun ==
    /\ at["cli"].pc = "poll"
    /\ \/ /\ Serving /\ reportFor # <<>> /\ reportFor[1].run \in Terminal
          /\ Exit(ExitCode(reportFor[1].run, reportFor[1].findings, at["cli"].flags), FALSE)
       \/ Exit(1, TRUE)
    /\ UNCHANGED <<who, now, annotateMu, shares>> /\ UNCHANGED <<runVars, engineVars>>

\* Only the share links and the latency grid read the clock.
Tick ==
    /\ now < MaxNow /\ who \cap {"sharer", "latency"} # {}
    /\ now' = now + 1
    /\ UNCHANGED who /\ UNCHANGED <<runVars, engineVars, clientVars>>

(***************************************************************************)
(* The specification                                                       *)
(***************************************************************************)
Traced(g) == g \cap Watchers # {}

Init ==
    /\ who \in Groups
    /\ now = 0
    /\ spec \in [open : BOOLEAN, trace : {Traced(who)}, small : IF Traced(who) THEN BOOLEAN ELSE {FALSE}]
    /\ exec = [pc |-> "run", err |-> FALSE, rep |-> <<>>]
    /\ rs = [status |-> "running", findings |-> {}, class |-> <<>>, total |-> 0, cancelled |-> FALSE]
    /\ viz = [heat |-> newHeatAgg, ring |-> <<>>, seq |-> 0,
              grid |-> [c \in 0 .. MaxNow |-> [r \in {0, 1} |-> 0]]]
    /\ session = [s \in Sessions |-> [pc |-> "idle", left |-> MaxEvents, ev |-> CHOOSE e \in Events : TRUE]]
    /\ cache = [run |-> TRUE, spec |-> TRUE]
    /\ store = EmptyStore
    /\ disk = [here |-> FALSE, whole |-> FALSE, snap |-> EmptyStore, next |-> EmptyStore]
    /\ engine = "up" /\ lives = 1
    /\ annotateMu = Unlocked /\ shares = NoShares
    /\ at = [c \in Clients |-> Idle]
    /\ outcome = [status |-> NoRun, findings |-> {}]
    /\ sent = [e \in Events |-> 0]

Next ==
    \/ \E s \in Sessions : \/ \E e \in Events : RecordRequest(s, e)
                           \/ RecordError(s) \/ AddTrace(s) \/ RecordLatency(s)
    \/ \E err \in BOOLEAN : EndRun(err)
    \/ \E fs \in Outcomes : Classify(fs)
    \/ Finalize \/ Capture
    \/ \E ok \in WriteOutcomes : Persist(ok)
    \/ killRun \/ Evict
    \/ Stop \/ Drained \/ SaveToFile \/ Crash \/ Restart
    \/ \E c \in Reproducers : \/ \E req \in Requests : Reproduce(c, req)
                              \/ \E r \in Replays : Replay(c, r)
                              \/ AnnotateLive(c) \/ AnnotateRead(c)
                              \/ \E ok \in WriteOutcomes : AnnotateSave(c, ok)
    \/ \E ttl \in TTLs : createShare(ttl)
    \/ \E t \in 1 .. shares.issued : getSharedReport(t)
    \/ \E c \in Watchers : Open(c) \/ Hangup(c) \/ HeatStatus(c)
    \/ LastStats \/ TraceSince \/ TraceStatus \/ HeatSnapshot \/ LatencySnapshot
    \/ \E flags \in Flags : CLIStart(flags)
    \/ driveRun
    \/ Tick

Spec == Init /\ [][Next]_vars

(***************************************************************************)
(* Properties                                                              *)
(***************************************************************************)
\* What a run owes its caller, said of what really happened rather than of the
\* report that was polled: 0 exactly when it completed, no finding counts for
\* the absolute gate, and every finding is in the baseline or excused today.
Excused(f, flags) ==
    \/ \E b \in baseFindings(flags) : b.category = f.category /\ b.ref = f.ref
    \/ /\ flags.known # <<>>
       /\ \E i \in DOMAIN flags.known[1] :
             LET k == flags.known[1][i]
             IN  k.category = f.category /\ k.ref = f.ref /\ flags.now \div HalfDays <= k.expires[1]

Counts(f, flags) == flags.minSev = "critical" => f.severity = "critical"

\* The exit code of a command that got its report is the one the run's real
\* outcome calls for: a poll that sees a final status sees the final findings
\* with it, whenever it lands between classification, finalize and a kill
\* (run.go driveRun and the ladder, orchestrator.go execute and finalizeRun).  Once
\* the run is evicted the poll reads the store, and can only know what its findings
\* row holds by then (informed).
ExitHonest ==
    at["cli"].pc = "exited" /\ ~at["cli"].failed /\ at["cli"].informed =>
        LET flags == at["cli"].flags
            gated == (flags.failAny \/ flags.minSev # "")
                     /\ \E f \in outcome.findings : Counts(f, flags)
            worse == hasBaseline(flags) /\ \E f \in outcome.findings : ~Excused(f, flags)
        IN  at["cli"].code = IF outcome.status # "completed" THEN 1
                             ELSE IF gated THEN 2
                             ELSE IF worse THEN 3
                             ELSE 0

\* Two reproduce calls on findings of one run never lose a verdict: what a call
\* saved stays in the store's row until a call on the same finding replaces it by
\* its own (reproduce.go annotateRootCause).
Saved(c) == at[c].pc = "answered" /\ at[c].code = 200 /\ at[c].saved

NoLostVerdict ==
    \A c \in Reproducers :
        Saved(c) => \E d \in Reproducers : /\ Saved(d) /\ at[d].key = at[c].key
                                           /\ store.class[at[c].key] = at[d].verdict

\* The run was not killed; the events on an edge, those that failed, and the events
\* that the latency grid counts in a row.
Ended == rs.status \in {"completed", "failed"}
On(i) == {e \in Events : e.edge = HeatEdges[i]}
FailedOn(i) == {e \in On(i) : ~e.ok}
InRow(r) == {e \in Events : ~e.terminal /\ e.row = r}
Ascending(q) == \A i, j \in DOMAIN q : i < j => q[i] < q[j]

\* The last heatmap and latency frames of a run that was not killed count every
\* event its sessions emitted, the trace delivers each event once and in order,
\* and the last stats frame has the run's final status (handlers.go streamRun,
\* trace.go, heatmap.go, latency_heatmap.go).
FramesHonest ==
    /\ at["heat"].pc = "final" /\ Ended =>
          \A i \in DOMAIN HeatEdges :
              at["heat"].frame[i] = [req |-> Total(sent, On(i)), err |-> Total(sent, FailedOn(i))]
    /\ at["latency"].pc = "final" /\ Ended =>
          LET cells == at["latency"].frame.cells
          IN  /\ Len(cells) <= latencyMaxCols
              /\ \A r \in {0, 1} : Total(rowOf(cells, r), DOMAIN cells) = Total(sent, InRow(r))
    /\ at["trace"].pc \in {"status", "final"} => Ascending(at["trace"].got)
    /\ at["stats"].pc = "final" => at["stats"].status = outcome.status

\* A share link that has not expired is given up only for the cap, and only
\* when no expired one and no older one is kept (share.go enforceCapLocked).
ShareEviction ==
    [][engine = engine' =>
        \A t \in DOMAIN shares.m \ DOMAIN shares'.m :
            \/ Expired(shares.m[t])
            \/ \A u \in DOMAIN shares'.m : ~Expired(shares'.m[u]) /\ t < u]_vars

\* Once a graceful stop wrote the run into the snapshot file, every later engine
\* still has it with its findings, wherever a later stop or crash fell
\* (store.go SaveToFile and LoadFromFile, main.go setupStore).
HistoryKept ==
    [][engine = "down" /\ engine' = "up" /\ disk.snap.run # NoRun =>
        store'.run = disk.snap.run /\ store'.findings = disk.snap.findings]_vars

(***************************************************************************)
(* The inductive invariant of the proofs                                   *)
(***************************************************************************)
Row(row) == row = [run |-> row.run, stats |-> row.stats, findings |-> row.findings,
                   class |-> row.class]

\* The fields of the records; a client's record always says where it is.
ShapeInv ==
    /\ exec = [pc |-> exec.pc, err |-> exec.err, rep |-> exec.rep]
    /\ rs = [status |-> rs.status, findings |-> rs.findings, class |-> rs.class,
             total |-> rs.total, cancelled |-> rs.cancelled]
    /\ Row(store) /\ Row(disk.snap) /\ Row(disk.next)
    /\ disk = [here |-> disk.here, whole |-> disk.whole, snap |-> disk.snap, next |-> disk.next]
    /\ DOMAIN at = Clients /\ \A c \in Clients : "pc" \in DOMAIN at[c]

Unfinished == exec.pc \in {"run", "classify", "finalize"}
Unpersisted == exec.pc \in {"capture", "run row", "stats row", "findings row"}

\* What the run ended with is what the live state says until the process is gone.
EndInv ==
    /\ Unfinished \/ Unpersisted \/ exec.pc \in {"done", "gone"}
    /\ IsFiniteSet(rs.findings) /\ IsFiniteSet(outcome.findings)
    /\ Unfinished => outcome.status = NoRun /\ rs.status \in {"running", "killed"}
    /\ Unpersisted \/ exec.pc = "done" =>
          /\ rs.status \in Terminal
          /\ outcome.status = rs.status /\ outcome.findings = rs.findings
    /\ exec.pc = "run row" => exec.rep[1].run = rs.status
    /\ exec.pc = "gone" => ~cache.run

\* Any run row there is has the status the run ended with.
EndedAs(row) == row.run # NoRun => row.run \in Terminal /\ row.run = outcome.status

RowsInv == EndedAs(store) /\ EndedAs(disk.snap) /\ EndedAs(disk.next)

Reported == at["cli"].pc = "exited" /\ ~at["cli"].failed /\ at["cli"].informed

\* A command that has its report before the run was finalized read that it was killed.
PollInv ==
    /\ at["cli"].pc = "poll" => at["cli"].flags \in Flags /\ FlagsAccepted(at["cli"].flags)
    /\ Reported /\ Unfinished => rs.status = "killed"

\* The findings row is written once; from then on only the holder of the lock
\* writes it, and what it is about to write is the row with its own verdict.
VerdictInv ==
    /\ Unfinished \/ Unpersisted => DOMAIN store.class = {}
    /\ \A c \in Reproducers :
          /\ Saved(c) => at[c].key \in DOMAIN store.class
          /\ at[c].pc = "save" =>
                /\ annotateMu = c
                /\ at[c].key \in DOMAIN store.class
                /\ at[c].rows = Stamp(store.class, at[c].key, at[c].verdict)

\* The snapshot file is there, whole, from the first stop that wrote one.
FileInv == disk.snap.run # NoRun => disk.here /\ disk.whole

\* The map and the slice hold the same tokens.
ShareInv ==
    /\ shares = [m |-> shares.m, order |-> shares.order, issued |-> shares.issued]
    /\ shares.issued \in Nat /\ shares.order \subseteq 1 .. shares.issued
    /\ DOMAIN shares.m = shares.order

\* The columns of the latency grid, and the sessions between an event's first
\* counter and the one that places it in a set of events.
Columns == 0 .. MaxNow
Between(places, S) == {s \in Sessions : session[s].pc \in places /\ session[s].ev \in S}

\* The fields of the counters, the ring and the sessions.
VizInv ==
    /\ viz = [heat |-> viz.heat, ring |-> viz.ring, seq |-> viz.seq, grid |-> viz.grid]
    /\ viz.heat \in [DOMAIN HeatEdges -> [req : Nat, err : Nat]]
    /\ viz.grid \in [Columns -> [{0, 1} -> Nat]]
    /\ viz.seq \in Nat /\ viz.ring \in Seq(Nat) /\ Ascending(viz.ring)
    /\ \A k \in DOMAIN viz.ring : viz.ring[k] <= viz.seq
    /\ sent \in [Events -> Nat]
    /\ now \in Columns

\* A session is idle or has emitted an event; it works on none once the run is over.
SessionInv ==
    /\ DOMAIN session = Sessions
    /\ \A s \in Sessions :
          /\ session[s] = [left |-> session[s].left, ev |-> session[s].ev, pc |-> session[s].pc]
          /\ session[s].pc \in {"idle", "err", "trace", "latency", "gone"}
          /\ session[s].pc # "idle" /\ exec.pc # "gone" => session[s].ev \in Events
          /\ session[s].pc = "err" => ~session[s].ev.ok
          /\ session[s].pc = "latency" => ~session[s].ev.terminal
          /\ session[s].pc = "gone" <=> exec.pc = "gone"
          /\ session[s].pc \in {"err", "trace", "latency"} => exec.pc = "run"

\* Every event is in each counter, or its session is on the way there.
CountInv ==
    exec.pc # "gone" =>
        /\ \A i \in DOMAIN HeatEdges :
              /\ viz.heat[i].req = Total(sent, On(i))
              /\ viz.heat[i].err + Cardinality(Between({"err"}, On(i))) = Total(sent, FailedOn(i))
        /\ \A r \in {0, 1} :
              Total(rowOf(viz.grid, r), Columns)
                + Cardinality(Between({"err", "trace", "latency"}, InRow(r))) = Total(sent, InRow(r))

\* A frame that says done is cut after the run's end, from counters that stay.
Cutting(h) ==
    /\ h = [pc |-> h.pc, done |-> h.done, frame |-> h.frame, req |-> h.req]
    /\ h.frame \in Seq([req : Nat, err : Nat]) /\ Len(h.frame) <= Len(HeatEdges) /\ h.req \in Nat
    /\ h.pc = "errors" => Len(h.frame) < Len(HeatEdges)
    /\ h.done => over
    /\ h.done /\ Ended => \A i \in DOMAIN h.frame : h.frame[i] = viz.heat[i]
    /\ h.done /\ Ended /\ h.pc = "errors" => h.req = viz.heat[Len(h.frame) + 1].req

HeatInv ==
    /\ at["heat"].pc \in {"snapshot", "errors"} => Cutting(at["heat"])
    /\ at["heat"].pc = "final" =>
          over /\ (Ended => \A i \in DOMAIN HeatEdges : at["heat"].frame[i] = viz.heat[i])

LatencyInv ==
    LET h == at["latency"]
    IN  /\ h.pc = "snapshot" /\ h.done => over
        /\ h.pc = "final" => over /\ (Ended => h.frame = snapshot)

\* What a trace client has got is in order, and it knows how far.
TraceInv ==
    LET h == at["trace"]
    IN  h.pc \in {"tick", "status", "final"} =>
          /\ h = [pc |-> h.pc, got |-> h.got, last |-> h.last]
          /\ h.last \in Nat /\ h.last <= viz.seq
          /\ h.got \in Seq(Nat) /\ Ascending(h.got)
          /\ \A k \in DOMAIN h.got : h.got[k] <= h.last

StatsInv == at["stats"].pc = "final" => exec.pc = "done" /\ at["stats"].status = outcome.status

\* No stream outlives the engine it was opened on.
StreamInv == exec.pc = "gone" => \A c \in Watchers : at[c].pc \in {"idle", "exited"}

FrameInv ==
    /\ VizInv /\ SessionInv /\ CountInv
    /\ HeatInv /\ LatencyInv /\ TraceInv /\ StatsInv /\ StreamInv

ConsoleInv ==
    /\ ShapeInv /\ EndInv /\ RowsInv /\ PollInv /\ ExitHonest
    /\ VerdictInv /\ NoLostVerdict /\ FileInv /\ ShareInv
=============================================================================
