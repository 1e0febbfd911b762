------------------------------ MODULE Cluster ------------------------------
(***************************************************************************)
(* A distributed run (server/internal/cluster, and executeDistributed and  *)
(* executeDistributedSummary of api/orchestrator.go): a master splits the  *)
(* users over workers, each worker runs its shard and either streams one   *)
(* result per request or returns one Summary, and the master folds what it *)
(* receives into a collector and an aggregator. Workers and connections    *)
(* fail at any point, and the run may be cancelled from outside.           *)
(*                                                                         *)
(* A worker's Runner is Runner.tla; here it is the requests its users      *)
(* finish. A user's walk is a function of its seed (the engine's           *)
(* determinism), so `answer` gives what a user with that seed meets.       *)
(* The coordinator's own Collector receives the same records as the run's  *)
(* and its statistics are dropped by the caller: one variable for both.    *)
(***************************************************************************)
EXTENDS Observation

CONSTANTS
  WorkerCount,   \* len(c.workers)
  TotalUsers,    \* spec.PoolSize()
  MaxSteps,      \* requests of one walk
  Kinds,         \* what a request may meet: [api, code, lat, class]
  Pools,         \* the ordered credential pools a worker's source may hold
  Findings       \* the spec's findings block

ASSUME ClusterAssumption ==
  /\ WorkerCount \in Nat \ {0} /\ TotalUsers \in Nat \ {0} /\ MaxSteps \in Nat \ {0}
  /\ Kinds \subseteq [api : APIs \cup {""}, code : Codes, lat : Nat, class : STRING]
  /\ ValidFindingConfig(Findings)

Workers == 1..WorkerCount
Users == 0..(TotalUsers - 1)

VARIABLES
  mode,       \* "stream" or "summary" (spec.AggregateOnWorkers)
  answer,     \* external: what a walk with a given seed meets, request by request
  pool,       \* external: the credential pool each worker's source resolves to
  worker,     \* each worker's handler: "idle", "running", "ended" or "failed"
  finished,   \* requests each user has finished
  wire,       \* messages sent by a worker and not yet received
  shard,      \* the master's goroutine of a shard: "open", "recv", "add" or "end"
  stamped,    \* the observation a receive loop is about to add
  clock,      \* s.now()
  collector,
  agg,        \* the Aggregator's observations, in arrival order
  summary,    \* the Summary a worker folds its shard into
  summaries,  \* the summaries the master has rebuilt, each with the shard it is of
  merged,     \* the Summary they are merged into
  firstErr,   \* a shard has failed
  cancelled,  \* the run's context, or the one derived from it, is cancelled
  ret         \* "no", "ok" or "error": what the Distribute call returned

vars == <<mode, answer, pool, worker, finished, wire, shard, stamped, clock,
          collector, agg, summary, summaries, merged, firstErr, cancelled, ret>>

inputs == <<mode, answer, pool>>
workerSide == <<worker, finished, summary>>
master == <<collector, agg, summaries, merged, clock, stamped>>

----------------------------------------------------------------------------

\* Worker i's range [offset, offset + count): the remainder goes to the earliest
\* workers, and a worker without users has no assignment.
splitUsers(total, n) ==
  LET base == total \div n
      rem == total % n
  IN [i \in 1..Min({total, n}) |->
        [offset |-> base * (i - 1) + Min({i - 1, rem}),
         count |-> base + (IF i <= rem THEN 1 ELSE 0)]]

Assignments == splitUsers(TotalUsers, WorkerCount)
Shards == DOMAIN Assignments

\* A worker that seeds and authenticates its users by their local index.
Mut_buildUsers(w) ==
  LET a == Assignments[w]
  IN {[name |-> a.offset + i, seed |-> i, principal |-> pool[w][(i % Len(pool[w])) + 1]] :
        i \in 0..(a.count - 1)}

\* buildUsers, authenticateUsers and the base seed given to Runner.Run: names,
\* seeds and credentials go by the global index.
buildUsers(w) ==
  LET a == Assignments[w]
  IN {[name |-> a.offset + i, seed |-> a.offset + i,
       principal |-> pool[w][((a.offset + i) % Len(pool[w])) + 1]] :
        i \in 0..(a.count - 1)}

\* One request of a user, as the worker reports it. The principal and the seed
\* it ran under do not travel; they are kept to state what evidence must replay.
toShardResult(u, k) ==
  LET a == answer[u.seed][k]
  IN  [api |-> a.api, code |-> a.code, lat |-> a.lat, class |-> a.class,
       user |-> u.name, step |-> k, ranSeed |-> u.seed, ranAs |-> u.principal]

\* The observation built in the master's sink: the seed is recovered from the
\* user's name alone, stamped with the time of receipt.
Observation(res, now) ==
  [api |-> res.api, code |-> res.code, lat |-> res.lat, class |-> res.class,
   mutated |-> FALSE, ts |-> now, session |-> res.user, seed |-> res.user,
   step |-> res.step, ranSeed |-> res.ranSeed, ranAs |-> res.ranAs]

----------------------------------------------------------------------------

Init ==
  /\ mode \in {"stream", "summary"}
  /\ answer \in [Users -> [1..MaxSteps -> Kinds]]
  /\ pool \in [Workers -> Pools]
  /\ worker = [w \in Workers |-> "idle"]
  /\ finished = [u \in Users |-> 0]
  /\ wire = [w \in Workers |-> <<>>]
  /\ shard = [w \in Workers |-> IF w \in Shards THEN "open" ELSE "end"]
  /\ stamped = [w \in Workers |-> <<>>]
  /\ clock = 1
  /\ collector = NewCollector
  /\ agg = <<>>
  /\ summary = [w \in Workers |-> NewSummary]
  /\ summaries = <<>>
  /\ merged = NewSummary
  /\ firstErr = FALSE
  /\ cancelled = FALSE
  /\ ret = "no"

\* The shard's goroutine opens the call; the worker validates the request and the
\* shard spec, builds its guard, resolves its provider and authenticates its users.
Open(w) ==
  /\ shard[w] = "open"
  /\ shard' = [shard EXCEPT ![w] = "recv"]
  /\ worker' = [worker EXCEPT ![w] = "running"]
  /\ UNCHANGED <<inputs, finished, summary, wire, master, firstErr, cancelled, ret>>

\* A user of the shard finishes a request: its result is sent, under sendMu, or
\* folded into the shard's summary.
UserStep(w) ==
  /\ worker[w] = "running"
  /\ \E u \in buildUsers(w) :
       /\ finished[u.name] < MaxSteps
       /\ finished' = [finished EXCEPT ![u.name] = @ + 1]
       /\ LET res == toShardResult(u, finished'[u.name])
          IN IF mode = "stream"
             THEN /\ wire' = [wire EXCEPT ![w] = Append(@, res)]
                  /\ UNCHANGED summary
             ELSE /\ summary' = [summary EXCEPT ![w] = AddSummary(@, Observation(res, NoTime))]
                  /\ UNCHANGED wire
  /\ UNCHANGED <<inputs, worker, shard, master, firstErr, cancelled, ret>>

\* Runner.Run returned: the stream is closed, or the summary is the answer.
ShardEnds(w) ==
  /\ worker[w] = "running"
  /\ \A u \in buildUsers(w) : finished[u.name] = MaxSteps
  /\ worker' = [worker EXCEPT ![w] = "ended"]
  /\ wire' = IF mode = "summary" THEN [wire EXCEPT ![w] = <<Export(summary[w])>>] ELSE wire
  /\ UNCHANGED <<inputs, finished, summary, shard, master, firstErr, cancelled, ret>>

\* The worker refuses the shard, dies, or its connection breaks; what was on the
\* wire is lost from some point on.
WorkerFails(w) ==
  /\ worker[w] = "running"
  /\ worker' = [worker EXCEPT ![w] = "failed"]
  /\ \E n \in 0..Len(wire[w]) : wire' = [wire EXCEPT ![w] = SubSeq(@, 1, n)]
  /\ UNCHANGED <<inputs, finished, summary, shard, master, firstErr, cancelled, ret>>

\* The worker sees the cancelled stream context: its sessions unwind.
WorkerStops(w) ==
  /\ worker[w] = "running"
  /\ cancelled
  /\ worker' = [worker EXCEPT ![w] = "failed"]
  /\ UNCHANGED <<inputs, finished, summary, wire, shard, master, firstErr, cancelled, ret>>

\* runShard: one result received, recorded and stamped by the sink...
Recv(w) ==
  /\ mode = "stream"
  /\ shard[w] = "recv"
  /\ wire[w] # <<>>
  /\ collector' = Record(collector, Head(wire[w]))
  /\ stamped' = [stamped EXCEPT ![w] = Observation(Head(wire[w]), clock)]
  /\ clock' = clock + 1
  /\ wire' = [wire EXCEPT ![w] = Tail(@)]
  /\ shard' = [shard EXCEPT ![w] = "add"]
  /\ UNCHANGED <<inputs, workerSide, agg, summaries, merged, firstErr, cancelled, ret>>

\* ...and added to the aggregator; another shard's sink may run in between.
Add(w) ==
  /\ shard[w] = "add"
  /\ agg' = Append(agg, stamped[w])
  /\ stamped' = [stamped EXCEPT ![w] = <<>>]
  /\ shard' = [shard EXCEPT ![w] = "recv"]
  /\ UNCHANGED <<inputs, workerSide, wire, collector, summaries, merged, clock, firstErr, cancelled, ret>>

\* The summary call returns and the wire form is rebuilt.
RecvSummary(w) ==
  /\ mode = "summary"
  /\ shard[w] = "recv"
  /\ wire[w] # <<>>
  /\ Loadable(Head(wire[w]))
  /\ summaries' = Append(summaries, [of |-> w, sum |-> LoadSummary(Head(wire[w]))])
  /\ wire' = [wire EXCEPT ![w] = Tail(@)]
  /\ shard' = [shard EXCEPT ![w] = "end"]
  /\ UNCHANGED <<inputs, workerSide, collector, agg, merged, clock, stamped, firstErr, cancelled, ret>>

\* io.EOF after the last result.
RecvEOF(w) ==
  /\ mode = "stream"
  /\ shard[w] = "recv"
  /\ wire[w] = <<>>
  /\ worker[w] = "ended"
  /\ shard' = [shard EXCEPT ![w] = "end"]
  /\ UNCHANGED <<inputs, workerSide, wire, master, firstErr, cancelled, ret>>

\* The call fails: the worker is gone, or the context is cancelled while a
\* receive, or the opening, is under way.
CallFails(w) ==
  \/ shard[w] = "recv" /\ wire[w] = <<>> /\ worker[w] = "failed"
  \/ shard[w] \in {"open", "recv"} /\ cancelled

\* A receive loop that takes a broken stream for its end.
Mut_RecvError(w) ==
  /\ CallFails(w)
  /\ shard' = [shard EXCEPT ![w] = "end"]
  /\ UNCHANGED <<inputs, workerSide, wire, master, firstErr, cancelled, ret>>

\* A receive loop that goes on receiving after an error.
Mut_RecvErrorLoops(w) ==
  /\ CallFails(w)
  /\ firstErr' = TRUE
  /\ cancelled' = TRUE
  /\ UNCHANGED <<inputs, workerSide, wire, master, shard, ret>>

\* failOnce: the first error is kept and the sibling shards are cancelled.
RecvError(w) ==
  /\ CallFails(w)
  /\ shard' = [shard EXCEPT ![w] = "end"]
  /\ firstErr' = TRUE
  /\ cancelled' = TRUE
  /\ UNCHANGED <<inputs, workerSide, wire, master, ret>>

\* wg.Wait().
Barrier == \A w \in Workers : shard[w] = "end"

\* DistributeSummary's loop after the barrier: the next summary is merged.
MergeNext ==
  /\ ret = "no"
  /\ Barrier
  /\ ~firstErr
  /\ summaries # <<>>
  /\ merged' = MergeSummary(merged, Head(summaries).sum)
  /\ summaries' = Tail(summaries)
  /\ UNCHANGED <<inputs, workerSide, wire, shard, collector, agg, clock, stamped, firstErr,
                 cancelled, ret>>

\* The first error, or the result; the deferred cancel runs on the way out.
Return ==
  /\ ret = "no"
  /\ Barrier
  /\ firstErr \/ summaries = <<>>
  /\ ret' = IF firstErr THEN "error" ELSE "ok"
  /\ cancelled' = TRUE
  /\ UNCHANGED <<inputs, workerSide, wire, shard, master, firstErr>>

\* The run's context is cancelled: a kill, a shutdown or a deadline.
Cancel ==
  /\ ret = "no"
  /\ ~cancelled
  /\ cancelled' = TRUE
  /\ UNCHANGED <<inputs, workerSide, wire, shard, master, firstErr, ret>>

WorkerNext(w) == Open(w) \/ UserStep(w) \/ ShardEnds(w) \/ WorkerFails(w) \/ WorkerStops(w)
MasterNext(w) == Recv(w) \/ Add(w) \/ RecvSummary(w) \/ RecvEOF(w) \/ RecvError(w)

Next ==
  \/ \E w \in Workers : WorkerNext(w) \/ MasterNext(w)
  \/ MergeNext
  \/ Return
  \/ Cancel

\* Every goroutine runs on, every request is answered or times out, and a gRPC
\* receive ends; nothing makes a worker fail or a run be cancelled.
Fairness ==
  /\ \A w \in Workers : WF_vars(Open(w) \/ UserStep(w) \/ ShardEnds(w)) /\ WF_vars(MasterNext(w))
  /\ WF_vars(MergeNext \/ Return)

Spec == Init /\ [][Next]_vars /\ Fairness

----------------------------------------------------------------------------
(* Properties *)

Requests == Users \X (1..MaxSteps)

\* What a request meets, and the same as an observation of a plain request.
Met(p) == answer[p[1]][p[2]]
Plain(p) == [code |-> Met(p).code, class |-> Met(p).class, mutated |-> FALSE]

\* Counting the requests of a set R, those in Wrong as errors.
Counted(R, Wrong) ==
  [total |-> Cardinality(R),
   errors |-> Cardinality(R \cap Wrong),
   timeouts |-> Cardinality({p \in R : Met(p).class = "timeout"}),
   status |-> [c \in Codes \ {0} |-> Cardinality({p \in R : Met(p).code = c})],
   hist |-> [buckets |-> [i \in Buckets |-> Cardinality({p \in R : bucketIndex(Met(p).lat) = i})],
             max |-> Max({0} \cup {Min({Met(p).lat, Lows[Overflow]}) : p \in R})]]

\* A Collector counts a 401 that a refresh swallowed as an error, a Summary does not.
CollectorOf(R) ==
  Counted(R, {p \in Requests : Met(p).code >= 400 \/ Met(p).class # ""})

SummaryOf(R) ==
  [counts |-> Counted(R, {p \in Requests : failed(Plain(p))}),
   signals |-> [g \in Categories |-> Cardinality({p \in R : speaks(g, Plain(p))})]]

\* The request an observation is of.
ObsKey(o) == <<o.session, o.step>>

\* Every request of every user is in the aggregator exactly once.
EveryRequestOnce ==
  /\ \A p \in Requests : Cardinality({i \in DOMAIN agg : ObsKey(agg[i]) = p}) = 1
  /\ Len(agg) = TotalUsers * MaxSteps

\* A Distribute call that returns without error has the whole run: every request
\* of every user exactly once in the aggregator and counted once by the collector, or
\* a merged summary that counts each of them once. A lost connection, a truncated
\* stream or a cancellation never passes for a complete run.
WholeRun ==
  ret = "ok" =>
    IF mode = "stream"
    THEN EveryRequestOnce /\ collector = CollectorOf(Requests)
    ELSE merged = SummaryOf(Requests)

\* What a finding says apart from when it was first seen, with its evidence.
Verdict(obs) ==
  LET cfg == ClassifyConfig(Findings)
  IN {<<f.cat, f.ref, f.sev, f.count, attachEvidence(f, obs, cfg)>> : f \in Classify(obs, cfg)}

\* The classifier does not depend on the order in which the shards' sinks reached
\* the aggregator: findings, streaks, representative sessions, quarters and status
\* counts are those of the same observations in the order of their timestamps.
OrderFree ==
  LET sorted == SetToSortSeq(Range(agg), LAMBDA o, p : o.ts < p.ts)
  IN  agg # sorted => Verdict(agg) = Verdict(sorted)

\* A streamed observation names the session that made it: the seed recovered from
\* the user's name is the seed the worker walked, and it ran as the principal its
\* global index selects, however the users were split. A replay of it is the same
\* journey of the same principal, as long as the operator gave every worker the
\* same source: nothing compares them (SourceChecksum has no caller).
EvidenceReplays ==
  \A i \in DOMAIN agg :
    LET o == agg[i]
    IN /\ o.ranSeed = o.seed
       /\ [api |-> o.api, code |-> o.code, lat |-> o.lat, class |-> o.class]
            = answer[o.seed][o.step]
       /\ (\A v, w \in Workers : pool[v] = pool[w]) =>
            o.ranAs = pool[1][(o.session % Len(pool[1])) + 1]

\* The bounded histogram answers with the bucket of the exact nearest-rank
\* percentile and tracks the exact maximum up to its top bound.
QuantileSound ==
  LET lats == [i \in DOMAIN agg |-> agg[i].lat]
  IN (agg # <<>> /\ \A w \in Workers : stamped[w] = <<>>) =>
       /\ \A q \in {0, 50, 95, 99, 100} :
            Quantile(collector.hist, q, 100) = bucketMid(bucketIndex(percentile(lats, q, 100)))
       /\ collector.hist.max = Min({Lows[Overflow], Max(Range(lats))})

\* Merging loses nothing: neither the order in which the shards arrive nor the
\* bounded histogram changes what the report says.
MergeExact == OrderFree /\ QuantileSound

\* A distributed run ends: every shard's call ends, whether its worker finishes,
\* fails or is cancelled, and the call returns.
Returns == <>(ret # "no")

----------------------------------------------------------------------------
(* The inductive invariant behind WholeRun and EvidenceReplays *)

Mode == /\ mode \in {"stream", "summary"}
        /\ answer \in [Users -> [1..MaxSteps -> Kinds]]
        /\ finished \in [Users -> 0..MaxSteps]
        /\ worker \in [Workers -> {"idle", "running", "ended", "failed"}]
        /\ shard \in [Workers -> {"open", "recv", "add", "end"}]
        /\ DOMAIN wire = Workers /\ DOMAIN stamped = Workers /\ DOMAIN summary = Workers
        /\ clock \in Nat \ {0} /\ firstErr \in BOOLEAN

\* The users of a shard, their requests, and the requests that are finished.
Own(w) == {u.name : u \in buildUsers(w)}
AllOf(w) == Own(w) \X (1..MaxSteps)
Done == {p \in Requests : p[2] <= finished[p[1]]}
DoneBy(w) == {p \in Done : p[1] \in Own(w)}

\* A shard's call ends without error only after the last of its users.
ControlInv ==
  /\ \A w \in Workers \ Shards : shard[w] = "end" /\ worker[w] = "idle"
  /\ \A w \in Shards :
       /\ shard[w] = "open" => worker[w] = "idle"
       /\ worker[w] = "ended" => \A g \in Own(w) : finished[g] = MaxSteps
       /\ shard[w] = "end" /\ ~firstErr => worker[w] = "ended"
  /\ ret # "no" => Barrier
  /\ ret = "ok" => ~firstErr /\ summaries = <<>>

\* What a shard may send, where a request can be on its way to the aggregator.
Sent(w) == {toShardResult(u, k) : u \in buildUsers(w), k \in 1..MaxSteps}
Stamps == {Observation(r, t) : r \in UNION {Sent(w) : w \in Shards}, t \in 1..clock}
OnWire(w) == {<<wire[w][i].user, wire[w][i].step>> : i \in DOMAIN wire[w]}
InHand(w) == IF shard[w] = "add" THEN {ObsKey(stamped[w])} ELSE {}
Seen == {ObsKey(agg[i]) : i \in DOMAIN agg}
Received == Seen \cup UNION {InHand(w) : w \in Shards}

\* A finished request is in one place, and is lost only by a worker that fails.
ShardStream(w) ==
  /\ wire[w] \in Seq(Sent(w))
  /\ \A i, j \in DOMAIN wire[w] :
       wire[w][i].user = wire[w][j].user /\ wire[w][i].step = wire[w][j].step => i = j
  /\ shard[w] = "add" => stamped[w] \in {Observation(r, t) : r \in Sent(w), t \in 1..clock}
  /\ OnWire(w) \subseteq Done \ (InHand(w) \cup Seen)
  /\ InHand(w) \subseteq Done \ Seen
  /\ worker[w] # "failed" => DoneBy(w) \subseteq OnWire(w) \cup InHand(w) \cup Seen
  /\ shard[w] = "end" /\ ~firstErr => wire[w] = <<>>

StreamInv ==
  mode = "stream" =>
    /\ summaries = <<>>
    /\ \A w \in Shards : ShardStream(w)
    /\ agg \in Seq(Stamps)
    /\ \A i, j \in DOMAIN agg : ObsKey(agg[i]) = ObsKey(agg[j]) => i = j
    /\ Seen \subseteq Done
    /\ collector = CollectorOf(Received)

\* A shard's summary counts what its users have finished, and is merged once.
Report(w) == [of |-> w, sum |-> SummaryOf(AllOf(w))]
Arrived == {summaries[i].of : i \in DOMAIN summaries}
Folded == {w \in Shards : shard[w] = "end"} \ Arrived

SummaryInv ==
  mode = "summary" =>
    /\ agg = <<>>
    /\ \A w \in Shards :
         /\ summary[w] = SummaryOf(DoneBy(w))
         /\ shard[w] # "add"
         /\ wire[w] # <<>> => worker[w] = "ended" /\ wire[w] = <<Export(SummaryOf(AllOf(w)))>>
    /\ summaries \in Seq({Report(w) : w \in Shards})
    /\ \A i, j \in DOMAIN summaries : summaries[i].of = summaries[j].of => i = j
    /\ \A w \in Arrived : shard[w] = "end"
    /\ ~firstErr => merged = SummaryOf(UNION {AllOf(w) : w \in Folded})

ClusterInv == Mode /\ ControlInv /\ StreamInv /\ SummaryInv
=============================================================================
