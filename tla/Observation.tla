---------------------------- MODULE Observation ----------------------------
(***************************************************************************)
(* Client-side observation (server/internal/obs): what one request outcome *)
(* adds to the bounded latency histogram, the Collector, the mergeable     *)
(* Summary a worker ships, and how the Aggregator's observation list is    *)
(* classified into findings, each with its evidence bundle.                *)
(*                                                                         *)
(* Latencies are integers, a histogram is given by the bounds of its       *)
(* buckets, and a quantile is a rational numerator/denominator.            *)
(***************************************************************************)
EXTENDS Integers, Sequences, FiniteSets, SequencesExt, FiniteSetsExt, Functions

CONSTANTS
  Lows,        \* Lows[1] = minValueMs; Lows[i] the lower edge of bucket i > 1;
               \* the last bucket starts at maxValueMs and overflows
  Codes,       \* the HTTP status codes that occur; 0 is "no answer"
  APIs,        \* the endpoints of the graph
  MaxEvidence  \* maxEvidenceSessions

ASSUME ObservationAssumption ==
  /\ Lows \in Seq(Nat) /\ Len(Lows) > 1
  /\ \A i \in 1..(Len(Lows) - 1) : Lows[i] < Lows[i + 1]
  /\ Codes \subseteq Nat
  /\ MaxEvidence \in Nat \ {0}

NoSession == -1   \* SessionID "": the producer cannot attribute the request
NoTime == 0       \* the zero time.Time

----------------------------------------------------------------------------
(* The predicates of one observation, shared by both classifiers.          *)

failed(o) == o.class # "auth-refresh" /\ (o.code >= 400 \/ o.class # "")

unavailable(o) == o.code >= 500 \/ o.class \in {"timeout", "transport"}

contractSignal(o) == ~o.mutated /\ (o.code >= 500 \/ o.class = "assertion")

mutationSignal(o) == o.mutated /\ failed(o)

\* An observation without an API is a walk or setup failure.
hasEndpoint(o) == o.api \in APIs

----------------------------------------------------------------------------
(* Histogram: fixed buckets and a maximum clamped to the top bound.        *)

Buckets == 1..Len(Lows)
Overflow == Len(Lows)

NewHistogram == [buckets |-> [i \in Buckets |-> 0], max |-> 0]

bucketIndex(ms) == Max({1} \cup {i \in Buckets : Lows[i] <= ms})

bucketMid(i) ==
  IF i \in {1, Overflow} THEN Lows[i] ELSE (Lows[i] + Lows[i + 1]) \div 2

Observe(h, ms) ==
  [buckets |-> [h.buckets EXCEPT ![bucketIndex(ms)] = @ + 1],
   max |-> Max({h.max, Min({ms, Lows[Overflow]})})]

MergeHistogram(h, other) ==
  [buckets |-> [i \in Buckets |-> h.buckets[i] + other.buckets[i]],
   max |-> Max({h.max, other.max})]

\* ceil(q * n) clamped to 1..n, q = num/den.
NearestRank(num, den, n) == Max({1, Min({n, (num * n + den - 1) \div den})})

Quantile(h, num, den) ==
  LET n == SumFunction(h.buckets)
      cum(i) == SumFunctionOnSet(h.buckets, 1..i)
  IN IF n = 0 THEN 0
     ELSE bucketMid(Min({i \in Buckets : cum(i) >= NearestRank(num, den, n)}))

\* The exact nearest-rank percentile of a non-empty sequence of latencies.
percentile(lats, num, den) ==
  LET sorted == SortSeq(lats, LAMBDA a, b : a < b)
  IN sorted[NearestRank(num, den, Len(sorted))]

----------------------------------------------------------------------------
(* Collector and Summary: counters plus the histogram. The Collector       *)
(* counts every status >= 400 or error class as an error; the Summary uses *)
(* failed(), and tallies the finding categories an observation speaks for. *)

NewCollector == [total |-> 0, errors |-> 0, timeouts |-> 0,
                 status |-> [c \in Codes \ {0} |-> 0], hist |-> NewHistogram]

one(b) == IF b THEN 1 ELSE 0

Tally(c, o, isError) ==
  [total |-> c.total + 1,
   errors |-> c.errors + one(isError),
   timeouts |-> c.timeouts + one(o.class = "timeout"),
   status |-> IF o.code > 0 THEN [c.status EXCEPT ![o.code] = @ + 1] ELSE c.status,
   hist |-> Observe(c.hist, o.lat)]

Record(c, o) == Tally(c, o, o.code >= 400 \/ o.class # "")

Categories == {"mutation", "contract", "threshold", "availability"}

NewSummary == [counts |-> NewCollector, signals |-> [g \in Categories |-> 0]]

\* The observation is a signal of a category.
speaks(g, o) ==
  CASE g = "mutation" -> mutationSignal(o)
    [] g = "contract" -> contractSignal(o)
    [] g = "threshold" -> ~o.mutated /\ failed(o)
    [] g = "availability" -> unavailable(o)

tallyFindings(sig, o) == [g \in Categories |-> sig[g] + one(speaks(g, o))]

AddSummary(s, o) == [counts |-> Tally(s.counts, o, failed(o)),
                     signals |-> tallyFindings(s.signals, o)]

MergeSummary(s, other) ==
  [counts |->
     [total |-> s.counts.total + other.counts.total,
      errors |-> s.counts.errors + other.counts.errors,
      timeouts |-> s.counts.timeouts + other.counts.timeouts,
      status |-> [c \in Codes \ {0} |->
                    s.counts.status[c] + other.counts.status[c]],
      hist |-> MergeHistogram(s.counts.hist, other.counts.hist)],
   signals |-> [g \in Categories |-> s.signals[g] + other.signals[g]]]

\* Export drops the zero entries of its maps and LoadSummary puts them back;
\* a bucket array of another length is refused.
Export(s) ==
  [total |-> s.counts.total, errors |-> s.counts.errors,
   timeouts |-> s.counts.timeouts,
   status |-> RestrictValues(s.counts.status, LAMBDA n : n > 0),
   signals |-> RestrictValues(s.signals, LAMBDA n : n > 0),
   buckets |-> s.counts.hist.buckets, max |-> s.counts.hist.max]

Loadable(d) == DOMAIN d.buckets = Buckets

LoadSummary(d) ==
  LET get(f, k) == IF k \in DOMAIN f THEN f[k] ELSE 0
  IN [counts |-> [total |-> d.total, errors |-> d.errors,
                  timeouts |-> d.timeouts,
                  status |-> [c \in Codes \ {0} |-> get(d.status, c)],
                  hist |-> [buckets |-> d.buckets, max |-> d.max]],
      signals |-> [g \in Categories |-> get(d.signals, g)]]

----------------------------------------------------------------------------
(* Classification. A finding is identified by its category and evidence    *)
(* reference. A configuration gives the error-rate threshold in percent,   *)
(* the p95 gate and the availability streak; 0 disables each of them.      *)

DefaultClassifyConfig == [rate |-> 20, p95 |-> 0, streak |-> 5]

\* FindingConfig.Validate and FindingConfig.ClassifyConfig.
ValidFindingConfig(c) == c.rate \in 0..100 /\ c.p95 >= 0 /\ c.streak >= 0

ClassifyConfig(c) ==
  [f \in DOMAIN c |-> IF c[f] # 0 THEN c[f] ELSE DefaultClassifyConfig[f]]

Finding(cat, ref, sev, n, seen) ==
  [cat |-> cat, ref |-> ref, sev |-> sev, count |-> n, firstSeen |-> seen]

\* One finding per API with at least one signalling observation; firstSeen
\* is the timestamp of the first such observation of the list.
PerAPI(cat, sev, obs, Signal(_)) ==
  LET hits(a) == SelectSeq(obs, LAMBDA o : o.api = a /\ Signal(o))
  IN {Finding(cat, a, sev, Len(hits(a)), hits(a)[1].ts) :
        a \in {b \in APIs : hits(b) # <<>>}}

classifyMutation(obs) == PerAPI("mutation", "warning", obs, mutationSignal)
classifyContract(obs) == PerAPI("contract", "critical", obs, contractSignal)

\* sort.SliceStable by timestamp.
SortByTS(obs) ==
  LET order == SetToSortSeq(DOMAIN obs,
                 LAMBDA i, j : \/ obs[i].ts < obs[j].ts
                               \/ obs[i].ts = obs[j].ts /\ i < j)
  IN [k \in DOMAIN obs |-> obs[order[k]]]

\* The longest run of consecutive unavailable results.
MaxRun(obs) ==
  FoldLeft(LAMBDA acc, o :
             LET cur == IF unavailable(o) THEN acc.cur + 1 ELSE 0
             IN [cur |-> cur, max |-> Max({cur, acc.max})],
           [cur |-> 0, max |-> 0], obs).max

\* The streak taken in arrival order.
Mut_classifyAvailability(obs, run) ==
  LET streak(a) == MaxRun(SelectSeq(obs, LAMBDA o : o.api = a))
  IN {Finding("availability", a, "critical", streak(a), 0) :
        a \in {b \in APIs : run > 0 /\ streak(b) >= run}}

classifyAvailability(obs, run) ==
  LET streak(a) == MaxRun(SortByTS(SelectSeq(obs, LAMBDA o : o.api = a)))
  IN {Finding("availability", a, "critical", streak(a), 0) :
        a \in {b \in APIs : run > 0 /\ streak(b) >= run}}

thresholdFindings(errors, total, p95, cfg) ==
  {Finding("threshold", ref, "warning", 0, 0) :
     ref \in {r \in {"error-rate", "p95-latency"} :
       \/ /\ r = "error-rate" /\ cfg.rate > 0
          /\ errors * 100 > cfg.rate * total
       \/ r = "p95-latency" /\ cfg.p95 > 0 /\ p95 > cfg.p95}}

\* Mutated requests fail on purpose and are left out.
classifyThreshold(obs, cfg) ==
  LET plain == SelectSeq(obs, LAMBDA o : ~o.mutated)
      bad == Len(SelectSeq(plain, failed))
      p95 == IF cfg.p95 > 0
             THEN percentile([i \in DOMAIN plain |-> plain[i].lat], 95, 100)
             ELSE 0
  IN IF plain = <<>> THEN {}
     ELSE thresholdFindings(bad, Len(plain), p95, cfg)

Classify(obs, cfg) ==
  classifyMutation(obs) \cup classifyContract(obs)
    \cup classifyAvailability(obs, cfg.streak) \cup classifyThreshold(obs, cfg)

\* Coarse, run-wide findings of a merged summary.
FindingsFromSummary(s, cfg) ==
  LET n == s.signals
  IN {Finding(c, "run-wide", IF c = "mutation" THEN "warning" ELSE "critical",
              n[c], 0) :
        c \in {k \in {"mutation", "contract", "availability"} :
                 IF k = "availability" THEN cfg.streak > 0 /\ n[k] >= cfg.streak
                 ELSE n[k] > 0}}
     \cup thresholdFindings(s.counts.errors, s.counts.total,
                            Quantile(s.counts.hist, 95, 100), cfg)

----------------------------------------------------------------------------
(* Evidence: the observations behind a finding, condensed.                 *)

evidenceCandidates(f, obs, cfg) ==
  SelectSeq(obs, LAMBDA o :
    CASE f.cat = "mutation" -> o.api = f.ref /\ mutationSignal(o)
      [] f.cat = "contract" -> o.api = f.ref /\ contractSignal(o)
      [] f.cat = "availability" -> o.api = f.ref /\ unavailable(o)
      [] f.cat = "threshold" /\ f.ref = "error-rate" -> ~o.mutated /\ failed(o)
      [] f.cat = "threshold" /\ f.ref = "p95-latency" -> ~o.mutated /\ o.lat > cfg.p95)

\* One observation per session, its earliest, in the order the sessions appear.
Representatives(cand) ==
  LET known == SelectSeq(cand, LAMBDA o : o.session # NoSession)
      first == SelectSeq([i \in DOMAIN known |-> i],
                 LAMBDA i : \A j \in 1..(i - 1) : known[j].session # known[i].session)
      best(s) == SortByTS(SelectSeq(known, LAMBDA o : o.session = s))[1]
  IN [k \in DOMAIN first |-> best(known[first[k]].session)]

\* Sorted by time; over the cap, the earliest half and the slowest of the rest.
evidenceSessions(cand) ==
  LET reps == SortByTS(Representatives(cand))
      early == (MaxEvidence + 1) \div 2
      rest == SubSeq(reps, early + 1, Len(reps))
      bySlow == SetToSortSeq(DOMAIN rest,
                  LAMBDA i, j : \/ rest[i].lat > rest[j].lat
                                \/ rest[i].lat = rest[j].lat /\ i < j)
  IN IF Len(reps) <= MaxEvidence THEN reps
     ELSE SubSeq(reps, 1, early)
            \o [k \in 1..(MaxEvidence - early) |-> rest[bySlow[k]]]

\* The earliest and latest timestamps, NoTime when nothing was stamped.
observationWindow(obs) ==
  LET stamps == {obs[i].ts : i \in DOMAIN obs} \ {NoTime}
  IN IF stamps = {} THEN <<NoTime, NoTime>> ELSE <<Min(stamps), Max(stamps)>>

\* Occurrences in the four quarters of the window, none when nothing is stamped.
evidenceBuckets(cand, win) ==
  LET timed == SelectSeq(cand, LAMBDA o : o.ts # NoTime)
      quarter(o) == IF win[2] = win[1] THEN 0
                    ELSE Min({3, (4 * (o.ts - win[1])) \div (win[2] - win[1])})
  IN IF timed = <<>> THEN <<>>
     ELSE [q \in 0..3 |-> Len(SelectSeq(timed, LAMBDA o : quarter(o) = q))]

evidenceStatusCounts(cand) ==
  LET answered == SelectSeq(cand, LAMBDA o : o.code > 0)
  IN [c \in {answered[i].code : i \in DOMAIN answered} |->
        Len(SelectSeq(answered, LAMBDA o : o.code = c))]

attachEvidence(f, obs, cfg) ==
  LET cand == evidenceCandidates(f, obs, cfg)
  IN [sessions |-> evidenceSessions(cand),
      buckets |-> evidenceBuckets(cand, observationWindow(obs)),
      status |-> evidenceStatusCounts(cand)]
=============================================================================
