--------------------------- MODULE RunLifecycle ---------------------------
(***************************************************************************)
(* The control plane's run registry and the life of one run, from          *)
(* StartRun to close(rs.done): server/internal/api server.go, registry.go, *)
(* runstate.go, handlers.go, orchestrator.go and report.go.                *)
(*                                                                         *)
(* Actors: HTTP handlers (CreateExperiment, StartRun, killRun), one        *)
(* execute goroutine per run, the Shutdown call made on SIGTERM, and the   *)
(* process itself, which may stop and start again over a durable store.    *)
(* A step is a critical section of s.mu or rs.mu, a store write, or the    *)
(* call made between two of them.                                          *)
(*                                                                         *)
(* Identifiers: nextID draws every id from ONE counter, so the run with    *)
(* number n is <<"run", n>> and the experiment with number n <<"exp", n>>. *)
(* Run state is indexed by that number.                                    *)
(***************************************************************************)
EXTENDS Naturals, FiniteSets

CONSTANTS
    MaxSeq,         \* bound: how many ids one process hands out
    MaxLive,        \* bound: how many runs are started and not done at a time
    Cap,            \* maxRetainedRuns
    Kinds,          \* the run specs that occur
    StoreOutcomes,  \* outcomes of a store write: {TRUE}, or BOOLEAN if it may fail
    MaxEpoch        \* bound: number of process lifetimes

\* What of a RunSpec steers execute: the workload model, whether the credential
\* pool provisions accounts, whether server metrics are opted in.
SpecKind == [open : BOOLEAN, boot : BOOLEAN, metrics : BOOLEAN]

ASSUME MaxSeqAssumption == MaxSeq \in Nat
ASSUME MaxLiveAssumption == MaxLive \in Nat
ASSUME CapAssumption == Cap \in Nat \ {0}
ASSUME KindsAssumption == Kinds \subseteq SpecKind
ASSUME OutcomesAssumption == StoreOutcomes \subseteq BOOLEAN
ASSUME EpochAssumption == MaxEpoch \in Nat \ {0}

VARIABLES
    epoch,     \* which lifetime of the process this is
    seq,       \* Server.seq
    specs,     \* Server.specs: the ids it holds
    kind,      \* the spec an experiment number was created with
    runs,      \* Server.runs: the numbers of the runs it holds
    runOrder,  \* Server.runOrder, as the pairs of runs the first of which stands before the second
    run,       \* the runState of a run number, with its goroutines' progress
    store,     \* the store's rows of a run id
    shut,      \* progress of Shutdown
    waitFor    \* the runs whose done channels Shutdown collected

vars == <<epoch, seq, specs, kind, runs, runOrder, run, store, shut, waitFor>>

Nums == 1 .. MaxSeq
Ids == {"exp", "run"} \X Nums
Epochs == 0 .. MaxEpoch

Status == {"none", "running", "completed", "killed", "failed"}

\* Where a run's execute goroutine stands.
Phases == {"none", "starting", "setup", "exec", "finalize", "metrics", "persist",
           "saveRun", "saveStats", "saveFindings", "deferred", "done"}

\* runState, and the locals of execute and of the killRun call that won the
\* status check: exp is exec.ExperimentID, failed the err given to finalizeRun,
\* found whether rs.findings was set, ctx the cancelled run context, guard the
\* tripped kill switch, snap what rs.report() captured for persistRun, lost that
\* SaveRun failed.
RunState ==
    [exp : 0 .. MaxSeq, status : Status, reason : {"", "operator", "error"}, pc : Phases,
     failed : BOOLEAN, found : BOOLEAN, ctx : BOOLEAN, guard : BOOLEAN,
     killer : {"none", "marked", "tripped", "done"},
     metrics : {"none", "series", "refused", "error"},
     snap : [status : Status, found : BOOLEAN], lost : BOOLEAN]

NoRun ==
    [exp |-> 0, status |-> "none", reason |-> "", pc |-> "none",
     failed |-> FALSE, found |-> FALSE, ctx |-> FALSE, guard |-> FALSE,
     killer |-> "none", metrics |-> "none",
     snap |-> [status |-> "none", found |-> FALSE], lost |-> FALSE]

\* The rows of one run id: which lifetime wrote the run row (0: absent) and the
\* status in it, which one wrote its stats and its findings.
Rows == [run : Epochs, status : Status, stats : Epochs, findings : Epochs, found : BOOLEAN]
NoRows == [run |-> 0, status |-> "none", stats |-> 0, findings |-> 0, found |-> FALSE]

\* The types of everything but the order slice.
StateTypeOK ==
    /\ epoch \in 1 .. MaxEpoch
    /\ seq \in 0 .. MaxSeq
    /\ specs \subseteq Ids
    /\ kind \in [Nums -> SpecKind]
    /\ runs \subseteq Nums
    /\ run \in [Nums -> RunState]
    /\ store \in [Nums -> Rows]
    /\ shut \in {"serving", "draining", "drained", "deadline"}
    /\ waitFor \subseteq Nums

TypeOK == StateTypeOK /\ runOrder \subseteq Nums \X Nums

NoKind == [open |-> FALSE, boot |-> FALSE, metrics |-> FALSE]

\* NewServer over an empty store.
Init ==
    /\ epoch = 1
    /\ seq = 0
    /\ specs = {}
    /\ kind = [n \in Nums |-> NoKind]
    /\ runs = {}
    /\ runOrder = {}
    /\ run = [n \in Nums |-> NoRun]
    /\ store = [n \in Nums |-> NoRows]
    /\ shut = "serving"
    /\ waitFor = {}

\* runStateTerminal: the switch over a run status.
Terminal(st) == st \in {"completed", "killed", "failed"}

----------------------------------------------------------------------------
(* Handlers *)

\* CreateExperiment: a valid spec gets the next id and enters s.specs.
CreateExperiment(k) ==
    /\ seq < MaxSeq
    /\ seq' = seq + 1
    /\ specs' = specs \cup {<<"exp", seq + 1>>}
    /\ kind' = [kind EXCEPT ![seq + 1] = k]
    /\ UNCHANGED <<epoch, runs, runOrder, run, store, shut, waitFor>>

\* StartRun up to the construction of rs: the spec is looked up, the guard built,
\* the run id drawn. Nothing is shared before registerRunLocked.
StartRun(e) ==
    /\ seq < MaxSeq
    /\ Cardinality({n \in Nums : run[n].pc \notin {"none", "done"}}) < MaxLive
    /\ <<"exp", e>> \in specs
    /\ seq' = seq + 1
    /\ run' = [run EXCEPT ![seq + 1] =
                 [NoRun EXCEPT !.exp = e, !.status = "running", !.pc = "starting"]]
    /\ UNCHANGED <<epoch, specs, kind, runs, runOrder, store, shut, waitFor>>

\* The terminal runs that stand before n in the order slice.
Elders(order, n) == {m \in Nums : <<m, n>> \in order /\ Terminal(run[m].status)}

\* Mutant: one run too many is evicted.
Mut_Evicted(order, held) ==
    {n \in held : Terminal(run[n].status)
                    /\ Cardinality(Elders(order, n)) + Cap <= Cardinality(held)}

\* What enforceRunCapLocked deletes: its loop walks the order slice and deletes a
\* terminal run while more than Cap are left, so a terminal run goes when fewer
\* terminal runs precede it than there are runs too many.
Evicted(order, held) ==
    {n \in held : Terminal(run[n].status)
                    /\ Cardinality(Elders(order, n)) + Cap < Cardinality(held)}

\* The order slice with a run appended, and as enforceRunCapLocked rewrites it.
Appended(order, n) == order \cup (runs \X {n})
Kept(order, gone) == {p \in order : p[1] \notin gone /\ p[2] \notin gone}

\* The s.mu section that ends StartRun: registerRunLocked, enforceRunCapLocked,
\* and the go statement. An evicted run's id is deleted from s.specs as well.
RegisterRun(n) ==
    /\ run[n].pc = "starting"
    /\ LET order == Appended(runOrder, n)
           held  == runs \cup {n}
           gone  == Evicted(order, held)
       IN /\ runs' = held \ gone
          /\ runOrder' = Kept(order, gone)
          /\ specs' = specs \ {<<"run", m>> : m \in gone}
    /\ run' = [run EXCEPT ![n].pc = "setup"]
    /\ UNCHANGED <<epoch, seq, kind, store, shut, waitFor>>

\* Mutant: killRun without the status check.
Mut_KillMark(n) ==
    /\ n \in runs
    /\ run[n].killer = "none"
    /\ run' = [run EXCEPT ![n].status = "killed", ![n].reason = "operator", ![n].killer = "marked"]
    /\ UNCHANGED <<epoch, seq, specs, kind, runs, runOrder, store, shut, waitFor>>

\* killRun, its rs.mu section: only a running run is marked; any other status
\* answers 409 and changes nothing.
KillMark(n) ==
    /\ n \in runs
    /\ run[n].status = "running"
    /\ run' = [run EXCEPT ![n].status = "killed", ![n].reason = "operator", ![n].killer = "marked"]
    /\ UNCHANGED <<epoch, seq, specs, kind, runs, runOrder, store, shut, waitFor>>

\* killRun, rs.guard.Kill(reason).
KillGuard(n) ==
    /\ run[n].killer = "marked"
    /\ run' = [run EXCEPT ![n].guard = TRUE, ![n].killer = "tripped"]
    /\ UNCHANGED <<epoch, seq, specs, kind, runs, runOrder, store, shut, waitFor>>

\* Mutant: killRun forgets rs.cancel().
Mut_KillCancel(n) ==
    /\ run[n].killer = "tripped"
    /\ run' = [run EXCEPT ![n].killer = "done"]
    /\ UNCHANGED <<epoch, seq, specs, kind, runs, runOrder, store, shut, waitFor>>

\* killRun, rs.cancel().
KillCancel(n) ==
    /\ run[n].killer = "tripped"
    /\ run' = [run EXCEPT ![n].ctx = TRUE, ![n].killer = "done"]
    /\ UNCHANGED <<epoch, seq, specs, kind, runs, runOrder, store, shut, waitFor>>

----------------------------------------------------------------------------
(* The execute goroutine of run n *)

RunKind(n) == kind[run[n].exp]

\* A step of execute that touches only the run's own state.
ExecuteStep(n, from) ==
    /\ run[n].pc = from
    /\ UNCHANGED <<epoch, seq, specs, kind, runs, runOrder, store, shut, waitFor>>

\* Mutant: the error path returns without finalizeRun.
Mut_ExecuteSetup(n) ==
    /\ ExecuteStep(n, "setup")
    /\ \E err \in (IF RunKind(n).boot THEN BOOLEAN ELSE {FALSE}) :
         run' = [run EXCEPT ![n].failed = err, ![n].pc = IF err THEN "deferred" ELSE "exec"]

\* bootstrapAuthFor, for a spec that provisions accounts: an error goes straight
\* to finalizeRun.
ExecuteSetup(n) ==
    /\ ExecuteStep(n, "setup")
    /\ \E err \in (IF RunKind(n).boot THEN BOOLEAN ELSE {FALSE}) :
         run' = [run EXCEPT ![n].failed = err, ![n].pc = IF err THEN "finalize" ELSE "exec"]

\* The run itself returns (executeOpen, executeDistributedSummary,
\* executeDistributed, executeLocal), then the rs.mu section that sets
\* rs.findings: the paths that return an aggregate set it only when err == nil,
\* the closed paths always.
ExecuteRun(n) ==
    /\ ExecuteStep(n, "exec")
    /\ \E err \in BOOLEAN :
         run' = [run EXCEPT ![n].failed = err, ![n].pc = "finalize",
                            ![n].found = ~RunKind(n).open \/ ~err]

\* Mutant: finalizeRun without the case that keeps killRun's mark.
Mut_FinalStatus(r) ==
    CASE r.ctx -> "killed"
      [] ~r.ctx /\ r.failed -> "failed"
      [] OTHER -> "completed"

\* The switch of finalizeRun.
FinalStatus(r) ==
    CASE r.status = "killed" \/ r.ctx -> "killed"
      [] r.status # "killed" /\ ~r.ctx /\ r.failed -> "failed"
      [] OTHER -> "completed"

\* finalizeRun, its rs.mu section. err is not used again.
FinalizeRun(n) ==
    /\ ExecuteStep(n, "finalize")
    /\ run' = [run EXCEPT ![n].status = FinalStatus(run[n]),
                          ![n].reason = IF FinalStatus(run[n]) = "failed" THEN "error" ELSE @,
                          ![n].failed = FALSE, ![n].pc = "metrics"]

\* fetchServerMetrics: the Prometheus host must pass the run's own guard; the
\* fetch then answers or fails.
FetchServerMetrics(n) ==
    /\ ExecuteStep(n, "metrics")
    /\ \E out \in IF ~RunKind(n).metrics THEN {"none"}
                  ELSE IF run[n].guard THEN {"refused"} ELSE {"series", "error"} :
         run' = [run EXCEPT ![n].metrics = out, ![n].pc = "persist"]

\* persistRun, rep := rs.report(), then SaveExperiment, whose row no report reads.
PersistReport(n) ==
    /\ ExecuteStep(n, "persist")
    /\ run' = [run EXCEPT ![n].snap = [status |-> run[n].status, found |-> run[n].found],
                          ![n].pc = "saveRun"]

\* SaveRun(rep.Run), an upsert on the run id.
SaveRun(n) ==
    /\ run[n].pc = "saveRun"
    /\ \E ok \in StoreOutcomes :
         /\ run' = [run EXCEPT ![n].pc = "saveStats", ![n].lost = ~ok]
         /\ store' = IF ok THEN [store EXCEPT ![n].run = epoch, ![n].status = run[n].snap.status]
                           ELSE store
    /\ UNCHANGED <<epoch, seq, specs, kind, runs, runOrder, shut, waitFor>>

\* SaveStats(rep.Run.ID, rep.Stats). A failure of any write is logged, and the
\* next one follows.
SaveStats(n) ==
    /\ run[n].pc = "saveStats"
    /\ run' = [run EXCEPT ![n].pc = "saveFindings"]
    /\ \E ok \in StoreOutcomes :
         store' = IF ok THEN [store EXCEPT ![n].stats = epoch] ELSE store
    /\ UNCHANGED <<epoch, seq, specs, kind, runs, runOrder, shut, waitFor>>

\* SaveFindings(rep.Run.ID, rep.Findings); the report is dropped, and execute
\* returns through its deferred calls.
SaveFindings(n) ==
    /\ run[n].pc = "saveFindings"
    /\ run' = [run EXCEPT ![n].snap = NoRun.snap, ![n].pc = "deferred"]
    /\ \E ok \in StoreOutcomes :
         store' = IF ok THEN [store EXCEPT ![n].findings = epoch, ![n].found = run[n].snap.found]
                        ELSE store
    /\ UNCHANGED <<epoch, seq, specs, kind, runs, runOrder, shut, waitFor>>

\* The deferred calls: runTeardown for a bootstrap run (module Bootstrap), then
\* close(rs.done).
CloseDone(n) ==
    /\ ExecuteStep(n, "deferred")
    /\ run' = [run EXCEPT ![n].pc = "done"]

Execute(n) ==
    \/ ExecuteSetup(n) \/ ExecuteRun(n) \/ FinalizeRun(n) \/ FetchServerMetrics(n)
    \/ PersistReport(n) \/ SaveRun(n) \/ SaveStats(n) \/ SaveFindings(n)
    \/ CloseDone(n)

----------------------------------------------------------------------------
(* Shutdown, and the process *)

\* Shutdown, its s.mu section: cancel every registered run, collect its channel.
ShutdownCancel ==
    /\ shut = "serving"
    /\ shut' = "draining"
    /\ waitFor' = runs
    /\ run' = [n \in Nums |-> IF n \in runs THEN [run[n] EXCEPT !.ctx = TRUE] ELSE run[n]]
    /\ UNCHANGED <<epoch, seq, specs, kind, runs, runOrder, store>>

\* Mutant: Shutdown takes a terminal status for a finished goroutine.
Mut_ShutdownDrained ==
    /\ shut = "draining"
    /\ \A n \in waitFor : Terminal(run[n].status)
    /\ shut' = "drained"
    /\ UNCHANGED <<epoch, seq, specs, kind, runs, runOrder, run, store, waitFor>>

\* Every collected channel is closed: Shutdown returns nil.
ShutdownDrained ==
    /\ shut = "draining"
    /\ \A n \in waitFor : run[n].pc = "done"
    /\ shut' = "drained"
    /\ UNCHANGED <<epoch, seq, specs, kind, runs, runOrder, run, store, waitFor>>

\* Its context expires first: Shutdown returns ctx.Err().
ShutdownDeadline ==
    /\ shut = "draining"
    /\ \E n \in waitFor : run[n].pc # "done"
    /\ shut' = "deadline"
    /\ UNCHANGED <<epoch, seq, specs, kind, runs, runOrder, run, store, waitFor>>

\* The process ends, at any point, and a new one starts over the same store
\* (Postgres). What it kept in memory is gone, the id counter included.
Restart ==
    /\ epoch < MaxEpoch
    /\ epoch' = epoch + 1
    /\ seq' = 0
    /\ specs' = {}
    /\ kind' = [n \in Nums |-> NoKind]
    /\ runs' = {}
    /\ runOrder' = {}
    /\ run' = [n \in Nums |-> NoRun]
    /\ shut' = "serving"
    /\ waitFor' = {}
    /\ UNCHANGED store

Next ==
    \/ \E k \in Kinds : CreateExperiment(k)
    \/ \E e \in Nums : StartRun(e)
    \/ \E n \in Nums : RegisterRun(n) \/ KillMark(n) \/ KillGuard(n) \/ KillCancel(n) \/ Execute(n)
    \/ ShutdownCancel \/ ShutdownDrained \/ ShutdownDeadline
    \/ Restart

Spec == Init /\ [][Next]_vars

\* Goroutines are scheduled and their calls return. How long the load phase lasts
\* is the spec's business (a soak run may last for days); what the code guarantees
\* is that it ends once the run context is cancelled. No request has to arrive,
\* and neither the drain deadline nor a restart is owed.
Fairness ==
    /\ \A n \in Nums : /\ WF_vars(RegisterRun(n))
                       /\ WF_vars(KillGuard(n) \/ KillCancel(n))
                       /\ WF_vars(ExecuteRun(n) /\ run[n].ctx)
                       /\ WF_vars(Execute(n) /\ run[n].pc # "exec")
    /\ WF_vars(ShutdownDrained)

FairSpec == Spec /\ Fairness

----------------------------------------------------------------------------
(* Properties *)

\* The store write that makes a run reportable is still to come.
SaveAhead(n) == run[n].pc \in {"starting", "setup", "exec", "finalize", "metrics", "persist",
                               "saveRun"}

\* This lifetime's run n has its row in the store, or its SaveRun failed.
Recorded(n) == store[n].run = epoch \/ run[n].lost

\* A terminal status and its reason are final: finalizeRun never overwrites the
\* mark of killRun, and killRun never marks a finished run, whatever the order in
\* which the handler and the execute goroutine take rs.mu.
StatusFinal ==
    [][epoch' = epoch =>
         \A n \in Nums : Terminal(run[n].status) =>
            /\ run'[n].status = run[n].status
            /\ run'[n].reason = run[n].reason]_vars

\* What a registration evicts: terminal runs only, the oldest first, none when the
\* cap is met, and no fewer than the cap asks for while a terminal run is left.
EvictionExact ==
    [][\A n \in Nums : RegisterRun(n) =>
         LET order == Appended(runOrder, n)
             gone  == (runs \cup {n}) \ runs'
         IN /\ \A m \in gone : Terminal(run[m].status)
            /\ \A m \in gone, k \in runs' : Terminal(run[k].status) => <<m, k>> \in order
            /\ gone # {} => Cardinality(runs') >= Cap
            /\ Cardinality(runs') > Cap => \A k \in runs' : ~Terminal(run[k].status)]_vars

\* A run is never lost: once started its row is in the store, or that write is
\* still to come, or it has failed (and was logged). No order of kill, eviction,
\* error returns and shutdown leaves a run that is over and in neither place.
NeverLost == \A n \in Nums : run[n].pc # "none" => SaveAhead(n) \/ Recorded(n)

\* A run row in the store carries a terminal status, and a row of this lifetime
\* the one the live report shows: the report captured before the store writes is
\* not stale when it is written.
StoredStatusFinal ==
    \A n \in Nums :
        /\ store[n].run # 0 => Terminal(store[n].status)
        /\ store[n].run = epoch => store[n].status = run[n].status

\* When Shutdown returns nil every run it waited for has been recorded.
ShutdownRecords ==
    shut = "drained" => \A n \in waitFor : Recorded(n)

\* An operator's kill ends the run: the goroutine closes rs.done, unless the whole
\* process stops first.
KillEnds == \A n \in Nums : run[n].killer = "marked" ~> run[n].pc \in {"done", "none"}

\* Shutdown returns: cancelling the collected runs is enough for them to finish.
ShutdownReturns == shut = "draining" ~> shut # "draining"

\* Both commands that stop runs take effect, whatever the run's goroutine is doing
\* when they come.
CommandsEnd == KillEnds /\ ShutdownReturns

----------------------------------------------------------------------------
(* The inductive invariant behind the safety properties *)

\* Phases after finalizeRun's stamp, and after the call of SaveRun.
StampedPhases == {"metrics", "persist", "saveRun", "saveStats", "saveFindings", "deferred", "done"}
SavedPhases == {"saveStats", "saveFindings", "deferred", "done"}

PhaseInv ==
    \A n \in Nums :
        /\ n > seq => run[n].pc = "none"
        /\ run[n].pc = "none" => run[n].status = "none" /\ run[n].killer = "none"
        /\ run[n].pc \in StampedPhases => Terminal(run[n].status)
        /\ run[n].pc \notin StampedPhases => run[n].status \in {"none", "running", "killed"}
        /\ run[n].pc = "saveRun" => run[n].snap.status = run[n].status
        /\ run[n].pc \in SavedPhases => Recorded(n)

StoreInv ==
    \A n \in Nums :
        /\ store[n].run <= epoch
        /\ store[n].run # 0 => Terminal(store[n].status)
        /\ store[n].run = epoch => run[n].pc \in SavedPhases /\ store[n].status = run[n].status

DrainInv == shut = "drained" => \A n \in waitFor : run[n].pc = "done"

\* The order slice lists the registered runs, each once, and a run is registered after
\* its StartRun drew the id.
RegistryInv ==
    /\ runOrder \subseteq runs \X runs
    /\ \A m, n \in runs : m # n => (<<m, n>> \in runOrder <=> <<n, m>> \notin runOrder)
    /\ \A n \in runs : <<n, n>> \notin runOrder /\ run[n].pc \notin {"none", "starting"}
    /\ \A k, m, n \in runs :
         <<k, m>> \in runOrder /\ <<m, n>> \in runOrder => <<k, n>> \in runOrder

IndInv == StateTypeOK /\ PhaseInv /\ StoreInv /\ DrainInv

----------------------------------------------------------------------------
(* What comments and documents say, and the code does not do *)

\* orchestrator.go: a run is persisted "so its report survives eviction from the
\* in-memory cache and a process restart": no later run replaces its row.
StoredReportKept ==
    [][\A n \in Nums : store[n].run # 0 => store'[n].run = store[n].run]_vars
=============================================================================
