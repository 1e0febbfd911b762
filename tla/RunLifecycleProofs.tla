------------------------ MODULE RunLifecycleProofs ------------------------
(***************************************************************************)
(* Proofs about RunLifecycle for every number of ids, every cap, every set *)
(* of specs, with or without store failures, over any number of process    *)
(* lifetimes.                                                              *)
(***************************************************************************)
EXTENDS RunLifecycle, FiniteSetTheorems, WellFoundedInduction, TLAPS

USE DEF Nums, Epochs

LEMMA NoRunType == NoRun \in RunState
BY MaxSeqAssumption DEF NoRun, RunState, Status, Phases

LEMMA NoRowsType == NoRows \in Rows
BY EpochAssumption DEF NoRows, Rows, Status

LEMMA NoKindType == NoKind \in SpecKind
BY DEF NoKind, SpecKind

\* The registries are empty and no goroutine exists when the server is built.
LEMMA InitInv == Init => IndInv
<1> SUFFICES ASSUME Init PROVE IndInv
  OBVIOUS
<1>1. StateTypeOK
  BY NoRunType, NoRowsType, NoKindType, MaxSeqAssumption, EpochAssumption DEF Init, StateTypeOK
<1>2. PhaseInv
  BY DEF Init, PhaseInv, StampedPhases, SavedPhases, NoRun
<1>3. StoreInv
  BY DEF Init, StoreInv, NoRows
<1>4. DrainInv
  BY DEF Init, DrainInv
<1> QED
  BY <1>1, <1>2, <1>3, <1>4 DEF IndInv


\* A step that replaces one run's state and touches no other state the invariant
\* reads: what the new run state r has to satisfy.
LEMMA RunStep ==
    ASSUME IndInv, NEW n \in Nums, NEW r \in RunState,
           run' = [run EXCEPT ![n] = r],
           UNCHANGED <<epoch, seq, kind, store, shut, waitFor>>,
           specs' \subseteq Ids, runs' \subseteq Nums,
           run[n].pc # "none", r.pc # "none",
           r.pc \in StampedPhases => Terminal(r.status),
           r.pc \notin StampedPhases => r.status \in {"none", "running", "killed"},
           r.pc = "saveRun" => r.snap.status = r.status,
           r.pc \in SavedPhases => run[n].pc \in SavedPhases /\ r.lost = run[n].lost,
           run[n].pc \in SavedPhases => r.pc \in SavedPhases /\ r.status = run[n].status,
           run[n].pc = "done" => r.pc = "done"
    PROVE  IndInv'
<1> USE DEF IndInv
<1>1. StateTypeOK'
  BY DEF StateTypeOK
<1>2. /\ run'[n] = r
      /\ \A m \in Nums \ {n} : run'[m] = run[m]
  BY DEF StateTypeOK
<1>3. PhaseInv'
  BY <1>2 DEF StateTypeOK, PhaseInv, Recorded
<1>4. StoreInv'
  BY <1>2 DEF StateTypeOK, StoreInv
<1>5. DrainInv'
  BY <1>2 DEF StateTypeOK, DrainInv
<1> QED BY <1>1, <1>3, <1>4, <1>5

\* A write of persistRun: besides the run, one run id's rows change.
LEMMA SaveStepInv ==
    ASSUME IndInv, NEW n \in Nums, NEW r \in RunState, NEW w \in Rows,
           run' = [run EXCEPT ![n] = r],
           store' = [store EXCEPT ![n] = w],
           UNCHANGED <<epoch, seq, specs, kind, runs, shut, waitFor>>,
           run[n].pc \in {"saveRun", "saveStats", "saveFindings"},
           r.pc \in SavedPhases, r.pc # "none", r.status = run[n].status,
           \/ w.run = epoch
           \/ w.run = store[n].run /\ r.lost
           \/ w.run = store[n].run /\ run[n].pc \in SavedPhases /\ r.lost = run[n].lost,
           w.run = epoch => w.status = r.status,
           w.run # epoch => w.status = store[n].status
    PROVE  IndInv'
<1> USE DEF IndInv
<1>1. StateTypeOK'
  BY DEF StateTypeOK
<1>2. /\ run'[n] = r /\ store'[n] = w
      /\ \A m \in Nums \ {n} : run'[m] = run[m] /\ store'[m] = store[m]
  BY DEF StateTypeOK
<1>3. Terminal(run[n].status)
  BY DEF PhaseInv, StampedPhases
<1>4. PhaseInv'
  <2> SUFFICES ASSUME NEW m \in Nums
               PROVE /\ m > seq' => run'[m].pc = "none"
                     /\ run'[m].pc = "none" => run'[m].status = "none" /\ run'[m].killer = "none"
                     /\ run'[m].pc \in StampedPhases => Terminal(run'[m].status)
                     /\ run'[m].pc \notin StampedPhases => run'[m].status \in {"none", "running", "killed"}
                     /\ run'[m].pc = "saveRun" => run'[m].snap.status = run'[m].status
                     /\ run'[m].pc \in SavedPhases => store'[m].run = epoch' \/ run'[m].lost
    BY DEF PhaseInv, Recorded
  <2>1. CASE m # n
    BY <1>2, <2>1 DEF PhaseInv, Recorded
  <2>2. CASE m = n
    BY <1>2, <1>3, <2>2 DEF PhaseInv, Recorded, SavedPhases, StampedPhases
  <2> QED BY <2>1, <2>2
<1>5. StoreInv'
  BY <1>2, <1>3 DEF StateTypeOK, StoreInv, Rows
<1>6. DrainInv'
  BY <1>2 DEF StateTypeOK, DrainInv
<1> QED BY <1>1, <1>4, <1>5, <1>6

\* The execute goroutine of a run preserves the invariant.
LEMMA ExecuteInv == ASSUME IndInv, NEW n \in Nums, Execute(n) PROVE IndInv'
<1>0. run[n] \in RunState /\ specs \subseteq Ids /\ runs \subseteq Nums
  BY DEF IndInv, StateTypeOK
<1>a. /\ run[n].pc \in StampedPhases => Terminal(run[n].status)
      /\ run[n].pc \notin StampedPhases => run[n].status \in {"none", "running", "killed"}
  BY DEF IndInv, PhaseInv
<1>1. CASE ExecuteSetup(n)
  <2>1. PICK err \in BOOLEAN :
           run' = [run EXCEPT ![n].failed = err, ![n].pc = IF err THEN "finalize" ELSE "exec"]
    BY <1>1 DEF ExecuteSetup
  <2> DEFINE r == [run[n] EXCEPT !.failed = err, !.pc = IF err THEN "finalize" ELSE "exec"]
  <2>2. r \in RunState /\ r.pc \in {"finalize", "exec"} /\ r.status = run[n].status
    BY <1>0 DEF RunState, Phases
  <2>3. run' = [run EXCEPT ![n] = r]
    BY <2>1
  <2>4. run[n].pc = "setup" /\ UNCHANGED <<epoch, seq, specs, kind, runs, store, shut, waitFor>>
    BY <1>1 DEF ExecuteSetup, ExecuteStep
  <2> HIDE DEF r
  <2> QED BY <1>0, <1>a, <2>2, <2>3, <2>4, RunStep DEF StampedPhases, SavedPhases
<1>2. CASE ExecuteRun(n)
  <2>1. PICK err \in BOOLEAN :
           run' = [run EXCEPT ![n].failed = err, ![n].pc = "finalize",
                              ![n].found = ~RunKind(n).open \/ ~err]
    BY <1>2 DEF ExecuteRun
  <2> DEFINE f == ~RunKind(n).open \/ ~err
             r == [run[n] EXCEPT !.failed = err, !.pc = "finalize", !.found = f]
  <2>f. f \in BOOLEAN
    OBVIOUS
  <2>3. run' = [run EXCEPT ![n] = r]
    BY <2>1
  <2> HIDE DEF f
  <2>2. r \in RunState /\ r.pc = "finalize" /\ r.status = run[n].status
    BY <1>0, <2>f DEF RunState, Phases
  <2>4. run[n].pc = "exec" /\ UNCHANGED <<epoch, seq, specs, kind, runs, store, shut, waitFor>>
    BY <1>2 DEF ExecuteRun, ExecuteStep
  <2> HIDE DEF r
  <2> QED BY <1>0, <1>a, <2>2, <2>3, <2>4, RunStep DEF StampedPhases, SavedPhases
<1>3. CASE FinalizeRun(n)
  <2> DEFINE st == FinalStatus(run[n])
             why == IF FinalStatus(run[n]) = "failed" THEN "error" ELSE run[n].reason
             r == [run[n] EXCEPT !.status = st, !.reason = why, !.failed = FALSE, !.pc = "metrics"]
  <2>1. st \in Status /\ Terminal(st) /\ why \in {"", "operator", "error"}
    BY <1>0 DEF FinalStatus, Status, Terminal, RunState
  <2>3. run' = [run EXCEPT ![n] = r]
    BY <1>3 DEF FinalizeRun
  <2> HIDE DEF st, why
  <2>2. r \in RunState /\ r.pc = "metrics" /\ r.status = st
    BY <1>0, <2>1 DEF RunState, Phases
  <2>4. run[n].pc = "finalize" /\ UNCHANGED <<epoch, seq, specs, kind, runs, store, shut, waitFor>>
    BY <1>3 DEF FinalizeRun, ExecuteStep
  <2> HIDE DEF r
  <2> QED BY <1>0, <2>1, <2>2, <2>3, <2>4, RunStep DEF StampedPhases, SavedPhases
<1>4. CASE FetchServerMetrics(n)
  <2>1. PICK out \in {"none", "series", "refused", "error"} :
           run' = [run EXCEPT ![n].metrics = out, ![n].pc = "persist"]
    BY <1>4 DEF FetchServerMetrics
  <2> DEFINE r == [run[n] EXCEPT !.metrics = out, !.pc = "persist"]
  <2>2. r \in RunState /\ r.pc = "persist" /\ r.status = run[n].status
    BY <1>0 DEF RunState, Phases
  <2>3. run' = [run EXCEPT ![n] = r]
    BY <2>1
  <2>4. run[n].pc = "metrics" /\ UNCHANGED <<epoch, seq, specs, kind, runs, store, shut, waitFor>>
    BY <1>4 DEF FetchServerMetrics, ExecuteStep
  <2> HIDE DEF r
  <2> QED BY <1>0, <1>a, <2>2, <2>3, <2>4, RunStep DEF StampedPhases, SavedPhases
<1>5. CASE PersistReport(n)
  <2> DEFINE rep == [status |-> run[n].status, found |-> run[n].found]
             r == [run[n] EXCEPT !.snap = rep, !.pc = "saveRun"]
  <2>1. rep \in [status : Status, found : BOOLEAN] /\ rep.status = run[n].status
    BY <1>0 DEF RunState
  <2>3. run' = [run EXCEPT ![n] = r]
    BY <1>5 DEF PersistReport
  <2> HIDE DEF rep
  <2>2. r \in RunState /\ r.pc = "saveRun" /\ r.status = run[n].status /\ r.snap = rep
    BY <1>0, <2>1 DEF RunState, Phases
  <2>4. run[n].pc = "persist" /\ UNCHANGED <<epoch, seq, specs, kind, runs, store, shut, waitFor>>
    BY <1>5 DEF PersistReport, ExecuteStep
  <2> HIDE DEF r
  <2> QED BY <1>0, <1>a, <2>1, <2>2, <2>3, <2>4, RunStep DEF StampedPhases, SavedPhases
<1>6. CASE CloseDone(n)
  <2> DEFINE r == [run[n] EXCEPT !.pc = "done"]
  <2>2. r \in RunState /\ r.pc = "done" /\ r.status = run[n].status /\ r.lost = run[n].lost
    BY <1>0 DEF RunState, Phases
  <2>3. run' = [run EXCEPT ![n] = r]
    BY <1>6 DEF CloseDone
  <2>4. run[n].pc = "deferred" /\ UNCHANGED <<epoch, seq, specs, kind, runs, store, shut, waitFor>>
    BY <1>6 DEF CloseDone, ExecuteStep
  <2> HIDE DEF r
  <2> QED BY <1>0, <1>a, <2>2, <2>3, <2>4, RunStep DEF StampedPhases, SavedPhases
<1>b. /\ store \in [Nums -> Rows] /\ epoch \in Epochs /\ epoch # 0
      /\ run[n].pc = "saveRun" => run[n].snap.status = run[n].status
      /\ store[n].run = epoch => run[n].pc \in SavedPhases /\ store[n].status = run[n].status
  BY EpochAssumption DEF IndInv, StateTypeOK, PhaseInv, StoreInv
<1>7. CASE SaveRun(n)
  <2>1. PICK ok \in BOOLEAN :
           /\ run' = [run EXCEPT ![n].pc = "saveStats", ![n].lost = ~ok]
           /\ store' = IF ok THEN [store EXCEPT ![n].run = epoch, ![n].status = run[n].snap.status]
                             ELSE store
    BY <1>7, OutcomesAssumption DEF SaveRun
  <2> DEFINE lst == ~ok
             r == [run[n] EXCEPT !.pc = "saveStats", !.lost = lst]
             w == IF ok THEN [store[n] EXCEPT !.run = epoch, !.status = run[n].snap.status] ELSE store[n]
  <2>2. lst \in BOOLEAN
    OBVIOUS
  <2>3. run' = [run EXCEPT ![n] = r]
    BY <2>1
  <2>4. store' = [store EXCEPT ![n] = w]
    BY <1>b, <2>1
  <2>9. run[n].snap.status \in Status
    BY <1>0 DEF RunState
  <2>5. /\ w \in Rows
        /\ ok => w.run = epoch /\ w.status = run[n].snap.status
        /\ ~ok => w = store[n]
    BY <1>b, <2>9 DEF Rows
  <2>6. ~ok => lst = TRUE
    OBVIOUS
  <2> HIDE DEF w, lst
  <2>7. r \in RunState /\ r.pc = "saveStats" /\ r.status = run[n].status /\ r.lost = lst
    BY <1>0, <2>2 DEF RunState, Phases
  <2>8. run[n].pc = "saveRun" /\ UNCHANGED <<epoch, seq, specs, kind, runs, shut, waitFor>>
    BY <1>7 DEF SaveRun
  <2> HIDE DEF r
  <2>10. CASE ok
    BY <1>b, <2>3, <2>4, <2>5, <2>7, <2>8, <2>10, SaveStepInv DEF SavedPhases
  <2>11. CASE ~ok
    <3>1. w.run # epoch /\ w.status = store[n].status /\ w.run = store[n].run /\ r.lost
      BY <1>b, <2>5, <2>6, <2>7, <2>8, <2>11 DEF SavedPhases
    <3> QED BY <2>3, <2>4, <2>5, <2>7, <2>8, <3>1, SaveStepInv DEF SavedPhases
  <2> QED BY <2>10, <2>11
<1>8. CASE SaveStats(n)
  <2>1. PICK ok \in BOOLEAN : store' = IF ok THEN [store EXCEPT ![n].stats = epoch] ELSE store
    BY <1>8, OutcomesAssumption DEF SaveStats
  <2> DEFINE r == [run[n] EXCEPT !.pc = "saveFindings"]
             w == IF ok THEN [store[n] EXCEPT !.stats = epoch] ELSE store[n]
  <2>2. run' = [run EXCEPT ![n] = r]
    BY <1>8 DEF SaveStats
  <2>3. store' = [store EXCEPT ![n] = w]
    BY <1>b, <2>1
  <2>4. w \in Rows /\ w.run = store[n].run /\ w.status = store[n].status
    BY <1>b DEF Rows
  <2>5. r \in RunState /\ r.pc = "saveFindings" /\ r.status = run[n].status /\ r.lost = run[n].lost
    BY <1>0 DEF RunState, Phases
  <2>6. run[n].pc = "saveStats" /\ UNCHANGED <<epoch, seq, specs, kind, runs, shut, waitFor>>
    BY <1>8 DEF SaveStats
  <2> HIDE DEF r, w
  <2> QED BY <1>b, <2>2, <2>3, <2>4, <2>5, <2>6, SaveStepInv DEF SavedPhases
<1>9. CASE SaveFindings(n)
  <2>1. PICK ok \in BOOLEAN :
           store' = IF ok THEN [store EXCEPT ![n].findings = epoch, ![n].found = run[n].snap.found]
                          ELSE store
    BY <1>9, OutcomesAssumption DEF SaveFindings
  <2> DEFINE r == [run[n] EXCEPT !.snap = NoRun.snap, !.pc = "deferred"]
             w == IF ok THEN [store[n] EXCEPT !.findings = epoch, !.found = run[n].snap.found]
                        ELSE store[n]
  <2>2. run' = [run EXCEPT ![n] = r]
    BY <1>9 DEF SaveFindings
  <2>3. store' = [store EXCEPT ![n] = w]
    BY <1>b, <2>1
  <2>7. run[n].snap.found \in BOOLEAN
    BY <1>0 DEF RunState
  <2>4. w \in Rows /\ w.run = store[n].run /\ w.status = store[n].status
    BY <1>b, <2>7 DEF Rows
  <2>5. r \in RunState /\ r.pc = "deferred" /\ r.status = run[n].status /\ r.lost = run[n].lost
    BY <1>0 DEF RunState, Phases, NoRun, Status
  <2>6. run[n].pc = "saveFindings" /\ UNCHANGED <<epoch, seq, specs, kind, runs, shut, waitFor>>
    BY <1>9 DEF SaveFindings
  <2> HIDE DEF r, w
  <2> QED BY <1>b, <2>2, <2>3, <2>4, <2>5, <2>6, SaveStepInv DEF SavedPhases
<1> QED
  BY <1>1, <1>2, <1>3, <1>4, <1>5, <1>6, <1>7, <1>8, <1>9 DEF Execute

\* The run state StartRun builds, and the three updates of killRun.
LEMMA StartUpdate ==
    ASSUME NEW s \in RunState, NEW e \in 0 .. MaxSeq
    PROVE  LET r == [s EXCEPT !.exp = e, !.status = "running", !.pc = "starting"]
           IN  r \in RunState /\ r.pc = "starting" /\ r.status = "running"
BY DEF RunState, Status, Phases

LEMMA KillUpdates ==
    ASSUME NEW s \in RunState
    PROVE  /\ LET r == [s EXCEPT !.status = "killed", !.reason = "operator", !.killer = "marked"]
              IN  /\ r \in RunState /\ r.pc = s.pc /\ r.status = "killed" /\ r.snap = s.snap
                  /\ r.lost = s.lost
           /\ LET r == [s EXCEPT !.guard = TRUE, !.killer = "tripped"]
              IN  /\ r \in RunState /\ r.pc = s.pc /\ r.status = s.status /\ r.reason = s.reason
                  /\ r.snap = s.snap /\ r.lost = s.lost
           /\ LET r == [s EXCEPT !.ctx = TRUE, !.killer = "done"]
              IN  /\ r \in RunState /\ r.pc = s.pc /\ r.status = s.status /\ r.reason = s.reason
                  /\ r.snap = s.snap /\ r.lost = s.lost
           /\ LET r == [s EXCEPT !.ctx = TRUE]
              IN  /\ r \in RunState /\ r.pc = s.pc /\ r.status = s.status /\ r.reason = s.reason
                  /\ r.snap = s.snap /\ r.lost = s.lost /\ r.killer = s.killer
BY DEF RunState, Status

\* Every step of the system preserves the invariant.
LEMMA NextInv == IndInv /\ [Next]_vars => IndInv'
<1> SUFFICES ASSUME IndInv, [Next]_vars PROVE IndInv'
  OBVIOUS
<1>a. run \in [Nums -> RunState] /\ specs \subseteq Ids /\ runs \subseteq Nums
  BY DEF IndInv, StateTypeOK
<1>b. \A n \in Nums :
        /\ run[n].pc \in StampedPhases => Terminal(run[n].status)
        /\ run[n].pc \notin StampedPhases => run[n].status \in {"none", "running", "killed"}
  BY DEF IndInv, PhaseInv
<1>c. \A n \in Nums : run[n].pc = "saveRun" => run[n].snap.status = run[n].status
  BY DEF IndInv, PhaseInv
<1>1. CASE UNCHANGED vars
  BY <1>1 DEF vars, IndInv, StateTypeOK, PhaseInv, StoreInv, DrainInv, Recorded
<1>2. ASSUME NEW k \in Kinds, CreateExperiment(k) PROVE IndInv'
  <2>1. StateTypeOK'
    BY <1>2, KindsAssumption, MaxSeqAssumption DEF IndInv, CreateExperiment, StateTypeOK, Ids
  <2>2. PhaseInv' /\ StoreInv' /\ DrainInv'
    BY <1>2, MaxSeqAssumption
       DEF IndInv, CreateExperiment, StateTypeOK, PhaseInv, StoreInv, DrainInv, Recorded
  <2> QED BY <2>1, <2>2 DEF IndInv
<1>3. ASSUME NEW e \in Nums, StartRun(e) PROVE IndInv'
  <2> DEFINE new == [NoRun EXCEPT !.exp = e, !.status = "running", !.pc = "starting"]
  <2>1. new \in RunState /\ new.pc = "starting" /\ new.status = "running"
    <3>1. e \in 0 .. MaxSeq
      BY MaxSeqAssumption
    <3> QED BY <3>1, NoRunType, StartUpdate
  <2>2. /\ seq + 1 \in Nums /\ run' = [run EXCEPT ![seq + 1] = new] /\ seq' = seq + 1
        /\ UNCHANGED <<epoch, specs, kind, runs, store, shut, waitFor>>
    BY <1>3, MaxSeqAssumption DEF StartRun, IndInv, StateTypeOK
  <2> HIDE DEF new
  <2>3. StateTypeOK'
    BY <2>1, <2>2, MaxSeqAssumption DEF IndInv, StateTypeOK
  <2>4. PhaseInv'
    BY <2>1, <2>2, MaxSeqAssumption
       DEF IndInv, StateTypeOK, PhaseInv, StampedPhases, SavedPhases, Recorded
  <2>5. StoreInv'
    BY <2>1, <2>2, MaxSeqAssumption DEF IndInv, StateTypeOK, PhaseInv, StoreInv, SavedPhases
  <2>6. DrainInv'
    BY <2>1, <2>2, MaxSeqAssumption DEF IndInv, StateTypeOK, PhaseInv, DrainInv
  <2> QED BY <2>3, <2>4, <2>5, <2>6 DEF IndInv
<1>4. ASSUME NEW n \in Nums, RegisterRun(n) PROVE IndInv'
  <2> DEFINE r == [run[n] EXCEPT !.pc = "setup"]
  <2>1. /\ runs' \subseteq Nums
        /\ specs' \subseteq Ids
        /\ run' = [run EXCEPT ![n] = r]
        /\ UNCHANGED <<epoch, seq, kind, store, shut, waitFor>>
        /\ run[n].pc = "starting"
    BY <1>4, <1>a DEF RegisterRun
  <2>2. r \in RunState /\ r.pc = "setup" /\ r.status = run[n].status
    BY <1>a, ZenonT(60) DEF RunState, Phases
  <2> HIDE DEF r
  <2> QED BY <1>b, <2>1, <2>2, RunStep DEF StampedPhases, SavedPhases
<1>5. ASSUME NEW n \in Nums, KillMark(n) PROVE IndInv'
  <2> DEFINE r == [run[n] EXCEPT !.status = "killed", !.reason = "operator", !.killer = "marked"]
  <2>1. /\ run' = [run EXCEPT ![n] = r]
        /\ UNCHANGED <<epoch, seq, specs, kind, runs, store, shut, waitFor>>
        /\ run[n].status = "running" /\ n \in runs
    BY <1>5 DEF KillMark
  <2>2. /\ r \in RunState /\ r.pc = run[n].pc /\ r.status = "killed" /\ r.snap = run[n].snap
        /\ r.lost = run[n].lost
    BY <1>a, KillUpdates
  <2>3. run[n].pc \notin StampedPhases
    BY <1>b, <2>1 DEF Terminal
  <2>4. run[n].pc # "none"
    BY <2>1 DEF IndInv, PhaseInv
  <2> HIDE DEF r
  <2> QED BY <1>a, <2>1, <2>2, <2>3, <2>4, RunStep DEF StampedPhases, SavedPhases
<1>6. ASSUME NEW n \in Nums, KillGuard(n) PROVE IndInv'
  <2> DEFINE r == [run[n] EXCEPT !.guard = TRUE, !.killer = "tripped"]
  <2>1. /\ run' = [run EXCEPT ![n] = r]
        /\ UNCHANGED <<epoch, seq, specs, kind, runs, store, shut, waitFor>>
        /\ run[n].killer = "marked"
    BY <1>6 DEF KillGuard
  <2>2. /\ r \in RunState /\ r.pc = run[n].pc /\ r.status = run[n].status /\ r.snap = run[n].snap
        /\ r.lost = run[n].lost
    BY <1>a, KillUpdates
  <2>4. run[n].pc # "none"
    BY <2>1 DEF IndInv, PhaseInv
  <2> HIDE DEF r
  <2> QED BY <1>a, <1>b, <1>c, <2>1, <2>2, <2>4, RunStep
<1>7. ASSUME NEW n \in Nums, KillCancel(n) PROVE IndInv'
  <2> DEFINE r == [run[n] EXCEPT !.ctx = TRUE, !.killer = "done"]
  <2>1. /\ run' = [run EXCEPT ![n] = r]
        /\ UNCHANGED <<epoch, seq, specs, kind, runs, store, shut, waitFor>>
        /\ run[n].killer = "tripped"
    BY <1>7 DEF KillCancel
  <2>2. /\ r \in RunState /\ r.pc = run[n].pc /\ r.status = run[n].status /\ r.snap = run[n].snap
        /\ r.lost = run[n].lost
    BY <1>a, KillUpdates
  <2>4. run[n].pc # "none"
    BY <2>1 DEF IndInv, PhaseInv
  <2> HIDE DEF r
  <2> QED BY <1>a, <1>b, <1>c, <2>1, <2>2, <2>4, RunStep
<1>8. ASSUME NEW n \in Nums, Execute(n) PROVE IndInv'
  BY <1>8, ExecuteInv
<1>9. CASE ShutdownCancel
  <2> DEFINE r(n) == IF n \in runs THEN [run[n] EXCEPT !.ctx = TRUE] ELSE run[n]
  <2>1. \A n \in Nums : /\ r(n) \in RunState /\ r(n).pc = run[n].pc /\ r(n).status = run[n].status
                        /\ r(n).snap = run[n].snap /\ r(n).lost = run[n].lost
                        /\ r(n).killer = run[n].killer
    BY <1>a, KillUpdates
  <2>2. /\ run' = [n \in Nums |-> r(n)] /\ shut' = "draining" /\ waitFor' = runs
        /\ UNCHANGED <<epoch, seq, specs, kind, runs, store>>
    BY <1>9 DEF ShutdownCancel
  <2> HIDE DEF r
  <2>3. StateTypeOK'
    BY <2>1, <2>2 DEF IndInv, StateTypeOK
  <2>4. PhaseInv' /\ StoreInv' /\ DrainInv'
    BY <2>1, <2>2 DEF IndInv, PhaseInv, StoreInv, DrainInv, Recorded
  <2> QED BY <2>3, <2>4 DEF IndInv
<1>10. CASE ShutdownDrained \/ ShutdownDeadline
  BY <1>10, ZenonT(60) DEF ShutdownDrained, ShutdownDeadline, IndInv, StateTypeOK, PhaseInv, StoreInv, DrainInv,
               Recorded
<1>11. CASE Restart
  <2>1. StateTypeOK'
    BY <1>11, NoRunType, NoKindType, MaxSeqAssumption, EpochAssumption DEF Restart, IndInv, StateTypeOK
  <2>2. PhaseInv' /\ DrainInv'
    BY <1>11 DEF Restart, PhaseInv, DrainInv, StampedPhases, SavedPhases, NoRun
  <2>3. StoreInv'
    BY <1>11, EpochAssumption DEF Restart, IndInv, StateTypeOK, StoreInv, Rows
  <2> QED BY <2>1, <2>2, <2>3 DEF IndInv
<1> QED
  BY <1>1, <1>2, <1>3, <1>4, <1>5, <1>6, <1>7, <1>8, <1>9, <1>10, <1>11 DEF Next

\* The invariant holds in every reachable state.
THEOREM Invariance == Spec => []IndInv
BY InitInv, NextInv, PTL DEF Spec

\* No started run is lost: its row is written, still to be written, or its write
\* failed, whatever kills, evictions, error returns and shutdowns happen.
THEOREM NothingLost == Spec => []NeverLost
<1>1. IndInv => NeverLost
  BY DEF IndInv, StateTypeOK, RunState, Phases, PhaseInv, NeverLost, SaveAhead, SavedPhases
<1> QED BY <1>1, Invariance, PTL

\* Rows in the store are terminal, and agree with the live report.
THEOREM StoredFinal == Spec => []StoredStatusFinal
<1>1. IndInv => StoredStatusFinal
  BY DEF IndInv, StoreInv, StoredStatusFinal
<1> QED BY <1>1, Invariance, PTL

\* Shutdown returning nil means that what it waited for is recorded.
THEOREM DrainRecords == Spec => []ShutdownRecords
<1>1. IndInv => ShutdownRecords
  BY DEF IndInv, StateTypeOK, PhaseInv, DrainInv, ShutdownRecords, SavedPhases
<1> QED BY <1>1, Invariance, PTL

\* What the updates of a run's own goroutine leave alone.
LEMMA PcUpdates ==
    ASSUME NEW s \in RunState, NEW a, NEW b, NEW c
    PROVE  /\ [s EXCEPT !.pc = a].status = s.status
           /\ [s EXCEPT !.pc = a].reason = s.reason
           /\ [s EXCEPT !.failed = a, !.pc = b].status = s.status
           /\ [s EXCEPT !.failed = a, !.pc = b].reason = s.reason
           /\ [s EXCEPT !.failed = a, !.pc = b, !.found = c].status = s.status
           /\ [s EXCEPT !.failed = a, !.pc = b, !.found = c].reason = s.reason
           /\ [s EXCEPT !.metrics = a, !.pc = b].status = s.status
           /\ [s EXCEPT !.metrics = a, !.pc = b].reason = s.reason
           /\ [s EXCEPT !.snap = a, !.pc = b].status = s.status
           /\ [s EXCEPT !.snap = a, !.pc = b].reason = s.reason
           /\ [s EXCEPT !.pc = a, !.lost = b].status = s.status
           /\ [s EXCEPT !.pc = a, !.lost = b].reason = s.reason
           /\ [s EXCEPT !.status = a, !.reason = s.reason, !.failed = b, !.pc = c].status = a
           /\ [s EXCEPT !.status = a, !.reason = s.reason, !.failed = b, !.pc = c].reason = s.reason
BY DEF RunState

\* A terminal status and its reason survive every step of the process.
LEMMA StatusFinalStep ==
    ASSUME IndInv, [Next]_vars, epoch' = epoch, NEW n \in Nums, Terminal(run[n].status)
    PROVE  run'[n].status = run[n].status /\ run'[n].reason = run[n].reason
<1> USE DEF Terminal
<1>a. /\ run \in [Nums -> RunState] /\ seq \in Nat
      /\ run[n].pc # "none" /\ n <= seq
      /\ run[n].status = "killed" => FinalStatus(run[n]) = "killed"
  BY MaxSeqAssumption DEF IndInv, StateTypeOK, PhaseInv, FinalStatus
<1>1. CASE UNCHANGED vars
  BY <1>1 DEF vars
<1>2. CASE \E k \in Kinds : CreateExperiment(k)
  BY <1>2 DEF CreateExperiment
<1>3. CASE \E e \in Nums : StartRun(e)
  BY <1>a, <1>3 DEF StartRun
<1>b. run[n] \in RunState
  BY <1>a
<1>4. ASSUME NEW m \in Nums, RegisterRun(m) \/ KillGuard(m) \/ KillCancel(m)
      PROVE  run'[n].status = run[n].status /\ run'[n].reason = run[n].reason
  <2>1. CASE m # n
    BY <1>a, <1>4, <2>1 DEF RegisterRun, KillGuard, KillCancel
  <2>2. CASE m = n
    <3>1. CASE RegisterRun(n)
      <4>1. run'[n] = [run[n] EXCEPT !.pc = "setup"]
        BY <1>a, <3>1 DEF RegisterRun
      <4> QED BY <1>b, <4>1, PcUpdates
    <3>2. CASE KillGuard(n)
      <4>1. run'[n] = [run[n] EXCEPT !.guard = TRUE, !.killer = "tripped"]
        BY <1>a, <3>2 DEF KillGuard
      <4> QED BY <1>b, <4>1, KillUpdates, ZenonT(60)
    <3>3. CASE KillCancel(n)
      <4>1. run'[n] = [run[n] EXCEPT !.ctx = TRUE, !.killer = "done"]
        BY <1>a, <3>3 DEF KillCancel
      <4> QED BY <1>b, <4>1, KillUpdates, ZenonT(60)
    <3> QED BY <1>4, <2>2, <3>1, <3>2, <3>3
  <2> QED BY <2>1, <2>2
<1>5. ASSUME NEW m \in Nums, KillMark(m) PROVE run'[n] = run[n]
  BY <1>a, <1>5 DEF KillMark
<1>6. ASSUME NEW m \in Nums, Execute(m)
      PROVE  run'[n].status = run[n].status /\ run'[n].reason = run[n].reason
  <2>1. CASE m # n
    BY <1>a, <1>6, <2>1
       DEF Execute, ExecuteSetup, ExecuteRun, FinalizeRun, FetchServerMetrics, PersistReport, SaveRun,
           SaveStats, SaveFindings, CloseDone
  <2>2. CASE m = n /\ FinalizeRun(n)
    <3>1. run[n].status = "killed"
      BY <2>2 DEF FinalizeRun, ExecuteStep, IndInv, PhaseInv, StampedPhases
    <3>2. run' = [run EXCEPT ![n].status = "killed", ![n].reason = run[n].reason,
                             ![n].failed = FALSE, ![n].pc = "metrics"]
      BY <1>a, <2>2, <3>1 DEF FinalizeRun
    <3> QED BY <1>a, <1>b, <3>1, <3>2, PcUpdates
  <2>3. CASE m = n /\ ~FinalizeRun(n)
    <3>1. CASE ExecuteSetup(n)
      <4>1. PICK err \in BOOLEAN :
              run'[n] = [run[n] EXCEPT !.failed = err, !.pc = IF err THEN "finalize" ELSE "exec"]
        BY <1>a, <3>1 DEF ExecuteSetup
      <4> QED BY <1>b, <4>1, PcUpdates
    <3>2. CASE ExecuteRun(n)
      <4>1. PICK err \in BOOLEAN :
              run'[n] = [run[n] EXCEPT !.failed = err, !.pc = "finalize",
                                       !.found = ~RunKind(n).open \/ ~err]
        BY <1>a, <3>2 DEF ExecuteRun
      <4> DEFINE f == ~RunKind(n).open \/ ~err
      <4>2. run'[n] = [run[n] EXCEPT !.failed = err, !.pc = "finalize", !.found = f]
        BY <4>1
      <4> HIDE DEF f
      <4> QED BY <1>b, <4>2, PcUpdates
    <3>3. CASE FetchServerMetrics(n)
      <4>1. PICK a \in {"none", "series", "refused", "error"} :
              run'[n] = [run[n] EXCEPT !.metrics = a, !.pc = "persist"]
        BY <1>a, <3>3 DEF FetchServerMetrics
      <4> QED BY <1>b, <4>1, PcUpdates
    <3>4. CASE PersistReport(n)
      <4>1. \E a : run'[n] = [run[n] EXCEPT !.snap = a, !.pc = "saveRun"]
        BY <1>a, <3>4 DEF PersistReport
      <4> QED BY <1>b, <4>1, PcUpdates
    <3>5. CASE SaveRun(n)
      <4>1. \E b : run'[n] = [run[n] EXCEPT !.pc = "saveStats", !.lost = b]
        BY <1>a, <3>5 DEF SaveRun
      <4> QED BY <1>b, <4>1, PcUpdates
    <3>6. CASE SaveStats(n)
      <4>1. run'[n] = [run[n] EXCEPT !.pc = "saveFindings"]
        BY <1>a, <3>6 DEF SaveStats
      <4> QED BY <1>b, <4>1, PcUpdates
    <3>7. CASE SaveFindings(n)
      <4>1. run'[n] = [run[n] EXCEPT !.snap = NoRun.snap, !.pc = "deferred"]
        BY <1>a, <3>7 DEF SaveFindings
      <4> QED BY <1>b, <4>1, PcUpdates
    <3>8. CASE CloseDone(n)
      <4>1. run'[n] = [run[n] EXCEPT !.pc = "done"]
        BY <1>a, <3>8 DEF CloseDone
      <4> QED BY <1>b, <4>1, PcUpdates
    <3> QED BY <1>6, <2>3, <3>1, <3>2, <3>3, <3>4, <3>5, <3>6, <3>7, <3>8 DEF Execute
  <2> QED BY <2>1, <2>2, <2>3
<1>7. CASE ShutdownCancel
  BY <1>a, <1>7, KillUpdates DEF ShutdownCancel
<1>8. CASE ShutdownDrained \/ ShutdownDeadline
  BY <1>8 DEF ShutdownDrained, ShutdownDeadline
<1>9. CASE Restart
  <2>1. FALSE
    BY <1>9 DEF Restart, IndInv, StateTypeOK
  <2> QED BY <2>1
<1> QED
  BY <1>1, <1>2, <1>3, <1>4, <1>5, <1>6, <1>7, <1>8, <1>9 DEF Next

\* Statuses are final along every behaviour.
THEOREM StatusesFinal == Spec => StatusFinal
<1>1. IndInv /\ [Next]_vars =>
        [epoch' = epoch =>
           \A n \in Nums : Terminal(run[n].status) =>
              /\ run'[n].status = run[n].status
              /\ run'[n].reason = run[n].reason]_vars
  BY StatusFinalStep
<1> QED BY <1>1, Invariance, PTL DEF Spec, StatusFinal

----------------------------------------------------------------------------
(* The order of registration, and who is evicted *)

\* R orders the set S.
Orders(R, S) ==
    /\ R \subseteq S \X S
    /\ \A m, n \in S : m # n => (<<m, n>> \in R <=> <<n, m>> \notin R)
    /\ \A n \in S : <<n, n>> \notin R
    /\ \A k, m, n \in S : <<k, m>> \in R /\ <<m, n>> \in R => <<k, n>> \in R

\* Those of T that stand before n, and those of T that fewer than `spare` stand before.
Before(R, T, n) == {m \in T : <<m, n>> \in R}
First(R, T, spare) == {n \in T : Cardinality(Before(R, T, n)) < spare}

LEMMA Least ==
    ASSUME NEW T \in SUBSET Nat, T # {}
    PROVE  \E m \in T : \A k \in T : m <= k
<1> DEFINE R == {ss \in Nat \X Nat : ss[1] < ss[2]}
<1>1. IsWellFoundedOn(R, Nat)
  BY NatLessThanWellFounded, Zenon DEF OpToRel
<1> HIDE DEF R
<1>2. PICK m \in T : \A y \in T : ~(<<y, m>> \in R)
  BY <1>1, WFMin
<1>3. \A y \in T : ~(y < m)
  BY <1>2 DEF R
<1> QED BY <1>3

\* An element has more before it than any that stands before it.
LEMMA BeforeGrows ==
    ASSUME NEW S, IsFiniteSet(S), NEW R, Orders(R, S), NEW T \in SUBSET S,
           NEW m \in T, NEW n \in T, <<m, n>> \in R
    PROVE  Cardinality(Before(R, T, m)) < Cardinality(Before(R, T, n))
<1>1. IsFiniteSet(T) /\ Before(R, T, m) \in SUBSET T /\ Before(R, T, n) \in SUBSET T
  BY FS_Subset DEF Before
<1>2. IsFiniteSet(Before(R, T, m)) /\ IsFiniteSet(Before(R, T, n))
  BY <1>1, FS_Subset
<1>3. Before(R, T, m) \in SUBSET Before(R, T, n) /\ m \in Before(R, T, n)
      /\ m \notin Before(R, T, m)
  BY DEF Before, Orders
<1>4. /\ Cardinality(Before(R, T, m)) \in Nat /\ Cardinality(Before(R, T, n)) \in Nat
      /\ Cardinality(Before(R, T, m)) <= Cardinality(Before(R, T, n))
      /\ Cardinality(Before(R, T, n)) = Cardinality(Before(R, T, m)) =>
           Before(R, T, m) = Before(R, T, n)
  BY <1>2, <1>3, FS_Subset, FS_CardinalityType
<1> QED BY <1>3, <1>4

\* The first of T are before the others, no more than asked for, and no fewer unless T
\* has no more.
LEMMA FirstOnes ==
    ASSUME NEW S, IsFiniteSet(S), NEW R, Orders(R, S), NEW T \in SUBSET S, NEW spare \in Int
    PROVE  LET gone == First(R, T, spare)
           IN /\ \A m \in gone, k \in T \ gone : <<m, k>> \in R
              /\ gone # {} => Cardinality(gone) <= spare
              /\ Cardinality(gone) < spare => gone = T
<1> DEFINE gone == First(R, T, spare)
           e(n) == Cardinality(Before(R, T, n))
<1>0. IsFiniteSet(T) /\ gone \in SUBSET T /\ gone \in SUBSET S
  BY FS_Subset DEF First
<1>1. IsFiniteSet(gone) /\ Cardinality(gone) \in Nat
  BY <1>0, FS_Subset, FS_CardinalityType
<1>2. \A n \in T : e(n) \in Nat /\ (n \in gone <=> e(n) < spare)
  <2>1. \A n \in T : Before(R, T, n) \in SUBSET T
    BY DEF Before
  <2> QED BY <1>0, <2>1, FS_Subset, FS_CardinalityType DEF First
<1>3. \A m, n \in T : <<m, n>> \in R => e(m) < e(n)
  BY BeforeGrows
<1>4. \A m, n \in T : m # n => <<m, n>> \in R \/ <<n, m>> \in R
  BY DEF Orders
<1> HIDE DEF e
<1>5. ASSUME NEW m \in gone, NEW k \in T \ gone PROVE <<m, k>> \in R
  <2>1. e(m) \in Nat /\ e(k) \in Nat /\ e(m) < spare /\ ~(e(k) < spare) /\ m # k
    BY <1>0, <1>2
  <2>2. ~(e(k) < e(m))
    BY <2>1
  <2> QED BY <1>0, <1>3, <1>4, <2>1, <2>2
<1>6. ASSUME gone # {} PROVE Cardinality(gone) <= spare
  <2>1. spare \in Nat /\ spare > 0
    BY <1>0, <1>2, <1>6
  <2>2. IsFiniteSet(0 .. spare - 1) /\ Cardinality(0 .. spare - 1) = spare
    BY <2>1, FS_Interval
  <2> DEFINE f == [n \in gone |-> e(n)]
  <2>3. f \in [gone -> 0 .. spare - 1]
    BY <1>0, <1>2, <2>1
  <2>4. ~(\E x, y \in gone : x # y /\ f[x] = f[y])
    <3> SUFFICES ASSUME NEW x \in gone, NEW y \in gone, x # y PROVE f[x] # f[y]
      OBVIOUS
    <3>1. x \in T /\ y \in T /\ f[x] = e(x) /\ f[y] = e(y)
      BY <1>0
    <3>2. e(x) \in Nat /\ e(y) \in Nat /\ (e(x) < e(y) \/ e(y) < e(x))
      BY <1>2, <1>3, <1>4, <3>1
    <3> QED BY <3>1, <3>2
  <2> HIDE DEF f, gone
  <2>5. ~(Cardinality(0 .. spare - 1) < Cardinality(gone))
    BY <1>1, <2>2, <2>3, <2>4, FS_PigeonHole
  <2> QED BY <1>1, <2>1, <2>2, <2>5
<1>7. ASSUME Cardinality(gone) < spare PROVE gone = T
  <2> SUFFICES ASSUME T \ gone # {} PROVE FALSE
    BY <1>0
  <2> DEFINE C == {e(k) : k \in T \ gone}
  <2>1. C \in SUBSET Nat /\ C # {}
    BY <1>2
  <2>2. PICK c \in C : \A d \in C : c <= d
    BY <2>1, Least
  <2>3. PICK k \in T \ gone : c = e(k)
    OBVIOUS
  <2>4. ASSUME NEW m \in Before(R, T, k) PROVE m \in gone
    <3>1. m \in T /\ <<m, k>> \in R
      BY DEF Before
    <3>2. e(m) < e(k) /\ e(m) \in Nat /\ e(k) \in Nat
      BY <1>2, <1>3, <3>1
    <3>3. m \notin gone => e(k) <= e(m)
      BY <2>2, <2>3, <3>1
    <3> QED BY <3>2, <3>3
  <2>5. Before(R, T, k) \in SUBSET gone
    BY <2>4
  <2>6. e(k) <= Cardinality(gone)
    BY <1>1, <2>5, FS_Subset DEF e
  <2>7. e(k) \in Nat /\ ~(e(k) < spare)
    BY <1>2
  <2> QED BY <1>1, <1>7, <2>6, <2>7
<1> QED BY <1>5, <1>6, <1>7

\* What a registration makes of the registry.
LEMMA Registration ==
    ASSUME IndInv, RegistryInv, NEW n \in Nums, RegisterRun(n)
    PROVE  LET order == Appended(runOrder, n)
               held  == runs \cup {n}
               T     == {m \in held : Terminal(run[m].status)}
               gone  == First(order, T, Cardinality(held) - Cap)
           IN /\ Orders(order, held) /\ IsFiniteSet(held)
              /\ runs' = held \ gone /\ runOrder' = Kept(order, gone)
<1> DEFINE order == Appended(runOrder, n)
           held == runs \cup {n}
           T == {m \in held : Terminal(run[m].status)}
           gone == First(order, T, Cardinality(held) - Cap)
<1>1. n \notin runs /\ runs \subseteq Nums
  BY DEF RegisterRun, RegistryInv, IndInv, StateTypeOK
<1>2. Orders(order, held)
  BY <1>1 DEF RegistryInv, Orders, Appended
<1>3. IsFiniteSet(held)
  <2>1. IsFiniteSet(1 .. MaxSeq)
    BY MaxSeqAssumption, FS_Interval
  <2>2. held \in SUBSET (1 .. MaxSeq)
    BY <1>1
  <2> QED BY <2>1, <2>2, FS_Subset
<1>4. Cardinality(held) \in Nat
  BY <1>3, FS_CardinalityType
<1>5. \A m \in held : Elders(order, m) = Before(order, T, m)
  <2> HIDE DEF order
  <2>1. \A k, m : <<k, m>> \in order => k \in held
    BY <1>2 DEF Orders
  <2>2. held \subseteq Nums
    BY <1>1
  <2> QED BY <2>1, <2>2 DEF Elders, Before
<1>6. IsFiniteSet(T) /\ \A m \in held : Cardinality(Before(order, T, m)) \in Nat
  <2>1. T \in SUBSET held /\ \A m \in held : Before(order, T, m) \in SUBSET T
    BY DEF Before
  <2> QED BY <1>3, <2>1, FS_Subset, FS_CardinalityType
<1> HIDE DEF order
<1>7. Evicted(order, held) = gone
  <2>1. \A m \in T : Cardinality(Before(order, T, m)) + Cap < Cardinality(held)
                       <=> Cardinality(Before(order, T, m)) < Cardinality(held) - Cap
    BY <1>4, <1>6, CapAssumption
  <2>2. \A m \in T : m \in Evicted(order, held) <=> m \in gone
    BY <1>5, <2>1 DEF Evicted, First
  <2> QED BY <2>2 DEF Evicted, First
<1>8. runs' = held \ Evicted(order, held) /\ runOrder' = Kept(order, Evicted(order, held))
  BY DEF RegisterRun, order
<1> QED BY <1>2, <1>3, <1>7, <1>8 DEF order

\* A step that leaves the registry alone keeps it in order.
LEMMA RegistryFrame ==
    ASSUME RegistryInv, UNCHANGED <<runs, runOrder>>,
           \A n \in runs : run'[n].pc \notin {"none", "starting"}
    PROVE  RegistryInv'
BY DEF RegistryInv

LEMMA RegistryStep == IndInv /\ RegistryInv /\ [Next]_vars => RegistryInv'
<1> SUFFICES ASSUME IndInv, RegistryInv, [Next]_vars PROVE RegistryInv'
  OBVIOUS
<1>a. /\ run \in [Nums -> RunState] /\ runs \subseteq Nums
      /\ \A n \in Nums : run[n] \in RunState
      /\ \A n \in runs : run[n].pc \notin {"none", "starting"}
  BY DEF IndInv, StateTypeOK, RegistryInv
<1>1. CASE UNCHANGED vars \/ (\E k \in Kinds : CreateExperiment(k))
           \/ ShutdownDrained \/ ShutdownDeadline
  BY <1>a, <1>1, RegistryFrame DEF vars, CreateExperiment, ShutdownDrained, ShutdownDeadline
<1>2. ASSUME NEW e \in Nums, StartRun(e) PROVE RegistryInv'
  <2>1. UNCHANGED <<runs, runOrder>> /\ seq + 1 \in Nums /\ run[seq + 1].pc = "none"
    BY <1>2, MaxSeqAssumption DEF StartRun, IndInv, StateTypeOK, PhaseInv
  <2>2. \A n \in Nums \ {seq + 1} : run'[n] = run[n]
    BY <1>a, <1>2 DEF StartRun
  <2> QED BY <1>a, <2>1, <2>2, RegistryFrame
<1>3. ASSUME NEW n \in Nums, RegisterRun(n) PROVE RegistryInv'
  <2>1. \A m \in Nums \ {n} : run'[m] = run[m]
    BY <1>a, <1>3 DEF RegisterRun
  <2>2. run'[n].pc = "setup"
    BY <1>a, <1>3 DEF RegisterRun, RunState
  <2> DEFINE order == Appended(runOrder, n)
             held == runs \cup {n}
             T == {m \in held : Terminal(run[m].status)}
             gone == First(order, T, Cardinality(held) - Cap)
  <2>3. Orders(order, held) /\ runs' = held \ gone /\ runOrder' = Kept(order, gone)
    BY <1>3, Registration
  <2> HIDE DEF order, gone
  <2>4. \A m \in runs' : run'[m].pc \notin {"none", "starting"}
    BY <1>a, <2>1, <2>2, <2>3
  <2>5. Orders(runOrder', runs')
    BY <2>3 DEF Orders, Kept
  <2> QED BY <2>4, <2>5 DEF RegistryInv, Orders
<1>4. ASSUME NEW n \in Nums, KillMark(n) \/ KillGuard(n) \/ KillCancel(n) PROVE RegistryInv'
  <2>1. UNCHANGED <<runs, runOrder>> /\ \A m \in Nums \ {n} : run'[m] = run[m]
    BY <1>a, <1>4 DEF KillMark, KillGuard, KillCancel
  <2>2. run'[n].pc = run[n].pc
    <3>0. run[n] \in RunState
      BY <1>a
    <3>1. CASE KillMark(n)
      <4>1. run'[n] = [run[n] EXCEPT !.status = "killed", !.reason = "operator", !.killer = "marked"]
        BY <1>a, <3>1 DEF KillMark
      <4> QED BY <3>0, <4>1, KillUpdates, ZenonT(60)
    <3>2. CASE KillGuard(n)
      <4>1. run'[n] = [run[n] EXCEPT !.guard = TRUE, !.killer = "tripped"]
        BY <1>a, <3>2 DEF KillGuard
      <4> QED BY <3>0, <4>1, KillUpdates, ZenonT(60)
    <3>3. CASE KillCancel(n)
      <4>1. run'[n] = [run[n] EXCEPT !.ctx = TRUE, !.killer = "done"]
        BY <1>a, <3>3 DEF KillCancel
      <4> QED BY <3>0, <4>1, KillUpdates, ZenonT(60)
    <3> QED BY <1>4, <3>1, <3>2, <3>3
  <2> QED BY <1>a, <2>1, <2>2, RegistryFrame
<1>5. ASSUME NEW n \in Nums, Execute(n) PROVE RegistryInv'
  <2>1. UNCHANGED <<runs, runOrder>> /\ \A m \in Nums \ {n} : run'[m] = run[m]
    BY <1>a, <1>5
       DEF Execute, ExecuteSetup, ExecuteRun, FinalizeRun, FetchServerMetrics, PersistReport, SaveRun,
           SaveStats, SaveFindings, CloseDone, ExecuteStep
  <2>2. run'[n].pc \notin {"none", "starting"}
    <3>1. CASE ExecuteSetup(n)
      <4>1. PICK err \in BOOLEAN :
              run'[n] = [run[n] EXCEPT !.failed = err, !.pc = IF err THEN "finalize" ELSE "exec"]
        BY <1>a, <3>1 DEF ExecuteSetup
      <4> QED BY <1>a, <4>1 DEF RunState
    <3>2. CASE ExecuteRun(n)
      <4>1. PICK err \in BOOLEAN :
              run'[n] = [run[n] EXCEPT !.failed = err, !.pc = "finalize",
                                       !.found = ~RunKind(n).open \/ ~err]
        BY <1>a, <3>2 DEF ExecuteRun
      <4> DEFINE f == ~RunKind(n).open \/ ~err
      <4>2. run'[n] = [run[n] EXCEPT !.failed = err, !.pc = "finalize", !.found = f]
        BY <4>1
      <4> HIDE DEF f
      <4> QED BY <1>a, <4>2 DEF RunState
    <3>3. CASE FinalizeRun(n)
      <4>1. \E a, b : run'[n] = [run[n] EXCEPT !.status = a, !.reason = b, !.failed = FALSE,
                                               !.pc = "metrics"]
        BY <1>a, <3>3 DEF FinalizeRun
      <4> QED BY <1>a, <4>1 DEF RunState
    <3>4. CASE FetchServerMetrics(n)
      <4>1. \E a : run'[n] = [run[n] EXCEPT !.metrics = a, !.pc = "persist"]
        BY <1>a, <3>4 DEF FetchServerMetrics
      <4> QED BY <1>a, <4>1 DEF RunState
    <3>5. CASE PersistReport(n)
      <4>1. \E a : run'[n] = [run[n] EXCEPT !.snap = a, !.pc = "saveRun"]
        BY <1>a, <3>5 DEF PersistReport
      <4> QED BY <1>a, <4>1 DEF RunState
    <3>6. CASE SaveRun(n)
      <4>1. \E b : run'[n] = [run[n] EXCEPT !.pc = "saveStats", !.lost = b]
        BY <1>a, <3>6 DEF SaveRun
      <4> QED BY <1>a, <4>1 DEF RunState
    <3>7. CASE SaveStats(n)
      <4>1. run'[n] = [run[n] EXCEPT !.pc = "saveFindings"]
        BY <1>a, <3>7 DEF SaveStats
      <4> QED BY <1>a, <4>1 DEF RunState
    <3>8. CASE SaveFindings(n)
      <4>1. \E a : run'[n] = [run[n] EXCEPT !.snap = a, !.pc = "deferred"]
        BY <1>a, <3>8 DEF SaveFindings
      <4> QED BY <1>a, <4>1 DEF RunState
    <3>9. CASE CloseDone(n)
      <4>1. run'[n] = [run[n] EXCEPT !.pc = "done"]
        BY <1>a, <3>9 DEF CloseDone
      <4> QED BY <1>a, <4>1 DEF RunState
    <3> QED BY <1>5, <3>1, <3>2, <3>3, <3>4, <3>5, <3>6, <3>7, <3>8, <3>9 DEF Execute
  <2> QED BY <1>a, <2>1, <2>2, RegistryFrame
<1>6. CASE ShutdownCancel
  <2>1. UNCHANGED <<runs, runOrder>> /\ \A m \in Nums : run'[m].pc = run[m].pc
    BY <1>a, <1>6, KillUpdates DEF ShutdownCancel
  <2> QED BY <1>a, <2>1, RegistryFrame
<1>7. CASE Restart
  BY <1>7 DEF Restart, RegistryInv
<1> QED BY <1>1, <1>2, <1>3, <1>4, <1>5, <1>6, <1>7 DEF Next

\* The order slice lists the registered runs, each once, in the order they registered.
THEOREM RegistryOrdered == Spec => []RegistryInv
<1>1. Init => RegistryInv
  BY DEF Init, RegistryInv
<1> QED BY <1>1, RegistryStep, Invariance, PTL DEF Spec

\* The control plane's state is well typed in every instance.
THEOREM TypeCorrect == Spec => []TypeOK
<1>1. IndInv /\ RegistryInv => TypeOK
  <2>. SUFFICES ASSUME StateTypeOK, RegistryInv PROVE runOrder \subseteq Nums \X Nums
    BY DEF IndInv, TypeOK
  <2>1. runs \subseteq Nums
    BY DEF StateTypeOK
  <2>2. runOrder \subseteq runs \X runs
    BY DEF RegistryInv
  <2> QED BY <2>1, <2>2
<1> QED BY <1>1, Invariance, RegistryOrdered, PTL

\* Registering a run over the cap evicts the oldest terminal runs and no others, none
\* below the cap and none that is still running: for any cap and any number of runs,
\* in whatever order their ids were drawn (enforceRunCapLocked).
THEOREM EvictsExactly == Spec => EvictionExact
<1> DEFINE Exact(n) == RegisterRun(n) =>
         LET order == Appended(runOrder, n)
             gone  == (runs \cup {n}) \ runs'
         IN /\ \A m \in gone : Terminal(run[m].status)
            /\ \A m \in gone, k \in runs' : Terminal(run[k].status) => <<m, k>> \in order
            /\ gone # {} => Cardinality(runs') >= Cap
            /\ Cardinality(runs') > Cap => \A k \in runs' : ~Terminal(run[k].status)
<1>1. ASSUME IndInv, RegistryInv, NEW n \in Nums PROVE Exact(n)
  <2> SUFFICES ASSUME RegisterRun(n) PROVE Exact(n)
    OBVIOUS
  <2> DEFINE order == Appended(runOrder, n)
             held == runs \cup {n}
             T == {m \in held : Terminal(run[m].status)}
             spare == Cardinality(held) - Cap
             gone == First(order, T, spare)
  <2>1. Orders(order, held) /\ IsFiniteSet(held) /\ runs' = held \ gone
    BY <1>1, Registration
  <2>2. T \in SUBSET held /\ gone \in SUBSET T
    BY DEF First
  <2>3. Cardinality(held) \in Nat /\ Cap \in Nat /\ spare \in Int
    BY <2>1, FS_CardinalityType, CapAssumption
  <2> HIDE DEF order, gone
  <2>4. /\ \A m \in gone, k \in T \ gone : <<m, k>> \in order
        /\ gone # {} => Cardinality(gone) <= spare
        /\ Cardinality(gone) < spare => gone = T
    <3> HIDE DEF T, held, spare
    <3> QED BY <2>1, <2>2, <2>3, FirstOnes DEF gone
  <2>5. Cardinality(runs') = Cardinality(held) - Cardinality(gone) /\ Cardinality(gone) \in Nat
    <3>1. held \cap gone = gone /\ gone \in SUBSET held
      BY <2>2
    <3>2. IsFiniteSet(gone)
      BY <2>1, <3>1, FS_Subset
    <3>3. Cardinality(held \ gone) = Cardinality(held) - Cardinality(held \cap gone)
      BY <2>1, FS_Difference
    <3>4. Cardinality(gone) \in Nat
      BY <3>2, FS_CardinalityType
    <3> QED BY <2>1, <3>1, <3>3, <3>4
  <2>6. held \ runs' = gone
    BY <2>1, <2>2
  <2>7. /\ \A m \in gone : Terminal(run[m].status)
        /\ \A m \in gone, k \in runs' : Terminal(run[k].status) => <<m, k>> \in order
    BY <2>1, <2>2, <2>4
  <2>8. gone # {} => Cardinality(runs') >= Cap
    BY <2>3, <2>4, <2>5
  <2>9. Cardinality(runs') > Cap => \A k \in runs' : ~Terminal(run[k].status)
    <3>1. Cardinality(runs') > Cap => gone = T
      BY <2>3, <2>4, <2>5
    <3> QED BY <2>1, <3>1
  <2> QED BY <2>6, <2>7, <2>8, <2>9 DEF order
<1>2. IndInv /\ RegistryInv /\ [Next]_vars => [\A n \in Nums : Exact(n)]_vars
  BY <1>1
<1> QED BY <1>2, Invariance, RegistryOrdered, PTL DEF Spec, EvictionExact
=============================================================================
