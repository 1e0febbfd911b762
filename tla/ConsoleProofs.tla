----------------------------- MODULE ConsoleProofs -----------------------------
(***************************************************************************)
(* Proofs about Console: what the command line exits with, the verdicts    *)
(* that reproduce calls save, the snapshot file, the share links, and what *)
(* the live streams show.                                                  *)
(***************************************************************************)
EXTENDS Console, FiniteSetTheorems, WellFoundedInduction, TLAPS

LEMMA Inputs ==
    /\ \A fs \in Outcomes : IsFiniteSet(fs)
    /\ Flags \subseteq CLIFlags
BY ConsoleAssumption, Zenon

(***************************************************************************)
(* The steps, by what they leave alone                                     *)
(***************************************************************************)
\* A session's event: counters and grids, and the total of the run's statistics.
SessionStep ==
    \E s \in Sessions : \/ \E e \in Events : RecordRequest(s, e)
                        \/ RecordError(s) \/ AddTrace(s) \/ RecordLatency(s)

\* The run's goroutine and who ends the run.
RunStep ==
    \/ \E err \in BOOLEAN : EndRun(err)
    \/ \E fs \in Outcomes : Classify(fs)
    \/ Finalize \/ Capture
    \/ \E ok \in WriteOutcomes : Persist(ok)
    \/ killRun \/ Evict

EngineStep == Stop \/ Drained \/ SaveToFile \/ Crash \/ Restart

ReproduceStep ==
    \E c \in Reproducers : \/ \E req \in Requests : Reproduce(c, req)
                           \/ \E r \in Replays : Replay(c, r)
                           \/ AnnotateLive(c) \/ AnnotateRead(c)
                           \/ \E ok \in WriteOutcomes : AnnotateSave(c, ok)

ShareStep ==
    \/ \E ttl \in TTLs : createShare(ttl)
    \/ \E t \in 1 .. shares.issued : getSharedReport(t)

WatchStep ==
    \/ \E c \in Watchers : Open(c) \/ Hangup(c) \/ HeatStatus(c)
    \/ LastStats \/ TraceSince \/ TraceStatus \/ HeatSnapshot \/ LatencySnapshot

CommandStep == (\E flags \in Flags : CLIStart(flags)) \/ driveRun

LEMMA StepKinds ==
    ASSUME Next
    PROVE  \/ SessionStep \/ RunStep \/ EngineStep \/ ReproduceStep
           \/ ShareStep \/ WatchStep \/ CommandStep \/ Tick
BY DEF Next, SessionStep, RunStep, EngineStep, ReproduceStep, ShareStep, WatchStep, CommandStep

\* Sessions touch nothing of the run's end, of the engine or of a client.
LEMMA SessionLeaves ==
    ASSUME SessionStep
    PROVE  /\ UNCHANGED <<exec, outcome, cache, store, disk, engine, annotateMu, shares, at>>
           /\ rs' = rs \/ rs' = [rs EXCEPT !.total = @ + 1]
BY DEF SessionStep, RecordRequest, RecordError, AddTrace, RecordLatency, engineVars, clientVars

\* Streams read everything and change only their own client's state.
LEMMA WatchLeaves ==
    ASSUME ShapeInv, WatchStep
    PROVE  /\ UNCHANGED <<exec, rs, outcome, cache, store, disk, engine, annotateMu, shares>>
           /\ DOMAIN at' = Clients /\ \A c \in Clients : "pc" \in DOMAIN at'[c]
           /\ \A c \in Clients \ Watchers : at'[c] = at[c]
<1>1. Watchers \subseteq Clients /\ {"trace", "heat", "latency", "stats"} \subseteq Watchers
  BY DEF Watchers, Clients
<1>2. DOMAIN at = Clients /\ \A c \in Clients : "pc" \in DOMAIN at[c]
  BY DEF ShapeInv
<1>3. UNCHANGED <<exec, rs, outcome, cache, store, disk, engine, annotateMu, shares>>
  BY DEF WatchStep, Open, Hangup, HeatStatus, LastStats, TraceSince, TraceStatus, HeatSnapshot,
         LatencySnapshot, runVars, engineVars
<1>4. \E c \in Watchers : \E r : at' = [at EXCEPT ![c] = r] /\ "pc" \in DOMAIN r
  <2>1. ASSUME NEW c \in Watchers, Open(c) PROVE <1>4
    <3> DEFINE r == CASE c = "stats" -> [pc |-> "tick"]
                      [] c # "stats" /\ (~spec.trace \/ (c = "trace" /\ ~spec.small)) ->
                           [pc |-> "closed"]
                      [] OTHER -> [pc |-> "tick", last |-> 0, got |-> <<>>]
    <3>1. at' = [at EXCEPT ![c] = r]
      BY <2>1 DEF Open
    <3>2. "pc" \in DOMAIN r
      OBVIOUS
    <3> HIDE DEF r
    <3> QED BY <1>1, <3>1, <3>2
  <2>2. ASSUME NEW c \in Watchers, Hangup(c) PROVE <1>4
    <3> DEFINE r == [pc |-> "closed"]
    <3>1. at' = [at EXCEPT ![c] = r]
      BY <2>2 DEF Hangup
    <3>2. "pc" \in DOMAIN r
      OBVIOUS
    <3> HIDE DEF r
    <3> QED BY <1>1, <3>1, <3>2
  <2>3. ASSUME NEW c \in Watchers, HeatStatus(c) PROVE <1>4
    <3> DEFINE r == [pc |-> "snapshot", done |-> over, frame |-> <<>>, req |-> 0]
    <3>1. at' = [at EXCEPT ![c] = r]
      BY <2>3 DEF HeatStatus
    <3>2. "pc" \in DOMAIN r
      OBVIOUS
    <3> HIDE DEF r
    <3> QED BY <1>1, <3>1, <3>2
  <2>4. CASE LastStats
    <3> DEFINE r == [pc |-> "final", status |-> rs.status, total |-> rs.total]
    <3>1. at' = [at EXCEPT !["stats"] = r]
      BY <2>4 DEF LastStats
    <3>2. "pc" \in DOMAIN r
      OBVIOUS
    <3> HIDE DEF r
    <3> QED BY <1>1, <3>1, <3>2
  <2>5. CASE TraceSince
    <3> DEFINE r == LET evs == since(at["trace"].last)
                    IN  [pc |-> "status", got |-> at["trace"].got \o evs,
                         last |-> IF evs = <<>> THEN at["trace"].last ELSE Last(evs)]
    <3>1. at' = [at EXCEPT !["trace"] = r]
      BY <2>5 DEF TraceSince
    <3>2. "pc" \in DOMAIN r
      OBVIOUS
    <3> HIDE DEF r
    <3> QED BY <1>1, <3>1, <3>2
  <2>6. CASE TraceStatus
    <3> DEFINE r == [at["trace"] EXCEPT !.pc = IF over THEN "final" ELSE "tick"]
    <3>1. at' = [at EXCEPT !["trace"] = r]
      BY <2>6 DEF TraceStatus
    <3>2. "pc" \in DOMAIN r
      BY <1>1, <1>2
    <3> HIDE DEF r
    <3> QED BY <1>1, <3>1, <3>2
  <2>7. CASE HeatSnapshot
    <3>1. "heat" \in Watchers /\ "heat" \in Clients
      BY <1>1
    <3>2. \E r : at' = [at EXCEPT !["heat"] = r] /\ "pc" \in DOMAIN r
      BY <1>2, <2>7, <3>1 DEF HeatSnapshot, SendFrame
    <3> QED BY <3>1, <3>2
  <2>8. CASE LatencySnapshot
    <3> DEFINE r == IF at["latency"].done THEN [pc |-> "final", frame |-> snapshot]
                    ELSE [pc |-> "tick", last |-> 0, got |-> <<>>]
    <3>1. at' = [at EXCEPT !["latency"] = r]
      BY <2>8 DEF LatencySnapshot, SendFrame
    <3>2. "pc" \in DOMAIN r
      OBVIOUS
    <3> HIDE DEF r
    <3> QED BY <1>1, <3>1, <3>2
  <2> QED BY <2>1, <2>2, <2>3, <2>4, <2>5, <2>6, <2>7, <2>8 DEF WatchStep
<1> QED BY <1>1, <1>2, <1>3, <1>4

\* Reproduce calls change the live classes, the store's findings row, the lock and
\* their own client's state.
LEMMA ReproduceLeaves ==
    ASSUME ShapeInv, ReproduceStep
    PROVE  /\ UNCHANGED <<exec, outcome, cache, disk, engine, shares>>
           /\ rs' = rs \/ \E class : rs' = [rs EXCEPT !.class = class]
           /\ store' = store \/ \E class, fs : store' = [store EXCEPT !.class = class, !.findings = fs]
           /\ DOMAIN at' = Clients /\ \A c \in Clients : "pc" \in DOMAIN at'[c]
           /\ \A c \in Clients \ Reproducers : at'[c] = at[c]
<1>1. Reproducers \subseteq Clients
  BY DEF Clients
<1>2. DOMAIN at = Clients /\ \A c \in Clients : "pc" \in DOMAIN at[c]
  BY DEF ShapeInv
<1>3. \E c \in Reproducers : \E r : at' = [at EXCEPT ![c] = r] /\ "pc" \in DOMAIN r
  <2>1. ASSUME NEW c \in Reproducers, NEW req \in Requests, Reproduce(c, req) PROVE <1>3
    <3>1. PICK code \in Refusal(req) :
            at' = [at EXCEPT ![c] =
                     IF code # 0 THEN [pc |-> "answered", code |-> code]
                     ELSE [pc |-> "replay", key |-> keyOf(req), left |-> Attempts(req),
                           of |-> Attempts(req), hits |-> 0,
                           f |-> CHOOSE g \in findingByKey(reportFor[1].findings, req) : TRUE]]
      BY <2>1 DEF Reproduce
    <3> DEFINE r == IF code # 0 THEN [pc |-> "answered", code |-> code]
                    ELSE [pc |-> "replay", key |-> keyOf(req), left |-> Attempts(req),
                          of |-> Attempts(req), hits |-> 0,
                          f |-> CHOOSE g \in findingByKey(reportFor[1].findings, req) : TRUE]
    <3>2. at' = [at EXCEPT ![c] = r] /\ "pc" \in DOMAIN r
      BY <3>1
    <3> HIDE DEF r
    <3> QED BY <3>2
  <2>2. ASSUME NEW c \in Reproducers, NEW results \in Replays, Replay(c, results) PROVE <1>3
    <3>1. c \in Clients
      BY <1>1
    <3>2. \E r : at' = [at EXCEPT ![c] = r] /\ "pc" \in DOMAIN r
      BY <1>2, <2>2, <3>1 DEF Replay
    <3> QED BY <3>2
  <2>3. ASSUME NEW c \in Reproducers, AnnotateLive(c) PROVE <1>3
    <3> DEFINE r == [pc |-> "annotate", key |-> at[c].key,
                     verdict |-> rootCauseClass(at[c].hits, at[c].of)]
    <3>1. at' = [at EXCEPT ![c] = r] /\ "pc" \in DOMAIN r
      BY <2>3 DEF AnnotateLive
    <3> HIDE DEF r
    <3> QED BY <3>1
  <2>4. ASSUME NEW c \in Reproducers, AnnotateRead(c) PROVE <1>3
    <3> DEFINE r == [pc |-> "save", key |-> at[c].key, verdict |-> at[c].verdict,
                     rows |-> Stamp(store.class, at[c].key, at[c].verdict), fs |-> store.findings]
               q == [pc |-> "answered", code |-> 200, key |-> at[c].key,
                     verdict |-> at[c].verdict, saved |-> FALSE]
    <3>1. at' = [at EXCEPT ![c] = r] \/ at' = [at EXCEPT ![c] = q]
      BY <2>4 DEF AnnotateRead, Answered
    <3>2. "pc" \in DOMAIN r /\ "pc" \in DOMAIN q
      OBVIOUS
    <3> HIDE DEF r, q
    <3> QED BY <3>1, <3>2
  <2>5. ASSUME NEW c \in Reproducers, NEW ok \in WriteOutcomes, AnnotateSave(c, ok) PROVE <1>3
    <3> DEFINE r == [pc |-> "answered", code |-> 200, key |-> at[c].key,
                     verdict |-> at[c].verdict, saved |-> ok]
    <3>1. at' = [at EXCEPT ![c] = r] /\ "pc" \in DOMAIN r
      BY <2>5 DEF AnnotateSave, Answered
    <3> HIDE DEF r
    <3> QED BY <3>1
  <2> QED BY <2>1, <2>2, <2>3, <2>4, <2>5 DEF ReproduceStep
<1>4. /\ UNCHANGED <<exec, outcome, cache, disk, engine, shares>>
      /\ rs' = rs \/ \E class : rs' = [rs EXCEPT !.class = class]
      /\ store' = store \/ \E class, fs : store' = [store EXCEPT !.class = class, !.findings = fs]
  BY DEF ReproduceStep, Reproduce, Replay, AnnotateLive, AnnotateRead, AnnotateSave, runVars,
         engineVars
<1> QED BY <1>1, <1>2, <1>3, <1>4

\* So does the command line with its own.
LEMMA CommandLeaves ==
    ASSUME ShapeInv, CommandStep
    PROVE  /\ UNCHANGED <<exec, rs, outcome, cache, store, disk, engine, annotateMu, shares>>
           /\ DOMAIN at' = Clients /\ \A c \in Clients : "pc" \in DOMAIN at'[c]
           /\ \A c \in Clients \ {"cli"} : at'[c] = at[c]
<1>1. DOMAIN at = Clients /\ (\A c \in Clients : "pc" \in DOMAIN at[c]) /\ "cli" \in Clients
  BY DEF ShapeInv, Clients
<1>2. ASSUME NEW flags \in Flags, CLIStart(flags)
      PROVE  \E r : at' = [at EXCEPT !["cli"] = r] /\ "pc" \in DOMAIN r
  <2> DEFINE r == IF FlagsAccepted(flags) THEN [pc |-> "poll", flags |-> flags]
                  ELSE [pc |-> "exited", code |-> 1, failed |-> TRUE]
  <2>1. at' = [at EXCEPT !["cli"] = r] /\ "pc" \in DOMAIN r
    BY <1>2 DEF CLIStart
  <2> HIDE DEF r
  <2> QED BY <2>1
<1>3. ASSUME driveRun
      PROVE  \E r : at' = [at EXCEPT !["cli"] = r] /\ "pc" \in DOMAIN r
  <2> DEFINE r(code, failed) == [pc |-> "exited", code |-> code, failed |-> failed,
                                 flags |-> at["cli"].flags,
                                 informed |-> cache.run \/ store.findings = outcome.findings]
  <2>1. \A code, failed : "pc" \in DOMAIN r(code, failed)
    OBVIOUS
  <2>2. \E code, failed : at' = [at EXCEPT !["cli"] = r(code, failed)]
    BY <1>3 DEF driveRun, Exit
  <2> HIDE DEF r
  <2> QED BY <2>1, <2>2
<1>4. UNCHANGED <<exec, rs, outcome, cache, store, disk, engine, annotateMu, shares>>
  BY DEF CommandStep, CLIStart, driveRun, runVars, engineVars
<1> QED BY <1>1, <1>2, <1>3, <1>4 DEF CommandStep

\* ... and a viewer of a share link with its own.
LEMMA ShareLeaves ==
    ASSUME ShapeInv, ShareStep
    PROVE  /\ UNCHANGED <<exec, rs, outcome, cache, store, disk, engine, annotateMu>>
           /\ DOMAIN at' = Clients /\ \A c \in Clients : "pc" \in DOMAIN at'[c]
           /\ \A c \in Clients \ {"viewer"} : at'[c] = at[c]
<1>1. DOMAIN at = Clients /\ (\A c \in Clients : "pc" \in DOMAIN at[c]) /\ "viewer" \in Clients
  BY DEF ShapeInv, Clients
<1>2. at' = at \/ \E r : at' = [at EXCEPT !["viewer"] = r] /\ "pc" \in DOMAIN r
  <2> DEFINE r(code) == [pc |-> "idle", code |-> code]
  <2>1. \A code : "pc" \in DOMAIN r(code)
    OBVIOUS
  <2>2. ASSUME NEW t \in 1 .. shares.issued, getSharedReport(t)
        PROVE  \E code : at' = [at EXCEPT !["viewer"] = r(code)]
    <3> DEFINE known == t \in DOMAIN shares.m
               late == known /\ Expired(shares.m[t])
               code == CASE late -> 410
                         [] ~late /\ (~known \/ reportFor = <<>>) -> 404
                         [] OTHER -> 200
    <3>1. at' = [at EXCEPT !["viewer"] = r(code)]
      BY <2>2 DEF getSharedReport
    <3> HIDE DEF r, code
    <3> QED BY <3>1
  <2>3. at' = at \/ \E code : at' = [at EXCEPT !["viewer"] = r(code)]
    <3> HIDE DEF r
    <3> QED BY <2>2 DEF ShareStep, createShare
  <2> HIDE DEF r
  <2> QED BY <2>1, <2>3
<1>3. UNCHANGED <<exec, rs, outcome, cache, store, disk, engine, annotateMu>>
  BY DEF ShareStep, createShare, getSharedReport, runVars, engineVars
<1> QED BY <1>1, <1>2, <1>3

LEMMA RunLeaves ==
    ASSUME RunStep
    PROVE  UNCHANGED <<disk, engine, annotateMu, shares, at>>
BY DEF RunStep, EndRun, Classify, Finalize, Capture, Persist, killRun, Evict, engineVars, clientVars

\* Nothing outside the sessions, the run, the engine and reproduce calls changes what
\* the run and the store say.
LEMMA TickLeaves ==
    ASSUME Tick \/ UNCHANGED vars
    PROVE  UNCHANGED <<exec, rs, outcome, cache, store, disk, engine, annotateMu, shares, at>>
BY DEF Tick, vars, runVars, engineVars, clientVars

(***************************************************************************)
(* The shape of the state                                                  *)
(***************************************************************************)
LEMMA ShapeStep ==
    ASSUME ShapeInv, [Next]_vars
    PROVE  ShapeInv'
<1>1. CASE SessionStep
  BY <1>1, SessionLeaves DEF ShapeInv, Row
<1>2. CASE RunStep
  <2>1. DOMAIN at' = Clients /\ \A c \in Clients : "pc" \in DOMAIN at'[c]
    BY <1>2, RunLeaves DEF ShapeInv
  <2>2. \/ exec' = exec \/ (\E pc : exec' = [exec EXCEPT !.pc = pc])
        \/ (\E pc, err : exec' = [exec EXCEPT !.pc = pc, !.err = err])
        \/ \E pc, rep : exec' = [exec EXCEPT !.pc = pc, !.rep = rep]
    BY <1>2 DEF RunStep, EndRun, Classify, Finalize, Capture, Persist, killRun, Evict, runVars
  <2>3. \/ rs' = rs \/ (\E x : rs' = [rs EXCEPT !.status = x])
        \/ (\E x, y : rs' = [rs EXCEPT !.findings = x, !.class = y])
        \/ (\E x, y : rs' = [rs EXCEPT !.status = x, !.cancelled = y])
    BY <1>2 DEF RunStep, EndRun, Classify, Finalize, Capture, Persist, killRun, Evict, runVars
  <2>4. \/ store' = store \/ (\E x : store' = [store EXCEPT !.run = x])
        \/ (\E x : store' = [store EXCEPT !.stats = x])
        \/ (\E x, y : store' = [store EXCEPT !.findings = x, !.class = y])
    <3>1. ASSUME NEW ok \in WriteOutcomes, Persist(ok) PROVE <2>4
      <4>1. \/ store' = store
            \/ store' = [store EXCEPT !.run = exec.rep[1].run]
            \/ store' = [store EXCEPT !.stats = exec.rep[1].stats]
            \/ store' = [store EXCEPT !.findings = exec.rep[1].findings, !.class = exec.rep[1].class]
        BY <3>1 DEF Persist
      <4> QED BY <4>1
    <3>2. CASE \A ok \in WriteOutcomes : ~Persist(ok)
      BY <1>2, <3>2 DEF RunStep, EndRun, Classify, Finalize, Capture, killRun, Evict, engineVars
    <3> QED BY <3>1, <3>2
  <2>5. disk' = disk
    BY <1>2, RunLeaves
  <2> QED BY <2>1, <2>2, <2>3, <2>4, <2>5 DEF ShapeInv, Row
<1>3. CASE EngineStep
  <2>1. CASE Stop
    BY <2>1 DEF Stop, ShapeInv, Row, clientVars
  <2>2. CASE Drained \/ Crash
    BY <2>2 DEF Drained, Crash, ShapeInv, Row, runVars, clientVars
  <2>3. CASE SaveToFile
    BY <2>3 DEF SaveToFile, ShapeInv, Row, runVars, clientVars
  <2>4. CASE Restart
    <3>1. DOMAIN at' = Clients /\ \A c \in Clients : "pc" \in DOMAIN at'[c]
      BY <2>4 DEF Restart, ShapeInv, Idle
    <3>2. /\ exec' = [exec EXCEPT !.pc = "gone"] /\ rs' = rs /\ disk' = disk
      BY <2>4 DEF Restart
    <3>3. Row(store')
      BY <2>4 DEF Restart, LoadFromFile, EmptyStore, ShapeInv, Row
    <3> QED BY <3>1, <3>2, <3>3 DEF ShapeInv, Row
  <2> QED BY <1>3, <2>1, <2>2, <2>3, <2>4 DEF EngineStep
<1>4. CASE ReproduceStep
  BY <1>4, ReproduceLeaves DEF ShapeInv, Row
<1>5. CASE ShareStep
  BY <1>5, ShareLeaves DEF ShapeInv, Row
<1>6. CASE WatchStep
  BY <1>6, WatchLeaves DEF ShapeInv, Row
<1>7. CASE CommandStep
  BY <1>7, CommandLeaves DEF ShapeInv, Row
<1>8. CASE Tick \/ UNCHANGED vars
  BY <1>8, TickLeaves DEF ShapeInv, Row
<1> QED BY <1>1, <1>2, <1>3, <1>4, <1>5, <1>6, <1>7, <1>8, StepKinds

(***************************************************************************)
(* How the run ended                                                       *)
(***************************************************************************)
LEMMA EndStep ==
    ASSUME ShapeInv, EndInv, [Next]_vars
    PROVE  EndInv'
<1>1. CASE SessionStep
  BY <1>1, SessionLeaves DEF ShapeInv, EndInv, Unfinished, Unpersisted
<1>2. CASE RunStep
  <2>1. ASSUME NEW err \in BOOLEAN, EndRun(err) PROVE EndInv'
    BY <2>1 DEF EndRun, ShapeInv, EndInv, Unfinished, Unpersisted, engineVars
  <2>2. ASSUME NEW fs \in Outcomes, Classify(fs) PROVE EndInv'
    <3>1. IsFiniteSet(fs)
      BY Inputs
    <3> QED BY <2>2, <3>1 DEF Classify, ShapeInv, EndInv, Unfinished, Unpersisted, engineVars
  <2>3. CASE Finalize
    <3>1. FinalStatus \in Terminal
      BY DEF FinalStatus, Terminal
    <3> QED BY <2>3, <3>1
            DEF Finalize, ShapeInv, EndInv, Unfinished, Unpersisted, engineVars
  <2>4. CASE Capture
    BY <2>4 DEF Capture, report, ShapeInv, EndInv, Unfinished, Unpersisted, engineVars
  <2>5. ASSUME NEW ok \in WriteOutcomes, Persist(ok) PROVE EndInv'
    BY <2>5 DEF Persist, ShapeInv, EndInv, Unfinished, Unpersisted
  <2>6. CASE killRun
    BY <2>6 DEF killRun, ShapeInv, EndInv, Unfinished, Unpersisted, Terminal, engineVars
  <2>7. CASE Evict
    BY <2>7 DEF Evict, ShapeInv, EndInv, Unfinished, Unpersisted, runVars
  <2> QED BY <1>2, <2>1, <2>2, <2>3, <2>4, <2>5, <2>6, <2>7 DEF RunStep
<1>3. CASE EngineStep
  <2>1. CASE Stop
    BY <2>1 DEF Stop, ShapeInv, EndInv, Unfinished, Unpersisted
  <2>2. CASE Drained \/ SaveToFile \/ Crash
    BY <2>2 DEF Drained, SaveToFile, Crash, EndInv, Unfinished, Unpersisted, runVars
  <2>3. CASE Restart
    BY <2>3 DEF Restart, ShapeInv, EndInv, Unfinished, Unpersisted
  <2> QED BY <1>3, <2>1, <2>2, <2>3 DEF EngineStep
<1>4. CASE ReproduceStep
  BY <1>4, ReproduceLeaves DEF ShapeInv, EndInv, Unfinished, Unpersisted
<1>5. CASE ShareStep
  BY <1>5, ShareLeaves DEF EndInv, Unfinished, Unpersisted
<1>6. CASE WatchStep
  BY <1>6, WatchLeaves DEF EndInv, Unfinished, Unpersisted
<1>7. CASE CommandStep
  BY <1>7, CommandLeaves DEF EndInv, Unfinished, Unpersisted
<1>8. CASE Tick \/ UNCHANGED vars
  BY <1>8, TickLeaves DEF EndInv, Unfinished, Unpersisted
<1> QED BY <1>1, <1>2, <1>3, <1>4, <1>5, <1>6, <1>7, <1>8, StepKinds

LEMMA RowsStep ==
    ASSUME ShapeInv, EndInv, RowsInv, [Next]_vars
    PROVE  RowsInv'
<1>1. CASE SessionStep
  BY <1>1, SessionLeaves DEF RowsInv, EndedAs
<1>2. CASE RunStep
  <2>1. disk' = disk
    BY <1>2, RunLeaves
  <2>2. CASE Finalize
    <3>1. outcome.status = NoRun /\ store' = store
      BY <2>2 DEF Finalize, EndInv, Unfinished, engineVars
    <3>2. store.run = NoRun /\ disk.snap.run = NoRun /\ disk.next.run = NoRun
      BY <3>1 DEF RowsInv, EndedAs, Terminal, NoRun
    <3> QED BY <2>1, <3>1, <3>2 DEF RowsInv, EndedAs
  <2>3. ASSUME NEW ok \in WriteOutcomes, Persist(ok) PROVE RowsInv'
    <3>1. outcome' = outcome /\ outcome.status \in Terminal
      BY <2>3 DEF Persist, EndInv, Unpersisted
    <3>2. store'.run = store.run \/ store'.run = outcome.status
      BY <2>3 DEF Persist, EndInv, Unpersisted, ShapeInv, Row
    <3> QED BY <2>1, <3>1, <3>2 DEF RowsInv, EndedAs
  <2>4. CASE ~Finalize /\ \A ok \in WriteOutcomes : ~Persist(ok)
    <3>1. outcome' = outcome /\ store' = store
      BY <1>2, <2>4 DEF RunStep, EndRun, Classify, Capture, killRun, Evict, runVars, engineVars
    <3> QED BY <2>1, <3>1 DEF RowsInv, EndedAs
  <2> QED BY <2>2, <2>3, <2>4
<1>3. CASE EngineStep
  <2>1. outcome' = outcome
    BY <1>3 DEF EngineStep, Stop, Drained, SaveToFile, Crash, Restart, runVars
  <2>2. CASE SaveToFile
    BY <2>1, <2>2 DEF SaveToFile, RowsInv, EndedAs, ShapeInv, Row
  <2>3. CASE Restart
    BY <2>1, <2>3 DEF Restart, LoadFromFile, EmptyStore, RowsInv, EndedAs
  <2>4. CASE Stop \/ Drained \/ Crash
    BY <2>1, <2>4 DEF Stop, Drained, Crash, RowsInv, EndedAs
  <2> QED BY <1>3, <2>2, <2>3, <2>4 DEF EngineStep
<1>4. CASE ReproduceStep
  <2>1. store'.run = store.run
    BY <1>4, ReproduceLeaves DEF ShapeInv, Row
  <2> QED BY <1>4, <2>1, ReproduceLeaves DEF RowsInv, EndedAs
<1>5. CASE ShareStep
  BY <1>5, ShareLeaves DEF RowsInv, EndedAs
<1>6. CASE WatchStep
  BY <1>6, WatchLeaves DEF RowsInv, EndedAs
<1>7. CASE CommandStep
  BY <1>7, CommandLeaves DEF RowsInv, EndedAs
<1>8. CASE Tick \/ UNCHANGED vars
  BY <1>8, TickLeaves DEF RowsInv, EndedAs
<1> QED BY <1>1, <1>2, <1>3, <1>4, <1>5, <1>6, <1>7, <1>8, StepKinds

LEMMA FileStep ==
    ASSUME ShapeInv, FileInv, [Next]_vars
    PROVE  FileInv'
<1>1. CASE SaveToFile
  BY <1>1 DEF SaveToFile, FileInv, ShapeInv
<1>2. CASE ~SaveToFile
  <2>1. disk' = disk
    <3>1. CASE EngineStep
      BY <1>2, <3>1 DEF EngineStep, Stop, Drained, Crash, Restart
    <3> QED BY <3>1, StepKinds, SessionLeaves, RunLeaves, ReproduceLeaves, ShareLeaves,
               WatchLeaves, CommandLeaves, TickLeaves
  <2> QED BY <2>1 DEF FileInv
<1> QED BY <1>1, <1>2

(***************************************************************************)
(* The exit code                                                           *)
(***************************************************************************)
\* What the run's outcome calls for.
CalledFor(status, findings, flags) ==
    LET gated == (flags.failAny \/ flags.minSev # "") /\ \E f \in findings : Counts(f, flags)
        worse == hasBaseline(flags) /\ \E f \in findings : ~Excused(f, flags)
    IN  IF status # "completed" THEN 1 ELSE IF gated THEN 2 ELSE IF worse THEN 3 ELSE 0

\* The ladder over the diff, the unexpired known issues and the severities says the same.
LEMMA Ladder ==
    ASSUME NEW flags \in Flags, FlagsAccepted(flags), NEW findings, IsFiniteSet(findings),
           NEW status \in Terminal
    PROVE  ExitCode(status, findings, flags) = CalledFor(status, findings, flags)
<1> DEFINE known == IF flags.known = <<>> THEN <<>> ELSE flags.known[1]
           base == baseFindings(flags)
           new == Evaluate(base, findings, known, flags.now).new
<1>1. flags \in CLIFlags
  BY Inputs
<1>2. /\ flags.failAny \in BOOLEAN /\ flags.now \in Nat
      /\ flags.known \in Seq(Seq(KnownIssue))
  BY <1>1 DEF CLIFlags
<1>3. gatingFindings(findings, flags.failAny, flags.minSev) > 0
      <=> (flags.failAny \/ flags.minSev # "") /\ \E f \in findings : Counts(f, flags)
  <2> DEFINE hits == {f \in findings : Counts(f, flags)}
  <2>1. hits = {f \in findings : flags.minSev = "critical" => f.severity = "critical"}
    BY DEF Counts
  <2>2. IsFiniteSet(hits) /\ Cardinality(hits) \in Nat /\ (Cardinality(hits) = 0 <=> hits = {})
    BY FS_Subset, FS_CardinalityType, FS_EmptySet
  <2>3. hits # {} <=> \E f \in findings : Counts(f, flags)
    OBVIOUS
  <2> HIDE DEF hits
  <2>4. gatingFindings(findings, flags.failAny, flags.minSev)
          = IF ~flags.failAny /\ flags.minSev = "" THEN 0 ELSE Cardinality(hits)
    BY <2>1 DEF gatingFindings
  <2>5. CASE flags.failAny \/ flags.minSev # ""
    <3>1. gatingFindings(findings, flags.failAny, flags.minSev) = Cardinality(hits)
      BY <2>4, <2>5
    <3>2. Cardinality(hits) > 0 <=> hits # {}
      BY <2>2
    <3>3. gatingFindings(findings, flags.failAny, flags.minSev) > 0 <=> hits # {}
      BY <3>1, <3>2
    <3> QED BY <2>3, <2>5, <3>3, Zenon
  <2>6. CASE ~(flags.failAny \/ flags.minSev # "")
    <3>1. gatingFindings(findings, flags.failAny, flags.minSev) = 0
      BY <2>4, <2>6
    <3>2. ~(gatingFindings(findings, flags.failAny, flags.minSev) > 0)
      BY <3>1
    <3> QED BY <2>6, <3>2, Zenon
  <2> QED BY <2>5, <2>6
<1>4. known \in Seq(KnownIssue)
  BY <1>2
<1>5. \A k \in Range(known) : k \in KnownIssue /\ k.expires # <<>>
  <2>1. Range(known) = {known[i] : i \in DOMAIN known}
    BY DEF Range
  <2>2. flags.known # <<>> => \A i \in DOMAIN known : known[i].expires # <<>>
    BY DEF FlagsAccepted, ParseKnownIssues
  <2>3. flags.known = <<>> => DOMAIN known = {}
    OBVIOUS
  <2> QED BY <1>4, <2>1, <2>2, <2>3
<1>6. \A k \in Range(known) : k.expires[1] \in Nat
  BY <1>5 DEF KnownIssue
<1>7. \A k \in Range(known) : ~expired(k, flags.now) <=> flags.now \div HalfDays <= k.expires[1]
  BY <1>2, <1>6 DEF expired, HalfDays
<1>8. ASSUME NEW f \in findings PROVE f \in new <=> ~Excused(f, flags)
  <2> DEFINE late == {k \in Range(known) : expired(k, flags.now)}
  <2>1. f \in new <=> keyOf(f) \notin keySet(base) /\ ~match(Range(known) \ late, f)
    BY DEF Evaluate, DiffAgainstBaseline, diffFindings
  <2>2. keyOf(f) \in keySet(base) <=> \E b \in base : b.category = f.category /\ b.ref = f.ref
    BY DEF keyOf, keySet
  <2>3. match(Range(known) \ late, f)
          <=> \E k \in Range(known) : /\ k.category = f.category /\ k.ref = f.ref
                                      /\ flags.now \div HalfDays <= k.expires[1]
    <3>1. match(Range(known) \ late, f)
            <=> \E k \in Range(known) : matches(k, f) /\ ~expired(k, flags.now)
      BY DEF match
    <3> QED BY <1>7, <3>1 DEF matches
  <2>4. (\E k \in Range(known) : /\ k.category = f.category /\ k.ref = f.ref
                                 /\ flags.now \div HalfDays <= k.expires[1])
          <=> /\ flags.known # <<>>
              /\ \E i \in DOMAIN flags.known[1] :
                    LET k == flags.known[1][i]
                    IN  /\ k.category = f.category /\ k.ref = f.ref
                        /\ flags.now \div HalfDays <= k.expires[1]
    <3>1. Range(known) = {known[i] : i \in DOMAIN known}
      BY DEF Range
    <3>2. CASE flags.known = <<>>
      <4>1. DOMAIN known = {}
        BY <3>2
      <4> QED BY <3>1, <3>2, <4>1
    <3>3. CASE flags.known # <<>>
      <4>1. known = flags.known[1]
        BY <3>3
      <4> HIDE DEF known
      <4> QED BY <3>1, <3>3, <4>1
    <3> QED BY <3>2, <3>3
  <2> HIDE DEF new, late, known
  <2> QED BY <2>1, <2>2, <2>3, <2>4 DEF Excused
<1>9. new # {} <=> \E f \in findings : ~Excused(f, flags)
  <2>1. new \subseteq findings
    BY DEF Evaluate, DiffAgainstBaseline, diffFindings
  <2> HIDE DEF new
  <2> QED BY <1>8, <2>1
<1>10. status \in {"failed", "killed"} <=> status # "completed"
  BY DEF Terminal
<1> DEFINE gates == gatingFindings(findings, flags.failAny, flags.minSev) > 0
           worse == hasBaseline(flags) /\ new # {}
<1>11. ExitCode(status, findings, flags)
         = CASE status \in {"failed", "killed"} -> 1
             [] ~(status \in {"failed", "killed"}) /\ gates -> 2
             [] ~(status \in {"failed", "killed"}) /\ ~gates /\ worse -> 3
             [] OTHER -> 0
  BY DEF ExitCode
<1>12. CalledFor(status, findings, flags)
         = IF status # "completed" THEN 1 ELSE IF gates THEN 2 ELSE IF worse THEN 3 ELSE 0
  <2> HIDE DEF new
  <2> QED BY <1>3, <1>9 DEF CalledFor
<1> HIDE DEF gates, worse
<1> QED BY <1>10, <1>11, <1>12

LEMMA Honest ==
    ExitHonest <=> (Reported => at["cli"].code
                                  = CalledFor(outcome.status, outcome.findings, at["cli"].flags))
BY DEF ExitHonest, Reported, CalledFor

\* What a command has read stays true: the run ends once.
LEMMA CommandKept ==
    ASSUME EndInv, PollInv, ExitHonest, at'["cli"] = at["cli"],
           Unfinished' => Unfinished /\ rs'.status \in {rs.status, "killed"},
           Unfinished \/ UNCHANGED outcome,
           Unfinished => UNCHANGED outcome \/ (rs.status = "killed" => outcome'.status = "killed")
    PROVE  PollInv' /\ ExitHonest'
<1>1. Reported' <=> Reported
  BY DEF Reported
<1>2. PollInv'
  BY <1>1 DEF PollInv
<1>3. ASSUME Reported PROVE at["cli"].code = CalledFor(outcome'.status, outcome'.findings, at["cli"].flags)
  <2>1. at["cli"].code = CalledFor(outcome.status, outcome.findings, at["cli"].flags)
    BY <1>3, Honest
  <2>2. CASE UNCHANGED outcome
    BY <2>1, <2>2
  <2>3. CASE Unfinished /\ ~UNCHANGED outcome
    <3>1. outcome.status = NoRun /\ outcome'.status = "killed"
      BY <1>3, <2>3 DEF EndInv, PollInv
    <3>2. \A status, findings, flags : status # "completed" => CalledFor(status, findings, flags) = 1
      BY DEF CalledFor
    <3> QED BY <2>1, <3>1, <3>2 DEF NoRun
  <2> QED BY <2>2, <2>3
<1>4. Reported' => at'["cli"].code = CalledFor(outcome'.status, outcome'.findings, at'["cli"].flags)
  BY <1>1, <1>3
<1>5. ExitHonest'
  BY <1>4 DEF ExitHonest, Reported, CalledFor
<1> QED BY <1>2, <1>5

LEMMA PollStep ==
    ASSUME ShapeInv, EndInv, RowsInv, PollInv, ExitHonest, [Next]_vars
    PROVE  PollInv' /\ ExitHonest'
<1>0. "cli" \in Clients \ (Reproducers \cup Watchers \cup {"viewer"})
  BY DEF Clients, Reproducers, Watchers
<1>1. CASE SessionStep
  <2>1. rs'.status = rs.status
    BY <1>1, SessionLeaves DEF ShapeInv
  <2>2. UNCHANGED <<exec, outcome, at>>
    BY <1>1, SessionLeaves
  <2> QED BY <2>1, <2>2, CommandKept DEF Unfinished
<1>2. CASE RunStep
  <2>1. at' = at
    BY <1>2, RunLeaves
  <2>2. Unfinished' => Unfinished /\ rs'.status \in {rs.status, "killed"}
    <3>1. ASSUME NEW ok \in WriteOutcomes, Persist(ok) PROVE ~Unfinished'
      BY <3>1 DEF Persist, Unfinished, ShapeInv
    <3>2. CASE \A ok \in WriteOutcomes : ~Persist(ok)
      BY <1>2, <3>2 DEF RunStep, EndRun, Classify, Finalize, Capture, killRun, Evict, Unfinished,
                        ShapeInv, runVars
    <3> QED BY <3>1, <3>2
  <2>3. CASE Finalize
    <3>1. Unfinished /\ (rs.status = "killed" => outcome'.status = "killed")
      BY <2>3 DEF Finalize, FinalStatus, Unfinished
    <3> QED BY <2>1, <2>2, <3>1, CommandKept
  <2>4. CASE ~Finalize
    <3>1. UNCHANGED outcome
      BY <1>2, <2>4 DEF RunStep, EndRun, Classify, Capture, Persist, killRun, Evict, runVars
    <3> QED BY <2>1, <2>2, <3>1, CommandKept
  <2> QED BY <2>3, <2>4
<1>3. CASE EngineStep
  <2>1. UNCHANGED outcome /\ rs'.status = rs.status
    BY <1>3 DEF EngineStep, Stop, Drained, SaveToFile, Crash, Restart, ShapeInv, runVars
  <2>2. Unfinished' => Unfinished
    BY <1>3 DEF EngineStep, Stop, Drained, SaveToFile, Crash, Restart, ShapeInv, runVars, Unfinished
  <2>3. CASE Restart /\ at["cli"].pc \notin {"idle", "exited"}
    <3>1. at'["cli"] = Idle
      BY <1>0, <2>3 DEF Restart
    <3>2. ~Reported' /\ at'["cli"].pc # "poll"
      BY <3>1 DEF Reported, Idle
    <3> QED BY <3>2 DEF PollInv, ExitHonest, Reported
  <2>4. CASE ~(Restart /\ at["cli"].pc \notin {"idle", "exited"})
    <3>1. at'["cli"] = at["cli"]
      BY <1>0, <1>3, <2>4 DEF EngineStep, Stop, Drained, SaveToFile, Crash, Restart, clientVars
    <3> QED BY <2>1, <2>2, <3>1, CommandKept
  <2> QED BY <2>3, <2>4
<1>4. CASE ReproduceStep
  <2>1. rs'.status = rs.status
    BY <1>4, ReproduceLeaves DEF ShapeInv
  <2>2. UNCHANGED <<exec, outcome>> /\ at'["cli"] = at["cli"]
    BY <1>0, <1>4, ReproduceLeaves
  <2> QED BY <2>1, <2>2, CommandKept DEF Unfinished
<1>5. CASE ShareStep
  <2>1. UNCHANGED <<exec, rs, outcome>> /\ at'["cli"] = at["cli"]
    BY <1>0, <1>5, ShareLeaves
  <2> QED BY <2>1, CommandKept DEF Unfinished
<1>6. CASE WatchStep
  <2>1. UNCHANGED <<exec, rs, outcome>> /\ at'["cli"] = at["cli"]
    BY <1>0, <1>6, WatchLeaves
  <2> QED BY <2>1, CommandKept DEF Unfinished
<1>7. ASSUME NEW flags \in Flags, CLIStart(flags) PROVE PollInv' /\ ExitHonest'
  <2>1. DOMAIN at = Clients
    BY DEF ShapeInv
  <2>2. \/ FlagsAccepted(flags) /\ at'["cli"] = [pc |-> "poll", flags |-> flags]
        \/ at'["cli"] = [pc |-> "exited", code |-> 1, failed |-> TRUE]
    BY <1>0, <1>7, <2>1 DEF CLIStart
  <2>3. ~Reported'
    BY <2>2 DEF Reported
  <2>4. at'["cli"].pc = "poll" => at'["cli"].flags \in Flags /\ FlagsAccepted(at'["cli"].flags)
    BY <2>2
  <2>5. PollInv'
    BY <2>3, <2>4 DEF PollInv
  <2>6. ExitHonest'
    BY <2>3 DEF ExitHonest, Reported
  <2> QED BY <2>5, <2>6
<1>8. CASE driveRun
  <2> DEFINE flags == at["cli"].flags
             informed == cache.run \/ store.findings = outcome.findings
             r(code, failed) == [pc |-> "exited", code |-> code, failed |-> failed,
                                 flags |-> flags, informed |-> informed]
  <2>1. DOMAIN at = Clients
    BY DEF ShapeInv
  <2>2. flags \in Flags /\ FlagsAccepted(flags)
    BY <1>8 DEF driveRun, PollInv
  <2>3. UNCHANGED <<exec, rs, outcome, cache, store>>
    BY <1>8 DEF driveRun, runVars, engineVars
  <2>4. CASE at'["cli"] = r(1, TRUE)
    <3>1. ~Reported' /\ at'["cli"].pc # "poll"
      BY <2>4 DEF Reported
    <3> QED BY <3>1 DEF PollInv, ExitHonest, Reported
  <2>5. CASE /\ reportFor # <<>> /\ reportFor[1].run \in Terminal
             /\ at'["cli"] = r(ExitCode(reportFor[1].run, reportFor[1].findings, flags), FALSE)
    <3> DEFINE seen == reportFor[1]
    <3>1. ASSUME informed PROVE /\ seen.run = outcome.status \/ (Unfinished /\ seen.run = "killed")
                                /\ Unfinished => seen.run = "killed" /\ rs.status = "killed"
                                /\ Unfinished \/ seen.findings = outcome.findings
                                /\ IsFiniteSet(seen.findings)
      <4>1. CASE cache.run
        <5>1. seen = report /\ exec.pc # "gone"
          BY <4>1 DEF reportFor, EndInv
        <5>2. seen.run = rs.status /\ seen.findings = rs.findings
          BY <5>1 DEF report
        <5>3. Unfinished => rs.status = "killed"
          BY <2>5, <5>2 DEF EndInv, Terminal
        <5>4. ~Unfinished => rs.status = outcome.status /\ rs.findings = outcome.findings
          BY <5>1 DEF EndInv
        <5> HIDE DEF seen
        <5> QED BY <5>2, <5>3, <5>4 DEF EndInv
      <4>2. CASE ~cache.run
        <5>1. seen = store /\ store.run # NoRun
          BY <2>5, <4>2 DEF reportFor, reportFromStore
        <5>2. store.run = outcome.status /\ ~Unfinished
          BY <5>1 DEF RowsInv, EndedAs, EndInv
        <5> QED BY <3>1, <4>2, <5>1, <5>2 DEF EndInv
      <4> QED BY <4>1, <4>2
    <3>2. /\ at'["cli"].pc = "exited" /\ at'["cli"].failed = FALSE
          /\ at'["cli"].informed = informed /\ at'["cli"].flags = flags
          /\ at'["cli"].code = ExitCode(seen.run, seen.findings, flags)
      BY <2>5
    <3>3. Reported' => informed
      BY <3>2 DEF Reported
    <3>4. Reported' => at'["cli"].code = CalledFor(outcome.status, outcome.findings, flags)
      <4>1. Reported' => at'["cli"].code = CalledFor(seen.run, seen.findings, flags)
        BY <2>2, <2>5, <3>1, <3>2, <3>3, Ladder
      <4>2. \A status, findings : status # "completed" => CalledFor(status, findings, flags) = 1
        BY DEF CalledFor
      <4>3. Unfinished => outcome.status # "completed"
        BY DEF EndInv, NoRun
      <4> HIDE DEF seen
      <4> QED BY <3>1, <3>3, <4>1, <4>2, <4>3
    <3>5. PollInv'
      <4>1. Unfinished' <=> Unfinished
        BY <2>3 DEF Unfinished
      <4> QED BY <2>3, <3>1, <3>2, <3>3, <4>1 DEF PollInv
    <3>6. ExitHonest'
      BY <2>3, <3>2, <3>4 DEF ExitHonest, Reported, CalledFor
    <3> QED BY <3>5, <3>6
  <2> QED BY <1>0, <1>8, <2>1, <2>4, <2>5 DEF driveRun, Exit
<1>9. CASE Tick \/ UNCHANGED vars
  <2>1. UNCHANGED <<exec, rs, outcome, at>>
    BY <1>9, TickLeaves
  <2> QED BY <2>1, CommandKept DEF Unfinished
<1> QED BY <1>1, <1>2, <1>3, <1>4, <1>5, <1>6, <1>7, <1>8, <1>9, StepKinds DEF CommandStep

(***************************************************************************)
(* The verdicts of reproduce calls                                         *)
(***************************************************************************)
\* A step that leaves reproduce calls, the lock and the classes in the store alone,
\* and does not take the run back, keeps every verdict.
LEMMA VerdictsKept ==
    ASSUME VerdictInv, NoLostVerdict, annotateMu' = annotateMu, store'.class = store.class,
           \A c \in Reproducers : at'[c] = at[c],
           Unfinished' \/ Unpersisted' => Unfinished \/ Unpersisted
    PROVE  VerdictInv' /\ NoLostVerdict'
<1>1. \A c \in Reproducers : Saved(c)' <=> Saved(c)
  BY DEF Saved
<1>2. VerdictInv'
  BY <1>1 DEF VerdictInv
<1>3. NoLostVerdict'
  BY <1>1 DEF NoLostVerdict
<1> QED BY <1>2, <1>3

\* Nor does a client that neither held a verdict nor is about to.
LEMMA VerdictsKeptBy ==
    ASSUME VerdictInv, NoLostVerdict, annotateMu' = annotateMu, store'.class = store.class,
           exec' = exec,
           NEW c \in Reproducers,
           \A d \in Reproducers \ {c} : at'[d] = at[d],
           at[c].pc \notin {"answered", "save"}, ~Saved(c)', at'[c].pc # "save"
    PROVE  VerdictInv' /\ NoLostVerdict'
<1>1. ~Saved(c)
  BY DEF Saved
<1>2. \A d \in Reproducers : Saved(d)' <=> Saved(d)
  BY <1>1 DEF Saved
<1>3. VerdictInv'
  BY <1>1, <1>2 DEF VerdictInv, Unfinished, Unpersisted
<1>4. NoLostVerdict'
  BY <1>1, <1>2 DEF NoLostVerdict
<1> QED BY <1>3, <1>4

LEMMA VerdictStep ==
    ASSUME ShapeInv, EndInv, VerdictInv, NoLostVerdict, [Next]_vars
    PROVE  VerdictInv' /\ NoLostVerdict'
<1>0. Reproducers \subseteq Clients /\ \A c \in Reproducers : c \notin Watchers \cup {"cli", "viewer", Unlocked}
  BY DEF Clients, Reproducers, Watchers, Unlocked
<1>1. CASE SessionStep
  BY <1>1, SessionLeaves, VerdictsKept DEF Unfinished, Unpersisted
<1>2. CASE RunStep
  <2>1. at' = at /\ annotateMu' = annotateMu
    BY <1>2, RunLeaves
  <2>2. Unfinished' \/ Unpersisted' => Unfinished \/ Unpersisted
    <3>1. ASSUME NEW ok \in WriteOutcomes, Persist(ok) PROVE Unpersisted
      BY <3>1 DEF Persist, Unpersisted
    <3>2. CASE \A ok \in WriteOutcomes : ~Persist(ok)
      BY <1>2, <3>2 DEF RunStep, EndRun, Classify, Finalize, Capture, killRun, Evict, runVars,
                        Unfinished, Unpersisted
    <3> QED BY <3>1, <3>2
  <2>3. CASE store'.class = store.class
    BY <2>1, <2>2, <2>3, VerdictsKept
  <2>4. CASE store'.class # store.class
    <3>1. exec.pc = "findings row" /\ exec'.pc = "done"
      <4>1. ASSUME NEW ok \in WriteOutcomes, Persist(ok) PROVE <3>1
        BY <2>4, <4>1 DEF Persist, ShapeInv, Row
      <4>2. CASE \A ok \in WriteOutcomes : ~Persist(ok)
        BY <1>2, <2>4, <4>2 DEF RunStep, EndRun, Classify, Finalize, Capture, killRun, Evict,
                                engineVars
      <4> QED BY <4>1, <4>2
    <3>2. DOMAIN store.class = {}
      BY <3>1 DEF VerdictInv, Unpersisted
    <3>3. \A c \in Reproducers : ~Saved(c) /\ at[c].pc # "save"
      BY <3>2 DEF VerdictInv
    <3>4. ~(Unfinished' \/ Unpersisted')
      BY <3>1 DEF Unfinished, Unpersisted
    <3>5. \A c \in Reproducers : ~Saved(c)' /\ at'[c].pc # "save"
      BY <2>1, <3>3 DEF Saved
    <3> QED BY <3>4, <3>5 DEF VerdictInv, NoLostVerdict
  <2> QED BY <2>3, <2>4
<1>3. CASE EngineStep
  <2>1. CASE Restart
    <3>1. ~(Unfinished' \/ Unpersisted')
      BY <2>1 DEF Restart, Unfinished, Unpersisted, ShapeInv
    <3>2. \A c \in Reproducers : at'[c].pc \in {"idle", "exited"}
      BY <1>0, <2>1 DEF Restart, Idle
    <3>3. \A c \in Reproducers : ~Saved(c)' /\ at'[c].pc # "save"
      BY <3>2 DEF Saved
    <3> QED BY <3>1, <3>3 DEF VerdictInv, NoLostVerdict
  <2>2. CASE ~Restart
    <3>1. UNCHANGED <<store, annotateMu, at, exec>>
      BY <1>3, <2>2 DEF EngineStep, Stop, Drained, SaveToFile, Crash, runVars, clientVars
    <3> QED BY <3>1, VerdictsKept DEF Unfinished, Unpersisted
  <2> QED BY <2>1, <2>2
<1>4. CASE ReproduceStep
  <2>0. DOMAIN at = Clients /\ exec' = exec
    BY <1>4, ReproduceLeaves DEF ShapeInv
  <2>1. ASSUME NEW c \in Reproducers, NEW req \in Requests, Reproduce(c, req)
        PROVE  VerdictInv' /\ NoLostVerdict'
    <3>1. PICK code \in Refusal(req) :
            at' = [at EXCEPT ![c] =
                     IF code # 0 THEN [pc |-> "answered", code |-> code]
                     ELSE [pc |-> "replay", key |-> keyOf(req), left |-> Attempts(req),
                           of |-> Attempts(req), hits |-> 0,
                           f |-> CHOOSE g \in findingByKey(reportFor[1].findings, req) : TRUE]]
      BY <2>1 DEF Reproduce
    <3>2. code # 200
      BY DEF Refusal
    <3>3. ~Saved(c)' /\ at'[c].pc # "save"
      BY <1>0, <2>0, <3>1, <3>2 DEF Saved
    <3>4. (\A d \in Reproducers \ {c} : at'[d] = at[d]) /\ at[c].pc = "idle"
      BY <1>0, <2>0, <2>1, <3>1 DEF Reproduce
    <3>5. annotateMu' = annotateMu /\ store' = store
      BY <2>1 DEF Reproduce, engineVars
    <3> QED BY <2>0, <3>3, <3>4, <3>5, VerdictsKeptBy
  <2>2. ASSUME NEW c \in Reproducers, NEW results \in Replays, Replay(c, results)
        PROVE  VerdictInv' /\ NoLostVerdict'
    <3>1. ~Saved(c)' /\ at'[c].pc # "save"
      <4>1. "pc" \in DOMAIN at[c]
        BY <1>0 DEF ShapeInv
      <4>2. CASE at' = [at EXCEPT ![c] = [pc |-> "answered", code |-> 400]]
        BY <1>0, <2>0, <4>2 DEF Saved
      <4>3. CASE at' # [at EXCEPT ![c] = [pc |-> "answered", code |-> 400]]
        <5>1. at'[c].pc = "replay"
          BY <1>0, <2>0, <2>2, <4>1, <4>3 DEF Replay
        <5> QED BY <5>1 DEF Saved
      <4> QED BY <4>2, <4>3
    <3>2. (\A d \in Reproducers \ {c} : at'[d] = at[d]) /\ at[c].pc = "replay"
      BY <1>0, <2>0, <2>2 DEF Replay
    <3>3. annotateMu' = annotateMu /\ store' = store
      BY <2>2 DEF Replay, engineVars
    <3> QED BY <2>0, <3>1, <3>2, <3>3, VerdictsKeptBy
  <2>3. ASSUME NEW c \in Reproducers, AnnotateLive(c) PROVE VerdictInv' /\ NoLostVerdict'
    <3>1. ~Saved(c)' /\ at'[c].pc # "save"
      BY <1>0, <2>0, <2>3 DEF AnnotateLive, Saved
    <3>2. (\A d \in Reproducers \ {c} : at'[d] = at[d]) /\ at[c].pc = "replay"
      BY <1>0, <2>0, <2>3 DEF AnnotateLive
    <3>3. annotateMu' = annotateMu /\ store' = store
      BY <2>3 DEF AnnotateLive, engineVars
    <3> QED BY <2>0, <3>1, <3>2, <3>3, VerdictsKeptBy
  <2>4. ASSUME NEW c \in Reproducers, AnnotateRead(c) PROVE VerdictInv' /\ NoLostVerdict'
    <3>1. /\ at[c].pc = "annotate" /\ annotateMu = Unlocked
          /\ \A d \in Reproducers \ {c} : at'[d] = at[d]
          /\ store' = store
      BY <1>0, <2>0, <2>4 DEF AnnotateRead, Answered, engineVars
    <3>2. CASE at'[c] = [pc |-> "answered", code |-> 200, key |-> at[c].key,
                         verdict |-> at[c].verdict, saved |-> FALSE] /\ annotateMu' = annotateMu
      <4>1. ~Saved(c)' /\ at'[c].pc # "save"
        BY <3>2 DEF Saved
      <4> QED BY <2>0, <3>1, <3>2, <4>1, VerdictsKeptBy
    <3>3. CASE /\ at[c].key \in DOMAIN store.class /\ annotateMu' = c
               /\ at'[c] = [pc |-> "save", key |-> at[c].key, verdict |-> at[c].verdict,
                            rows |-> Stamp(store.class, at[c].key, at[c].verdict),
                            fs |-> store.findings]
      <4>1. \A d \in Reproducers : at[d].pc # "save"
        BY <1>0, <3>1 DEF VerdictInv
      <4>2. /\ at'[c].pc = "save" /\ at'[c].key = at[c].key /\ at'[c].verdict = at[c].verdict
            /\ at'[c].rows = Stamp(store.class, at[c].key, at[c].verdict)
        BY <3>3
      <4>3. \A d \in Reproducers : Saved(d)' <=> Saved(d)
        BY <3>1, <4>2 DEF Saved
      <4>4. ~Saved(c)
        BY <3>1 DEF Saved
      <4>5. VerdictInv'
        <5>1. Unfinished' \/ Unpersisted' => DOMAIN store'.class = {}
          BY <2>0, <3>1 DEF VerdictInv, Unfinished, Unpersisted
        <5>2. \A d \in Reproducers : Saved(d)' => at'[d].key \in DOMAIN store'.class
          BY <3>1, <4>3, <4>4 DEF VerdictInv
        <5>3. \A d \in Reproducers \ {c} : at'[d].pc # "save"
          BY <3>1, <4>1
        <5>4. /\ annotateMu' = c /\ at'[c].key \in DOMAIN store'.class
              /\ at'[c].rows = Stamp(store'.class, at'[c].key, at'[c].verdict)
          BY <3>1, <3>3, <4>2
        <5> QED BY <5>1, <5>2, <5>3, <5>4 DEF VerdictInv
      <4>6. NoLostVerdict'
        <5>1. \A d \in Reproducers : Saved(d)' => d # c /\ Saved(d) /\ at'[d] = at[d]
          BY <3>1, <4>3, <4>4
        <5>2. \A d \in Reproducers : Saved(d) => Saved(d)' /\ at'[d] = at[d]
          BY <3>1, <4>3, <4>4
        <5> QED BY <3>1, <5>1, <5>2 DEF NoLostVerdict
      <4> QED BY <4>5, <4>6
    <3> QED BY <1>0, <2>0, <2>4, <3>2, <3>3 DEF AnnotateRead, Answered
  <2>5. ASSUME NEW c \in Reproducers, NEW ok \in WriteOutcomes, AnnotateSave(c, ok)
        PROVE  VerdictInv' /\ NoLostVerdict'
    <3> DEFINE key == at[c].key
    <3>1. /\ at[c].pc = "save" /\ annotateMu' = Unlocked
          /\ \A d \in Reproducers \ {c} : at'[d] = at[d]
          /\ at'[c] = [pc |-> "answered", code |-> 200, key |-> key,
                       verdict |-> at[c].verdict, saved |-> ok]
      BY <1>0, <2>0, <2>5 DEF AnnotateSave, Answered
    <3>2. annotateMu = c /\ key \in DOMAIN store.class
          /\ at[c].rows = [store.class EXCEPT ![key] = at[c].verdict]
      BY <3>1 DEF VerdictInv, Stamp
    <3>3. \/ ok /\ store'.class = [store.class EXCEPT ![key] = at[c].verdict]
          \/ ~ok /\ store' = store
      BY <2>5, <3>2 DEF AnnotateSave, ShapeInv, Row
    <3>4. DOMAIN store'.class = DOMAIN store.class
      BY <3>3
    <3>5. /\ at'[c].pc = "answered" /\ at'[c].code = 200 /\ at'[c].key = key
          /\ at'[c].verdict = at[c].verdict /\ at'[c].saved = ok
      <4>1. ok \in BOOLEAN
        BY DEF WriteOutcomes
      <4> QED BY <3>1, <4>1
    <3>6. \A d \in Reproducers \ {c} : Saved(d)' <=> Saved(d)
      BY <3>1 DEF Saved
    <3>7. ~Saved(c) /\ (Saved(c)' <=> ok)
      BY <3>1, <3>5 DEF Saved
    <3>8. VerdictInv'
      <4>1. Unfinished' \/ Unpersisted' => DOMAIN store'.class = {}
        BY <2>0, <3>4 DEF VerdictInv, Unfinished, Unpersisted
      <4>2. \A d \in Reproducers : Saved(d)' => at'[d].key \in DOMAIN store'.class
        BY <3>1, <3>2, <3>4, <3>5, <3>6 DEF VerdictInv
      <4>3. \A d \in Reproducers : at'[d].pc # "save"
        <5>1. \A d \in Reproducers \ {c} : at[d].pc # "save"
          BY <3>2 DEF VerdictInv
        <5> QED BY <3>1, <3>5, <5>1
      <4> QED BY <4>1, <4>2, <4>3 DEF VerdictInv
    <3>9. NoLostVerdict'
      <4>1. SUFFICES ASSUME NEW d \in Reproducers, Saved(d)'
                     PROVE  \E e \in Reproducers : /\ Saved(e)' /\ at'[e].key = at'[d].key
                                                   /\ store'.class[at'[d].key] = at'[e].verdict
        BY DEF NoLostVerdict
      <4>2. CASE ok /\ at'[d].key = key
        BY <3>2, <3>3, <3>5, <3>7, <4>2
      <4>3. CASE ~(ok /\ at'[d].key = key)
        <5>1. d # c
          BY <3>5, <3>7, <4>1, <4>3
        <5>2. Saved(d) /\ at'[d].key = at[d].key /\ at[d].key \in DOMAIN store.class
          BY <3>1, <3>6, <4>1, <5>1 DEF VerdictInv
        <5>3. PICK e \in Reproducers : /\ Saved(e) /\ at[e].key = at[d].key
                                       /\ store.class[at[d].key] = at[e].verdict
          BY <5>2 DEF NoLostVerdict
        <5>4. e # c /\ Saved(e)' /\ at'[e] = at[e]
          BY <3>1, <3>6, <3>7, <5>3
        <5>5. store'.class[at[d].key] = store.class[at[d].key]
          BY <3>3, <4>3, <5>2
        <5> QED BY <5>2, <5>3, <5>4, <5>5
      <4> QED BY <4>2, <4>3
    <3> QED BY <3>8, <3>9
  <2> QED BY <1>4, <2>1, <2>2, <2>3, <2>4, <2>5 DEF ReproduceStep
<1>5. CASE ShareStep
  BY <1>0, <1>5, ShareLeaves, VerdictsKept DEF Unfinished, Unpersisted
<1>6. CASE WatchStep
  BY <1>0, <1>6, WatchLeaves, VerdictsKept DEF Unfinished, Unpersisted
<1>7. CASE CommandStep
  BY <1>0, <1>7, CommandLeaves, VerdictsKept DEF Unfinished, Unpersisted
<1>8. CASE Tick \/ UNCHANGED vars
  BY <1>8, TickLeaves, VerdictsKept DEF Unfinished, Unpersisted
<1> QED BY <1>1, <1>2, <1>3, <1>4, <1>5, <1>6, <1>7, <1>8, StepKinds

(***************************************************************************)
(* The share links                                                         *)
(***************************************************************************)
LEMMA Least ==
    ASSUME NEW T \in SUBSET Nat, T # {}
    PROVE  \E m \in T : \A k \in T : m <= k
<1> DEFINE R == {ss \in Nat \X Nat : ss[1] < ss[2]}
<1>1. IsWellFoundedOn(R, Nat)
  BY NatLessThanWellFounded, Zenon DEF OpToRel
<1> HIDE DEF R
<1>2. PICK m \in T : \A k \in T : ~(<<k, m>> \in R)
  BY <1>1, WFMin
<1>3. \A k \in T : ~(k < m)
  BY <1>2 DEF R
<1> QED BY <1>3

\* The oldest n are older than the others, and no fewer than n unless there are no more.
LEMMA OldestFirst ==
    ASSUME NEW k \in Nat, NEW S \in SUBSET (1 .. k), NEW n \in Int
    PROVE  LET gone == Oldest(S, n)
           IN /\ gone \subseteq S
              /\ \A t \in gone, u \in S \ gone : t < u
              /\ Cardinality(gone) < n => gone = S
<1> DEFINE Older(t) == {u \in S : u < t}
           gone == Oldest(S, n)
<1>1. IsFiniteSet(S) /\ S \subseteq Nat
  <2>1. IsFiniteSet(1 .. k)
    BY FS_Interval
  <2>2. IsFiniteSet(S)
    BY <2>1, FS_Subset
  <2>3. S \subseteq Nat
    OBVIOUS
  <2> QED BY <2>2, <2>3
<1>2. gone \subseteq S /\ IsFiniteSet(gone)
  BY <1>1, FS_Subset DEF Oldest
<1>3. \A t \in S : t \in gone <=> Cardinality(Older(t)) < n
  BY DEF Oldest
<1>4. \A t \in S : IsFiniteSet(Older(t)) /\ Cardinality(Older(t)) \in Nat
  <2>1. \A t \in S : Older(t) \subseteq S
    OBVIOUS
  <2> QED BY <1>1, <2>1, FS_Subset, FS_CardinalityType
<1>5. ASSUME NEW t \in gone, NEW u \in S \ gone PROVE t < u
  <2> HIDE DEF gone
  <2>0. t \in S /\ u \in S /\ t \in Nat /\ u \in Nat
    BY <1>1, <1>2
  <2>1. SUFFICES ASSUME u <= t PROVE FALSE
    BY <2>0
  <2>2. Older(u) \subseteq Older(t)
    <3>1. ASSUME NEW v \in S, v < u PROVE v < t
      <4>1. v \in Nat
        BY <1>1
      <4> QED BY <2>0, <2>1, <3>1, <4>1
    <3> QED BY <3>1
  <2>3. Cardinality(Older(u)) <= Cardinality(Older(t))
    BY <1>2, <1>4, <2>2, FS_Subset
  <2> HIDE DEF Older
  <2>4. Cardinality(Older(t)) < n /\ ~(Cardinality(Older(u)) < n)
    BY <1>2, <1>3
  <2>5. Cardinality(Older(u)) \in Nat /\ Cardinality(Older(t)) \in Nat
    BY <1>2, <1>4
  <2> QED BY <2>3, <2>4, <2>5
<1>6. ASSUME Cardinality(gone) < n PROVE gone = S
  <2>1. SUFFICES ASSUME S \ gone # {} PROVE FALSE
    BY <1>2
  <2> HIDE DEF gone
  <2>2. PICK u \in S \ gone : \A v \in S \ gone : u <= v
    BY <1>1, <2>1, Least
  <2>3. Older(u) \subseteq gone
    <3>1. ASSUME NEW v \in S, v < u PROVE v \in gone
      BY <1>1, <2>2, <3>1
    <3> QED BY <3>1
  <2>4. Cardinality(Older(u)) <= Cardinality(gone)
    BY <1>2, <2>3, FS_Subset
  <2> HIDE DEF Older
  <2>5. Cardinality(Older(u)) \in Nat /\ Cardinality(gone) \in Nat
    BY <1>2, <1>4, <2>2, FS_CardinalityType
  <2>6. Cardinality(Older(u)) < n
    BY <1>6, <2>4, <2>5
  <2> QED BY <1>3, <2>2, <2>6
<1> QED BY <1>2, <1>5, <1>6

\* A registry whose map and slice agree.
Agrees(reg, k) == /\ reg = [m |-> reg.m, order |-> reg.order, issued |-> reg.issued]
                  /\ reg.order \subseteq 1 .. k /\ DOMAIN reg.m = reg.order

LEMMA WithoutAgrees ==
    ASSUME NEW k, NEW reg, Agrees(reg, k), NEW gone
    PROVE  LET kept == Without(reg, gone)
           IN /\ Agrees(kept, k) /\ kept.order = reg.order \ gone
              /\ kept.issued = reg.issued /\ \A t \in kept.order : kept.m[t] = reg.m[t]
<1> DEFINE kept == Without(reg, gone)
           m == [t \in DOMAIN reg.m \ gone |-> reg.m[t]]
<1>1. kept = [m |-> m, order |-> reg.order \ gone, issued |-> reg.issued]
  <2>1. reg = [m |-> reg.m, order |-> reg.order, issued |-> reg.issued]
    BY DEF Agrees
  <2>2. kept = [reg EXCEPT !.m = m, !.order = reg.order \ gone]
    BY <2>1 DEF Without
  <2> HIDE DEF m, kept
  <2> QED BY <2>1, <2>2
<1>2. DOMAIN m = reg.order \ gone /\ \A t \in reg.order \ gone : m[t] = reg.m[t]
  BY DEF Agrees
<1>3. reg.order \subseteq 1 .. k
  BY DEF Agrees
<1> HIDE DEF m
<1>4. kept.m = m /\ kept.order = reg.order \ gone /\ kept.issued = reg.issued
  BY <1>1
<1> QED BY <1>1, <1>2, <1>3, <1>4 DEF Agrees

LEMMA CapExact ==
    ASSUME NEW k \in Nat, NEW reg, Agrees(reg, k), maxRetainedShares \in Nat
    PROVE  LET kept == enforceCapLocked(reg)
           IN /\ Agrees(kept, k) /\ kept.order \subseteq reg.order
              /\ kept.issued = reg.issued /\ \A t \in kept.order : kept.m[t] = reg.m[t]
              /\ \A t \in reg.order \ kept.order :
                    \/ Expired(reg.m[t])
                    \/ \A u \in kept.order : ~Expired(reg.m[u]) /\ t < u
<1> DEFINE stale == {t \in reg.order : Expired(reg.m[t])}
           out1 == Oldest(stale, Excess(reg))
           pass1 == Without(reg, out1)
           out2 == Oldest(pass1.order, Excess(pass1))
           pass2 == Without(pass1, out2)
<1>1. IsFiniteSet(reg.order) /\ Cardinality(reg.order) \in Nat
  <2>1. reg.order \subseteq 1 .. k
    BY DEF Agrees
  <2>2. IsFiniteSet(1 .. k)
    BY FS_Interval
  <2> QED BY <2>1, <2>2, FS_Subset, FS_CardinalityType
<1>2. Excess(reg) = Cardinality(reg.order) - maxRetainedShares /\ Excess(reg) \in Int
  BY <1>1 DEF Excess, Agrees
<1>3. /\ out1 \subseteq stale
      /\ Cardinality(out1) < Excess(reg) => out1 = stale
  <2>1. stale \in SUBSET (1 .. k)
    BY DEF Agrees
  <2> HIDE DEF stale
  <2> QED BY <1>2, <2>1, OldestFirst
<1>4. /\ Agrees(pass1, k) /\ pass1.order = reg.order \ out1 /\ pass1.issued = reg.issued
      /\ \A t \in pass1.order : pass1.m[t] = reg.m[t]
  <2> HIDE DEF out1
  <2> QED BY WithoutAgrees
<1>5. IsFiniteSet(out1) /\ Cardinality(out1) \in Nat
      /\ Cardinality(pass1.order) = Cardinality(reg.order) - Cardinality(out1)
  <2>1. out1 \subseteq reg.order
    BY <1>3
  <2> HIDE DEF out1, pass1
  <2>2. IsFiniteSet(out1) /\ Cardinality(out1) \in Nat
    BY <1>1, <2>1, FS_Subset, FS_CardinalityType
  <2>3. reg.order \cap out1 = out1
    BY <2>1
  <2> QED BY <1>1, <1>4, <2>2, <2>3, FS_Difference
<1>6. Excess(pass1) = Excess(reg) - Cardinality(out1) /\ Excess(pass1) \in Int
  <2>1. Excess(pass1) = Cardinality(pass1.order) - maxRetainedShares
    <3> HIDE DEF pass1
    <3> QED BY <1>4 DEF Excess, Agrees
  <2> HIDE DEF pass1, out1
  <2> QED BY <1>1, <1>2, <1>5, <2>1
<1>7. CASE Excess(reg) <= 0
  <2>1. enforceCapLocked(reg) = reg
    BY <1>7 DEF enforceCapLocked
  <2> QED BY <2>1
<1>8. CASE ~(Excess(reg) <= 0) /\ Excess(pass1) <= 0
  <2>1. enforceCapLocked(reg) = pass1
    BY <1>8 DEF enforceCapLocked
  <2>2. \A t \in reg.order \ pass1.order : Expired(reg.m[t])
    <3>1. \A t \in reg.order \ pass1.order : t \in out1
      BY <1>4
    <3> QED BY <1>3, <3>1
  <2> HIDE DEF pass1, out1, stale
  <2> QED BY <1>4, <2>1, <2>2
<1>9. CASE ~(Excess(reg) <= 0) /\ ~(Excess(pass1) <= 0)
  <2>1. enforceCapLocked(reg) = pass2
    BY <1>9 DEF enforceCapLocked
  <2>2. out1 = stale
    <3> HIDE DEF out1, pass1, stale
    <3> QED BY <1>2, <1>3, <1>5, <1>6, <1>9
  <2>3. /\ out2 \subseteq pass1.order
        /\ \A t \in out2, u \in pass1.order \ out2 : t < u
    <3>1. pass1.order \in SUBSET (1 .. k)
      BY <1>4 DEF Agrees
    <3> HIDE DEF pass1
    <3> QED BY <1>6, <3>1, OldestFirst
  <2>4. /\ Agrees(pass2, k) /\ pass2.order = pass1.order \ out2 /\ pass2.issued = pass1.issued
        /\ \A t \in pass2.order : pass2.m[t] = pass1.m[t]
    <3> HIDE DEF pass1, out2
    <3>1. Agrees(pass1, k)
      BY <1>4
    <3> QED BY <3>1, WithoutAgrees
  <2>5. \A u \in pass1.order : ~Expired(reg.m[u])
    BY <1>4, <2>2
  <2>6. \A t \in reg.order \ pass2.order : t \in out1 \/ t \in out2
    BY <1>4, <2>4
  <2>7. \A t \in out1 : Expired(reg.m[t])
    BY <1>3
  <2>8. \A t \in reg.order \ pass2.order :
           \/ Expired(reg.m[t])
           \/ \A u \in pass2.order : ~Expired(reg.m[u]) /\ t < u
    <3> HIDE DEF pass1, pass2, out1, out2, stale
    <3> QED BY <2>3, <2>4, <2>5, <2>6, <2>7
  <2>9. pass2.order \subseteq reg.order /\ pass2.issued = reg.issued
        /\ \A t \in pass2.order : pass2.m[t] = reg.m[t]
    <3> HIDE DEF pass1, pass2, out1, out2, stale
    <3> QED BY <1>4, <2>4
  <2> HIDE DEF pass1, pass2, out1, out2, stale
  <2> QED BY <2>1, <2>4, <2>8, <2>9
<1> QED BY <1>7, <1>8, <1>9

GivenUpRightly ==
    \A t \in DOMAIN shares.m \ DOMAIN shares'.m :
        \/ Expired(shares.m[t])
        \/ \A u \in DOMAIN shares'.m : ~Expired(shares'.m[u]) /\ t < u

LEMMA ShareStepExact ==
    ASSUME ShareInv, [Next]_vars
    PROVE  ShareInv' /\ (engine = engine' => GivenUpRightly)
<1>1. /\ Agrees(shares, shares.issued) /\ shares.issued \in Nat
  BY DEF ShareInv, Agrees
<1>2. ASSUME Agrees(shares', shares'.issued), shares'.issued \in Nat PROVE ShareInv'
  BY <1>2 DEF ShareInv, Agrees
<1>3. CASE shares' = shares
  BY <1>3 DEF ShareInv, GivenUpRightly
<1>4. ASSUME NEW ttl \in TTLs, createShare(ttl) PROVE ShareInv' /\ GivenUpRightly
  <2> DEFINE token == shares.issued + 1
             expiry == IF ttl = <<>> THEN <<>> ELSE <<now + ttl[1]>>
             reg == Register(shares, token, expiry)
             m == [t \in DOMAIN shares.m \cup {token} |-> IF t = token THEN expiry ELSE shares.m[t]]
  <2>1. shares' = enforceCapLocked(reg)
    BY <1>4 DEF createShare
  <2>2. token \in Nat /\ token \notin shares.order /\ 1 .. shares.issued \subseteq 1 .. token
        /\ token \in 1 .. token
    BY <1>1 DEF Agrees
  <2> HIDE DEF token, expiry
  <2>3. DOMAIN m = shares.order \cup {token} /\ \A t \in shares.order : m[t] = shares.m[t]
    BY <1>1, <2>2 DEF Agrees
  <2>4. reg = [m |-> m, order |-> shares.order \cup {token}, issued |-> token]
    BY DEF Register
  <2> HIDE DEF m, reg
  <2>5. /\ Agrees(reg, token) /\ reg.issued = token /\ reg.order = shares.order \cup {token}
        /\ \A t \in shares.order : reg.m[t] = shares.m[t]
    BY <1>1, <2>2, <2>3, <2>4 DEF Agrees
  <2>6. maxRetainedShares \in Nat
    BY ConsoleAssumption, Zenon
  <2>7. /\ Agrees(shares', token) /\ shares'.issued = token
        /\ \A t \in shares'.order : shares'.m[t] = reg.m[t]
        /\ \A t \in reg.order \ shares'.order :
              \/ Expired(reg.m[t])
              \/ \A u \in shares'.order : ~Expired(reg.m[u]) /\ t < u
    BY <2>1, <2>2, <2>5, <2>6, CapExact
  <2>8. ShareInv'
    BY <1>2, <2>2, <2>7
  <2>9. DOMAIN shares.m = shares.order /\ DOMAIN shares'.m = shares'.order
    BY <1>1, <2>7 DEF Agrees
  <2>10. GivenUpRightly
    <3>1. ASSUME NEW t \in shares.order \ shares'.order
          PROVE  \/ Expired(shares.m[t])
                 \/ \A u \in shares'.order : ~Expired(shares'.m[u]) /\ t < u
      <4>1. t \in reg.order \ shares'.order /\ reg.m[t] = shares.m[t]
        BY <2>5
      <4> QED BY <2>7, <4>1
    <3> QED BY <2>9, <3>1 DEF GivenUpRightly
  <2> QED BY <2>8, <2>10
<1>5. ASSUME NEW t \in 1 .. shares.issued, getSharedReport(t) PROVE ShareInv' /\ GivenUpRightly
  <2>1. CASE shares' = shares
    BY <1>3, <2>1 DEF ShareInv, GivenUpRightly
  <2>2. CASE shares' # shares
    <3>1. shares' = Without(shares, {t}) /\ Expired(shares.m[t])
      BY <1>5, <2>2 DEF getSharedReport
    <3>2. /\ Agrees(shares', shares.issued) /\ shares'.order = shares.order \ {t}
          /\ shares'.issued = shares.issued
      BY <1>1, <3>1, WithoutAgrees
    <3>3. ShareInv'
      BY <1>1, <1>2, <3>2
    <3>4. GivenUpRightly
      <4>1. DOMAIN shares.m = shares.order /\ DOMAIN shares'.m = shares'.order
        BY <1>1, <3>2 DEF Agrees
      <4> QED BY <3>1, <3>2, <4>1 DEF GivenUpRightly
    <3> QED BY <3>3, <3>4
  <2> QED BY <2>1, <2>2
<1>6. CASE Restart
  <2>1. shares' = [m |-> <<>>, order |-> {}, issued |-> shares.issued]
    BY <1>6 DEF Restart, NoShares
  <2>2. Agrees(shares', shares'.issued) /\ shares'.issued \in Nat
    BY <1>1, <2>1 DEF Agrees
  <2>3. engine' # engine
    BY <1>6 DEF Restart
  <2> QED BY <1>2, <2>2, <2>3
<1>7. CASE EngineStep /\ ~Restart
  <2>1. shares' = shares
    BY <1>7 DEF EngineStep, Stop, Drained, SaveToFile, Crash, clientVars
  <2> QED BY <1>3, <2>1
<1>8. CASE SessionStep \/ RunStep \/ Tick \/ UNCHANGED vars
  BY <1>3, <1>8, SessionLeaves, RunLeaves, TickLeaves
<1>9. CASE ReproduceStep \/ WatchStep \/ CommandStep
  <2>1. shares' = shares
    BY <1>9 DEF ReproduceStep, Reproduce, Replay, AnnotateLive, AnnotateRead, AnnotateSave,
                WatchStep, Open, Hangup, HeatStatus, LastStats, TraceSince, TraceStatus,
                HeatSnapshot, LatencySnapshot, CommandStep, CLIStart, driveRun
  <2> QED BY <1>3, <2>1
<1> QED BY <1>4, <1>5, <1>6, <1>7, <1>8, <1>9, StepKinds DEF ShareStep

(***************************************************************************)
(* Sums                                                                    *)
(***************************************************************************)
\* The units that Total counts.
Units(f, S) == UNION {{x} \X (1 .. f[x]) : x \in S}

LEMMA UnitsAre ==
    ASSUME NEW f, NEW S
    PROVE  \A u : u \in Units(f, S) <=> \E x \in S : \E k \in 1 .. f[x] : u = <<x, k>>
BY DEF Units

LEMMA TotalType ==
    ASSUME NEW f, NEW S, IsFiniteSet(S), \A x \in S : f[x] \in Nat
    PROVE  /\ IsFiniteSet(Units(f, S))
           /\ Total(f, S) = Cardinality(Units(f, S)) /\ Total(f, S) \in Nat
<1> DEFINE column(x) == {x} \X (1 .. f[x])
           columns == {column(x) : x \in S}
<1>1. \A x \in S : IsFiniteSet(column(x))
  <2> SUFFICES ASSUME NEW x \in S PROVE IsFiniteSet(column(x))
    OBVIOUS
  <2>1. IsFiniteSet({x})
    BY FS_Singleton
  <2>2. IsFiniteSet(1 .. f[x])
    BY FS_Interval
  <2> QED BY <2>1, <2>2, FS_Product
<1>2. IsFiniteSet(columns)
  <2> DEFINE g == [x \in S |-> column(x)]
  <2>1. columns = {g[x] : x \in S}
    BY Zenon
  <2>2. g \in Surjection(S, columns)
    BY Zenon, <2>1 DEF Surjection
  <2> HIDE DEF columns, g
  <2> QED BY <2>2, FS_Surjection DEF ExistsSurjection
<1>3. IsFiniteSet(UNION columns)
  <2> HIDE DEF column
  <2> QED BY <1>1, <1>2, FS_UNION
<1> QED BY <1>3, FS_CardinalityType DEF Units, Total

LEMMA TotalSame ==
    ASSUME NEW f, NEW g, NEW S, \A x \in S : f[x] = g[x]
    PROVE  Total(f, S) = Total(g, S)
<1>1. {{x} \X (1 .. f[x]) : x \in S} = {{x} \X (1 .. g[x]) : x \in S}
  OBVIOUS
<1> QED BY <1>1 DEF Total

LEMMA TotalEmpty ==
    ASSUME NEW f
    PROVE  Total(f, {}) = 0
<1>1. UNION {{x} \X (1 .. f[x]) : x \in {}} = {}
  OBVIOUS
<1> QED BY <1>1, FS_EmptySet DEF Total

LEMMA TotalOne ==
    ASSUME NEW f, NEW x, f[x] \in Nat
    PROVE  Total(f, {x}) = f[x]
<1>1. UNION {{y} \X (1 .. f[y]) : y \in {x}} = {x} \X (1 .. f[x])
  OBVIOUS
<1>2. Cardinality({x}) = 1 /\ IsFiniteSet({x})
  BY FS_Singleton
<1>3. Cardinality(1 .. f[x]) = f[x] /\ IsFiniteSet(1 .. f[x])
  BY FS_Interval
<1>4. Cardinality({x} \X (1 .. f[x])) = Cardinality({x}) * Cardinality(1 .. f[x])
  BY <1>2, <1>3, FS_Product
<1>5. Cardinality({x} \X (1 .. f[x])) = f[x]
  BY <1>2, <1>3, <1>4
<1> QED BY <1>1, <1>5 DEF Total

\* The total of two sets apart is the sum of theirs.
LEMMA TotalUnion ==
    ASSUME NEW f, NEW S, NEW T, IsFiniteSet(S), IsFiniteSet(T), S \cap T = {},
           \A x \in S \cup T : f[x] \in Nat
    PROVE  Total(f, S \cup T) = Total(f, S) + Total(f, T)
<1>1. Units(f, S \cup T) = Units(f, S) \cup Units(f, T)
  BY Zenon DEF Units
<1>2. Units(f, S) \cap Units(f, T) = {}
  <2> SUFFICES ASSUME NEW u, u \in Units(f, S), u \in Units(f, T) PROVE FALSE
    BY Zenon
  <2>1. \E x \in S : \E k \in 1 .. f[x] : u = <<x, k>>
    BY UnitsAre
  <2>2. \E x \in T : \E k \in 1 .. f[x] : u = <<x, k>>
    BY UnitsAre
  <2> QED BY <2>1, <2>2
<1>3. IsFiniteSet(S \cup T)
  BY FS_Union
<1>4. /\ IsFiniteSet(Units(f, S)) /\ Total(f, S) = Cardinality(Units(f, S))
      /\ IsFiniteSet(Units(f, T)) /\ Total(f, T) = Cardinality(Units(f, T))
      /\ Total(f, S \cup T) = Cardinality(Units(f, S \cup T))
      /\ Total(f, S) \in Nat /\ Total(f, T) \in Nat
  BY <1>3, TotalType
<1>5. Cardinality(Units(f, S) \cap Units(f, T)) = 0
  BY <1>2, FS_EmptySet
<1>6. Cardinality(Units(f, S) \cup Units(f, T))
        = Cardinality(Units(f, S)) + Cardinality(Units(f, T)) - Cardinality(Units(f, S) \cap Units(f, T))
  BY <1>4, FS_Union
<1>7. Total(f, S \cup T) = Cardinality(Units(f, S) \cup Units(f, T))
  BY <1>1, <1>4, Zenon
<1> QED BY <1>4, <1>5, <1>6, <1>7

\* One more of one element of S.
LEMMA TotalBump ==
    ASSUME NEW f, NEW g, NEW S, IsFiniteSet(S), NEW e \in S, \A x \in S : f[x] \in Nat,
           g[e] = f[e] + 1, \A x \in S : x # e => g[x] = f[x]
    PROVE  Total(g, S) = Total(f, S) + 1
<1>1. Units(g, S) = Units(f, S) \cup {<<e, f[e] + 1>>}
  <2> SUFFICES ASSUME NEW u
               PROVE  u \in Units(g, S) <=> u \in Units(f, S) \/ u = <<e, f[e] + 1>>
    OBVIOUS
  <2>1. u \in Units(g, S) <=> \E x \in S : \E k \in 1 .. g[x] : u = <<x, k>>
    BY UnitsAre
  <2>2. u \in Units(f, S) <=> \E x \in S : \E k \in 1 .. f[x] : u = <<x, k>>
    BY UnitsAre
  <2>3. \A x \in S : x # e => 1 .. g[x] = 1 .. f[x]
    OBVIOUS
  <2>4. \A k : k \in 1 .. g[e] <=> k \in 1 .. f[e] \/ k = f[e] + 1
    OBVIOUS
  <2> DEFINE m == f[e] + 1
             F(x) == 1 .. f[x]
             G(x) == 1 .. g[x]
  <2>5. \A x \in S : x # e => F(x) = G(x)
    BY <2>3
  <2>6. \A k : k \in G(e) <=> k \in F(e) \/ k = m
    BY <2>4
  <2>7. /\ u \in Units(g, S) <=> \E x \in S : \E k \in G(x) : u = <<x, k>>
        /\ u \in Units(f, S) <=> \E x \in S : \E k \in F(x) : u = <<x, k>>
    BY <2>1, <2>2
  <2>8. u \in Units(g, S) <=> u \in Units(f, S) \/ u = <<e, m>>
    <3> HIDE DEF m, F, G
    <3> QED BY <2>5, <2>6, <2>7, Zenon
  <2> QED BY <2>8
<1>2. <<e, f[e] + 1>> \notin Units(f, S)
  <2> SUFFICES ASSUME <<e, f[e] + 1>> \in Units(f, S) PROVE FALSE
    OBVIOUS
  <2>1. \E x \in S : \E k \in 1 .. f[x] : <<e, f[e] + 1>> = <<x, k>>
    BY UnitsAre
  <2> QED BY <2>1
<1>3. IsFiniteSet(Units(f, S)) /\ Total(f, S) = Cardinality(Units(f, S))
  BY TotalType
<1>4. Total(g, S) = Cardinality(Units(g, S))
  BY DEF Total, Units
<1>5. Units(g, S) = Units(f, S) \cup {<<e, f[e] + 1>>}
  BY <1>1, Zenon
<1> HIDE DEF Units
<1>6. Cardinality(Units(f, S) \cup {<<e, f[e] + 1>>}) = Cardinality(Units(f, S)) + 1
  BY <1>2, <1>3, FS_AddElement
<1> QED BY <1>3, <1>4, <1>5, <1>6

LEMMA TotalSubset ==
    ASSUME NEW f, NEW T, IsFiniteSet(T), NEW S \in SUBSET T, \A x \in T : f[x] \in Nat
    PROVE  Total(f, S) <= Total(f, T)
<1>1. IsFiniteSet(S) /\ IsFiniteSet(T \ S)
  BY FS_Subset, FS_Difference
<1>2. Total(f, S \cup (T \ S)) = Total(f, S) + Total(f, T \ S)
  BY <1>1, TotalUnion
<1>3. Total(f, S \cup (T \ S)) = Total(f, T)
  <2>1. S \cup (T \ S) = T
    OBVIOUS
  <2> QED BY <2>1, Zenon
<1>4. Total(f, S) \in Nat /\ Total(f, T \ S) \in Nat
  BY <1>1, TotalType
<1> QED BY <1>2, <1>3, <1>4

LEMMA TotalZero ==
    ASSUME NEW f, NEW S, \A x \in S : f[x] = 0
    PROVE  Total(f, S) = 0
<1>1. \A u : u \notin Units(f, S)
  BY UnitsAre
<1>2. Units(f, S) = {}
  BY <1>1
<1> QED BY <1>2, FS_EmptySet DEF Total, Units

Group(D, h, c) == {x \in D : h[x] = c}

\* g sums f over D by group: h names the group of each element of D, from 1 to n.
SumsUp(g, n, f, D, h) ==
    /\ \A x \in D : f[x] \in Nat /\ h[x] \in 1 .. n
    /\ \A c \in 1 .. n : g[c] = Total(f, Group(D, h, c))

\* Summed group by group it is the same.
LEMMA Regroup ==
    ASSUME NEW D, IsFiniteSet(D), NEW n \in Nat, NEW f, NEW g, NEW h, SumsUp(g, n, f, D, h)
    PROVE  Total(g, 1 .. n) = Total(f, D)
<1>0. /\ \A x \in D : f[x] \in Nat /\ h[x] \in 1 .. n
      /\ \A c \in 1 .. n : g[c] = Total(f, Group(D, h, c))
  BY DEF SumsUp
<1> DEFINE upto(c) == {x \in D : h[x] \in 1 .. c}
           group(c) == {x \in D : h[x] = c}
           wrong == {c \in 0 .. n : Total(g, 1 .. c) # Total(f, upto(c))}
<1>1. \A c : IsFiniteSet(upto(c)) /\ IsFiniteSet(group(c))
  BY FS_Subset
<1>2. \A c \in 1 .. n : g[c] \in Nat
  <2> SUFFICES ASSUME NEW c \in 1 .. n PROVE g[c] \in Nat
    OBVIOUS
  <2>1. \A x \in group(c) : f[x] \in Nat
    BY <1>0
  <2>2. g[c] = Total(f, group(c))
    BY <1>0 DEF Group
  <2>3. IsFiniteSet(group(c))
    BY <1>1
  <2> HIDE DEF group, upto, wrong
  <2> QED BY <2>1, <2>2, <2>3, TotalType
<1>3. wrong = {}
  <2> SUFFICES ASSUME wrong # {} PROVE FALSE
    OBVIOUS
  <2>1. wrong \in SUBSET Nat
    OBVIOUS
  <2>2. PICK c \in wrong : \A d \in wrong : c <= d
    <3> HIDE DEF wrong
    <3> QED BY <2>1, Least
  <2>3. c # 0
    <3>1. 1 .. 0 = {} /\ upto(0) = {}
      OBVIOUS
    <3>2. Total(g, 1 .. 0) = Total(f, upto(0))
      <4> HIDE DEF upto
      <4> QED BY <3>1, TotalEmpty
    <3> QED BY <3>2
  <2>4. c \in 1 .. n /\ c - 1 \in 0 .. n /\ c - 1 \notin wrong
    BY <2>2, <2>3
  <2>5. Total(g, 1 .. c - 1) = Total(f, upto(c - 1))
    BY <2>4
  <2>6. Total(g, 1 .. c) = Total(g, 1 .. c - 1) + g[c]
    <3>1. 1 .. c = (1 .. c - 1) \cup {c} /\ (1 .. c - 1) \cap {c} = {}
      BY <2>4
    <3>2. IsFiniteSet(1 .. c - 1) /\ IsFiniteSet({c})
      <4>1. c - 1 \in Int
        BY <2>4
      <4> HIDE DEF upto, group, wrong
      <4>2. IsFiniteSet(1 .. c - 1)
        BY <4>1, FS_Interval
      <4> QED BY <4>2, FS_Singleton
    <3>3. \A x \in (1 .. c - 1) \cup {c} : g[x] \in Nat
      BY <1>2, <2>4
    <3>4. Total(g, {c}) = g[c]
      BY <1>2, <2>4, TotalOne
    <3> HIDE DEF upto, group, wrong
    <3> QED BY <3>1, <3>2, <3>3, <3>4, TotalUnion
  <2>7. Total(f, upto(c)) = Total(f, upto(c - 1)) + g[c]
    <3>1. upto(c) = upto(c - 1) \cup group(c) /\ upto(c - 1) \cap group(c) = {}
      BY <2>4
    <3>2. \A x \in upto(c - 1) \cup group(c) : f[x] \in Nat
      BY <1>0
    <3>3. g[c] = Total(f, group(c))
      BY <1>0, <2>4 DEF Group
    <3> HIDE DEF upto, group, wrong
    <3> QED BY <1>1, <3>1, <3>2, <3>3, TotalUnion
  <2>8. Total(g, 1 .. c) = Total(f, upto(c))
    <3> HIDE DEF upto, group, wrong
    <3> QED BY <2>5, <2>6, <2>7
  <2> QED BY <2>2, <2>8
<1>4. upto(n) = D
  BY <1>0
<1>5. Total(g, 1 .. n) = Total(f, upto(n))
  <2>1. n \in 0 .. n
    OBVIOUS
  <2>2. n \notin wrong
    <3> HIDE DEF wrong
    <3> QED BY <1>3
  <2> HIDE DEF upto, group
  <2> QED BY <2>1, <2>2
<1> HIDE DEF upto, group, wrong
<1> QED BY <1>4, <1>5
LEMMA Quotient ==
    ASSUME NEW x \in Nat, NEW f \in Nat \ {0}
    PROVE  x \div f \in Nat /\ f * (x \div f) <= x /\ x < f * (x \div f) + f
OBVIOUS

LEMMA AtMostQuotient ==
    ASSUME NEW x \in Nat, NEW f \in Nat \ {0}, NEW y \in Nat
    PROVE  f * y <= x <=> y <= x \div f
<1>1. x \div f \in Nat /\ f * (x \div f) <= x /\ x < f * (x \div f) + f
  BY Quotient
<1> DEFINE q == x \div f
<1>2. q \in Nat /\ f * q <= x /\ x < f * q + f
  BY <1>1
<1> HIDE DEF q
<1>3. ASSUME y <= q PROVE f * y <= x
  <2>1. PICK d \in Nat : q = y + d
    <3>1. q - y \in Nat /\ q = y + (q - y)
      BY <1>2, <1>3
    <3> QED BY <3>1
  <2>2. f * q = f * y + f * d /\ f * d \in Nat /\ f * y \in Nat
    BY <2>1
  <2> QED BY <1>2, <2>2
<1>4. ASSUME ~(y <= q) PROVE ~(f * y <= x)
  <2>1. PICK d \in Nat : y = q + 1 + d
    <3>1. y - q - 1 \in Nat /\ y = q + 1 + (y - q - 1)
      BY <1>2, <1>4
    <3> QED BY <3>1
  <2>2. f * y = f * q + f + f * d /\ f * d \in Nat /\ f * y \in Nat
    BY <1>2, <2>1
  <2> QED BY <1>2, <2>2
<1> QED BY <1>3, <1>4 DEF q

LEMMA GreatestSeen ==
    ASSUME NEW b \in Nat, NEW T \in SUBSET (0 .. b), T # {}
    PROVE  Max(T) \in T /\ \A k \in T : k <= Max(T)
<1> DEFINE U == {b - k : k \in T}
<1>1. U \in SUBSET Nat /\ U # {}
  <2>1. \A k \in T : b - k \in Nat
    OBVIOUS
  <2> QED BY <2>1
<1>2. PICK u \in U : \A v \in U : u <= v
  BY <1>1, Least
<1>3. PICK m \in T : u = b - m
  OBVIOUS
<1>4. \A k \in T : b - m <= b - k
  BY <1>2, <1>3
<1>5. \A k \in T : m >= k
  BY <1>4
<1>6. Max(T) \in T /\ \A k \in T : Max(T) >= k
  BY <1>5 DEF Max
<1> QED BY <1>6

Zero == [r \in {0, 1} |-> 0]

\* The first L columns hold everything the grid holds.
LEMMA ColumnsSeen ==
    ASSUME NEW grid \in [Columns -> [{0, 1} -> Nat]], NEW r \in {0, 1},
           MaxNow \in Nat, NEW L \in 0 .. MaxNow + 1,
           \A c \in Columns : c >= L => grid[c] = Zero,
           NEW cells, DOMAIN cells = 1 .. L, \A k \in 1 .. L : cells[k] = grid[k - 1]
    PROVE  Total(rowOf(cells, r), 1 .. L) = Total(rowOf(grid, r), Columns)
<1> DEFINE f == rowOf(grid, r)
           g == rowOf(cells, r)
           head == 0 .. L - 1
           tail == L .. MaxNow
           h == [c \in Columns |-> c + 1]
<1>1. /\ Columns = head \cup tail /\ head \cap tail = {}
      /\ IsFiniteSet(head) /\ IsFiniteSet(tail)
  <2>1. Columns = head \cup tail /\ head \cap tail = {} /\ L - 1 \in Int
    BY DEF Columns
  <2>2. IsFiniteSet(head)
    BY <2>1, FS_Interval
  <2>3. IsFiniteSet(tail)
    BY <2>1, FS_Interval
  <2> QED BY <2>1, <2>2, <2>3
<1>2. \A c \in Columns : f[c] = grid[c][r] /\ f[c] \in Nat
  BY DEF rowOf
<1>3. \A c \in tail : f[c] = 0
  BY <1>1, <1>2 DEF Zero
<1>4. \A k \in 1 .. L : g[k] = f[k - 1] /\ k - 1 \in head
  <2>1. \A k \in 1 .. L : k - 1 \in head /\ k - 1 \in Columns
    BY DEF Columns
  <2> QED BY <1>2, <2>1 DEF rowOf
<1>5. \A c \in 1 .. L : g[c] = Total(f, Group(head, h, c))
  <2> SUFFICES ASSUME NEW c \in 1 .. L PROVE g[c] = Total(f, Group(head, h, c))
    OBVIOUS
  <2>1. Group(head, h, c) = {c - 1}
    <3>1. \A x \in head : h[x] = c <=> x = c - 1
      BY <1>1
    <3>2. c - 1 \in head
      BY <1>4
    <3> HIDE DEF head, h
    <3> QED BY <3>1, <3>2 DEF Group
  <2>2. f[c - 1] \in Nat
    BY <1>1, <1>2, <1>4
  <2>3. Total(f, {c - 1}) = f[c - 1]
    <3> HIDE DEF f
    <3> QED BY <2>2, TotalOne
  <2> HIDE DEF f, g, head, h
  <2> QED BY <1>4, <2>1, <2>3
<1>6. \A x \in head : h[x] \in 1 .. L
  BY <1>1
<1>7. \A x \in head : f[x] \in Nat
  BY <1>1, <1>2
<1>8. \A x \in head \cup tail : f[x] \in Nat
  BY <1>1, <1>2
<1> HIDE DEF f, g, head, tail, h
<1>9. Total(g, 1 .. L) = Total(f, head)
  <2>1. SumsUp(g, L, f, head, h) /\ L \in Nat
    BY <1>5, <1>6, <1>7 DEF SumsUp
  <2> QED BY <1>1, <2>1, Regroup
<1>10. Total(f, tail) = 0
  BY <1>3, TotalZero
<1>11. Total(f, head \cup tail) = Total(f, head) + Total(f, tail)
  BY <1>1, <1>8, TotalUnion
<1>12. Total(f, head) \in Nat
  BY <1>1, <1>7, TotalType
<1> QED BY <1>1, <1>9, <1>10, <1>11, <1>12 DEF f, g

\* Merging columns keeps a row's sum, and enough are merged.
LEMMA Downsampled ==
    ASSUME NEW cells \in Seq([{0, 1} -> Nat]), NEW m \in Nat \ {0}, Len(cells) > m,
           NEW out, out = downsampleCols(cells, (Len(cells) + m - 1) \div m), NEW r \in {0, 1}
    PROVE  /\ Len(out) <= m
           /\ Total(rowOf(out, r), DOMAIN out) = Total(rowOf(cells, r), DOMAIN cells)
<1> DEFINE L == Len(cells)
<1>0. L \in Nat /\ L > m /\ cells \in [1 .. L -> [{0, 1} -> Nat]] /\ DOMAIN cells = 1 .. L
      /\ out = downsampleCols(cells, (L + m - 1) \div m)
  OBVIOUS
<1> HIDE DEF L
<1> DEFINE factor == (L + m - 1) \div m
           n == (L + factor - 1) \div factor
           f == rowOf(cells, r)
           g == rowOf(out, r)
           h == [k \in 1 .. L |-> (k - 1) \div factor + 1]
<1>1. factor \in Nat \ {0} /\ m * factor >= L
  <2>1. L + m - 1 \in Nat
    BY <1>0
  <2>2. factor \in Nat /\ L + m - 1 < m * factor + m
    BY <2>1, Quotient
  <2> HIDE DEF factor
  <2>3. m * factor \in Nat
    BY <2>2
  <2>4. m * factor >= L
    BY <1>0, <2>2, <2>3
  <2>5. factor # 0
    BY <1>0, <2>4
  <2> QED BY <2>2, <2>4, <2>5
<1> HIDE DEF factor
<1>2. n \in Nat /\ n <= m
  <2>1. L + factor - 1 \in Nat
    BY <1>0, <1>1
  <2>2. n \in Nat /\ factor * n <= L + factor - 1
    BY <1>1, <2>1, Quotient
  <2> HIDE DEF n
  <2>3. CASE n <= m
    BY <2>2, <2>3
  <2>4. CASE ~(n <= m)
    <3>1. PICK d \in Nat : n = m + 1 + d
      <4>1. n - m - 1 \in Nat /\ n = m + 1 + (n - m - 1)
        BY <2>2, <2>4
      <4> QED BY <4>1
    <3>2. factor * n = m * factor + factor + factor * d /\ factor * d \in Nat /\ m * factor \in Nat
      BY <1>1, <3>1
    <3>3. factor \in Nat /\ m * factor >= L
      BY <1>1
    <3> DEFINE p == factor * n
               q == m * factor
               z == factor * d
    <3>4. p = q + factor + z /\ z \in Nat /\ q \in Nat /\ q >= L /\ p <= L + factor - 1
      BY <2>2, <3>2, <3>3
    <3> HIDE DEF p, q, z
    <3> QED BY <1>0, <3>3, <3>4
  <2> QED BY <2>2, <2>3, <2>4
<1>3. out = [c \in 1 .. n |-> [q \in {0, 1} |->
               Total(rowOf(cells, q), {k \in DOMAIN cells : (k - 1) \div factor = c - 1})]]
  BY <1>0 DEF downsampleCols, factor, L
<1> HIDE DEF n
<1>4. DOMAIN out = 1 .. n /\ Len(out) = n
  BY <1>2, <1>3
<1>5. \A k \in 1 .. L : h[k] \in 1 .. n /\ h[k] = (k - 1) \div factor + 1
                        /\ (k - 1) \div factor \in Nat
  <2> SUFFICES ASSUME NEW k \in 1 .. L
               PROVE  (k - 1) \div factor + 1 \in 1 .. n /\ (k - 1) \div factor \in Nat
    OBVIOUS
  <2>1. k - 1 \in Nat /\ L + factor - 1 \in Nat
    BY <1>0, <1>1
  <2> DEFINE a == (k - 1) \div factor
  <2>2. a \in Nat /\ factor * a <= k - 1
    BY <1>1, <2>1, Quotient
  <2> HIDE DEF a
  <2>3. factor * (a + 1) = factor * a + factor /\ factor * a \in Nat /\ a + 1 \in Nat
    BY <1>1, <2>2
  <2>4. factor * (a + 1) <= L + factor - 1
    BY <1>0, <1>1, <2>1, <2>2, <2>3
  <2>5. a + 1 <= n
    BY <1>1, <2>1, <2>3, <2>4, AtMostQuotient DEF n
  <2> QED BY <1>2, <2>2, <2>5 DEF a
<1>6. \A c \in 1 .. n : g[c] = Total(f, Group(1 .. L, h, c))
  <2> SUFFICES ASSUME NEW c \in 1 .. n PROVE g[c] = Total(f, Group(1 .. L, h, c))
    OBVIOUS
  <2>1. g[c] = Total(f, {k \in 1 .. L : (k - 1) \div factor = c - 1})
    <3>1. g[c] = out[c][r]
      BY <1>4 DEF rowOf
    <3>2. out[c] = [q \in {0, 1} |->
             Total(rowOf(cells, q), {k \in DOMAIN cells : (k - 1) \div factor = c - 1})]
      BY <1>3, Zenon
    <3>3. out[c][r] = Total(f, {k \in DOMAIN cells : (k - 1) \div factor = c - 1})
      BY <3>2, Zenon
    <3>4. DOMAIN cells = 1 .. L
      BY <1>0
    <3> HIDE DEF f, g, h
    <3> QED BY <3>1, <3>3, <3>4, Zenon
  <2>2. \A k \in 1 .. L : h[k] = c <=> (k - 1) \div factor = c - 1
    <3> HIDE DEF h, f, g
    <3> SUFFICES ASSUME NEW k \in 1 .. L PROVE h[k] = c <=> (k - 1) \div factor = c - 1
      OBVIOUS
    <3> DEFINE a == (k - 1) \div factor
    <3>1. h[k] = a + 1 /\ a \in Nat /\ c \in Int
      BY <1>2, <1>5
    <3> HIDE DEF a
    <3>2. h[k] = c <=> a = c - 1
      BY <3>1
    <3> QED BY <3>2 DEF a
  <2>3. Group(1 .. L, h, c) = {k \in 1 .. L : (k - 1) \div factor = c - 1}
    <3> HIDE DEF h
    <3> QED BY <2>2 DEF Group
  <2> HIDE DEF f, g, h
  <2> QED BY <2>1, <2>3
<1>7. \A k \in 1 .. L : f[k] \in Nat
  BY <1>0 DEF rowOf
<1>8. IsFiniteSet(1 .. L)
  BY <1>0, FS_Interval
<1>9. Total(g, 1 .. n) = Total(f, 1 .. L)
  <2> HIDE DEF f, g, h
  <2>1. SumsUp(g, n, f, 1 .. L, h)
    BY <1>5, <1>6, <1>7 DEF SumsUp
  <2> QED BY <1>2, <1>8, <2>1, Regroup
<1> QED BY <1>0, <1>2, <1>4, <1>9

LEMMA SnapshotCounts ==
    ASSUME VizInv
    PROVE  /\ Len(snapshot.cells) <= latencyMaxCols
           /\ \A r \in {0, 1} : Total(rowOf(snapshot.cells, r), DOMAIN snapshot.cells)
                                  = Total(rowOf(viz.grid, r), Columns)
<1>1. MaxNow \in Nat /\ latencyMaxCols \in Nat \ {0}
  <2>1. MaxNow \in Nat /\ latencyMaxCols \in Nat /\ latencyMaxCols > 0
    BY ConsoleAssumption, Zenon
  <2> QED BY <2>1
<1>2. viz.grid \in [Columns -> [{0, 1} -> Nat]]
  BY DEF VizInv
<1> DEFINE seen == {c \in 0 .. MaxNow : viz.grid[c] # [r \in {0, 1} |-> 0]}
           L == IF seen = {} THEN 0 ELSE Max(seen) + 1
           cells == [k \in 1 .. L |-> viz.grid[k - 1]]
           factor == (Len(cells) + latencyMaxCols - 1) \div latencyMaxCols
<1>3. L \in 0 .. MaxNow + 1 /\ \A c \in Columns : c >= L => viz.grid[c] = Zero
  <2>1. CASE seen = {}
    BY <1>1, <2>1 DEF Columns, Zero
  <2>2. CASE seen # {}
    <3>1. Max(seen) \in seen /\ \A k \in seen : k <= Max(seen)
      <4>1. seen \in SUBSET (0 .. MaxNow)
        OBVIOUS
      <4> HIDE DEF seen
      <4> QED BY <1>1, <2>2, <4>1, GreatestSeen
    <3>2. Max(seen) \in 0 .. MaxNow
      BY <3>1
    <3>3. L = Max(seen) + 1
      BY <2>2
    <3>4. \A c \in Columns : c > Max(seen) => c \notin seen
      <4> HIDE DEF seen, L
      <4> QED BY <3>1, <3>2 DEF Columns
    <3>5. \A c \in Columns : c \notin seen => viz.grid[c] = Zero
      BY DEF Columns, Zero
    <3> HIDE DEF seen, L
    <3> QED BY <1>1, <3>2, <3>3, <3>4, <3>5 DEF Columns
  <2> QED BY <2>1, <2>2
<1>4. snapshot = IF Len(cells) > latencyMaxCols
                 THEN [cells |-> downsampleCols(cells, factor), bin |-> factor]
                 ELSE [cells |-> cells, bin |-> 1]
  BY DEF snapshot
<1> HIDE DEF seen, L
<1>5. /\ DOMAIN cells = 1 .. L /\ Len(cells) = L /\ \A k \in 1 .. L : cells[k] = viz.grid[k - 1]
      /\ cells \in [1 .. L -> [{0, 1} -> Nat]]
  BY <1>1, <1>2, <1>3 DEF Columns
<1> HIDE DEF cells
<1>6. \A r \in {0, 1} : Total(rowOf(cells, r), 1 .. L) = Total(rowOf(viz.grid, r), Columns)
  <2> SUFFICES ASSUME NEW r \in {0, 1}
               PROVE  Total(rowOf(cells, r), 1 .. L) = Total(rowOf(viz.grid, r), Columns)
    OBVIOUS
  <2> DEFINE grid == viz.grid
  <2>1. grid \in [Columns -> [{0, 1} -> Nat]] /\ (\A c \in Columns : c >= L => grid[c] = Zero)
        /\ \A k \in 1 .. L : cells[k] = grid[k - 1]
    BY <1>2, <1>3, <1>5
  <2>2. MaxNow \in Nat /\ L \in 0 .. MaxNow + 1 /\ DOMAIN cells = 1 .. L
    BY <1>1, <1>3, <1>5
  <2> HIDE DEF grid
  <2>3. Total(rowOf(cells, r), 1 .. L) = Total(rowOf(grid, r), Columns)
    BY <2>1, <2>2, ColumnsSeen
  <2> QED BY <2>3 DEF grid
<1>7. CASE L > latencyMaxCols
  <2> DEFINE out == downsampleCols(cells, factor)
  <2>1. snapshot.cells = out
    BY <1>4, <1>5, <1>7
  <2>2. \A r \in {0, 1} :
           /\ Len(out) <= latencyMaxCols
           /\ Total(rowOf(out, r), DOMAIN out) = Total(rowOf(cells, r), 1 .. L)
    <3>1. cells \in Seq([{0, 1} -> Nat]) /\ Len(cells) > latencyMaxCols /\ DOMAIN cells = 1 .. L
      BY <1>1, <1>3, <1>5, <1>7
    <3> SUFFICES ASSUME NEW r \in {0, 1}
                 PROVE  /\ Len(out) <= latencyMaxCols
                        /\ Total(rowOf(out, r), DOMAIN out) = Total(rowOf(cells, r), 1 .. L)
      OBVIOUS
    <3> HIDE DEF factor
    <3>2. out = downsampleCols(cells, (Len(cells) + latencyMaxCols - 1) \div latencyMaxCols)
      BY DEF factor
    <3> HIDE DEF out
    <3> QED BY <1>1, <3>1, <3>2, Downsampled
  <2> HIDE DEF out, factor
  <2> QED BY <1>6, <2>1, <2>2
<1>8. CASE ~(L > latencyMaxCols)
  <2>1. snapshot.cells = cells
    BY <1>4, <1>5, <1>8
  <2> QED BY <1>1, <1>3, <1>5, <1>6, <1>8, <2>1
<1> QED BY <1>7, <1>8

(***************************************************************************)
(* The counters of the live views                                          *)
(***************************************************************************)
LEMMA FrameInputs ==
    /\ IsFiniteSet(Events) /\ IsFiniteSet(Sessions)
    /\ \A e \in Events : e.row \in {0, 1}
    /\ Len(HeatEdges) \in Nat /\ DOMAIN HeatEdges = 1 .. Len(HeatEdges)
<1>1. IsFiniteSet(Events) /\ IsFiniteSet(Sessions) /\ Events \subseteq StepEvent
      /\ HeatEdges \in Seq(STRING)
  BY ConsoleAssumption, Zenon
<1>2. \A e \in StepEvent : e.row \in {0, 1}
  BY DEF StepEvent
<1>3. \A e \in Events : e.row \in {0, 1}
  BY <1>1, <1>2, Zenon
<1>4. Len(HeatEdges) \in Nat /\ DOMAIN HeatEdges = 1 .. Len(HeatEdges)
  BY <1>1
<1> QED BY <1>1, <1>3, <1>4, Zenon

\* Nothing but the sessions touches the counters, and a restart ends the sessions.
LEMMA CountersStay ==
    ASSUME RunStep \/ (EngineStep /\ ~Restart) \/ ReproduceStep \/ ShareStep \/ WatchStep
           \/ CommandStep \/ Tick \/ UNCHANGED vars
    PROVE  UNCHANGED <<viz, session, sent>> /\ (now' = now \/ Tick)
<1>1. CASE RunStep
  BY <1>1 DEF RunStep, EndRun, Classify, Finalize, Capture, Persist, killRun, Evict, runVars
<1>2. CASE EngineStep /\ ~Restart
  BY <1>2 DEF EngineStep, Stop, Drained, SaveToFile, Crash, runVars
<1>3. CASE ReproduceStep
  BY <1>3 DEF ReproduceStep, Reproduce, Replay, AnnotateLive, AnnotateRead, AnnotateSave, runVars
<1>4. CASE ShareStep
  BY <1>4 DEF ShareStep, createShare, getSharedReport, runVars
<1>5. CASE WatchStep
  BY <1>5 DEF WatchStep, Open, Hangup, HeatStatus, LastStats, TraceSince, TraceStatus,
              HeatSnapshot, LatencySnapshot, runVars
<1>6. CASE CommandStep
  BY <1>6 DEF CommandStep, CLIStart, driveRun, runVars
<1>7. CASE Tick \/ UNCHANGED vars
  BY <1>7 DEF Tick, vars, runVars
<1> QED BY <1>1, <1>2, <1>3, <1>4, <1>5, <1>6, <1>7

\* The four steps of a session, by what they do to the counters.
RequestCounted(s, e) ==
    /\ session[s].pc = "idle" /\ exec.pc = "run" /\ now' = now
    /\ sent' = [sent EXCEPT ![e] = @ + 1]
    /\ \A i \in DOMAIN HeatEdges :
          /\ viz'.heat[i].err = viz.heat[i].err
          /\ viz'.heat[i].req = viz.heat[i].req + IF e \in On(i) THEN 1 ELSE 0
    /\ viz'.ring = viz.ring /\ viz'.seq = viz.seq /\ viz'.grid = viz.grid
    /\ DOMAIN session' = Sessions /\ (\A q \in Sessions \ {s} : session'[q] = session[q])
    /\ \E left : \E pc \in {"err", "trace"} :
          /\ session'[s] = [left |-> left, ev |-> e, pc |-> pc]
          /\ pc = "err" <=> Slot(e) # {} /\ ~e.ok

LEMMA RequestEffect ==
    ASSUME VizInv, SessionInv, NEW s \in Sessions, NEW e \in Events, RecordRequest(s, e)
    PROVE  VizInv' /\ RequestCounted(s, e)
<1>1. viz = [heat |-> viz.heat, ring |-> viz.ring, seq |-> viz.seq, grid |-> viz.grid]
      /\ viz.heat \in [DOMAIN HeatEdges -> [req : Nat, err : Nat]]
  BY DEF VizInv
<1> DEFINE heat == addRequest(viz.heat, Slot(e))
<1>2. viz' = [viz EXCEPT !.heat = heat]
  BY DEF RecordRequest
<1>3. \A i \in DOMAIN HeatEdges : i \in Slot(e) <=> e \in On(i)
  BY DEF Slot, On
<1>4. /\ heat \in [DOMAIN HeatEdges -> [req : Nat, err : Nat]]
      /\ \A i \in DOMAIN HeatEdges :
            /\ heat[i].err = viz.heat[i].err
            /\ heat[i].req = viz.heat[i].req + IF e \in On(i) THEN 1 ELSE 0
  BY <1>1, <1>3 DEF addRequest
<1> HIDE DEF heat
<1>5. /\ viz' = [heat |-> heat, ring |-> viz.ring, seq |-> viz.seq, grid |-> viz.grid]
      /\ viz'.heat = heat /\ viz'.ring = viz.ring /\ viz'.seq = viz.seq /\ viz'.grid = viz.grid
  BY <1>1, <1>2
<1>6. sent' = [sent EXCEPT ![e] = @ + 1] /\ now' = now /\ session[s].pc = "idle" /\ exec.pc = "run"
  BY DEF RecordRequest
<1>7. sent' \in [Events -> Nat]
  BY <1>6 DEF VizInv
<1>8. VizInv'
  BY <1>4, <1>5, <1>6, <1>7 DEF VizInv, Ascending
<1> DEFINE pc == IF Slot(e) # {} /\ ~e.ok THEN "err" ELSE "trace"
           r == [left |-> session[s].left - 1, ev |-> e, pc |-> pc]
<1>9. session' = [session EXCEPT ![s] = r]
  BY DEF RecordRequest
<1>10. pc \in {"err", "trace"} /\ (pc = "err" <=> Slot(e) # {} /\ ~e.ok)
  OBVIOUS
<1> HIDE DEF pc
<1>11. /\ DOMAIN session' = Sessions /\ session'[s] = r
       /\ \A q \in Sessions \ {s} : session'[q] = session[q]
  BY <1>9 DEF SessionInv
<1> QED BY <1>4, <1>5, <1>6, <1>8, <1>10, <1>11 DEF RequestCounted

\* The other three: the session goes from one place to another with its event.
Moves(s, from, to) ==
    /\ session[s].pc = from /\ now' = now /\ sent' = sent
    /\ session' = [session EXCEPT ![s].pc = to]
    /\ DOMAIN session' = Sessions /\ (\A q \in Sessions \ {s} : session'[q] = session[q])
    /\ session'[s] = [left |-> session[s].left, ev |-> session[s].ev, pc |-> to]

LEMMA MovesExactly ==
    ASSUME SessionInv, NEW s \in Sessions, NEW from, NEW to,
           session[s].pc = from, now' = now, sent' = sent, session' = [session EXCEPT ![s].pc = to]
    PROVE  Moves(s, from, to)
BY DEF SessionInv, Moves

LEMMA ErrorEffect ==
    ASSUME VizInv, SessionInv, NEW s \in Sessions, RecordError(s)
    PROVE  /\ VizInv' /\ Moves(s, "err", "trace") /\ UNCHANGED exec
           /\ \A i \in DOMAIN HeatEdges :
                 /\ viz'.heat[i].req = viz.heat[i].req
                 /\ viz'.heat[i].err = viz.heat[i].err + IF session[s].ev \in On(i) THEN 1 ELSE 0
           /\ viz'.grid = viz.grid
<1>0. Moves(s, "err", "trace") /\ UNCHANGED exec
  BY MovesExactly DEF RecordError
<1>1. viz = [heat |-> viz.heat, ring |-> viz.ring, seq |-> viz.seq, grid |-> viz.grid]
      /\ viz.heat \in [DOMAIN HeatEdges -> [req : Nat, err : Nat]]
  BY DEF VizInv
<1> DEFINE e == session[s].ev
           heat == addError(viz.heat, Slot(e))
<1>2. viz' = [viz EXCEPT !.heat = heat]
  BY DEF RecordError
<1>3. \A i \in DOMAIN HeatEdges : i \in Slot(e) <=> e \in On(i)
  <2>1. e \in Events
    BY <1>0 DEF SessionInv, Moves
  <2> QED BY <2>1 DEF Slot, On
<1> HIDE DEF e
<1>4. /\ heat \in [DOMAIN HeatEdges -> [req : Nat, err : Nat]]
      /\ \A i \in DOMAIN HeatEdges :
            /\ heat[i].req = viz.heat[i].req
            /\ heat[i].err = viz.heat[i].err + IF e \in On(i) THEN 1 ELSE 0
  BY <1>1, <1>3 DEF addError
<1> HIDE DEF heat
<1>5. /\ viz' = [heat |-> heat, ring |-> viz.ring, seq |-> viz.seq, grid |-> viz.grid]
      /\ viz'.heat = heat /\ viz'.ring = viz.ring /\ viz'.seq = viz.seq /\ viz'.grid = viz.grid
  BY <1>1, <1>2
<1>6. VizInv'
  BY <1>0, <1>4, <1>5 DEF VizInv, Ascending, Moves
<1> QED BY <1>0, <1>4, <1>5, <1>6 DEF e

LEMMA TraceEffect ==
    ASSUME VizInv, SessionInv, NEW s \in Sessions, AddTrace(s)
    PROVE  /\ VizInv' /\ viz'.heat = viz.heat /\ viz'.grid = viz.grid /\ UNCHANGED exec
           /\ viz'.seq >= viz.seq
           /\ \/ session[s].ev.terminal /\ Moves(s, "trace", "idle")
              \/ ~session[s].ev.terminal /\ Moves(s, "trace", "latency")
<1>0. /\ UNCHANGED exec /\ now' = now /\ sent' = sent
      /\ \/ session[s].ev.terminal /\ Moves(s, "trace", "idle")
         \/ ~session[s].ev.terminal /\ Moves(s, "trace", "latency")
  <2>1. session[s].pc = "trace" /\ now' = now /\ sent' = sent /\ UNCHANGED exec
    BY DEF AddTrace
  <2>2. CASE session[s].ev.terminal
    <3>1. session' = [session EXCEPT ![s].pc = "idle"]
      BY <2>2 DEF AddTrace
    <3> QED BY <2>1, <2>2, <3>1, MovesExactly
  <2>3. CASE ~session[s].ev.terminal
    <3>1. session' = [session EXCEPT ![s].pc = "latency"]
      BY <2>3 DEF AddTrace
    <3> QED BY <2>1, <2>3, <3>1, MovesExactly
  <2> QED BY <2>1, <2>2, <2>3
<1>1. /\ viz = [heat |-> viz.heat, ring |-> viz.ring, seq |-> viz.seq, grid |-> viz.grid]
      /\ viz.seq \in Nat /\ viz.ring \in Seq(Nat) /\ Ascending(viz.ring)
      /\ \A k \in DOMAIN viz.ring : viz.ring[k] <= viz.seq
  BY DEF VizInv
<1>2. CASE viz' = viz
  BY <1>0, <1>1, <1>2 DEF VizInv, Ascending
<1>3. CASE viz' # viz
  <2> DEFINE kept == IF Len(viz.ring) < traceBufCap THEN viz.ring ELSE Tail(viz.ring)
             ring == Append(kept, viz.seq + 1)
  <2>1. viz' = [viz EXCEPT !.seq = @ + 1, !.ring = ring]
    BY <1>3 DEF AddTrace
  <2>2. kept \in Seq(Nat) /\ Ascending(kept) /\ \A k \in DOMAIN kept : kept[k] <= viz.seq
    <3>1. CASE kept = viz.ring
      BY <1>1, <3>1
    <3>2. CASE kept = Tail(viz.ring)
      <4>0. traceBufCap \in Nat /\ traceBufCap > 0
        BY ConsoleAssumption, Zenon
      <4>1. CASE viz.ring = <<>>
        BY <1>1, <3>2, <4>1, <4>0 DEF Ascending
      <4>2. CASE viz.ring # <<>>
        <5> DEFINE n == Len(viz.ring)
        <5>1. /\ n \in Nat \ {0} /\ DOMAIN viz.ring = 1 .. n /\ kept \in Seq(Nat)
              /\ DOMAIN kept = 1 .. n - 1 /\ \A k \in 1 .. n - 1 : kept[k] = viz.ring[k + 1]
          BY <1>1, <3>2, <4>2
        <5> HIDE DEF kept, n
        <5>2. \A k \in 1 .. n - 1 : k + 1 \in 1 .. n
          BY <5>1
        <5>3. \A i, j \in 1 .. n - 1 : i < j => i + 1 < j + 1
          BY <5>1
        <5> QED BY <1>1, <5>1, <5>2, <5>3 DEF Ascending
      <4> QED BY <4>1, <4>2
    <3> QED BY <3>1, <3>2
  <2> HIDE DEF kept
  <2>3. /\ ring \in Seq(Nat) /\ Ascending(ring)
        /\ \A k \in DOMAIN ring : ring[k] <= viz.seq + 1
    <3>1. /\ ring \in Seq(Nat) /\ DOMAIN ring = 1 .. Len(kept) + 1 /\ Len(kept) \in Nat
          /\ DOMAIN kept = 1 .. Len(kept)
          /\ ring[Len(kept) + 1] = viz.seq + 1 /\ \A k \in 1 .. Len(kept) : ring[k] = kept[k]
      BY <1>1, <2>2
    <3> HIDE DEF ring
    <3>2. \A k \in 1 .. Len(kept) : ring[k] \in Nat /\ ring[k] <= viz.seq
      BY <2>2, <3>1
    <3>3. \A k \in DOMAIN ring : k \in 1 .. Len(kept) \/ k = Len(kept) + 1
      BY <3>1
    <3>4. \A k \in DOMAIN ring : ring[k] <= viz.seq + 1
      BY <1>1, <3>1, <3>2, <3>3
    <3>5. Ascending(ring)
      <4> SUFFICES ASSUME NEW i \in DOMAIN ring, NEW j \in DOMAIN ring, i < j
                   PROVE  ring[i] < ring[j]
        BY DEF Ascending
      <4>1. i \in 1 .. Len(kept)
        BY <3>1
      <4>2. CASE j \in 1 .. Len(kept)
        BY <2>2, <3>1, <4>1, <4>2 DEF Ascending
      <4>3. CASE j = Len(kept) + 1
        BY <1>1, <3>1, <3>2, <4>1, <4>3
      <4> QED BY <3>3, <4>2, <4>3
    <3> QED BY <3>1, <3>4, <3>5
  <2> HIDE DEF ring
  <2>4. /\ viz' = [heat |-> viz.heat, ring |-> ring, seq |-> viz.seq + 1, grid |-> viz.grid]
        /\ viz'.heat = viz.heat /\ viz'.ring = ring /\ viz'.seq = viz.seq + 1
        /\ viz'.grid = viz.grid
    BY <1>1, <2>1
  <2>5. VizInv'
    BY <1>0, <1>1, <2>3, <2>4 DEF VizInv, Ascending
  <2> QED BY <1>0, <1>1, <2>4, <2>5
<1> QED BY <1>2, <1>3

LEMMA LatencyEffect ==
    ASSUME VizInv, SessionInv, NEW s \in Sessions, RecordLatency(s)
    PROVE  /\ VizInv' /\ Moves(s, "latency", "idle") /\ UNCHANGED exec
           /\ viz'.heat = viz.heat
           /\ \A c \in Columns, r \in {0, 1} :
                 viz'.grid[c][r] = viz.grid[c][r]
                                     + IF c = now /\ r = session[s].ev.row THEN 1 ELSE 0
<1>0. Moves(s, "latency", "idle") /\ UNCHANGED exec
  BY MovesExactly DEF RecordLatency
<1>1. /\ viz = [heat |-> viz.heat, ring |-> viz.ring, seq |-> viz.seq, grid |-> viz.grid]
      /\ viz.grid \in [Columns -> [{0, 1} -> Nat]] /\ now \in Columns
  BY DEF VizInv
<1> DEFINE row == session[s].ev.row
           grid == [viz.grid EXCEPT ![now][row] = @ + 1]
<1>2. viz' = [viz EXCEPT !.grid = grid]
  BY <1>1 DEF RecordLatency
<1>3. row \in {0, 1}
  <2>1. session[s].ev \in Events
    BY <1>0 DEF SessionInv, Moves
  <2> QED BY <2>1, FrameInputs
<1> HIDE DEF row
<1>4. /\ grid \in [Columns -> [{0, 1} -> Nat]]
      /\ \A c \in Columns, r \in {0, 1} :
            grid[c][r] = viz.grid[c][r] + IF c = now /\ r = row THEN 1 ELSE 0
  BY <1>1, <1>3
<1> HIDE DEF grid
<1>5. /\ viz' = [heat |-> viz.heat, ring |-> viz.ring, seq |-> viz.seq, grid |-> grid]
      /\ viz'.heat = viz.heat /\ viz'.ring = viz.ring /\ viz'.seq = viz.seq /\ viz'.grid = grid
  BY <1>1, <1>2
<1>6. VizInv'
  BY <1>0, <1>4, <1>5 DEF VizInv, Ascending, Moves
<1> QED BY <1>0, <1>4, <1>5, <1>6 DEF row

\* Where the run's goroutine goes, and what it leaves of a status that is final.
LEMMA ExecMoves ==
    ASSUME ShapeInv, RunStep
    PROVE  \/ exec' = exec
           \/ /\ exec.pc = "run" /\ exec'.pc = "classify" /\ \A s \in Sessions : session[s].pc = "idle"
           \/ /\ exec.pc \in {"classify", "finalize"} \/ Unpersisted
              /\ exec'.pc \in {"finalize", "capture", "run row", "stats row", "findings row", "done"}
              /\ exec.pc # "done"
BY DEF ShapeInv, RunStep, EndRun, Classify, Finalize, Capture, Persist, killRun, Evict, runVars,
       Unpersisted

LEMMA SessionsStep ==
    ASSUME ShapeInv, VizInv, SessionInv, [Next]_vars
    PROVE  VizInv' /\ SessionInv'
<1>1. CASE SessionStep
  <2>0. exec' = exec
    BY <1>1, SessionLeaves
  <2>1. ASSUME NEW s \in Sessions, NEW e \in Events, RecordRequest(s, e) PROVE VizInv' /\ SessionInv'
    <3>1. VizInv' /\ RequestCounted(s, e)
      BY <2>1, RequestEffect
    <3>2. PICK left : \E pc \in {"err", "trace"} :
             /\ session'[s] = [left |-> left, ev |-> e, pc |-> pc]
             /\ pc = "err" <=> Slot(e) # {} /\ ~e.ok
      BY <3>1 DEF RequestCounted
    <3>3. PICK pc \in {"err", "trace"} :
             /\ session'[s] = [left |-> left, ev |-> e, pc |-> pc]
             /\ pc = "err" <=> Slot(e) # {} /\ ~e.ok
      BY <3>2
    <3>4. /\ DOMAIN session' = Sessions /\ exec.pc = "run"
          /\ \A q \in Sessions \ {s} : session'[q] = session[q]
      BY <3>1 DEF RequestCounted
    <3>5. session'[s].pc = "err" => ~session'[s].ev.ok
      BY <3>3
    <3>6. SessionInv'
      BY <2>0, <3>3, <3>4, <3>5 DEF SessionInv
    <3> QED BY <3>1, <3>6
  <2>2. ASSUME NEW s \in Sessions, RecordError(s) PROVE VizInv' /\ SessionInv'
    <3>1. VizInv' /\ Moves(s, "err", "trace")
      BY <2>2, ErrorEffect
    <3>2. SessionInv'
      BY <2>0, <3>1 DEF SessionInv, Moves
    <3> QED BY <3>1, <3>2
  <2>3. ASSUME NEW s \in Sessions, AddTrace(s) PROVE VizInv' /\ SessionInv'
    <3>1. /\ VizInv'
          /\ \/ session[s].ev.terminal /\ Moves(s, "trace", "idle")
             \/ ~session[s].ev.terminal /\ Moves(s, "trace", "latency")
      BY <2>3, TraceEffect
    <3>2. SessionInv'
      BY <2>0, <3>1 DEF SessionInv, Moves
    <3> QED BY <3>1, <3>2
  <2>4. ASSUME NEW s \in Sessions, RecordLatency(s) PROVE VizInv' /\ SessionInv'
    <3>1. VizInv' /\ Moves(s, "latency", "idle")
      BY <2>4, LatencyEffect
    <3>2. SessionInv'
      BY <2>0, <3>1 DEF SessionInv, Moves
    <3> QED BY <3>1, <3>2
  <2> QED BY <1>1, <2>1, <2>2, <2>3, <2>4 DEF SessionStep
<1>2. CASE Restart
  <2>1. UNCHANGED <<viz, sent, now>>
    BY <1>2 DEF Restart
  <2>2. VizInv'
    BY <2>1 DEF VizInv, Ascending
  <2>3. exec'.pc = "gone" /\ session' = [s \in Sessions |-> [session[s] EXCEPT !.pc = "gone"]]
    BY <1>2 DEF Restart, ShapeInv
  <2>4. \A s \in Sessions : session'[s] = [left |-> session[s].left, ev |-> session[s].ev, pc |-> "gone"]
    BY <2>3 DEF SessionInv
  <2>5. SessionInv'
    BY <2>3, <2>4 DEF SessionInv
  <2> QED BY <2>2, <2>5
<1>3. CASE \/ RunStep \/ (EngineStep /\ ~Restart) \/ ReproduceStep \/ ShareStep \/ WatchStep
           \/ CommandStep \/ Tick \/ UNCHANGED vars
  <2>1. UNCHANGED <<viz, session, sent>> /\ (now' = now \/ Tick)
    BY <1>3, CountersStay
  <2>2. now' \in Columns
    <3>1. MaxNow \in Nat
      BY ConsoleAssumption, Zenon
    <3> QED BY <2>1, <3>1 DEF VizInv, Columns, Tick
  <2>3. VizInv'
    BY <2>1, <2>2 DEF VizInv, Ascending
  <2>4. SessionInv'
    <3>1. CASE RunStep
      BY <2>1, <3>1, ExecMoves DEF SessionInv, Unpersisted
    <3>2. CASE ~RunStep
      <4>1. exec' = exec
        <5>1. CASE EngineStep /\ ~Restart
          BY <5>1 DEF EngineStep, Stop, Drained, SaveToFile, Crash, runVars
        <5>2. CASE ReproduceStep \/ ShareStep \/ WatchStep \/ CommandStep
          BY <5>2, ReproduceLeaves, ShareLeaves, WatchLeaves, CommandLeaves
        <5>3. CASE Tick \/ UNCHANGED vars
          BY <5>3, TickLeaves
        <5> QED BY <1>3, <3>2, <5>1, <5>2, <5>3
      <4> QED BY <2>1, <4>1 DEF SessionInv
    <3> QED BY <3>1, <3>2
  <2> QED BY <2>3, <2>4
<1> QED BY <1>1, <1>2, <1>3, StepKinds DEF EngineStep

\* One more event, in each set that it is of.
OneMore(f, g, e) == f \in [Events -> Nat] /\ g = [f EXCEPT ![e] = @ + 1]

LEMMA SentOnce ==
    ASSUME NEW f, NEW g, NEW e \in Events, OneMore(f, g, e), NEW S \in SUBSET Events
    PROVE  Total(g, S) = Total(f, S) + (IF e \in S THEN 1 ELSE 0) /\ Total(f, S) \in Nat
<1>0. f \in [Events -> Nat] /\ g = [f EXCEPT ![e] = @ + 1]
  BY DEF OneMore
<1>1. IsFiniteSet(S) /\ \A x \in S : f[x] \in Nat
  BY <1>0, FrameInputs, FS_Subset
<1>2. Total(f, S) \in Nat
  BY <1>1, TotalType
<1>3. CASE e \in S
  <2>1. g[e] = f[e] + 1 /\ \A x \in S : x # e => g[x] = f[x]
    BY <1>0
  <2>2. Total(g, S) = Total(f, S) + 1
    BY <1>1, <1>3, <2>1, TotalBump
  <2> QED BY <1>2, <1>3, <2>2
<1>4. CASE e \notin S
  <2>1. \A x \in S : g[x] = f[x]
    BY <1>0, <1>4
  <2>2. Total(g, S) = Total(f, S)
    BY <2>1, TotalSame
  <2> QED BY <1>2, <1>4, <2>2
<1> QED BY <1>3, <1>4

\* One session moves: it may leave a set of places and events, or enter one.
LEMMA BetweenOne ==
    ASSUME NEW s \in Sessions, \A q \in Sessions \ {s} : session'[q] = session[q],
           NEW places, NEW S
    PROVE  /\ Cardinality(Between(places, S)) \in Nat
           /\ Cardinality(Between(places, S)')
                = Cardinality(Between(places, S))
                    + (IF session'[s].pc \in places /\ session'[s].ev \in S THEN 1 ELSE 0)
                    - (IF session[s].pc \in places /\ session[s].ev \in S THEN 1 ELSE 0)
<1> DEFINE B == Between(places, S)
           C == Between(places, S)'
<1>1. /\ B = {q \in Sessions : session[q].pc \in places /\ session[q].ev \in S}
      /\ C = {q \in Sessions : session'[q].pc \in places /\ session'[q].ev \in S}
  BY DEF Between
<1>2. B \in SUBSET Sessions /\ C \in SUBSET Sessions /\ B \ {s} = C \ {s}
      /\ (s \in B <=> session[s].pc \in places /\ session[s].ev \in S)
      /\ (s \in C <=> session'[s].pc \in places /\ session'[s].ev \in S)
  BY <1>1
<1> HIDE DEF B, C
<1>3. IsFiniteSet(B) /\ IsFiniteSet(C)
  BY <1>2, FrameInputs, FS_Subset
<1>4. /\ Cardinality(B) \in Nat /\ Cardinality(C) \in Nat
      /\ Cardinality(B \ {s}) = IF s \in B THEN Cardinality(B) - 1 ELSE Cardinality(B)
      /\ Cardinality(C \ {s}) = IF s \in C THEN Cardinality(C) - 1 ELSE Cardinality(C)
  BY <1>3, FS_RemoveElement, FS_CardinalityType
<1> DEFINE old == IF session[s].pc \in places /\ session[s].ev \in S THEN 1 ELSE 0
           new == IF session'[s].pc \in places /\ session'[s].ev \in S THEN 1 ELSE 0
<1>5. /\ s \in C => new = 1
      /\ s \notin C => new = 0
      /\ s \in B => old = 1
      /\ s \notin B => old = 0
  BY <1>2
<1> HIDE DEF old, new
<1>6. Cardinality(B) \in Nat /\ Cardinality(C) = Cardinality(B) + new - old
  <2>1. Cardinality(B \ {s}) = Cardinality(C \ {s})
    BY <1>2, Zenon
  <2> QED BY <1>4, <1>5, <2>1
<1> QED BY <1>6 DEF B, C, old, new

\* The counters after the first counter of an event of S.
LEMMA OnParts ==
    /\ \A i : On(i) \in SUBSET Events /\ FailedOn(i) \in SUBSET Events /\ FailedOn(i) \subseteq On(i)
    /\ \A r : InRow(r) \in SUBSET Events
    /\ \A i, e : e \in FailedOn(i) <=> e \in On(i) /\ ~e.ok
    /\ \A r, e : e \in InRow(r) <=> e \in Events /\ ~e.terminal /\ e.row = r
    /\ \A i \in DOMAIN HeatEdges : \A e : e \in On(i) => i \in Slot(e)
BY DEF On, FailedOn, InRow, Slot

\* The two halves of CountInv.
HeatCounted ==
    \A i \in DOMAIN HeatEdges :
        /\ viz.heat[i].req = Total(sent, On(i))
        /\ viz.heat[i].err + Cardinality(Between({"err"}, On(i))) = Total(sent, FailedOn(i))

GridCounted ==
    \A r \in {0, 1} :
        Total(rowOf(viz.grid, r), Columns)
          + Cardinality(Between({"err", "trace", "latency"}, InRow(r))) = Total(sent, InRow(r))

LEMMA GridTotalType ==
    ASSUME VizInv, NEW r \in {0, 1}
    PROVE  IsFiniteSet(Columns) /\ Total(rowOf(viz.grid, r), Columns) \in Nat
<1>1. MaxNow \in Nat
  BY ConsoleAssumption, Zenon
<1>2. IsFiniteSet(Columns)
  BY <1>1, FS_Interval DEF Columns
<1>3. \A c \in Columns : rowOf(viz.grid, r)[c] \in Nat
  BY DEF VizInv, rowOf
<1> QED BY <1>2, <1>3, TotalType

LEMMA RequestCounts ==
    ASSUME VizInv, SessionInv, HeatCounted, GridCounted,
           NEW s \in Sessions, NEW e \in Events, RecordRequest(s, e)
    PROVE  HeatCounted' /\ GridCounted'
<1>1. VizInv' /\ RequestCounted(s, e)
  BY RequestEffect
<1>2. /\ session[s].pc = "idle" /\ sent' = [sent EXCEPT ![e] = @ + 1]
      /\ viz'.grid = viz.grid
      /\ \A i \in DOMAIN HeatEdges :
            /\ viz'.heat[i].err = viz.heat[i].err
            /\ viz'.heat[i].req = viz.heat[i].req + IF e \in On(i) THEN 1 ELSE 0
      /\ \A q \in Sessions \ {s} : session'[q] = session[q]
  BY <1>1 DEF RequestCounted
<1>3. /\ session'[s].ev = e /\ session'[s].pc \in {"err", "trace"}
      /\ session'[s].pc = "err" <=> Slot(e) # {} /\ ~e.ok
  BY <1>1 DEF RequestCounted
<1>4. \A S \in SUBSET Events : /\ Total(sent', S) = Total(sent, S) + (IF e \in S THEN 1 ELSE 0)
                               /\ Total(sent, S) \in Nat
  <2> SUFFICES ASSUME NEW S \in SUBSET Events
               PROVE  /\ Total(sent', S) = Total(sent, S) + (IF e \in S THEN 1 ELSE 0)
                      /\ Total(sent, S) \in Nat
    OBVIOUS
  <2> DEFINE f == sent
             g == sent'
  <2>1. OneMore(f, g, e)
    BY <1>2 DEF VizInv, OneMore
  <2> HIDE DEF f, g
  <2>2. Total(g, S) = Total(f, S) + (IF e \in S THEN 1 ELSE 0) /\ Total(f, S) \in Nat
    BY <2>1, SentOnce
  <2> QED BY <2>2 DEF f, g
<1>5. HeatCounted'
  <2> SUFFICES ASSUME NEW i \in DOMAIN HeatEdges
               PROVE  /\ viz'.heat[i].req = Total(sent', On(i))
                      /\ viz'.heat[i].err + Cardinality(Between({"err"}, On(i))')
                           = Total(sent', FailedOn(i))
    BY DEF HeatCounted
  <2>1. viz'.heat[i].req = Total(sent', On(i))
    <3>1. viz.heat[i].req = Total(sent, On(i))
      BY DEF HeatCounted
    <3>2. Total(sent', On(i)) = Total(sent, On(i)) + (IF e \in On(i) THEN 1 ELSE 0)
      BY <1>4, OnParts
    <3>3. viz'.heat[i].req = viz.heat[i].req + (IF e \in On(i) THEN 1 ELSE 0)
      BY <1>2
    <3> QED BY <3>1, <3>2, <3>3, Zenon
  <2> DEFINE b == Cardinality(Between({"err"}, On(i)))
             c == Cardinality(Between({"err"}, On(i))')
  <2>2. b \in Nat /\ c = b + (IF e \in FailedOn(i) THEN 1 ELSE 0)
    <3>1. session'[s].pc \in {"err"} /\ session'[s].ev \in On(i) <=> e \in FailedOn(i)
      BY <1>3, OnParts
    <3>2. ~(session[s].pc \in {"err"} /\ session[s].ev \in On(i))
      BY <1>2
    <3>3. /\ b \in Nat
          /\ c = b + (IF session'[s].pc \in {"err"} /\ session'[s].ev \in On(i) THEN 1 ELSE 0)
                   - (IF session[s].pc \in {"err"} /\ session[s].ev \in On(i) THEN 1 ELSE 0)
      BY <1>2, BetweenOne
    <3> HIDE DEF b, c
    <3> QED BY <3>1, <3>2, <3>3
  <2>3. viz.heat[i].err \in Nat /\ viz'.heat[i].err = viz.heat[i].err
    BY <1>2 DEF VizInv
  <2>4. viz.heat[i].err + b = Total(sent, FailedOn(i))
    BY DEF HeatCounted
  <2>5. Total(sent', FailedOn(i)) = Total(sent, FailedOn(i)) + (IF e \in FailedOn(i) THEN 1 ELSE 0)
    BY <1>4, OnParts
  <2> HIDE DEF b, c
  <2>6. viz'.heat[i].err + c = Total(sent', FailedOn(i))
    BY <2>2, <2>3, <2>4, <2>5
  <2> QED BY <2>1, <2>6 DEF c
<1>6. GridCounted'
  <2> SUFFICES ASSUME NEW r \in {0, 1}
               PROVE  Total(rowOf(viz'.grid, r), Columns)
                        + Cardinality(Between({"err", "trace", "latency"}, InRow(r))')
                        = Total(sent', InRow(r))
    BY DEF GridCounted
  <2> DEFINE P == {"err", "trace", "latency"}
             b == Cardinality(Between(P, InRow(r)))
             c == Cardinality(Between(P, InRow(r))')
             g == Total(rowOf(viz.grid, r), Columns)
  <2>1. b \in Nat /\ c = b + (IF e \in InRow(r) THEN 1 ELSE 0)
    <3>1. session'[s].pc \in P /\ session'[s].ev \in InRow(r) <=> e \in InRow(r)
      BY <1>3
    <3>2. ~(session[s].pc \in P /\ session[s].ev \in InRow(r))
      BY <1>2
    <3>3. /\ b \in Nat
          /\ c = b + (IF session'[s].pc \in P /\ session'[s].ev \in InRow(r) THEN 1 ELSE 0)
                   - (IF session[s].pc \in P /\ session[s].ev \in InRow(r) THEN 1 ELSE 0)
      BY <1>2, BetweenOne
    <3> HIDE DEF b, c, P
    <3> QED BY <3>1, <3>2, <3>3
  <2>2. g + b = Total(sent, InRow(r))
    BY DEF GridCounted
  <2>3. Total(sent', InRow(r)) = Total(sent, InRow(r)) + (IF e \in InRow(r) THEN 1 ELSE 0)
    BY <1>4, OnParts
  <2>4. g \in Nat
    BY GridTotalType
  <2> HIDE DEF b, c, g
  <2>5. g + c = Total(sent', InRow(r))
    BY <2>1, <2>2, <2>3, <2>4
  <2> QED BY <1>2, <2>5 DEF c, g
<1> QED BY <1>5, <1>6

LEMMA ErrorCounts ==
    ASSUME VizInv, SessionInv, HeatCounted, GridCounted, NEW s \in Sessions, RecordError(s)
    PROVE  HeatCounted' /\ GridCounted'
<1>1. /\ VizInv' /\ Moves(s, "err", "trace") /\ viz'.grid = viz.grid
      /\ \A i \in DOMAIN HeatEdges :
            /\ viz'.heat[i].req = viz.heat[i].req
            /\ viz'.heat[i].err = viz.heat[i].err + IF session[s].ev \in On(i) THEN 1 ELSE 0
  BY ErrorEffect
<1>2. /\ session[s].pc = "err" /\ sent' = sent
      /\ session'[s].pc = "trace" /\ session'[s].ev = session[s].ev
      /\ \A q \in Sessions \ {s} : session'[q] = session[q]
  BY <1>1 DEF Moves
<1>3. HeatCounted'
  <2> SUFFICES ASSUME NEW i \in DOMAIN HeatEdges
               PROVE  /\ viz'.heat[i].req = Total(sent, On(i))
                      /\ viz'.heat[i].err + Cardinality(Between({"err"}, On(i))')
                           = Total(sent, FailedOn(i))
    BY <1>2 DEF HeatCounted
  <2> DEFINE b == Cardinality(Between({"err"}, On(i)))
             c == Cardinality(Between({"err"}, On(i))')
  <2>1. b \in Nat /\ c = b - (IF session[s].ev \in On(i) THEN 1 ELSE 0)
    <3>1. /\ b \in Nat
          /\ c = b + (IF session'[s].pc \in {"err"} /\ session'[s].ev \in On(i) THEN 1 ELSE 0)
                   - (IF session[s].pc \in {"err"} /\ session[s].ev \in On(i) THEN 1 ELSE 0)
      BY <1>2, BetweenOne
    <3> HIDE DEF b, c
    <3> QED BY <1>2, <3>1
  <2>2. viz.heat[i].err \in Nat
    BY DEF VizInv
  <2>3. viz.heat[i].req = Total(sent, On(i)) /\ viz.heat[i].err + b = Total(sent, FailedOn(i))
    BY DEF HeatCounted
  <2> HIDE DEF b, c
  <2>4. viz'.heat[i].err + c = Total(sent, FailedOn(i))
    BY <1>1, <2>1, <2>2, <2>3
  <2> QED BY <1>1, <2>3, <2>4 DEF c
<1>4. GridCounted'
  <2> SUFFICES ASSUME NEW r \in {0, 1}
               PROVE  Total(rowOf(viz.grid, r), Columns)
                        + Cardinality(Between({"err", "trace", "latency"}, InRow(r))')
                        = Total(sent, InRow(r))
    BY <1>1, <1>2 DEF GridCounted
  <2> DEFINE P == {"err", "trace", "latency"}
             b == Cardinality(Between(P, InRow(r)))
             c == Cardinality(Between(P, InRow(r))')
  <2>1. c = b
    <3>1. session'[s].pc \in P /\ session[s].pc \in P
      BY <1>2
    <3>2. /\ b \in Nat
          /\ c = b + (IF session'[s].pc \in P /\ session'[s].ev \in InRow(r) THEN 1 ELSE 0)
                   - (IF session[s].pc \in P /\ session[s].ev \in InRow(r) THEN 1 ELSE 0)
      BY <1>2, BetweenOne
    <3> HIDE DEF b, c, P
    <3> QED BY <1>2, <3>1, <3>2
  <2> QED BY <2>1 DEF GridCounted
<1> QED BY <1>3, <1>4

LEMMA TraceCounts ==
    ASSUME VizInv, SessionInv, HeatCounted, GridCounted, NEW s \in Sessions, AddTrace(s)
    PROVE  HeatCounted' /\ GridCounted'
<1>1. /\ viz'.heat = viz.heat /\ viz'.grid = viz.grid
      /\ \/ session[s].ev.terminal /\ Moves(s, "trace", "idle")
         \/ ~session[s].ev.terminal /\ Moves(s, "trace", "latency")
  BY TraceEffect
<1>2. /\ session[s].pc = "trace" /\ sent' = sent
      /\ session'[s].ev = session[s].ev /\ session'[s].pc \in {"idle", "latency"}
      /\ session'[s].pc = "latency" <=> ~session[s].ev.terminal
      /\ \A q \in Sessions \ {s} : session'[q] = session[q]
  BY <1>1 DEF Moves
<1>3. HeatCounted'
  <2> SUFFICES ASSUME NEW i \in DOMAIN HeatEdges
               PROVE  Cardinality(Between({"err"}, On(i))') = Cardinality(Between({"err"}, On(i)))
    BY <1>1, <1>2 DEF HeatCounted
  <2> DEFINE b == Cardinality(Between({"err"}, On(i)))
             c == Cardinality(Between({"err"}, On(i))')
  <2>1. /\ b \in Nat
        /\ c = b + (IF session'[s].pc \in {"err"} /\ session'[s].ev \in On(i) THEN 1 ELSE 0)
                 - (IF session[s].pc \in {"err"} /\ session[s].ev \in On(i) THEN 1 ELSE 0)
    BY <1>2, BetweenOne
  <2> HIDE DEF b, c
  <2>2. c = b
    BY <1>2, <2>1
  <2> QED BY <2>2 DEF b, c
<1>4. GridCounted'
  <2> SUFFICES ASSUME NEW r \in {0, 1}
               PROVE  Cardinality(Between({"err", "trace", "latency"}, InRow(r))')
                        = Cardinality(Between({"err", "trace", "latency"}, InRow(r)))
    BY <1>1, <1>2 DEF GridCounted
  <2> DEFINE P == {"err", "trace", "latency"}
             b == Cardinality(Between(P, InRow(r)))
             c == Cardinality(Between(P, InRow(r))')
  <2>1. session'[s].pc \in P /\ session'[s].ev \in InRow(r)
          <=> session[s].pc \in P /\ session[s].ev \in InRow(r)
    BY <1>2, OnParts
  <2>2. /\ b \in Nat
        /\ c = b + (IF session'[s].pc \in P /\ session'[s].ev \in InRow(r) THEN 1 ELSE 0)
                 - (IF session[s].pc \in P /\ session[s].ev \in InRow(r) THEN 1 ELSE 0)
    BY <1>2, BetweenOne
  <2> HIDE DEF b, c, P
  <2>3. c = b
    BY <2>1, <2>2
  <2> QED BY <2>3 DEF b, c, P
<1> QED BY <1>3, <1>4

LEMMA LatencyCounts ==
    ASSUME VizInv, SessionInv, HeatCounted, GridCounted, NEW s \in Sessions, RecordLatency(s)
    PROVE  HeatCounted' /\ GridCounted'
<1>1. /\ VizInv' /\ viz'.heat = viz.heat /\ Moves(s, "latency", "idle")
      /\ \A c \in Columns, r \in {0, 1} :
            viz'.grid[c][r] = viz.grid[c][r] + IF c = now /\ r = session[s].ev.row THEN 1 ELSE 0
  BY LatencyEffect
<1>2. /\ session[s].pc = "latency" /\ sent' = sent /\ session'[s].pc = "idle"
      /\ \A q \in Sessions \ {s} : session'[q] = session[q]
  BY <1>1 DEF Moves
<1>3. HeatCounted'
  <2> SUFFICES ASSUME NEW i \in DOMAIN HeatEdges
               PROVE  Cardinality(Between({"err"}, On(i))') = Cardinality(Between({"err"}, On(i)))
    BY <1>1, <1>2 DEF HeatCounted
  <2> DEFINE b == Cardinality(Between({"err"}, On(i)))
             c == Cardinality(Between({"err"}, On(i))')
  <2>1. /\ b \in Nat
        /\ c = b + (IF session'[s].pc \in {"err"} /\ session'[s].ev \in On(i) THEN 1 ELSE 0)
                 - (IF session[s].pc \in {"err"} /\ session[s].ev \in On(i) THEN 1 ELSE 0)
    BY <1>2, BetweenOne
  <2> HIDE DEF b, c
  <2>2. c = b
    BY <1>2, <2>1
  <2> QED BY <2>2 DEF b, c
<1>4. GridCounted'
  <2> SUFFICES ASSUME NEW r \in {0, 1}
               PROVE  Total(rowOf(viz'.grid, r), Columns)
                        + Cardinality(Between({"err", "trace", "latency"}, InRow(r))')
                        = Total(sent, InRow(r))
    BY <1>2 DEF GridCounted
  <2> DEFINE P == {"err", "trace", "latency"}
             b == Cardinality(Between(P, InRow(r)))
             c == Cardinality(Between(P, InRow(r))')
             f == rowOf(viz.grid, r)
             g == rowOf(viz'.grid, r)
             hit == r = session[s].ev.row
  <2>1. hit <=> session[s].pc \in P /\ session[s].ev \in InRow(r)
    BY <1>2, OnParts DEF SessionInv
  <2>2. /\ b \in Nat
        /\ c = b + (IF session'[s].pc \in P /\ session'[s].ev \in InRow(r) THEN 1 ELSE 0)
                 - (IF session[s].pc \in P /\ session[s].ev \in InRow(r) THEN 1 ELSE 0)
    BY <1>2, BetweenOne
  <2>3. ~(session'[s].pc \in P)
    BY <1>2
  <2>4. c = b - (IF hit THEN 1 ELSE 0)
    <3> HIDE DEF b, c, P, hit
    <3> QED BY <2>1, <2>2, <2>3
  <2>5. /\ \A x \in Columns : f[x] \in Nat /\ g[x] = f[x] + IF x = now /\ hit THEN 1 ELSE 0
        /\ now \in Columns
    BY <1>1 DEF VizInv, rowOf
  <2>6. IsFiniteSet(Columns) /\ Total(f, Columns) \in Nat
    BY GridTotalType
  <2> HIDE DEF f, g, hit, b, c
  <2>7. Total(g, Columns) = Total(f, Columns) + (IF hit THEN 1 ELSE 0)
    <3>1. CASE hit
      <4>1. g[now] = f[now] + 1 /\ \A x \in Columns : x # now => g[x] = f[x]
        BY <2>5, <3>1
      <4>2. Total(g, Columns) = Total(f, Columns) + 1
        BY <2>5, <2>6, <4>1, TotalBump
      <4> QED BY <3>1, <4>2
    <3>2. CASE ~hit
      <4>1. \A x \in Columns : g[x] = f[x]
        BY <2>5, <3>2
      <4>2. Total(g, Columns) = Total(f, Columns)
        BY <4>1, TotalSame
      <4> QED BY <2>6, <3>2, <4>2
    <3> QED BY <3>1, <3>2
  <2>8. Total(f, Columns) + b = Total(sent, InRow(r))
    BY DEF GridCounted, f, b
  <2>9. Total(g, Columns) + c = Total(sent, InRow(r))
    BY <2>2, <2>4, <2>6, <2>7, <2>8
  <2> QED BY <2>9 DEF g, c
<1> QED BY <1>3, <1>4

LEMMA CountStep ==
    ASSUME ShapeInv, VizInv, SessionInv, CountInv, [Next]_vars
    PROVE  CountInv'
<1>1. exec.pc # "gone" => HeatCounted /\ GridCounted
  BY DEF CountInv, HeatCounted, GridCounted
<1>2. ASSUME HeatCounted', GridCounted' PROVE CountInv'
  BY <1>2 DEF CountInv, HeatCounted, GridCounted
<1>3. CASE SessionStep
  <2>1. exec' = exec
    BY <1>3, SessionLeaves
  <2>2. exec.pc # "gone"
    <3>1. \A s \in Sessions : session[s].pc # "gone" => exec.pc # "gone"
      BY DEF SessionInv
    <3> QED BY <1>3, <3>1 DEF SessionStep, RecordRequest, RecordError, AddTrace, RecordLatency
  <2> QED BY <1>1, <1>2, <1>3, <2>2, RequestCounts, ErrorCounts, TraceCounts, LatencyCounts
          DEF SessionStep
<1>4. CASE Restart
  <2>1. exec'.pc = "gone"
    BY <1>4 DEF Restart, ShapeInv
  <2> QED BY <2>1 DEF CountInv
<1>5. CASE \/ RunStep \/ (EngineStep /\ ~Restart) \/ ReproduceStep \/ ShareStep \/ WatchStep
           \/ CommandStep \/ Tick \/ UNCHANGED vars
  <2>1. UNCHANGED <<viz, session, sent>>
    BY <1>5, CountersStay
  <2>2. exec.pc = "gone" => exec'.pc = "gone"
    <3>1. CASE RunStep
      BY <3>1, ExecMoves DEF Unpersisted
    <3>2. CASE EngineStep /\ ~Restart
      BY <3>2 DEF EngineStep, Stop, Drained, SaveToFile, Crash, runVars
    <3>3. CASE ReproduceStep \/ ShareStep \/ WatchStep \/ CommandStep
      BY <3>3, ReproduceLeaves, ShareLeaves, WatchLeaves, CommandLeaves
    <3>4. CASE Tick \/ UNCHANGED vars
      BY <3>4, TickLeaves
    <3> QED BY <1>5, <3>1, <3>2, <3>3, <3>4
  <2>3. HeatCounted /\ GridCounted => HeatCounted' /\ GridCounted'
    BY <2>1 DEF HeatCounted, GridCounted, Between
  <2> QED BY <1>1, <1>2, <2>2, <2>3 DEF CountInv
<1> QED BY <1>3, <1>4, <1>5, StepKinds DEF EngineStep

LEMMA AscendingTail ==
    ASSUME NEW q \in Seq(Nat), Ascending(q), NEW m \in 0 .. Len(q), NEW s, s = SubSeq(q, m + 1, Len(q))
    PROVE  /\ s \in Seq(Nat) /\ Ascending(s)
           /\ \A k \in DOMAIN s : m + k \in DOMAIN q /\ m + k > m /\ s[k] = q[m + k]
<1> DEFINE n == Len(q)
<1>1. n \in Nat /\ DOMAIN q = 1 .. n /\ m \in 0 .. n
  OBVIOUS
<1>2. s \in Seq(Nat) /\ Len(s) = n - m /\ DOMAIN s = 1 .. n - m
  OBVIOUS
<1>3. \A k \in 1 .. n - m : s[k] = q[m + k]
  OBVIOUS
<1> HIDE DEF n
<1>4. \A k \in DOMAIN s : m + k \in DOMAIN q /\ m + k > m /\ s[k] = q[m + k]
  BY <1>1, <1>2, <1>3
<1>5. Ascending(s)
  <2> SUFFICES ASSUME NEW i \in DOMAIN s, NEW j \in DOMAIN s, i < j PROVE s[i] < s[j]
    BY DEF Ascending
  <2>1. /\ m + i \in DOMAIN q /\ m + j \in DOMAIN q /\ s[i] = q[m + i] /\ s[j] = q[m + j]
        /\ m + i < m + j
    BY <1>1, <1>2, <1>4
  <2> QED BY <2>1 DEF Ascending
<1> QED BY <1>2, <1>4, <1>5

LEMMA AscendingJoin ==
    ASSUME NEW p \in Seq(Nat), Ascending(p), NEW q \in Seq(Nat), Ascending(q),
           NEW a \in Nat, NEW b \in Nat, a <= b,
           \A k \in DOMAIN p : p[k] <= a, \A k \in DOMAIN q : a < q[k] /\ q[k] <= b
    PROVE  /\ p \o q \in Seq(Nat) /\ Ascending(p \o q)
           /\ \A k \in DOMAIN (p \o q) : (p \o q)[k] <= b
<1> DEFINE n == Len(p)
           m == Len(q)
           s == p \o q
<1>1. n \in Nat /\ m \in Nat /\ DOMAIN p = 1 .. n /\ DOMAIN q = 1 .. m
  OBVIOUS
<1>2. s \in Seq(Nat) /\ DOMAIN s = 1 .. n + m
  OBVIOUS
<1>3. \A k \in 1 .. n + m : /\ k <= n => s[k] = p[k]
                            /\ k > n => s[k] = q[k - n]
  OBVIOUS
<1> HIDE DEF n, m, s
<1>4. \A k \in 1 .. n + m : /\ k <= n => k \in DOMAIN p /\ p[k] \in Nat
                            /\ k > n => k - n \in DOMAIN q /\ q[k - n] \in Nat
  BY <1>1
<1>5. /\ \A k \in 1 .. n + m : k <= n => s[k] \in Nat /\ s[k] <= a /\ s[k] <= b
      /\ \A k \in 1 .. n + m : k > n => s[k] \in Nat /\ a < s[k] /\ s[k] <= b
  <2>1. ASSUME NEW k \in 1 .. n + m, k <= n PROVE s[k] \in Nat /\ s[k] <= a /\ s[k] <= b
    <3>1. s[k] = p[k] /\ p[k] \in Nat /\ p[k] <= a
      BY <1>3, <1>4, <2>1
    <3> QED BY <3>1
  <2>2. ASSUME NEW k \in 1 .. n + m, k > n PROVE s[k] \in Nat /\ a < s[k] /\ s[k] <= b
    <3>1. s[k] = q[k - n] /\ q[k - n] \in Nat /\ a < q[k - n] /\ q[k - n] <= b
      BY <1>3, <1>4, <2>2
    <3> QED BY <3>1
  <2> QED BY <2>1, <2>2
<1>6. Ascending(s)
  <2> SUFFICES ASSUME NEW i \in DOMAIN s, NEW j \in DOMAIN s, i < j PROVE s[i] < s[j]
    BY DEF Ascending
  <2>0. i \in 1 .. n + m /\ j \in 1 .. n + m
    BY <1>2
  <2>1. CASE j <= n
    <3>1. i \in DOMAIN p /\ j \in DOMAIN p /\ s[i] = p[i] /\ s[j] = p[j]
      BY <1>1, <1>3, <1>4, <2>0, <2>1
    <3> QED BY <3>1 DEF Ascending
  <2>2. CASE i <= n /\ j > n
    BY <1>5, <2>0, <2>2
  <2>3. CASE i > n /\ j > n
    <3>1. /\ i - n \in DOMAIN q /\ j - n \in DOMAIN q /\ s[i] = q[i - n] /\ s[j] = q[j - n]
          /\ i - n < j - n
      BY <1>1, <1>3, <1>4, <2>0, <2>3
    <3> QED BY <3>1 DEF Ascending
  <2> QED BY <1>1, <2>0, <2>1, <2>2, <2>3
<1>7. \A k \in DOMAIN s : s[k] <= b
  BY <1>1, <1>2, <1>5
<1> QED BY <1>2, <1>6, <1>7 DEF s

\* The entries that are not new come first.
Old(ring, seq) == {k \in DOMAIN ring : ring[k] <= seq}

LEMMA OldFirst ==
    ASSUME NEW ring \in Seq(Nat), Ascending(ring), NEW seq \in Nat
    PROVE  /\ Cardinality(Old(ring, seq)) \in 0 .. Len(ring)
           /\ \A k \in DOMAIN ring : k > Cardinality(Old(ring, seq)) => seq < ring[k]
<1> DEFINE n == Len(ring)
           old == Old(ring, seq)
           m == Cardinality(old)
<1>1. n \in Nat /\ DOMAIN ring = 1 .. n /\ \A k \in 1 .. n : ring[k] \in Nat
  OBVIOUS
<1> HIDE DEF n
<1>2. old \in SUBSET (1 .. n) /\ \A k \in 1 .. n : k \in old <=> ring[k] <= seq
  BY <1>1 DEF Old
<1> HIDE DEF old
<1>3. IsFiniteSet(old) /\ m \in Nat /\ m <= n
  <2>1. IsFiniteSet(1 .. n) /\ Cardinality(1 .. n) = n
    BY <1>1, FS_Interval
  <2> QED BY <1>2, <2>1, FS_Subset, FS_CardinalityType
<1> HIDE DEF m
<1>4. ASSUME NEW k \in 1 .. n, k > m, ~(seq < ring[k]) PROVE FALSE
  <2>1. ring[k] <= seq /\ k \in Nat
    BY <1>1, <1>4
  <2>2. \A j \in 1 .. k : j \in old
    <3> SUFFICES ASSUME NEW j \in 1 .. k PROVE j \in old
      OBVIOUS
    <3>1. j \in 1 .. n /\ (j = k \/ j < k)
      BY <1>1
    <3>2. j = k \/ ring[j] < ring[k]
      BY <1>1, <3>1 DEF Ascending
    <3>3. ring[j] <= seq
      BY <1>1, <2>1, <3>1, <3>2
    <3> QED BY <1>2, <3>1, <3>3
  <2>3. 1 .. k \in SUBSET old
    BY <2>2
  <2>4. Cardinality(1 .. k) = k
    BY <2>1, FS_Interval
  <2>5. Cardinality(1 .. k) <= m
    BY <1>3, <2>3, FS_Subset DEF m
  <2> QED BY <1>3, <1>4, <2>1, <2>4, <2>5
<1> QED BY <1>1, <1>3, <1>4 DEF n, m, old

(***************************************************************************)
(* The streams                                                             *)
(***************************************************************************)
LEMMA WatchersAre ==
    /\ Watchers = {"trace", "heat", "latency", "stats"} /\ Watchers \subseteq Clients
    /\ Watchers \cap Reproducers = {} /\ "viewer" \notin Watchers /\ "cli" \notin Watchers
BY DEF Watchers, Clients, Reproducers

\* Only the streams' own steps and a restart change what a stream holds.
LEMMA StreamsAlone ==
    ASSUME ShapeInv, ~WatchStep, ~Restart, [Next]_vars, NEW c \in Watchers
    PROVE  at'[c] = at[c]
<1>1. CASE SessionStep
  BY <1>1, SessionLeaves
<1>2. CASE RunStep
  BY <1>2, RunLeaves
<1>3. CASE EngineStep
  BY <1>3 DEF EngineStep, Stop, Drained, SaveToFile, Crash, clientVars
<1>4. CASE ReproduceStep
  BY <1>4, ReproduceLeaves, WatchersAre
<1>5. CASE ShareStep
  BY <1>5, ShareLeaves, WatchersAre
<1>6. CASE CommandStep
  BY <1>6, CommandLeaves, WatchersAre
<1>7. CASE Tick \/ UNCHANGED vars
  BY <1>7, TickLeaves
<1> QED BY <1>1, <1>2, <1>3, <1>4, <1>5, <1>6, <1>7, StepKinds

\* A restart leaves no stream.
LEMMA RestartEndsStreams ==
    ASSUME Restart, NEW c \in Watchers
    PROVE  at'[c].pc \in {"idle", "exited"}
BY WatchersAre DEF Restart, Idle

\* A stream that opens or is hung up, and one that has looked at the status.
Opened(d) ==
    \/ at'[d] = [pc |-> "closed"]
    \/ d = "stats" /\ at'[d] = [pc |-> "tick"]
    \/ at'[d] = [pc |-> "tick", last |-> 0, got |-> << >>]

LEMMA OpensOne ==
    ASSUME ShapeInv, NEW c \in Watchers, Open(c) \/ Hangup(c), NEW d \in Watchers
    PROVE  at'[d] = at[d] \/ Opened(d)
<1>0. c \in Clients
  BY WatchersAre
<1>1. CASE Open(c)
  <2> DEFINE r == CASE c = "stats" -> [pc |-> "tick"]
                    [] c # "stats" /\ (~spec.trace \/ (c = "trace" /\ ~spec.small)) ->
                         [pc |-> "closed"]
                    [] OTHER -> [pc |-> "tick", last |-> 0, got |-> <<>>]
  <2>1. at' = [at EXCEPT ![c] = r]
    BY <1>1 DEF Open
  <2>2. \/ r = [pc |-> "closed"]
        \/ c = "stats" /\ r = [pc |-> "tick"]
        \/ r = [pc |-> "tick", last |-> 0, got |-> <<>>]
    OBVIOUS
  <2> HIDE DEF r
  <2>3. at'[d] = at[d] \/ (d = c /\ at'[d] = r)
    BY <1>0, <2>1 DEF ShapeInv
  <2> QED BY <2>2, <2>3 DEF Opened
<1>2. CASE Hangup(c)
  <2> DEFINE r == [pc |-> "closed"]
  <2>1. at' = [at EXCEPT ![c] = r]
    BY <1>2 DEF Hangup
  <2> HIDE DEF r
  <2>2. at'[d] = at[d] \/ at'[d] = r
    BY <1>0, <2>1 DEF ShapeInv
  <2> QED BY <2>2 DEF Opened, r
<1> QED BY <1>1, <1>2

LEMMA LooksOne ==
    ASSUME ShapeInv, NEW c \in Watchers, HeatStatus(c), NEW d \in Watchers
    PROVE  \/ at'[d] = at[d]
           \/ /\ d \in {"heat", "latency"}
              /\ at'[d] = [pc |-> "snapshot", done |-> over, frame |-> <<>>, req |-> 0]
<1> DEFINE r == [pc |-> "snapshot", done |-> over, frame |-> <<>>, req |-> 0]
<1>1. at' = [at EXCEPT ![c] = r] /\ c \in Clients /\ c \in {"heat", "latency"}
  BY WatchersAre DEF HeatStatus
<1> HIDE DEF r
<1>2. at'[d] = at[d] \/ (d = c /\ at'[d] = r)
  BY <1>1 DEF ShapeInv
<1> QED BY <1>1, <1>2 DEF r

\* A final status stays.
LEMMA OverStays ==
    ASSUME ShapeInv, EndInv, over, [Next]_vars
    PROVE  rs'.status = rs.status
<1>1. CASE SessionStep
  BY <1>1, SessionLeaves DEF ShapeInv
<1>2. CASE RunStep
  <2>1. CASE Finalize
    <3>1. rs.status = "killed"
      BY <2>1 DEF Finalize, EndInv, Unfinished, over, Terminal
    <3>2. FinalStatus = "killed"
      BY <3>1 DEF FinalStatus
    <3> QED BY <2>1, <3>1, <3>2 DEF Finalize, ShapeInv
  <2>2. CASE killRun
    BY <2>2 DEF killRun, over, Terminal
  <2>3. CASE ~Finalize /\ ~killRun
    <3>1. rs' = rs \/ \E x, y : rs' = [rs EXCEPT !.findings = x, !.class = y]
      BY <1>2, <2>3 DEF RunStep, EndRun, Classify, Capture, Persist, Evict, runVars
    <3> QED BY <3>1 DEF ShapeInv
  <2> QED BY <2>1, <2>2, <2>3
<1>3. CASE EngineStep
  <2>1. rs' = rs \/ \E x : rs' = [rs EXCEPT !.cancelled = x]
    BY <1>3 DEF EngineStep, Stop, Drained, SaveToFile, Crash, Restart, runVars
  <2> QED BY <2>1 DEF ShapeInv
<1>4. CASE ReproduceStep
  BY <1>4, ReproduceLeaves DEF ShapeInv
<1>5. CASE ShareStep \/ WatchStep \/ CommandStep \/ Tick \/ UNCHANGED vars
  BY <1>5, ShareLeaves, WatchLeaves, CommandLeaves, TickLeaves
<1> QED BY <1>1, <1>2, <1>3, <1>4, <1>5, StepKinds

\* The counters of a run that ended stay.
LEMMA CountersSettle ==
    ASSUME ShapeInv, EndInv, SessionInv, [Next]_vars, over
    PROVE  /\ rs'.status = rs.status /\ over' /\ (Ended' <=> Ended)
           /\ Ended => viz' = viz
<1>1. rs'.status = rs.status
  BY OverStays
<1>2. over' /\ (Ended' <=> Ended)
  BY <1>1 DEF over, Ended
<1>3. ASSUME Ended PROVE viz' = viz
  <2>1. CASE SessionStep
    <3>1. ASSUME exec.pc = "run" PROVE FALSE
      BY <1>3, <3>1 DEF EndInv, Unfinished, Ended
    <3> QED BY <2>1, <3>1
            DEF SessionStep, RecordRequest, RecordError, AddTrace, RecordLatency, SessionInv
  <2>2. CASE Restart
    BY <2>2 DEF Restart
  <2> QED BY <2>1, <2>2, CountersStay, StepKinds DEF EngineStep
<1> QED BY <1>1, <1>2, <1>3

LEMMA StreamStep ==
    ASSUME ShapeInv, EndInv, StreamInv, [Next]_vars
    PROVE  StreamInv'
<1>1. CASE Restart
  BY <1>1, RestartEndsStreams DEF StreamInv
<1>2. CASE ~Restart
  <2>1. exec'.pc = "gone" => exec.pc = "gone"
    <3>1. CASE SessionStep \/ ReproduceStep \/ ShareStep \/ WatchStep \/ CommandStep \/ Tick
               \/ UNCHANGED vars
      BY <3>1, SessionLeaves, ReproduceLeaves, ShareLeaves, WatchLeaves, CommandLeaves, TickLeaves
    <3>2. CASE RunStep
      BY <3>2, ExecMoves
    <3>3. CASE EngineStep
      BY <1>2, <3>3 DEF EngineStep, Stop, Drained, SaveToFile, Crash, runVars
    <3> QED BY <3>1, <3>2, <3>3, StepKinds
  <2>2. CASE ~WatchStep
    BY <1>2, <2>1, <2>2, StreamsAlone DEF StreamInv
  <2>3. CASE WatchStep
    <3> SUFFICES ASSUME exec'.pc = "gone", NEW c \in Watchers PROVE at'[c].pc \in {"idle", "exited"}
      BY DEF StreamInv
    <3>1. ~cache.run /\ \A d \in Watchers : at[d].pc \in {"idle", "exited"}
      BY <2>1 DEF StreamInv, EndInv
    <3>2. FALSE
      BY <2>3, <3>1, WatchersAre DEF WatchStep, Open, Hangup, HeatStatus, LastStats, TraceSince,
         TraceStatus, HeatSnapshot, LatencySnapshot
    <3> QED BY <3>2
  <2> QED BY <2>2, <2>3
<1> QED BY <1>1, <1>2

LEMMA StatsStep ==
    ASSUME ShapeInv, EndInv, StatsInv, [Next]_vars
    PROVE  StatsInv'
<1>0. "stats" \in Watchers /\ "stats" \in Clients
  BY WatchersAre
<1>1. CASE Restart
  <2>1. at'["stats"].pc \in {"idle", "exited"}
    BY <1>0, <1>1, RestartEndsStreams
  <2> QED BY <2>1 DEF StatsInv
<1>2. CASE LastStats
  <2> DEFINE r == [pc |-> "final", status |-> rs.status, total |-> rs.total]
  <2>1. at' = [at EXCEPT !["stats"] = r] /\ exec.pc = "done" /\ exec' = exec /\ outcome' = outcome
    BY <1>2 DEF LastStats, runVars
  <2>2. at'["stats"] = r
    BY <1>0, <2>1 DEF ShapeInv
  <2>3. at'["stats"].status = rs.status
    BY <2>2
  <2>4. outcome.status = rs.status
    BY <2>1 DEF EndInv
  <2> HIDE DEF r
  <2> QED BY <2>1, <2>3, <2>4 DEF StatsInv
<1>3. CASE ~Restart /\ ~LastStats
  <2>1. at'["stats"].pc = "final" => at'["stats"] = at["stats"]
    <3>1. CASE ~WatchStep
      BY <1>0, <1>3, <3>1, StreamsAlone
    <3>2. ASSUME NEW c \in Watchers, Open(c) \/ Hangup(c) PROVE <2>1
      <4>1. at'["stats"] = at["stats"] \/ Opened("stats")
        BY <1>0, <3>2, OpensOne
      <4> QED BY <4>1 DEF Opened
    <3>3. ASSUME NEW c \in Watchers, HeatStatus(c) PROVE <2>1
      BY <1>0, <3>3, LooksOne
    <3>4. CASE TraceSince \/ TraceStatus \/ HeatSnapshot \/ LatencySnapshot
      <4>1. \E r : \E c \in {"trace", "heat", "latency"} : at' = [at EXCEPT ![c] = r]
        BY <3>4 DEF TraceSince, TraceStatus, HeatSnapshot, LatencySnapshot, SendFrame
      <4> QED BY <4>1
    <3> QED BY <1>3, <3>1, <3>2, <3>3, <3>4 DEF WatchStep
  <2>2. exec.pc = "done" => exec'.pc = "done" /\ outcome' = outcome
    <3>1. CASE SessionStep \/ ReproduceStep \/ ShareStep \/ WatchStep \/ CommandStep \/ Tick
               \/ UNCHANGED vars
      BY <3>1, SessionLeaves, ReproduceLeaves, ShareLeaves, WatchLeaves, CommandLeaves, TickLeaves
    <3>2. CASE RunStep
      BY <3>2 DEF RunStep, EndRun, Classify, Finalize, Capture, Persist, killRun, Evict, runVars
    <3>3. CASE EngineStep
      BY <1>3, <3>3 DEF EngineStep, Stop, Drained, SaveToFile, Crash, runVars
    <3> QED BY <3>1, <3>2, <3>3, StepKinds
  <2> QED BY <2>1, <2>2 DEF StatsInv
<1> QED BY <1>1, <1>2, <1>3

LEMMA LatencyStep ==
    ASSUME ShapeInv, EndInv, SessionInv, LatencyInv, [Next]_vars
    PROVE  LatencyInv'
<1>0. "latency" \in Watchers /\ "latency" \in Clients
  BY WatchersAre
<1>1. ASSUME at'["latency"] = at["latency"] PROVE LatencyInv'
  <2>1. over => over' /\ (Ended' => Ended) /\ (Ended => snapshot' = snapshot)
    BY CountersSettle DEF snapshot
  <2> QED BY <1>1, <2>1 DEF LatencyInv
<1>2. ASSUME at'["latency"].pc \notin {"snapshot", "final"} PROVE LatencyInv'
  BY <1>2 DEF LatencyInv
<1>3. CASE Restart
  <2>1. at'["latency"].pc \in {"idle", "exited"}
    BY <1>0, <1>3, RestartEndsStreams
  <2> QED BY <1>2, <2>1
<1>4. CASE ~Restart /\ ~WatchStep
  BY <1>0, <1>1, <1>4, StreamsAlone
<1>5. CASE WatchStep
  <2>0. rs' = rs /\ viz' = viz /\ over' = over /\ Ended' = Ended /\ snapshot' = snapshot
    <3>1. rs' = rs /\ viz' = viz
      BY <1>5, WatchLeaves, CountersStay
    <3> QED BY <3>1 DEF over, Ended, snapshot
  <2>1. ASSUME NEW c \in Watchers, Open(c) \/ Hangup(c) PROVE LatencyInv'
    <3>1. at'["latency"] = at["latency"] \/ Opened("latency")
      BY <1>0, <2>1, OpensOne
    <3>2. Opened("latency") => at'["latency"].pc \notin {"snapshot", "final"}
      BY DEF Opened
    <3> QED BY <1>1, <1>2, <3>1, <3>2
  <2>2. ASSUME NEW c \in Watchers, HeatStatus(c) PROVE LatencyInv'
    <3> DEFINE r == [pc |-> "snapshot", done |-> over, frame |-> <<>>, req |-> 0]
    <3>1. at'["latency"] = at["latency"] \/ at'["latency"] = r
      BY <1>0, <2>2, LooksOne
    <3>2. r.pc = "snapshot" /\ (r.done => over)
      OBVIOUS
    <3> HIDE DEF r
    <3> QED BY <1>1, <2>0, <3>1, <3>2 DEF LatencyInv
  <2>3. CASE LastStats \/ TraceSince \/ TraceStatus \/ HeatSnapshot
    <3>1. \E r : \E c \in {"stats", "trace", "heat"} : at' = [at EXCEPT ![c] = r]
      BY <2>3 DEF LastStats, TraceSince, TraceStatus, HeatSnapshot, SendFrame
    <3>2. at'["latency"] = at["latency"]
      BY <3>1
    <3> QED BY <1>1, <3>2
  <2>4. CASE LatencySnapshot
    <3> DEFINE r == [pc |-> "final", frame |-> snapshot]
               q == [pc |-> "tick", last |-> 0, got |-> <<>>]
    <3>1. /\ at["latency"].pc = "snapshot"
          /\ IF at["latency"].done THEN at' = [at EXCEPT !["latency"] = r]
             ELSE at' = [at EXCEPT !["latency"] = q]
      BY <2>4 DEF LatencySnapshot, SendFrame
    <3>2. r.pc = "final" /\ r.frame = snapshot /\ q.pc = "tick"
      OBVIOUS
    <3> HIDE DEF r, q
    <3>3. at["latency"].done => over
      BY <3>1 DEF LatencyInv
    <3>4. CASE at["latency"].done
      <4>1. at'["latency"] = r
        BY <1>0, <3>1, <3>4 DEF ShapeInv
      <4> QED BY <2>0, <3>2, <3>3, <3>4, <4>1 DEF LatencyInv
    <3>5. CASE ~at["latency"].done
      <4>1. at'["latency"] = q
        BY <1>0, <3>1, <3>5 DEF ShapeInv
      <4> QED BY <1>2, <3>2, <4>1
    <3> QED BY <3>4, <3>5
  <2> QED BY <1>5, <2>1, <2>2, <2>3, <2>4 DEF WatchStep
<1> QED BY <1>3, <1>4, <1>5

\* What is new in the ring: in order, and after what was delivered.
LEMMA SinceExact ==
    ASSUME VizInv, NEW seq \in Nat
    PROVE  /\ since(seq) \in Seq(Nat) /\ Ascending(since(seq))
           /\ \A k \in DOMAIN since(seq) : seq < since(seq)[k] /\ since(seq)[k] <= viz.seq
<1> DEFINE ring == viz.ring
           m == Cardinality(Old(ring, seq))
           s == since(seq)
<1>1. /\ ring \in Seq(Nat) /\ Ascending(ring) /\ viz.seq \in Nat
      /\ \A k \in DOMAIN ring : ring[k] <= viz.seq
  BY DEF VizInv
<1>2. s = SubSeq(ring, m + 1, Len(ring))
  BY DEF since, Old
<1> HIDE DEF ring, s
<1>3. m \in 0 .. Len(ring) /\ \A k \in DOMAIN ring : k > m => seq < ring[k]
  <2> HIDE DEF m
  <2> QED BY <1>1, OldFirst DEF m
<1> HIDE DEF m
<1>4. /\ s \in Seq(Nat) /\ Ascending(s)
      /\ \A k \in DOMAIN s : m + k \in DOMAIN ring /\ m + k > m /\ s[k] = ring[m + k]
  BY <1>1, <1>2, <1>3, AscendingTail
<1>5. \A k \in DOMAIN s : seq < s[k] /\ s[k] <= viz.seq
  BY <1>1, <1>3, <1>4
<1> QED BY <1>4, <1>5 DEF s

LEMMA TraceStep ==
    ASSUME ShapeInv, VizInv, VizInv', SessionInv, TraceInv, [Next]_vars
    PROVE  TraceInv'
<1>0. "trace" \in Watchers /\ "trace" \in Clients
  BY WatchersAre
<1>1. viz'.seq \in Nat /\ viz.seq \in Nat /\ viz'.seq >= viz.seq
  <2>1. CASE SessionStep
    <3>1. ASSUME NEW s \in Sessions, NEW e \in Events, RecordRequest(s, e) PROVE viz'.seq = viz.seq
      BY <3>1, RequestEffect DEF RequestCounted
    <3>2. ASSUME NEW s \in Sessions, RecordError(s) \/ RecordLatency(s) PROVE viz'.seq = viz.seq
      BY <3>2 DEF RecordError, RecordLatency, VizInv
    <3> QED BY <2>1, <3>1, <3>2, TraceEffect DEF SessionStep, VizInv
  <2>2. CASE ~SessionStep
    <3>1. viz' = viz
      BY <2>2, CountersStay, StepKinds DEF EngineStep, Restart
    <3> QED BY <3>1 DEF VizInv
  <2> QED BY <2>1, <2>2
<1>2. ASSUME at'["trace"] = at["trace"] PROVE TraceInv'
  BY <1>1, <1>2 DEF TraceInv, Ascending
<1>3. ASSUME at'["trace"].pc \notin {"tick", "status", "final"} PROVE TraceInv'
  BY <1>3 DEF TraceInv
<1>4. CASE Restart
  <2>1. at'["trace"].pc \in {"idle", "exited"}
    BY <1>0, <1>4, RestartEndsStreams
  <2> QED BY <1>3, <2>1
<1>5. CASE ~Restart /\ ~WatchStep
  BY <1>0, <1>2, <1>5, StreamsAlone
<1>6. CASE WatchStep
  <2>1. ASSUME NEW c \in Watchers, Open(c) \/ Hangup(c) PROVE TraceInv'
    <3>1. at'["trace"] = at["trace"] \/ Opened("trace")
      BY <1>0, <2>1, OpensOne
    <3>2. CASE at'["trace"] = [pc |-> "tick", last |-> 0, got |-> <<>>]
      <4>1. 0 <= viz'.seq /\ Ascending(<<>>) /\ << >> \in Seq(Nat) /\ DOMAIN << >> = {}
        BY <1>1 DEF Ascending
      <4> QED BY <3>2, <4>1 DEF TraceInv, Ascending
    <3>3. CASE at'["trace"] = [pc |-> "closed"]
      BY <1>3, <3>3
    <3> QED BY <1>2, <3>1, <3>2, <3>3 DEF Opened
  <2>2. ASSUME NEW c \in Watchers, HeatStatus(c) PROVE TraceInv'
    BY <1>0, <1>2, <2>2, LooksOne
  <2>3. CASE LastStats \/ HeatSnapshot \/ LatencySnapshot
    <3>1. \E r : \E c \in {"stats", "heat", "latency"} : at' = [at EXCEPT ![c] = r]
      BY <2>3 DEF LastStats, HeatSnapshot, LatencySnapshot, SendFrame
    <3>2. at'["trace"] = at["trace"]
      BY <3>1
    <3> QED BY <1>2, <3>2
  <2>4. CASE TraceStatus
    <3> DEFINE h == at["trace"]
    <3>1. /\ h = [pc |-> h.pc, got |-> h.got, last |-> h.last]
          /\ at' = [at EXCEPT !["trace"].pc = IF over THEN "final" ELSE "tick"]
      BY <2>4 DEF TraceStatus, TraceInv
    <3>2. \E pc : at'["trace"] = [pc |-> pc, got |-> h.got, last |-> h.last]
      BY <1>0, <3>1 DEF ShapeInv
    <3>3. /\ h.last \in Nat /\ h.last <= viz.seq /\ h.got \in Seq(Nat) /\ Ascending(h.got)
          /\ \A k \in DOMAIN h.got : h.got[k] <= h.last
      BY <2>4 DEF TraceStatus, TraceInv
    <3>4. /\ at'["trace"].got = h.got /\ at'["trace"].last = h.last
          /\ at'["trace"] = [pc |-> at'["trace"].pc, got |-> h.got, last |-> h.last]
      BY <3>2
    <3> HIDE DEF h
    <3> QED BY <1>1, <3>3, <3>4 DEF TraceInv, Ascending
  <2>5. CASE TraceSince
    <3> DEFINE h == at["trace"]
               evs == since(h.last)
               r == [pc |-> "status", got |-> h.got \o evs,
                     last |-> IF evs = <<>> THEN h.last ELSE Last(evs)]
    <3>1. at' = [at EXCEPT !["trace"] = r] /\ h.pc = "tick"
      BY <2>5 DEF TraceSince
    <3>2. /\ h.last \in Nat /\ h.last <= viz.seq /\ h.got \in Seq(Nat) /\ Ascending(h.got)
          /\ \A k \in DOMAIN h.got : h.got[k] <= h.last
      BY <3>1 DEF TraceInv
    <3> HIDE DEF h
    <3>3. /\ evs \in Seq(Nat) /\ Ascending(evs)
          /\ \A k \in DOMAIN evs : h.last < evs[k] /\ evs[k] <= viz.seq
      BY <3>2, SinceExact
    <3>4. /\ at'["trace"] = r /\ r = [pc |-> r.pc, got |-> r.got, last |-> r.last]
          /\ r.got = h.got \o evs /\ r.last = IF evs = <<>> THEN h.last ELSE Last(evs)
      BY <1>0, <3>1 DEF ShapeInv
    <3> HIDE DEF r, evs
    <3>5. /\ r.last \in Nat /\ h.last <= r.last /\ r.last <= viz.seq
          /\ \A k \in DOMAIN evs : evs[k] <= r.last
      <4>1. CASE evs = <<>>
        BY <3>2, <3>4, <4>1
      <4>2. CASE evs # <<>>
        <5>1. Len(evs) \in DOMAIN evs /\ r.last = evs[Len(evs)] /\ DOMAIN evs = 1 .. Len(evs)
              /\ Len(evs) \in Nat
          BY <3>3, <3>4, <4>2 DEF Last
        <5>2. \A k \in DOMAIN evs : k < Len(evs) \/ k = Len(evs)
          BY <5>1
        <5>3. \A k \in DOMAIN evs : evs[k] <= r.last
          BY <3>3, <5>1, <5>2 DEF Ascending
        <5>4. h.last < r.last /\ r.last <= viz.seq /\ r.last \in Nat
          BY <3>3, <5>1
        <5> QED BY <3>2, <5>3, <5>4
      <4> QED BY <4>1, <4>2
    <3>6. r.got \in Seq(Nat) /\ Ascending(r.got) /\ \A k \in DOMAIN r.got : r.got[k] <= r.last
      BY <1>1, <3>2, <3>3, <3>4, <3>5, AscendingJoin
    <3>7. /\ at'["trace"] = [pc |-> at'["trace"].pc, got |-> at'["trace"].got,
                             last |-> at'["trace"].last]
          /\ at'["trace"].last = r.last /\ at'["trace"].got = r.got
      BY <3>4
    <3>8. r.last \in Nat /\ r.last <= viz'.seq
      BY <1>1, <3>5
    <3>9. at'["trace"].last \in Nat /\ at'["trace"].last <= viz'.seq
      BY <3>7, <3>8
    <3>10. /\ at'["trace"].got \in Seq(Nat) /\ Ascending(at'["trace"].got)
           /\ \A k \in DOMAIN at'["trace"].got : at'["trace"].got[k] <= at'["trace"].last
      BY <3>6, <3>7
    <3> QED BY <3>7, <3>9, <3>10 DEF TraceInv, Ascending
  <2> QED BY <1>6, <2>1, <2>2, <2>3, <2>4, <2>5 DEF WatchStep
<1> QED BY <1>4, <1>5, <1>6

\* The counters of the edges, and what the heatmap client has cut of them.
LEMMA HeatCounters ==
    ASSUME VizInv
    PROVE  \A i \in DOMAIN HeatEdges :
              /\ viz.heat[i] = [req |-> viz.heat[i].req, err |-> viz.heat[i].err]
              /\ viz.heat[i].req \in Nat /\ viz.heat[i].err \in Nat
BY DEF VizInv

\* An edge without requests has no errors.
LEMMA NoRequestNoError ==
    ASSUME VizInv, CountInv, exec.pc # "gone", NEW i \in DOMAIN HeatEdges, viz.heat[i].req = 0
    PROVE  viz.heat[i] = [req |-> 0, err |-> 0]
<1>1. On(i) \in SUBSET Events /\ FailedOn(i) \in SUBSET On(i) /\ IsFiniteSet(Events)
  BY OnParts, FrameInputs
<1>2. IsFiniteSet(On(i)) /\ IsFiniteSet(FailedOn(i))
  BY <1>1, FS_Subset
<1>3. \A e \in On(i) : sent[e] \in Nat
  BY <1>1 DEF VizInv
<1>4. \A e \in FailedOn(i) : sent[e] \in Nat
  BY <1>1, <1>3
<1>5. Total(sent, FailedOn(i)) <= Total(sent, On(i))
  BY <1>1, <1>2, <1>3, TotalSubset
<1>6. Total(sent, FailedOn(i)) \in Nat
  BY <1>2, <1>4, TotalType
<1>7. Cardinality(Between({"err"}, On(i))) \in Nat
  <2>1. Between({"err"}, On(i)) \in SUBSET Sessions
    BY DEF Between
  <2> QED BY <2>1, FrameInputs, FS_Subset, FS_CardinalityType
<1>8. /\ viz.heat[i].req = Total(sent, On(i))
      /\ viz.heat[i].err + Cardinality(Between({"err"}, On(i))) = Total(sent, FailedOn(i))
  BY DEF CountInv
<1>9. viz.heat[i] = [req |-> viz.heat[i].req, err |-> viz.heat[i].err] /\ viz.heat[i].err \in Nat
  BY HeatCounters
<1>10. viz.heat[i].err = 0
  BY <1>5, <1>6, <1>7, <1>8, <1>9
<1> QED BY <1>9, <1>10

\* One step of cutting the frame, edge by edge: requests, then errors.
LEMMA SnapshotStep ==
    ASSUME ShapeInv, VizInv, CountInv, StreamInv, HeatInv, HeatSnapshot,
           viz' = viz, over' <=> over, Ended' <=> Ended
    PROVE  HeatInv'
<1> DEFINE h == at["heat"]
           i == Len(h.frame) + 1
           asked == [pc |-> "errors", done |-> h.done, frame |-> h.frame, req |-> viz.heat[i].req]
           edge == IF h.req = 0 THEN [req |-> 0, err |-> 0]
                   ELSE [req |-> h.req, err |-> viz.heat[i].err]
           added == [pc |-> "snapshot", done |-> h.done, frame |-> Append(h.frame, edge),
                     req |-> h.req]
           last == [pc |-> "final", frame |-> h.frame]
           again == [pc |-> "tick", last |-> 0, got |-> << >>]
<1>0. "heat" \in Watchers /\ "heat" \in Clients
  BY WatchersAre
<1>1. h.pc \in {"snapshot", "errors"} /\ Cutting(h)
  BY DEF HeatSnapshot, HeatInv
<1>2. exec.pc # "gone"
  BY <1>0, <1>1 DEF StreamInv
<1>3. /\ h.frame \in Seq([req : Nat, err : Nat]) /\ Len(h.frame) \in Nat
      /\ DOMAIN h.frame = 1 .. Len(h.frame) /\ i \in Nat \ {0}
  BY <1>1 DEF Cutting
<1>4. Len(HeatEdges) \in Nat /\ DOMAIN HeatEdges = 1 .. Len(HeatEdges)
  BY FrameInputs
<1>5. CASE h.pc = "snapshot" /\ i <= Len(HeatEdges)
           /\ at' = [at EXCEPT !["heat"].pc = "errors", !["heat"].req = viz.heat[i].req]
  <2>1. at'["heat"] = asked
    BY <1>0, <1>1, <1>5 DEF ShapeInv, Cutting
  <2>2. i \in DOMAIN HeatEdges
    BY <1>3, <1>4, <1>5
  <2>3. viz.heat[i].req \in Nat
    BY <2>2, HeatCounters
  <2>4. /\ asked = [pc |-> asked.pc, done |-> asked.done, frame |-> asked.frame, req |-> asked.req]
        /\ asked.pc = "errors" /\ asked.done = h.done /\ asked.frame = h.frame
        /\ asked.req = viz.heat[Len(h.frame) + 1].req
    OBVIOUS
  <2> HIDE DEF asked
  <2>5. Len(asked.frame) < Len(HeatEdges) /\ asked.req \in Nat
    BY <1>3, <1>4, <1>5, <2>3, <2>4
  <2>6. Cutting(asked)
    BY <1>1, <2>4, <2>5 DEF Cutting
  <2> QED BY <2>1, <2>4, <2>6 DEF HeatInv, Cutting
<1>6. CASE h.pc = "errors"
           /\ at' = [at EXCEPT !["heat"].pc = "snapshot", !["heat"].frame = Append(h.frame, edge)]
  <2>1. at'["heat"] = added
    BY <1>0, <1>1, <1>6 DEF ShapeInv, Cutting
  <2>2. i \in DOMAIN HeatEdges
    BY <1>1, <1>3, <1>4, <1>6 DEF Cutting
  <2>3. h.req \in Nat /\ viz.heat[i].err \in Nat
    BY <1>1, <2>2, HeatCounters DEF Cutting
  <2>4. edge \in [req : Nat, err : Nat]
    BY <2>3
  <2>5. ASSUME h.done, Ended PROVE edge = viz.heat[i]
    <3>1. h.req = viz.heat[i].req
      BY <1>1, <1>6, <2>5 DEF Cutting
    <3>2. CASE h.req = 0
      BY <1>2, <2>2, <3>1, <3>2, NoRequestNoError
    <3>3. CASE h.req # 0
      BY <2>2, <3>1, <3>3, HeatCounters
    <3> QED BY <3>2, <3>3
  <2> HIDE DEF edge
  <2>6. /\ added.frame \in Seq([req : Nat, err : Nat]) /\ Len(added.frame) = i
        /\ DOMAIN added.frame = 1 .. i /\ added.frame[i] = edge
        /\ \A k \in 1 .. Len(h.frame) : added.frame[k] = h.frame[k]
    BY <1>3, <2>4
  <2>7. /\ added = [pc |-> added.pc, done |-> added.done, frame |-> added.frame, req |-> added.req]
        /\ added.pc = "snapshot" /\ added.done = h.done /\ added.req = h.req
    OBVIOUS
  <2> HIDE DEF added
  <2>8. \A k \in 1 .. i : k \in 1 .. Len(h.frame) \/ k = i
    BY <1>3
  <2>9. h.done /\ Ended => \A k \in DOMAIN added.frame : added.frame[k] = viz.heat[k]
    BY <1>1, <1>3, <2>5, <2>6, <2>8 DEF Cutting
  <2>10. Len(added.frame) <= Len(HeatEdges)
    BY <1>4, <2>2, <2>6
  <2>11. h.done => over
    BY <1>1 DEF Cutting
  <2>12. Cutting(added)
    BY <2>3, <2>6, <2>7, <2>9, <2>10, <2>11 DEF Cutting
  <2> QED BY <2>1, <2>7, <2>12 DEF HeatInv, Cutting
<1>7. CASE h.pc = "snapshot" /\ i > Len(HeatEdges) /\ SendFrame("heat", h.frame)
  <2>1. Len(h.frame) = Len(HeatEdges)
    BY <1>1, <1>3, <1>4, <1>7 DEF Cutting
  <2>2. IF h.done THEN at' = [at EXCEPT !["heat"] = last] ELSE at' = [at EXCEPT !["heat"] = again]
    BY <1>7 DEF SendFrame
  <2>3. last.pc = "final" /\ last.frame = h.frame /\ again.pc = "tick"
    OBVIOUS
  <2> HIDE DEF last, again
  <2>4. CASE h.done
    <3>1. at'["heat"] = last
      BY <1>0, <2>2, <2>4 DEF ShapeInv
    <3>2. over /\ (Ended => \A k \in DOMAIN HeatEdges : h.frame[k] = viz.heat[k])
      BY <1>1, <1>3, <1>4, <2>1, <2>4 DEF Cutting
    <3> QED BY <2>3, <3>1, <3>2 DEF HeatInv
  <2>5. CASE ~h.done
    <3>1. at'["heat"] = again
      BY <1>0, <2>2, <2>5 DEF ShapeInv
    <3> QED BY <2>3, <3>1 DEF HeatInv
  <2> QED BY <2>4, <2>5
<1>8. \/ h.pc = "snapshot" /\ i <= Len(HeatEdges)
         /\ at' = [at EXCEPT !["heat"].pc = "errors", !["heat"].req = viz.heat[i].req]
      \/ h.pc = "errors"
         /\ at' = [at EXCEPT !["heat"].pc = "snapshot", !["heat"].frame = Append(h.frame, edge)]
      \/ h.pc = "snapshot" /\ i > Len(HeatEdges) /\ SendFrame("heat", h.frame)
  BY DEF HeatSnapshot
<1> QED BY <1>5, <1>6, <1>7, <1>8

LEMMA HeatStep ==
    ASSUME ShapeInv, EndInv, VizInv, SessionInv, CountInv, StreamInv, HeatInv, [Next]_vars
    PROVE  HeatInv'
<1>0. "heat" \in Watchers /\ "heat" \in Clients
  BY WatchersAre
<1>1. ASSUME at'["heat"] = at["heat"] PROVE HeatInv'
  <2>1. over => over' /\ (Ended' => Ended) /\ (Ended => viz' = viz)
    BY CountersSettle
  <2>2. ASSUME Cutting(at["heat"]) PROVE Cutting(at["heat"])'
    BY <1>1, <2>1, <2>2 DEF Cutting
  <2> QED BY <1>1, <2>1, <2>2 DEF HeatInv
<1>2. ASSUME at'["heat"].pc \notin {"snapshot", "errors", "final"} PROVE HeatInv'
  BY <1>2 DEF HeatInv
<1>3. CASE Restart
  <2>1. at'["heat"].pc \in {"idle", "exited"}
    BY <1>0, <1>3, RestartEndsStreams
  <2> QED BY <1>2, <2>1
<1>4. CASE ~Restart /\ ~WatchStep
  BY <1>0, <1>1, <1>4, StreamsAlone
<1>5. CASE WatchStep
  <2>0. viz' = viz /\ (over' <=> over) /\ (Ended' <=> Ended)
    <3>1. rs' = rs /\ viz' = viz
      BY <1>5, WatchLeaves, CountersStay
    <3> QED BY <3>1 DEF over, Ended
  <2>1. ASSUME NEW c \in Watchers, Open(c) \/ Hangup(c) PROVE HeatInv'
    <3>1. at'["heat"] = at["heat"] \/ Opened("heat")
      BY <1>0, <2>1, OpensOne
    <3>2. Opened("heat") => at'["heat"].pc \notin {"snapshot", "errors", "final"}
      BY DEF Opened
    <3> QED BY <1>1, <1>2, <3>1, <3>2
  <2>2. ASSUME NEW c \in Watchers, HeatStatus(c) PROVE HeatInv'
    <3> DEFINE r == [pc |-> "snapshot", done |-> over, frame |-> << >>, req |-> 0]
    <3>1. at'["heat"] = at["heat"] \/ at'["heat"] = r
      BY <1>0, <2>2, LooksOne
    <3>2. r.pc = "snapshot" /\ Cutting(r)
      BY FrameInputs DEF Cutting
    <3> HIDE DEF r
    <3>3. ASSUME at'["heat"] = r PROVE HeatInv'
      BY <2>0, <3>2, <3>3 DEF HeatInv, Cutting
    <3> QED BY <1>1, <3>1, <3>3
  <2>3. CASE LastStats \/ TraceSince \/ TraceStatus \/ LatencySnapshot
    <3>1. \E r : \E c \in {"stats", "trace", "latency"} : at' = [at EXCEPT ![c] = r]
      BY <2>3 DEF LastStats, TraceSince, TraceStatus, LatencySnapshot, SendFrame
    <3>2. at'["heat"] = at["heat"]
      BY <3>1
    <3> QED BY <1>1, <3>2
  <2>4. CASE HeatSnapshot
    BY <1>0, <1>1, <1>2, <2>0, <2>4, SnapshotStep
  <2> QED BY <1>5, <2>1, <2>2, <2>3, <2>4 DEF WatchStep
<1> QED BY <1>3, <1>4, <1>5

\* What the final frames hold is what the run's sessions emitted: the counters have
\* every event, for no session of a run that ended is between two of them.
LEMMA NoneBetween ==
    ASSUME EndInv, SessionInv, Ended, exec.pc # "gone",
           NEW places \in SUBSET {"err", "trace", "latency"}, NEW S
    PROVE  Cardinality(Between(places, S)) = 0
<1>1. exec.pc # "run"
  BY DEF EndInv, Unfinished, Ended
<1>2. Between(places, S) = {}
  BY <1>1 DEF Between, SessionInv
<1> QED BY <1>2, FS_EmptySet

LEMMA HeatHonest ==
    ASSUME EndInv, FrameInv, at["heat"].pc = "final", Ended, NEW i \in DOMAIN HeatEdges
    PROVE  at["heat"].frame[i] = [req |-> Total(sent, On(i)), err |-> Total(sent, FailedOn(i))]
<1>1. exec.pc # "gone"
  BY WatchersAre DEF FrameInv, StreamInv
<1>2. Cardinality(Between({"err"}, On(i))) = 0
  BY <1>1, NoneBetween DEF FrameInv
<1>3. /\ viz.heat[i].req = Total(sent, On(i))
      /\ viz.heat[i].err + Cardinality(Between({"err"}, On(i))) = Total(sent, FailedOn(i))
  BY <1>1 DEF FrameInv, CountInv
<1>4. viz.heat[i] = [req |-> viz.heat[i].req, err |-> viz.heat[i].err] /\ viz.heat[i].err \in Nat
  BY HeatCounters DEF FrameInv
<1>5. viz.heat[i].err = Total(sent, FailedOn(i))
  BY <1>2, <1>3, <1>4
<1>6. at["heat"].frame[i] = viz.heat[i]
  BY DEF FrameInv, HeatInv
<1> QED BY <1>3, <1>4, <1>5, <1>6

LEMMA LatencyHonest ==
    ASSUME EndInv, FrameInv, at["latency"].pc = "final", Ended
    PROVE  LET cells == at["latency"].frame.cells
           IN  /\ Len(cells) <= latencyMaxCols
               /\ \A r \in {0, 1} : Total(rowOf(cells, r), DOMAIN cells) = Total(sent, InRow(r))
<1>1. exec.pc # "gone"
  BY WatchersAre DEF FrameInv, StreamInv
<1>2. at["latency"].frame = snapshot
  BY DEF FrameInv, LatencyInv
<1>3. ASSUME NEW r \in {0, 1} PROVE Total(rowOf(viz.grid, r), Columns) = Total(sent, InRow(r))
  <2>1. Cardinality(Between({"err", "trace", "latency"}, InRow(r))) = 0
    BY <1>1, NoneBetween DEF FrameInv
  <2>2. Total(rowOf(viz.grid, r), Columns)
          + Cardinality(Between({"err", "trace", "latency"}, InRow(r))) = Total(sent, InRow(r))
    BY <1>1 DEF FrameInv, CountInv
  <2>3. Total(rowOf(viz.grid, r), Columns) \in Nat
    BY GridTotalType DEF FrameInv
  <2> QED BY <2>1, <2>2, <2>3
<1>4. /\ Len(snapshot.cells) <= latencyMaxCols
      /\ \A r \in {0, 1} : Total(rowOf(snapshot.cells, r), DOMAIN snapshot.cells)
                             = Total(rowOf(viz.grid, r), Columns)
  BY SnapshotCounts DEF FrameInv
<1> QED BY <1>2, <1>3, <1>4

LEMMA FramesFollow ==
    ASSUME EndInv, FrameInv
    PROVE  FramesHonest
<1>1. at["trace"].pc \in {"status", "final"} => Ascending(at["trace"].got)
  BY DEF FrameInv, TraceInv
<1>2. at["stats"].pc = "final" => at["stats"].status = outcome.status
  BY DEF FrameInv, StatsInv
<1> QED BY <1>1, <1>2, HeatHonest, LatencyHonest DEF FramesHonest

LEMMA FrameStart == Init => FrameInv
<1> SUFFICES ASSUME Init PROVE FrameInv
  OBVIOUS
<1> DEFINE empty == [r \in {0, 1} |-> 0]
<1>1. /\ exec.pc = "run" /\ now = 0
      /\ viz = [heat |-> newHeatAgg, ring |-> << >>, seq |-> 0, grid |-> [c \in Columns |-> empty]]
      /\ \E e : session = [s \in Sessions |-> [pc |-> "idle", left |-> MaxEvents, ev |-> e]]
      /\ sent = [e \in Events |-> 0]
      /\ \A c \in Clients : at[c].pc = "idle"
  BY DEF Init, Columns, Idle
<1>2. MaxNow \in Nat
  BY ConsoleAssumption, Zenon
<1>3. VizInv
  <2>1. newHeatAgg \in [DOMAIN HeatEdges -> [req : Nat, err : Nat]]
    BY DEF newHeatAgg
  <2>2. [c \in Columns |-> empty] \in [Columns -> [{0, 1} -> Nat]] /\ 0 \in Columns
    BY <1>2 DEF Columns
  <2>3. << >> \in Seq(Nat) /\ DOMAIN << >> = {}
    OBVIOUS
  <2> QED BY <1>1, <2>1, <2>2, <2>3 DEF VizInv, Ascending
<1>4. SessionInv
  BY <1>1 DEF SessionInv
<1>5. \A f \in [Events -> {0}], S \in SUBSET Events : Total(f, S) = 0
  BY TotalZero
<1>6. sent \in [Events -> {0}]
  BY <1>1
<1>7. \A S : Between({"err"}, S) = {} /\ Between({"err", "trace", "latency"}, S) = {}
  BY <1>1 DEF Between
<1>8. CountInv
  <2>1. ASSUME NEW i \in DOMAIN HeatEdges
        PROVE  /\ viz.heat[i].req = Total(sent, On(i))
               /\ viz.heat[i].err + Cardinality(Between({"err"}, On(i))) = Total(sent, FailedOn(i))
    <3>1. Total(sent, On(i)) = 0 /\ Total(sent, FailedOn(i)) = 0
      BY <1>5, <1>6, OnParts
    <3>2. viz.heat[i].req = 0 /\ viz.heat[i].err = 0
      BY <1>1 DEF newHeatAgg
    <3>3. Cardinality(Between({"err"}, On(i))) = 0
      BY <1>7, FS_EmptySet
    <3> QED BY <3>1, <3>2, <3>3
  <2>2. ASSUME NEW r \in {0, 1}
        PROVE  Total(rowOf(viz.grid, r), Columns)
                 + Cardinality(Between({"err", "trace", "latency"}, InRow(r))) = Total(sent, InRow(r))
    <3>1. Total(sent, InRow(r)) = 0
      BY <1>5, <1>6, OnParts
    <3>2. \A c \in Columns : rowOf(viz.grid, r)[c] = 0
      BY <1>1 DEF rowOf
    <3>3. Total(rowOf(viz.grid, r), Columns) = 0
      BY <3>2, TotalZero
    <3>4. Cardinality(Between({"err", "trace", "latency"}, InRow(r))) = 0
      BY <1>7, FS_EmptySet
    <3> QED BY <3>1, <3>3, <3>4
  <2> QED BY <2>1, <2>2 DEF CountInv
<1>9. HeatInv /\ LatencyInv /\ TraceInv /\ StatsInv /\ StreamInv
  BY <1>1, WatchersAre DEF HeatInv, LatencyInv, TraceInv, StatsInv, StreamInv
<1> QED BY <1>3, <1>4, <1>8, <1>9 DEF FrameInv

(***************************************************************************)
(* The theorems                                                            *)
(***************************************************************************)
LEMMA ConsoleStart == Init => ConsoleInv
<1> SUFFICES ASSUME Init PROVE ConsoleInv
  OBVIOUS
<1>1. at = [c \in Clients |-> Idle] /\ "cli" \in Clients /\ Reproducers \subseteq Clients
  BY DEF Init, Clients
<1>2. \A c \in Clients : at[c].pc = "idle" /\ "pc" \in DOMAIN at[c]
  BY <1>1 DEF Idle
<1>3. ShapeInv
  BY <1>1, <1>2 DEF Init, ShapeInv, Row, EmptyStore
<1>4. EndInv
  BY FS_EmptySet DEF Init, EndInv, Unfinished, Unpersisted
<1>5. RowsInv
  BY DEF Init, RowsInv, EndedAs, EmptyStore
<1>6. ~Reported /\ at["cli"].pc # "poll"
  BY <1>1, <1>2 DEF Reported
<1>7. PollInv /\ ExitHonest
  BY <1>6 DEF PollInv, ExitHonest, Reported
<1>8. VerdictInv /\ NoLostVerdict
  <2>1. DOMAIN store.class = {}
    BY DEF Init, EmptyStore
  <2>2. \A c \in Reproducers : ~Saved(c) /\ at[c].pc # "save"
    BY <1>1, <1>2 DEF Saved
  <2> QED BY <2>1, <2>2 DEF VerdictInv, NoLostVerdict
<1>9. FileInv /\ ShareInv
  BY DEF Init, FileInv, ShareInv, EmptyStore, NoShares
<1> QED BY <1>3, <1>4, <1>5, <1>7, <1>8, <1>9 DEF ConsoleInv

\* The invariant of the console: what the run ended with, the rows and files that say
\* so, the report a command was given, the lock and the rows of the verdicts, and the
\* share registry agree, whatever the interleaving of clients, kills, crashes and restarts.
THEOREM ConsoleInvariance == Spec => []ConsoleInv
<1>1. Init => ConsoleInv
  BY ConsoleStart
<1>2. ConsoleInv /\ [Next]_vars => ConsoleInv'
  BY ShapeStep, EndStep, RowsStep, FileStep, PollStep, VerdictStep, ShareStepExact DEF ConsoleInv
<1> QED BY <1>1, <1>2, PTL DEF Spec

\* A command that got its report exits with the code the run's real outcome calls for.
THEOREM ExitsHonestly == Spec => []ExitHonest
<1>1. ConsoleInv => ExitHonest
  BY DEF ConsoleInv
<1> QED BY <1>1, ConsoleInvariance, PTL

\* What a reproduce call saved stays until a call on the same finding replaces it.
THEOREM VerdictsSurvive == Spec => []NoLostVerdict
<1>1. ConsoleInv => NoLostVerdict
  BY DEF ConsoleInv
<1> QED BY <1>1, ConsoleInvariance, PTL

\* An engine that starts has the run a graceful stop wrote into the snapshot file.
THEOREM HistoryIsKept == Spec => HistoryKept
<1> DEFINE A == engine = "down" /\ engine' = "up" /\ disk.snap.run # NoRun
                => store'.run = disk.snap.run /\ store'.findings = disk.snap.findings
<1>1. ConsoleInv /\ [Next]_vars => [A]_vars
  <2> SUFFICES ASSUME ConsoleInv, Next, engine = "down", engine' = "up", disk.snap.run # NoRun
               PROVE  store'.run = disk.snap.run /\ store'.findings = disk.snap.findings
    OBVIOUS
  <2>1. Restart
    <3>1. CASE EngineStep
      BY <3>1 DEF EngineStep, Stop, Drained, SaveToFile, Crash
    <3>2. CASE ~EngineStep
      <4>1. engine' = engine
        BY <3>2, StepKinds, SessionLeaves, RunLeaves, ReproduceLeaves, ShareLeaves, WatchLeaves,
           CommandLeaves, TickLeaves DEF ConsoleInv
      <4> QED BY <4>1
    <3> QED BY <3>1, <3>2
  <2> QED BY <2>1 DEF Restart, LoadFromFile, ConsoleInv, FileInv
<1> QED BY <1>1, ConsoleInvariance, PTL DEF Spec, HistoryKept

\* A live share link is given up only for the cap, oldest first, after the expired ones.
THEOREM LinksEvictedExactly == Spec => ShareEviction
<1> DEFINE A == engine = engine' =>
                  \A t \in DOMAIN shares.m \ DOMAIN shares'.m :
                      \/ Expired(shares.m[t])
                      \/ \A u \in DOMAIN shares'.m : ~Expired(shares'.m[u]) /\ t < u
<1>1. ConsoleInv /\ [Next]_vars => [A]_vars
  BY ShareStepExact DEF ConsoleInv, GivenUpRightly
<1> QED BY <1>1, ConsoleInvariance, PTL DEF Spec, ShareEviction

\* The counters behind the live streams have every event the sessions emitted, and
\* what a stream has cut of them after the run's end stays what they say.
THEOREM FrameInvariance == Spec => []FrameInv
<1>1. Init => ConsoleInv /\ FrameInv
  BY ConsoleStart, FrameStart
<1>2. ConsoleInv /\ FrameInv /\ [Next]_vars => FrameInv'
  <2> SUFFICES ASSUME ConsoleInv, FrameInv, [Next]_vars PROVE FrameInv'
    OBVIOUS
  <2>1. ShapeInv /\ EndInv
    BY DEF ConsoleInv
  <2>2. /\ VizInv /\ SessionInv /\ CountInv
        /\ HeatInv /\ LatencyInv /\ TraceInv /\ StatsInv /\ StreamInv
    BY DEF FrameInv
  <2>3. VizInv' /\ SessionInv'
    BY <2>1, <2>2, SessionsStep
  <2>4. CountInv' /\ StreamInv' /\ StatsInv'
    BY <2>1, <2>2, CountStep, StreamStep, StatsStep
  <2>5. HeatInv' /\ LatencyInv' /\ TraceInv'
    BY <2>1, <2>2, <2>3, HeatStep, LatencyStep, TraceStep
  <2> QED BY <2>3, <2>4, <2>5 DEF FrameInv
<1> QED BY <1>1, <1>2, ConsoleInvariance, PTL DEF Spec

\* The last frames of the live streams count every event of a run that was not
\* killed, and the trace is in order (the streams of handlers.go).
THEOREM FramesAreHonest == Spec => []FramesHonest
<1>1. ConsoleInv /\ FrameInv => FramesHonest
  BY FramesFollow DEF ConsoleInv
<1> QED BY <1>1, ConsoleInvariance, FrameInvariance, PTL
================================================================================
