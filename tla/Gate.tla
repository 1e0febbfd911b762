-------------------------------- MODULE Gate --------------------------------
(***************************************************************************)
(* What `tmula run` makes of a finished run's report: the two CI gates and *)
(* the exit code.                                                          *)
(*                                                                         *)
(* A finding is [category, ref, severity]; its identity is the first two.  *)
(* Time is counted in half days, so that a known issue can be looked at    *)
(* early and late on its last day.  An optional value is <<>> or <<v>>.    *)
(***************************************************************************)
EXTENDS Integers, FiniteSets, SequencesExt, FiniteSetsExt

HalfDays == 2

GateFinding == [category : STRING, ref : STRING, severity : {"warning", "critical"}]

\* One entry of the known-issues file; a field the author left out is "" (or <<>>).
KnownIssue == [category : STRING, ref : STRING, reason : STRING, expires : Seq(Nat)]

\* The flags of one invocation.  engine: against a running engine.
CLIFlags ==
    [failAny : BOOLEAN, minSev : STRING, engine : BOOLEAN,
     baselineRun : Seq(SUBSET GateFinding), baselineFile : Seq(SUBSET GateFinding),
     known : Seq(Seq(KnownIssue)), now : Nat]

(***************************************************************************)
(* The difference of two runs                                              *)
(***************************************************************************)
keyOf(f) == [category |-> f.category, ref |-> f.ref]

keySet(fs) == {keyOf(f) : f \in fs}

diffFindings(want, have) == {f \in want : keyOf(f) \notin keySet(have)}

DiffAgainstBaseline(baseline, current) ==
    [new |-> diffFindings(current, baseline),
     resolved |-> diffFindings(baseline, current),
     persisting |-> {f \in current : keyOf(f) \in keySet(baseline)}]

(***************************************************************************)
(* Known issues                                                            *)
(***************************************************************************)
\* Every entry must be complete; one that is not refuses the file.
ParseKnownIssues(issues) ==
    \A i \in DOMAIN issues :
        /\ issues[i].category # ""
        /\ issues[i].ref # ""
        /\ issues[i].reason # ""
        /\ issues[i].expires # <<>>

expired(k, now) == now >= HalfDays * (k.expires[1] + 1)

matches(k, f) == k.category = f.category /\ k.ref = f.ref

match(active, f) == \E k \in active : matches(k, f)

Evaluate(baseline, current, known, now) ==
    LET d == DiffAgainstBaseline(baseline, current)
        late == {k \in Range(known) : expired(k, now)}
        active == Range(known) \ late
    IN  [new |-> {f \in d.new : ~match(active, f)},
         suppressed |-> {f \in d.new : match(active, f)},
         resolved |-> d.resolved, persisting |-> d.persisting,
         expired |-> late]

(***************************************************************************)
(* The command line                                                        *)
(***************************************************************************)
hasBaseline(flags) == flags.baselineRun # <<>> \/ flags.baselineFile # <<>>

\* The baseline findings: from the saved report, or fetched from the engine.
baseFindings(flags) ==
    IF flags.baselineRun # <<>> THEN flags.baselineRun[1] ELSE flags.baselineFile[1]

\* What is checked and loaded before the run is started.
FlagsAccepted(flags) ==
    /\ flags.minSev \in {"", "warning", "critical"}
    /\ ~(flags.baselineRun # <<>> /\ flags.baselineFile # <<>>)
    /\ flags.baselineRun # <<>> => flags.engine
    /\ flags.known # <<>> => hasBaseline(flags) /\ ParseKnownIssues(flags.known[1])

gatingFindings(findings, failAny, minSev) ==
    IF ~failAny /\ minSev = "" THEN 0
    ELSE Cardinality({f \in findings : minSev = "critical" => f.severity = "critical"})

\* The exit-code ladder over the report the command got.
ExitCode(status, findings, flags) ==
    LET known == IF flags.known = <<>> THEN <<>> ELSE flags.known[1]
        stopped == status \in {"failed", "killed"}
        gated == gatingFindings(findings, flags.failAny, flags.minSev) > 0
        worse == hasBaseline(flags)
                   /\ Evaluate(baseFindings(flags), findings, known, flags.now).new # {}
    IN  CASE stopped -> 1
          [] ~stopped /\ gated -> 2
          [] ~stopped /\ ~gated /\ worse -> 3
          [] OTHER -> 0
=============================================================================
