----------------------------- MODULE MCConsole -----------------------------
(* Instance of Console for TLC: one group of clients for each question, each *)
(* with the disturbances that can reach it.                                  *)
EXTENDS Console

Finding(c, r, s, has) == [category |-> c, ref |-> r, severity |-> s, sessions |-> has]

Checkout == Finding("contract", "checkout", "critical", TRUE)
Slow == Finding("threshold", "p95-latency", "warning", TRUE)
Fuzzed == Finding("mutation", "checkout", "warning", TRUE)
Setup == Finding("threshold", "auth-setup", "warning", FALSE)

MCOutcomes == {{}, {Checkout, Slow}, {Fuzzed, Setup}}

Request(c, r, n) == [category |-> c, ref |-> r, attempts |-> n]

MCRequests == {Request("contract", "checkout", 0), Request("threshold", "p95-latency", 1),
               Request("mutation", "checkout", 3), Request("threshold", "auth-setup", 1)}

Result(err, status, slow) == [node |-> "checkout", err |-> err, status |-> status, slow |-> slow]

MCReplays == {<<Result(FALSE, 200, TRUE)>>, <<Result(FALSE, 500, FALSE)>>}

Event(edge, ok, row, terminal) == [edge |-> edge, ok |-> ok, row |-> row, terminal |-> terminal]

MCEvents == {Event("login>checkout", FALSE, 1, FALSE), Event("checkout>done", TRUE, 0, TRUE),
             Event("checkout>login", TRUE, 0, FALSE)}

MCHeatEdges == <<"login>checkout", "checkout>done">>

Issue(f, why, day) == [category |-> f.category, ref |-> f.ref, reason |-> why, expires |-> day]

\* A baseline report has no session coordinates.
Known(f) == [category |-> f.category, ref |-> f.ref, severity |-> f.severity]

MCFlags ==
    {[failAny |-> any, minSev |-> sev, engine |-> eng, baselineRun |-> run, baselineFile |-> file,
      known |-> known, now |-> now0] :
        any \in BOOLEAN, sev \in {"", "critical", "minor"}, eng \in {FALSE},
        run \in {<<>>, <<{}>>}, file \in {<<>>, <<{}>>, <<{Known(Slow)}>>},
        known \in {<<>>, <<<<Issue(Checkout, "ticket", <<1>>)>>>>, <<<<Issue(Checkout, "", <<1>>)>>>>},
        now0 \in {3, 4}}

MCTTLs == {<<>>, <<0>>, <<1>>}

MCGroups == {{"cli", "killer", "flaky", "evictor"}, {"repro1", "repro2", "evictor"},
             {"repro1", "killer", "operator"}, {"repro1", "repro2", "flaky"},
             {"sharer", "viewer", "evictor"},
             {"trace", "killer"}, {"heat", "killer"}, {"latency"}, {"stats", "evictor", "killer"},
             {"operator"}}
=============================================================================
