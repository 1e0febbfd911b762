----------------------------- MODULE MCCluster -----------------------------
(* Small instances of Cluster: three users over two workers, so that one worker *)
(* holds two of them, and outcomes that reach every finding category.           *)
EXTENDS Cluster

MCLows == <<1, 3, 6, 10>>
MCCodes == {0, 200, 503}
MCAPIs == {"a"}

Answered(code, lat) == [api |-> "a", code |-> code, lat |-> lat, class |-> ""]

MCKinds == {Answered(200, 2), Answered(503, 12),
            [api |-> "a", code |-> 0, lat |-> 4, class |-> "transport"]}

\* What each worker's source may hold: the operator may have deployed different files.
MCPools == {<<"p", "q">>, <<"q", "p">>}

MCFindings == [rate |-> 40, p95 |-> 4, streak |-> 2]
=============================================================================
