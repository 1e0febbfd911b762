----------------------------- MODULE MCScenario -----------------------------
(* Instance of Scenario and Importer for TLC: every flow of up to three      *)
(* steps with any dependencies, every graph of three nodes with up to three  *)
(* edges, a flow under each of the document's other fields, posted run       *)
(* specs, which skip the scenario checks, and recordings to import.          *)
EXTENDS Importer

Blank == [ZeroScenario EXCEPT !.target = TRUE, !.users = 2]

StepOf(id, dep, w, req) == [id |-> id, dependsOn |-> dep, weight |-> w, request |-> req]

Flows ==
    {[Blank EXCEPT !.flow = [i \in DOMAIN f |-> StepOf(<<"a", "b", "c">>[i], f[i][1], f[i][2], "valid")]] :
        f \in UNION {[1 .. n -> {NoStep, "a", "b", "c", "z"} \X {0, 50}] : n \in 1 .. 3}}

Nodes == <<[id |-> "a", template |-> "t"], [id |-> "b", template |-> "t"],
           [id |-> "c", template |-> NoStep]>>

AnyEdge == {[from |-> p[1], to |-> p[2], weight |-> k[1], dependency |-> k[2]] :
            p \in ({"a", "b", "c"} \X {"a", "b", "c"}) \ {<<"c", "c">>},
            k \in {<<0, TRUE>>, <<50, FALSE>>, <<100, TRUE>>}}

Graphs ==
    {[Blank EXCEPT !.form = "graph", !.start = "a", !.templates = {"t"},
                   !.graph = [nodes |-> Nodes, edges |-> es], !.deviation = 10] :
        es \in UNION {[1 .. n -> AnyEdge] : n \in 0 .. 3}}

Triple == <<StepOf("a", NoStep, 0, "valid"), StepOf("b", "a", 50, "none"),
            StepOf("c", "a", 0, "valid")>>

ConstantOpen == [shape |-> "unset", rate |-> 5, from |-> 0, to |-> 0, for |-> 10,
         think |-> <<0, 0>>, cap |-> 0]

Persona(start, max) == [name |-> "p", weight |-> 1, start |-> start, maxSteps |-> max]

Variations ==
    LET base == [Blank EXCEPT !.flow = Triple]
        open == [base EXCEPT !.open = <<ConstantOpen>>]
        more(steps) == [base EXCEPT !.flow = Triple \o steps]
    IN  {[base EXCEPT !.target = FALSE], [base EXCEPT !.form = "both"],
         [base EXCEPT !.form = "none"], [base EXCEPT !.start = "b"],
         [base EXCEPT !.start = "z"], [base EXCEPT !.users = 0],
         [base EXCEPT !.segments = <<Persona("b", 0)>>],
         more(<<StepOf(NoStep, NoStep, 0, "valid")>>),
         more(<<StepOf("a", NoStep, 0, "valid")>>),
         more(<<StepOf("d", NoStep, 101, "valid"), StepOf("e", "b", 0, "valid")>>),
         more(<<StepOf("d", NoStep, 0, "malformed")>>),
         more(<<StepOf("d", "b", 0, "offhost")>>),
         more(<<StepOf("d", "b", 0, "valid")>>)}
        \cup {[base EXCEPT !.deviation = v] : v \in {0 - 1, 10, 101}}
        \cup {[base EXCEPT !.maxSteps = m] : m \in 1 .. 4}
        \cup {[open EXCEPT !.open[1].shape = s, !.open[1].from = f, !.open[1].to = t] :
                 s \in {"unset", "constant", "ramp", "wave"}, f \in {0, 3}, t \in {0, 7}}
        \cup {[open EXCEPT !.open[1].for = 0], [open EXCEPT !.open[1].rate = 0],
              [open EXCEPT !.open[1].cap = 0 - 1], [open EXCEPT !.open[1].think = <<2, 1>>]}
        \cup {[open EXCEPT !.segments = segs] :
                 segs \in {<<Persona("b", 0), [Persona(NoStep, 1) EXCEPT !.name = "q"]>>,
                           <<Persona("z", 0)>>, <<Persona("a", 0), Persona("a", 1)>>}}

Posted ==
    {[Blank EXCEPT !.form = "posted",
                   !.posted = <<[expandFrom([Blank EXCEPT !.flow = Triple]) EXCEPT
                                  !.start = s, !.users = u, !.graph.edges[1].weight = w,
                                  !.maxSteps = m]>>] :
        s \in {"a", "b", "z", NoStep}, u \in {0, 1}, w \in {0 - 1, 50, 300}, m \in {0 - 1, 3}}

AllDocuments == Flows \cup Graphs \cup Variations \cup Posted

\* Endpoints 2 and 3 collapse to one name.
MCNames == <<"get_home", "get_a_b", "get_a_b", "post_cart">>

LineOf(shape, ok, t, c, k) ==
    [shape |-> shape, parses |-> ok, time |-> t, client |-> c, method |-> "GET",
     asset |-> FALSE, endpoint |-> k]

LogOf(lines, cap, given) ==
    [kind |-> "log", target |-> given, log |-> lines,
     opts |-> [format |-> "", maxNodes |-> cap, gap |-> 4]]

\* Up to three requests of two clients, in any order, near and far apart.
ShortLogs ==
    {LogOf([i \in DOMAIN f |-> LineOf("combined", TRUE, f[i][1], f[i][2], f[i][3])], cap, TRUE) :
        f \in UNION {[1 .. n -> {0, 2, 6} \X {1, 2} \X {1, 2}] : n \in 1 .. 3}, cap \in {0, 1}}

\* One client visiting the endpoints given, a second apart.
Visit(keys) == [i \in DOMAIN keys |-> LineOf("combined", TRUE, i, 1, keys[i])]

Odd(l, m, a) == [l EXCEPT !.method = m, !.asset = a]

LongLogs ==
    {LogOf(Visit(keys), cap, TRUE) : cap \in {0 - 1, 0, 2},
        keys \in {<<1, 1, 1, 1, 1, 1, 1, 2, 1>>, <<1, 2, 3, 1, 3, 2, 4, 1>>,
                  <<1, 4, 2, 4, 3, 4, 4>>, <<2, 2, 3, 3, 1, 4>>}}
    \cup {LogOf(Visit(<<1, 2>>), 0, FALSE), LogOf(<<>>, 0, TRUE),
          LogOf(<<LineOf("text", FALSE, 0, 1, 1)>>, 0, TRUE)}
    \cup {LogOf(<<head, LineOf("blank", FALSE, 0, 1, 1), LineOf(shape, TRUE, 1, 1, 1),
                  LineOf(shape, FALSE, 2, 1, 2), Odd(LineOf(shape, TRUE, 3, 1, 3), "HEAD", FALSE),
                  Odd(LineOf(shape, TRUE, 4, 1, 3), "GET", TRUE), LineOf(shape, TRUE, 4, 1, 4)>>, 0, TRUE) :
             head \in {LineOf("#Fields", FALSE, 0, 1, 1), LineOf("#Version", FALSE, 0, 1, 1),
                       LineOf("#other", FALSE, 0, 1, 1), LineOf("text", FALSE, 0, 1, 1)},
             shape \in {"json", "caddy", "traefik", "alb", "combined", "cloudfront"}}
    \cup {[LogOf(Visit(<<1, 2, 1>>), 0, TRUE) EXCEPT !.opts.format = f, !.opts.gap = 0] :
             f \in {"combined", "alb"}}

EntryOf(origin, name, login, header, cookie, minted) ==
    [origin |-> origin, name |-> name, safe |-> TRUE, login |-> login,
     header |-> header, cookie |-> cookie, minted |-> minted]

HarOf(entries) == [kind |-> "har", target |-> FALSE, har |-> entries]

\* A request of the application or of another host, with any credential.
AppEntries ==
    {EntryOf(o, n, FALSE, h, c, m) : o \in {"app", "cdn"}, n \in {"get_a"},
                                     h \in {NoToken, "T"}, c \in {NoToken, "S"}, m \in {NoToken, "T"}}

Login == EntryOf("app", "post_login", TRUE, NoToken, NoToken, "T")
Plain == EntryOf("app", "get_b", FALSE, NoToken, NoToken, NoToken)
Broken == EntryOf("", "x", FALSE, NoToken, NoToken, NoToken)
Unsafe == [EntryOf("app", "get_a", FALSE, "T", NoToken, NoToken) EXCEPT !.safe = FALSE]

Captures ==
    {HarOf(pre \o es) : pre \in {<<>>, <<Login>>, <<Broken, Plain>>, <<Unsafe>>},
                        es \in UNION {[1 .. n -> AppEntries] : n \in 1 .. 2}}
    \cup {HarOf(<<Broken>>), HarOf(<<Unsafe>>), HarOf(<<>>),
          HarOf(<<Login, EntryOf("app", "get_a", FALSE, "T", NoToken, NoToken),
                  EntryOf("app", "get_a", FALSE, "U", NoToken, NoToken),
                  EntryOf("app", "get_b", FALSE, "U", NoToken, NoToken)>>)}

OpOf(st, p, m, n, safe, sec) ==
    [stage |-> st, depth |-> 1, path |-> p, method |-> m, name |-> n, safe |-> safe, security |-> sec]

Ops == {OpOf(0, 1, 1, "login", TRUE, None), OpOf(2, 2, 0, "list", TRUE, <<<<>>>>),
        OpOf(2, 2, 1, "list", TRUE, None), OpOf(8, 3, 1, "pay", TRUE, <<<<{2}>>>>),
        OpOf(3, 4, 0, "odd", FALSE, None)}

Schemes == {[name |-> 1, kind |-> k, tokenPath |-> 1] :
               k \in {"password", "clientCredentials", "bearer", "basic", "header", "query", "cookie", "other"}}
Other == [name |-> 2, kind |-> "bearer", tokenPath |-> 3]

Specs ==
    {[kind |-> "openapi", target |-> given, api |-> [ops |-> ops, absolute |-> abs,
        schemes |-> sc, security |-> top]] :
        given \in {FALSE}, abs \in BOOLEAN, ops \in SUBSET Ops,
        sc \in {{}, {Other}} \cup {{k} : k \in Schemes} \cup {{k, Other} : k \in Schemes},
        top \in {<<>>, <<{1}>>, <<{1, 2}>>}}

MCRecordings == ShortLogs \cup LongLogs \cup Captures \cup Specs
=============================================================================
