------------------------------ MODULE Importer ------------------------------
(***************************************************************************)
(* Scenarios from recordings: an access log, a HAR file or an OpenAPI      *)
(* document becomes a scenario document (importer package), which then     *)
(* goes the way of an authored one (module Scenario).                      *)
(*                                                                         *)
(* A log line is reduced to the format it is written in, whether its       *)
(* fields parse, and the request it records; an endpoint is the number of  *)
(* its collapsed key in string order, and Names gives the identifier       *)
(* sanitize makes of it.  Learned weights are whole percents where the     *)
(* code keeps four decimals.  Tokens are strings, "" being none.           *)
(***************************************************************************)
EXTENDS Scenario

CONSTANTS
    Recordings,  \* what may be imported: [kind, target (given by the caller), ...]
    Names        \* Names[k]: the sanitized name of endpoint k

Line == [shape : {"blank", "#Version", "#Fields", "#other", "json", "caddy", "traefik",
                  "alb", "combined", "cloudfront", "text"},
         parses : BOOLEAN, time : Nat, client : Nat, method : STRING, asset : BOOLEAN,
         endpoint : DOMAIN Names]
AccessLogOptions == [format : STRING, maxNodes : Int, gap : Nat]
\* A HAR entry: where it went (origin "" for a malformed URL), the credential it
\* carried and the token found in its answer.
HarEntry == [origin : STRING, name : STRING, safe : BOOLEAN, login : BOOLEAN,
             header : STRING, cookie : STRING, minted : STRING]
\* An operation: its sort keys, whether its path is usable, and its own security
\* requirement (None inherits the document's).
ApiOp == [stage : 0 .. 8, depth : Nat, path : Nat, method : 0 .. 4, name : STRING,
          safe : BOOLEAN, security : Seq(Seq(SUBSET STRING))]
SecurityScheme == [name : Nat, kind : {"password", "clientCredentials", "bearer", "basic",
                                       "header", "query", "cookie", "other"},
                   tokenPath : Nat]

VARIABLES
    source,    \* the recording, or Authored for a document written by hand
    imported   \* what the importer made of it besides the document

importVars == <<source, imported, doc, stage, spec, path, maxSteps>>

NoToken == ""
Authored == [kind |-> "authored"]

\* A scenario document with nothing set.
ZeroScenario ==
    [target |-> FALSE, form |-> "flow", flow |-> <<>>,
     graph |-> [nodes |-> <<>>, edges |-> <<>>], templates |-> {}, start |-> NoStep,
     deviation |-> 0, maxSteps |-> 0, users |-> 0, open |-> None, segments |-> <<>>,
     auth |-> TRUE, posted |-> None]

(***************************************************************************)
(* Access log: format, records, sessions                                   *)
(***************************************************************************)
JSONShapes == {"json", "caddy", "traefik"}
Directives == {"#Version", "#Fields", "#other"}
detectProbeLines == 5

\* The format one line gives away.  An ALB line is known by its head alone.
detectLineFormat(l) ==
    CASE l.shape \in {"#Version", "#Fields"} -> <<"cloudfront">>
      [] l.shape = "alb" -> <<"alb">>
      [] l.shape \in JSONShapes \cup {"combined"} /\ l.parses -> <<l.shape>>
      [] OTHER -> None

DetectAccessLogFormat(lines) ==
    LET filled == SelectSeq(lines, LAMBDA l : l.shape # "blank")
        probed == SubSeq(filled, 1, IF Len(filled) < detectProbeLines THEN Len(filled)
                                    ELSE detectProbeLines)
        known == SelectSeq(probed, LAMBDA l : detectLineFormat(l) # None)
    IN  IF known = <<>> THEN None ELSE detectLineFormat(known[1])

\* Whether a parser reads the line as a record.  The JSON parser takes the key
\* spellings of every producer; a CloudFront line needs the #Fields header before it.
combinedParser(l) == l.shape = "combined" /\ l.parses
jsonParser(l) == l.shape \in JSONShapes /\ l.parses
albParser(l) == l.shape = "alb" /\ l.parses
cloudFrontParser(l, columns) == columns /\ l.shape = "cloudfront" /\ l.parses

\* parserFor: the parser of a format, applied to a line.
parses(format, l, columns) ==
    CASE format = "combined" -> combinedParser(l)
      [] format \in JSONShapes -> jsonParser(l)
      [] format = "alb" -> albParser(l)
      [] format = "cloudfront" -> cloudFrontParser(l, columns)

keepRequest(l) == l.method \in {"GET", "POST", "PUT", "PATCH", "DELETE"} /\ ~ l.asset

\* The usable records, in file order; every other line is a blank, a directive
\* or counted as skipped.
Records(lines, format) ==
    FoldLeft(LAMBDA s, l :
                CASE format = "cloudfront" /\ l.shape \in Directives ->
                        [s EXCEPT !.columns = @ \/ l.shape = "#Fields"]
                  [] l.shape = "blank" -> s
                  [] parses(format, l, s.columns) /\ keepRequest(l) ->
                        [s EXCEPT !.records = Append(@, l)]
                  [] OTHER -> [s EXCEPT !.skipped = @ + 1],
             [columns |-> FALSE, records |-> <<>>, skipped |-> 0], lines)

Occurrences(x, s) == Len(SelectSeq(s, LAMBDA y : y = x))

\* The elements of a sequence, once each, as first seen.
Distinct(s) == FoldLeft(LAMBDA d, x : IF x \in Range(d) THEN d ELSE Append(d, x), <<>>, s)

\* The positions of the elements with property P.
Select(s, P(_)) == SelectSeq([i \in DOMAIN s |-> i], LAMBDA i : P(s[i]))

Mut_Timeline(records, c) == SelectSeq(records, LAMBDA r : r.client = c)

\* One client's records by time, file order between equals.
Timeline(records, c) ==
    LET order == SortSeq(Select(records, LAMBDA r : r.client = c),
                    LAMBDA i, j : \/ records[i].time < records[j].time
                                  \/ (records[i].time = records[j].time /\ i < j))
    IN  [k \in DOMAIN order |-> records[order[k]]]

sessionize(records, gap) ==
    LET clients == SortSeq(Distinct([i \in DOMAIN records |-> records[i].client]), <)
        visit(done, r) ==
            IF done = <<>> \/ r.time - Last(Last(done)).time > gap
            THEN Append(done, <<r>>)
            ELSE [done EXCEPT ![Len(done)] = Append(@, r)]
    IN  FlattenSeq([c \in DOMAIN clients |->
                       FoldLeft(visit, <<>>, Timeline(records, clients[c]))])

endpointKey(r) == r.endpoint

\* The maxNodes hottest endpoints, ties to the smaller key; no cap keeps all.
capEndpoints(records, maxNodes) ==
    LET keys == [i \in DOMAIN records |-> endpointKey(records[i])]
        count(k) == Occurrences(k, keys)
        ranked == SortSeq(Distinct(keys), LAMBDA j, k :
                     count(j) > count(k) \/ (count(j) = count(k) /\ j < k))
    IN  IF maxNodes <= 0 \/ Len(ranked) <= maxNodes THEN Range(keys)
        ELSE {ranked[i] : i \in 1 .. maxNodes}

(***************************************************************************)
(* Access log: the learned graph                                           *)
(***************************************************************************)
Exit == 0

\* idSet: the second taker of a name gets name_2, and so on.
unique(names) ==
    [i \in DOMAIN names |->
        LET n == Occurrences(names[i], SubSeq(names, 1, i))
        IN  IF n = 1 THEN names[i] ELSE names[i] \o "_" \o ToString(n)]

percentileSorted(sorted, p) ==
    LET idx == (p * Len(sorted) + 99) \div 100
    IN  sorted[IF idx < 1 THEN 1 ELSE IF idx > Len(sorted) THEN Len(sorted) ELSE idx]

percentileInt(values, p) ==
    IF values = <<>> THEN 0 ELSE percentileSorted(SortSeq(values, <), p)

clamp(v, lo, hi) == IF v < lo THEN lo ELSE IF v > hi THEN hi ELSE v

\* n/d to the nearest integer, halves up.
Round(n, d) == (2 * n + d) \div (2 * d)

\* The transitions of one walk, its last request leading to the exit.
Hops(walk) ==
    [i \in DOMAIN walk |->
        <<endpointKey(walk[i]), IF i = Len(walk) THEN Exit ELSE endpointKey(walk[i + 1])>>]

\* A node whose rounded weights add up to more than the whole loses the excess
\* on its (first) largest edge.
shaveOvershoot(edges) ==
    LET out(n) == {i \in DOMAIN edges : edges[i].from = n}
        sum(n) == FoldLeft(LAMBDA s, e : IF e.from = n THEN s + e.weight ELSE s, 0, edges)
        largest(n) == CHOOSE i \in out(n) : \A j \in out(n) :
                         \/ edges[j].weight < edges[i].weight
                         \/ (edges[j].weight = edges[i].weight /\ i <= j)
    IN  [i \in DOMAIN edges |->
            LET n == edges[i].from
            IN  IF sum(n) > 100 /\ i = largest(n)
                THEN [edges[i] EXCEPT !.weight = @ - (sum(n) - 100)] ELSE edges[i]]

\* The sessions over the kept endpoints: a folded request is bridged across.
Walks(sessions, kept) ==
    SelectSeq([s \in DOMAIN sessions |->
                  SelectSeq(sessions[s], LAMBDA r : endpointKey(r) \in kept)],
              LAMBDA w : w # <<>>)

\* One edge per observed transition, weighted by its share of the node's
\* departures, in key order.
buildLearnedEdges(hops, id) ==
    LET total(n) == Len(SelectSeq(hops, LAMBDA h : h[1] = n))
        sorted == SortSeq(Distinct(hops), LAMBDA g, h :
                     g[1] < h[1] \/ (g[1] = h[1] /\ g[2] < h[2]))
    IN  shaveOvershoot(
            [k \in DOMAIN sorted |->
                [from |-> id[sorted[k][1]], to |-> id[sorted[k][2]],
                 weight |-> Round(100 * Occurrences(sorted[k], hops), total(sorted[k][1])),
                 dependency |-> FALSE]])

buildLearnedGraph(sessions, kept) ==
    LET walks == Walks(sessions, kept)
        visits == FlattenSeq([w \in DOMAIN walks |->
                                 [i \in DOMAIN walks[w] |-> endpointKey(walks[w][i])]])
        order == Distinct(visits)
        ids == unique([k \in DOMAIN order |-> Names[order[k]]])
        id == [k \in Range(order) \cup {Exit} |->
                  IF k = Exit THEN "exit" ELSE ids[CHOOSE i \in DOMAIN order : order[i] = k]]
        starts == [w \in DOMAIN walks |-> endpointKey(walks[w][1])]
        start == CHOOSE k \in Range(starts) : \A j \in Range(starts) :
                    \/ Occurrences(j, starts) < Occurrences(k, starts)
                    \/ (Occurrences(j, starts) = Occurrences(k, starts) /\ k <= j)
    IN  [graph |-> [nodes |-> [i \in DOMAIN order |-> [id |-> ids[i], template |-> ids[i]]]
                                 \o <<[id |-> "exit", template |-> NoStep]>>,
                    edges |-> buildLearnedEdges(FlattenSeq([w \in DOMAIN walks |-> Hops(walks[w])]),
                                                id)],
         templates |-> Range(ids), start |-> id[start], id |-> id,
         maxSteps |-> clamp(percentileInt([w \in DOMAIN walks |-> Len(walks[w])], 95), 4, 100)]

\* The observed arrival rate, at least one session per second, and the
\* quartiles of the gaps between requests as think time.
suggestOpen(records, sessions) ==
    LET times == {records[i].time : i \in DOMAIN records}
        span == (CHOOSE t \in times : \A u \in times : u <= t)
                - (CHOOSE t \in times : \A u \in times : t <= u)
        gaps == FlattenSeq([s \in DOMAIN sessions |->
                   [i \in 1 .. Len(sessions[s]) - 1 |->
                       1000 * (sessions[s][i + 1].time - sessions[s][i].time)]])
    IN  [shape |-> "unset", from |-> 0, to |-> 0, for |-> 60, cap |-> 0,
         rate |-> IF span > 0 /\ Len(sessions) > span THEN Round(Len(sessions), span) ELSE 1,
         think |-> IF gaps = <<>> THEN <<200, 800>>
                   ELSE <<clamp(percentileInt(gaps, 25), 0, 30000),
                          clamp(percentileInt(gaps, 75), 0, 30000)>>]

\* The scenario a log teaches; the importer's errors yield none.
fromAccessLog(log, opts) ==
    LET format == IF opts.format # "" THEN <<opts.format>> ELSE DetectAccessLogFormat(log)
        records == Records(log, format[1]).records
        sessions == sessionize(records, IF opts.gap = 0 THEN 1800 ELSE opts.gap)
        kept == capEndpoints(records, IF opts.maxNodes = 0 THEN 30 ELSE opts.maxNodes)
        g == buildLearnedGraph(sessions, kept)
    IN  IF format = None THEN {}
        ELSE IF records = <<>> THEN {}
        ELSE {[target |-> FALSE, auth |-> None, carries |-> <<>>, id |-> g.id, format |-> format[1],
               doc |-> [ZeroScenario EXCEPT !.form = "graph", !.graph = g.graph,
                           !.templates = g.templates, !.start = g.start,
                           !.maxSteps = g.maxSteps, !.open = <<suggestOpen(records, sessions)>>]]}

(***************************************************************************)
(* HAR: the recorded requests of the first origin, and their credential    *)
(***************************************************************************)
flowOf(ids) == [k \in DOMAIN ids |->
    [id |-> ids[k], dependsOn |-> NoStep, weight |-> 0, request |-> "valid"]]

\* The most frequent token, ties to the one seen first.
mostCommon(tokens) ==
    tokens[CHOOSE i \in DOMAIN tokens : \A j \in DOMAIN tokens :
              LET n(k) == Occurrences(tokens[k], tokens)
              IN  n(j) < n(i) \/ (n(j) = n(i) /\ i <= j)]

\* An Authorization header beats a cookie; a request's cookie counts only where
\* it has no such header.
captureHARToken(entries) ==
    LET token(i) == entries[i].header
        bearers == SelectSeq([i \in DOMAIN entries |-> token(i)], LAMBDA t : t # NoToken)
        cookies == SelectSeq([i \in DOMAIN entries |->
                                 IF token(i) = NoToken THEN entries[i].cookie ELSE NoToken],
                             LAMBDA t : t # NoToken)
    IN  CASE bearers # <<>> -> [token |-> mostCommon(bearers), header |-> TRUE]
          [] bearers = <<>> /\ cookies # <<>> -> [token |-> mostCommon(cookies), header |-> FALSE]
          [] OTHER -> [token |-> NoToken, header |-> FALSE]

\* methodPathOf: the entry makes a request line.
wellFormed(e) == e.origin # "" /\ e.safe

\* The index of the entry taken for the login, 0 for none: the first with a
\* login-like path, else the one whose answer holds the captured token, else the
\* first whose answer holds any, else the one before the first Authorization.
findHARLoginEntry(entries, capt) ==
    LET classified == Select(entries, LAMBDA e : e.login /\ wellFormed(e))
        minters == Select(entries, LAMBDA e : e.minted # NoToken /\ e.minted = capt.token)
        any == Select(entries, LAMBDA e : e.minted # NoToken)
        bearing == Select(entries, LAMBDA e : e.header # NoToken)
    IN  CASE classified # <<>> -> classified[1]
          [] classified = <<>> /\ minters # <<>> -> minters[1]
          [] classified = <<>> /\ minters = <<>> /\ any # <<>> -> any[1]
          [] classified = <<>> /\ any = <<>> /\ bearing # <<>> -> bearing[1] - 1
          [] OTHER -> 0

\* Which steps are rewritten to send the run's token: those whose entry carried
\* the captured header, the login's own step apart.
rewriteHARAuthSteps(entries, keptIdx, capt, login) ==
    [k \in DOMAIN keptIdx |->
        capt.header /\ keptIdx[k] # login /\ entries[keptIdx[k]].header = capt.token]

\* A login block is built from the entry even where it makes no request line
\* (valid), which Expand then refuses.
harAuth(entries, capt, login) ==
    CASE capt.token = NoToken -> None
      [] capt.token # NoToken /\ login # 0 ->
            <<[strategy |-> "login", login |-> <<login>>, valid |-> wellFormed(entries[login])]>>
      [] OTHER -> <<[strategy |-> "pool", login |-> None, valid |-> TRUE]>>

\* The first URL with a host gives the target.
FromHAR(entries) ==
    LET hosted == Select(entries, LAMBDA e : e.origin # "")
        target == entries[hosted[1]].origin
        keptIdx == Select(entries, LAMBDA e : e.origin = target /\ e.safe)
        capt == captureHARToken(entries)
        login == findHARLoginEntry(entries, capt)
    IN  IF hosted = <<>> THEN {}
        ELSE IF keptIdx = <<>> THEN {}
        ELSE {[target |-> TRUE, auth |-> harAuth(entries, capt, login),
               carries |-> rewriteHARAuthSteps(entries, keptIdx, capt, login),
               doc |-> [ZeroScenario EXCEPT
                           !.flow = flowOf(unique([k \in DOMAIN keptIdx |->
                                                      entries[keptIdx[k]].name]))]]}

(***************************************************************************)
(* OpenAPI: the operations in journey order, and the security scheme       *)
(***************************************************************************)
collectOperations(ops) ==
    SetToSortSeq(ops, LAMBDA a, b :
        LET key(o) == <<o.stage, o.depth, o.path, o.method>>
        IN  \E i \in 1 .. 4 : key(a)[i] < key(b)[i]
                              /\ \A j \in 1 .. i - 1 : key(a)[j] = key(b)[j])

classifiable(sc) == sc.kind # "other"

\* The scheme acted on: one named by the first top-level requirement that names
\* a usable one (any of them: map order), else the first usable by name.
pickScheme(schemes, top) ==
    LET named(r) == {sc \in schemes : classifiable(sc) /\ sc.name \in r}
        default == SelectSeq(top, LAMBDA r : named(r) # {})
        usable == {sc \in schemes : classifiable(sc)}
    IN  IF default # <<>> THEN named(default[1])
        ELSE {sc \in usable : \A other \in usable : sc.name <= other.name}

findLoginOp(sorted) == SelectSeq(sorted, LAMBDA o : o.stage = 0)

\* The auth block of a scheme; a login names its request as method and path.
deriveAuth(sc, sorted) ==
    CASE sc.kind \in {"password", "clientCredentials"} ->
            [strategy |-> "login", login |-> <<<<1, sc.tokenPath>>>>, valid |-> TRUE]
      [] sc.kind = "bearer" /\ findLoginOp(sorted) # <<>> ->
            LET o == findLoginOp(sorted)[1]
            IN  [strategy |-> "login", login |-> <<<<o.method, o.path>>>>, valid |-> o.safe]
      [] OTHER -> [strategy |-> "pool", login |-> None, valid |-> TRUE]

\* An operation's own requirement, even an empty one, overrides the document's.
secures(sc, o, top) ==
    \E r \in Range(IF o.security = None THEN top ELSE o.security[1]) : sc.name \in r

isLoginRequest(auth, o) == auth.login # None /\ auth.login[1] = <<o.method, o.path>>

FromOpenAPI(api) ==
    LET sorted == collectOperations(api.ops)
        usable == SelectSeq(sorted, LAMBDA o : o.safe)
        document == [ZeroScenario EXCEPT
                        !.flow = flowOf(unique([k \in DOMAIN usable |-> usable[k].name]))]
        picks == pickScheme(api.schemes, api.security)
    IN  IF usable = <<>> THEN {}
        ELSE IF picks = {}
        THEN {[target |-> api.absolute, auth |-> None, doc |-> document,
               carries |-> [k \in DOMAIN usable |-> FALSE]]}
        ELSE {LET auth == deriveAuth(sc, sorted)
              IN  [target |-> api.absolute, auth |-> <<auth>>, doc |-> document,
                   carries |-> [k \in DOMAIN usable |->
                                   secures(sc, usable[k], api.security)
                                   /\ ~ isLoginRequest(auth, usable[k])]] : sc \in picks}

(***************************************************************************)
(* tmula init                                                              *)
(***************************************************************************)
importScenario(src) ==
    CASE src.kind = "log" -> fromAccessLog(src.log, src.opts)
      [] src.kind = "har" -> FromHAR(src.har)
      [] src.kind = "openapi" -> FromOpenAPI(src.api)

ImportInit ==
    /\ imported = None
    /\ \/ source = Authored /\ JourneyInit
       \/ /\ source \in Recordings
          /\ doc = ZeroScenario /\ stage = "recorded" /\ spec = None
          /\ path = <<>> /\ maxSteps = 0

\* An import that yields nothing, or no target, is an error to its author.
Import ==
    /\ stage = "recorded"
    /\ IF importScenario(source) = {}
       THEN stage' = "refused" /\ UNCHANGED <<doc, imported>>
       ELSE \E result \in importScenario(source) :
               /\ imported' = <<result>>
               /\ doc' = [result.doc EXCEPT !.target = source.target \/ result.target,
                             !.auth = \A a \in Range(result.auth) : a.valid]
               /\ stage' = IF doc'.target THEN "authored" ELSE "refused"
    /\ UNCHANGED <<source, spec, path, maxSteps>>

ImportNext ==
    \/ Import
    \/ JourneyNext /\ UNCHANGED <<source, imported>>

ImportSpec == ImportInit /\ [][ImportNext]_importVars

(***************************************************************************)
(* Properties                                                              *)
(***************************************************************************)

\* What is imported runs: whatever the recording, the document passes the
\* scenario checks and the control plane's, and its sessions start.
ImportRuns ==
    source.kind # "authored" => stage \notin {"rejected", "failed"}

\* A learned graph can replay what was observed: two requests a client made one
\* after the other, neither filtered nor folded away and with no idle gap from
\* one request to the next between them, are joined by an edge the walker can
\* take, and a request no other follows leads to the exit, unless its share of
\* the departures rounds to nothing.
LearnedWalks ==
    (source.kind = "log" /\ imported # None) =>
        LET log == source.log
            id == imported[1].id
            gap == IF source.opts.gap = 0 THEN 1800 ELSE source.opts.gap
            usable == {i \in DOMAIN log :
                         keepRequest(log[i]) /\ parses(imported[1].format, log[i],
                                                       \E j \in 1 .. i : log[j].shape = "#Fields")}
            kept == {i \in usable : log[i].endpoint \in DOMAIN id}
            before(i, j) == /\ log[i].client = log[j].client
                            /\ \/ log[i].time < log[j].time
                               \/ (log[i].time = log[j].time /\ i < j)
            idle(i, j) == \E m, n \in {o \in usable : log[o].client = log[i].client} :
                             /\ ~ before(m, i) /\ before(m, n) /\ ~ before(j, n)
                             /\ \A o \in usable : ~ (before(m, o) /\ before(o, n))
                             /\ log[n].time - log[m].time > gap
            follows(i, j) == /\ before(i, j) /\ ~ idle(i, j)
                             /\ \A o \in kept : ~ (before(i, o) /\ before(o, j))
            next(i) == IF \E j \in kept : follows(i, j)
                       THEN id[log[CHOOSE j \in kept : follows(i, j)].endpoint] ELSE "exit"
            from(i) == {m \in kept : log[m].endpoint = log[i].endpoint}
            same(i) == {m \in from(i) : next(m) = next(i)}
        IN  \A i \in kept :
               200 * Cardinality(same(i)) >= Cardinality(from(i)) =>
                  \E e \in Edges(imported[1].doc.graph) :
                      e.from = id[log[i].endpoint] /\ e.to = next(i) /\ e.weight > 0

\* A recording replays with the run's own credential where it was recorded with
\* the captured one: step by step, the requests of the target's origin that
\* carried it send the token, the login that mints it and the rest do not.
HeaderReplayed ==
    (source.kind = "har" /\ imported # None) =>
        LET har == source.har
            target == CHOOSE o \in {har[i].origin : i \in DOMAIN har} :
                         \E i \in DOMAIN har : /\ har[i].origin = o /\ o # ""
                                               /\ \A j \in 1 .. i - 1 : har[j].origin = ""
            own == Select(har, LAMBDA e : e.origin = target /\ e.safe)
            bearers == {e.header : e \in Range(har)} \ {NoToken}
            mints(i) == imported[1].auth[1].login = <<i>>
        IN  /\ Len(own) = Len(imported[1].doc.flow)
            /\ Cardinality(bearers) <= 1 =>
                  \A k \in DOMAIN own :
                     imported[1].carries[k] <=> har[own[k]].header # NoToken /\ ~ mints(own[k])

\* An import runs and keeps what the recording shows: the observed transitions, and the
\* requests that carried the credential.
ImportSound == ImportRuns /\ LearnedWalks /\ HeaderReplayed
=============================================================================
