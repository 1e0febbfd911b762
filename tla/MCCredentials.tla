---------------------------- MODULE MCCredentials ----------------------------
(* Instance of Credentials for TLC: each authored strategy alone and crossed  *)
(* with one misplaced field, each posted pool, and every topology and place   *)
(* a referenced body can be missing from.                                     *)
EXTENDS Credentials

File(format) == [file |-> TRUE, env |-> FALSE, format |-> format, maxBytes |-> 2]
Env(format) == [file |-> FALSE, env |-> TRUE, format |-> format, maxBytes |-> 0]
NoRef == [file |-> TRUE, env |-> TRUE, format |-> "csv", maxBytes |-> 0]
References == {File(f) : f \in {"csv", "jsonl", "tokens"}} \cup {Env("csv"), Env("xml"), NoRef}

Sign(alg) == [alg |-> alg, encoding |-> "base64", key |-> <<Env("")>>, ttl |-> 1, exp |-> "stamped"]
Mints == {Sign(alg) : alg \in {"HS256", "RS256", "ES256", "none"}}
         \cup {[Sign("HS256") EXCEPT !.encoding = "raw", !.exp = x] : x \in {"number", "text"}}
         \cup {[Sign("HS256") EXCEPT !.ttl = 0], [Sign("HS256") EXCEPT !.key = <<>>],
               [Sign("HS256") EXCEPT !.key = <<NoRef>>], [Sign("HS256") EXCEPT !.encoding = ""]}
Program == [command |-> <<"program">>, timeout |-> 0, maxOutputBytes |-> 0]
Execs == {Program, [Program EXCEPT !.command = <<"empty">>], [Program EXCEPT !.timeout = -1]}
Walk == [graph |-> TRUE, start |-> TRUE, refresh |-> "none"]

Block == [strategy |-> "pool", users |-> <<>>, source |-> None, pattern |-> None,
          login |-> "none", shared |-> FALSE, signup |-> "none", mint |-> None,
          exec |-> None, keep |-> FALSE, placeholder |-> FALSE]

Authored ==
    {[Block EXCEPT !.users = u, !.strategy = s] : u \in {<<TRUE, TRUE>>, <<TRUE, FALSE>>}, s \in {"unset", "pool"}}
    \cup {[Block EXCEPT !.source = <<x>>] : x \in References}
    \cup {[Block EXCEPT !.pattern = <<n>>] : n \in {0, 2, 3}}
    \cup {[Block EXCEPT !.strategy = "login", !.login = "ok", !.shared = sh, !.users = u, !.source = src] :
             sh \in BOOLEAN, u \in {<<>>, <<TRUE, TRUE>>}, src \in {None, <<File("csv")>>}}
    \cup {[Block EXCEPT !.strategy = "bootstrap-signup", !.signup = x, !.keep = k] :
             x \in {"none", "bad", "flow", "teardown"}, k \in BOOLEAN}
    \cup {[Block EXCEPT !.strategy = "mint", !.mint = m] : m \in {None} \cup {<<x>> : x \in Mints}}
    \cup {[Block EXCEPT !.strategy = s, !.exec = e] :
             s \in {"exec", "sso"}, e \in {None} \cup {<<x>> : x \in Execs}}

Misplaced(a) == {a, [a EXCEPT !.placeholder = TRUE], [a EXCEPT !.login = "bad"],
                 [a EXCEPT !.users = <<TRUE>>], [a EXCEPT !.mint = <<Sign("RS256")>>]}

Proper ==
    {[NoPool EXCEPT !.strategy = "pool"], [NoPool EXCEPT !.strategy = "pool", !.entries = <<TRUE, TRUE>>]}
    \cup {[NoPool EXCEPT !.strategy = "mint", !.mint = <<m>>] : m \in Mints}
    \cup {[NoPool EXCEPT !.strategy = "exec", !.exec = <<e>>] : e \in Execs}
    \cup {[NoPool EXCEPT !.strategy = "login", !.login = TRUE, !.shared = sh, !.entries = u] :
             sh \in BOOLEAN, u \in {<<>>, <<TRUE, TRUE>>}}
    \cup {[NoPool EXCEPT !.strategy = "bootstrap-signup", !.signup = g] :
             g \in {"bare", "bad", "flow", "teardown"}}

Pools == UNION {{[p EXCEPT !.source = src], [p EXCEPT !.source = src, !.keep = TRUE],
                 [p EXCEPT !.source = src, !.login = FALSE], [p EXCEPT !.source = src, !.mint = None]} :
                    p \in Proper, src \in {None, <<Env("csv")>>, <<File("tokens")>>, <<NoRef>>}}

Blank == [via |-> "cli", auth |-> None, authSource |-> None, engine |-> FALSE,
          keepAccounts |-> FALSE, allowExec |-> TRUE, defaultWorkers |-> FALSE, open |-> FALSE,
          reach |-> {"cli", "engine", "worker"}, body |-> <<TRUE, TRUE>>, key |-> "base64",
          output |-> "token",
          spec |-> [pool |-> None, open |-> FALSE, workers |-> FALSE, aggregate |-> FALSE,
                    loginFlow |-> None]]

Command ==
    {[Blank EXCEPT !.auth = <<a>>, !.engine = e[1], !.defaultWorkers = e[2], !.open = o, !.key = k] :
        a \in UNION {Misplaced(x) : x \in Authored}, o \in BOOLEAN, k \in {"base64", "rsa"},
        e \in {<<FALSE, FALSE>>, <<TRUE, FALSE>>, <<TRUE, TRUE>>}}
    \cup {[Blank EXCEPT !.auth = <<a>>, !.authSource = f, !.engine = e[1], !.defaultWorkers = e[2],
                        !.body = b, !.reach = r, !.keepAccounts = TRUE] :
             a \in Authored, f \in {None, <<File("csv")>>, <<File("tokens")>>},
             e \in {<<FALSE, FALSE>>, <<TRUE, TRUE>>},
             b \in {<<TRUE, FALSE>>, <<FALSE>>, <<TRUE, FALSE, TRUE>>},
             r \in {{"cli", "engine", "worker"}, {"cli", "engine"}, {}}}
    \cup {Blank, [Blank EXCEPT !.engine = TRUE]}

Posted ==
    {[Blank EXCEPT !.via = "http", !.body = b, !.reach = r, !.allowExec = r # {"worker"},
                   !.key = IF o THEN "p256" ELSE "base64", !.output = IF f = None THEN "nothing" ELSE "token",
                   !.spec = [pool |-> <<p>>, open |-> o, workers |-> t[1], aggregate |-> t[2],
                             loginFlow |-> f]] :
        p \in Pools, o \in BOOLEAN,
        f \in {None, <<Walk>>, <<[Walk EXCEPT !.start = FALSE]>>},
        t \in {<<FALSE, FALSE>>, <<TRUE, FALSE>>, <<FALSE, TRUE>>, <<TRUE, TRUE>>},
        b \in {<<TRUE, TRUE>>, <<FALSE>>},
        r \in {{"engine", "worker"}, {"engine"}, {"worker"}}}

AllInputs == Command \cup Posted
==============================================================================
