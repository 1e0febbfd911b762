---------------------------- MODULE Credentials ----------------------------
(***************************************************************************)
(* How a run gets its principals: from an authored auth block or a posted  *)
(* credential pool, through the CLI, the control plane's validation and    *)
(* the run's topology, to the credential each virtual user carries, and to *)
(* the credential a finding of the run is replayed with.                   *)
(*                                                                         *)
(* A row of a credential body is TRUE when its token cell is filled.  A    *)
(* principal is a kind and an index: <<"bearer", r>> sends row r's secret  *)
(* as a token, <<"login", r>> logs in as row (or user) r, <<"account", i>> *)
(* signed up, <<"jwt", i>> signed its own token, <<"command", i>> ran the  *)
(* operator's command.  An optional value is empty or its one member.      *)
(***************************************************************************)
EXTENDS Integers, FiniteSets, SequencesExt

CONSTANTS
    Inputs,    \* the invocations considered
    NumUsers,  \* closed users, or arrivals of an open run
    MaxPattern \* generatorMaxCount

\* A reference to a credential body or a signing key: a path or a variable.
CredentialSourceRef == [file : BOOLEAN, env : BOOLEAN, format : STRING, maxBytes : Int]

\* exp is what the claims make of the expiry: stamped, or overridden.
MintSpec ==
    [alg : STRING, encoding : STRING, key : Seq(CredentialSourceRef), ttl : Int,
     exp : {"stamped", "number", "text"}]

ExecSpec == [command : Seq({"empty", "program"}), timeout : Int, maxOutputBytes : Int]

LoginFlowSpec == [graph : BOOLEAN, start : BOOLEAN, refresh : {"none", "ok", "bad"}]

\* "bad" steps lack an id or a request; "bare" is a flow id with no flow.
SignupFlow == {"none", "bare", "bad", "flow", "teardown"}

\* An auth block: a strategy, the forms of rows it gives and its nested blocks.
\* A login flow is "bad" when its own graph or start is refused; a block without a
\* strategy has it "unset".
Auth ==
    [strategy : STRING, users : Seq(BOOLEAN), source : Seq(CredentialSourceRef),
     pattern : Seq(Int), login : {"none", "ok", "bad"}, shared : BOOLEAN,
     signup : SignupFlow, mint : Seq(MintSpec), exec : Seq(ExecSpec),
     keep : BOOLEAN, placeholder : BOOLEAN]

CredentialPool ==
    [strategy : STRING, entries : Seq(BOOLEAN), source : Seq(CredentialSourceRef),
     signup : SignupFlow, keep : BOOLEAN, login : BOOLEAN, shared : BOOLEAN,
     mint : Seq(MintSpec), exec : Seq(ExecSpec)]

\* What of a run spec decides its principals.
RunSpec ==
    [pool : Seq(CredentialPool), open : BOOLEAN, workers : BOOLEAN, aggregate : BOOLEAN,
     loginFlow : Seq(LoginFlowSpec)]

ASSUME CredentialsAssumption ==
    /\ NumUsers \in Nat \ {0} /\ MaxPattern \in Nat \ {0}
    /\ \A i \in Inputs :
          /\ i.auth \in Seq(Auth) /\ Len(i.auth) <= 1
          /\ i.body \in Seq(BOOLEAN)
          /\ i.spec \in RunSpec /\ Len(i.spec.pool) <= 1
          /\ i.via \in {"cli", "http"}
          /\ i.via = "http" => i.spec.pool # <<>>
          /\ i.defaultWorkers => i.engine

VARIABLES
    in,        \* the invocation: what was authored and where
    stage,     \* "authored", "expanded", "submitted", "created", "started",
               \* "running", "replayed", "refused", "failed" or "not replayed"
    spec,      \* the run spec as it stands at this stage
    creds,     \* the principal of each user index, once running
    session,   \* the user index whose evidence a finding carries
    replay     \* the principal the replay of that session uses

vars == <<in, stage, spec, creds, session, replay>>

None == <<>>
Anonymous == <<"none", 0>>
Dropped == <<"dropped", 0>>
Idx == 0 .. NumUsers - 1

NoPool == [strategy |-> "none", entries |-> <<>>, source |-> None, signup |-> "none",
           keep |-> FALSE, login |-> FALSE, shared |-> FALSE, mint |-> None, exec |-> None]

(***************************************************************************)
(* Credential bodies and keys (auth/source.go, mintkey.go, domain)         *)
(***************************************************************************)

\* A row keeps an empty token cell...
parseCSV(rows) == rows
\* ...an object may not have one...
parseJSONL(rows) == IF FALSE \in Range(rows) THEN None ELSE rows
\* ...and a blank line is no row at all.
parseTokens(rows) == [k \in 1 .. Cardinality({j \in DOMAIN rows : rows[j]}) |-> TRUE]

\* A body without a row is an error, as is an unknown format.
ParseReader(format, rows) ==
    CASE format = "csv" -> parseCSV(rows)
      [] format = "jsonl" -> parseJSONL(rows)
      [] format = "tokens" -> parseTokens(rows)
      [] OTHER -> None

OneOf(ref) == ref.file # ref.env

ValidSourceRef(ref) ==
    OneOf(ref) /\ ref.format \in {"csv", "jsonl", "tokens"} /\ ref.maxBytes >= 0

\* The body as one host sees it.  The variable is unset, or the file missing or
\* outside its root, on a host out of reach; a file over the cap is refused.
EnvLoad(ref, host) ==
    IF host \in in.reach THEN ParseReader(ref.format, in.body) ELSE None

FileLoad(ref, host) ==
    IF host \in in.reach /\ (ref.maxBytes <= 0 \/ Len(in.body) <= ref.maxBytes)
    THEN ParseReader(ref.format, in.body) ELSE None

SourceLoad(ref, host) == IF ref.env THEN EnvLoad(ref, host) ELSE FileLoad(ref, host)

\* The scenario file's loader checks less than a reference on the wire.
credentialSourceFor(ref) == IF OneOf(ref) THEN SourceLoad(ref, "cli") ELSE None

SourceFromRef(ref, host) == IF ValidSourceRef(ref) THEN SourceLoad(ref, host) ELSE None

\* GeneratorSource: a positive count of rendered rows, at most MaxPattern.
GeneratorSource(count) ==
    IF count \in 1 .. MaxPattern THEN [k \in 1 .. count |-> TRUE] ELSE None

ValidMint(m) ==
    /\ m.alg \in {"HS256", "RS256", "ES256"}
    /\ m.ttl > 0
    /\ m.key # None /\ OneOf(m.key[1])
    /\ m.alg = "HS256" => m.encoding \in {"raw", "base64"}

\* in.key is the kind of key body deployed where the reference points.
readMintKeyBody(ref, host) == IF OneOf(ref) /\ host \in in.reach THEN <<in.key>> ELSE None

DecodeKey(m, body) ==
    CASE m.alg = "HS256" -> m.encoding = "raw" \/ body = "base64"
      [] m.alg = "RS256" -> body = "rsa"
      [] OTHER -> body = "p256"

ResolveMintKey(m, host) ==
    LET body == IF m.key = None THEN None ELSE readMintKeyBody(m.key[1], host)
    IN  body # None /\ DecodeKey(m, body[1])

\* MintProvider.Acquire: an overridden expiry must be a number.
MintAcquire(m, i) == IF m.exp = "text" THEN None ELSE <<"jwt", i>>

ValidExec(e) ==
    e.command # <<>> /\ e.command[1] # "empty" /\ e.timeout >= 0 /\ e.maxOutputBytes >= 0

\* A command that fails, floods its output or prints nothing is an error.
ExecToken(e, i) ==
    IF e.command # <<>> /\ e.command[1] # "empty" /\ in.output = "token"
    THEN <<"command", i>> ELSE None

ValidLoginFlow(f) == f.graph /\ f.start /\ f.refresh # "bad"

ValidSignupFlow(f) == f # "bad"

\* PoolProvider: entry i modulo the pool.
Bearer(rows, i) ==
    LET r == i % Len(rows) IN IF rows[r + 1] THEN <<"bearer", r>> ELSE Anonymous

(***************************************************************************)
(* The authored auth block (scenariofile.go)                               *)
(***************************************************************************)
RowForms(a) ==
    {f \in {"users", "source", "pattern"} :
        CASE f = "users" -> a.users # <<>>
          [] f = "source" -> a.source # None
          [] OTHER -> a.pattern # None}

exactlyOneAuthRowSource(a) == Cardinality(RowForms(a)) <= 1

resolveAuthRows(a) ==
    CASE RowForms(a) = {"users"} -> a.users
      [] RowForms(a) = {"pattern"} -> GeneratorSource(a.pattern[1])
      [] OTHER -> credentialSourceFor(a.source[1])

buildPoolCredentials(a, keepSourceRef) ==
    IF a.login # "none" \/ RowForms(a) = {} \/ ~ exactlyOneAuthRowSource(a) THEN None
    ELSE IF a.source # None /\ keepSourceRef
         THEN IF ValidSourceRef(a.source[1])
              THEN <<[NoPool EXCEPT !.strategy = "pool", !.source = a.source]>>
              ELSE None
         ELSE IF resolveAuthRows(a) = None THEN None
              ELSE <<[NoPool EXCEPT !.strategy = "pool", !.entries = resolveAuthRows(a)]>>

\* Rows are login inputs here (user name and password), always resolved.
buildLoginCredentials(a) ==
    IF \/ ~ exactlyOneAuthRowSource(a)
       \/ RowForms(a) # {} /\ resolveAuthRows(a) = None
       \/ a.login # "ok"
    THEN None
    ELSE <<[NoPool EXCEPT !.strategy = "login", !.login = TRUE, !.shared = a.shared,
                          !.entries = IF RowForms(a) = {} THEN <<>> ELSE resolveAuthRows(a)]>>

buildSignupFlow(sg) == IF sg = "bad" THEN None ELSE <<sg>>

buildBootstrapCredentials(a) ==
    IF RowForms(a) # {} \/ a.login # "none" \/ a.signup = "none"
       \/ buildSignupFlow(a.signup) = None
    THEN None
    ELSE <<[NoPool EXCEPT !.strategy = "bootstrap-signup", !.signup = a.signup,
                          !.keep = a.keep]>>

buildMintCredentials(a) ==
    IF RowForms(a) # {} \/ a.login # "none" \/ a.mint = None \/ ~ ValidMint(a.mint[1])
    THEN None
    ELSE <<[NoPool EXCEPT !.strategy = "mint", !.mint = a.mint]>>

buildExecCredentials(a) ==
    IF RowForms(a) # {} \/ a.login # "none" \/ a.mint # None
       \/ a.exec = None \/ ~ ValidExec(a.exec[1])
    THEN None
    ELSE <<[NoPool EXCEPT !.strategy = "exec", !.exec = a.exec]>>

checkNoReplaceMe(a) == ~ a.placeholder

buildCredentialPool(a, keepSourceRef) ==
    IF ~ checkNoReplaceMe(a) THEN None
    ELSE CASE a.strategy \in {"unset", "pool"} -> buildPoolCredentials(a, keepSourceRef)
           [] a.strategy = "login" -> buildLoginCredentials(a)
           [] a.strategy = "bootstrap-signup" -> buildBootstrapCredentials(a)
           [] a.strategy = "mint" -> buildMintCredentials(a)
           [] a.strategy = "exec" -> buildExecCredentials(a)
           [] OTHER -> None

(***************************************************************************)
(* The command line (cmd/tmula/run.go)                                     *)
(***************************************************************************)
sourceBackedAuth(a) == a.source # None /\ a.strategy \in {"unset", "pool"}

\* --auth-source replaces the scenario's auth block by rows loaded here.
resolveAuthSourceFlag ==
    LET rows == credentialSourceFor(in.authSource[1])
    IN  IF rows = None THEN None
        ELSE <<[NoPool EXCEPT !.strategy = "pool", !.entries = rows]>>

\* --keep-accounts is put on whatever pool the spec ends up with.
Kept(pools) == IF pools = None THEN None
               ELSE <<[pools[1] EXCEPT !.keep = @ \/ in.keepAccounts]>>

runSpec(pools) ==
    [pool |-> Kept(pools), open |-> in.open, workers |-> FALSE, aggregate |-> FALSE,
     loginFlow |-> IF pools # None /\ pools[1].strategy = "login"
                   THEN <<[graph |-> TRUE, start |-> TRUE, refresh |-> "none"]>> ELSE None]

Init ==
    /\ in \in Inputs
    /\ stage = IF in.via = "http" THEN "submitted" ELSE "authored"
    /\ spec = IF in.via = "http" THEN in.spec ELSE runSpec(None)
    /\ creds = [i \in Idx |-> Anonymous]
    /\ session = 0
    /\ replay = Anonymous

Refuse(s) ==
    /\ stage' = s
    /\ UNCHANGED <<in, spec, creds, session, replay>>

Expand ==
    /\ stage = "authored"
    /\ LET pools == IF in.authSource # None THEN resolveAuthSourceFlag
                    ELSE buildCredentialPool(in.auth[1], in.engine /\ sourceBackedAuth(in.auth[1]))
       IN  IF in.auth = None /\ in.authSource = None
           THEN /\ stage' = "expanded"
                /\ UNCHANGED <<in, spec, creds, session, replay>>
           ELSE IF pools = None THEN Refuse("refused")
           ELSE /\ stage' = "expanded"
                /\ spec' = runSpec(pools)
                /\ UNCHANGED <<in, creds, session, replay>>

\* In-process the spec is handed over as it is.  To a remote engine only a
\* source reference may go, and marshalling a credential leaves its secret out.
Marshalled(pools) == IF pools = None THEN None
                     ELSE <<[pools[1] EXCEPT !.entries = [k \in DOMAIN @ |-> FALSE]]>>

Mut_Submit ==
    /\ stage = "expanded"
    /\ stage' = "submitted"
    /\ spec' = IF in.engine THEN [spec EXCEPT !.pool = Marshalled(@)] ELSE spec
    /\ UNCHANGED <<in, creds, session, replay>>

Submit ==
    /\ stage = "expanded"
    /\ IF in.engine /\ spec.pool # None /\ spec.pool[1].source = None
       THEN Refuse("refused")
       ELSE /\ stage' = "submitted"
            /\ spec' = IF in.engine THEN [spec EXCEPT !.pool = Marshalled(@)] ELSE spec
            /\ UNCHANGED <<in, creds, session, replay>>

(***************************************************************************)
(* The control plane's validation                                          *)
(***************************************************************************)

\* domain.CredentialPool.Validate
ValidPool(p) ==
    /\ p.strategy \in {"pool", "login", "bootstrap-signup", "mint", "exec"}
    /\ p.strategy \in {"pool", "login"} =>
          /\ p.entries = <<>> \/ p.source = None
          /\ p.source # None => ValidSourceRef(p.source[1])
    /\ p.strategy = "pool" => p.entries # <<>> \/ p.source # None
    /\ p.strategy = "bootstrap-signup" => p.signup # "none" /\ ValidSignupFlow(p.signup)
    /\ p.strategy = "login" => p.login
    /\ p.strategy = "mint" => p.mint # None /\ ValidMint(p.mint[1])
    /\ p.strategy = "exec" => p.exec # None /\ ValidExec(p.exec[1])

\* authmatrix.go: the strategies that ship a reference a worker resolves.
allowsWorkers(strategy) == strategy = "mint"

validateCredentialPool(s) ==
    s.pool # None =>
        LET p == s.pool[1]
            hasWorkers == s.workers \/ s.aggregate
        IN  /\ ValidPool(p)
            /\ IF p.source # None THEN hasWorkers
               ELSE /\ p.strategy = "bootstrap-signup" =>
                          p.signup = "teardown" \/ (p.signup = "flow" /\ p.keep)
                    /\ p.strategy = "login" => s.loginFlow # None /\ ValidLoginFlow(s.loginFlow[1])
                    /\ hasWorkers => allowsWorkers(p.strategy)

\* An engine started with --workers lends them to a spec that names none.
Create ==
    /\ stage = "submitted"
    /\ LET s == [spec EXCEPT !.workers = @ \/ in.defaultWorkers]
       IN  IF (s.open => ~ (s.workers \/ s.aggregate)) /\ validateCredentialPool(s)
           THEN /\ stage' = "created" /\ spec' = s
                /\ UNCHANGED <<in, creds, session, replay>>
           ELSE Refuse("refused")

Strategy(s) == IF s.pool = None THEN "none" ELSE s.pool[1].strategy

StartRun ==
    /\ stage = "created"
    /\ IF Strategy(spec) = "exec" /\ ~ in.allowExec
       THEN Refuse("refused")
       ELSE Refuse("started")

(***************************************************************************)
(* Providers and topologies                                                *)
(***************************************************************************)
Host == IF in.via = "cli" /\ ~ in.engine THEN "cli" ELSE "engine"

\* Each provider gives no principal when it cannot be built or refuses.
PoolProvider(rows, i) == IF rows = <<>> THEN None ELSE Bearer(rows, i)

\* loginAuth.cacheKey: a shared scope collapses every index onto one login.
cacheKey(p, i) == IF p.shared THEN 0 ELSE i

\* The login flow walks as the row its key selects.
loginAuthFor(s, i) ==
    LET p == s.pool[1]
        k == cacheKey(p, i)
    IN  IF s.loginFlow = None THEN None
        ELSE <<"login", IF p.entries = <<>> THEN k ELSE k % Len(p.entries)>>

bootstrapAuthFor(s, i) ==
    IF s.pool[1].signup \in {"flow", "teardown"} THEN <<"account", i>> ELSE None

NewProvider(p, i) ==
    CASE p.strategy = "pool" -> PoolProvider(p.entries, i)
      [] p.strategy = "mint" -> IF p.mint = None THEN None ELSE MintAcquire(p.mint[1], i)
      [] p.strategy = "exec" -> IF p.exec = None THEN None ELSE ExecToken(p.exec[1], i)
      [] OTHER -> None

CredentialProvider(s, i) ==
    LET p == s.pool[1]
    IN  IF p.strategy = "mint" /\ (p.mint = None \/ ~ ResolveMintKey(p.mint[1], Host))
        THEN None ELSE NewProvider(p, i)

\* authenticateClosedUsers, and the open scheduler's credential per arrival.
Provider(s, i) ==
    CASE Strategy(s) = "bootstrap-signup" -> bootstrapAuthFor(s, i)
      [] Strategy(s) = "login" -> loginAuthFor(s, i)
      [] OTHER -> CredentialProvider(s, i)

\* What crosses to the workers: the source reference of any pool, the mint
\* spec of a mint pool.
shardSpecFor(s) ==
    [source |-> IF s.pool = None THEN None ELSE s.pool[1].source,
     mint |-> IF Strategy(s) = "mint" THEN s.pool[1].mint ELSE None]

ValidShard(shard) ==
    /\ shard.source # None => ValidSourceRef(shard.source[1])
    /\ shard.mint # None => shard.source = None /\ ValidMint(shard.mint[1])

\* The worker's own provider, and the credential it gives a user.
resolveProvider(shard, i) ==
    IF shard.mint # None
    THEN IF ResolveMintKey(shard.mint[1], "worker") THEN MintAcquire(shard.mint[1], i) ELSE None
    ELSE IF shard.source = None THEN Anonymous
    ELSE PoolProvider(SourceFromRef(shard.source[1], "worker"), i)

authenticateUsers(shard, i) == IF ValidShard(shard) THEN resolveProvider(shard, i) ELSE None

\* execute builds the bootstrap provider before it looks at the topology.
Setup(s) == Strategy(s) = "bootstrap-signup" => bootstrapAuthFor(s, 0) # None

Principal(s, i) ==
    IF s.workers THEN authenticateUsers(shardSpecFor(s), i)
    ELSE IF s.pool = None THEN Anonymous ELSE Provider(s, i)

Authenticate ==
    /\ stage = "started"
    /\ IF Setup(spec) /\ \A i \in Idx : Principal(spec, i) # None
       THEN /\ stage' = "running"
            /\ creds' = [i \in Idx |-> Principal(spec, i)]
            /\ UNCHANGED <<in, spec, session, replay>>
       ELSE Refuse("failed")

\* The target (or the command) refuses some users: a closed run fails as a
\* whole, an open one drops those sessions and records the setup errors.
Remote == Strategy(spec) \in {"login", "bootstrap-signup", "exec"} /\ ~ spec.workers

AcquireFails ==
    /\ stage = "started"
    /\ Remote
    /\ ~ spec.open
    /\ Refuse("failed")

AcquireDrops ==
    /\ stage = "started"
    /\ Remote
    /\ spec.open
    /\ \A i \in Idx : Principal(spec, i) # None
    /\ \E dropped \in SUBSET Idx \ {{}} :
          creds' = [i \in Idx |-> IF i \in dropped THEN Dropped ELSE Principal(spec, i)]
    /\ stage' = "running"
    /\ UNCHANGED <<in, spec, session, replay>>

(***************************************************************************)
(* Replay (api/reproduce.go)                                               *)
(***************************************************************************)

\* An open session's evidence carries its arrival number, which starts at 1;
\* a closed or distributed one its user index.
UserIndex(who) == IF spec.open THEN who + 1 ELSE who

sourceProviderFor(ref, idx) == PoolProvider(SourceFromRef(ref, "engine"), idx)

Mut_sessionUser(s, userIndex) ==
    LET idx == userIndex
    IN  IF s.pool = None THEN Anonymous
        ELSE IF Strategy(s) \in {"login", "bootstrap-signup"} THEN Provider(s, idx)
        ELSE IF s.pool[1].source # None THEN sourceProviderFor(s.pool[1].source[1], idx)
        ELSE IF Strategy(s) = "exec" /\ ~ in.allowExec THEN None
        ELSE Provider(s, idx)

sessionUser(s, userIndex) ==
    LET idx == IF s.open /\ userIndex > 0 THEN userIndex - 1 ELSE userIndex
    IN  IF s.pool = None THEN Anonymous
        ELSE IF Strategy(s) \in {"login", "bootstrap-signup"} THEN Provider(s, idx)
        ELSE IF s.pool[1].source # None THEN sourceProviderFor(s.pool[1].source[1], idx)
        ELSE IF Strategy(s) = "exec" /\ ~ in.allowExec THEN None
        ELSE Provider(s, idx)

\* An aggregated run keeps no session coordinates, so it has nothing to replay.
Reproduce ==
    /\ stage = "running"
    /\ Host = "engine"
    /\ ~ (spec.workers /\ spec.aggregate)
    /\ \E who \in {i \in Idx : creds[i] # Dropped} :
          /\ session' = who
          /\ LET user == sessionUser(spec, UserIndex(who))
             IN  IF user = None
                 THEN stage' = "not replayed" /\ replay' = replay
                 ELSE stage' = "replayed" /\ replay' = user
    /\ UNCHANGED <<in, spec, creds>>

Next ==
    \/ Expand \/ Submit \/ Create \/ StartRun
    \/ Authenticate \/ AcquireFails \/ AcquireDrops
    \/ Reproduce

Spec == Init /\ [][Next]_vars

(***************************************************************************)
(* Properties                                                              *)
(***************************************************************************)
Running == stage \in {"running", "replayed", "not replayed"}

\* The rows whoever started the run supplied, wherever they were resolved.
AuthoredRows ==
    IF in.via = "http" THEN in.spec.pool[1].entries \o in.body
    ELSE (IF in.auth = None THEN <<>> ELSE in.auth[1].users) \o in.body

\* A run that declares credentials never sends an unauthenticated user: whatever
\* is missing (a body no host can read, secrets the wire leaves out, a strategy
\* the topology cannot serve) refuses or fails the run.  The one exception is a
\* row authored with an empty token.
NoSilentAnonymous ==
    (Running /\ (spec.pool # None \/ (in.via = "cli" /\ in.auth # None))) =>
        \A i \in Idx : creds[i] = Anonymous => FALSE \in Range(AuthoredRows)

\* Every run of the distributed-auth table (only a plain pool or a mint key
\* fans out) replays a session under the principal the session ran as, open
\* and closed, local and distributed.
ReplaySame ==
    (stage = "replayed" /\ spec.pool # None
        /\ (spec.pool[1].source # None => Strategy(spec) = "pool")) =>
        replay = creds[session]

(***************************************************************************)
(* The inductive invariant of the proofs                                   *)
(***************************************************************************)
Supplied(rows) ==
    rows \in Seq(BOOLEAN) /\ (FALSE \in Range(rows) => FALSE \in Range(AuthoredRows))

\* A run spec has its five fields.
Shaped(s) == s = [pool |-> s.pool, open |-> s.open, workers |-> s.workers,
                  aggregate |-> s.aggregate, loginFlow |-> s.loginFlow]

\* The pool of a spec comes from what was authored: its rows are the supplied ones,
\* and the command line leaves a referenced body to whoever runs the spec.
PoolInv ==
    /\ Shaped(spec)
    /\ stage \in {"authored", "expanded"} => in.via = "cli"
    /\ in.via = "cli" /\ in.auth # None /\ stage \notin {"authored", "refused"} =>
          spec.pool # None
    /\ spec.pool # None =>
          /\ "entries" \in DOMAIN spec.pool[1] /\ Supplied(spec.pool[1].entries)
          /\ in.via = "cli" /\ spec.pool[1].source # None => spec.pool[1].entries = <<>>

\* A run has a spec that was validated.
SpecInv ==
    stage \in {"created", "started"} \/ Running =>
        /\ validateCredentialPool(spec)
        /\ spec.open => ~ (spec.workers \/ spec.aggregate)

\* Its users have the principals their topology gives them.
CredsInv ==
    Running => \A i \in Idx :
        creds[i] = Dropped \/ (creds[i] = Principal(spec, i) /\ creds[i] # None)

CredentialsInv == in \in Inputs /\ PoolInv /\ SpecInv /\ CredsInv /\ ReplaySame
=============================================================================
