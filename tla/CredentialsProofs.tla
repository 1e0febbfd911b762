------------------------- MODULE CredentialsProofs -------------------------
(***************************************************************************)
(* A run that declares credentials never sends an unauthenticated user,    *)
(* and a finding is replayed under the principal its session ran as, for   *)
(* every invocation: any block or pool, body, topology, host and number of *)
(* users.                                                                  *)
(***************************************************************************)
EXTENDS Credentials, FiniteSetTheorems, SequenceTheorems, TLAPS

\* What a proof needs to know of an invocation.
LEMMA Invocations ==
  ASSUME NEW i \in Inputs
  PROVE  /\ i.auth \in Seq(Auth) /\ Len(i.auth) <= 1
         /\ i.body \in Seq(BOOLEAN)
         /\ i.via \in {"cli", "http"}
         /\ i.via = "http" => i.spec.pool # <<>>
         /\ i.spec \in RunSpec /\ Len(i.spec.pool) <= 1
  BY ZenonT(30), CredentialsAssumption

LEMMA MaxIsNat == NumUsers \in Nat \ {0} /\ MaxPattern \in Nat
  BY Zenon, CredentialsAssumption

LEMMA OneMember ==
  ASSUME NEW S, NEW s \in Seq(S), s # <<>>
  PROVE  s[1] \in S
  BY SMT

LEMMA AuthUsers ==
  ASSUME NEW a \in Auth
  PROVE  a.users \in Seq(BOOLEAN)
  BY Zenon DEF Auth

LEMMA PoolEntries ==
  ASSUME NEW p \in CredentialPool
  PROVE  "entries" \in DOMAIN p /\ p.entries \in Seq(BOOLEAN)
<1>1. p.entries \in Seq(BOOLEAN)
  BY Zenon DEF CredentialPool
<1>2. "entries" \in DOMAIN p
  BY Zenon DEF CredentialPool
<1> QED BY <1>1, <1>2

LEMMA SpecPool ==
  ASSUME NEW s \in RunSpec
  PROVE  s.pool \in Seq(CredentialPool)
  BY Zenon DEF RunSpec

LEMMA SpecShape ==
  ASSUME NEW s \in RunSpec
  PROVE  Shaped(s)
<1> DEFINE A == Seq(CredentialPool)
           B == Seq(LoginFlowSpec)
<1>1. s \in [pool : A, open : BOOLEAN, workers : BOOLEAN, aggregate : BOOLEAN, loginFlow : B]
  BY Zenon DEF RunSpec
<1> HIDE DEF A, B
<1> QED BY <1>1 DEF Shaped

(***************************************************************************)
(* Rows                                                                    *)
(***************************************************************************)
LEMMA InConcat ==
  ASSUME NEW S, NEW a \in Seq(S), NEW b \in Seq(S), NEW x
  PROVE  x \in Range(a \o b) <=> x \in Range(a) \/ x \in Range(b)
<1>1. a \o b \in Seq(S) /\ Len(a \o b) = Len(a) + Len(b)
  OBVIOUS
<1>2. \A k \in 1 .. Len(a) : (a \o b)[k] = a[k]
  OBVIOUS
<1>3. \A k \in 1 .. Len(b) : (a \o b)[Len(a) + k] = b[k]
  OBVIOUS
<1>4. ASSUME x \in Range(a \o b) PROVE x \in Range(a) \/ x \in Range(b)
  <2>1. PICK k \in 1 .. Len(a) + Len(b) : x = (a \o b)[k]
    BY <1>1, <1>4 DEF Range
  <2>2. CASE k <= Len(a)
    BY <1>2, <2>1, <2>2 DEF Range
  <2>3. CASE k > Len(a)
    <3>1. k - Len(a) \in 1 .. Len(b) /\ k = Len(a) + (k - Len(a))
      BY <2>3
    <3>2. x = b[k - Len(a)]
      BY <1>3, <2>1, <3>1
    <3> QED BY <3>1, <3>2 DEF Range
  <2> QED BY <2>2, <2>3
<1>5. ASSUME x \in Range(a) PROVE x \in Range(a \o b)
  <2>1. PICK k \in 1 .. Len(a) : x = a[k]
    BY <1>5 DEF Range
  <2> QED BY <1>1, <1>2, <2>1 DEF Range
<1>6. ASSUME x \in Range(b) PROVE x \in Range(a \o b)
  <2>1. PICK k \in 1 .. Len(b) : x = b[k]
    BY <1>6 DEF Range
  <2>2. Len(a) + k \in 1 .. Len(a \o b) /\ x = (a \o b)[Len(a) + k]
    BY <1>1, <1>3, <2>1
  <2> QED BY <1>1, <2>2 DEF Range
<1> QED BY <1>4, <1>5, <1>6

\* Rows that are all filled.
LEMMA AllFilled ==
  ASSUME NEW n
  PROVE  FALSE \notin Range([k \in 1 .. n |-> TRUE])
  BY Zenon DEF Range

LEMMA FilledSeq ==
  ASSUME NEW n \in Nat
  PROVE  [k \in 1 .. n |-> TRUE] \in Seq(BOOLEAN)
  OBVIOUS

\* Rows hold an empty cell only if the body they were parsed from does.
Parsed(rows) ==
  rows # None => rows \in Seq(BOOLEAN) /\ (FALSE \in Range(rows) => FALSE \in Range(in.body))

LEMMA ParsedRows ==
  ASSUME NEW format, in.body \in Seq(BOOLEAN)
  PROVE  Parsed(ParseReader(format, in.body))
<1>1. CASE format = "csv"
  BY <1>1 DEF Parsed, ParseReader, parseCSV
<1>2. CASE format = "jsonl"
  BY <1>2 DEF Parsed, ParseReader, parseJSONL
<1>3. CASE format = "tokens"
  <2> DEFINE filled == {j \in DOMAIN in.body : in.body[j]}
  <2>1. ParseReader(format, in.body) = [k \in 1 .. Cardinality(filled) |-> TRUE]
    BY <1>3 DEF ParseReader, parseTokens
  <2>2. DOMAIN in.body = 1 .. Len(in.body) /\ Len(in.body) \in Nat
    OBVIOUS
  <2>3. IsFiniteSet(DOMAIN in.body)
    BY <2>2, FS_Interval
  <2>4. Cardinality(filled) \in Nat
    BY <2>3, FS_Subset, FS_CardinalityType
  <2> HIDE DEF filled
  <2> QED BY <2>1, <2>4, AllFilled, FilledSeq DEF Parsed
<1>4. CASE format \notin {"csv", "jsonl", "tokens"}
  BY <1>4 DEF Parsed, ParseReader
<1> QED BY <1>1, <1>2, <1>3, <1>4

LEMMA LoadedRows ==
  ASSUME NEW ref, NEW host, in.body \in Seq(BOOLEAN)
  PROVE  Parsed(SourceLoad(ref, host)) /\ Parsed(SourceFromRef(ref, host))
         /\ Parsed(credentialSourceFor(ref))
<1>1. Parsed(None)
  BY DEF Parsed
<1>2. \A h : Parsed(EnvLoad(ref, h)) /\ Parsed(FileLoad(ref, h))
  BY <1>1, ParsedRows DEF EnvLoad, FileLoad
<1>3. \A h : Parsed(SourceLoad(ref, h))
  BY <1>2 DEF SourceLoad
<1> QED BY <1>1, <1>3 DEF SourceFromRef, credentialSourceFor

LEMMA GeneratedRows ==
  ASSUME NEW n, GeneratorSource(n) # None
  PROVE  GeneratorSource(n) \in Seq(BOOLEAN) /\ FALSE \notin Range(GeneratorSource(n))
<1>1. n \in 1 .. MaxPattern
  BY DEF GeneratorSource
<1>2. GeneratorSource(n) = [k \in 1 .. n |-> TRUE]
  BY <1>1 DEF GeneratorSource
<1>3. n \in Nat
  BY <1>1, MaxIsNat
<1> QED BY <1>2, <1>3, AllFilled, FilledSeq

(***************************************************************************)
(* The pools that are built                                                *)
(***************************************************************************)
\* What is authored: the users of the block and the body, or the posted rows and the body.
LEMMA Authored ==
  ASSUME in \in Inputs
  PROVE  /\ in.body \in Seq(BOOLEAN)
         /\ \A rows : Parsed(rows) /\ rows # None => Supplied(rows)
         /\ in.auth # None => in.auth[1] \in Auth
         /\ in.via # "http" /\ in.auth # None => Supplied(in.auth[1].users)
         /\ in.via = "http" => /\ in.spec.pool # None
                               /\ "entries" \in DOMAIN in.spec.pool[1]
                               /\ Supplied(in.spec.pool[1].entries)
<1>1. in.body \in Seq(BOOLEAN) /\ in.auth \in Seq(Auth)
  BY Invocations
<1>2. in.auth # None => in.auth[1] \in Auth /\ in.auth[1].users \in Seq(BOOLEAN)
  BY <1>1, OneMember, AuthUsers DEF None
<1>3. in.via = "http" => /\ in.spec.pool # None /\ in.spec.pool[1].entries \in Seq(BOOLEAN)
                         /\ "entries" \in DOMAIN in.spec.pool[1]
  <2>1. in.via = "http" => in.spec.pool # None
    BY Invocations DEF None
  <2>2. in.spec.pool \in Seq(CredentialPool)
    BY Invocations, SpecPool
  <2> QED BY <2>1, <2>2, OneMember, PoolEntries DEF None
<1>4. << >> \in Seq(BOOLEAN)
  OBVIOUS
<1> DEFINE given == IF in.via = "http" THEN in.spec.pool[1].entries
                    ELSE IF in.auth = None THEN <<>> ELSE in.auth[1].users
<1>5. given \in Seq(BOOLEAN)
  BY <1>2, <1>3, <1>4
<1>6. AuthoredRows = given \o in.body
  BY DEF AuthoredRows
<1>7. \A x : x \in Range(given) \/ x \in Range(in.body) => x \in Range(AuthoredRows)
  <2> HIDE DEF given
  <2> QED BY <1>1, <1>5, <1>6, InConcat
<1>8. \A rows : Parsed(rows) /\ rows # None => Supplied(rows)
  <2> HIDE DEF given
  <2> QED BY <1>7 DEF Parsed, Supplied
<1>9. in.via # "http" /\ in.auth # None => Supplied(in.auth[1].users)
  BY <1>2, <1>7 DEF Supplied
<1>10. in.via = "http" => Supplied(in.spec.pool[1].entries)
  BY <1>3, <1>7 DEF Supplied
<1> QED BY <1>1, <1>2, <1>3, <1>8, <1>9, <1>10

\* A pool as the command line builds one.
Built(pools) ==
  pools # None =>
    \E p : /\ pools = <<p>>
           /\ "entries" \in DOMAIN p /\ Supplied(p.entries)
           /\ p.source # None => p.entries = <<>>

LEMMA NoPoolBuilt == Built(None)
  BY DEF Built

LEMMA OneBuilt ==
  ASSUME NEW p, "entries" \in DOMAIN p, Supplied(p.entries), p.source # None => p.entries = <<>>
  PROVE  Built(<<p>>)
  BY Zenon DEF Built

LEMMA NothingSupplied == Supplied(<<>>)
<1>1. <<>> \in Seq(BOOLEAN) /\ Range(<<>>) = {}
  BY DEF Range
<1> QED BY <1>1 DEF Supplied

LEMMA ResolvedRows ==
  ASSUME in \in Inputs, in.via = "cli", in.auth # None,
         resolveAuthRows(in.auth[1]) # None
  PROVE  Supplied(resolveAuthRows(in.auth[1]))
<1> DEFINE a == in.auth[1]
<1>1. RowForms(a) = {"users"} => resolveAuthRows(a) = a.users
  BY DEF resolveAuthRows
<1>2. RowForms(a) = {"pattern"} => resolveAuthRows(a) = GeneratorSource(a.pattern[1])
  <2>1. {"pattern"} # {"users"}
    OBVIOUS
  <2> QED BY <2>1 DEF resolveAuthRows
<1>3. RowForms(a) \notin {{"users"}, {"pattern"}} =>
         resolveAuthRows(a) = credentialSourceFor(a.source[1])
  BY DEF resolveAuthRows
<1>4. Supplied(a.users)
  BY Authored
<1>5. GeneratorSource(a.pattern[1]) # None => Supplied(GeneratorSource(a.pattern[1]))
  BY GeneratedRows DEF Supplied
<1>6. credentialSourceFor(a.source[1]) # None => Supplied(credentialSourceFor(a.source[1]))
  BY Authored, LoadedRows
<1> HIDE DEF a
<1>7. resolveAuthRows(a) # None
  BY DEF a
<1>8. Supplied(resolveAuthRows(a))
  BY <1>1, <1>2, <1>3, <1>4, <1>5, <1>6, <1>7
<1> QED BY <1>8 DEF a

LEMMA BuiltPools ==
  ASSUME in \in Inputs, in.via = "cli", in.auth # None, NEW keep
  PROVE  Built(buildCredentialPool(in.auth[1], keep))
<1> DEFINE a == in.auth[1]
<1>1. /\ \A x : Supplied([NoPool EXCEPT !.strategy = "pool", !.source = x].entries)
               /\ [NoPool EXCEPT !.strategy = "pool", !.source = x].entries = <<>>
      /\ \A x : [NoPool EXCEPT !.strategy = "pool", !.entries = x].entries = x
               /\ [NoPool EXCEPT !.strategy = "pool", !.entries = x].source = None
  BY NothingSupplied DEF NoPool
<1>2. Built(buildPoolCredentials(a, keep))
  <2>1. CASE a.source # None /\ keep
    BY <1>1, <2>1, NoPoolBuilt, OneBuilt DEF buildPoolCredentials
  <2>2. CASE ~(a.source # None /\ keep)
    BY <1>1, <2>2, NoPoolBuilt, OneBuilt, ResolvedRows DEF buildPoolCredentials
  <2> QED BY <2>1, <2>2
<1>3. Built(buildLoginCredentials(a))
  <2> DEFINE rows == IF RowForms(a) = {} THEN <<>> ELSE resolveAuthRows(a)
             p == [NoPool EXCEPT !.strategy = "login", !.login = TRUE, !.shared = a.shared,
                                 !.entries = rows]
  <2>1. "entries" \in DOMAIN p /\ p.entries = rows /\ p.source = None
    BY DEF NoPool
  <2>2. buildLoginCredentials(a) # None => buildLoginCredentials(a) = <<p>> /\ Supplied(rows)
    BY NothingSupplied, ResolvedRows DEF buildLoginCredentials
  <2> HIDE DEF rows, p
  <2> QED BY <2>1, <2>2, NoPoolBuilt, OneBuilt
<1>4. Built(buildBootstrapCredentials(a))
  <2> DEFINE p == [NoPool EXCEPT !.strategy = "bootstrap-signup", !.signup = a.signup,
                                 !.keep = a.keep]
  <2>1. Built(<<p>>)
    BY NothingSupplied, OneBuilt DEF NoPool
  <2> QED BY <2>1, NoPoolBuilt DEF buildBootstrapCredentials
<1>5. Built(buildMintCredentials(a))
  <2> DEFINE p == [NoPool EXCEPT !.strategy = "mint", !.mint = a.mint]
  <2>1. Built(<<p>>)
    BY NothingSupplied, OneBuilt DEF NoPool
  <2> QED BY <2>1, NoPoolBuilt DEF buildMintCredentials
<1>6. Built(buildExecCredentials(a))
  <2> DEFINE p == [NoPool EXCEPT !.strategy = "exec", !.exec = a.exec]
  <2>1. Built(<<p>>)
    BY NothingSupplied, OneBuilt DEF NoPool
  <2> QED BY <2>1, NoPoolBuilt DEF buildExecCredentials
<1> HIDE DEF a
<1>7. Built(buildCredentialPool(a, keep))
  BY <1>2, <1>3, <1>4, <1>5, <1>6, NoPoolBuilt DEF buildCredentialPool
<1> QED BY <1>7 DEF a

LEMMA FlaggedPools ==
  ASSUME in \in Inputs
  PROVE  Built(resolveAuthSourceFlag)
<1> DEFINE rows == credentialSourceFor(in.authSource[1])
           p == [NoPool EXCEPT !.strategy = "pool", !.entries = rows]
<1>1. "entries" \in DOMAIN p /\ p.entries = rows /\ p.source = None
  BY DEF NoPool
<1>2. rows # None => Supplied(rows)
  BY Authored, LoadedRows
<1>3. resolveAuthSourceFlag = IF rows = None THEN None ELSE <<p>>
  BY DEF resolveAuthSourceFlag
<1> HIDE DEF rows, p
<1> QED BY <1>1, <1>2, <1>3, NoPoolBuilt, OneBuilt

LEMMA KeptPools ==
  ASSUME NEW pools, Built(pools)
  PROVE  Built(Kept(pools)) /\ (pools # None => Kept(pools) # None)
<1>1. CASE pools = None
  BY <1>1 DEF Kept
<1>2. CASE pools # None
  <2>1. PICK p : /\ pools = <<p>> /\ "entries" \in DOMAIN p /\ Supplied(p.entries)
                 /\ p.source # None => p.entries = <<>>
    BY <1>2 DEF Built
  <2> DEFINE q == [p EXCEPT !.keep = @ \/ in.keepAccounts]
  <2>2. pools[1] = p
    BY <2>1
  <2>3. Kept(pools) = <<q>>
    BY <1>2, <2>2 DEF Kept
  <2>4. "entries" \in DOMAIN q /\ q.entries = p.entries /\ q.source = p.source
    BY <2>1
  <2> HIDE DEF q
  <2>5. Built(<<q>>)
    BY <2>1, <2>4, OneBuilt
  <2>6. <<q>> # None
    BY DEF None
  <2> QED BY <2>3, <2>5, <2>6
<1> QED BY <1>1, <1>2

(***************************************************************************)
(* The principals of a run                                                 *)
(***************************************************************************)
\* Entry i modulo the pool is anonymous only if its cell is empty.
LEMMA EmptyCell ==
  ASSUME NEW rows \in Seq(BOOLEAN), NEW i \in Nat, PoolProvider(rows, i) = Anonymous
  PROVE  FALSE \in Range(rows)
<1>1. rows # <<>>
  BY DEF PoolProvider, None, Anonymous
<1>2. Len(rows) \in Nat /\ Len(rows) > 0 /\ DOMAIN rows = 1 .. Len(rows)
  BY <1>1
<1>3. i % Len(rows) \in 0 .. Len(rows) - 1
  BY <1>2
<1> DEFINE r == i % Len(rows)
<1>4. r + 1 \in DOMAIN rows
  BY <1>2, <1>3
<1>5. rows[r + 1] \in BOOLEAN
  BY <1>2, <1>4
<1>6. Bearer(rows, i) = Anonymous
  BY <1>1 DEF PoolProvider
<1>7. <<"bearer", r>> # Anonymous
  BY DEF Anonymous
<1>8. rows[r + 1] = FALSE
  BY Zenon, <1>5, <1>6, <1>7 DEF Bearer
<1> QED BY Zenon, <1>4, <1>8 DEF Range

LEMMA OtherPrincipals ==
  ASSUME NEW x
  PROVE  /\ <<"login", x>> # Anonymous /\ <<"account", x>> # Anonymous
         /\ <<"jwt", x>> # Anonymous /\ <<"command", x>> # Anonymous
         /\ None # Anonymous /\ Dropped # Anonymous /\ Dropped # None
  BY DEF Anonymous, None, Dropped

\* An anonymous user of a run with a valid pool comes from an empty cell.
LEMMA AnonymousRow ==
  ASSUME in \in Inputs, PoolInv, spec.pool # None, validateCredentialPool(spec),
         NEW i \in Nat, Principal(spec, i) = Anonymous
  PROVE  FALSE \in Range(AuthoredRows)
<1> DEFINE p == spec.pool[1]
<1>1. Supplied(p.entries)
  BY DEF PoolInv
<1>2. \A x : MintAcquire(p.mint[1], x) # Anonymous
  BY OtherPrincipals DEF MintAcquire
<1>3. CASE spec.workers
  <2>1. p.source = None => p.strategy = "mint" /\ p.mint # None
    BY <1>3 DEF validateCredentialPool, allowsWorkers, ValidPool
  <2>2. resolveProvider(shardSpecFor(spec), i) = Anonymous
    BY <1>3, OtherPrincipals DEF Principal, authenticateUsers
  <2>3. shardSpecFor(spec).mint = None /\ p.source # None
    <3>1. shardSpecFor(spec).mint # None => shardSpecFor(spec).mint = p.mint
      BY DEF shardSpecFor
    <3>2. shardSpecFor(spec).mint = None
      BY <1>2, <2>2, <3>1, OtherPrincipals DEF resolveProvider
    <3> QED BY <2>1, <3>2 DEF shardSpecFor, Strategy
  <2>4. shardSpecFor(spec).source = p.source
    BY DEF shardSpecFor
  <2> DEFINE rows == SourceFromRef(p.source[1], "worker")
  <2>5. PoolProvider(rows, i) = Anonymous
    BY <2>2, <2>3, <2>4 DEF resolveProvider
  <2>6. rows # None
    BY <2>5, OtherPrincipals DEF PoolProvider, None
  <2>7. Supplied(rows)
    BY <2>6, Authored, LoadedRows
  <2> HIDE DEF rows
  <2> QED BY <2>5, <2>7, EmptyCell DEF Supplied
<1>4. CASE ~spec.workers
  <2>1. Provider(spec, i) = Anonymous
    BY <1>4 DEF Principal
  <2>2. \A x : ExecToken(x, i) # Anonymous
    BY OtherPrincipals DEF ExecToken
  <2>3. bootstrapAuthFor(spec, i) # Anonymous /\ loginAuthFor(spec, i) # Anonymous
    BY OtherPrincipals DEF bootstrapAuthFor, loginAuthFor
  <2>4. p.strategy # "login" /\ p.strategy # "bootstrap-signup"
        /\ CredentialProvider(spec, i) = Anonymous
    BY <2>1, <2>3 DEF Provider, Strategy
  <2>5. NewProvider(p, i) = Anonymous
    BY <2>4, OtherPrincipals DEF CredentialProvider
  <2>6. PoolProvider(p.entries, i) = Anonymous
    BY <1>2, <2>2, <2>5, OtherPrincipals DEF NewProvider
  <2> QED BY <1>1, <2>6, EmptyCell DEF Supplied
<1> QED BY <1>3, <1>4

\* A host that can read a body reads what another one reads.
LEMMA SameBody ==
  ASSUME NEW ref, NEW g, NEW h, SourceFromRef(ref, g) # None, SourceFromRef(ref, h) # None
  PROVE  SourceFromRef(ref, g) = SourceFromRef(ref, h)
  BY DEF SourceFromRef, SourceLoad, EnvLoad, FileLoad

\* A replay has the principal of its session wherever both can be had.
LEMMA SamePrincipal ==
  ASSUME validateCredentialPool(spec), spec.open => ~(spec.workers \/ spec.aggregate),
         Host = "engine", ~(spec.workers /\ spec.aggregate), spec.pool # None,
         spec.pool[1].source # None => Strategy(spec) = "pool",
         NEW i \in Nat, Principal(spec, i) # None,
         sessionUser(spec, UserIndex(i)) # None
  PROVE  sessionUser(spec, UserIndex(i)) = Principal(spec, i)
<1> DEFINE p == spec.pool[1]
           user == sessionUser(spec, UserIndex(i))
<1>1. Strategy(spec) = p.strategy
  BY DEF Strategy
<1>2. /\ p.strategy \in {"login", "bootstrap-signup"} => user = Provider(spec, i)
      /\ p.strategy \notin {"login", "bootstrap-signup"} =>
            user = IF p.source # None THEN sourceProviderFor(p.source[1], i)
                   ELSE Provider(spec, i)
  <2> DEFINE idx == IF spec.open /\ UserIndex(i) > 0 THEN UserIndex(i) - 1 ELSE UserIndex(i)
  <2>1. idx = i
    BY DEF UserIndex
  <2>2. user = IF p.strategy \in {"login", "bootstrap-signup"} THEN Provider(spec, idx)
               ELSE IF p.source # None THEN sourceProviderFor(p.source[1], idx)
               ELSE IF p.strategy = "exec" /\ ~ in.allowExec THEN None
               ELSE Provider(spec, idx)
    BY <1>1 DEF sessionUser
  <2> HIDE DEF idx
  <2> QED BY <2>1, <2>2
<1>3. CASE ~spec.workers
  <2>1. Principal(spec, i) = Provider(spec, i)
    BY <1>3 DEF Principal
  <2>2. p.source = None
    <3>1. SUFFICES ASSUME p.source # None PROVE FALSE
      OBVIOUS
    <3>2. p.strategy = "pool" /\ p.entries = <<>>
      BY <1>1, <3>1 DEF validateCredentialPool, ValidPool
    <3>3. Provider(spec, i) = None
      BY <1>1, <3>2 DEF Provider, CredentialProvider, NewProvider, PoolProvider
    <3> QED BY <2>1, <3>3
  <2> QED BY <1>2, <2>1, <2>2
<1>4. CASE spec.workers
  <2>1. Principal(spec, i) = resolveProvider(shardSpecFor(spec), i)
    BY <1>4 DEF Principal, authenticateUsers
  <2>2. CASE p.source = None
    <3>1. p.strategy = "mint" /\ p.mint # None
      BY <1>4, <2>2 DEF validateCredentialPool, allowsWorkers, ValidPool
    <3>2. shardSpecFor(spec).mint = p.mint
      BY <1>1, <3>1 DEF shardSpecFor
    <3>3. Principal(spec, i) = MintAcquire(p.mint[1], i)
      BY <2>1, <3>1, <3>2 DEF resolveProvider
    <3>4. Provider(spec, i) = CredentialProvider(spec, i)
      BY <1>1, <3>1 DEF Provider
    <3>5. CredentialProvider(spec, i) # None => CredentialProvider(spec, i) = MintAcquire(p.mint[1], i)
      BY <3>1 DEF CredentialProvider, NewProvider
    <3> QED BY <1>2, <2>2, <3>1, <3>3, <3>4, <3>5
  <2>3. CASE p.source # None
    <3>1. p.strategy = "pool"
      BY <1>1, <2>3
    <3>2. shardSpecFor(spec).mint = None /\ shardSpecFor(spec).source = p.source
      BY <1>1, <3>1 DEF shardSpecFor
    <3>3. Principal(spec, i) = PoolProvider(SourceFromRef(p.source[1], "worker"), i)
      BY <2>1, <2>3, <3>2 DEF resolveProvider
    <3>4. user = PoolProvider(SourceFromRef(p.source[1], "engine"), i)
      BY <1>2, <2>3, <3>1 DEF sourceProviderFor
    <3>5. SourceFromRef(p.source[1], "worker") # None /\ SourceFromRef(p.source[1], "engine") # None
      BY <3>3, <3>4 DEF PoolProvider, None
    <3> QED BY <3>3, <3>4, <3>5, SameBody
  <2> QED BY <2>2, <2>3
<1> QED BY <1>3, <1>4

(***************************************************************************)
(* The invariant                                                           *)
(***************************************************************************)
\* Principals depend on the invocation and the spec only.
LEMMA PrincipalsKept ==
  ASSUME UNCHANGED <<in, spec>>
  PROVE  \A i : (Principal(spec, i))' = Principal(spec, i)
<1>1. \A m, h : ResolveMintKey(m, h)' <=> ResolveMintKey(m, h)
  BY DEF ResolveMintKey, readMintKeyBody
<1>2. \A ref, h : SourceFromRef(ref, h)' = SourceFromRef(ref, h)
  BY DEF SourceFromRef, SourceLoad, EnvLoad, FileLoad
<1>3. \A e, i : ExecToken(e, i)' = ExecToken(e, i)
  BY DEF ExecToken
<1>4. Host' = Host
  BY DEF Host
<1> QED
  BY <1>1, <1>2, <1>3, <1>4
  DEF Principal, authenticateUsers, resolveProvider, Provider, CredentialProvider, NewProvider

LEMMA SuppliedKept ==
  ASSUME in' = in
  PROVE  \A rows : Supplied(rows)' <=> Supplied(rows)
  BY DEF Supplied, AuthoredRows

LEMMA CredentialsStart == Init => CredentialsInv
<1>. SUFFICES ASSUME Init PROVE CredentialsInv
  OBVIOUS
<1>1. in \in Inputs /\ stage \in {"authored", "submitted"} /\ in.via \in {"cli", "http"}
  BY Invocations DEF Init
<1>2. PoolInv
  <2>1. CASE in.via = "http"
    <3>1. spec = in.spec /\ stage = "submitted"
      BY <2>1 DEF Init
    <3>2. Shaped(spec)
      BY <1>1, <3>1, Invocations, SpecShape
    <3> QED BY <1>1, <2>1, <3>1, <3>2, Authored DEF PoolInv, Shaped
  <2>2. CASE in.via = "cli"
    <3>1. stage = "authored" /\ spec.pool = None
      BY <2>2 DEF Init, runSpec, Kept
    <3>2. Shaped(spec)
      BY <2>2 DEF Init, runSpec, Shaped
    <3> QED BY <2>2, <3>1, <3>2 DEF PoolInv, Shaped
  <2> QED BY <1>1, <2>1, <2>2
<1> QED BY <1>1, <1>2 DEF CredentialsInv, SpecInv, CredsInv, ReplaySame, Running

\* A step that only ends the invocation, or moves it to a stage that asks no more of it.
LEMMA RefuseKeeps ==
  ASSUME CredentialsInv, NEW s, Refuse(s),
         ~Running,
         \/ s \in {"refused", "failed"} /\ (s = "failed" => stage \notin {"authored", "refused"})
         \/ s = "started" /\ stage = "created"
  PROVE  CredentialsInv'
<1>1. UNCHANGED <<in, spec>> /\ stage' = s /\ ~Running'
  BY DEF Refuse, Running
<1>2. PoolInv'
  BY <1>1, SuppliedKept DEF CredentialsInv, PoolInv
<1>3. SpecInv'
  BY <1>1 DEF CredentialsInv, SpecInv, validateCredentialPool
<1> QED BY <1>1, <1>2, <1>3 DEF CredentialsInv, CredsInv, ReplaySame, Running

LEMMA ExpandStep == CredentialsInv /\ Expand => CredentialsInv'
<1>. SUFFICES ASSUME CredentialsInv, Expand PROVE CredentialsInv'
  OBVIOUS
<1> DEFINE pools == IF in.authSource # None THEN resolveAuthSourceFlag
                    ELSE buildCredentialPool(in.auth[1], in.engine /\ sourceBackedAuth(in.auth[1]))
<1>1. stage = "authored" /\ in \in Inputs /\ in.via = "cli" /\ ~Running /\ in' = in
  BY DEF Expand, CredentialsInv, PoolInv, Running, Refuse
<1>2. in.auth # None \/ in.authSource # None => Built(pools)
  BY <1>1, BuiltPools, FlaggedPools
<1>3. CASE in.auth = None /\ in.authSource = None
  <2>1. stage' = "expanded" /\ UNCHANGED <<in, spec, creds, session, replay>>
    BY <1>3 DEF Expand
  <2>2. PoolInv'
    BY <1>1, <1>3, <2>1, SuppliedKept DEF CredentialsInv, PoolInv
  <2> QED BY <2>1, <2>2 DEF CredentialsInv, SpecInv, CredsInv, ReplaySame, Running
<1>4. CASE ~(in.auth = None /\ in.authSource = None) /\ pools = None
  BY <1>1, <1>4, RefuseKeeps DEF Expand
<1>5. CASE ~(in.auth = None /\ in.authSource = None) /\ pools # None
  <2>1. stage' = "expanded" /\ spec' = runSpec(pools)
    BY <1>5 DEF Expand
  <2> HIDE DEF pools
  <2>2. spec'.pool = Kept(pools)
    BY <2>1 DEF runSpec
  <2>3. Built(spec'.pool) /\ spec'.pool # None
    BY <1>2, <1>5, <2>2, KeptPools
  <2>4. PICK p : /\ spec'.pool = <<p>> /\ "entries" \in DOMAIN p /\ Supplied(p.entries)
                 /\ p.source # None => p.entries = <<>>
    BY <2>3 DEF Built
  <2>5. spec'.pool[1] = p
    BY <2>4
  <2>6. Shaped(spec)'
    BY <2>1 DEF runSpec, Shaped
  <2>7. PoolInv'
    BY <1>1, <2>1, <2>3, <2>4, <2>5, <2>6, SuppliedKept DEF PoolInv, Shaped
  <2> QED
    BY <1>1, <2>1, <2>7 DEF CredentialsInv, SpecInv, CredsInv, ReplaySame, Running
<1> QED BY <1>3, <1>4, <1>5

\* Only a pool without rows of its own goes to a remote engine.
LEMMA SubmitStep == CredentialsInv /\ Submit => CredentialsInv'
<1>. SUFFICES ASSUME CredentialsInv, Submit PROVE CredentialsInv'
  OBVIOUS
<1>1. stage = "expanded" /\ in.via = "cli" /\ ~Running
  BY DEF Submit, CredentialsInv, PoolInv, Running
<1>2. CASE in.engine /\ spec.pool # None /\ spec.pool[1].source = None
  <2>1. Refuse("refused")
    BY <1>2 DEF Submit
  <2> QED BY <1>1, <2>1, RefuseKeeps
<1>3. CASE ~(in.engine /\ spec.pool # None /\ spec.pool[1].source = None)
  <2>1. /\ stage' = "submitted" /\ in' = in
        /\ spec' = IF in.engine THEN [spec EXCEPT !.pool = Marshalled(@)] ELSE spec
    BY <1>3 DEF Submit
  <2>2. ASSUME in.engine, spec.pool # None PROVE PoolInv'
    <3> DEFINE p == spec.pool[1]
               q == [p EXCEPT !.entries = [k \in DOMAIN @ |-> FALSE]]
    <3>1. /\ spec' = [spec EXCEPT !.pool = <<q>>] /\ Shaped(spec)
      BY <2>1, <2>2 DEF Marshalled, CredentialsInv, PoolInv, Shaped
    <3>2. spec'.pool = <<q>> /\ Shaped(spec)' /\ spec'.pool # None
      BY <3>1 DEF Shaped, None
    <3>3. "entries" \in DOMAIN p /\ p.source # None /\ p.entries = <<>>
      BY <1>1, <1>3, <2>2 DEF CredentialsInv, PoolInv
    <3>4. "entries" \in DOMAIN q /\ q.entries = <<>>
      BY <3>3
    <3>5. Supplied(<<>>)'
      BY NothingSupplied, SuppliedKept, <2>1
    <3> HIDE DEF q
    <3> QED BY <1>1, <2>1, <3>2, <3>4, <3>5 DEF PoolInv, Shaped
  <2>3. ASSUME ~(in.engine /\ spec.pool # None) PROVE PoolInv'
    <3>1. spec' = spec
      BY <2>1, <2>3 DEF Marshalled, CredentialsInv, PoolInv, Shaped
    <3> QED BY <1>1, <2>1, <3>1, SuppliedKept DEF CredentialsInv, PoolInv
  <2>4. PoolInv'
    BY <2>2, <2>3
  <2> QED
    BY <1>1, <2>1, <2>4 DEF CredentialsInv, SpecInv, CredsInv, ReplaySame, Running
<1> QED BY <1>2, <1>3

\* Workers may be lent to the spec; the validation then sees them.
LEMMA CreateStep == CredentialsInv /\ Create => CredentialsInv'
<1>. SUFFICES ASSUME CredentialsInv, Create PROVE CredentialsInv'
  OBVIOUS
<1> DEFINE s == [spec EXCEPT !.workers = @ \/ in.defaultWorkers]
<1>1. stage = "submitted" /\ ~Running
  BY DEF Create, Running
<1>2. CASE (s.open => ~ (s.workers \/ s.aggregate)) /\ validateCredentialPool(s)
  <2>1. stage' = "created" /\ spec' = s /\ in' = in
    BY <1>2 DEF Create
  <2>2. s.pool = spec.pool /\ Shaped(s)
    BY DEF CredentialsInv, PoolInv, Shaped
  <2> HIDE DEF s
  <2>3. PoolInv'
    BY <1>1, <2>1, <2>2, SuppliedKept DEF CredentialsInv, PoolInv, Shaped
  <2>4. validateCredentialPool(spec)'
    BY <1>2, <2>1 DEF validateCredentialPool
  <2>5. SpecInv'
    BY <1>2, <2>1, <2>4 DEF SpecInv
  <2> QED
    BY <1>1, <2>1, <2>3, <2>5 DEF CredentialsInv, CredsInv, ReplaySame, Running
<1>3. CASE ~((s.open => ~ (s.workers \/ s.aggregate)) /\ validateCredentialPool(s))
  <2>1. Refuse("refused")
    BY <1>3 DEF Create
  <2> QED BY <1>1, <2>1, RefuseKeeps
<1> QED BY <1>2, <1>3

LEMMA StartRunStep == CredentialsInv /\ StartRun => CredentialsInv'
<1>. SUFFICES ASSUME CredentialsInv, StartRun PROVE CredentialsInv'
  OBVIOUS
<1>1. stage = "created" /\ ~Running /\ (Refuse("refused") \/ Refuse("started"))
  BY DEF StartRun, Running
<1> QED BY <1>1, RefuseKeeps

\* A run whose users have the principals of its topology has no anonymous one that
\* was not authored so.
LEMMA NobodyAnonymous ==
  ASSUME in \in Inputs, PoolInv, SpecInv, CredsInv
  PROVE  NoSilentAnonymous
<1>. SUFFICES ASSUME Running, spec.pool # None \/ (in.via = "cli" /\ in.auth # None),
                     NEW i \in Idx, creds[i] = Anonymous
              PROVE  FALSE \in Range(AuthoredRows)
  BY DEF NoSilentAnonymous
<1>1. spec.pool # None
  BY DEF PoolInv, Running
<1>2. validateCredentialPool(spec)
  BY DEF SpecInv
<1>3. Principal(spec, i) = Anonymous /\ i \in Nat
  BY MaxIsNat, OtherPrincipals DEF CredsInv, Idx
<1> QED BY <1>1, <1>2, <1>3, AnonymousRow

LEMMA RunningStep ==
  ASSUME CredentialsInv, stage = "started", stage' = "running",
         UNCHANGED <<in, spec, session, replay>>,
         \A i \in Idx : creds'[i] = Dropped \/
                        (creds'[i] = Principal(spec, i) /\ Principal(spec, i) # None)
  PROVE  CredentialsInv'
<1>1. PoolInv'
  BY SuppliedKept DEF CredentialsInv, PoolInv
<1>2. validateCredentialPool(spec)'
  BY DEF CredentialsInv, SpecInv, validateCredentialPool
<1>3. SpecInv'
  BY <1>2 DEF CredentialsInv, SpecInv
<1>4. CredsInv'
  BY PrincipalsKept DEF CredsInv, Idx
<1>5. (in \in Inputs)'
  BY DEF CredentialsInv
<1> QED BY <1>1, <1>3, <1>4, <1>5 DEF CredentialsInv, ReplaySame

LEMMA AuthenticateStep ==
  CredentialsInv /\ (Authenticate \/ AcquireFails \/ AcquireDrops) => CredentialsInv'
<1>1. ASSUME CredentialsInv, Authenticate PROVE CredentialsInv'
  <2>1. stage = "started" /\ ~Running
    BY <1>1 DEF Authenticate, Running
  <2>2. CASE Setup(spec) /\ \A i \in Idx : Principal(spec, i) # None
    <3>1. /\ stage' = "running" /\ UNCHANGED <<in, spec, session, replay>>
          /\ creds' = [i \in Idx |-> Principal(spec, i)]
      BY <1>1, <2>2 DEF Authenticate
    <3> QED BY <1>1, <2>1, <2>2, <3>1, RunningStep
  <2>3. CASE ~(Setup(spec) /\ \A i \in Idx : Principal(spec, i) # None)
    <3>1. Refuse("failed")
      BY <1>1, <2>3 DEF Authenticate
    <3> QED BY <1>1, <2>1, <3>1, RefuseKeeps
  <2> QED BY <2>2, <2>3
<1>2. ASSUME CredentialsInv, AcquireFails PROVE CredentialsInv'
  <2>1. stage = "started" /\ ~Running /\ Refuse("failed")
    BY <1>2 DEF AcquireFails, Running
  <2> QED BY <1>2, <2>1, RefuseKeeps
<1>3. ASSUME CredentialsInv, AcquireDrops PROVE CredentialsInv'
  <2>1. /\ stage = "started" /\ stage' = "running"
        /\ UNCHANGED <<in, spec, session, replay>>
        /\ \A i \in Idx : Principal(spec, i) # None
    BY <1>3 DEF AcquireDrops
  <2>2. PICK dropped \in SUBSET Idx \ {{}} :
          creds' = [i \in Idx |-> IF i \in dropped THEN Dropped ELSE Principal(spec, i)]
    BY <1>3 DEF AcquireDrops
  <2> QED BY <1>3, <2>1, <2>2, RunningStep
<1> QED BY <1>1, <1>2, <1>3

LEMMA ReproduceStep == CredentialsInv /\ Reproduce => CredentialsInv'
<1>. SUFFICES ASSUME CredentialsInv, Reproduce PROVE CredentialsInv'
  OBVIOUS
<1>1. /\ stage = "running" /\ Host = "engine" /\ ~(spec.workers /\ spec.aggregate)
      /\ UNCHANGED <<in, spec, creds>>
  BY DEF Reproduce
<1>2. PICK who \in Idx :
        /\ creds[who] # Dropped /\ session' = who
        /\ LET user == sessionUser(spec, UserIndex(who))
           IN  IF user = None THEN stage' = "not replayed" /\ replay' = replay
               ELSE stage' = "replayed" /\ replay' = user
  BY DEF Reproduce
<1>3. stage' \in {"replayed", "not replayed"} /\ Running /\ Running'
  BY <1>1, <1>2 DEF Running
<1>4. PoolInv'
  BY <1>1, <1>3, SuppliedKept DEF CredentialsInv, PoolInv
<1>5. validateCredentialPool(spec) /\ validateCredentialPool(spec)'
  BY <1>1, <1>3 DEF CredentialsInv, SpecInv, validateCredentialPool
<1>6. SpecInv'
  BY <1>1, <1>3, <1>5 DEF CredentialsInv, SpecInv
<1>7. CredsInv'
  BY <1>1, <1>3, PrincipalsKept DEF CredentialsInv, CredsInv, Idx
<1>8. (in \in Inputs)'
  BY <1>1 DEF CredentialsInv
<1>9. ReplaySame'
  <2>1. SUFFICES ASSUME stage' = "replayed", spec.pool # None,
                        spec.pool[1].source # None => Strategy(spec) = "pool"
                 PROVE  replay' = creds[who]
    BY <1>1, <1>2 DEF ReplaySame, Strategy
  <2>2. /\ sessionUser(spec, UserIndex(who)) # None
        /\ replay' = sessionUser(spec, UserIndex(who))
    BY <1>2, <2>1
  <2>3. creds[who] = Principal(spec, who) /\ Principal(spec, who) # None
    BY <1>2, <1>3 DEF CredentialsInv, CredsInv
  <2>4. who \in Nat
    BY MaxIsNat DEF Idx
  <2>5. spec.open => ~(spec.workers \/ spec.aggregate)
    BY <1>3 DEF CredentialsInv, SpecInv
  <2> QED BY <1>1, <1>5, <2>1, <2>2, <2>3, <2>4, <2>5, SamePrincipal
<1> QED BY <1>4, <1>6, <1>7, <1>8, <1>9 DEF CredentialsInv

LEMMA CredentialsStay == CredentialsInv /\ UNCHANGED vars => CredentialsInv'
<1>. SUFFICES ASSUME CredentialsInv, UNCHANGED vars PROVE CredentialsInv'
  OBVIOUS
<1>1. UNCHANGED <<in, stage, spec, creds, session, replay>>
  BY DEF vars
<1>2. PoolInv'
  BY <1>1, SuppliedKept DEF CredentialsInv, PoolInv
<1>3. SpecInv'
  BY <1>1 DEF CredentialsInv, SpecInv, validateCredentialPool, Running
<1>4. CredsInv'
  BY <1>1, PrincipalsKept DEF CredentialsInv, CredsInv, Idx, Running
<1>5. ReplaySame'
  BY <1>1 DEF CredentialsInv, ReplaySame, Strategy
<1> QED BY <1>1, <1>2, <1>3, <1>4, <1>5 DEF CredentialsInv

(***************************************************************************)
(* The theorems                                                            *)
(***************************************************************************)
\* The invariant of an invocation: the spec carries what was authored, a run has a
\* valid spec, and its users have the principals of its topology.
THEOREM CredentialsInvariance == Spec => []CredentialsInv
<1>1. CredentialsInv /\ [Next]_vars => CredentialsInv'
  BY ExpandStep, SubmitStep, CreateStep, StartRunStep, AuthenticateStep, ReproduceStep,
     CredentialsStay DEF Next
<1> QED BY <1>1, CredentialsStart, PTL DEF Spec

\* Whatever is missing refuses or fails a run that declares credentials: it never sends
\* an anonymous request unless an empty token was authored.
THEOREM NeverAnonymous == Spec => []NoSilentAnonymous
<1>1. CredentialsInv => NoSilentAnonymous
  BY NobodyAnonymous DEF CredentialsInv
<1> QED BY <1>1, CredentialsInvariance, PTL

\* A session is replayed under the principal it ran as.
THEOREM ReplaysAsSent == Spec => []ReplaySame
<1>1. CredentialsInv => ReplaySame
  BY DEF CredentialsInv
<1> QED BY <1>1, CredentialsInvariance, PTL

=============================================================================
