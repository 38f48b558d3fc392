------------------------------- MODULE Processes -------------------------------
(***************************************************************************)
(* The main functions of the six programs: what they refuse to start with, *)
(* what they open, which workers they start, and how they stop.            *)
(*                                                                         *)
(* A main opens one thing after the other and defers closing each of them; *)
(* log.Fatalf ends it on the spot and runs no deferred call.  Workers run  *)
(* in goroutines.  Nobody waits for them: what keeps one from using what   *)
(* is closed already is that its context is cancelled before.              *)
(*                                                                         *)
(* A program needs nothing of another but a client, whose creation may     *)
(* fail; so it is enough to follow one of them.                            *)
(*                                                                         *)
(* Left out: the names of databases, topics and addresses, which methods   *)
(* are not logged, and how long a restart waits.                           *)
(***************************************************************************)
EXTENDS Integers, Sequences, FiniteSets, SharedNames

CONSTANTS
  MaxInt, \* the largest int and the longest duration: 2^63 - 1 in the code
  Sizes   \* the batch sizes and the durations in settings

ASSUME ProcessesAssumption ==
  /\ MaxInt \in Nat \ {0}
  /\ Sizes \subseteq -(MaxInt + 1) .. MaxInt

--------------------------------------------------------------------------------
(* Numbers as the machine has them.                                          *)

Wrapped(n) == ((n + MaxInt + 1) % (2 * MaxInt + 2)) - (MaxInt + 1)

\* Go truncates; a is not negative here.
Quotient(a, b) == IF b > 0 THEN a \div b ELSE -(a \div (-b))

--------------------------------------------------------------------------------
(* Settings of a worker that leases batches: how many rows, for how long, and how     *)
(* long a call may take.                                                              *)

Settings == [batch : Sizes, lease : Sizes, call : Sizes]

AllPositive(s) == s.batch > 0 /\ s.lease > 0 /\ s.call > 0

\* The calls of RunOnce, the lease first; for each row a publication and a mark, for each
\* attempt up to five, for each cache key its deletion and a mark.
OutboxCalls(batch) == 1 + 2 * batch
RecoveryCalls(batch) == 1 + 5 * batch
CacheCalls(batch) == 1 + 2 * batch

\* A batch that is too large makes the number of calls negative.
OutboxAccepts(s) ==
  /\ AllPositive(s)
  /\ s.call <= Quotient(s.lease, Wrapped(OutboxCalls(s.batch)))

RecoveryAccepts(s) ==
  /\ AllPositive(s)
  /\ s.batch <= (MaxInt - 1) \div 5
  /\ s.call <= MaxInt \div RecoveryCalls(s.batch)
  /\ s.lease >= Wrapped(s.call * RecoveryCalls(s.batch))

\* The timeout of the server's calls, or less, so that a batch fits.
CappedCall(s) ==
  LET share == Quotient(s.lease, s.batch)
  IN  IF s.batch > 0 /\ share > 0 /\ s.call > share THEN share ELSE s.call

\* The product of the two is taken as the machine has it, unseen.
FitsLeaseBug(call, s) ==
  /\ s.batch > 0 /\ s.lease > 0 /\ call > 0
  /\ s.lease >= Wrapped(call * s.batch)

\* One call is reckoned for each row, not the calls of RunOnce.
FitsLease(call, s) ==
  /\ s.batch > 0 /\ s.lease > 0 /\ call > 0
  /\ call <= MaxInt \div s.batch
  /\ s.lease >= Wrapped(call * s.batch)

CacheAccepts(s) == FitsLease(CappedCall(s), s)

--------------------------------------------------------------------------------
(* Mains: steps in their order, up to Serve.  A check keeps nothing open; "workers" and *)
(* "cacheWorker" are contexts, with the goroutines that are started under them.        *)

UserMain == <<"environment", "db", "secret", "server">>

AgentMain ==
  <<"settings", "environment", "db", "secret", "product", "user", "knowledge", "server">>

KnowledgeMain ==
  <<"settings", "environment", "db", "secret", "storage", "embedding", "vectors", "publisher",
    "ingest", "embed", "server", "workers">>

OrderMain ==
  <<"settings", "environment", "token", "db", "secret", "user", "product", "publisher",
    "reviews", "server", "workers">>

ProductMain ==
  <<"environment", "token", "db", "cache", "settings", "order", "confirmation", "server",
    "cacheWorker", "workers">>

GatewayMain ==
  <<"environment", "product", "user", "order", "knowledge", "agent", "secret", "db",
    "publisher", "workers", "server">>

Main ==
  [user |-> UserMain, agent |-> AgentMain, knowledge |-> KnowledgeMain, order |-> OrderMain,
   product |-> ProductMain, gateway |-> GatewayMain]

ASSUME NoneIsNoProgram == None \notin DOMAIN Main

Checks == {"environment", "settings", "token", "secret", "storage", "embedding", "vectors"}
WorkerContexts == {"workers", "cacheWorker"}

\* Kafka readers and writers connect when they are used.
NeverFails == {"publisher", "ingest", "embed", "confirmation", "reviews"} \cup WorkerContexts

\* Redis is out of reach, and the shop sells all the same; reviews are not enabled.
Skippable == {"cache", "reviews"}

\* The environment: what Load wants to be set, and what makes a token of the services.
Required ==
  {"MYSQL_DSN", "REDIS_ADDR", "KAFKA_BROKERS", "MINIO_ENDPOINT", "MINIO_ACCESS_KEY",
   "MINIO_SECRET_KEY", "MILVUS_ADDRESS", "JWT_SECRET"}
Optional == {"EMBEDDING_DIMENSION", "DASHSCOPE_API_KEY", "INTERNAL_SERVICE_TOKEN"}

\* What each variable may hold that there is a check for.
Values(v) ==
  CASE v \in Required               -> {"unset", "good"}
    [] v = "EMBEDDING_DIMENSION"    -> {"unset", "not positive", "good"}
    [] v = "DASHSCOPE_API_KEY"      -> {"unset", "good"}
    [] v = "INTERNAL_SERVICE_TOKEN" -> {"unset", "short", "placeholder", "not visible",
                                        "one character", "good"}

AllGood == [v \in Required \cup Optional |-> "good"]

\* All is well with the environment, or one variable is not.
Environments ==
  UNION {{[AllGood EXCEPT ![v] = value] : value \in Values(v)} : v \in DOMAIN AllGood}

Load(env) ==
  /\ \A v \in Required : env[v] # "unset"
  /\ env["EMBEDDING_DIMENSION"] # "not positive"

ValidateInternalServiceToken(env) == env["INTERNAL_SERVICE_TOKEN"] = "good"

buildEmbeddingProvider(env) == env["DASHSCOPE_API_KEY"] # "unset"

--------------------------------------------------------------------------------
(* Workers: their program and context, what they work with, whose rule the settings   *)
(* of their leases are under, if they lease, and what an error does to them: the      *)
(* loops go on, one consumer is run again after a while, the others are over.  A      *)
(* topic on which nothing comes for the time of a call is such an error.              *)

Workers ==
  [cache        |-> [of |-> "product", under |-> "cacheWorker", uses |-> {"db", "cache"},
                     leases |-> "cache", error |-> "loop"],
   confirmation |-> [of |-> "product", under |-> "workers", uses |-> {"db", "confirmation"},
                     leases |-> None, error |-> "again"],
   expiry       |-> [of |-> "product", under |-> "workers", uses |-> {"db", "order"},
                     leases |-> "expiry", error |-> "loop"],
   outbox       |-> [of |-> "order", under |-> "workers", uses |-> {"db", "publisher"},
                     leases |-> "outbox", error |-> "loop"],
   recovery     |-> [of |-> "order", under |-> "workers", uses |-> {"db", "product"},
                     leases |-> "recovery", error |-> "loop"],
   reviews      |-> [of |-> "order", under |-> "workers", uses |-> {"db", "reviews"},
                     leases |-> None, error |-> "over"],
   relay        |-> [of |-> "knowledge", under |-> "workers", uses |-> {"db", "publisher"},
                     leases |-> "outbox", error |-> "loop"],
   ingest       |-> [of |-> "knowledge", under |-> "workers", uses |-> {"db", "ingest"},
                     leases |-> None, error |-> "over"],
   embed        |-> [of |-> "knowledge", under |-> "workers", uses |-> {"db", "embed"},
                     leases |-> None, error |-> "over"],
   behavior     |-> [of |-> "gateway", under |-> "workers", uses |-> {"db", "publisher"},
                     leases |-> None, error |-> "over"]]

WorkersOf(p) == {w \in DOMAIN Workers : Workers[w].of = p}

\* No main looks at the settings of the expiry worker: RunOnce does nothing, pass after
\* pass, when one is not positive, and otherwise takes them as they are.
Accepts(w, s) ==
  CASE Workers[w].leases = "outbox"   -> OutboxAccepts(s)
    [] Workers[w].leases = "recovery" -> RecoveryAccepts(s)
    [] Workers[w].leases = "cache"    -> CacheAccepts(s)
    [] Workers[w].leases = "expiry"   -> TRUE

\* The longest that RunOnce can take for a batch, whatever the machine makes of it.
LongestBatch(w, s) ==
  CASE Workers[w].leases = "outbox"   -> OutboxCalls(s.batch) * s.call
    [] Workers[w].leases = "recovery" -> RecoveryCalls(s.batch) * s.call
    [] Workers[w].leases = "cache"    -> CacheCalls(s.batch) * CappedCall(s)

--------------------------------------------------------------------------------

VARIABLES
  program,     \* the one that is followed, or None
  environment, \* ... what it is started in
  tuned,       \* ... the worker its settings are changed for, with them, or None
  phase,       \* ... "down", "starting", "serving", "closing" or "gone"
  reached,     \* how many steps of its main are done
  open,        \* what is open, in the order in which it was opened
  worker       \* what each worker does

processVars == <<program, environment, tuned, phase, reached, open, worker>>

Steps(p) == {Main[p][i] : i \in DOMAIN Main[p]}
Opened == {open[i] : i \in DOMAIN open}
Working(w) == worker[w] \in {"running", "pausing"}

\* Its context: cancelling is what closing it is.
Cancelled(w) == Workers[w].under \notin Opened

ProcessesTypeOK ==
  /\ program \in {None} \cup DOMAIN Main
  /\ environment \in Environments
  /\ tuned = None \/ (tuned[1] \in DOMAIN Workers /\ tuned[2] \in Settings)
  /\ phase \in {"down", "starting", "serving", "closing", "gone"}
  /\ program = None => reached = 0 /\ open = <<>>
  /\ program # None => /\ reached \in 0 .. Len(Main[program])
                       /\ Opened \subseteq Steps(program) \ Checks
  /\ worker \in [DOMAIN Workers -> {"none", "running", "pausing", "over"}]

ProcessesInit ==
  /\ program = None
  /\ environment = AllGood
  /\ tuned = None
  /\ phase = "down"
  /\ reached = 0
  /\ open = <<>>
  /\ worker = [w \in DOMAIN Workers |-> "none"]

--------------------------------------------------------------------------------
(* Starting                                                                  *)

\* One worker's settings may be anything, or one variable; the rest is as it should be.
Boot ==
  /\ phase = "down"
  /\ program' \in DOMAIN Main
  /\ phase' = "starting"
  /\ environment' \in Environments
  /\ tuned' \in {None} \cup
       ({w \in WorkersOf(program') : Workers[w].leases # None} \X Settings)
  /\ environment' = AllGood \/ tuned' = None
  /\ UNCHANGED <<reached, open, worker>>

NextStep == Main[program][reached + 1]

AtStep(kind) ==
  /\ phase = "starting"
  /\ reached < Len(Main[program])
  /\ NextStep \in kind

\* What the process held is closed by the system, and nobody runs any more.
Vanish ==
  /\ phase' = "gone"
  /\ open' = <<>>
  /\ worker' = [w \in DOMAIN Workers |-> IF worker[w] = "none" THEN "none" ELSE "over"]
  /\ tuned' = None
  /\ UNCHANGED <<program, environment, reached>>

\* "secret", "storage", "vectors" and what settings there are besides.
MayPass(check) ==
  CASE check = "environment" -> Load(environment)
    [] check = "token"       -> ValidateInternalServiceToken(environment)
    [] check = "embedding"   -> buildEmbeddingProvider(environment)
    [] check = "settings"    -> tuned # None => Accepts(tuned[1], tuned[2])
    [] OTHER                 -> TRUE

Check ==
  /\ AtStep(Checks)
  /\ MayPass(NextStep)
  /\ reached' = reached + 1
  /\ UNCHANGED <<program, environment, tuned, phase, open, worker>>

\* log.Fatalf.
Fatal ==
  /\ \/ AtStep(Checks) /\ (NextStep \in {"environment", "token"} => ~MayPass(NextStep))
     \/ AtStep({"db", "server", "product", "user", "order", "knowledge", "agent"})
  /\ Vanish

OpenNext ==
  /\ phase = "starting"
  /\ reached < Len(Main[program])
  /\ NextStep \notin Checks \cup WorkerContexts
  /\ reached' = reached + 1
  /\ open' = Append(open, NextStep)
  /\ UNCHANGED <<program, environment, tuned, phase, worker>>

Skip ==
  /\ AtStep(Skippable)
  /\ reached' = reached + 1
  /\ UNCHANGED <<program, environment, tuned, phase, open, worker>>

\* Workers start without looking for what they need.
StartableBug(w) == Workers[w].under = NextStep

\* A worker is created with the cache or the reader it is for, or not at all.
Startable(w) ==
  /\ Workers[w].under = NextStep
  /\ w \in {"cache", "reviews"} => w \in Opened

StartWorkers ==
  /\ AtStep(WorkerContexts)
  /\ reached' = reached + 1
  /\ open' = Append(open, NextStep)
  /\ worker' = [w \in DOMAIN Workers |->
                  IF w \in WorkersOf(program) /\ Startable(w) THEN "running" ELSE worker[w]]
  /\ UNCHANGED <<program, environment, tuned, phase>>

Serve ==
  /\ phase = "starting"
  /\ reached = Len(Main[program])
  /\ phase' = "serving"
  /\ UNCHANGED <<program, environment, tuned, reached, open, worker>>

--------------------------------------------------------------------------------
(* Running                                                                   *)

\* Only workers for which an error changes anything.
WorkerFails(w) ==
  /\ worker[w] = "running"
  /\ ~Cancelled(w)
  /\ \/ Workers[w].error = "again" /\ worker' = [worker EXCEPT ![w] = "pausing"]
     \/ Workers[w].error = "over" /\ worker' = [worker EXCEPT ![w] = "over"]
  /\ UNCHANGED <<program, environment, tuned, phase, reached, open>>

RunAgain(w) ==
  /\ worker[w] = "pausing"
  /\ ~Cancelled(w)
  /\ worker' = [worker EXCEPT ![w] = "running"]
  /\ UNCHANGED <<program, environment, tuned, phase, reached, open>>

\* It sees that its context is cancelled, sooner or later.
WorkerStops(w) ==
  /\ Working(w)
  /\ Cancelled(w)
  /\ worker' = [worker EXCEPT ![w] = "over"]
  /\ UNCHANGED <<program, environment, tuned, phase, reached, open>>

--------------------------------------------------------------------------------
(* Stopping                                                                  *)

StartReturns ==
  /\ phase = "serving"
  /\ phase' = "closing"
  /\ UNCHANGED <<program, environment, tuned, reached, open, worker>>

\* Deferred calls: the last one first.
CloseLast ==
  /\ phase = "closing"
  /\ open # <<>>
  /\ open' = SubSeq(open, 1, Len(open) - 1)
  /\ UNCHANGED <<program, environment, tuned, phase, reached, worker>>

MainReturns ==
  /\ phase = "closing"
  /\ open = <<>>
  /\ Vanish

Kill ==
  /\ phase \in {"starting", "serving", "closing"}
  /\ Vanish

--------------------------------------------------------------------------------

ProcessesNext ==
  \/ Boot \/ Check \/ Fatal \/ OpenNext \/ Skip \/ StartWorkers \/ Serve
  \/ StartReturns \/ CloseLast \/ MainReturns \/ Kill
  \/ \E w \in WorkersOf(program) : WorkerFails(w) \/ RunAgain(w) \/ WorkerStops(w)

ProcessesSpec == ProcessesInit /\ [][ProcessesNext]_processVars

--------------------------------------------------------------------------------
(* Properties                                                                *)

\* From the start to the end of a process, a worker whose context is not cancelled finds
\* all it works with open: the deferred calls cancel before they close, and a worker
\* whose cache or reader there is not is not started.
WorkersHoldWhatTheyUse ==
  \A w \in WorkersOf(program) : Working(w) /\ ~Cancelled(w) => Workers[w].uses \subseteq Opened

\* What the checks of settings are worth, whatever overflows in them.  The lease that a
\* running outbox, relay or recovery worker takes outlasts all calls of its batch.  That
\* of the cache worker outlasts the deletions alone: its batch may take twice the lease
\* and a call, but never longer; a mark that comes too late is refused, and the task is
\* done again.  Nothing bounds a batch of the expiry worker, whose pauses PaymentSaga has.
BatchesAreBounded ==
  tuned # None /\ worker[tuned[1]] = "running" =>
    LET w == tuned[1]
        s == tuned[2]
    IN  /\ Workers[w].leases \in {"outbox", "recovery"} => LongestBatch(w, s) <= s.lease
        /\ Workers[w].leases = "cache" => LongestBatch(w, s) <= 2 * s.lease + CappedCall(s)

================================================================================
