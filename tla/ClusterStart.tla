----------------------------- MODULE ClusterStart -----------------------------
(***************************************************************************)
(* How a cluster adapter comes to run: LoadConfigFromEnv, setDefaults and    *)
(* Validate of pgcluster, rediscluster and amqpcluster, the constructor, the  *)
(* background tasks of the TombManager (a panic in one is recovered) and      *)
(* Shutdown, and the waits of calculateBackoff between attempts.  Durations   *)
(* are integers of Width bits; what the variables name is a server: <<"list",  *)
(* i>> the i-th of the list, <<"url", i>> and <<"host", i>> what the variable  *)
(* with suffix i holds (0: without suffix), Localhost the built-in default.   *)
(***************************************************************************)
EXTENDS Integers, Sequences, FiniteSets

CONSTANTS
    Packages,  \* which of "pg", "redis", "amqp"
    Slots,     \* bound: numbered variables (the code reads 10 URLs and 5 hosts)
    Width,     \* bits of a time.Duration (64 in the code)
    Second,    \* a second, in units of time.Duration
    Counts,    \* what pool sizes and retry counts may be set to (or to -1)
    Durations, \* what intervals and back-offs may be set to (or to -1)
    Unset      \* the variable is not set, or does not parse

ASSUME SizeAssumption == Slots \in Nat \ {0} /\ Width \in Nat \ {0} /\ Second \in Nat \ {0}
ASSUME PackageAssumption == Packages \subseteq {"pg", "redis", "amqp"}
ASSUME ValueAssumption == Counts \cup Durations \subseteq Nat /\ Unset \notin Int

VARIABLES
    package, \* the package at work
    env,     \* the environment variables
    config,  \* the configuration loaded from them
    phase,   \* "load", "refused", "connect", "failed", "running", "panicked", "stopping", "stopped"
    tasks,   \* the background tasks
    attempt, \* attempts made: sql.Open of a node, or one Redis command
    wait     \* the last wait between two attempts

startVars == <<package, env, config, phase, tasks, attempt, wait>>

-----------------------------------------------------------------------------
(***************************************************************************)
(* The servers: loadConnectionURLs, loadNodes, buildURLFromComponents and    *)
(* buildNodeURL.                                                           *)
(***************************************************************************)
Localhost == <<"localhost", 0>>

Listed == [i \in 1..env.listed |-> <<"list", i>>]

\* The k-th smallest of a set of suffixes.
Nth(suffixes, k) == CHOOSE n \in suffixes : Cardinality({m \in suffixes : m <= n}) = k

\* The variables of a kind that are set, in the order of their suffixes.
Named(kind, suffixes) == [k \in 1..Cardinality(suffixes) |-> <<kind, Nth(suffixes, k)>>]

\* Mutant: the search ends at the first number that is missing.
NumberedWithoutGap == Named("url", {i \in env.urls \ {0} : 1..i \subseteq env.urls})

Numbered == Named("url", env.urls \ {0})

\* Without suffix: the host that is set, or localhost.
Host == IF 0 \in env.hosts THEN <<"host", 0>> ELSE Localhost

RedisServers ==
    LET first == IF Numbered # <<>> THEN Numbered
                 ELSE IF 0 \in env.urls THEN <<<<"url", 0>>>> ELSE <<Host>>
    IN CASE env.listed > 0 -> Listed
         [] env.listed = 0 /\ Len(first) = 1 -> first \o Named("host", env.hosts \ {0, 1})
         [] OTHER -> first

\* A host without number of its own stands in for every one that has none.
PgHosts ==
    IF 0 \in env.hosts
      THEN [i \in 1..Slots |-> <<"host", IF i \in env.hosts THEN i ELSE 0>>]
      ELSE Named("host", env.hosts)

PgServers ==
    LET writer == IF 0 \in env.urls THEN <<"url", 0>> ELSE Host
        readers == Listed \o Numbered
    IN <<writer>> \o (IF readers = <<>> THEN PgHosts ELSE readers)

\* The first node has no suffix, the i-th the suffix i; it is there if anything says where.
AmqpSuffixes ==
    {0} \cup {i \in 2..Slots : i \in env.urls \cup env.hosts \/ 0 \in env.hosts}

AmqpServer(i) ==
    CASE i \in env.urls -> <<"url", i>>
      [] i \notin env.urls /\ i \in env.hosts -> <<"host", i>>
      [] OTHER -> Host

AmqpServers ==
    IF env.listed > 0 THEN Listed
    ELSE [k \in 1..Cardinality(AmqpSuffixes) |-> AmqpServer(Nth(AmqpSuffixes, k))]

\* REDIS_PASSWORD is read only past the early return for REDIS_CLUSTER_NODES.
Password == package = "redis" /\ env.listed = 0 /\ env.password

Servers ==
    CASE package = "pg" -> PgServers
      [] package = "redis" -> RedisServers
      [] package = "amqp" -> AmqpServers

-----------------------------------------------------------------------------
(***************************************************************************)
(* The numbers: what a setter takes, what setDefaults fills in, and Validate. *)
(***************************************************************************)
Positive == Nat \ {0}

\* A setting that is unset or refused keeps the zero value, which is a default's cue.
Set(value, accepted, default) ==
    IF value # Unset /\ value \in accepted \ {0} THEN value ELSE default

PgSettings ==
    [pool |-> Set(env.pool, Positive, 25), idle |-> Set(env.idle, Positive, 10),
     interval |-> Set(env.interval, Int, 30 * Second), retries |-> Set(env.retries, Positive, 3),
     base |-> Set(env.base, Int, Second), max |-> Set(env.max, Int, 30 * Second)]

RedisSettings ==
    [pool |-> Set(env.pool, Positive, 100), idle |-> Set(env.idle, Nat, 10),
     interval |-> Set(env.interval, Int, 30 * Second), retries |-> Set(env.retries, Nat, 3),
     base |-> Set(env.base, Int, Second), max |-> Set(env.max, Int, 30 * Second)]

\* Mutant: an interval without its unit.
AmqpSettingsUnitless ==
    [pool |-> 0, idle |-> 0, interval |-> 30, retries |-> 3, base |-> 0, max |-> 0]

\* app uses the node list alone: NewClusterPublisher and NewClusterSubscriber bring
\* an interval and a retry count of their own.
AmqpSettings ==
    [pool |-> 0, idle |-> 0, interval |-> 30 * Second, retries |-> 3, base |-> 0, max |-> 0]

Settings ==
    CASE package = "pg" -> PgSettings
      [] package = "redis" -> RedisSettings
      [] package = "amqp" -> AmqpSettings

\* LoadConfigFromEnv of amqpcluster does not call Validate.
Valid(c) ==
    \/ package = "amqp"
    \/ /\ c.name /\ c.servers # <<>>
       /\ c.pool > 0 /\ c.idle \in 0..c.pool
       /\ c.interval > 0
       /\ IF package = "pg" THEN c.retries > 0 ELSE c.retries >= 0

-----------------------------------------------------------------------------
(***************************************************************************)
(* time.Duration, and calculateBackoff.                                    *)
(***************************************************************************)
MaxDuration == 2^(Width - 1) - 1

Wrap(n) == ((n + 2^(Width - 1)) % 2^Width) - 2^(Width - 1)

\* Division truncates towards zero.
Quarter(d) == IF d >= 0 THEN d \div 4 ELSE -((-d) \div 4)

\* Mutant: the limit is not applied.
BackoffUnlimited(n) == Wrap((IF n < Width THEN Wrap(2^n) ELSE 0) * config.base)

Backoff(n) ==
    LET shifted == Wrap((IF n < Width THEN Wrap(2^n) ELSE 0) * config.base)
    IN IF shifted > config.max THEN config.max ELSE shifted

(***************************************************************************)
(* The environments of interest: the servers vary, or the numbers do.      *)
(***************************************************************************)
Variables(listed, urls, hosts, flags, sizes, retries, durations) ==
    [listed : listed, urls : urls, hosts : hosts, name : flags, password : flags,
     pool : sizes, idle : sizes, retries : retries,
     interval : durations, base : durations, max : durations]

Given(values) == values \cup {-1, Unset}

Environments ==
    Variables(0..2, SUBSET (0..Slots), SUBSET (0..Slots), BOOLEAN, {Unset}, {Unset}, {Unset})
    \cup
    Variables({0}, {{0}}, {{}}, {TRUE}, Given(Counts), {Unset}, {Unset})
    \cup
    Variables({0}, {{0}}, {{}}, {TRUE}, {Unset}, Given(Counts), Given(Durations))

\* What may be loaded; the numbers are defaults or were set.
Sizes == {0, 3, 10, 25, 100} \cup Counts

Delays == {-1, 0, Second, 30 * Second} \cup Durations

Configurations ==
    [name : BOOLEAN, servers : Seq({"list", "url", "host", "localhost"} \X Nat),
     password : BOOLEAN, pool : Sizes, idle : Sizes, retries : Sizes,
     interval : Delays, base : Delays, max : Delays]

Unloaded ==
    [name |-> FALSE, servers |-> <<>>, password |-> FALSE, pool |-> 0, idle |-> 0, interval |-> 0,
     retries |-> 0, base |-> 0, max |-> 0]

Tasks == {"health", "writer", "subscriber"}

(***************************************************************************)
(* The one type invariant of the module.                                   *)
(***************************************************************************)
StartTypeOK ==
    /\ package \in Packages
    /\ env \in Environments
    /\ config \in Configurations
    /\ phase \in {"load", "refused", "connect", "failed", "running", "panicked", "stopping", "stopped"}
    /\ tasks \in [Tasks -> {"off", "starting", "running", "parked", "panicked", "ended"}]
    /\ attempt \in Nat
    /\ wait \in -(MaxDuration + 1)..MaxDuration

StartInit ==
    /\ package \in Packages
    /\ env \in Environments
    /\ config = Unloaded
    /\ phase = "load"
    /\ tasks = [t \in Tasks |-> "off"]
    /\ attempt = 0
    /\ wait = 0

-----------------------------------------------------------------------------
\* LoadConfigFromEnv; NewClusterManager fills defaults in and validates once more.
Loaded ==
    [name |-> env.name, servers |-> Servers, password |-> Password,
     pool |-> Settings.pool, idle |-> Settings.idle, retries |-> Settings.retries,
     interval |-> Settings.interval, base |-> Settings.base, max |-> Settings.max]

LoadConfigFromEnv ==
    /\ phase = "load"
    /\ config' = Loaded
    /\ phase' = IF Valid(Loaded) THEN "connect" ELSE "refused"
    /\ UNCHANGED <<package, env, tasks, attempt, wait>>

(***************************************************************************)
(* Attempts: sql.Open in pgcluster's connectToNode, a command in             *)
(* rediscluster's ExecuteWithRetry; the wait has a jitter, rand.Int63n.       *)
(***************************************************************************)
Attempts == IF package = "pg" THEN config.retries ELSE config.retries + 1

Retrying ==
    \/ package = "pg" /\ phase = "connect"
    \/ package = "redis" /\ phase = "running"

AttemptFails ==
    /\ Retrying
    /\ attempt < Attempts
    /\ attempt' = attempt + 1
    /\ LET backoff == Backoff(attempt) IN
         CASE attempt + 1 = Attempts -> UNCHANGED <<phase, wait>>
           [] attempt + 1 < Attempts /\ Quarter(backoff) <= 0 ->
                phase' = "panicked" /\ UNCHANGED wait
           [] OTHER ->
                /\ \E jitter \in 0..(Quarter(backoff) - 1) : wait' = Wrap(backoff + jitter)
                /\ UNCHANGED phase
    /\ UNCHANGED <<package, env, config, tasks>>

\* The node or the command is done with.
AttemptsEnd ==
    /\ Retrying
    /\ attempt > 0
    /\ attempt' = 0
    /\ wait' = 0
    /\ UNCHANGED <<package, env, config, phase, tasks>>

-----------------------------------------------------------------------------
(***************************************************************************)
(* The constructors and the TombManager.                                   *)
(***************************************************************************)
NoServerAnswers ==
    /\ phase = "connect"
    /\ attempt = 0
    /\ phase' = "failed"
    /\ UNCHANGED <<package, env, config, tasks, attempt, wait>>

\* startHealthMonitoring, and startWriterDetection unless the strategy is "config".
SomeServerAnswers ==
    /\ phase = "connect"
    /\ attempt = 0
    /\ phase' = "running"
    /\ \E writer \in IF package = "pg" THEN {"off", "starting"} ELSE {"off"} :
         tasks' = [tasks EXCEPT !["health"] = "starting", !["writer"] = writer]
    /\ UNCHANGED <<package, env, config, attempt, wait>>

StartEventSubscriber ==
    /\ package = "amqp"
    /\ phase = "running"
    /\ tasks["subscriber"] = "off"
    /\ tasks' = [tasks EXCEPT !["subscriber"] = "starting"]
    /\ UNCHANGED <<package, env, config, phase, attempt, wait>>

Interval(t) ==
    CASE t = "health" -> config.interval
      [] t = "writer" -> Wrap(3 * config.interval)
      [] t = "subscriber" -> Second

\* Mutant: a panic is not recovered, nor the wait group told.
StartTaskWedged(t) ==
    /\ tasks[t] = "starting"
    /\ tasks' = [tasks EXCEPT ![t] = IF Interval(t) > 0 THEN "running" ELSE "starting"]
    /\ UNCHANGED <<package, env, config, phase, attempt, wait>>

\* The goroutine of a task: time.NewTicker panics unless its interval is positive.
StartTask(t) ==
    /\ tasks[t] = "starting"
    /\ tasks' = [tasks EXCEPT ![t] = IF Interval(t) > 0 THEN "running" ELSE "panicked"]
    /\ UNCHANGED <<package, env, config, phase, attempt, wait>>

\* The select after a failure waits for the context and for a channel that is nil:
\* the subscriber is not tried again.
SubscriberFails ==
    /\ tasks["subscriber"] = "running"
    /\ tasks' = [tasks EXCEPT !["subscriber"] = "parked"]
    /\ UNCHANGED <<package, env, config, phase, attempt, wait>>

Shutdown ==
    /\ phase = "running"
    /\ phase' = "stopping"
    /\ attempt' = 0 /\ wait' = 0
    /\ UNCHANGED <<package, env, config, tasks>>

EndTask(t) ==
    /\ phase = "stopping"
    /\ tasks[t] \in {"running", "parked"}
    /\ tasks' = [tasks EXCEPT ![t] = "ended"]
    /\ UNCHANGED <<package, env, config, phase, attempt, wait>>

\* The wait group is at zero.
Stop ==
    /\ phase = "stopping"
    /\ \A t \in Tasks : tasks[t] \in {"off", "panicked", "ended"}
    /\ phase' = "stopped"
    /\ UNCHANGED <<package, env, config, tasks, attempt, wait>>

StartNext ==
    \/ LoadConfigFromEnv \/ AttemptFails \/ AttemptsEnd
    \/ NoServerAnswers \/ SomeServerAnswers \/ StartEventSubscriber \/ SubscriberFails
    \/ \E t \in Tasks : StartTask(t) \/ EndTask(t)
    \/ Shutdown \/ Stop

StartSpec == StartInit /\ [][StartNext]_startVars

(***************************************************************************)
(* Fairness: goroutines run; a task that waits sees its context end.  None   *)
(* for the writer task, which a detection under way may hold up               *)
(* (PgWriterDetection), nor for a subscriber function at work.               *)
(***************************************************************************)
StartFairSpec ==
    /\ StartSpec
    /\ \A t \in Tasks : WF_startVars(StartTask(t))
    /\ WF_startVars(EndTask("health"))
    /\ WF_startVars(tasks["subscriber"] = "parked" /\ EndTask("subscriber"))
    /\ WF_startVars(Stop)

-----------------------------------------------------------------------------
Occurrences(server) == {i \in DOMAIN config.servers : config.servers[i] = server}

Used(server) == Occurrences(server) # {}

\* The numbers of the URLs that count: a list stands for all but pgcluster's, and
\* RABBITMQ_URL_1 is never read.
UrlsRead ==
    CASE package = "pg" -> env.urls \ {0}
      [] package = "redis" -> IF env.listed > 0 THEN {} ELSE env.urls \ {0}
      [] package = "amqp" -> IF env.listed > 0 THEN {} ELSE env.urls \ {0, 1}

\* The numbers of the hosts that count: pgcluster wants no reader named otherwise,
\* rediscluster at most one numbered URL, amqpcluster no URL of the same number; the
\* last two never read number 1, RABBITMQ_HOST_1 of DockerComposeExample included.
HostsRead ==
    CASE package = "pg" -> IF env.listed = 0 /\ UrlsRead = {} THEN env.hosts \ {0} ELSE {}
      [] package = "redis" ->
           IF env.listed = 0 /\ Cardinality(UrlsRead) <= 1 THEN env.hosts \ {0, 1} ELSE {}
      [] package = "amqp" -> IF env.listed = 0 THEN env.hosts \ (env.urls \cup {0, 1}) ELSE {}

\* The first server is localhost unless something without a number names it: a list
\* does, but not pgcluster's, and numbered URLs do, but rediscluster's alone.
FirstIsLocalhost ==
    /\ env.urls \cap {0} = {} /\ 0 \notin env.hosts
    /\ CASE package = "pg" -> TRUE
         [] package = "redis" -> env.listed = 0 /\ UrlsRead = {}
         [] package = "amqp" -> env.listed = 0

\* What an adapter runs with, whatever is set: exactly the servers that count, gaps in
\* the numbers or not, none of them twice unless a host without number stands in for
\* others, and localhost although a numbered variable that does not count names one.
\* A positive number survives setDefaults; a default takes the place of one that is
\* unset, zero (REDIS_MAX_RETRIES=0 too) or a negative count, while a negative delay
\* stays, and the limits never contradict each other.  amqpcluster runs with its
\* constructors' numbers, whatever RABBITMQ_RETRY_ATTEMPTS or
\* RABBITMQ_HEALTH_CHECK_INTERVAL say, and REDIS_PASSWORD is lost beside
\* REDIS_CLUSTER_NODES, where ProdClusterExample sets both (loadConnectionURLs,
\* loadNodes, buildNodeURL, setDefaults, Validate).
RunsAsConfigured ==
    phase \notin {"load", "refused"} =>
        /\ config.servers # <<>>
        /\ \A i \in 1..env.listed : Used(<<"list", i>>)
        /\ \A i \in 1..Slots :
             /\ Used(<<"url", i>>) <=> i \in UrlsRead
             /\ Used(<<"host", i>>) <=> i \in HostsRead
        /\ Used(Localhost) <=> FirstIsLocalhost
        /\ \A i, j \in DOMAIN config.servers :
             i # j /\ config.servers[i] = config.servers[j] =>
                package # "redis" /\ config.servers[i] = <<"host", 0>>
        /\ package = "amqp" => config.interval = 30 * Second /\ config.retries = 3
        /\ package # "amqp" =>
             /\ config.idle <= config.pool
             /\ \A f \in {"pool", "idle", "interval", "retries", "base", "max"} :
                  CASE env[f] \in Positive -> config[f] = env[f]
                    [] env[f] = -1 /\ f \in {"interval", "base", "max"} -> config[f] = -1
                    [] OTHER -> config[f] > 0
        /\ config.password = (package = "redis" /\ env.password /\ env.listed = 0)

Lesser(a, b) == IF a < b THEN a ELSE b

\* Attempts wait base * 2^n, at most max, and up to a quarter more, and nothing panics,
\* for any accepted configuration within the range of time.Duration, the jitter
\* included: Int63n wants a quarter that is positive, NewTicker an interval that is
\* (calculateBackoff, startHealthMonitoring, startWriterDetection).
WaitsBounded ==
    LET exact == config.base * 2^(attempt - 1)
        due == Lesser(exact, config.max)
    IN /\ attempt > 0 /\ exact <= MaxDuration /\ config.base >= 4 /\ config.max >= 4 =>
            /\ phase # "panicked"
            /\ attempt < Attempts /\ due + Quarter(due) <= MaxDuration =>
                 due <= wait /\ 4 * wait < 5 * due
       /\ \A t \in Tasks :
            tasks[t] = "panicked" => t = "writer" /\ 3 * config.interval > MaxDuration

\* Shutdown returns although a task has panicked, has not begun yet, or waits for a
\* retry that never comes.  Two tasks may hold its wg.Wait up for ever: a writer
\* detection, by its query, and an event subscriber at work, for subscriberFn is given
\* no context and may block (TombManager; StartEventSubscriber).
ShutdownEnds ==
    phase = "stopping" ~>
        phase = "stopped" \/ tasks["writer"] = "running" \/ tasks["subscriber"] = "running"

=============================================================================
