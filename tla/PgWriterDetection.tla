-------------------------- MODULE PgWriterDetection --------------------------
(***************************************************************************)
(* pgcluster's writer detection: which node carries RoleWriter, and with    *)
(* which read priority, while the primary moves between the servers.        *)
(*                                                                         *)
(* "query" and "probe" start one goroutine per usable node that asks the    *)
(* server and applies the answer later, under node.mutex; "dns" walks the   *)
(* nodes in the background task, and in every ForceWriterDetection call, at *)
(* the same time; SetWriterNode walks them under cm.mutex, which detection  *)
(* does not take.  The in-flight goroutines of a node are counted by what   *)
(* they know.  The health checks of PgCluster appear as conn.               *)
(***************************************************************************)
EXTENDS Naturals, FiniteSets

CONSTANTS
    N,            \* number of nodes
    Strategies,   \* WriterDetectionStrategy: any of "query", "probe", "dns"
    IpNodes,      \* nodes whose URL is postgres:// with an IP address
    HostNodes,    \* nodes whose URL is postgres:// with a host name
    Walkers,      \* goroutines that run the DNS walk
    Setters,      \* goroutines that call SetWriterNode
    MaxInFlight,  \* bound: detection goroutines in flight per node
    MaxFailovers, \* bound: times the primary moves
    MaxOutages,   \* bound: times a node stops being healthy
    MaxLosses,    \* bound: nodes that lose their pool (a permanent error)
    MaxSets       \* bound: calls of SetWriterNode

ASSUME NAssumption == N \in Nat \ {0}
ASSUME StrategyAssumption == Strategies \subseteq {"query", "probe", "dns"}
ASSUME UrlAssumption == IpNodes \subseteq 1..N /\ HostNodes \subseteq (1..N) \ IpNodes
ASSUME BoundAssumption ==
    {MaxInFlight, MaxFailovers, MaxOutages, MaxLosses, MaxSets} \subseteq Nat

Nodes == 1..N
Answers == {"asked", "primary", "replica"}

VARIABLES
    strategy,  \* the strategy configured
    role,      \* node.Role
    priority,  \* node.Priority
    conn,      \* "usable" (Health healthy, a pool), "unhealthy", "nil" (no pool) or
               \* "stuck" (no pool, and node.mutex held for ever: see PgCluster)
    flight,    \* detection goroutines per node: not answered yet, or holding an answer
    walker,    \* the DNS walks: the IP resolved and the node reached
    setter,    \* the SetWriterNode calls
    crashed,   \* a goroutine dereferenced a nil *sql.DB: the process is gone
    primary,   \* the server that accepts writes (environment)
    dns,       \* the node WriterDNSName resolves to (environment)
    trusted,   \* history: nodes that were primary, configured or set as writer
    used       \* budgets spent: failovers, outages, losses, sets

nodeVars == <<role, priority>>
envVars == <<strategy, conn, primary, dns, trusted, used>>
vars == <<nodeVars, flight, walker, setter, crashed, envVars>>

(***************************************************************************)
(* The one type invariant of the module.                                   *)
(***************************************************************************)
TypeOK ==
    /\ strategy \in Strategies
    /\ role \in [Nodes -> {"writer", "reader"}]
    /\ priority \in [Nodes -> 0..N]
    /\ conn \in [Nodes -> {"usable", "unhealthy", "nil", "stuck"}]
    /\ flight \in [Nodes -> [Answers -> 0..MaxInFlight]]
    /\ walker \in [Walkers -> [pc : {"idle", "walk"}, ip : Nodes, idx : 1..(N + 1)]]
    /\ setter \in [Setters -> [pc : {"idle", "walk"}, target : Nodes, idx : 1..(N + 1)]]
    /\ crashed \in BOOLEAN
    /\ primary \in Nodes
    /\ dns \in Nodes
    /\ trusted \subseteq Nodes
    /\ used \in [failovers : 0..MaxFailovers, outages : 0..MaxOutages,
                 losses : 0..MaxLosses, sets : 0..MaxSets]

\* Node 1 is built from WriterURL with priority 0, reader i with priority i.
Init ==
    /\ strategy \in Strategies
    /\ role = [n \in Nodes |-> IF n = 1 THEN "writer" ELSE "reader"]
    /\ priority = [n \in Nodes |-> n - 1]
    /\ conn = [n \in Nodes |-> "usable"]
    /\ flight = [n \in Nodes |-> [a \in Answers |-> 0]]
    /\ walker = [w \in Walkers |-> [pc |-> "idle", ip |-> 1, idx |-> 1]]
    /\ setter = [s \in Setters |-> [pc |-> "idle", target |-> 1, idx |-> 1]]
    /\ crashed = FALSE
    /\ primary = 1
    /\ dns = 1
    /\ trusted = {1}
    /\ used = [failovers |-> 0, outages |-> 0, losses |-> 0, sets |-> 0]

-----------------------------------------------------------------------------
(***************************************************************************)
(* The environment.                                                        *)
(***************************************************************************)
Failover ==
    /\ used.failovers < MaxFailovers
    /\ \E p \in Nodes \ {primary} : primary' = p /\ trusted' = trusted \cup {p}
    /\ used' = [used EXCEPT !.failovers = @ + 1]
    /\ UNCHANGED <<nodeVars, flight, walker, setter, crashed, strategy, conn, dns>>

DnsUpdate ==
    /\ dns # primary
    /\ dns' = primary
    /\ UNCHANGED <<nodeVars, flight, walker, setter, crashed, strategy, conn, primary, trusted, used>>

\* What PgCluster's health checks do to a node, as far as detection sees it.
Outage(n) ==
    /\ conn[n] = "usable"
    /\ used.outages < MaxOutages
    /\ conn' = [conn EXCEPT ![n] = "unhealthy"]
    /\ used' = [used EXCEPT !.outages = @ + 1]
    /\ UNCHANGED <<nodeVars, flight, walker, setter, crashed, strategy, primary, dns, trusted>>

Recover(n) ==
    /\ conn[n] = "unhealthy"
    /\ conn' = [conn EXCEPT ![n] = "usable"]
    /\ UNCHANGED <<nodeVars, flight, walker, setter, crashed, strategy, primary, dns, trusted, used>>

LosePool(n) ==
    /\ conn[n] \in {"usable", "unhealthy"}
    /\ used.losses < MaxLosses
    /\ conn' = [conn EXCEPT ![n] = "nil"]
    /\ used' = [used EXCEPT !.losses = @ + 1]
    /\ UNCHANGED <<nodeVars, flight, walker, setter, crashed, strategy, primary, dns, trusted>>

SelfLock(n) ==
    /\ conn[n] = "nil"
    /\ conn' = [conn EXCEPT ![n] = "stuck"]
    /\ UNCHANGED <<nodeVars, flight, walker, setter, crashed, strategy, primary, dns, trusted, used>>

-----------------------------------------------------------------------------
(***************************************************************************)
(* The two ways a role changes; the caller holds node.mutex.                *)
(***************************************************************************)
Promote(n) ==
    /\ role' = [role EXCEPT ![n] = "writer"]
    /\ priority' = [priority EXCEPT ![n] = IF role[n] = "writer" THEN @ ELSE 0]

\* Mutant: the writer's priority 0 survives its demotion.
DemoteKeepsPriority(n) ==
    /\ role' = [role EXCEPT ![n] = "reader"]
    /\ UNCHANGED priority

\* Mutant: a demoted writer goes behind every replica.
DemoteBehindAll(n) ==
    /\ role' = [role EXCEPT ![n] = "reader"]
    /\ priority' = [priority EXCEPT ![n] = IF role[n] = "writer" THEN N + 1 ELSE @]

Demote(n) ==
    /\ role' = [role EXCEPT ![n] = "reader"]
    /\ priority' = [priority EXCEPT ![n] = IF role[n] = "writer" /\ @ = 0 THEN 1 ELSE @]

NodeLockable(n) == conn[n] # "stuck"

(***************************************************************************)
(* detectWriterByQuery and detectWriterByProbe: start, ask, apply.          *)
(* The unsynchronised test that the node is healthy and has a pool comes    *)
(* before the goroutine starts; node.sqlDB is read again inside it.         *)
(***************************************************************************)
InFlight(n) == flight[n]["asked"] + flight[n]["primary"] + flight[n]["replica"]

Detect(n) ==
    /\ strategy \in {"query", "probe"}
    /\ conn[n] = "usable"
    /\ InFlight(n) < MaxInFlight
    /\ flight' = [flight EXCEPT ![n]["asked"] = @ + 1]
    /\ UNCHANGED <<nodeVars, walker, setter, crashed, envVars>>

\* Mutant: a failed query is taken for the answer "not in recovery".
LearnsFromFailure(n) ==
    IF conn[n] = "unhealthy" \/ primary = n THEN {"primary"} ELSE {"replica"}

\* A probe knows one answer only: the transaction could be started.
Learns(n) == IF primary = n \/ strategy = "probe" THEN {"primary"} ELSE {"replica"}

\* A replica may refuse the probe's read-write transaction, as the code expects, or
\* accept it: the driver need not tell the server before the first statement.
MayFail(n) == conn[n] # "usable" \/ (strategy = "probe" /\ primary # n)

\* Also when the pool is dropped while the query runs.
Answer(n) ==
    /\ flight[n]["asked"] > 0
    /\ \/ \E a \in Learns(n) :
            flight' = [flight EXCEPT ![n]["asked"] = @ - 1, ![n][a] = @ + 1]
       \/ /\ MayFail(n)
          /\ flight' = [flight EXCEPT ![n]["asked"] = @ - 1]
    /\ UNCHANGED <<nodeVars, walker, setter, crashed, envVars>>

\* node.sqlDB.QueryRowContext / BeginTx on a nil *sql.DB panics, and nothing
\* recovers the goroutine.
NilPool(n) ==
    /\ flight[n]["asked"] > 0
    /\ conn[n] \in {"nil", "stuck"}
    /\ crashed' = TRUE
    /\ UNCHANGED <<nodeVars, flight, walker, setter, envVars>>

\* Mutant: an answer is applied when the role is already right, and lost when not.
ApplyInverted(n, a) ==
    /\ a \in {"primary", "replica"}
    /\ flight[n][a] > 0
    /\ NodeLockable(n)
    /\ flight' = [flight EXCEPT ![n][a] = @ - 1]
    /\ IF a = "primary" /\ role[n] = "writer" THEN Promote(n) ELSE UNCHANGED nodeVars
    /\ UNCHANGED <<walker, setter, crashed, envVars>>

Apply(n, a) ==
    /\ a \in {"primary", "replica"}
    /\ flight[n][a] > 0
    /\ NodeLockable(n)
    /\ flight' = [flight EXCEPT ![n][a] = @ - 1]
    /\ IF a = "primary" THEN Promote(n) ELSE Demote(n)
    /\ UNCHANGED <<walker, setter, crashed, envVars>>

-----------------------------------------------------------------------------
(***************************************************************************)
(* detectWriterByDNS and updateWriterByIP.  extractIPFromURL returns the    *)
(* host part of a postgres:// URL whatever it is: a host name is compared   *)
(* with the resolved IP, and differs.                                       *)
(***************************************************************************)
Resolve(w) ==
    /\ strategy = "dns"
    /\ walker[w].pc = "idle"
    /\ walker' = [walker EXCEPT ![w] = [pc |-> "walk", ip |-> dns, idx |-> 1]]
    /\ UNCHANGED <<nodeVars, flight, setter, crashed, envVars>>

Matches(n, ip) == n \in IpNodes /\ n = ip

UpdateByIP(w) ==
    LET n == walker[w].idx
    IN  /\ walker[w].pc = "walk"
        /\ n <= N
        /\ \/ /\ n \notin IpNodes \cup HostNodes
              /\ UNCHANGED nodeVars
           \/ /\ n \in IpNodes \cup HostNodes
              /\ NodeLockable(n)
              /\ IF Matches(n, walker[w].ip) THEN Promote(n) ELSE Demote(n)
        /\ walker' = [walker EXCEPT ![w].idx = n + 1]
        /\ UNCHANGED <<flight, setter, crashed, envVars>>

WalkDone(w) ==
    /\ walker[w].pc = "walk"
    /\ walker[w].idx = N + 1
    /\ walker' = [walker EXCEPT ![w].pc = "idle", ![w].idx = 1]
    /\ UNCHANGED <<nodeVars, flight, setter, crashed, envVars>>

-----------------------------------------------------------------------------
(***************************************************************************)
(* SetWriterNode, whose target gets priority 0 even if it is the writer.    *)
(***************************************************************************)
SetCall(s) ==
    /\ \A o \in Setters : setter[o].pc = "idle"
    /\ used.sets < MaxSets
    /\ \E t \in Nodes :
         /\ setter' = [setter EXCEPT ![s] = [pc |-> "walk", target |-> t, idx |-> 1]]
         /\ trusted' = trusted \cup {t}
    /\ used' = [used EXCEPT !.sets = @ + 1]
    /\ UNCHANGED <<nodeVars, flight, walker, crashed, strategy, conn, primary, dns>>

SetNode(s) ==
    LET n == setter[s].idx
    IN  /\ setter[s].pc = "walk"
        /\ n <= N
        /\ NodeLockable(n)
        /\ IF n = setter[s].target
             THEN /\ role' = [role EXCEPT ![n] = "writer"]
                  /\ priority' = [priority EXCEPT ![n] = 0]
             ELSE Demote(n)
        /\ setter' = [setter EXCEPT ![s].idx = n + 1]
        /\ UNCHANGED <<flight, walker, crashed, envVars>>

SetDone(s) ==
    /\ setter[s].pc = "walk"
    /\ setter[s].idx = N + 1
    /\ setter' = [setter EXCEPT ![s].pc = "idle", ![s].idx = 1]
    /\ UNCHANGED <<nodeVars, flight, walker, crashed, envVars>>

-----------------------------------------------------------------------------
EnvStep(n) == Outage(n) \/ Recover(n) \/ LosePool(n) \/ SelfLock(n)

DetectStep(n) == Detect(n) \/ Answer(n) \/ NilPool(n) \/ (\E a \in Answers : Apply(n, a))

WalkStep(w) == Resolve(w) \/ UpdateByIP(w) \/ WalkDone(w)

SetStep(s) == SetNode(s) \/ SetDone(s)

\* A crashed process takes no step.
Next ==
    /\ ~crashed
    /\ \/ Failover \/ DnsUpdate
       \/ \E n \in Nodes : EnvStep(n) \/ DetectStep(n)
       \/ \E w \in Walkers : WalkStep(w)
       \/ \E s \in Setters : SetStep(s) \/ SetCall(s)

Spec == Init /\ [][Next]_vars

(***************************************************************************)
(* Fairness: tickers fire, queries end (they carry timeouts), goroutines    *)
(* run, DNS follows a failover, and a node with a pool is in the end        *)
(* healthy again (PgCluster!NodesRecover).                                  *)
(***************************************************************************)
Fairness ==
    /\ WF_vars(~crashed /\ DnsUpdate)
    /\ \A n \in Nodes :
         /\ WF_vars(~crashed /\ Recover(n))
         /\ WF_vars(~crashed /\ Detect(n))
         /\ WF_vars(~crashed /\ (Answer(n) \/ NilPool(n)))
         /\ \A a \in Answers : WF_vars(~crashed /\ Apply(n, a))
    /\ \A w \in Walkers : WF_vars(~crashed /\ WalkStep(w))
    /\ \A s \in Setters : WF_vars(~crashed /\ SetStep(s))

FairSpec == Spec /\ Fairness

-----------------------------------------------------------------------------
(***************************************************************************)
(* Properties.                                                             *)
(***************************************************************************)

\* Priority 0 marks the writer and only the writer, whichever of detection,
\* DNS and SetWriterNode changed the role last: the "priority" strategy and
\* Writer agree on the node (the five places that assign Role and Priority).
PriorityTracksRole == \A n \in Nodes : role[n] = "writer" <=> priority[n] = 0

\* Late, reordered and failed answers never make a writer of a node that was
\* never the primary, nor configured, nor named to SetWriterNode.  The probe is
\* excepted: it makes one of every node that lets it begin a transaction.
WriterWasTrusted ==
    strategy # "probe" => \A n \in Nodes : role[n] = "writer" => n \in trusted

\* "the writer is discovered at runtime ... so a failover does not need a
\* restart" (doc.go): when failovers end, the writer among the usable nodes is in
\* the end the primary, and stays so, after answers and walks of any age.  That is
\* so for "query".  With "dns" (which leaves nodes without a postgres:// URL alone)
\* the primary becomes the writer only if its URL holds an IP: with the host names
\* of ProdClusterExample it is demoted and no node is writer.  "probe" promotes
\* the primary and demotes nobody, so there can be several.  All this except after
\* a node lost its pool, whose mutex may be held for ever (PgCluster).
RolesSettle ==
    [](used.losses = 0) =>
        <>[](\A n \in Nodes : conn[n] = "usable" =>
                CASE strategy = "query" -> role[n] = "writer" <=> n = primary
                  [] strategy = "dns" ->
                       n \in IpNodes \cup HostNodes =>
                           (role[n] = "writer" <=> n = primary /\ n \in IpNodes)
                  [] strategy = "probe" -> n = primary => role[n] = "writer")

=============================================================================
