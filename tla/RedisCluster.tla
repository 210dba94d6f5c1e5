----------------------------- MODULE RedisCluster -----------------------------
(***************************************************************************)
(* rediscluster.ClusterAdapter: commands with retry and failover, the        *)
(* health checks, updatePrimaryClient, MarkNodeFailed and Close, under the   *)
(* adapter's RWMutex and one RWMutex per node.  Health checks keep their     *)
(* node's mutex while they ping, reconnect (connectToNode asks for that      *)
(* mutex again) and ask for the adapter's; everything else holds a node's    *)
(* mutex for one step.  A waiting writer keeps new readers out (sync.RWMutex).*)
(***************************************************************************)
EXTENDS Naturals, FiniteSets

CONSTANTS
    N,          \* configured nodes, 1..N
    Callers,    \* goroutines that run commands through ExecuteWithRetry
    MaxRetries, \* config.MaxRetries
    Threshold,  \* config.CircuitBreakerThreshold
    Faults,     \* "server": servers stop and come back; "command": a command fails
                \* on a server that works; "cancel": contexts end
    Markable    \* nodes somebody calls MarkNodeFailed for

ASSUME NumberAssumption == N \in Nat \ {0} /\ MaxRetries \in Nat /\ Threshold \in Nat \ {0}
ASSUME FaultsAssumption == Faults \subseteq {"server", "command", "cancel"}
ASSUME MarkableAssumption == Markable \subseteq 1..N

Nodes == 1..N

VARIABLES
    node,    \* state, client and errorCount (up to Threshold) of each node
    primary, \* the node whose client primaryClient is; 0: nil
    recent,  \* nodes checked less than 10 s ago
    check,   \* the health check goroutine of each node, and how far it is
    marking, \* the node MarkNodeFailed is at, holding the adapter's read lock
    call,    \* the calls of ExecuteWithRetry
    closing, \* Close
    up,      \* servers that run (environment)
    steady   \* history: nodes that were in rotation and up since each call began

adapter == <<node, primary, recent, check, marking>>
vars == <<adapter, call, closing, up, steady>>

(***************************************************************************)
(* The one type invariant of the module.                                   *)
(***************************************************************************)
TypeOK ==
    /\ node \in [Nodes -> [state : {"healthy", "degraded", "failed"},
                           client : {"none", "open", "closed"}, errors : 0..Threshold]]
    /\ primary \in 0..N
    /\ recent \subseteq Nodes
    /\ check \in [Nodes -> [pc : {"none", "start", "ping", "reconnect", "await", "walk"}, at : 1..(N + 1)]]
    /\ marking \in 0..N
    /\ call \in [Callers ->
                   [pc : {"idle", "lock", "scan", "pick", "read", "run", "degrade", "backoff"},
                    at : 1..(N + 1), list : SUBSET Nodes, target : 0..N, attempt : 0..MaxRetries,
                    tried : SUBSET Nodes,
                    result : {"none", "ok", "miss", "unavailable", "exhausted", "cancelled"}]]
    /\ closing \in [pc : {"open", "nodes", "closed"}, at : 1..(N + 1)]
    /\ up \subseteq Nodes
    /\ steady \in [Callers -> SUBSET Nodes]

Resting(result) ==
    [pc |-> "idle", at |-> 1, list |-> {}, target |-> 0, attempt |-> 0, tried |-> {}, result |-> result]

NoCheck == [pc |-> "none", at |-> 1]

\* NewClusterAdapter: a node that does not answer starts as failed, with one error.
Init ==
    /\ up \in IF "server" \in Faults THEN (SUBSET Nodes) \ {{}} ELSE {Nodes}
    /\ node = [n \in Nodes |->
                 IF n \in up THEN [state |-> "healthy", client |-> "open", errors |-> 0]
                 ELSE [state |-> "failed", client |-> "none", errors |-> 1]]
    /\ primary = CHOOSE n \in up : \A m \in up : n <= m
    /\ recent = Nodes
    /\ check = [n \in Nodes |-> NoCheck]
    /\ marking = 0
    /\ call = [c \in Callers |-> Resting("none")]
    /\ closing = [pc |-> "open", at |-> 1]
    /\ steady = [c \in Callers |-> {}]

-----------------------------------------------------------------------------
(***************************************************************************)
(* The locks.                                                              *)
(***************************************************************************)
\* The node's mutex is free: no health check holds it.
Free(n) == check[n].pc \in {"none", "start"}

\* The adapter's mutex: readers are the scans and MarkNodeFailed.
Read(c) == call[c].pc = "scan"
WriteLocked == \E n \in Nodes : check[n].pc = "walk"
WriteAwaited == \E n \in Nodes : check[n].pc = "await"
CanRead == ~WriteLocked /\ ~WriteAwaited
CanWrite == ~WriteLocked /\ marking = 0 /\ \A c \in Callers : ~Read(c)

InRotation(n) == node[n].state = "healthy" /\ node[n].client # "none"
Works(n) == InRotation(n) /\ node[n].client = "open" /\ n \in up

Spoil(n) == steady' = [c \in Callers |-> steady[c] \ {n}]

-----------------------------------------------------------------------------
(***************************************************************************)
(* ExecuteWithRetry.                                                       *)
(***************************************************************************)
Execute(c) ==
    /\ call[c].pc = "idle"
    /\ call' = [call EXCEPT ![c] = [Resting("none") EXCEPT !.pc = "lock"]]
    /\ steady' = [steady EXCEPT ![c] = {n \in Nodes : Works(n)}]
    /\ UNCHANGED <<adapter, closing, up>>

Lock(c) ==
    /\ call[c].pc = "lock"
    /\ CanRead
    /\ call' = [call EXCEPT ![c].pc = "scan", ![c].at = 1, ![c].list = {}]
    /\ UNCHANGED <<adapter, closing, up, steady>>

\* Mutant: the last node is not looked at.
ScanAllButLast(c) ==
    /\ call[c].pc = "scan"
    /\ Free(call[c].at)
    /\ LET n == call[c].at IN
         call' = [call EXCEPT ![c].at = n + 1,
                              ![c].list = IF InRotation(n) /\ n < N THEN @ \cup {n} ELSE @,
                              ![c].pc = IF n = N THEN "pick" ELSE "scan"]
    /\ UNCHANGED <<adapter, closing, up, steady>>

\* getHealthyNodes, one node's read lock at a time.
Scan(c) ==
    /\ call[c].pc = "scan"
    /\ Free(call[c].at)
    /\ LET n == call[c].at IN
         call' = [call EXCEPT ![c].at = n + 1,
                              ![c].list = IF InRotation(n) THEN @ \cup {n} ELSE @,
                              ![c].pc = IF n = N THEN "pick" ELSE "scan"]
    /\ UNCHANGED <<adapter, closing, up, steady>>

\* Mutant: a node tried before is tried again.
PickAgain(c) ==
    /\ call[c].pc = "pick"
    /\ IF call[c].list = {}
         THEN call' = [call EXCEPT ![c] = [Resting("unavailable") EXCEPT !.tried = call[c].tried]]
         ELSE \E n \in call[c].list :
                call' = [call EXCEPT ![c].pc = "read", ![c].target = n, ![c].tried = @ \cup {n}]
    /\ UNCHANGED <<adapter, closing, up, steady>>

\* selectNode: the round robin counter, the random number and the hash of the key
\* may each single out any node of the list.  A node tried before uses an attempt up.
Pick(c) ==
    /\ call[c].pc = "pick"
    /\ IF call[c].list = {}
         THEN call' = [call EXCEPT ![c] = [Resting("unavailable") EXCEPT !.tried = call[c].tried]]
         ELSE \E n \in call[c].list :
                call' = [call EXCEPT ![c] =
                  IF n \notin call[c].tried
                    THEN [call[c] EXCEPT !.pc = "read", !.target = n, !.tried = @ \cup {n}]
                    ELSE IF call[c].attempt < MaxRetries
                           THEN [call[c] EXCEPT !.pc = "lock", !.attempt = @ + 1]
                           ELSE [Resting("exhausted") EXCEPT !.tried = call[c].tried]]
    /\ UNCHANGED <<adapter, closing, up, steady>>

\* executeOnNode takes the node's client.
ReadClient(c) ==
    /\ call[c].pc = "read"
    /\ Free(call[c].target)
    /\ IF node[call[c].target].client = "none"
         THEN /\ node' = [node EXCEPT ![call[c].target].errors = IF @ < Threshold THEN @ + 1 ELSE @]
              /\ call' = [call EXCEPT ![c].pc = "degrade"]
         ELSE /\ call' = [call EXCEPT ![c].pc = "run"]
              /\ UNCHANGED node
    /\ UNCHANGED <<primary, recent, check, marking, closing, up, steady>>

\* The command succeeds, or finds no such key (redis.Nil), go-redis's own retries on this
\* client included: an attempt here is one run of the operation.
RunOk(c) ==
    /\ call[c].pc = "run"
    /\ call[c].target \in up
    /\ node[call[c].target].client = "open"
    /\ \E result \in {"ok", "miss"} : call' = [call EXCEPT ![c] = Resting(result)]
    /\ UNCHANGED <<adapter, closing, up, steady>>

RunFails(c) ==
    /\ call[c].pc = "run"
    /\ \/ call[c].target \notin up
       \/ node[call[c].target].client # "open"
       \/ "command" \in Faults
    /\ node' = [node EXCEPT ![call[c].target].errors = IF @ < Threshold THEN @ + 1 ELSE @]
    /\ call' = [call EXCEPT ![c].pc = "degrade"]
    /\ UNCHANGED <<primary, recent, check, marking, closing, up, steady>>

\* Mutant: one attempt too many.
RetryPastMax(c) ==
    call' = [call EXCEPT ![c] =
               IF call[c].attempt <= MaxRetries THEN [@ EXCEPT !.pc = "backoff"]
               ELSE [Resting("exhausted") EXCEPT !.tried = call[c].tried]]

\* A command that failed is tried again, MaxRetries times at most.
AfterFailure(c) ==
    call' = [call EXCEPT ![c] =
               IF call[c].attempt < MaxRetries THEN [@ EXCEPT !.pc = "backoff"]
               ELSE [Resting("exhausted") EXCEPT !.tried = call[c].tried]]

\* checkNodeDegradation.
Degrade(c) ==
    /\ call[c].pc = "degrade"
    /\ Free(call[c].target)
    /\ LET n == call[c].target
           degraded == node[n].errors >= Threshold /\ node[n].state = "healthy"
       IN IF degraded
            THEN node' = [node EXCEPT ![n].state = "degraded"] /\ Spoil(n)
            ELSE UNCHANGED <<node, steady>>
    /\ AfterFailure(c)
    /\ UNCHANGED <<primary, recent, check, marking, closing, up>>

Retry(c) ==
    /\ call[c].pc = "backoff"
    /\ call' = [call EXCEPT ![c].pc = "lock", ![c].attempt = @ + 1]
    /\ UNCHANGED <<adapter, closing, up, steady>>

CancelBackoff(c) ==
    /\ "cancel" \in Faults
    /\ call[c].pc = "backoff"
    /\ call' = [call EXCEPT ![c] = Resting("cancelled")]
    /\ UNCHANGED <<adapter, closing, up, steady>>

-----------------------------------------------------------------------------
(***************************************************************************)
(* Health checks.                                                          *)
(***************************************************************************)
Goto(n, pc) == check' = [check EXCEPT ![n] = [pc |-> pc, at |-> 1]]

\* The ticker, until Close; ForceHealthCheck and WaitForHealthy at any time.  A second
\* check of a node waits for its mutex: it begins when the first has ended.
Tick ==
    /\ \E n \in Nodes : check[n].pc = "none"
    /\ check' = [n \in Nodes |-> IF check[n].pc = "none" THEN [pc |-> "start", at |-> 1] ELSE check[n]]
    /\ UNCHANGED <<node, primary, recent, marking, call, closing, up, steady>>

Age(n) ==
    /\ n \in recent
    /\ recent' = recent \ {n}
    /\ UNCHANGED <<node, primary, check, marking, call, closing, up, steady>>

\* The node's mutex is taken; a node without client goes to connectToNode.
CheckBegin(n) ==
    /\ check[n].pc = "start"
    /\ IF n \in recent
         THEN Goto(n, "none") /\ UNCHANGED recent
         ELSE /\ recent' = recent \cup {n}
              /\ Goto(n, IF node[n].client = "none" THEN "reconnect" ELSE "ping")
    /\ UNCHANGED <<node, primary, marking, call, closing, up, steady>>

\* Mutant: a ping that fails leaves the node in rotation.
PingKeepsState(n) ==
    /\ check[n].pc = "ping"
    /\ ~(n \in up /\ node[n].client = "open")
    /\ node' = [node EXCEPT ![n].client = "none"]
    /\ Goto(n, "reconnect")
    /\ Spoil(n)
    /\ UNCHANGED <<primary, recent, marking, call, closing, up>>

\* A ping that fails drops the client, which primaryClient may still be, and
\* goes to connectToNode.
PingFails(n) ==
    /\ check[n].pc = "ping"
    /\ ~(n \in up /\ node[n].client = "open")
    /\ node' = [node EXCEPT ![n] =
                  [state |-> IF @.state = "healthy" THEN "failed" ELSE @.state, client |-> "none",
                   errors |-> IF @.errors < Threshold THEN @.errors + 1 ELSE @.errors]]
    /\ Goto(n, "reconnect")
    /\ Spoil(n)
    /\ UNCHANGED <<primary, recent, marking, call, closing, up>>

\* A degraded node recovers if the time since lastCheck, which is the time of the ping,
\* exceeds CircuitBreakerTimeout.  A failed one recovers and asks for the adapter's lock.
PingOk(n) ==
    /\ check[n].pc = "ping"
    /\ n \in up /\ node[n].client = "open"
    /\ \E slow \in BOOLEAN :
         node' = IF node[n].state = "failed" \/ (node[n].state = "degraded" /\ slow)
                   THEN [node EXCEPT ![n].state = "healthy", ![n].errors = 0]
                   ELSE node
    /\ Goto(n, IF node[n].state = "failed" THEN "await" ELSE "none")
    /\ UNCHANGED <<primary, recent, marking, call, closing, up, steady>>

-----------------------------------------------------------------------------
(***************************************************************************)
(* updatePrimaryClient: the adapter's lock, then every node's read lock in   *)
(* turn, the one the check holds itself among them.                        *)
(***************************************************************************)
LockAdapter(n) ==
    /\ check[n].pc = "await"
    /\ CanWrite
    /\ Goto(n, "walk")
    /\ UNCHANGED <<node, primary, recent, marking, call, closing, up, steady>>

\* The first pass looks for the current primary, the second, with no current
\* one, for a new one; neither comes past the node under check.
Walk(n) ==
    /\ check[n].pc = "walk"
    /\ check[n].at \in Nodes
    /\ LET m == check[n].at IN
         /\ Free(m)
         /\ IF InRotation(m) /\ primary \in {0, m}
              THEN primary' = m /\ Goto(n, "none")
              ELSE check' = [check EXCEPT ![n].at = m + 1] /\ UNCHANGED primary
    /\ UNCHANGED <<node, recent, marking, call, closing, up, steady>>

-----------------------------------------------------------------------------
(***************************************************************************)
(* MarkNodeFailed and Close.                                               *)
(***************************************************************************)
MarkBegin(n) ==
    /\ n \in Markable
    /\ marking = 0
    /\ CanRead
    /\ marking' = n
    /\ UNCHANGED <<node, primary, recent, check, call, closing, up, steady>>

MarkNode ==
    /\ marking # 0
    /\ Free(marking)
    /\ node' = [node EXCEPT ![marking].state = "failed"]
    /\ marking' = 0
    /\ Spoil(marking)
    /\ UNCHANGED <<primary, recent, check, call, closing, up>>

Close ==
    /\ closing.pc = "open"
    /\ closing' = [closing EXCEPT !.pc = "nodes"]
    /\ UNCHANGED <<adapter, call, up, steady>>

CloseNode(n) ==
    /\ closing = [pc |-> "nodes", at |-> n]
    /\ Free(n)
    /\ node' = [node EXCEPT ![n].client = IF @ = "open" THEN "closed" ELSE @]
    /\ closing' = [pc |-> IF n = N THEN "closed" ELSE "nodes", at |-> n + 1]
    /\ Spoil(n)
    /\ UNCHANGED <<primary, recent, check, marking, call, up>>

\* A server stops or comes back.
ServerChange(n) ==
    /\ "server" \in Faults
    /\ up' = IF n \in up THEN up \ {n} ELSE up \cup {n}
    /\ Spoil(n)
    /\ UNCHANGED <<adapter, call, closing>>

CallStep(c) ==
    Lock(c) \/ Scan(c) \/ Pick(c) \/ ReadClient(c) \/ RunOk(c) \/ RunFails(c) \/ Degrade(c) \/ Retry(c)

CheckStep(n) ==
    CheckBegin(n) \/ PingFails(n) \/ PingOk(n) \/ LockAdapter(n) \/ Walk(n)

Next ==
    \/ \E c \in Callers : Execute(c) \/ CallStep(c) \/ CancelBackoff(c)
    \/ \E n \in Nodes : Age(n) \/ CheckStep(n) \/ MarkBegin(n) \/ CloseNode(n) \/ ServerChange(n)
    \/ Tick \/ MarkNode \/ Close

Spec == Init /\ [][Next]_vars

-----------------------------------------------------------------------------
\* ExecuteWithRetry implements Failover: its attempts, MaxRetries + 1 at most, are
\* all on different nodes, whatever the selection strategy comes back to and
\* whatever recovers meanwhile, and no command runs after a call has returned.
Result(c) ==
    CASE call[c].pc # "idle" -> "pending"
      [] call[c].pc = "idle" /\ call[c].result \in {"ok", "miss"} -> "ok"
      [] call[c].pc = "idle" /\ call[c].result = "none" -> "none"
      [] OTHER -> "failed"

Call(c) ==
    INSTANCE Failover WITH
        None <- 0, Limit <- MaxRetries + 1, outcome <- Result(c),
        tried <- IF call[c].pc = "idle" THEN {} ELSE call[c].tried,
        at <- IF call[c].pc \in {"read", "run"} THEN call[c].target ELSE 0

OneAttemptPerNode ==
    /\ \A c \in Callers : Call(c)!Init
    /\ [][\A c \in Callers : [Call(c)!Next]_(Call(c)!vars)]_vars

\* "no healthy Redis nodes available" is returned only when no node was up and
\* in rotation all the while (ExecuteWithRetry, selectNode, getHealthyNodes).
UnavailableOnlyWithoutNode ==
    \A c \in Callers : call[c].result = "unavailable" => steady[c] = {}

\* A node that is in rotation has a client, closed only by Close: no check drops a
\* client under a node it leaves in rotation, and after Close none is open.
RotationHasClient ==
    /\ \A n \in Nodes : node[n].state = "healthy" => node[n].client # "none"
    /\ closing.pc = "closed" => \A n \in Nodes : node[n].client # "open"

=============================================================================
