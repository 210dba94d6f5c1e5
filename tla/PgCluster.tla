------------------------------ MODULE PgCluster ------------------------------
(***************************************************************************)
(* pgcluster.ClusterManager: the constructor, the per-node health checks,   *)
(* Writer / Reader / GetNodeStats / HealthCheck, the circuit breaker,       *)
(* SetWriterNode and Close, with the two kinds of mutexes they share.       *)
(*                                                                         *)
(* Nodes are 1..N in the order of cm.nodes; node 1 is built from WriterURL. *)
(* A node's health-check goroutines are identical, so they are counted.     *)
(* A critical section of node.mutex that waits for the server (connect,     *)
(* ping) spans several steps and is recorded in lock; the short ones are    *)
(* one step guarded by LockFree.  Writer detection is in PgWriterDetection; *)
(* here roles change by SetWriterNode only (StrategyConfig).                *)
(***************************************************************************)
EXTENDS Naturals, FiniteSets

CONSTANTS
    N,               \* number of nodes
    Callers,         \* goroutines that call the read-side methods
    Admins,          \* goroutines that call SetWriterNode
    Ops,             \* the methods the callers use
    ServerStates,    \* what a PostgreSQL server may be: "up", "slow" (answers a
                     \* ping after 5 seconds), "flaky" (retryable errors) or
                     \* "refusing" (authentication and other permanent errors)
    StartStates,     \* what it may be while NewClusterManager connects
    MaxChecks        \* bound: health-check goroutines queued per node

ASSUME NAssumption == N \in Nat \ {0}
ASSUME OpsAssumption == Ops \subseteq {"writer", "reader", "stats", "health"}
ASSUME ServerAssumption ==
    StartStates \subseteq ServerStates /\ ServerStates \subseteq {"up", "slow", "flaky", "refusing"}
ASSUME BoundAssumption == MaxChecks \in Nat \ {0}

Nodes == 1..N

VARIABLES
    role,     \* node.Role
    health,   \* node.Health
    pool,     \* node.sqlDB: "nil", or the state of the pool it points to
    recent,   \* node.lastCheck is less than 10 seconds ago
    lock,     \* who holds node.mutex across a wait: "free", "ping", "relock"
    waiting,  \* checkNodeHealth goroutines blocked in node.mutex.Lock
    mgr,      \* the constructor / Close goroutine
    monitor,  \* the health-monitoring background task is running
    caller,   \* the callers of Writer, Reader, GetNodeStats, HealthCheck
    admin,    \* the callers of SetWriterNode
    circuitOpen, \* cm.circuitOpen
    expired,  \* cm.circuitOpenTime is more than CircuitBreakerTimeout ago
    server    \* the state of each node's server (environment)

nodeVars == <<role, health, pool, recent, lock, waiting>>
breakerVars == <<circuitOpen, expired>>
vars == <<nodeVars, mgr, monitor, caller, admin, breakerVars, server>>

Results == {"none", "err", "ok", "nil", "open", "closed"}

IdleCaller(op, res) ==
    [pc |-> "idle", op |-> op, idx |-> 1, found |-> {},
     nested |-> FALSE, res |-> res]

Calling(op, pc, nested) ==
    [pc |-> pc, op |-> op, idx |-> 1, found |-> {}, nested |-> nested, res |-> "none"]

IdleAdmin == [pc |-> "idle", target |-> 0, idx |-> 1]

ManagerStates ==
    [pc : {"connect", "run", "shutdown", "closing", "closed", "failed"}, idx : 1..(N + 1)]

CallerPcs ==
    {"idle", "rlock", "circuit", "timeout", "close", "scan", "select", "open", "trip", "stamp"}

CallerStates ==
    [pc : CallerPcs, op : Ops \cup {"none", "writer"}, idx : 1..(N + 1),
     found : SUBSET Nodes, nested : BOOLEAN, res : Results]

AdminStates == [pc : {"idle", "pending", "update"}, target : 0..N, idx : 1..(N + 1)]

(***************************************************************************)
(* The one type invariant of the module.                                   *)
(***************************************************************************)
TypeOK ==
    /\ role \in [Nodes -> {"writer", "reader"}]
    /\ health \in [Nodes -> {"healthy", "degraded", "failed"}]
    /\ pool \in [Nodes -> {"nil", "open", "closed"}]
    /\ recent \in [Nodes -> BOOLEAN]
    /\ lock \in [Nodes -> {"free", "ping", "relock"}]
    /\ waiting \in [Nodes -> 0..MaxChecks]
    /\ mgr \in ManagerStates
    /\ monitor \in BOOLEAN
    /\ caller \in [Callers -> CallerStates]
    /\ admin \in [Admins -> AdminStates]
    /\ circuitOpen \in BOOLEAN
    /\ expired \in BOOLEAN
    /\ server \in [Nodes -> ServerStates]

(***************************************************************************)
(* NewClusterManager: nodes are built with the role their URL gives them,   *)
(* the zero Health (healthy), no pool, a zero lastCheck; the circuit is     *)
(* closed with a zero open time.                                            *)
(***************************************************************************)
Init ==
    /\ role = [n \in Nodes |-> IF n = 1 THEN "writer" ELSE "reader"]
    /\ health = [n \in Nodes |-> "healthy"]
    /\ pool = [n \in Nodes |-> "nil"]
    /\ recent = [n \in Nodes |-> FALSE]
    /\ lock = [n \in Nodes |-> "free"]
    /\ waiting = [n \in Nodes |-> 0]
    /\ mgr = [pc |-> "connect", idx |-> 1]
    /\ monitor = FALSE
    /\ caller = [c \in Callers |-> IdleCaller("none", "none")]
    /\ admin = [a \in Admins |-> IdleAdmin]
    /\ circuitOpen = FALSE
    /\ expired = TRUE
    /\ server \in [Nodes -> StartStates]

LockFree(n) == lock[n] = "free"

\* The manager has been returned to its users.
Usable == mgr.pc \in {"run", "shutdown", "closing", "closed"}

-----------------------------------------------------------------------------
(***************************************************************************)
(* initializeNodes and connectToNode.  A failed ping leaves lastCheck and   *)
(* the nil sqlDB alone; a failed sql.Open stamps lastCheck.                 *)
(***************************************************************************)
ConnectToNode(n) ==
    /\ LockFree(n)
    /\ IF server[n] \in {"up", "slow"}
         THEN /\ health' = [health EXCEPT ![n] = "healthy"]
              /\ pool' = [pool EXCEPT ![n] = "open"]
              /\ recent' = [recent EXCEPT ![n] = TRUE]
         ELSE /\ health' = [health EXCEPT ![n] = "failed"]
              /\ recent' \in {recent, [recent EXCEPT ![n] = TRUE]}
              /\ UNCHANGED pool

InitConnect ==
    /\ mgr.pc = "connect"
    /\ mgr.idx <= N
    /\ ConnectToNode(mgr.idx)
    /\ mgr' = [mgr EXCEPT !.idx = @ + 1]
    /\ UNCHANGED <<role, lock, waiting, monitor, caller, admin, breakerVars, server>>

HasHealthyNodes == \E n \in Nodes : health[n] = "healthy"

InitFinish ==
    /\ mgr.pc = "connect"
    /\ mgr.idx = N + 1
    /\ mgr' = [pc |-> IF HasHealthyNodes THEN "run" ELSE "failed", idx |-> 1]
    /\ monitor' = HasHealthyNodes
    /\ UNCHANGED <<nodeVars, caller, admin, breakerVars, server>>

-----------------------------------------------------------------------------
(***************************************************************************)
(* Health monitoring.  performHealthChecks starts one goroutine per node,   *)
(* without waiting for the ones it started before and without the tomb.     *)
(***************************************************************************)
PerformHealthChecks ==
    waiting' = [n \in Nodes |->
                   IF waiting[n] < MaxChecks THEN waiting[n] + 1 ELSE waiting[n]]

HealthTick ==
    /\ monitor
    /\ PerformHealthChecks
    /\ UNCHANGED <<role, health, pool, recent, lock, mgr, monitor, caller, admin, breakerVars, server>>

\* Ten seconds pass since node n's lastCheck.
CheckExpires(n) ==
    /\ recent[n]
    /\ recent' = [recent EXCEPT ![n] = FALSE]
    /\ UNCHANGED <<role, health, pool, lock, waiting, mgr, monitor, caller, admin, breakerVars, server>>

(***************************************************************************)
(* checkNodeHealth takes node.mutex.  With no pool it calls connectToNode,  *)
(* whose first statement locks the mutex it already holds: "relock" is a    *)
(* wait that no step ends.                                                  *)
(***************************************************************************)
\* Mutant: the reconnect works and opens a pool, whatever Close has done.
CheckBeginReconnects(n) ==
    /\ waiting[n] > 0
    /\ LockFree(n)
    /\ waiting' = [waiting EXCEPT ![n] = @ - 1]
    /\ pool' = [pool EXCEPT ![n] = IF @ = "nil" /\ ~recent[n] THEN "open" ELSE @]
    /\ recent' = [recent EXCEPT ![n] = TRUE]
    /\ lock' = [lock EXCEPT ![n] = IF recent[n] \/ pool[n] = "nil" THEN "free" ELSE "ping"]
    /\ UNCHANGED <<role, health, mgr, monitor, caller, admin, breakerVars, server>>

CheckBegin(n) ==
    /\ waiting[n] > 0
    /\ LockFree(n)
    /\ waiting' = [waiting EXCEPT ![n] = @ - 1]
    /\ IF recent[n]
         THEN UNCHANGED <<recent, lock>>
         ELSE /\ recent' = [recent EXCEPT ![n] = TRUE]
              /\ lock' = [lock EXCEPT ![n] = IF pool[n] = "nil" THEN "relock" ELSE "ping"]
    /\ UNCHANGED <<role, health, pool, mgr, monitor, caller, admin, breakerVars, server>>

\* The ping error, if any; a closed pool's "sql: database is closed" is retryable.
PingError(n) ==
    CASE pool[n] = "closed" \/ server[n] = "flaky" -> "retryable"
      [] pool[n] # "closed" /\ server[n] = "refusing" -> "permanent"
      [] OTHER -> "none"

\* Mutant: a permanent error drops the pool and leaves Health as it was.
PingHealthKeptOnPermanent(n) ==
    IF PingError(n) = "none" THEN "healthy" ELSE health[n]

PingHealth(n) ==
    CASE PingError(n) = "retryable" -> IF health[n] = "healthy" THEN "degraded" ELSE health[n]
      [] PingError(n) = "permanent" -> "failed"
      [] OTHER -> IF server[n] = "slow" THEN "degraded" ELSE "healthy"

\* Mutant: the error path returns without unlocking node.mutex.
CheckPingKeepsLock(n) ==
    /\ lock[n] = "ping"
    /\ health' = [health EXCEPT ![n] = PingHealth(n)]
    /\ pool' = [pool EXCEPT ![n] = IF PingError(n) = "permanent" THEN "nil" ELSE @]
    /\ lock' = [lock EXCEPT ![n] = IF PingError(n) = "none" THEN "free" ELSE @]
    /\ UNCHANGED <<role, recent, waiting, mgr, monitor, caller, admin, breakerVars, server>>

\* Mutant: a successful ping does not restore Health.
CheckPingNeverRestores(n) ==
    /\ lock[n] = "ping"
    /\ health' = [health EXCEPT ![n] = IF PingError(n) = "none" THEN @ ELSE PingHealth(n)]
    /\ pool' = [pool EXCEPT ![n] = IF PingError(n) = "permanent" THEN "nil" ELSE @]
    /\ lock' = [lock EXCEPT ![n] = "free"]
    /\ UNCHANGED <<role, recent, waiting, mgr, monitor, caller, admin, breakerVars, server>>

CheckPing(n) ==
    /\ lock[n] = "ping"
    /\ health' = [health EXCEPT ![n] = PingHealth(n)]
    /\ pool' = [pool EXCEPT ![n] = IF PingError(n) = "permanent" THEN "nil" ELSE @]
    /\ lock' = [lock EXCEPT ![n] = "free"]
    /\ UNCHANGED <<role, recent, waiting, mgr, monitor, caller, admin, breakerVars, server>>

\* The environment: a server changes state.
ServerChange(n) ==
    /\ Usable
    /\ \E st \in ServerStates \ {server[n]} : server' = [server EXCEPT ![n] = st]
    /\ UNCHANGED <<nodeVars, mgr, monitor, caller, admin, breakerVars>>

-----------------------------------------------------------------------------
(***************************************************************************)
(* cm.mutex, a sync.RWMutex: a Lock waits for the readers inside, and a     *)
(* waiting Lock keeps new readers out, the ones that already hold a read    *)
(* lock included.                                                           *)
(***************************************************************************)
HoldsRLock(c) ==
    \/ caller[c].nested
    \/ caller[c].pc \notin {"idle", "rlock"} /\ caller[c].op # "health"

RLockGrantable == \A a \in Admins : admin[a].pc = "idle"

LockGrantable ==
    /\ \A c \in Callers : ~HoldsRLock(c)
    /\ \A a \in Admins : admin[a].pc # "update"

(***************************************************************************)
(* The read-side methods.  Start covers DB(ctx), which only picks Writer or *)
(* Reader.  HealthCheck takes no lock and starts a round of checks.         *)
(***************************************************************************)
Start(c, op) ==
    /\ Usable
    /\ caller[c].pc = "idle"
    /\ caller' = [caller EXCEPT ![c] =
           Calling(op, IF op = "health" THEN "scan" ELSE "rlock", FALSE)]
    /\ IF op = "health" THEN PerformHealthChecks ELSE UNCHANGED waiting
    /\ UNCHANGED <<role, health, pool, recent, lock, mgr, monitor, admin, breakerVars, server>>

CallerRLock(c) ==
    /\ caller[c].pc = "rlock"
    /\ RLockGrantable
    /\ caller' = [caller EXCEPT ![c].pc = IF caller[c].op = "stats" THEN "scan" ELSE "circuit"]
    /\ UNCHANGED <<nodeVars, mgr, monitor, admin, breakerVars, server>>

\* Every return releases the read lock(s) and leaves the result behind.
Return(c, res) == caller' = [caller EXCEPT ![c] = IdleCaller(caller[c].op, res)]

Goto(c, pc) == caller' = [caller EXCEPT ![c].pc = pc]

(***************************************************************************)
(* isCircuitOpen, statement by statement: it runs under the read lock, so   *)
(* other callers run it, and openCircuitBreaker, at the same time.          *)
(***************************************************************************)
CircuitFlag(c) ==
    /\ caller[c].pc = "circuit"
    /\ Goto(c, IF circuitOpen THEN "timeout" ELSE "scan")
    /\ UNCHANGED <<nodeVars, mgr, monitor, admin, breakerVars, server>>

CircuitTimeout(c) ==
    /\ caller[c].pc = "timeout"
    /\ IF expired THEN Goto(c, "close") ELSE Return(c, "err")
    /\ UNCHANGED <<nodeVars, mgr, monitor, admin, breakerVars, server>>

CircuitClose(c) ==
    /\ caller[c].pc = "close"
    /\ circuitOpen' = FALSE
    /\ Goto(c, "scan")
    /\ UNCHANGED <<nodeVars, mgr, monitor, admin, expired, server>>

\* CircuitBreakerTimeout passes since circuitOpenTime.
CircuitExpires ==
    /\ ~expired
    /\ expired' = TRUE
    /\ UNCHANGED <<nodeVars, mgr, monitor, caller, admin, circuitOpen, server>>

(***************************************************************************)
(* openCircuitBreaker: the flag first, the time after it.  The threshold of   *)
(* the configuration is not looked at: one look-up that fails is enough.     *)
(***************************************************************************)
CircuitOpen(c) ==
    /\ caller[c].pc = "open"
    /\ IF circuitOpen THEN Return(c, "err") ELSE Goto(c, "trip")
    /\ UNCHANGED <<nodeVars, mgr, monitor, admin, breakerVars, server>>

CircuitTrip(c) ==
    /\ caller[c].pc = "trip"
    /\ circuitOpen' = TRUE
    /\ Goto(c, "stamp")
    /\ UNCHANGED <<nodeVars, mgr, monitor, admin, expired, server>>

CircuitStamp(c) ==
    /\ caller[c].pc = "stamp"
    /\ expired' = FALSE
    /\ Return(c, "err")
    /\ UNCHANGED <<nodeVars, mgr, monitor, admin, circuitOpen, server>>

(***************************************************************************)
(* The loop over cm.nodes, one node (and one node.mutex.RLock) per step.    *)
(* HealthCheck's first walk, hasHealthyNodes, asks for the same locks and     *)
(* fails only if this one would: the two are one walk here.                 *)
(***************************************************************************)
Eligible(n, op) ==
    /\ health[n] = "healthy"
    /\ op \in {"writer", "reader"} => pool[n] # "nil"
    /\ op \in {"writer", "health"} => role[n] = "writer"

ScanNode(c) ==
    LET n == caller[c].idx
        op == caller[c].op
    IN  /\ caller[c].pc = "scan"
        /\ n <= N
        /\ LockFree(n)
        /\ IF op = "writer" /\ Eligible(n, op)
             THEN Return(c, pool[n])
             ELSE caller' = [caller EXCEPT
                    ![c].idx = n + 1,
                    ![c].found = IF op # "stats" /\ Eligible(n, op) THEN @ \cup {n} ELSE @]
        /\ UNCHANGED <<nodeVars, mgr, monitor, admin, breakerVars, server>>

(***************************************************************************)
(* The end of the loop.  Reader with no candidate calls Writer, which asks  *)
(* for the read lock again while Reader still holds it.                     *)
(***************************************************************************)
ScanDone(c) ==
    LET op == caller[c].op
        none == caller[c].found = {}
    IN  /\ caller[c].pc = "scan"
        /\ caller[c].idx = N + 1
        /\ \/ op = "writer" /\ Goto(c, "open")
           \/ op = "reader" /\ ~none /\ Goto(c, "select")
           \/ /\ op = "reader" /\ none
              /\ caller' = [caller EXCEPT ![c] =
                     Calling("writer", "rlock", TRUE)]
           \/ op = "stats" /\ Return(c, "ok")
           \/ op = "health" /\ Return(c, IF none THEN "err" ELSE "ok")
        /\ UNCHANGED <<nodeVars, mgr, monitor, admin, breakerVars, server>>

(***************************************************************************)
(* The read-balancing strategies pick one of the candidates (any of them,   *)
(* here); its sqlDB is then read without node.mutex.                        *)
(***************************************************************************)
SelectReader(c) ==
    /\ caller[c].pc = "select"
    /\ \E n \in caller[c].found : Return(c, pool[n])
    /\ UNCHANGED <<nodeVars, mgr, monitor, admin, breakerVars, server>>

-----------------------------------------------------------------------------
(***************************************************************************)
(* SetWriterNode: cm.mutex.Lock, then every node under its own mutex.       *)
(* Target 0 is a name no node has.                                          *)
(***************************************************************************)
AdminCall(a) ==
    /\ Usable
    /\ admin[a].pc = "idle"
    /\ \E t \in 0..N : admin' = [admin EXCEPT ![a] = [pc |-> "pending", target |-> t, idx |-> 1]]
    /\ UNCHANGED <<nodeVars, mgr, monitor, caller, breakerVars, server>>

\* Mutant: SetWriterNode takes the read lock.
AdminLockShared(a) ==
    /\ admin[a].pc = "pending"
    /\ admin' = IF admin[a].target = 0 THEN [admin EXCEPT ![a] = IdleAdmin]
                                      ELSE [admin EXCEPT ![a].pc = "update"]
    /\ UNCHANGED <<nodeVars, mgr, monitor, caller, breakerVars, server>>

AdminLock(a) ==
    /\ admin[a].pc = "pending"
    /\ LockGrantable
    /\ admin' = IF admin[a].target = 0 THEN [admin EXCEPT ![a] = IdleAdmin]
                                      ELSE [admin EXCEPT ![a].pc = "update"]
    /\ UNCHANGED <<nodeVars, mgr, monitor, caller, breakerVars, server>>

AdminUpdate(a) ==
    LET n == admin[a].idx
    IN  /\ admin[a].pc = "update"
        /\ n <= N
        /\ LockFree(n)
        /\ role' = [role EXCEPT ![n] = IF n = admin[a].target THEN "writer" ELSE "reader"]
        /\ admin' = [admin EXCEPT ![a].idx = n + 1]
        /\ UNCHANGED <<health, pool, recent, lock, waiting, mgr, monitor, caller, breakerVars, server>>

AdminUnlock(a) ==
    /\ admin[a].pc = "update"
    /\ admin[a].idx = N + 1
    /\ admin' = [admin EXCEPT ![a] = IdleAdmin]
    /\ UNCHANGED <<nodeVars, mgr, monitor, caller, breakerVars, server>>

-----------------------------------------------------------------------------
(***************************************************************************)
(* Close: Shutdown cancels the context and waits for the background tasks,  *)
(* then every node's pool is closed, and sqlDB keeps pointing to it.        *)
(***************************************************************************)
Close ==
    /\ mgr.pc = "run"
    /\ mgr' = [pc |-> "shutdown", idx |-> 1]
    /\ UNCHANGED <<nodeVars, monitor, caller, admin, breakerVars, server>>

MonitorStops ==
    /\ mgr.pc = "shutdown"
    /\ monitor
    /\ monitor' = FALSE
    /\ UNCHANGED <<nodeVars, mgr, caller, admin, breakerVars, server>>

CloseWaited ==
    /\ mgr.pc = "shutdown"
    /\ ~monitor
    /\ mgr' = [pc |-> "closing", idx |-> 1]
    /\ UNCHANGED <<nodeVars, monitor, caller, admin, breakerVars, server>>

\* Mutant: the loop over the nodes runs one past the end.
CloseNodePastEnd ==
    /\ mgr.pc = "closing"
    /\ pool' = [n \in Nodes |-> IF n = mgr.idx /\ pool[n] # "nil" THEN "closed" ELSE pool[n]]
    /\ mgr' = [mgr EXCEPT !.idx = @ + 1]
    /\ UNCHANGED <<role, health, recent, lock, waiting, monitor, caller, admin, breakerVars, server>>

CloseNode ==
    LET n == mgr.idx
    IN  /\ mgr.pc = "closing"
        /\ n <= N
        /\ LockFree(n)
        /\ pool' = [pool EXCEPT ![n] = IF @ = "nil" THEN "nil" ELSE "closed"]
        /\ mgr' = [mgr EXCEPT !.idx = n + 1]
        /\ UNCHANGED <<role, health, recent, lock, waiting, monitor, caller, admin, breakerVars, server>>

CloseReturn ==
    /\ mgr.pc = "closing"
    /\ mgr.idx = N + 1
    /\ mgr' = [pc |-> "closed", idx |-> 1]
    /\ UNCHANGED <<nodeVars, monitor, caller, admin, breakerVars, server>>

-----------------------------------------------------------------------------
ManagerStep == InitConnect \/ InitFinish \/ Close \/ CloseWaited \/ CloseNode \/ CloseReturn

MonitorStep == HealthTick \/ MonitorStops

CheckStep(n) == CheckBegin(n) \/ CheckPing(n) \/ CheckExpires(n)

\* The steps of a call in progress.
CallStep(c) ==
    \/ CallerRLock(c) \/ CircuitFlag(c) \/ CircuitTimeout(c) \/ CircuitClose(c)
    \/ ScanNode(c) \/ ScanDone(c) \/ SelectReader(c)
    \/ CircuitOpen(c) \/ CircuitTrip(c) \/ CircuitStamp(c)

AdminStep(a) == AdminLock(a) \/ AdminUpdate(a) \/ AdminUnlock(a)

Next ==
    \/ ManagerStep
    \/ MonitorStep
    \/ \E n \in Nodes : CheckStep(n) \/ ServerChange(n)
    \/ \E c \in Callers : CallStep(c) \/ (\E op \in Ops : Start(c, op))
    \/ \E a \in Admins : AdminStep(a) \/ AdminCall(a)
    \/ CircuitExpires

Spec == Init /\ [][Next]_vars

(***************************************************************************)
(* Fairness: the Go scheduler runs every goroutine that can run, the ticker *)
(* keeps firing, pings end (they carry a 5 second timeout) and time passes. *)
(* A goroutine waiting for a sync.RWMutex is not passed over for ever       *)
(* (strong fairness).  Nothing obliges anyone to call a method or Close.    *)
(***************************************************************************)
Fairness ==
    /\ SF_vars(InitConnect \/ InitFinish \/ CloseWaited \/ CloseNode \/ CloseReturn)
    /\ WF_vars(HealthTick)
    /\ WF_vars(MonitorStops)
    /\ \A n \in Nodes :
         SF_vars(CheckBegin(n)) /\ WF_vars(CheckPing(n)) /\ WF_vars(CheckExpires(n))
    /\ \A c \in Callers : SF_vars(CallStep(c))
    /\ \A a \in Admins : SF_vars(AdminStep(a))
    /\ WF_vars(CircuitExpires)

FairSpec == Spec /\ Fairness

-----------------------------------------------------------------------------
(***************************************************************************)
(* Safety.                                                                 *)
(***************************************************************************)

\* Health = Healthy promises a pool: every path that drops node.sqlDB, or
\* never sets it, also takes the node out of the healthy set (connectToNode,
\* checkNodeHealth).
HealthyHasPool ==
    \A n \in Nodes :
        health[n] = "healthy" /\ (mgr.pc = "connect" => n < mgr.idx) => pool[n] # "nil"

\* Once Close has returned, or NewClusterManager has failed, no pool is open,
\* although checkNodeHealth goroutines are not waited for and may still run.
ClosedMeansReleased ==
    mgr.pc \in {"closed", "failed"} => \A n \in Nodes : pool[n] # "open"

\* SetWriterNode demotes and promotes node by node, yet no call that holds
\* cm.mutex for reading ever sees the roles in between: it sees one writer.
OneWriterPerCall ==
    \A c \in Callers : HoldsRLock(c) =>
        \E w \in Nodes : \A n \in Nodes : role[n] = "writer" <=> n = w

(***************************************************************************)
(* Liveness.                                                               *)
(***************************************************************************)

\* Writer, Reader, GetNodeStats and HealthCheck return.
CallsReturn == \A c \in Callers : caller[c].pc # "idle" ~> caller[c].pc = "idle"

\* SetWriterNode returns ("manually sets a node as the writer (for emergencies)"):
\* the callers that hold cm.mutex for reading let it go (Writer, Reader).
AdminReturns == \A a \in Admins : admin[a].pc # "idle" ~> admin[a].pc = "idle"

\* Close returns.
CloseReturns == mgr.pc = "shutdown" ~> mgr.pc = "closed"

\* Whatever is called returns, the three waiting for one another's mutexes included.
EveryCallReturns == CallsReturn /\ AdminReturns /\ CloseReturns

\* "checkNodeHealth checks and potentially recovers a single node": while the
\* manager runs, a node whose server stays up is in the end healthy for good.
NodesRecover ==
    \A n \in Nodes : <>[](server[n] = "up" /\ mgr.pc = "run") => <>[](health[n] = "healthy")

=============================================================================
