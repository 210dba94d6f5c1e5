--------------------------- MODULE PgClusterProofs ---------------------------
(***************************************************************************)
(* The safety of PgCluster for every number of nodes, every set of callers   *)
(* and administrators and every behaviour of the servers.  Three inductive  *)
(* invariants, each used by the next: TypeOK; RWMutexInv /\ RolesInv, what   *)
(* a writer of cm.mutex may have done so far and that no reader is inside    *)
(* while it does; PoolInv, which node may have which pool at each point of   *)
(* the constructor, of Close and of a health check.                         *)
(***************************************************************************)
EXTENDS PgCluster, ClusterStart, FiniteSetTheorems, TLAPS

USE NAssumption, OpsAssumption, ServerAssumption, BoundAssumption

\* A caller that has returned is a caller state.
LEMMA IdleCallerType ==
    ASSUME NEW op \in Ops \cup {"none", "writer"}, NEW res \in Results
    PROVE  IdleCaller(op, res) \in CallerStates
  BY DEF IdleCaller, CallerStates, CallerPcs, Nodes

\* A caller that has just called a method is a caller state.
LEMMA CallingType ==
    ASSUME NEW op \in Ops \cup {"none", "writer"}, NEW pc \in CallerPcs, NEW nested \in BOOLEAN
    PROVE  Calling(op, pc, nested) \in CallerStates
  BY DEF Calling, CallerStates, Results, Nodes

\* Moving a caller to another point of its call keeps the type of caller.
LEMMA GotoType ==
    ASSUME caller \in [Callers -> CallerStates], NEW c \in Callers,
           NEW pc \in CallerPcs, Goto(c, pc)
    PROVE  caller' \in [Callers -> CallerStates]
<1>1. [caller[c] EXCEPT !.pc = pc] \in CallerStates
  BY DEF CallerStates
<1>2. caller' = [caller EXCEPT ![c] = [caller[c] EXCEPT !.pc = pc]]
  BY DEF Goto
<1>3. QED
  BY <1>1, <1>2

\* So does a return, with whatever result.
LEMMA ReturnType ==
    ASSUME caller \in [Callers -> CallerStates], NEW c \in Callers,
           NEW res \in Results, Return(c, res)
    PROVE  caller' \in [Callers -> CallerStates]
<1>1. caller[c].op \in Ops \cup {"none", "writer"}
  BY DEF CallerStates
<1>2. QED
  BY <1>1, IdleCallerType DEF Return

\* A caller that has looked at one more node is a caller state.
LEMMA ScannedType ==
    ASSUME NEW r \in CallerStates, NEW i \in 1..(N + 1), NEW f \in SUBSET Nodes
    PROVE  [r EXCEPT !.idx = i, !.found = f] \in CallerStates
  BY DEF CallerStates

\* Setting one node's flag keeps a function of flags one.
LEMMA FlagType ==
    ASSUME NEW f \in [Nodes -> BOOLEAN], NEW n \in Nodes
    PROVE  [f EXCEPT ![n] = TRUE] \in [Nodes -> BOOLEAN]
  BY Zenon

\* The constructor's first state is of the declared types (NewClusterManager).
LEMMA TypeInit == Init => TypeOK
<1> SUFFICES ASSUME Init PROVE TypeOK
  OBVIOUS
<1>1. caller \in [Callers -> CallerStates]
  BY IdleCallerType DEF Init, Results
<1>2. admin \in [Admins -> AdminStates] /\ mgr \in ManagerStates
  BY DEF Init, AdminStates, ManagerStates, IdleAdmin
<1>3. server \in [Nodes -> ServerStates]
  BY DEF Init
<1>4. waiting \in [Nodes -> 0..MaxChecks]
  BY DEF Init
<1>5. QED
  BY <1>1, <1>2, <1>3, <1>4 DEF Init, TypeOK

\* Every step keeps the types: no loop runs past its node list, no queue of
\* checks past its bound.
LEMMA TypeStep == TypeOK /\ [Next]_vars => TypeOK'
<1> SUFFICES ASSUME TypeOK, [Next]_vars PROVE TypeOK'
  OBVIOUS
<1> USE DEF nodeVars, breakerVars, TypeOK
<1>1. CASE InitConnect
  <2>1. mgr.idx \in 1..N /\ mgr.idx + 1 \in 1..(N + 1)
    BY <1>1 DEF InitConnect, ManagerStates
  <2>5. mgr' \in ManagerStates
    BY <1>1, <2>1 DEF InitConnect, ManagerStates
  <2>2. /\ health' \in [Nodes -> {"healthy", "degraded", "failed"}]
        /\ pool' \in [Nodes -> {"nil", "open", "closed"}]
    BY <1>1 DEF InitConnect, ConnectToNode
  <2>3. \/ recent' = [recent EXCEPT ![mgr.idx] = TRUE]
        \/ recent' = recent
    BY <1>1, Zenon DEF InitConnect, ConnectToNode
  <2>4. recent' \in [Nodes -> BOOLEAN]
    <3>1. recent \in [Nodes -> BOOLEAN]
      OBVIOUS
    <3>2. mgr.idx \in Nodes
      BY <2>1 DEF Nodes
    <3> HIDE DEF TypeOK
    <3>3. [recent EXCEPT ![mgr.idx] = TRUE] \in [Nodes -> BOOLEAN]
      BY <3>1, <3>2, FlagType
    <3>4. QED
      BY <2>3, <3>1, <3>3, Zenon
  <2>6. QED
    BY <1>1, <2>2, <2>4, <2>5 DEF InitConnect
<1>2. CASE InitFinish
  BY <1>2 DEF InitFinish, HasHealthyNodes, ManagerStates
<1>3. CASE Close \/ CloseWaited \/ CloseReturn
  BY <1>3 DEF Close, CloseWaited, CloseReturn, ManagerStates
<1>4. CASE CloseNode
  <2>1. mgr' \in ManagerStates
    BY <1>4 DEF CloseNode, ManagerStates
  <2>2. pool' \in [Nodes -> {"nil", "open", "closed"}]
    BY <1>4 DEF CloseNode
  <2>3. QED
    BY <1>4, <2>1, <2>2 DEF CloseNode
<1>5. CASE HealthTick
  BY <1>5 DEF HealthTick, PerformHealthChecks
<1>6. CASE MonitorStops
  BY <1>6 DEF MonitorStops
<1>7. ASSUME NEW n \in Nodes, CheckBegin(n) PROVE TypeOK'
  <2>1. waiting' \in [Nodes -> 0..MaxChecks]
    BY <1>7 DEF CheckBegin
  <2>2. recent' = recent \/ recent' = [recent EXCEPT ![n] = TRUE]
    BY <1>7, Zenon DEF CheckBegin
  <2>3. lock' = lock \/ lock' = [lock EXCEPT ![n] = IF pool[n] = "nil" THEN "relock" ELSE "ping"]
    BY <1>7, Zenon DEF CheckBegin
  <2>4. recent' \in [Nodes -> BOOLEAN]
    <3>1. recent \in [Nodes -> BOOLEAN]
      OBVIOUS
    <3> HIDE DEF TypeOK
    <3>2. [recent EXCEPT ![n] = TRUE] \in [Nodes -> BOOLEAN]
      BY <3>1, FlagType
    <3>3. QED
      BY <2>2, <3>1, <3>2, Zenon
  <2>5. lock' \in [Nodes -> {"free", "ping", "relock"}]
    BY <2>3
  <2>6. QED
    BY <1>7, <2>1, <2>4, <2>5 DEF CheckBegin
<1>8. ASSUME NEW n \in Nodes, CheckPing(n) PROVE TypeOK'
  <2>1. PingHealth(n) \in {"healthy", "degraded", "failed"}
    BY DEF PingHealth
  <2>2. QED
    BY <1>8, <2>1 DEF CheckPing
<1>9. ASSUME NEW n \in Nodes, CheckExpires(n) PROVE TypeOK'
  BY <1>9 DEF CheckExpires
<1>10. ASSUME NEW n \in Nodes, ServerChange(n) PROVE TypeOK'
  BY <1>10 DEF ServerChange
<1>11. ASSUME NEW c \in Callers, CallerRLock(c) PROVE TypeOK'
  <2>1. Goto(c, IF caller[c].op = "stats" THEN "scan" ELSE "circuit")
    BY <1>11 DEF CallerRLock, Goto
  <2>2. caller' \in [Callers -> CallerStates]
    BY <2>1, GotoType DEF CallerPcs
  <2>3. QED
    BY <1>11, <2>2 DEF CallerRLock
<1>12. ASSUME NEW c \in Callers, CircuitFlag(c) PROVE TypeOK'
  <2>1. caller' \in [Callers -> CallerStates]
    BY <1>12, GotoType DEF CircuitFlag, CallerPcs
  <2>2. QED
    BY <1>12, <2>1 DEF CircuitFlag
<1>13. ASSUME NEW c \in Callers, CircuitTimeout(c) PROVE TypeOK'
  <2>1. caller' \in [Callers -> CallerStates]
    BY <1>13, GotoType, ReturnType DEF CircuitTimeout, CallerPcs, Results
  <2>2. QED
    BY <1>13, <2>1 DEF CircuitTimeout
<1>14. ASSUME NEW c \in Callers, CircuitClose(c) PROVE TypeOK'
  <2>1. caller' \in [Callers -> CallerStates]
    BY <1>14, GotoType DEF CircuitClose, CallerPcs
  <2>2. QED
    BY <1>14, <2>1 DEF CircuitClose
<1>15. ASSUME NEW c \in Callers, ScanNode(c) PROVE TypeOK'
  <2> DEFINE n == caller[c].idx
             f == IF caller[c].op # "stats" /\ Eligible(n, caller[c].op)
                    THEN caller[c].found \cup {n} ELSE caller[c].found
  <2>1. n \in Nodes /\ pool[n] \in Results
    BY <1>15 DEF ScanNode, CallerStates, Nodes, Results
  <2>2. \/ Return(c, pool[n])
        \/ caller' = [caller EXCEPT ![c].idx = n + 1, ![c].found = f]
    BY <1>15, Zenon DEF ScanNode
  <2>3. CASE Return(c, pool[n])
    <3>1. caller' \in [Callers -> CallerStates]
      BY <2>1, <2>3, ReturnType
    <3>2. QED
      BY <1>15, <3>1 DEF ScanNode
  <2>4. CASE caller' = [caller EXCEPT ![c].idx = n + 1, ![c].found = f]
    <3>1. f \in SUBSET Nodes
      BY <2>1 DEF CallerStates
    <3>2. n + 1 \in 1..(N + 1)
      BY <2>1 DEF Nodes
    <3>3. [caller[c] EXCEPT !.idx = n + 1, !.found = f] \in CallerStates
      <4>1. caller[c] \in CallerStates
        OBVIOUS
      <4> HIDE DEF n, f, TypeOK
      <4>2. QED
        BY <3>1, <3>2, <4>1, ScannedType
    <3>4. caller' = [caller EXCEPT ![c] = [caller[c] EXCEPT !.idx = n + 1, !.found = f]]
      BY <2>4
    <3> HIDE DEF n, f
    <3>5. caller' \in [Callers -> CallerStates]
      BY <3>3, <3>4
    <3>6. QED
      BY <1>15, <3>5 DEF ScanNode
  <2>5. QED
    BY <2>2, <2>3, <2>4
<1>16. ASSUME NEW c \in Callers, ScanDone(c) PROVE TypeOK'
  <2>1. caller' \in [Callers -> CallerStates]
    <3>1. CASE caller' = [caller EXCEPT ![c] = Calling("writer", "rlock", TRUE)]
      BY <3>1, CallingType DEF CallerPcs
    <3>2. CASE \/ Goto(c, "open") \/ Goto(c, "select")
               \/ \E res \in {"ok", "err"} : Return(c, res)
      BY <3>2, GotoType, ReturnType DEF CallerPcs, Results
    <3>3. QED
      BY <1>16, <3>1, <3>2 DEF ScanDone
  <2>2. QED
    BY <1>16, <2>1 DEF ScanDone
<1>17. ASSUME NEW c \in Callers, SelectReader(c) PROVE TypeOK'
  <2>1. PICK n \in Nodes : Return(c, pool[n])
    BY <1>17 DEF SelectReader, CallerStates
  <2>2. caller' \in [Callers -> CallerStates]
    BY <2>1, ReturnType DEF Results
  <2>3. QED
    BY <1>17, <2>2 DEF SelectReader
<1>18. ASSUME NEW c \in Callers, CircuitOpen(c) PROVE TypeOK'
  <2>1. caller' \in [Callers -> CallerStates]
    BY <1>18, GotoType, ReturnType DEF CircuitOpen, CallerPcs, Results
  <2>2. QED
    BY <1>18, <2>1 DEF CircuitOpen
<1>28. ASSUME NEW c \in Callers, CircuitTrip(c) PROVE TypeOK'
  <2>1. caller' \in [Callers -> CallerStates]
    BY <1>28, GotoType DEF CircuitTrip, CallerPcs
  <2>2. QED
    BY <1>28, <2>1 DEF CircuitTrip
<1>19. ASSUME NEW c \in Callers, CircuitStamp(c) PROVE TypeOK'
  <2>1. caller' \in [Callers -> CallerStates]
    BY <1>19, ReturnType DEF CircuitStamp, Results
  <2>2. QED
    BY <1>19, <2>1 DEF CircuitStamp
<1>20. ASSUME NEW c \in Callers, NEW op \in Ops, Start(c, op) PROVE TypeOK'
  <2>1. Calling(op, IF op = "health" THEN "scan" ELSE "rlock", FALSE) \in CallerStates
    BY CallingType DEF CallerPcs
  <2>2. caller' \in [Callers -> CallerStates]
    BY <1>20, <2>1 DEF Start
  <2>3. waiting' \in [Nodes -> 0..MaxChecks]
    BY <1>20 DEF Start, PerformHealthChecks
  <2>4. QED
    BY <1>20, <2>2, <2>3 DEF Start
<1>21. ASSUME NEW a \in Admins, AdminLock(a) PROVE TypeOK'
  BY <1>21 DEF AdminLock, IdleAdmin, AdminStates
<1>22. ASSUME NEW a \in Admins, AdminUpdate(a) PROVE TypeOK'
  BY <1>22 DEF AdminUpdate, AdminStates, Nodes
<1>23. ASSUME NEW a \in Admins, AdminUnlock(a) PROVE TypeOK'
  BY <1>23 DEF AdminUnlock, IdleAdmin, AdminStates
<1>24. ASSUME NEW a \in Admins, AdminCall(a) PROVE TypeOK'
  BY <1>24 DEF AdminCall, AdminStates
<1>25. CASE CircuitExpires
  BY <1>25 DEF CircuitExpires
<1>26. CASE UNCHANGED vars
  BY <1>26 DEF vars
<1>27. QED
  BY <1>1, <1>2, <1>3, <1>4, <1>5, <1>6, <1>7, <1>8, <1>9, <1>10, <1>11, <1>12, <1>13,
     <1>14, <1>15, <1>16, <1>17, <1>18, <1>19, <1>20, <1>21, <1>22, <1>23, <1>24, <1>25, <1>26,
     <1>28
     DEF Next, ManagerStep, MonitorStep, CheckStep, CallStep, AdminStep

\* Every reachable state of the manager is well typed: the loops of the constructor,
\* of Close, of SetWriterNode and of the look-ups stay within the node list.
THEOREM TypeCorrect == Spec => []TypeOK
<1>1. Init => TypeOK
  BY TypeInit
<1>2. TypeOK /\ [Next]_vars => TypeOK'
  BY TypeStep
<1>3. QED
  BY <1>1, <1>2, PTL DEF Spec

-----------------------------------------------------------------------------
(***************************************************************************)
(* Roles.  RWMutexInv is what cm.mutex provides; RolesInv adds how far the  *)
(* one SetWriterNode call inside its critical section has come.             *)
(***************************************************************************)
RWMutexInv ==
    \A a \in Admins : admin[a].pc = "update" =>
        /\ \A b \in Admins : admin[b].pc = "update" => b = a
        /\ \A c \in Callers : ~HoldsRLock(c)

\* The roles as SetWriterNode leaves them: one writer.
OneWriter == \E w \in Nodes : \A n \in Nodes : role[n] = "writer" <=> n = w

\* Outside SetWriterNode there is one writer; inside, the nodes already passed
\* have the role its target gives them.
RolesInv ==
    /\ (\A a \in Admins : admin[a].pc # "update") => OneWriter
    /\ \A a \in Admins : admin[a].pc = "update" =>
         /\ admin[a].target \in Nodes
         /\ \A n \in Nodes : n < admin[a].idx => (role[n] = "writer" <=> n = admin[a].target)
    /\ \A a \in Admins : admin[a].pc = "pending" => admin[a].idx = 1

\* A call that returns has released the read locks it held (the deferred RUnlock).
LEMMA ReturnReleases ==
    ASSUME TypeOK, NEW c \in Callers, NEW res \in Results, Return(c, res)
    PROVE  \A d \in Callers : HoldsRLock(d)' => HoldsRLock(d)
  BY DEF TypeOK, Return, IdleCaller, HoldsRLock

\* A call that goes on holds the read lock exactly if it held it before.
LEMMA GotoKeeps ==
    ASSUME TypeOK, NEW c \in Callers, NEW pc \in CallerPcs, Goto(c, pc),
           caller[c].pc \notin {"idle", "rlock"}
    PROVE  \A d \in Callers : HoldsRLock(d)' => HoldsRLock(d)
<1> SUFFICES ASSUME NEW d \in Callers, HoldsRLock(d)' PROVE HoldsRLock(d)
  OBVIOUS
<1>1. caller[c] \in CallerStates
  BY DEF TypeOK
<1>2. caller'[d].nested = caller[d].nested /\ caller'[d].op = caller[d].op
  BY <1>1 DEF TypeOK, Goto, CallerStates
<1>3. d # c => caller'[d] = caller[d]
  BY DEF TypeOK, Goto
<1>4. QED
  BY <1>2, <1>3 DEF HoldsRLock

\* Of the steps of a call, only CallerRLock takes the read lock.
LEMMA HoldsStable ==
    ASSUME TypeOK, NEW c \in Callers, CallStep(c), ~CallerRLock(c)
    PROVE  \A d \in Callers : HoldsRLock(d)' => HoldsRLock(d)
<1>1. CASE CircuitFlag(c) \/ CircuitTimeout(c) \/ CircuitClose(c)
  BY <1>1, GotoKeeps, ReturnReleases DEF CircuitFlag, CircuitTimeout, CircuitClose, CallerPcs, Results
<1>2. CASE CircuitOpen(c) \/ CircuitTrip(c) \/ CircuitStamp(c)
  BY <1>2, GotoKeeps, ReturnReleases DEF CircuitOpen, CircuitTrip, CircuitStamp, CallerPcs, Results
<1>3. CASE SelectReader(c)
  <2>1. PICK n \in Nodes : Return(c, pool[n])
    BY <1>3 DEF SelectReader, TypeOK, CallerStates
  <2>2. pool[n] \in Results
    BY DEF TypeOK, Results
  <2>3. QED
    BY <2>1, <2>2, ReturnReleases
<1>4. CASE ScanDone(c)
  <2>1. CASE caller' = [caller EXCEPT ![c] = Calling("writer", "rlock", TRUE)]
    <3>1. caller[c].op # "health" => HoldsRLock(c)
      BY <1>4 DEF ScanDone, HoldsRLock
    <3>2. \A d \in Callers : d # c => caller'[d] = caller[d]
      BY <2>1 DEF TypeOK
    <3>3. caller[c].op # "health"
      BY <1>4, <2>1 DEF ScanDone, TypeOK, Calling, Goto, Return, IdleCaller, CallerStates
    <3>4. QED
      BY <3>1, <3>2, <3>3 DEF HoldsRLock
  <2>2. CASE Goto(c, "open") \/ Goto(c, "select") \/ (\E res \in Results : Return(c, res))
    BY <1>4, <2>2, GotoKeeps, ReturnReleases DEF ScanDone, CallerPcs
  <2>3. QED
    BY <1>4, <2>1, <2>2 DEF ScanDone, Results
<1>5. CASE ScanNode(c)
  <2>1. caller[c] \in CallerStates /\ caller[c].idx \in Nodes
    BY <1>5 DEF ScanNode, TypeOK, CallerStates, Nodes
  <2>2. CASE Return(c, pool[caller[c].idx])
    BY <2>1, <2>2, ReturnReleases DEF TypeOK, Results
  <2>3. CASE ~Return(c, pool[caller[c].idx])
    <3>1. /\ caller'[c].pc = caller[c].pc /\ caller'[c].op = caller[c].op
          /\ caller'[c].nested = caller[c].nested
          /\ \A d \in Callers : d # c => caller'[d] = caller[d]
      BY <1>5, <2>1, <2>3 DEF ScanNode, TypeOK, CallerStates
    <3>2. QED
      BY <3>1 DEF HoldsRLock
  <2>4. QED
    BY <2>2, <2>3
<1>6. QED
  BY <1>1, <1>2, <1>3, <1>4, <1>5 DEF CallStep

\* No lock is held at the start and node 1 is the only writer (NewClusterManager).
LEMMA RolesInit == Init => RWMutexInv /\ RolesInv
<1> SUFFICES ASSUME Init PROVE RWMutexInv /\ RolesInv
  OBVIOUS
<1>1. \A a \in Admins : admin[a].pc = "idle"
  BY DEF Init, IdleAdmin
<1>2. OneWriter
  <2>1. 1 \in Nodes
    BY DEF Nodes
  <2>2. \A n \in Nodes : role[n] = "writer" <=> n = 1
    BY DEF Init
  <2>3. QED
    BY <2>1, <2>2 DEF OneWriter
<1>3. QED
  BY <1>1, <1>2 DEF RWMutexInv, RolesInv

\* Every step keeps them: SetWriterNode changes roles only inside its critical
\* section, and its last step out of it leaves the target as the one writer.
LEMMA RolesStep ==
    TypeOK /\ RWMutexInv /\ RolesInv /\ [Next]_vars => RWMutexInv' /\ RolesInv'
<1> SUFFICES ASSUME TypeOK, RWMutexInv, RolesInv, [Next]_vars
             PROVE  RWMutexInv' /\ RolesInv'
  OBVIOUS
<1>1. ASSUME UNCHANGED <<admin, role>>, \A d \in Callers : HoldsRLock(d)' => HoldsRLock(d)
      PROVE  RWMutexInv' /\ RolesInv'
  BY <1>1 DEF RWMutexInv, RolesInv, OneWriter
<1>2. ASSUME UNCHANGED <<admin, role, caller>> PROVE RWMutexInv' /\ RolesInv'
  BY <1>1, <1>2 DEF HoldsRLock
<1>3. CASE ManagerStep \/ MonitorStep \/ CircuitExpires \/ UNCHANGED vars
  BY <1>2, <1>3 DEF ManagerStep, MonitorStep, InitConnect, InitFinish, Close, CloseWaited,
     CloseNode, CloseReturn, HealthTick, MonitorStops, CircuitExpires, vars, nodeVars
<1>4. ASSUME NEW n \in Nodes, CheckStep(n) \/ ServerChange(n) PROVE RWMutexInv' /\ RolesInv'
  BY <1>2, <1>4 DEF CheckStep, CheckBegin, CheckPing, CheckExpires, ServerChange, nodeVars
<1>5. ASSUME NEW c \in Callers, CallStep(c), ~CallerRLock(c) PROVE RWMutexInv' /\ RolesInv'
  <2>1. UNCHANGED <<admin, role>>
    BY <1>5 DEF CallStep, CircuitFlag, CircuitTimeout, CircuitClose, ScanNode, ScanDone,
       SelectReader, CircuitOpen, CircuitTrip, CircuitStamp, nodeVars
  <2>2. QED
    BY <1>1, <1>5, <2>1, HoldsStable
<1>6. ASSUME NEW c \in Callers, CallerRLock(c) PROVE RWMutexInv' /\ RolesInv'
  <2>1. \A a \in Admins : admin[a].pc = "idle"
    BY <1>6 DEF CallerRLock, RLockGrantable
  <2>2. UNCHANGED <<admin, role>>
    BY <1>6 DEF CallerRLock, nodeVars
  <2>3. QED
    BY <2>1, <2>2 DEF RWMutexInv, RolesInv, OneWriter
<1>7. ASSUME NEW c \in Callers, NEW op \in Ops, Start(c, op) PROVE RWMutexInv' /\ RolesInv'
  <2>1. caller' = [caller EXCEPT ![c] = Calling(op, IF op = "health" THEN "scan" ELSE "rlock", FALSE)]
    BY <1>7 DEF Start
  <2>2. caller'[c] = Calling(op, IF op = "health" THEN "scan" ELSE "rlock", FALSE)
    BY <2>1 DEF TypeOK
  <2>3. \A d \in Callers : d # c => caller'[d] = caller[d]
    BY <2>1 DEF TypeOK
  <2>4. ~HoldsRLock(c)'
    BY <2>2 DEF HoldsRLock, Calling
  <2>5. \A d \in Callers : HoldsRLock(d)' => HoldsRLock(d)
    BY <2>3, <2>4 DEF HoldsRLock
  <2>6. QED
    BY <1>1, <1>7, <2>5 DEF Start
<1>8. ASSUME NEW a \in Admins, AdminCall(a) PROVE RWMutexInv' /\ RolesInv'
  <2>1. PICK t \in 0..N : admin' = [admin EXCEPT ![a] = [pc |-> "pending", target |-> t, idx |-> 1]]
    BY <1>8 DEF AdminCall
  <2>2. /\ admin'[a].pc = "pending" /\ admin'[a].idx = 1
        /\ \A b \in Admins : b # a => admin'[b] = admin[b]
    BY <2>1 DEF TypeOK
  <2>3. admin[a].pc = "idle" /\ UNCHANGED <<role, caller>>
    BY <1>8 DEF AdminCall, nodeVars
  <2>4. QED
    BY <2>2, <2>3 DEF RWMutexInv, RolesInv, OneWriter, HoldsRLock
<1>9. ASSUME NEW a \in Admins, AdminLock(a) PROVE RWMutexInv' /\ RolesInv'
  <2>1. /\ admin[a].pc = "pending" /\ admin[a].idx = 1 /\ UNCHANGED <<role, caller>>
        /\ \A b \in Admins : admin[b].pc # "update"
        /\ \A c \in Callers : ~HoldsRLock(c)
    BY <1>9 DEF AdminLock, LockGrantable, RolesInv, nodeVars
  <2>2. OneWriter
    BY <2>1 DEF RolesInv
  <2>3. admin[a] \in AdminStates /\ \A b \in Admins : b # a => admin'[b] = admin[b]
    BY <1>9 DEF AdminLock, TypeOK
  <2>4. CASE admin[a].target = 0
    <3>1. admin'[a].pc = "idle"
      BY <1>9, <2>4 DEF AdminLock, TypeOK, IdleAdmin
    <3>2. QED
      BY <2>1, <2>2, <2>3, <3>1 DEF RWMutexInv, RolesInv, OneWriter, HoldsRLock
  <2>5. CASE admin[a].target # 0
    <3>1. /\ admin'[a].pc = "update" /\ admin'[a].idx = 1
          /\ admin'[a].target = admin[a].target /\ admin[a].target \in Nodes
      BY <1>9, <2>1, <2>3, <2>5 DEF AdminLock, TypeOK, AdminStates, Nodes
    <3>2. RWMutexInv'
      BY <2>1, <2>3, <3>1 DEF RWMutexInv, HoldsRLock
    <3>3. RolesInv'
      BY <2>1, <2>3, <3>1 DEF RolesInv, Nodes
    <3>4. QED
      BY <3>2, <3>3
  <2>6. QED
    BY <2>4, <2>5
<1>10. ASSUME NEW a \in Admins, AdminUpdate(a) PROVE RWMutexInv' /\ RolesInv'
  <2> DEFINE n == admin[a].idx
  <2>1. /\ admin[a].pc = "update" /\ n \in Nodes /\ UNCHANGED caller
        /\ \A b \in Admins : admin[b].pc = "update" => b = a
    BY <1>10 DEF AdminUpdate, TypeOK, AdminStates, Nodes, RWMutexInv
  <2>2. /\ admin'[a].pc = "update" /\ admin'[a].target = admin[a].target
        /\ admin'[a].idx = n + 1
        /\ \A b \in Admins : b # a => admin'[b] = admin[b]
    BY <1>10, <2>1 DEF AdminUpdate, TypeOK, AdminStates
  <2>3. \A m \in Nodes : role'[m] = IF m = n THEN IF n = admin[a].target THEN "writer" ELSE "reader"
                                     ELSE role[m]
    BY <1>10, <2>1 DEF AdminUpdate, TypeOK
  <2>4. RWMutexInv'
    BY <2>1, <2>2 DEF RWMutexInv, HoldsRLock
  <2>5. \A m \in Nodes : m < n + 1 => (role'[m] = "writer" <=> m = admin[a].target)
    BY <2>1, <2>3 DEF RolesInv, Nodes
  <2>6. RolesInv'
    BY <2>1, <2>2, <2>5 DEF RolesInv
  <2>7. QED
    BY <2>4, <2>6
<1>11. ASSUME NEW a \in Admins, AdminUnlock(a) PROVE RWMutexInv' /\ RolesInv'
  <2>1. /\ admin[a].pc = "update" /\ admin[a].idx = N + 1 /\ UNCHANGED <<role, caller>>
        /\ \A b \in Admins : admin[b].pc = "update" => b = a
    BY <1>11 DEF AdminUnlock, RWMutexInv, nodeVars
  <2>2. admin'[a].pc = "idle" /\ \A b \in Admins : b # a => admin'[b] = admin[b]
    BY <1>11 DEF AdminUnlock, TypeOK, IdleAdmin
  <2>3. OneWriter
    BY <2>1 DEF RolesInv, OneWriter, Nodes
  <2>4. QED
    BY <2>1, <2>2, <2>3 DEF RWMutexInv, RolesInv, OneWriter, HoldsRLock
<1>12. QED
  BY <1>3, <1>4, <1>5, <1>6, <1>7, <1>8, <1>9, <1>10, <1>11 DEF Next, AdminStep

\* Whatever the number of nodes and of concurrent callers, a call that holds
\* the read lock of cm.mutex sees exactly one writer, in the middle of a
\* SetWriterNode or not.
THEOREM OneWriterAlways == Spec => []OneWriterPerCall
<1> DEFINE IInv == TypeOK /\ RWMutexInv /\ RolesInv
<1>1. Init => IInv
  BY TypeInit, RolesInit
<1>2. IInv /\ [Next]_vars => IInv'
  BY TypeStep, RolesStep
<1>3. IInv => OneWriterPerCall
  BY DEF RWMutexInv, RolesInv, OneWriterPerCall, OneWriter
<1>4. QED
  BY <1>1, <1>2, <1>3, PTL DEF Spec

-----------------------------------------------------------------------------
(***************************************************************************)
(* Pools.  While NewClusterManager connects (and when it fails) nothing     *)
(* else runs, and a node is healthy exactly when it has an open pool; later *)
(* a healthy node has a pool, and Close has closed those it has passed.     *)
(***************************************************************************)
\* While the constructor connects, and after it failed.
ConnectInv ==
    mgr.pc \in {"connect", "failed"} =>
        /\ ~monitor
        /\ \A n \in Nodes :
             /\ waiting[n] = 0 /\ lock[n] = "free"
             /\ pool[n] = "open" =>
                  mgr.pc = "connect" /\ n < mgr.idx /\ health[n] = "healthy"

\* Close has closed the pools of the nodes it has passed.
CloseInv ==
    /\ mgr.pc = "closing" => \A n \in Nodes : n < mgr.idx => pool[n] # "open"
    /\ mgr.pc = "closed" => \A n \in Nodes : pool[n] # "open"
    /\ mgr.pc = "failed" => \A n \in Nodes : pool[n] # "open"

\* A check pings only a pool, and nobody else drops it meanwhile.
PingInv == \A n \in Nodes : lock[n] = "ping" => pool[n] # "nil"

PoolInv == HealthyHasPool /\ ConnectInv /\ CloseInv /\ PingInv

\* The pool invariant holds before the first connection (NewClusterManager).
LEMMA PoolInit == Init => PoolInv
  BY DEF Init, PoolInv, HealthyHasPool, ConnectInv, CloseInv, PingInv, Nodes

\* Every step keeps it: connecting, a ping of either outcome, and the loop of Close.
LEMMA PoolStep == TypeOK /\ PoolInv /\ [Next]_vars => PoolInv'
<1> SUFFICES ASSUME TypeOK, PoolInv, [Next]_vars PROVE PoolInv'
  OBVIOUS
<1> USE DEF nodeVars, PoolInv
<1>1. ASSUME UNCHANGED <<health, pool, waiting, lock, mgr, monitor>> PROVE PoolInv'
  BY <1>1 DEF HealthyHasPool, ConnectInv, CloseInv, PingInv
<1>2. CASE InitConnect
  <2>1. /\ mgr.pc = "connect" /\ mgr.idx \in Nodes
        /\ mgr'.pc = "connect" /\ mgr'.idx = mgr.idx + 1
        /\ UNCHANGED <<waiting, lock, monitor>>
    BY <1>2 DEF InitConnect, TypeOK, ManagerStates, Nodes
  <2>2. \A n \in Nodes : n # mgr.idx => health'[n] = health[n] /\ pool'[n] = pool[n]
    BY <1>2 DEF InitConnect, ConnectToNode, TypeOK
  <2>3. \/ health'[mgr.idx] = "healthy" /\ pool'[mgr.idx] = "open"
        \/ health'[mgr.idx] = "failed" /\ pool'[mgr.idx] = pool[mgr.idx]
    BY <1>2, <2>1 DEF InitConnect, ConnectToNode, TypeOK
  <2>4. \A n \in Nodes : n < mgr.idx + 1 <=> n < mgr.idx \/ n = mgr.idx
    BY <2>1 DEF Nodes
  <2>5. mgr.idx \in Nat /\ ~(mgr.idx < mgr.idx)
    BY <2>1 DEF Nodes
  <2>6. HealthyHasPool'
    BY <2>1, <2>2, <2>3, <2>4 DEF HealthyHasPool
  <2>7. ConnectInv'
    BY <2>1, <2>2, <2>3, <2>4, <2>5 DEF ConnectInv
  <2>8. CloseInv' /\ PingInv'
    BY <2>1, <2>2, <2>3 DEF CloseInv, PingInv, ConnectInv
  <2>9. QED
    BY <2>6, <2>7, <2>8
<1>3. CASE InitFinish
  <2>1. /\ mgr.pc = "connect" /\ mgr.idx = N + 1 /\ UNCHANGED <<health, pool, waiting, lock>>
        /\ mgr'.pc = (IF HasHealthyNodes THEN "run" ELSE "failed")
        /\ monitor' = HasHealthyNodes
    BY <1>3 DEF InitFinish
  <2>2. \A n \in Nodes : n < mgr.idx
    BY <2>1 DEF Nodes
  <2>3. ~HasHealthyNodes => \A n \in Nodes : pool[n] # "open"
    BY <2>1 DEF HasHealthyNodes, ConnectInv
  <2>4. QED
    BY <2>1, <2>2, <2>3 DEF HealthyHasPool, ConnectInv, CloseInv, PingInv
<1>4. CASE Close \/ CloseWaited
  <2>1. /\ mgr.pc \in {"run", "shutdown"} /\ UNCHANGED <<health, pool, waiting, lock, monitor>>
        /\ mgr'.pc \in {"shutdown", "closing"} /\ mgr'.idx = 1
    BY <1>4 DEF Close, CloseWaited
  <2>2. \A n \in Nodes : ~(n < 1)
    BY DEF Nodes
  <2>3. QED
    BY <2>1, <2>2 DEF HealthyHasPool, ConnectInv, CloseInv, PingInv
<1>5. CASE CloseNode
  <2>1. /\ mgr.pc = "closing" /\ mgr.idx \in Nodes
        /\ mgr'.pc = "closing" /\ mgr'.idx = mgr.idx + 1
        /\ UNCHANGED <<health, waiting, lock, monitor>>
    BY <1>5 DEF CloseNode, TypeOK, ManagerStates, Nodes
  <2>2. \A n \in Nodes : /\ n # mgr.idx => pool'[n] = pool[n]
                         /\ n = mgr.idx => pool'[n] = IF pool[n] = "nil" THEN "nil" ELSE "closed"
    BY <1>5, <2>1 DEF CloseNode, TypeOK
  <2>3. \A n \in Nodes : n < mgr.idx + 1 => n < mgr.idx \/ n = mgr.idx
    BY <2>1 DEF Nodes
  <2>4. QED
    BY <2>1, <2>2, <2>3 DEF HealthyHasPool, ConnectInv, CloseInv, PingInv
<1>6. CASE CloseReturn
  <2>1. /\ mgr.pc = "closing" /\ mgr.idx = N + 1 /\ mgr'.pc = "closed"
        /\ UNCHANGED <<health, pool, waiting, lock, monitor>>
    BY <1>6 DEF CloseReturn
  <2>2. \A n \in Nodes : n < mgr.idx
    BY <2>1 DEF Nodes
  <2>3. QED
    BY <2>1, <2>2 DEF HealthyHasPool, ConnectInv, CloseInv, PingInv
<1>7. CASE HealthTick
  BY <1>7 DEF HealthTick, HealthyHasPool, ConnectInv, CloseInv, PingInv
<1>8. CASE MonitorStops
  BY <1>8 DEF MonitorStops, HealthyHasPool, ConnectInv, CloseInv, PingInv
<1>9. ASSUME NEW n \in Nodes, CheckBegin(n) PROVE PoolInv'
  <2>1. /\ waiting[n] > 0 /\ UNCHANGED <<health, pool, mgr, monitor>>
        /\ \A m \in Nodes : m # n => lock'[m] = lock[m]
        /\ lock'[n] = "ping" => lock[n] = "ping" \/ pool[n] # "nil"
    BY <1>9 DEF CheckBegin, TypeOK
  <2>2. mgr.pc \notin {"connect", "failed"}
    BY <2>1 DEF ConnectInv
  <2>3. QED
    BY <2>1, <2>2 DEF HealthyHasPool, ConnectInv, CloseInv, PingInv
<1>10. ASSUME NEW n \in Nodes, CheckPing(n) PROVE PoolInv'
  <2>1. /\ lock[n] = "ping" /\ UNCHANGED <<waiting, mgr, monitor>>
        /\ lock'[n] = "free" /\ \A m \in Nodes : m # n => lock'[m] = lock[m]
        /\ \A m \in Nodes : m # n => health'[m] = health[m] /\ pool'[m] = pool[m]
        /\ health'[n] = PingHealth(n)
        /\ pool'[n] = IF PingError(n) = "permanent" THEN "nil" ELSE pool[n]
    BY <1>10 DEF CheckPing, TypeOK
  <2>2. mgr.pc \notin {"connect", "failed"}
    BY <2>1 DEF ConnectInv
  <2>3. PingError(n) = "permanent" => PingHealth(n) = "failed"
    BY DEF PingHealth
  <2>4. HealthyHasPool'
    BY <2>1, <2>2, <2>3 DEF HealthyHasPool, PingInv
  <2>5. QED
    BY <2>1, <2>2, <2>4 DEF ConnectInv, CloseInv, PingInv
<1>11. ASSUME NEW n \in Nodes, CheckExpires(n) \/ ServerChange(n) PROVE PoolInv'
  BY <1>1, <1>11 DEF CheckExpires, ServerChange
<1>12. ASSUME NEW c \in Callers, CallStep(c) PROVE PoolInv'
  BY <1>1, <1>12 DEF CallStep, CallerRLock, CircuitFlag, CircuitTimeout, CircuitClose, ScanNode,
     ScanDone, SelectReader, CircuitOpen, CircuitTrip, CircuitStamp
<1>13. ASSUME NEW c \in Callers, NEW op \in Ops, Start(c, op) PROVE PoolInv'
  <2>1. Usable /\ UNCHANGED <<health, pool, lock, mgr, monitor>>
    BY <1>13 DEF Start
  <2>2. QED
    BY <2>1 DEF Usable, HealthyHasPool, ConnectInv, CloseInv, PingInv
<1>14. ASSUME NEW a \in Admins, AdminStep(a) \/ AdminCall(a) PROVE PoolInv'
  BY <1>1, <1>14 DEF AdminStep, AdminCall, AdminLock, AdminUpdate, AdminUnlock
<1>15. CASE CircuitExpires \/ UNCHANGED vars
  BY <1>1, <1>15 DEF CircuitExpires, vars
<1>16. QED
  BY <1>2, <1>3, <1>4, <1>5, <1>6, <1>7, <1>8, <1>9, <1>10, <1>11, <1>12, <1>13, <1>14, <1>15
     DEF Next, ManagerStep, MonitorStep, CheckStep

\* A healthy node always has a pool: no path drops or never sets node.sqlDB
\* and leaves the node among the healthy ones.
THEOREM HealthyAlwaysHasPool == Spec => []HealthyHasPool
<1> DEFINE IInv == TypeOK /\ PoolInv
<1>1. Init => IInv
  BY TypeInit, PoolInit
<1>2. IInv /\ [Next]_vars => IInv'
  BY TypeStep, PoolStep
<1>3. IInv => HealthyHasPool
  BY DEF PoolInv
<1>4. QED
  BY <1>1, <1>2, <1>3, PTL DEF Spec

\* When Close has returned, or NewClusterManager has failed, no pool is open,
\* although health-check goroutines may still run.
THEOREM CloseReleases == Spec => []ClosedMeansReleased
<1> DEFINE IInv == TypeOK /\ PoolInv
<1>1. Init => IInv
  BY TypeInit, PoolInit
<1>2. IInv /\ [Next]_vars => IInv'
  BY TypeStep, PoolStep
<1>3. IInv => ClosedMeansReleased
  BY DEF PoolInv, CloseInv, ClosedMeansReleased
<1>4. QED
  BY <1>1, <1>2, <1>3, PTL DEF Spec

-----------------------------------------------------------------------------
(***************************************************************************)
(* How a cluster starts: ClusterStart for every environment of its kind,     *)
(* every number of numbered variables and every width of a duration.         *)
(* Suffixes in order are their ranks (NthCounts), which counting and an       *)
(* injection give without induction; so do powers of two as numbers of        *)
(* subsets.  StartInv: what is loaded stays loaded, a wait is the last         *)
(* attempt's, and only an interval that is not positive makes a task panic.    *)
(***************************************************************************)
\* 1 << n counts the subsets of 1..n.
LEMMA PowerIsCount ==
    ASSUME NEW n \in Nat
    PROVE  2^n = Cardinality(SUBSET (1..n)) /\ IsFiniteSet(SUBSET (1..n))
<1>1. IsFiniteSet(1..n) /\ Cardinality(1..n) = n
  BY FS_Interval
<1> QED
  BY <1>1, FS_SUBSET

\* 1 << n is positive.
LEMMA PowerPositive ==
    ASSUME NEW n \in Nat
    PROVE  2^n \in Nat \ {0}
<1>1. /\ Cardinality(SUBSET (1..n)) \in Nat
      /\ Cardinality(SUBSET (1..n)) = 0 <=> SUBSET (1..n) = {}
  BY PowerIsCount, FS_CardinalityType, FS_EmptySet
<1>2. {} \in SUBSET (1..n)
  OBVIOUS
<1> QED
  BY <1>1, <1>2, PowerIsCount

\* 1 << n grows with n.
LEMMA PowerMonotone ==
    ASSUME NEW m \in Nat, NEW n \in Nat, m <= n
    PROVE  2^m <= 2^n
<1>1. 1..m \subseteq 1..n
  OBVIOUS
<1>2. SUBSET (1..m) \in SUBSET SUBSET (1..n)
  BY <1>1
<1> QED
  BY <1>2, PowerIsCount, FS_Subset

\* One shift more doubles: the subsets with n + 1 are as many as those without.
LEMMA PowerDoubles ==
    ASSUME NEW n \in Nat
    PROVE  2^(n + 1) = 2 * 2^n
<1> DEFINE S == SUBSET (1..n)
           T == {x \in SUBSET (1..(n + 1)) : n + 1 \in x}
           f == [x \in S |-> x \cup {n + 1}]
<1>1. f \in Bijection(S, T)
  <2>1. f \in [S -> T]
    OBVIOUS
  <2>2. ASSUME NEW a \in S, NEW b \in S, f[a] = f[b]
        PROVE  a = b
    BY <2>2
  <2>3. ASSUME NEW t \in T
        PROVE  \E s \in S : f[s] = t
    <3>1. t \ {n + 1} \in S
      OBVIOUS
    <3>2. f[t \ {n + 1}] = t
      BY <3>1
    <3> QED
      BY <3>1, <3>2
  <2> HIDE DEF S, T, f
  <2> QED
    BY <2>1, <2>2, <2>3 DEF Bijection, Injection, Surjection, IsInjective
<1>2. IsFiniteSet(S) /\ IsFiniteSet(T) /\ Cardinality(S) = 2^n /\ Cardinality(T) = 2^n
  BY <1>1, FS_Bijection, PowerIsCount DEF ExistsBijection
<1>3. SUBSET (1..(n + 1)) = S \cup T /\ S \cap T = {}
  <2>1. 1..n \subseteq 1..(n + 1)
    OBVIOUS
  <2>2. ASSUME NEW x \in SUBSET (1..(n + 1)), n + 1 \notin x
        PROVE  x \in S
    BY <2>2
  <2> QED
    BY <2>1, <2>2
<1>4. 2^(n + 1) = Cardinality(S \cup T)
  <2>1. n + 1 \in Nat
    OBVIOUS
  <2> QED
    BY <1>3, <2>1, PowerIsCount
<1>5. Cardinality(S \cup T) = Cardinality(S) + Cardinality(T) - Cardinality(S \cap T)
  BY <1>2, FS_Union
<1>6. Cardinality(S \cap T) = 0
  BY <1>3, FS_EmptySet
<1>7. 2^n \in Nat
  BY PowerPositive
<1> HIDE DEF S, T
<1> QED
  BY <1>2, <1>4, <1>5, <1>6, <1>7

-----------------------------------------------------------------------------
\* time.Duration has both signs, and half its values are not negative.
LEMMA DurationBounds ==
    /\ MaxDuration \in Nat
    /\ 2^(Width - 1) = MaxDuration + 1
    /\ 2^Width = 2 * (MaxDuration + 1)
<1>1. Width - 1 \in Nat /\ (Width - 1) + 1 = Width
  BY SizeAssumption
<1>2. 2^(Width - 1) \in Nat \ {0} /\ 2^((Width - 1) + 1) = 2 * 2^(Width - 1)
  BY <1>1, PowerPositive, PowerDoubles
<1> QED
  BY <1>1, <1>2 DEF MaxDuration

\* Arithmetic on durations stays in their range, and is exact within it.
LEMMA WrapIsExact ==
    ASSUME NEW x \in Int
    PROVE  /\ Wrap(x) \in -(MaxDuration + 1)..MaxDuration
           /\ x \in -(MaxDuration + 1)..MaxDuration => Wrap(x) = x
<1> DEFINE h == MaxDuration + 1
<1>1. h \in Nat \ {0} /\ Wrap(x) = ((x + h) % (2 * h)) - h
  BY DurationBounds DEF Wrap
<1>2. 2 * h \in Nat \ {0} /\ x + h \in Int
  BY <1>1
<1>3. \A m \in Nat \ {0}, y \in Int : y % m \in 0..(m - 1) /\ (y \in 0..(m - 1) => y % m = y)
  OBVIOUS
<1>4. (x + h) % (2 * h) \in 0..(2 * h - 1)
  BY <1>2, <1>3
<1>5. x + h \in 0..(2 * h - 1) => (x + h) % (2 * h) = x + h
  BY <1>2, <1>3
<1>6. MaxDuration = h - 1 /\ MaxDuration \in Nat
  BY DurationBounds
<1> HIDE DEF h
<1> QED
  BY <1>1, <1>4, <1>5, <1>6

-----------------------------------------------------------------------------
\* The k-th smallest suffix is there for every k up to their number, and is each of
\* them once.
LEMMA NthCounts ==
    ASSUME NEW S, S \subseteq 0..Slots
    PROVE  /\ IsFiniteSet(S) /\ Cardinality(S) \in Nat
           /\ \A k \in 1..Cardinality(S) : Nth(S, k) \in S
           /\ \A k, l \in 1..Cardinality(S) : Nth(S, k) = Nth(S, l) => k = l
           /\ \A n \in S : \E k \in 1..Cardinality(S) : Nth(S, k) = n
<1> DEFINE below(n) == {m \in S : m <= n}
           count == Cardinality(S)
           rank == [n \in S |-> Cardinality(below(n))]
<1>1. IsFiniteSet(S) /\ count \in Nat /\ S \subseteq Nat
  <2>1. IsFiniteSet(0..Slots)
    BY SizeAssumption, FS_Interval
  <2>2. IsFiniteSet(S)
    BY <2>1, FS_Subset
  <2>3. S \subseteq Nat
    BY SizeAssumption
  <2> QED
    BY <2>2, <2>3, FS_CardinalityType
<1>2. ASSUME NEW n \in S
      PROVE  /\ IsFiniteSet(below(n)) /\ below(n) \in SUBSET S
             /\ Cardinality(below(n)) \in 1..count
  <2>0. below(n) \in SUBSET S
    OBVIOUS
  <2> HIDE DEF below
  <2>1. IsFiniteSet(below(n)) /\ Cardinality(below(n)) <= count /\ Cardinality(below(n)) \in Nat
    BY <1>1, <2>0, FS_Subset, FS_CardinalityType
  <2>2. n \in below(n)
    BY <1>1 DEF below
  <2>3. Cardinality(below(n)) # 0
    BY <2>1, <2>2, FS_EmptySet
  <2> QED
    BY <2>0, <2>1, <2>3, <1>1
<1>3. ASSUME NEW a \in S, NEW b \in S, Cardinality(below(a)) = Cardinality(below(b)), a < b
      PROVE  FALSE
  <2>1. below(a) \in SUBSET below(b)
    <3>1. \A m \in S : m <= a => m <= b
      BY <1>1, <1>3
    <3> QED
      BY <3>1
  <2>2. below(a) = below(b)
    BY <2>1, <1>2, <1>3, FS_Subset
  <2>3. b \in below(b) /\ b \notin below(a)
    BY <1>1, <1>3
  <2> QED
    BY <2>2, <2>3
<1>4. ASSUME NEW a \in S, NEW b \in S, Cardinality(below(a)) = Cardinality(below(b))
      PROVE  a = b
  <2>1. a \in Nat /\ b \in Nat
    BY <1>1
  <2>2. ~(a < b) /\ ~(b < a)
    BY <1>3, <1>4
  <2> QED
    BY <2>1, <2>2
<1>5. rank \in [S -> 1..count]
  BY <1>2
<1>6. rank \in Injection(S, 1..count)
  <2>1. \A a, b \in S : rank[a] = rank[b] => a = b
    BY <1>4
  <2> HIDE DEF rank, count
  <2> QED
    BY <1>5, <2>1 DEF Injection, IsInjective
<1>7. IsFiniteSet(1..count) /\ Cardinality(1..count) = count
  BY <1>1, FS_Interval
<1>8. rank \in Surjection(S, 1..count)
  BY <1>6, <1>7, FS_Injection
<1>9. \A k \in 1..count : \E n \in S : rank[n] = k
  BY <1>8 DEF Surjection
<1>10. ASSUME NEW k \in 1..count
       PROVE  Nth(S, k) \in S /\ Cardinality(below(Nth(S, k))) = k
  <2>1. PICK n \in S : Cardinality(below(n)) = k
    BY <1>9
  <2> QED
    BY <2>1 DEF Nth
<1>11. ASSUME NEW n \in S
       PROVE  \E k \in 1..count : Nth(S, k) = n
  <2>1. Cardinality(below(n)) \in 1..count
    BY <1>2
  <2>2. Nth(S, Cardinality(below(n))) \in S
        /\ Cardinality(below(Nth(S, Cardinality(below(n))))) = Cardinality(below(n))
    BY <2>1, <1>10
  <2>3. Nth(S, Cardinality(below(n))) = n
    BY <2>2, <1>4
  <2> QED
    BY <2>1, <2>3
<1> HIDE DEF below
<1> QED
  BY <1>1, <1>10, <1>11

-----------------------------------------------------------------------------
\* What names a server.
Kinds == {"list", "url", "host", "localhost"}

\* What is in a list.
Members(s) == {s[i] : i \in DOMAIN s}

\* Only these are in a list more than once.
RepeatsOnly(s, repeated) == \A i, j \in DOMAIN s : i # j /\ s[i] = s[j] => s[i] \in repeated

\* What two lists have one after the other.
LEMMA JoinedServers ==
    ASSUME NEW D, NEW s \in Seq(Kinds \X Nat), NEW t \in Seq(Kinds \X Nat)
    PROVE  /\ s \o t \in Seq(Kinds \X Nat)
           /\ Members(s \o t) = Members(s) \cup Members(t)
           /\ RepeatsOnly(s, D) /\ RepeatsOnly(t, D) /\ Members(s) \cap Members(t) \subseteq D =>
                RepeatsOnly(s \o t, D)
<1> DEFINE m == Len(s)
           n == Len(t)
           u == s \o t
<1>1. /\ u \in Seq(Kinds \X Nat)
      /\ m \in Nat /\ n \in Nat /\ DOMAIN s = 1..m /\ DOMAIN t = 1..n /\ DOMAIN u = 1..(m + n)
      /\ \A i \in 1..m : u[i] = s[i]
      /\ \A i \in (m + 1)..(m + n) : u[i] = t[i - m]
  OBVIOUS
<1> HIDE DEF m, n, u
<1>2. \A i \in 1..(m + n) : i \in 1..m \/ (i \in (m + 1)..(m + n) /\ i - m \in 1..n)
  BY <1>1
<1>3. \A i \in 1..m : i \in 1..(m + n)
  BY <1>1
<1>4. \A i \in 1..n : i + m \in (m + 1)..(m + n) /\ i + m \in 1..(m + n) /\ (i + m) - m = i
  BY <1>1
<1>5. Members(u) = Members(s) \cup Members(t)
  <2>1. Members(u) \subseteq Members(s) \cup Members(t)
    BY <1>1, <1>2 DEF Members
  <2>2. Members(s) \subseteq Members(u)
    BY <1>1, <1>3 DEF Members
  <2>3. ASSUME NEW i \in 1..n
        PROVE  \E k \in DOMAIN u : t[i] = u[k]
    <3>1. t[i] = u[i + m] /\ i + m \in DOMAIN u
      BY <1>1, <1>4
    <3> QED
      BY <3>1
  <2>4. Members(t) \subseteq Members(u)
    BY <1>1, <2>3 DEF Members
  <2> QED
    BY <2>1, <2>2, <2>4
<1>6. ASSUME RepeatsOnly(s, D), RepeatsOnly(t, D), Members(s) \cap Members(t) \subseteq D,
             NEW i \in DOMAIN u, NEW j \in DOMAIN u, i # j, u[i] = u[j]
      PROVE  u[i] \in D
  <2>1. CASE i \in 1..m /\ j \in 1..m
    BY <1>1, <1>6, <2>1 DEF RepeatsOnly
  <2>2. CASE i \notin 1..m /\ j \notin 1..m
    <3>1. i \in (m + 1)..(m + n) /\ i - m \in 1..n /\ j \in (m + 1)..(m + n) /\ j - m \in 1..n
      BY <1>1, <1>2, <1>6, <2>2
    <3>2. i - m # j - m
      BY <1>1, <1>6, <3>1
    <3>3. u[i] = t[i - m] /\ u[j] = t[j - m]
      BY <1>1, <3>1
    <3> QED
      BY <1>1, <1>6, <3>1, <3>2, <3>3 DEF RepeatsOnly
  <2>3. ASSUME NEW a \in DOMAIN u, NEW b \in DOMAIN u, a \in 1..m, b \notin 1..m, u[a] = u[b]
        PROVE  u[a] \in D
    <3>1. b \in (m + 1)..(m + n) /\ b - m \in 1..n
      BY <1>1, <1>2, <2>3
    <3>2. u[a] \in Members(s) /\ u[b] \in Members(t)
      BY <1>1, <2>3, <3>1 DEF Members
    <3> QED
      BY <1>6, <2>3, <3>2
  <2> QED
    BY <1>6, <2>1, <2>2, <2>3
<1>7. RepeatsOnly(s, D) /\ RepeatsOnly(t, D) /\ Members(s) \cap Members(t) \subseteq D =>
        RepeatsOnly(u, D)
  BY <1>6 DEF RepeatsOnly
<1> QED
  BY <1>1, <1>5, <1>7 DEF u

\* A list of one server.
LEMMA OneServer ==
    ASSUME NEW address \in Kinds \X Nat
    PROVE  /\ <<address>> \in Seq(Kinds \X Nat) /\ Len(<<address>>) = 1
           /\ Members(<<address>>) = {address}
           /\ \A D : RepeatsOnly(<<address>>, D)
  BY DEF Members, RepeatsOnly

\* The variables of a kind with these suffixes, each once.
LEMMA NamedServers ==
    ASSUME NEW kind \in Kinds, NEW S, S \subseteq 0..Slots
    PROVE  /\ Named(kind, S) \in Seq(Kinds \X Nat)
           /\ Len(Named(kind, S)) = Cardinality(S) /\ Cardinality(S) \in Nat
           /\ Members(Named(kind, S)) = {<<kind, n>> : n \in S}
           /\ \A D : RepeatsOnly(Named(kind, S), D)
<1> DEFINE count == Cardinality(S)
<1>1. count \in Nat /\ S \subseteq Nat
  <2>1. count \in Nat
    BY NthCounts
  <2>2. S \subseteq Nat
    BY SizeAssumption
  <2> QED
    BY <2>1, <2>2
<1>2. \A k \in 1..count : Nth(S, k) \in S
  BY NthCounts
<1>3. \A k, l \in 1..count : Nth(S, k) = Nth(S, l) => k = l
  BY NthCounts
<1>4. \A n \in S : \E k \in 1..count : Nth(S, k) = n
  BY NthCounts
<1>5. /\ DOMAIN Named(kind, S) = 1..count
      /\ \A k \in 1..count : Named(kind, S)[k] = <<kind, Nth(S, k)>>
  BY DEF Named
<1>6. Named(kind, S) \in Seq(Kinds \X Nat) /\ Len(Named(kind, S)) = count
  <2>1. \A k \in 1..count : <<kind, Nth(S, k)>> \in Kinds \X Nat
    BY <1>1, <1>2
  <2> QED
    BY <1>1, <2>1 DEF Named
<1>0. count = Cardinality(S)
  OBVIOUS
<1> HIDE DEF count
<1>7. Members(Named(kind, S)) = {<<kind, n>> : n \in S}
  <2>1. Members(Named(kind, S)) \subseteq {<<kind, n>> : n \in S}
    BY <1>2, <1>5 DEF Members
  <2>2. {<<kind, n>> : n \in S} \subseteq Members(Named(kind, S))
    BY <1>4, <1>5 DEF Members
  <2> QED
    BY <2>1, <2>2
<1>8. \A D : RepeatsOnly(Named(kind, S), D)
  BY <1>3, <1>5 DEF RepeatsOnly
<1> QED
  BY <1>0, <1>1, <1>6, <1>7, <1>8

\* The settings that are numbers.
Numbers == {"pool", "idle", "retries", "interval", "base", "max"}

\* What the environments of interest have in common.
LEMMA EnvironmentType ==
    ASSUME env \in Environments
    PROVE  /\ env.listed \in 0..2
           /\ env.urls \subseteq 0..Slots /\ env.hosts \subseteq 0..Slots
           /\ env.name \in BOOLEAN /\ env.password \in BOOLEAN
           /\ env.pool \in Given(Counts) /\ env.idle \in Given(Counts)
           /\ env.retries \in Given(Counts)
           /\ env.interval \in Given(Durations) /\ env.base \in Given(Durations)
           /\ env.max \in Given(Durations)
<1>1. 0 \in 0..Slots
  BY SizeAssumption
<1>2. CASE env \in Variables(0..2, SUBSET (0..Slots), SUBSET (0..Slots), BOOLEAN,
                             {Unset}, {Unset}, {Unset})
  BY <1>2 DEF Variables, Given
<1>3. CASE env \in Variables({0}, {{0}}, {{}}, {TRUE}, Given(Counts), {Unset}, {Unset})
  <2>1. env.urls = {0} /\ env.hosts = {} /\ env.listed = 0 /\ env.name = TRUE /\ env.password = TRUE
    BY <1>3 DEF Variables
  <2>2. env.urls \subseteq 0..Slots /\ env.hosts \subseteq 0..Slots /\ env.listed \in 0..2
    BY <1>1, <2>1
  <2>3. env.name \in BOOLEAN /\ env.password \in BOOLEAN
    BY <2>1
  <2> QED
    BY <1>3, <2>2, <2>3 DEF Variables, Given
<1>4. CASE env \in Variables({0}, {{0}}, {{}}, {TRUE}, {Unset}, Given(Counts), Given(Durations))
  <2>1. env.urls = {0} /\ env.hosts = {} /\ env.listed = 0 /\ env.name = TRUE /\ env.password = TRUE
    BY <1>4 DEF Variables
  <2>2. env.urls \subseteq 0..Slots /\ env.hosts \subseteq 0..Slots /\ env.listed \in 0..2
    BY <1>1, <2>1
  <2>3. env.name \in BOOLEAN /\ env.password \in BOOLEAN
    BY <2>1
  <2> QED
    BY <1>4, <2>2, <2>3 DEF Variables, Given
<1> QED
  BY <1>2, <1>3, <1>4 DEF Environments

\* A list of servers in one variable.
LEMMA ListedServers ==
    ASSUME env.listed \in Nat
    PROVE  /\ Listed \in Seq(Kinds \X Nat) /\ Len(Listed) = env.listed
           /\ Members(Listed) = {<<"list", i>> : i \in 1..env.listed}
           /\ \A D : RepeatsOnly(Listed, D)
<1>1. DOMAIN Listed = 1..env.listed /\ \A i \in 1..env.listed : Listed[i] = <<"list", i>>
  BY DEF Listed
<1>2. Listed \in Seq(Kinds \X Nat) /\ Len(Listed) = env.listed
  <2>1. \A i \in 1..env.listed : <<"list", i>> \in Kinds \X Nat
    BY DEF Kinds
  <2> QED
    BY <2>1 DEF Listed
<1>3. Members(Listed) = {<<"list", i>> : i \in 1..env.listed}
  BY <1>1 DEF Members
<1>4. \A D : RepeatsOnly(Listed, D)
  BY <1>1 DEF RepeatsOnly
<1> QED
  BY <1>2, <1>3, <1>4

\* The server without suffix.
LEMMA HostIs ==
    /\ Host \in Kinds \X Nat
    /\ Host = (IF 0 \in env.hosts THEN <<"host", 0>> ELSE <<"localhost", 0>>)
  BY DEF Host, Localhost, Kinds

\* What is true of the servers of each package: they are those that count, localhost is
\* one only if nothing that counts names the first, and no server is there twice except
\* those in "repeated".
Serves(servers, repeated) ==
    /\ servers \in Seq(Kinds \X Nat)
    /\ \A i \in 1..env.listed : <<"list", i>> \in Members(servers)
    /\ \A i \in 1..Slots : <<"url", i>> \in Members(servers) <=> i \in UrlsRead
    /\ \A i \in 1..Slots : <<"host", i>> \in Members(servers) <=> i \in HostsRead
    /\ Localhost \in Members(servers) <=> FirstIsLocalhost
    /\ RepeatsOnly(servers, repeated)

\* The numbers from one on.
LEMMA SlotNumbers == Slots \in Nat /\ \A i \in 1..Slots : i \in Nat /\ i # 0
  BY SizeAssumption

\* REDIS_CLUSTER_NODES, the numbered URLs, or one server and the numbered hosts
\* (loadNodes of rediscluster).
LEMMA RedisServersAre ==
    ASSUME env \in Environments, package = "redis"
    PROVE  Serves(RedisServers, {})
<1> DEFINE D == {}
           U == env.urls \ {0}
           H == env.hosts \ {0, 1}
           others == Named("host", H)
           first == IF Numbered # <<>> THEN Numbered
                    ELSE IF 0 \in env.urls THEN <<<<"url", 0>>>> ELSE <<Host>>
<1>1. env.listed \in Nat /\ U \subseteq 0..Slots /\ H \subseteq 0..Slots
  BY EnvironmentType
<1>2. /\ Numbered \in Seq(Kinds \X Nat)
      /\ Len(Numbered) = Cardinality(U) /\ Cardinality(U) \in Nat
      /\ Members(Numbered) = {<<"url", n>> : n \in U}
      /\ RepeatsOnly(Numbered, D)
  BY <1>1, NamedServers DEF Numbered, Kinds
<1>3. /\ others \in Seq(Kinds \X Nat)
      /\ Members(others) = {<<"host", n>> : n \in H}
      /\ RepeatsOnly(others, D)
  BY <1>1, NamedServers DEF Kinds
<1>4. CASE env.listed > 0
  <2>1. RedisServers = Listed
    BY <1>1, <1>4 DEF RedisServers
  <2>2. /\ Listed \in Seq(Kinds \X Nat)
        /\ Members(Listed) = {<<"list", i>> : i \in 1..env.listed}
        /\ RepeatsOnly(Listed, D)
    BY <1>1, ListedServers
  <2>3. UrlsRead = {} /\ HostsRead = {} /\ ~FirstIsLocalhost
    BY <1>1, <1>4 DEF UrlsRead, HostsRead, FirstIsLocalhost
  <2> QED
    BY <2>1, <2>2, <2>3 DEF Serves, Localhost
<1>5. CASE env.listed = 0
  <2>1. RedisServers = IF Len(first) = 1 THEN first \o others ELSE first
    BY <1>5 DEF RedisServers
  <2>2. Numbered = <<>> <=> U = {}
    <3>1. Numbered = <<>> => Members(Numbered) = {}
      BY DEF Members
    <3>2. Members(Numbered) = {} => U = {}
      BY <1>2, ZenonT(30)
    <3>3. U = {} => Cardinality(U) = 0
      BY FS_EmptySet
    <3>4. Cardinality(U) = 0 => Numbered = <<>>
      BY <1>2
    <3> QED
      BY <3>1, <3>2, <3>3, <3>4
  <2>3. /\ UrlsRead = U
        /\ HostsRead = IF Cardinality(U) <= 1 THEN H ELSE {}
        /\ FirstIsLocalhost <=> U = {} /\ 0 \notin env.urls /\ 0 \notin env.hosts
    <3>1. UrlsRead = U
      BY <1>5 DEF UrlsRead
    <3> HIDE DEF U, H
    <3>2. HostsRead = IF Cardinality(U) <= 1 THEN H ELSE {}
      BY <1>5, <3>1 DEF HostsRead, H
    <3>3. FirstIsLocalhost <=> U = {} /\ 0 \notin env.urls /\ 0 \notin env.hosts
      BY <1>5, <3>1 DEF FirstIsLocalhost
    <3> QED
      BY <3>1, <3>2, <3>3
  <2>4. /\ first \in Seq(Kinds \X Nat) /\ RepeatsOnly(first, D)
        /\ \A i \in 1..Slots : <<"url", i>> \in Members(first) <=> i \in U
        /\ \A i \in 1..Slots : <<"host", i>> \notin Members(first)
        /\ Localhost \in Members(first) <=> U = {} /\ 0 \notin env.urls /\ 0 \notin env.hosts
        /\ Members(first) \cap Members(others) = {}
        /\ Len(first) = 1 <=> Cardinality(U) <= 1
    <3>1. CASE Numbered # <<>>
      <4>1. first = Numbered /\ Cardinality(U) # 0 /\ U # {}
        BY <1>2, <2>2, <3>1
      <4> HIDE DEF first, others, U, H
      <4>2. /\ \A i \in 1..Slots : <<"url", i>> \in Members(first) <=> i \in U
            /\ \A i \in 1..Slots : <<"host", i>> \notin Members(first)
            /\ Localhost \notin Members(first)
        BY <1>2, <4>1 DEF Localhost
      <4>3. Members(first) \cap Members(others) = {}
        BY <1>2, <1>3, <4>1
      <4>4. Len(first) = 1 <=> Cardinality(U) <= 1
        BY <1>2, <4>1
      <4> QED
        BY <1>2, <4>1, <4>2, <4>3, <4>4
    <3>2. CASE Numbered = <<>> /\ 0 \in env.urls
      <4>1. first = <<<<"url", 0>>>> /\ <<"url", 0>> \in Kinds \X Nat
        BY <3>2 DEF Kinds
      <4>2. /\ first \in Seq(Kinds \X Nat) /\ RepeatsOnly(first, D) /\ Len(first) = 1
            /\ Members(first) = {<<"url", 0>>}
        BY <4>1, OneServer, SMTT(30)
      <4>3. Cardinality(U) = 0 /\ U = {}
        BY <2>2, <3>2, FS_EmptySet
      <4> HIDE DEF first, others, U, H
      <4>4. Cardinality(U) <= 1 /\ \A i \in 1..Slots : i \notin U
        BY <4>3
      <4> QED
        BY <1>3, <3>2, <4>2, <4>4, SlotNumbers DEF Localhost
    <3>3. CASE Numbered = <<>> /\ 0 \notin env.urls
      <4>1. first = <<Host>>
        BY <3>3
      <4>2. /\ <<Host>> \in Seq(Kinds \X Nat) /\ RepeatsOnly(<<Host>>, D) /\ Len(<<Host>>) = 1
            /\ Members(<<Host>>) = {Host}
        BY HostIs, OneServer
      <4>3. Cardinality(U) = 0 /\ U = {}
        BY <2>2, <3>3, FS_EmptySet
      <4>4. 0 \notin H
        OBVIOUS
      <4> HIDE DEF first, others, U, H
      <4>5. /\ first \in Seq(Kinds \X Nat) /\ RepeatsOnly(first, D) /\ Len(first) = 1
            /\ Members(first) = {Host}
        BY <4>1, <4>2
      <4>6. Cardinality(U) <= 1 /\ \A i \in 1..Slots : i \notin U
        BY <4>3
      <4>7. /\ \A i \in 1..Slots : <<"url", i>> \notin Members(first)
            /\ \A i \in 1..Slots : <<"host", i>> \notin Members(first)
            /\ Localhost \in Members(first) <=> 0 \notin env.hosts
        BY <4>5, HostIs, SlotNumbers DEF Localhost
      <4>8. Members(first) \cap Members(others) = {}
        BY <1>3, <4>4, <4>5, HostIs
      <4> QED
        BY <3>3, <4>3, <4>5, <4>6, <4>7, <4>8
    <3> QED
      BY <3>1, <3>2, <3>3
  <2>5. /\ \A i : <<"host", i>> \in Members(others) <=> i \in H
        /\ \A i : <<"url", i>> \notin Members(others)
        /\ Localhost \notin Members(others)
    <3> HIDE DEF others, H
    <3> QED
      BY <1>3 DEF Localhost
  <2> HIDE DEF first, others, U, H
  <2>6. 1..env.listed = {}
    BY <1>5
  <2>7. CASE Len(first) # 1
    BY <2>1, <2>3, <2>4, <2>6, <2>7 DEF Serves
  <2>8. CASE Len(first) = 1
    <3>1. /\ first \o others \in Seq(Kinds \X Nat)
          /\ Members(first \o others) = Members(first) \cup Members(others)
          /\ RepeatsOnly(first \o others, D)
      BY <1>3, <2>4, JoinedServers
    <3> QED
      BY <2>1, <2>3, <2>4, <2>5, <2>6, <2>8, <3>1 DEF Serves
  <2> QED
    BY <2>7, <2>8
<1> QED
  BY <1>1, <1>4, <1>5

\* The hosts of pgcluster's readers: the one without number may be there many times.
LEMMA PgHostsAre ==
    ASSUME env \in Environments
    PROVE  /\ PgHosts \in Seq(Kinds \X Nat)
           /\ Members(PgHosts) \subseteq {<<"host", i>> : i \in Nat}
           /\ \A i \in 1..Slots : <<"host", i>> \in Members(PgHosts) <=> i \in env.hosts
           /\ RepeatsOnly(PgHosts, {<<"host", 0>>})
<1>1. env.hosts \subseteq 0..Slots /\ env.hosts \subseteq Nat
  <2>1. env.hosts \subseteq 0..Slots
    BY EnvironmentType
  <2>2. 0..Slots \subseteq Nat
    BY SizeAssumption
  <2> QED
    BY <2>1, <2>2
<1>2. CASE 0 \notin env.hosts
  <2>1. PgHosts = Named("host", env.hosts) /\ "host" \in Kinds
    BY <1>2 DEF PgHosts, Kinds
  <2>2. /\ PgHosts \in Seq(Kinds \X Nat)
        /\ Members(PgHosts) = {<<"host", n>> : n \in env.hosts}
        /\ RepeatsOnly(PgHosts, {<<"host", 0>>})
    BY <1>1, <2>1, NamedServers
  <2> QED
    BY <1>1, <2>2
<1>3. CASE 0 \in env.hosts
  <2> DEFINE suffix(i) == IF i \in env.hosts THEN i ELSE 0
  <2>1. PgHosts = [i \in 1..Slots |-> <<"host", suffix(i)>>]
    BY <1>3 DEF PgHosts
  <2>2. \A i \in 1..Slots : suffix(i) \in Nat /\ (suffix(i) = i \/ suffix(i) = 0)
    BY <1>1
  <2> HIDE DEF suffix
  <2>3. DOMAIN PgHosts = 1..Slots /\ \A i \in 1..Slots : PgHosts[i] = <<"host", suffix(i)>>
    BY <2>1
  <2>4. PgHosts \in Seq(Kinds \X Nat)
    <3>1. \A i \in 1..Slots : <<"host", suffix(i)>> \in Kinds \X Nat
      BY <2>2 DEF Kinds
    <3>2. Slots \in Nat
      BY SizeAssumption
    <3> QED
      BY <2>1, <3>1, <3>2
  <2>5. Members(PgHosts) \subseteq {<<"host", i>> : i \in Nat}
    BY <2>2, <2>3 DEF Members
  <2>6. ASSUME NEW i \in 1..Slots, NEW j \in 1..Slots, i # j, PgHosts[i] = PgHosts[j]
        PROVE  PgHosts[i] = <<"host", 0>>
    <3>1. suffix(i) = suffix(j)
      BY <2>3, <2>6
    <3>2. suffix(i) = 0
      BY <2>2, <2>6, <3>1
    <3> QED
      BY <2>3, <3>2
  <2>7. RepeatsOnly(PgHosts, {<<"host", 0>>})
    BY <2>3, <2>6 DEF RepeatsOnly
  <2>8. ASSUME NEW i \in 1..Slots
        PROVE  <<"host", i>> \in Members(PgHosts) <=> i \in env.hosts
    <3>1. i \in env.hosts => PgHosts[i] = <<"host", i>>
      BY <2>3 DEF suffix
    <3>2. \A k \in 1..Slots : PgHosts[k] = <<"host", i>> => suffix(k) = i
      BY <2>3
    <3>3. \A k \in 1..Slots : suffix(k) = i => i \in env.hosts
      BY SlotNumbers DEF suffix
    <3> QED
      BY <2>3, <3>1, <3>2, <3>3 DEF Members
  <2> QED
    BY <2>4, <2>5, <2>7, <2>8
<1> QED
  BY <1>2, <1>3

\* The writer's URL or host, then the readers' (loadConnectionURLs of pgcluster).
LEMMA PgServersAre ==
    ASSUME env \in Environments, package = "pg"
    PROVE  Serves(PgServers, {<<"host", 0>>})
<1> DEFINE D == {<<"host", 0>>}
           U == env.urls \ {0}
           writer == IF 0 \in env.urls THEN <<"url", 0>> ELSE Host
           both == Listed \o Numbered
           readers == IF both = <<>> THEN PgHosts ELSE both
<1>1. PgServers = <<writer>> \o readers
  BY DEF PgServers
<1>2. env.listed \in Nat /\ U \subseteq 0..Slots
  BY EnvironmentType
<1>3. /\ writer \in Kinds \X Nat
      /\ writer = Localhost <=> 0 \notin env.urls /\ 0 \notin env.hosts
      /\ writer \in {<<"url", 0>>, <<"host", 0>>, Localhost}
  BY HostIs DEF Kinds, Localhost
<1>4. /\ <<writer>> \in Seq(Kinds \X Nat) /\ Members(<<writer>>) = {writer}
      /\ RepeatsOnly(<<writer>>, D)
  BY <1>3, OneServer
<1>5. /\ Listed \in Seq(Kinds \X Nat)
      /\ Members(Listed) = {<<"list", i>> : i \in 1..env.listed}
      /\ RepeatsOnly(Listed, D)
  BY <1>2, ListedServers
<1>6. /\ Numbered \in Seq(Kinds \X Nat)
      /\ Members(Numbered) = {<<"url", n>> : n \in U}
      /\ Len(Numbered) = Cardinality(U) /\ Cardinality(U) \in Nat
      /\ RepeatsOnly(Numbered, D)
  BY <1>2, NamedServers DEF Numbered, Kinds
<1>7. Members(Listed) \cap Members(Numbered) \subseteq D
  BY <1>5, <1>6
<1>8. /\ both \in Seq(Kinds \X Nat)
      /\ Members(both) = Members(Listed) \cup Members(Numbered)
      /\ RepeatsOnly(both, D)
  BY <1>5, <1>6, <1>7, JoinedServers
<1>9. both = <<>> <=> env.listed = 0 /\ U = {}
  <2>1. both = <<>> => Members(both) = {}
    BY DEF Members
  <2>2. U = {} => Cardinality(U) = 0
    BY FS_EmptySet
  <2>3. env.listed = 0 /\ U = {} => both = <<>>
    BY <1>2, <1>5, <1>6, <2>2, ListedServers
  <2> HIDE DEF both, U
  <2>4. Members(both) = {} => Members(Numbered) = {} /\ Members(Listed) = {}
    BY <1>8
  <2>5. Members(Numbered) = {} => U = {}
    BY <1>6, ZenonT(30)
  <2>6. Members(Listed) = {} => 1..env.listed = {}
    BY <1>5, ZenonT(30)
  <2>7. 1..env.listed = {} => env.listed = 0
    BY <1>2
  <2> QED
    BY <2>1, <2>3, <2>4, <2>5, <2>6, <2>7
<1>10. /\ UrlsRead = U
       /\ HostsRead = IF env.listed = 0 /\ U = {} THEN env.hosts \ {0} ELSE {}
       /\ FirstIsLocalhost <=> 0 \notin env.urls /\ 0 \notin env.hosts
  <2>1. UrlsRead = U
    BY DEF UrlsRead
  <2> HIDE DEF U
  <2> QED
    BY <2>1 DEF HostsRead, FirstIsLocalhost
<1>11. /\ readers \in Seq(Kinds \X Nat) /\ RepeatsOnly(readers, D)
       /\ \A i \in 1..env.listed : <<"list", i>> \in Members(readers)
       /\ \A i \in 1..Slots : <<"url", i>> \in Members(readers) <=> i \in U
       /\ \A i \in 1..Slots : <<"host", i>> \in Members(readers) <=> i \in HostsRead
       /\ Localhost \notin Members(readers)
       /\ {writer} \cap Members(readers) \subseteq D
  <2>1. CASE both = <<>>
    <3>1. readers = PgHosts
      BY <2>1
    <3>2. /\ PgHosts \in Seq(Kinds \X Nat) /\ RepeatsOnly(PgHosts, D)
          /\ Members(PgHosts) \subseteq {<<"host", i>> : i \in Nat}
          /\ \A i \in 1..Slots : <<"host", i>> \in Members(PgHosts) <=> i \in env.hosts
      BY PgHostsAre
    <3>3. 1..env.listed = {} /\ U = {}
      BY <1>9, <2>1
    <3>4. \A i \in 1..Slots : i \in HostsRead <=> i \in env.hosts
      BY <1>9, <1>10, <2>1, SlotNumbers
    <3> HIDE DEF both, readers, writer, U
    <3> QED
      BY <1>3, <3>1, <3>2, <3>3, <3>4 DEF Localhost
  <2>2. CASE both # <<>>
    <3>1. readers = both
      BY <2>2
    <3>2. HostsRead = {}
      BY <1>9, <1>10, <2>2
    <3>3. 0 \notin U
      OBVIOUS
    <3> HIDE DEF both, readers, writer, U
    <3>4. Localhost \notin Members(both) /\ <<"url", 0>> \notin Members(both)
          /\ \A i \in Nat : <<"host", i>> \notin Members(both)
      BY <1>5, <1>6, <1>8, <3>3 DEF Localhost
    <3>5. \A i \in 1..Slots : <<"url", i>> \in Members(both) <=> i \in U
      BY <1>5, <1>6, <1>8
    <3>6. \A i \in 1..env.listed : <<"list", i>> \in Members(both)
      BY <1>5, <1>8
    <3> QED
      BY <1>3, <1>8, <3>1, <3>2, <3>4, <3>5, <3>6, SlotNumbers
  <2> QED
    BY <2>1, <2>2
<1> HIDE DEF both, readers, writer, U
<1>12. /\ PgServers \in Seq(Kinds \X Nat)
       /\ Members(PgServers) = {writer} \cup Members(readers)
       /\ RepeatsOnly(PgServers, D)
  <2>1. Members(<<writer>>) \cap Members(readers) \subseteq D
    BY <1>4, <1>11
  <2> HIDE DEF D
  <2>2. /\ <<writer>> \o readers \in Seq(Kinds \X Nat)
        /\ Members(<<writer>> \o readers) = Members(<<writer>>) \cup Members(readers)
        /\ RepeatsOnly(<<writer>> \o readers, D)
    BY <1>4, <1>11, <2>1, JoinedServers
  <2> QED
    BY <1>1, <1>4, <2>2
<1>13. \A i \in 1..Slots : writer # <<"url", i>> /\ writer # <<"host", i>>
  BY <1>3, SlotNumbers DEF Localhost
<1>14. /\ \A i \in 1..Slots : <<"url", i>> \in Members(PgServers) <=> i \in UrlsRead
       /\ \A i \in 1..Slots : <<"host", i>> \in Members(PgServers) <=> i \in HostsRead
  BY <1>10, <1>11, <1>12, <1>13
<1>15. Localhost \in Members(PgServers) <=> FirstIsLocalhost
  BY <1>3, <1>10, <1>11, <1>12
<1> QED
  BY <1>11, <1>12, <1>14, <1>15 DEF Serves

\* A list, or the first server and every suffix that names one (loadNodes of
\* amqpcluster).
LEMMA AmqpServersAre ==
    ASSUME env \in Environments, package = "amqp"
    PROVE  Serves(AmqpServers, {<<"host", 0>>}) /\ AmqpServers # <<>>
<1> DEFINE D == {<<"host", 0>>}
           S == AmqpSuffixes
           count == Cardinality(S)
<1>1. /\ env.listed \in Nat /\ env.urls \subseteq 0..Slots /\ env.hosts \subseteq 0..Slots
  BY EnvironmentType
<1>2. CASE env.listed > 0
  <2>1. AmqpServers = Listed
    BY <1>2 DEF AmqpServers
  <2>2. /\ Listed \in Seq(Kinds \X Nat) /\ Len(Listed) = env.listed
        /\ Members(Listed) = {<<"list", i>> : i \in 1..env.listed}
        /\ RepeatsOnly(Listed, D)
    BY <1>1, ListedServers
  <2>3. Listed # <<>>
    BY <1>2, <2>2
  <2>4. UrlsRead = {} /\ HostsRead = {} /\ ~FirstIsLocalhost
    BY <1>1, <1>2 DEF UrlsRead, HostsRead, FirstIsLocalhost
  <2> QED
    BY <2>1, <2>2, <2>3, <2>4 DEF Serves, Localhost
<1>3. CASE env.listed = 0
  <2>1. S \subseteq 0..Slots /\ S \subseteq Nat /\ 0 \in S
    BY SizeAssumption DEF AmqpSuffixes
  <2>2. \A i \in 1..Slots : i # 1 /\ i \in env.urls \cup env.hosts => i \in S
    BY SizeAssumption DEF AmqpSuffixes
  <2>0. 1 \notin S
    BY DEF AmqpSuffixes
  <2> HIDE DEF S
  <2>3. count \in Nat
    BY <2>1, NthCounts
  <2>4. \A k \in 1..count : Nth(S, k) \in S
    BY <2>1, NthCounts
  <2>5. \A k, l \in 1..count : Nth(S, k) = Nth(S, l) => k = l
    BY <2>1, NthCounts
  <2>6. \A n \in S : \E k \in 1..count : Nth(S, k) = n
    BY <2>1, NthCounts
  <2> HIDE DEF count
  <2>7. AmqpServers = [k \in 1..count |-> AmqpServer(Nth(S, k))]
    BY <1>3 DEF AmqpServers, count, S
  <2>8. DOMAIN AmqpServers = 1..count /\ \A k \in 1..count : AmqpServers[k] = AmqpServer(Nth(S, k))
    BY <2>7
  <2>9. ASSUME NEW i \in S
        PROVE  /\ AmqpServer(i) \in Kinds \X Nat
               /\ AmqpServer(i) \in {<<"url", i>>, <<"host", i>>, <<"host", 0>>, Localhost}
               /\ i \in env.urls => AmqpServer(i) = <<"url", i>>
               /\ i \in env.hosts \ env.urls => AmqpServer(i) = <<"host", i>>
               /\ AmqpServer(i) = <<"url", i>> => i \in env.urls
               /\ AmqpServer(i) = <<"host", i>> => i \in env.hosts \ env.urls
               /\ AmqpServer(i) = Localhost => 0 \notin env.urls /\ 0 \notin env.hosts
    <3>1. i \in Nat
      BY <2>1
    <3>2. CASE i \in env.urls
      BY <3>1, <3>2 DEF AmqpServer, Kinds, Localhost
    <3>3. CASE i \notin env.urls /\ i \in env.hosts
      BY <3>1, <3>3 DEF AmqpServer, Kinds, Localhost
    <3>4. CASE i \notin env.urls /\ i \notin env.hosts
      <4>1. AmqpServer(i) = Host
        BY <3>4 DEF AmqpServer
      <4>2. i = 0 \/ 0 \in env.hosts
        BY <3>4 DEF S, AmqpSuffixes
      <4> QED
        BY <3>4, <4>1, <4>2, HostIs DEF Localhost
    <3> QED
      BY <3>2, <3>3, <3>4
  <2>10. ASSUME NEW i \in S, NEW j \in S, i # j, AmqpServer(i) = AmqpServer(j)
         PROVE  AmqpServer(i) = <<"host", 0>>
    <3>1. i \in Nat /\ j \in Nat
      BY <2>1
    <3>2. i \in env.urls => AmqpServer(i) = <<"url", i>>
      BY <2>9
    <3>3. j \in env.urls => AmqpServer(j) = <<"url", j>>
      BY <2>9
    <3>4. i \in env.hosts /\ i \notin env.urls => AmqpServer(i) = <<"host", i>>
      BY DEF AmqpServer
    <3>5. j \in env.hosts /\ j \notin env.urls => AmqpServer(j) = <<"host", j>>
      BY DEF AmqpServer
    <3>6. i \notin env.hosts /\ i \notin env.urls => AmqpServer(i) = Host /\ (i = 0 \/ 0 \in env.hosts)
      BY DEF AmqpServer, S, AmqpSuffixes
    <3>7. j \notin env.hosts /\ j \notin env.urls => AmqpServer(j) = Host /\ (j = 0 \/ 0 \in env.hosts)
      BY DEF AmqpServer, S, AmqpSuffixes
    <3>8. 0 \in env.hosts => Host = <<"host", 0>>
      BY HostIs
    <3>9. 0 \notin env.hosts => Host = <<"localhost", 0>>
      BY HostIs
    <3> QED
      BY <2>10, <3>2, <3>3, <3>4, <3>5, <3>6, <3>7, <3>8, <3>9
  <2>11. AmqpServers \in Seq(Kinds \X Nat)
    <3>1. \A k \in 1..count : AmqpServer(Nth(S, k)) \in Kinds \X Nat
      BY <2>4, <2>9
    <3> QED
      BY <2>3, <2>7, <3>1
  <2>12. ASSUME NEW s
         PROVE  s \in Members(AmqpServers) <=> \E i \in S : AmqpServer(i) = s
    BY <2>4, <2>6, <2>8 DEF Members
  <2>13. /\ UrlsRead = env.urls \ {0, 1}
         /\ HostsRead = env.hosts \ (env.urls \cup {0, 1})
         /\ FirstIsLocalhost <=> 0 \notin env.urls /\ 0 \notin env.hosts
    BY <1>3 DEF UrlsRead, HostsRead, FirstIsLocalhost
  <2>16. ASSUME NEW i \in 1..Slots
         PROVE  /\ <<"url", i>> \in Members(AmqpServers) <=> i \in UrlsRead
                /\ <<"host", i>> \in Members(AmqpServers) <=> i \in HostsRead
    <3>1. i # 0
      BY SlotNumbers
    <3>2. \A k \in S : AmqpServer(k) = <<"url", i>> => k = i /\ i \in env.urls
      BY <2>9, <3>1 DEF Localhost
    <3>3. \A k \in S : AmqpServer(k) = <<"host", i>> => k = i /\ i \in env.hosts \ env.urls
      BY <2>9, <3>1 DEF Localhost
    <3>4. i \in UrlsRead => i \in S /\ AmqpServer(i) = <<"url", i>>
      BY <2>2, <2>9, <2>13
    <3>5. i \in HostsRead => i \in S /\ AmqpServer(i) = <<"host", i>>
      BY <2>2, <2>9, <2>13
    <3>6. <<"url", i>> \in Members(AmqpServers) <=> i \in UrlsRead
      BY <2>0, <2>12, <2>13, <3>1, <3>2, <3>4
    <3>7. <<"host", i>> \in Members(AmqpServers) <=> i \in HostsRead
      BY <2>0, <2>12, <2>13, <3>1, <3>3, <3>5
    <3> QED
      BY <3>6, <3>7
  <2>17. Localhost \in Members(AmqpServers) <=> FirstIsLocalhost
    <3>1. 0 \notin env.urls /\ 0 \notin env.hosts => AmqpServer(0) = Localhost
      BY HostIs DEF AmqpServer, Localhost
    <3> QED
      BY <2>1, <2>9, <2>12, <2>13, <3>1
  <2>14. RepeatsOnly(AmqpServers, D)
    BY <2>4, <2>5, <2>8, <2>10 DEF RepeatsOnly
  <2>15. AmqpServers # <<>>
    <3>1. PICK k \in 1..count : Nth(S, k) = 0
      BY <2>1, <2>6
    <3>2. k \in DOMAIN AmqpServers /\ DOMAIN <<>> = {}
      BY <2>8
    <3> QED
      BY <3>2
  <2>18. 1..env.listed = {}
    BY <1>3
  <2> QED
    BY <2>11, <2>14, <2>15, <2>16, <2>17, <2>18 DEF Serves
<1> QED
  BY <1>1, <1>2, <1>3

-----------------------------------------------------------------------------
\* The setters and the defaults keep numbers what they are.
LEMMA SetType ==
    ASSUME NEW values, values \subseteq Nat, NEW value \in Given(values), NEW default
    PROVE  /\ Set(value, Positive, default) \in values \cup {default}
           /\ Set(value, Nat, default) \in values \cup {default}
           /\ Set(value, Int, default) \in values \cup {-1, default}
           /\ value # Unset /\ value > 0 =>
                /\ Set(value, Positive, default) = value
                /\ Set(value, Nat, default) = value
                /\ Set(value, Int, default) = value
  BY ValueAssumption DEF Set, Given, Positive

\* What a setting holds was set or is a default.
LEMMA SettingsType ==
    ASSUME env \in Environments, package \in Packages
    PROVE  /\ Settings.pool \in Sizes /\ Settings.idle \in Sizes /\ Settings.retries \in Sizes
           /\ Settings.interval \in Delays /\ Settings.base \in Delays /\ Settings.max \in Delays
<1>1. Counts \subseteq Nat /\ Durations \subseteq Nat
  BY ValueAssumption
<1>2. /\ env.pool \in Given(Counts) /\ env.idle \in Given(Counts)
      /\ env.retries \in Given(Counts)
      /\ env.interval \in Given(Durations) /\ env.base \in Given(Durations)
      /\ env.max \in Given(Durations)
  BY EnvironmentType
<1>3. CASE package = "pg"
  <2>1. Settings = PgSettings
    BY <1>3 DEF Settings
  <2>2. /\ Set(env.pool, Positive, 25) \in Counts \cup {25}
        /\ Set(env.idle, Positive, 10) \in Counts \cup {10}
        /\ Set(env.retries, Positive, 3) \in Counts \cup {3}
        /\ Set(env.interval, Int, 30 * Second) \in Durations \cup {-1, 30 * Second}
        /\ Set(env.base, Int, Second) \in Durations \cup {-1, Second}
        /\ Set(env.max, Int, 30 * Second) \in Durations \cup {-1, 30 * Second}
    BY <1>1, <1>2, SetType, ZenonT(30)
  <2> QED
    BY <2>1, <2>2 DEF PgSettings, Sizes, Delays
<1>4. CASE package = "redis"
  <2>1. Settings = RedisSettings
    BY <1>4 DEF Settings
  <2>2. /\ Set(env.pool, Positive, 100) \in Counts \cup {100}
        /\ Set(env.idle, Nat, 10) \in Counts \cup {10}
        /\ Set(env.retries, Nat, 3) \in Counts \cup {3}
        /\ Set(env.interval, Int, 30 * Second) \in Durations \cup {-1, 30 * Second}
        /\ Set(env.base, Int, Second) \in Durations \cup {-1, Second}
        /\ Set(env.max, Int, 30 * Second) \in Durations \cup {-1, 30 * Second}
    BY <1>1, <1>2, SetType, ZenonT(30)
  <2> QED
    BY <2>1, <2>2 DEF RedisSettings, Sizes, Delays
<1>5. CASE package = "amqp"
  BY <1>5 DEF Settings, AmqpSettings, Sizes, Delays
<1> QED
  BY <1>3, <1>4, <1>5, PackageAssumption

\* Whatever the package, the servers are a list.
LEMMA ServersType ==
    ASSUME env \in Environments, package \in Packages
    PROVE  Servers \in Seq(Kinds \X Nat)
  BY PackageAssumption, PgServersAre, RedisServersAre, AmqpServersAre DEF Servers, Serves

\* What LoadConfigFromEnv loads is a configuration.
LEMMA LoadedType ==
    ASSUME env \in Environments, package \in Packages
    PROVE  Loaded \in Configurations
<1>1. env.name \in BOOLEAN /\ env.password \in BOOLEAN
  BY EnvironmentType
<1>2. Password \in BOOLEAN
  BY <1>1 DEF Password
<1>3. Servers \in Seq({"list", "url", "host", "localhost"} \X Nat)
  BY ServersType DEF Kinds
<1> QED
  BY <1>1, <1>2, <1>3, SettingsType DEF Loaded, Configurations

\* A size is a natural number, a delay an integer.
LEMMA NumbersType ==
    /\ Sizes \subseteq Nat
    /\ Delays \subseteq Int
  BY SizeAssumption, ValueAssumption DEF Sizes, Delays

\* calculateBackoff returns a number.
LEMMA BackoffType ==
    ASSUME config \in Configurations, NEW n \in Nat
    PROVE  Backoff(n) \in Int
<1>1. config.base \in Int /\ config.max \in Int
  BY NumbersType DEF Configurations
<1>2. Wrap(2^n) \in Int
  <2>1. 2^n \in Int
    BY PowerPositive
  <2> QED
    BY <2>1, WrapIsExact, DurationBounds
<1>3. (IF n < Width THEN Wrap(2^n) ELSE 0) * config.base \in Int
  BY <1>1, <1>2
<1>4. Wrap((IF n < Width THEN Wrap(2^n) ELSE 0) * config.base) \in Int
  BY <1>3, WrapIsExact, DurationBounds
<1> QED
  BY <1>1, <1>4 DEF Backoff

\* So does a division by four.
LEMMA QuarterType ==
    ASSUME NEW d \in Int
    PROVE  Quarter(d) \in Int
  BY DEF Quarter

-----------------------------------------------------------------------------
\* The environment stays; what it is loaded into is settled with the first phase.
LoadedInv ==
    /\ phase = "load" => attempt = 0 /\ \A t \in Tasks : tasks[t] = "off"
    /\ phase = "refused" => attempt = 0 /\ \A t \in Tasks : tasks[t] = "off"
    /\ phase # "load" => config = Loaded
    /\ phase \notin {"load", "refused"} => Valid(config)

\* The wait is this backoff and some jitter.
Jittered(backoff) == \E jitter \in 0..(Quarter(backoff) - 1) : wait = Wrap(backoff + jitter)

\* A wait is that of the last attempt, and a panic its jitter's.
AttemptInv ==
    attempt > 0 =>
        /\ phase = "panicked" => Quarter(Backoff(attempt - 1)) <= 0
        /\ phase # "panicked" /\ attempt < Attempts => Jittered(Backoff(attempt - 1))

\* A task that panicked has no interval to tick in.
TaskInv == \A t \in Tasks : tasks[t] = "panicked" => Interval(t) <= 0

StartInv == StartTypeOK /\ LoadedInv /\ AttemptInv /\ TaskInv

-----------------------------------------------------------------------------
\* The same environment is loaded into the same configuration.
LEMMA LoadedStays ==
    ASSUME UNCHANGED <<package, env>>
    PROVE  Loaded' = Loaded /\ \A c : Valid(c)' <=> Valid(c)
<1>1. Listed' = Listed
  BY DEF Listed
<1>2. Numbered' = Numbered
  BY DEF Numbered
<1>3. Host' = Host
  BY DEF Host
<1>4. PgHosts' = PgHosts
  BY DEF PgHosts
<1>5. PgServers' = PgServers
  BY <1>1, <1>2, <1>3, <1>4 DEF PgServers
<1>6. RedisServers' = RedisServers
  BY <1>1, <1>2, <1>3 DEF RedisServers
<1>7. AmqpSuffixes' = AmqpSuffixes
  BY DEF AmqpSuffixes
<1>8. \A i : AmqpServer(i)' = AmqpServer(i)
  BY <1>3 DEF AmqpServer
<1>9. AmqpServers' = AmqpServers
  BY <1>1, <1>7, <1>8 DEF AmqpServers
<1>10. Servers' = Servers
  BY <1>5, <1>6, <1>9 DEF Servers
<1>11. Settings' = Settings
  BY DEF Settings, PgSettings, RedisSettings, AmqpSettings
<1>12. Password' = Password
  BY DEF Password
<1>13. Loaded' = Loaded
  BY <1>10, <1>11, <1>12 DEF Loaded
<1>14. \A c : Valid(c)' <=> Valid(c)
  BY DEF Valid
<1> QED
  BY <1>13, <1>14

\* Attempts are judged by the configuration and by the last wait alone.
LEMMA AttemptStays ==
    ASSUME AttemptInv, UNCHANGED <<package, config, attempt, wait>>,
           phase' = "panicked" <=> phase = "panicked"
    PROVE  AttemptInv'
  BY DEF AttemptInv, Jittered, Backoff, Attempts

\* A task's panic is judged by the configuration alone.
LEMMA TasksStay ==
    ASSUME TaskInv, UNCHANGED <<config, tasks>>
    PROVE  TaskInv'
  BY DEF TaskInv, Interval

\* Nothing is loaded, attempted or started at first.
LEMMA StartInitially == StartInit => StartInv
<1> SUFFICES ASSUME StartInit
             PROVE  StartInv
  OBVIOUS
<1>1. Unloaded \in Configurations
  <2>1. <<>> \in Seq({"list", "url", "host", "localhost"} \X Nat)
    OBVIOUS
  <2> QED
    BY <2>1 DEF Unloaded, Configurations, Sizes, Delays
<1>2. 0 \in -(MaxDuration + 1)..MaxDuration
  BY DurationBounds
<1>3. StartTypeOK
  BY <1>1, <1>2 DEF StartInit, StartTypeOK
<1>4. LoadedInv /\ TaskInv
  BY DEF StartInit, LoadedInv, TaskInv
<1>5. AttemptInv
  BY DEF StartInit, AttemptInv
<1> QED
  BY <1>3, <1>4, <1>5 DEF StartInv

\* Loading settles the configuration; a refused one starts nothing.
LEMMA LoadStep == StartInv /\ LoadConfigFromEnv => StartInv'
<1> SUFFICES ASSUME StartInv, LoadConfigFromEnv
             PROVE  StartInv'
  OBVIOUS
<1>1. StartTypeOK'
  <2>1. Loaded \in Configurations
    BY LoadedType DEF StartInv, StartTypeOK
  <2> QED
    BY <2>1 DEF StartInv, StartTypeOK, LoadConfigFromEnv
<1>2. LoadedInv'
  <2>1. Loaded' = Loaded /\ (Valid(Loaded)' <=> Valid(Loaded))
    BY LoadedStays DEF LoadConfigFromEnv
  <2>2. Valid(config)' <=> Valid(Loaded)
    BY <2>1 DEF LoadConfigFromEnv, Valid
  <2> QED
    BY <2>1, <2>2 DEF StartInv, LoadedInv, LoadConfigFromEnv
<1>3. AttemptInv' /\ TaskInv'
  BY DEF StartInv, LoadedInv, AttemptInv, TaskInv, LoadConfigFromEnv
<1> QED
  BY <1>1, <1>2, <1>3 DEF StartInv

\* Once loaded, a configuration is kept in every later phase.
LEMMA LoadedKeeps ==
    ASSUME LoadedInv, UNCHANGED <<package, env, config>>,
           phase \notin {"load", "refused"}, phase' \notin {"load", "refused"}
    PROVE  LoadedInv'
<1>1. config = Loaded /\ Valid(config)
  BY DEF LoadedInv
<1>2. Loaded' = Loaded
  BY LoadedStays
<1>3. Valid(config)' <=> Valid(config)
  BY DEF Valid
<1> QED
  BY <1>1, <1>2, <1>3 DEF LoadedInv

\* A failed attempt panics in Int63n or waits for the backoff and its jitter.
LEMMA AttemptFailsStep == StartInv /\ AttemptFails => StartInv'
<1> SUFFICES ASSUME StartInv, AttemptFails
             PROVE  StartInv'
  OBVIOUS
<1> DEFINE backoff == Backoff(attempt)
<1>1. attempt \in Nat /\ config \in Configurations
  BY DEF StartInv, StartTypeOK
<1>2. backoff \in Int /\ Quarter(backoff) \in Int
  BY <1>1, BackoffType, QuarterType
<1>3. Attempts \in Int
  <2>1. config.retries \in Nat
    BY <1>1, NumbersType DEF Configurations
  <2> QED
    BY <2>1 DEF Attempts
<1>4. UNCHANGED <<package, env, config, tasks>> /\ attempt' = attempt + 1 /\ Retrying
  BY DEF AttemptFails
<1>5. \/ attempt + 1 = Attempts /\ UNCHANGED <<phase, wait>>
      \/ attempt + 1 < Attempts /\ Quarter(backoff) <= 0 /\ phase' = "panicked" /\ UNCHANGED wait
      \/ /\ attempt + 1 < Attempts /\ Quarter(backoff) > 0 /\ UNCHANGED phase
         /\ \E jitter \in 0..(Quarter(backoff) - 1) : wait' = Wrap(backoff + jitter)
  BY <1>1, <1>2, <1>3 DEF AttemptFails
<1>6. attempt' - 1 = attempt
  BY <1>1, <1>4
<1>7. Attempts' = Attempts
  BY <1>4 DEF Attempts
<1> HIDE DEF backoff
<1>8. StartTypeOK'
  <2>1. \A jitter \in Int : Wrap(backoff + jitter) \in -(MaxDuration + 1)..MaxDuration
    BY <1>2, WrapIsExact
  <2>2. wait' \in -(MaxDuration + 1)..MaxDuration
    BY <1>2, <1>5, <2>1 DEF StartInv, StartTypeOK
  <2> QED
    BY <1>4, <1>5, <2>2 DEF StartInv, StartTypeOK
<1>9. LoadedInv'
  <2>1. phase \in {"connect", "running"} /\ phase' \in {"connect", "running", "panicked"}
    BY <1>4, <1>5 DEF Retrying
  <2> QED
    BY <1>4, <2>1, LoadedKeeps DEF StartInv
<1>10. AttemptInv'
  <2>1. phase # "panicked"
    BY <1>4 DEF Retrying
  <2>2. Backoff(attempt - 1)' = backoff
    BY <1>4, <1>6 DEF Backoff, backoff
  <2>3. phase' = "panicked" => Quarter(backoff) <= 0
    BY <1>5, <2>1
  <2>4. phase' # "panicked" /\ attempt' < Attempts' => 
           \E jitter \in 0..(Quarter(backoff) - 1) : wait' = Wrap(backoff + jitter)
    BY <1>1, <1>3, <1>4, <1>5, <1>7
  <2> QED
    BY <2>2, <2>3, <2>4 DEF AttemptInv, Jittered
<1>11. TaskInv'
  BY <1>4, TasksStay DEF StartInv
<1> QED
  BY <1>8, <1>9, <1>10, <1>11 DEF StartInv

\* The tasks and the phase move; the attempts are over.
LEMMA TasksMove ==
    ASSUME StartInv, UNCHANGED <<package, env, config>>,
           phase \notin {"load", "refused"},
           phase' \in {"connect", "failed", "running", "panicked", "stopping", "stopped"},
           tasks' \in [Tasks -> {"off", "starting", "running", "parked", "panicked", "ended"}],
           \A t \in Tasks : tasks'[t] = "panicked" => tasks[t] = "panicked" \/ Interval(t) <= 0,
           \/ UNCHANGED <<attempt, wait>> /\ (phase' = "panicked" <=> phase = "panicked")
           \/ attempt' = 0 /\ wait' \in {0, wait}
    PROVE  StartInv'
<1>1. StartTypeOK'
  <2>1. 0 \in -(MaxDuration + 1)..MaxDuration
    BY DurationBounds
  <2> QED
    BY <2>1 DEF StartInv, StartTypeOK
<1>2. LoadedInv'
  BY LoadedKeeps DEF StartInv
<1>3. AttemptInv'
  <2>1. CASE UNCHANGED <<attempt, wait>> /\ (phase' = "panicked" <=> phase = "panicked")
    BY <2>1, AttemptStays DEF StartInv
  <2>2. CASE attempt' = 0
    BY <2>2 DEF AttemptInv
  <2> QED
    BY <2>1, <2>2
<1>4. TaskInv'
  BY DEF StartInv, TaskInv, Interval
<1> QED
  BY <1>1, <1>2, <1>3, <1>4 DEF StartInv

\* Every step of the start, of the tasks and of Shutdown keeps the invariant.
LEMMA StartStep == StartInv /\ [StartNext]_startVars => StartInv'
<1> SUFFICES ASSUME StartInv, [StartNext]_startVars
             PROVE  StartInv'
  OBVIOUS
<1> USE DEF StartInv, StartTypeOK
<1>1. CASE LoadConfigFromEnv
  BY <1>1, LoadStep
<1>2. CASE AttemptFails
  BY <1>2, AttemptFailsStep
<1>3. CASE AttemptsEnd
  BY <1>3, TasksMove DEF AttemptsEnd, Retrying
<1>4. CASE NoServerAnswers
  BY <1>4, TasksMove DEF NoServerAnswers
<1>5. CASE SomeServerAnswers
  <2>1. \A t \in Tasks : tasks'[t] \in {tasks[t], "starting", "off"}
    BY <1>5 DEF SomeServerAnswers, Tasks
  <2>2. tasks' \in [Tasks -> {"off", "starting", "running", "parked", "panicked", "ended"}]
    BY <1>5 DEF SomeServerAnswers, Tasks
  <2> QED
    BY <1>5, <2>1, <2>2, TasksMove DEF SomeServerAnswers
<1>6. CASE StartEventSubscriber
  <2>1. \A t \in Tasks : tasks'[t] \in {tasks[t], "starting"}
    BY <1>6 DEF StartEventSubscriber
  <2> QED
    BY <1>6, <2>1, TasksMove DEF StartEventSubscriber
<1>7. CASE SubscriberFails
  <2>1. phase \notin {"load", "refused"}
    BY <1>7 DEF SubscriberFails, LoadedInv, Tasks
  <2>2. \A t \in Tasks : tasks'[t] \in {tasks[t], "parked"}
    BY <1>7 DEF SubscriberFails
  <2> QED
    BY <1>7, <2>1, <2>2, TasksMove DEF SubscriberFails
<1>8. ASSUME NEW t \in Tasks, StartTask(t)
      PROVE  StartInv'
  <2>1. phase \notin {"load", "refused"}
    BY <1>8 DEF StartTask, LoadedInv
  <2>2. Interval(t) \in Int
    <3>1. config.interval \in Int
      BY NumbersType DEF Configurations
    <3>2. Wrap(3 * config.interval) \in Int
      BY <3>1, WrapIsExact, DurationBounds
    <3> QED
      BY <3>1, <3>2, SizeAssumption DEF Interval, Tasks
  <2>3. tasks' = [tasks EXCEPT ![t] = IF Interval(t) > 0 THEN "running" ELSE "panicked"]
    BY <1>8 DEF StartTask
  <2>4. \A u \in Tasks : tasks'[u] = "panicked" => tasks[u] = "panicked" \/ Interval(u) <= 0
    BY <2>2, <2>3
  <2>5. UNCHANGED <<package, env, config, phase, attempt, wait>>
    BY <1>8 DEF StartTask
  <2>6. tasks' \in [Tasks -> {"off", "starting", "running", "parked", "panicked", "ended"}]
    BY <2>3
  <2> QED
    BY <2>1, <2>4, <2>5, <2>6, TasksMove
<1>9. ASSUME NEW t \in Tasks, EndTask(t)
      PROVE  StartInv'
  <2>1. \A u \in Tasks : tasks'[u] \in {tasks[u], "ended"}
    BY <1>9 DEF EndTask
  <2> QED
    BY <1>9, <2>1, TasksMove DEF EndTask
<1>10. CASE Shutdown
  BY <1>10, TasksMove DEF Shutdown
<1>11. CASE Stop
  BY <1>11, TasksMove DEF Stop
<1>12. CASE UNCHANGED startVars
  <2>1. LoadedInv'
    <3>1. Loaded' = Loaded
      BY <1>12, LoadedStays DEF startVars
    <3>2. Valid(config)' <=> Valid(config)
      BY <1>12 DEF Valid, startVars
    <3> QED
      BY <1>12, <3>1, <3>2 DEF LoadedInv, startVars
  <2>2. AttemptInv' /\ TaskInv'
    BY <1>12, AttemptStays, TasksStay DEF startVars
  <2> QED
    BY <1>12, <2>1, <2>2 DEF startVars
<1> QED
  BY <1>1, <1>2, <1>3, <1>4, <1>5, <1>6, <1>7, <1>8, <1>9, <1>10, <1>11, <1>12 DEF StartNext

-----------------------------------------------------------------------------
\* A product of positive factors is no smaller than either.
LEMMA FactorsBelow ==
    ASSUME NEW a \in Nat \ {0}, NEW b \in Nat \ {0}
    PROVE  a * b \in Nat /\ a <= a * b /\ b <= a * b
<1>1. a * (b - 1) >= 0 /\ (a - 1) * b >= 0
  OBVIOUS
<1> QED
  BY <1>1

\* What becomes of a setting: a positive number is kept, a delay of -1 too, and a default
\* takes the place of anything else.
Kept(f, given, loaded) ==
    CASE given \in Positive -> loaded = given
      [] given = -1 /\ f \in {"interval", "base", "max"} -> loaded = -1
      [] OTHER -> loaded > 0

\* The configured settings of a loaded environment.
LEMMA SettingsKept ==
    ASSUME env \in Environments, package \in {"pg", "redis"}, NEW f \in Numbers
    PROVE  Kept(f, env[f], Loaded[f])
<1>1. Counts \subseteq Nat /\ Durations \subseteq Nat
  BY ValueAssumption
<1>2. /\ env.pool \in Given(Counts) /\ env.idle \in Given(Counts)
      /\ env.retries \in Given(Counts)
      /\ env.interval \in Given(Durations) /\ env.base \in Given(Durations)
      /\ env.max \in Given(Durations)
  BY EnvironmentType
<1>3. /\ Loaded.pool = Settings.pool /\ Loaded.idle = Settings.idle
      /\ Loaded.retries = Settings.retries /\ Loaded.interval = Settings.interval
      /\ Loaded.base = Settings.base /\ Loaded.max = Settings.max
  BY DEF Loaded
<1>0. env[f] \in Positive \/ env[f] = -1 \/ env[f] = 0 \/ env[f] = Unset
  <2>1. env[f] \in Given(Counts) \/ env[f] \in Given(Durations)
    BY <1>2, Zenon DEF Numbers
  <2>2. env[f] \in Nat \/ env[f] = -1 \/ env[f] = Unset
    BY <1>1, <2>1, Zenon DEF Given
  <2>3. env[f] \in Nat => env[f] = 0 \/ env[f] \in Nat \ {0}
    BY SMT
  <2> QED
    BY <2>2, <2>3, Zenon DEF Positive
<1>7. /\ -1 \notin Positive /\ -1 \notin Nat /\ 0 \notin Positive /\ 0 # -1 /\ -1 \in Int
      /\ Unset \notin Positive /\ Unset # -1 /\ Unset # 0
      /\ \A n \in Positive : n \in Nat /\ n \in Int /\ n # 0
  <2>1. /\ -1 \notin Nat \ {0} /\ -1 \notin Nat /\ 0 # -1 /\ -1 \in Int
        /\ \A n \in Nat \ {0} : n \in Nat /\ n \in Int /\ n # 0
    BY SMT
  <2>2. Unset # -1 /\ Unset # 0
    BY ValueAssumption, SMT
  <2>3. Unset \notin Nat \ {0}
    BY ValueAssumption, SMT
  <2> QED
    BY <2>1, <2>2, <2>3, Zenon DEF Positive
<1>4. \A default : default > 0 =>
        /\ f \notin {"interval", "base", "max"} => Kept(f, env[f], Set(env[f], Positive, default))
        /\ f \notin {"interval", "base", "max"} => Kept(f, env[f], Set(env[f], Nat, default))
  <2>1. CASE env[f] \in Positive
    BY <1>7, <2>1, Zenon DEF Kept, Set
  <2>2. CASE env[f] = -1
    BY <1>7, <2>2, Zenon DEF Kept, Set
  <2>3. CASE env[f] = 0
    BY <1>7, <2>3, Zenon DEF Kept, Set
  <2>4. CASE env[f] = Unset
    BY <1>7, <2>4, Zenon DEF Kept, Set
  <2> QED
    BY <1>0, <2>1, <2>2, <2>3, <2>4, Zenon
<1>5. \A default : default > 0 =>
        (f \in {"interval", "base", "max"} => Kept(f, env[f], Set(env[f], Int, default)))
  <2>1. CASE env[f] \in Positive
    BY <1>7, <2>1, Zenon DEF Kept, Set
  <2>2. CASE env[f] = -1
    BY <1>7, <2>2, Zenon DEF Kept, Set
  <2>3. CASE env[f] = 0
    BY <1>7, <2>3, Zenon DEF Kept, Set
  <2>4. CASE env[f] = Unset
    BY <1>7, <2>4, Zenon DEF Kept, Set
  <2> QED
    BY <1>0, <2>1, <2>2, <2>3, <2>4, Zenon
<1>6. 25 > 0 /\ 100 > 0 /\ 10 > 0 /\ 3 > 0 /\ Second > 0 /\ 30 * Second > 0
  BY SizeAssumption, SMT
<1>8. CASE package = "pg"
  <2>1. Settings = PgSettings
    BY <1>8 DEF Settings
  <2>2. /\ Settings.pool = Set(env.pool, Positive, 25)
        /\ Settings.idle = Set(env.idle, Positive, 10)
        /\ Settings.retries = Set(env.retries, Positive, 3)
        /\ Settings.interval = Set(env.interval, Int, 30 * Second)
        /\ Settings.base = Set(env.base, Int, Second)
        /\ Settings.max = Set(env.max, Int, 30 * Second)
    BY <2>1 DEF PgSettings
  <2>3. CASE f = "pool"
    BY <1>3, <1>4, <1>6, <2>2, <2>3, Zenon
  <2>4. CASE f = "idle"
    BY <1>3, <1>4, <1>6, <2>2, <2>4, Zenon
  <2>5. CASE f = "retries"
    BY <1>3, <1>4, <1>6, <2>2, <2>5, Zenon
  <2>6. CASE f = "interval"
    BY <1>3, <1>5, <1>6, <2>2, <2>6, Zenon
  <2>7. CASE f = "base"
    BY <1>3, <1>5, <1>6, <2>2, <2>7, Zenon
  <2>8. CASE f = "max"
    BY <1>3, <1>5, <1>6, <2>2, <2>8, Zenon
  <2> QED
    BY <2>3, <2>4, <2>5, <2>6, <2>7, <2>8 DEF Numbers
<1>9. CASE package = "redis"
  <2>1. Settings = RedisSettings
    BY <1>9 DEF Settings
  <2>2. /\ Settings.pool = Set(env.pool, Positive, 100)
        /\ Settings.idle = Set(env.idle, Nat, 10)
        /\ Settings.retries = Set(env.retries, Nat, 3)
        /\ Settings.interval = Set(env.interval, Int, 30 * Second)
        /\ Settings.base = Set(env.base, Int, Second)
        /\ Settings.max = Set(env.max, Int, 30 * Second)
    BY <2>1 DEF RedisSettings
  <2>3. CASE f = "pool"
    BY <1>3, <1>4, <1>6, <2>2, <2>3, Zenon
  <2>4. CASE f = "idle"
    BY <1>3, <1>4, <1>6, <2>2, <2>4, Zenon
  <2>5. CASE f = "retries"
    BY <1>3, <1>4, <1>6, <2>2, <2>5, Zenon
  <2>6. CASE f = "interval"
    BY <1>3, <1>5, <1>6, <2>2, <2>6, Zenon
  <2>7. CASE f = "base"
    BY <1>3, <1>5, <1>6, <2>2, <2>7, Zenon
  <2>8. CASE f = "max"
    BY <1>3, <1>5, <1>6, <2>2, <2>8, Zenon
  <2> QED
    BY <2>3, <2>4, <2>5, <2>6, <2>7, <2>8 DEF Numbers
<1> QED
  BY <1>8, <1>9

\* What was loaded has every server the environment names, each once, and its numbers.
LEMMA StartRunsAsConfigured == StartInv => RunsAsConfigured
<1> SUFFICES ASSUME StartInv, phase \notin {"load", "refused"}
             PROVE  RunsAsConfigured
  BY DEF RunsAsConfigured
<1>1. package \in {"pg", "redis", "amqp"} /\ env \in Environments /\ config \in Configurations
  BY PackageAssumption DEF StartInv, StartTypeOK
<1>2. config = Loaded /\ Valid(config)
  BY DEF StartInv, LoadedInv
<1>3. config.servers = Servers /\ config.password = Password
  BY <1>2 DEF Loaded
<1> DEFINE repeated == IF package = "redis" THEN {} ELSE {<<"host", 0>>}
<1>4. Serves(Servers, repeated) /\ Servers # <<>>
  <2>1. CASE package = "pg"
    <3>1. Servers = PgServers /\ repeated = {<<"host", 0>>}
      BY <2>1 DEF Servers
    <3> HIDE DEF repeated
    <3> QED
      BY <1>1, <1>2, <1>3, <2>1, <3>1, PgServersAre DEF Valid
  <2>2. CASE package = "redis"
    <3>1. Servers = RedisServers /\ repeated = {}
      BY <2>2 DEF Servers
    <3> HIDE DEF repeated
    <3> QED
      BY <1>1, <1>2, <1>3, <2>2, <3>1, RedisServersAre DEF Valid
  <2>3. CASE package = "amqp"
    <3>1. Servers = AmqpServers /\ repeated = {<<"host", 0>>}
      BY <2>3 DEF Servers
    <3> HIDE DEF repeated
    <3> QED
      BY <1>1, <2>3, <3>1, AmqpServersAre
  <2> QED
    BY <1>1, <2>1, <2>2, <2>3
<1>5. \A s : Used(s) <=> s \in Members(Servers)
  BY <1>3 DEF Members, Used, Occurrences
<1> HIDE DEF repeated
<1>6. /\ \A i \in 1..env.listed : Used(<<"list", i>>)
      /\ \A i \in 1..Slots :
           /\ Used(<<"url", i>>) <=> i \in UrlsRead
           /\ Used(<<"host", i>>) <=> i \in HostsRead
      /\ Used(Localhost) <=> FirstIsLocalhost
  BY <1>4, <1>5, Zenon DEF Serves
<1>7. \A i, j \in DOMAIN config.servers :
        i # j /\ config.servers[i] = config.servers[j] =>
          package # "redis" /\ config.servers[i] = <<"host", 0>>
  <2>1. \A i, j \in DOMAIN config.servers :
          i # j /\ config.servers[i] = config.servers[j] => config.servers[i] \in repeated
    BY <1>3, <1>4 DEF Serves, RepeatsOnly
  <2> QED
    BY <2>1 DEF repeated
<1>8. package # "amqp" =>
        /\ config.idle <= config.pool
        /\ \A f \in Numbers : Kept(f, env[f], config[f])
  <2>1. package # "amqp" => config.idle <= config.pool
    <3>1. config.pool \in Int
      <4>1. config.pool \in Sizes
        BY <1>1 DEF Configurations
      <4>2. config.pool \in Nat
        BY <4>1, NumbersType, Zenon
      <4> QED
        BY <4>2
    <3>2. package # "amqp" => (config.idle \in 0..config.pool)
      <4> SUFFICES ASSUME package # "amqp"
                   PROVE  config.idle \in 0..config.pool
        OBVIOUS
      <4>1. Valid(config)
        BY <1>2
      <4> QED
        BY <4>1, Zenon DEF Valid
    <3> QED
      BY <3>1, <3>2
  <2> QED
    BY <1>1, <1>2, <2>1, SettingsKept
<1>9. package = "amqp" => config.interval = 30 * Second /\ config.retries = 3
  <2>1. config.interval = Settings.interval /\ config.retries = Settings.retries
    BY <1>2 DEF Loaded
  <2> QED
    BY <2>1 DEF Settings, AmqpSettings
<1>10. config.password = (package = "redis" /\ env.password /\ env.listed = 0)
  BY <1>3 DEF Password
<1>11. config.servers # <<>>
  BY <1>3, <1>4
<1>12. package # "amqp" =>
         \A f \in Numbers :
           CASE env[f] \in Positive -> config[f] = env[f]
             [] env[f] = -1 /\ f \in {"interval", "base", "max"} -> config[f] = -1
             [] OTHER -> config[f] > 0
  BY <1>8 DEF Kept
<1> QED
  BY <1>6, <1>7, <1>8, <1>9, <1>10, <1>11, <1>12, Zenon DEF RunsAsConfigured, Numbers

\* Shifts and products within range are exact, so backoff and jitter are what is due.
LEMMA StartWaitsBounded == StartInv => WaitsBounded
<1> SUFFICES ASSUME StartInv
             PROVE  WaitsBounded
  OBVIOUS
<1> DEFINE exact == config.base * 2^(attempt - 1)
           due == Lesser(exact, config.max)
<1>1. /\ config.base \in Int /\ config.max \in Int /\ config.interval \in Int
      /\ config \in Configurations /\ attempt \in Nat /\ MaxDuration \in Nat
  BY NumbersType, DurationBounds DEF StartInv, StartTypeOK, Configurations
<1>2. ASSUME attempt > 0, exact <= MaxDuration, config.base >= 4, config.max >= 4
      PROVE  /\ phase # "panicked"
             /\ attempt < Attempts /\ due + Quarter(due) <= MaxDuration =>
                  due <= wait /\ 4 * wait < 5 * due
  <2> DEFINE n == attempt - 1
             p == 2^n
  <2>1. n \in Nat
    BY <1>1, <1>2
  <2>2. p \in Nat \ {0}
    BY <2>1, PowerPositive
  <2> HIDE DEF p, n
  <2>3. exact = config.base * p
    BY DEF p, n
  <2>4. exact \in Nat /\ config.base <= exact /\ p <= exact
    <3>1. config.base \in Nat \ {0}
      BY <1>1, <1>2
    <3> QED
      BY <2>2, <2>3, <3>1, FactorsBelow
  <2> HIDE DEF exact
  <2>5. n < Width
    <3>1. Width <= n => 2^Width <= p
      BY <2>1, PowerMonotone, SizeAssumption DEF p
    <3> QED
      BY <1>1, <1>2, <2>1, <2>2, <2>4, <3>1, DurationBounds, SizeAssumption
  <2>6. Wrap(p) = p /\ Wrap(exact) = exact
    <3>1. p \in -(MaxDuration + 1)..MaxDuration /\ exact \in -(MaxDuration + 1)..MaxDuration
      BY <1>1, <1>2, <2>2, <2>4
    <3> QED
      BY <3>1, WrapIsExact
  <2>7. p * config.base = exact
    BY <1>1, <2>2, <2>3
  <2>8. Backoff(n) = IF exact > config.max THEN config.max ELSE exact
    BY <2>5, <2>6, <2>7 DEF Backoff, p
  <2>9. Backoff(n) = due /\ due \in Nat /\ due >= 4
    BY <1>1, <1>2, <2>4, <2>8 DEF Lesser
  <2> HIDE DEF due
  <2>10. \A d \in Nat : d >= 4 => d \div 4 \in Nat /\ d \div 4 > 0 /\ 4 * (d \div 4) <= d
    OBVIOUS
  <2>11. Quarter(due) = due \div 4 /\ Quarter(due) \in Nat /\ Quarter(due) > 0
         /\ 4 * Quarter(due) <= due
    BY <2>9, <2>10 DEF Quarter
  <2>12. phase # "panicked"
    <3>1. phase = "panicked" => Quarter(Backoff(n)) <= 0
      BY <1>2 DEF StartInv, AttemptInv, n
    <3> QED
      BY <2>9, <2>11, <3>1
  <2>13. ASSUME attempt < Attempts, due + Quarter(due) <= MaxDuration
         PROVE  due <= wait /\ 4 * wait < 5 * due
    <3>1. Jittered(Backoff(n))
      BY <1>2, <2>12, <2>13 DEF StartInv, AttemptInv, n
    <3>2. PICK jitter \in 0..(Quarter(due) - 1) : wait = Wrap(due + jitter)
      BY <2>9, <3>1 DEF Jittered
    <3>3. due + jitter \in -(MaxDuration + 1)..MaxDuration /\ jitter \in Nat
      BY <1>1, <2>9, <2>11, <2>13
    <3>4. wait = due + jitter
      BY <3>2, <3>3, WrapIsExact
    <3> QED
      BY <2>9, <2>11, <3>3, <3>4
  <2> QED
    BY <2>12, <2>13
<1>3. ASSUME NEW t \in Tasks, tasks[t] = "panicked"
      PROVE  t = "writer" /\ 3 * config.interval > MaxDuration
  <2>1. Interval(t) <= 0
    BY <1>3 DEF StartInv, TaskInv
  <2>2. phase \notin {"load", "refused"}
    BY <1>3 DEF StartInv, LoadedInv
  <2>3. config.interval > 0
    <3>1. config = Loaded /\ Valid(config)
      BY <2>2 DEF StartInv, LoadedInv
    <3>2. CASE package = "amqp"
      <4>1. config.interval = 30 * Second
        BY <3>1, <3>2 DEF Loaded, Settings, AmqpSettings
      <4> QED
        BY <4>1, SizeAssumption
    <3>3. CASE package # "amqp"
      BY <3>1, <3>3 DEF Valid
    <3> QED
      BY <3>2, <3>3
  <2>4. t # "health" /\ t # "subscriber"
    BY <1>1, <2>1, <2>3, SizeAssumption DEF Interval
  <2>5. t = "writer" /\ Wrap(3 * config.interval) <= 0
    BY <2>1, <2>4 DEF Interval, Tasks
  <2>6. 3 * config.interval \in Int /\ 3 * config.interval > 0
    BY <1>1, <2>3
  <2>7. 3 * config.interval > MaxDuration
    <3>1. 3 * config.interval <= MaxDuration => Wrap(3 * config.interval) = 3 * config.interval
      <4>1. 3 * config.interval <= MaxDuration =>
              3 * config.interval \in -(MaxDuration + 1)..MaxDuration
        BY <1>1, <2>6
      <4> QED
        BY <2>6, <4>1, WrapIsExact
    <3> QED
      BY <1>1, <2>5, <2>6, <3>1
  <2> QED
    BY <2>5, <2>7
<1> HIDE DEF exact, due
<1> QED
  BY <1>2, <1>3 DEF WaitsBounded, exact, due

-----------------------------------------------------------------------------
\* The configuration in use is what the environment was loaded into, the last wait is
\* calculateBackoff's, and only a task without an interval has panicked.
THEOREM StartInductive == StartSpec => []StartInv
  BY StartInitially, StartStep, PTL DEF StartSpec

\* Whatever is set, loading, attempts and tasks stay within their types: a wait is a
\* time.Duration.
THEOREM StartTypeCorrect == StartSpec => []StartTypeOK
<1>1. StartInv => StartTypeOK
  BY DEF StartInv
<1> QED
  BY <1>1, StartInductive, PTL

\* An adapter runs with what the environment names, for any number of numbered
\* variables (loadConnectionURLs, loadNodes, setDefaults, Validate).
THEOREM ConfigurationApplied == StartSpec => []RunsAsConfigured
  BY StartInductive, StartRunsAsConfigured, PTL

\* Attempts wait base * 2^n up to max and a quarter more, and nothing panics, for every
\* width of time.Duration (calculateBackoff, startHealthMonitoring,
\* startWriterDetection).
THEOREM WaitsStayBounded == StartSpec => []WaitsBounded
  BY StartInductive, StartWaitsBounded, PTL

=============================================================================
