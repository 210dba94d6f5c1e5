----------------------- MODULE PgWriterDetectionProofs -----------------------
(***************************************************************************)
(* The safety of PgWriterDetection for every number of nodes, every set of   *)
(* walkers and setters and every budget.  Three invariants, each used by     *)
(* the next: TypeOK /\ FlightBounded, the goroutines in flight;              *)
(* PriorityTracksRole, inductive over the types alone; TrustInv, where the   *)
(* name of a writer can be while it is on its way to a role.                *)
(***************************************************************************)
EXTENDS PgWriterDetection, TLAPS

USE NAssumption, UrlAssumption, BoundAssumption

\* A node never has more detection goroutines than Detect starts.
FlightBounded == \A n \in Nodes : InFlight(n) <= MaxInFlight

\* Whatever can still make a writer of a node names a trusted one: an answer
\* "primary" not applied yet (to a query), the IP of a DNS walk, the target of SetWriterNode.
TrustInv ==
    /\ WriterWasTrusted
    /\ primary \in trusted /\ dns \in trusted
    /\ strategy # "probe" => \A n \in Nodes : flight[n]["primary"] > 0 => n \in trusted
    /\ \A w \in Walkers : walker[w].pc = "walk" => walker[w].ip \in trusted
    /\ \A s \in Setters : setter[s].pc = "walk" => setter[s].target \in trusted

-----------------------------------------------------------------------------
(***************************************************************************)
(* Types and the goroutines in flight.                                     *)
(***************************************************************************)
FlightTyped == flight \in [Nodes -> [Answers -> 0..MaxInFlight]] /\ FlightBounded

\* Promote, which every detection path ends in, keeps the types.
LEMMA PromoteType ==
    ASSUME TypeOK, NEW n \in Nodes, Promote(n)
    PROVE  role' \in [Nodes -> {"writer", "reader"}] /\ priority' \in [Nodes -> 0..N]
  BY DEF TypeOK, Promote, Nodes

\* So does Demote: a cluster of one node still has a priority 1 to give.
LEMMA DemoteType ==
    ASSUME TypeOK, NEW n \in Nodes, Demote(n)
    PROVE  role' \in [Nodes -> {"writer", "reader"}] /\ priority' \in [Nodes -> 0..N]
  BY DEF TypeOK, Demote, Nodes

\* One more goroutine, below the bound, keeps the counters in range (Detect).
LEMMA AskedOnce ==
    ASSUME FlightTyped, NEW n \in Nodes, Detect(n)
    PROVE  FlightTyped'
<1>1. /\ flight[n] \in [Answers -> 0..MaxInFlight]
      /\ flight' = [flight EXCEPT ![n] = [flight[n] EXCEPT !["asked"] = flight[n]["asked"] + 1]]
  BY DEF FlightTyped, Detect
<1>2. flight[n]["asked"] + 1 \in 0..MaxInFlight
  BY <1>1 DEF Detect, InFlight, Answers
<1>3. flight' \in [Nodes -> [Answers -> 0..MaxInFlight]]
  BY <1>1, <1>2 DEF FlightTyped
<1>4. FlightBounded'
  BY <1>1 DEF FlightTyped, FlightBounded, Detect, InFlight, Answers
<1>5. QED
  BY <1>3, <1>4 DEF FlightTyped

\* An answered goroutine is still one, a failed one is gone (the query returns).
LEMMA AnsweredOnce ==
    ASSUME FlightTyped, NEW n \in Nodes, Answer(n)
    PROVE  FlightTyped'
<1> DEFINE asked == [flight[n] EXCEPT !["asked"] = flight[n]["asked"] - 1]
<1>1. flight[n] \in [Answers -> 0..MaxInFlight] /\ InFlight(n) <= MaxInFlight
  BY DEF FlightTyped, FlightBounded
<1>2. asked \in [Answers -> 0..MaxInFlight]
  BY <1>1 DEF Answer, Answers
<1>3. CASE flight' = [flight EXCEPT ![n]["asked"] = @ - 1]
  <2>1. flight' = [flight EXCEPT ![n] = asked]
    BY <1>3
  <2>2. flight' \in [Nodes -> [Answers -> 0..MaxInFlight]]
    BY <1>2, <2>1 DEF FlightTyped
  <2>3. FlightBounded'
    BY <1>1, <2>1 DEF FlightTyped, FlightBounded, InFlight, Answers
  <2>4. QED
    BY <2>2, <2>3 DEF FlightTyped
<1>4. ASSUME NEW a \in {"primary", "replica"},
             flight' = [flight EXCEPT ![n]["asked"] = @ - 1, ![n][a] = @ + 1]
      PROVE  FlightTyped'
  <2> DEFINE told == [asked EXCEPT ![a] = asked[a] + 1]
  <2>1. flight' = [flight EXCEPT ![n] = told]
    BY <1>4 DEF FlightTyped
  <2>2. asked[a] + 1 \in 0..MaxInFlight
    BY <1>1 DEF Answer, InFlight, Answers
  <2>3. told \in [Answers -> 0..MaxInFlight]
    BY <1>2, <2>2
  <2>4. flight' \in [Nodes -> [Answers -> 0..MaxInFlight]]
    BY <2>1, <2>3 DEF FlightTyped
  <2>5. told["asked"] + told["primary"] + told["replica"] = InFlight(n)
    BY <1>1 DEF InFlight, Answers
  <2>6. FlightBounded'
    BY <1>1, <2>1, <2>5 DEF FlightTyped, FlightBounded, InFlight
  <2>7. QED
    BY <2>4, <2>6 DEF FlightTyped
<1>5. QED
  BY <1>3, <1>4 DEF Answer, Learns

\* An applied answer is gone.
LEMMA AppliedOnce ==
    ASSUME FlightTyped, NEW n \in Nodes, NEW a \in Answers, Apply(n, a)
    PROVE  FlightTyped'
<1>1. /\ flight[n] \in [Answers -> 0..MaxInFlight] /\ InFlight(n) <= MaxInFlight
      /\ flight' = [flight EXCEPT ![n] = [flight[n] EXCEPT ![a] = flight[n][a] - 1]]
  BY DEF FlightTyped, FlightBounded, Apply
<1>2. flight[n][a] - 1 \in 0..MaxInFlight
  BY <1>1 DEF Apply
<1>3. flight' \in [Nodes -> [Answers -> 0..MaxInFlight]]
  BY <1>1, <1>2 DEF FlightTyped
<1>4. FlightBounded'
  BY <1>1 DEF FlightTyped, FlightBounded, InFlight, Answers
<1>5. QED
  BY <1>3, <1>4 DEF FlightTyped

\* The first state of newClusterManager is of the declared types.
LEMMA TypeInit == Init => TypeOK /\ FlightBounded
<1> SUFFICES ASSUME Init PROVE TypeOK /\ FlightBounded
  OBVIOUS
<1>1. role \in [Nodes -> {"writer", "reader"}] /\ priority \in [Nodes -> 0..N]
  BY DEF Init, Nodes
<1>2. flight \in [Nodes -> [Answers -> 0..MaxInFlight]] /\ FlightBounded
  BY DEF Init, FlightBounded, InFlight, Answers
<1>3. /\ walker \in [Walkers -> [pc : {"idle", "walk"}, ip : Nodes, idx : 1..(N + 1)]]
      /\ setter \in [Setters -> [pc : {"idle", "walk"}, target : Nodes, idx : 1..(N + 1)]]
  BY DEF Init, Nodes
<1>4. used \in [failovers : 0..MaxFailovers, outages : 0..MaxOutages,
               losses : 0..MaxLosses, sets : 0..MaxSets]
  BY DEF Init
<1>5. primary \in Nodes /\ dns \in Nodes /\ trusted \subseteq Nodes
  BY DEF Init, Nodes
<1>6. conn \in [Nodes -> {"usable", "unhealthy", "nil", "stuck"}] /\ crashed \in BOOLEAN
  BY DEF Init
<1>7. QED
  BY <1>1, <1>2, <1>3, <1>4, <1>5, <1>6 DEF Init, TypeOK

WalkStates == [pc : {"idle", "walk"}, ip : Nodes, idx : 1..(N + 1)]

\* Every step keeps the types and the bound on the goroutines.
LEMMA TypeStep == TypeOK /\ FlightBounded /\ [Next]_vars => TypeOK' /\ FlightBounded'
<1> SUFFICES ASSUME TypeOK, FlightBounded, [Next]_vars PROVE TypeOK' /\ FlightBounded'
  OBVIOUS
<1> USE DEF nodeVars, envVars
<1>a. FlightTyped
  BY DEF FlightTyped, TypeOK
<1>b. flight' = flight => FlightBounded'
  BY DEF FlightBounded, InFlight
<1>c. walker \in [Walkers -> WalkStates]
  BY DEF TypeOK, WalkStates
<1>0. CASE Failover
  <2>1. used' \in [failovers : 0..MaxFailovers, outages : 0..MaxOutages,
                   losses : 0..MaxLosses, sets : 0..MaxSets]
    BY <1>0 DEF TypeOK, Failover
  <2>2. primary' \in Nodes /\ trusted' \subseteq Nodes
    BY <1>0 DEF TypeOK, Failover
  <2>3. UNCHANGED <<nodeVars, flight, walker, setter, crashed, strategy, conn, dns>>
    BY <1>0 DEF Failover
  <2>4. QED
    BY <2>1, <2>2, <2>3, <1>b DEF TypeOK
<1>1. CASE DnsUpdate
  BY <1>1, <1>b DEF TypeOK, DnsUpdate
<1>2. ASSUME NEW n \in Nodes, EnvStep(n) PROVE TypeOK' /\ FlightBounded'
  <2>1. conn' \in [Nodes -> {"usable", "unhealthy", "nil", "stuck"}]
    BY <1>2 DEF TypeOK, EnvStep, Outage, Recover, LosePool, SelfLock
  <2>2. used' \in [failovers : 0..MaxFailovers, outages : 0..MaxOutages,
                   losses : 0..MaxLosses, sets : 0..MaxSets]
    BY <1>2 DEF TypeOK, EnvStep, Outage, Recover, LosePool, SelfLock
  <2>3. UNCHANGED <<nodeVars, flight, walker, setter, crashed, strategy, primary, dns, trusted>>
    BY <1>2 DEF EnvStep, Outage, Recover, LosePool, SelfLock
  <2>4. QED
    BY <2>1, <2>2, <2>3, <1>b DEF TypeOK
<1>3. ASSUME NEW n \in Nodes, Detect(n) \/ Answer(n) PROVE TypeOK' /\ FlightBounded'
  <2>1. FlightTyped'
    BY <1>3, <1>a, AskedOnce, AnsweredOnce
  <2>2. UNCHANGED <<nodeVars, walker, setter, crashed, envVars>>
    BY <1>3 DEF Detect, Answer
  <2>3. QED
    BY <2>1, <2>2 DEF TypeOK, FlightTyped
<1>4. ASSUME NEW n \in Nodes, NilPool(n) PROVE TypeOK' /\ FlightBounded'
  BY <1>4, <1>b DEF TypeOK, NilPool
<1>5. ASSUME NEW n \in Nodes, NEW a \in Answers, Apply(n, a) PROVE TypeOK' /\ FlightBounded'
  <2>1. FlightTyped'
    BY <1>5, <1>a, AppliedOnce
  <2>2. role' \in [Nodes -> {"writer", "reader"}] /\ priority' \in [Nodes -> 0..N]
    BY <1>5, PromoteType, DemoteType DEF Apply
  <2>3. UNCHANGED <<walker, setter, crashed, envVars>>
    BY <1>5 DEF Apply
  <2>4. QED
    BY <2>1, <2>2, <2>3 DEF TypeOK, FlightTyped
<1>6. ASSUME NEW w \in Walkers, Resolve(w) \/ WalkDone(w) PROVE TypeOK' /\ FlightBounded'
  <2>1. walker' \in [Walkers -> [pc : {"idle", "walk"}, ip : Nodes, idx : 1..(N + 1)]]
    <3>1. CASE Resolve(w)
      <4>1. walker' = [walker EXCEPT ![w] = [pc |-> "walk", ip |-> dns, idx |-> 1]]
        BY <3>1 DEF Resolve
      <4>2. QED
        BY <4>1 DEF TypeOK
    <3>2. CASE WalkDone(w)
      <4>1. walker' = [walker EXCEPT ![w] = [walker[w] EXCEPT !.pc = "idle", !.idx = 1]]
        BY <3>2 DEF TypeOK, WalkDone
      <4>2. walker[w] \in WalkStates /\ 1 \in 1..(N + 1)
        BY <1>c
      <4>3. [walker[w] EXCEPT !.pc = "idle", !.idx = 1] \in WalkStates
        BY <4>2 DEF WalkStates
      <4>4. QED
        BY <1>c, <4>1, <4>3 DEF WalkStates
    <3>3. QED
      BY <1>6, <3>1, <3>2
  <2>2. QED
    BY <1>6, <2>1, <1>b DEF TypeOK, Resolve, WalkDone
<1>7. ASSUME NEW w \in Walkers, UpdateByIP(w) PROVE TypeOK' /\ FlightBounded'
  <2>1. walker[w].idx \in Nodes
    BY <1>7 DEF TypeOK, UpdateByIP, Nodes
  <2>2. walker' \in [Walkers -> [pc : {"idle", "walk"}, ip : Nodes, idx : 1..(N + 1)]]
    <3>1. walker[w].idx + 1 \in 1..(N + 1)
      BY <2>1 DEF Nodes
    <3>2. walker' = [walker EXCEPT ![w] = [walker[w] EXCEPT !.idx = walker[w].idx + 1]]
      BY <1>7 DEF UpdateByIP
    <3>3. [walker[w] EXCEPT !.idx = walker[w].idx + 1] \in WalkStates
      BY <1>c, <3>1 DEF WalkStates
    <3>4. QED
      BY <1>c, <3>2, <3>3 DEF WalkStates
  <2>3. role' \in [Nodes -> {"writer", "reader"}] /\ priority' \in [Nodes -> 0..N]
    <3>1. CASE UNCHANGED nodeVars
      BY <3>1 DEF TypeOK
    <3>2. CASE Promote(walker[w].idx) \/ Demote(walker[w].idx)
      BY <2>1, <3>2, PromoteType, DemoteType
    <3>3. QED
      BY <1>7, <3>1, <3>2 DEF UpdateByIP
  <2>4. UNCHANGED <<flight, setter, crashed, envVars>>
    BY <1>7 DEF UpdateByIP
  <2>5. QED
    BY <2>2, <2>3, <2>4, <1>b DEF TypeOK
<1>8. ASSUME NEW s \in Setters, SetCall(s) PROVE TypeOK' /\ FlightBounded'
  <2>1. setter' \in [Setters -> [pc : {"idle", "walk"}, target : Nodes, idx : 1..(N + 1)]]
    BY <1>8 DEF TypeOK, SetCall
  <2>2. trusted' \subseteq Nodes
    BY <1>8 DEF TypeOK, SetCall
  <2>3. used' \in [failovers : 0..MaxFailovers, outages : 0..MaxOutages,
                   losses : 0..MaxLosses, sets : 0..MaxSets]
    <3>1. used.sets < MaxSets /\ used' = [used EXCEPT !.sets = used.sets + 1]
      BY <1>8 DEF SetCall
    <3>2. used.sets \in 0..MaxSets /\ MaxSets \in Nat
      BY DEF TypeOK
    <3>3. used.sets + 1 \in 0..MaxSets
      BY <3>1, <3>2
    <3>4. QED
      BY <3>1, <3>3 DEF TypeOK
  <2>4. UNCHANGED <<nodeVars, flight, walker, crashed, strategy, conn, primary, dns>>
    BY <1>8 DEF SetCall
  <2>5. QED
    BY <2>1, <2>2, <2>3, <2>4, <1>b DEF TypeOK
<1>9. ASSUME NEW s \in Setters, SetNode(s) PROVE TypeOK' /\ FlightBounded'
  <2>1. setter[s].idx \in Nodes
    BY <1>9 DEF TypeOK, SetNode, Nodes
  <2>2. setter' \in [Setters -> [pc : {"idle", "walk"}, target : Nodes, idx : 1..(N + 1)]]
    <3>1. setter[s].idx + 1 \in 1..(N + 1)
      BY <2>1 DEF Nodes
    <3>2. setter' = [setter EXCEPT ![s].idx = setter[s].idx + 1]
      BY <1>9 DEF SetNode
    <3>3. QED
      BY <3>1, <3>2 DEF TypeOK
  <2>3. role' \in [Nodes -> {"writer", "reader"}] /\ priority' \in [Nodes -> 0..N]
    <3>1. CASE setter[s].idx = setter[s].target
      <4>1. /\ role' = [role EXCEPT ![setter[s].idx] = "writer"]
            /\ priority' = [priority EXCEPT ![setter[s].idx] = 0]
        BY <1>9, <3>1 DEF SetNode
      <4>2. QED
        BY <2>1, <4>1 DEF TypeOK
    <3>2. CASE setter[s].idx # setter[s].target
      BY <1>9, <2>1, <3>2, DemoteType DEF SetNode
    <3>3. QED
      BY <3>1, <3>2
  <2>4. UNCHANGED <<flight, walker, crashed, envVars>>
    BY <1>9 DEF SetNode
  <2>5. QED
    BY <2>2, <2>3, <2>4, <1>b DEF TypeOK
<1>10. ASSUME NEW s \in Setters, SetDone(s) PROVE TypeOK' /\ FlightBounded'
  <2>1. setter' \in [Setters -> [pc : {"idle", "walk"}, target : Nodes, idx : 1..(N + 1)]]
    BY <1>10 DEF TypeOK, SetDone
  <2>2. QED
    BY <1>10, <2>1, <1>b DEF TypeOK, SetDone
<1>11. CASE UNCHANGED vars
  BY <1>11, <1>b DEF TypeOK, vars
<1>12. QED
  BY <1>0, <1>1, <1>2, <1>3, <1>4, <1>5, <1>6, <1>7, <1>8, <1>9, <1>10, <1>11
     DEF Next, DetectStep, WalkStep, SetStep

-----------------------------------------------------------------------------
(***************************************************************************)
(* The writer's priority.                                                  *)
(***************************************************************************)
\* Promote and Demote are the only ways a node changes its role, but for the target of
\* SetWriterNode; each sets the priority its new role asks for.
LEMMA PriorityStep ==
    TypeOK /\ PriorityTracksRole /\ [Next]_vars => PriorityTracksRole'
<1> SUFFICES ASSUME TypeOK, PriorityTracksRole, [Next]_vars PROVE PriorityTracksRole'
  OBVIOUS
<1> USE DEF nodeVars, envVars
<1>1. ASSUME UNCHANGED nodeVars PROVE PriorityTracksRole'
  BY <1>1 DEF PriorityTracksRole
<1>2. ASSUME NEW n \in Nodes, Promote(n) PROVE PriorityTracksRole'
  BY <1>2 DEF TypeOK, PriorityTracksRole, Promote
<1>3. ASSUME NEW n \in Nodes, Demote(n) PROVE PriorityTracksRole'
  BY <1>3 DEF TypeOK, PriorityTracksRole, Demote
<1>4. ASSUME NEW n \in Nodes, NEW a \in Answers, Apply(n, a) PROVE PriorityTracksRole'
  BY <1>2, <1>3, <1>4 DEF Apply
<1>5. ASSUME NEW w \in Walkers, UpdateByIP(w) PROVE PriorityTracksRole'
  <2>1. walker[w].idx \in Nodes
    BY <1>5 DEF TypeOK, UpdateByIP, Nodes
  <2>2. QED
    BY <1>1, <1>2, <1>3, <1>5, <2>1 DEF UpdateByIP
<1>6. ASSUME NEW s \in Setters, SetNode(s) PROVE PriorityTracksRole'
  <2>1. setter[s].idx \in Nodes
    BY <1>6 DEF TypeOK, SetNode, Nodes
  <2>2. CASE setter[s].idx = setter[s].target
    BY <1>6, <2>1, <2>2 DEF TypeOK, PriorityTracksRole, SetNode
  <2>3. CASE setter[s].idx # setter[s].target
    BY <1>3, <1>6, <2>1, <2>3 DEF SetNode
  <2>4. QED
    BY <2>2, <2>3
<1>7. QED
  BY <1>1, <1>4, <1>5, <1>6
     DEF Next, Failover, DnsUpdate, EnvStep, Outage, Recover, LosePool, SelfLock, DetectStep,
         Detect, Answer, NilPool, WalkStep, Resolve, WalkDone, SetStep, SetCall, SetDone, vars

-----------------------------------------------------------------------------
(***************************************************************************)
(* The writer is a node somebody had a reason to call one.                  *)
(***************************************************************************)
\* Nothing untrusted can become a writer in one step.
LEMMA TrustStep == TypeOK /\ TrustInv /\ [Next]_vars => TrustInv'
<1> SUFFICES ASSUME TypeOK, TrustInv, [Next]_vars PROVE TrustInv'
  OBVIOUS
<1> USE DEF nodeVars, envVars
<1>s. strategy' = strategy
  BY DEF Next, Failover, DnsUpdate, EnvStep, Outage, Recover, LosePool, SelfLock, DetectStep, Detect, Answer,
         NilPool, Apply, WalkStep, Resolve, UpdateByIP, WalkDone, SetStep, SetNode, SetDone, SetCall, vars
<1>a. ASSUME UNCHANGED nodeVars, trusted \subseteq trusted' PROVE WriterWasTrusted'
  BY <1>a, <1>s DEF TrustInv, WriterWasTrusted
<1>b. ASSUME UNCHANGED <<nodeVars, flight, walker, setter, primary, dns, trusted>> PROVE TrustInv'
  BY <1>b, <1>s DEF TrustInv, WriterWasTrusted
<1>c. ASSUME NEW n \in Nodes, strategy # "probe" => n \in trusted, role' = [role EXCEPT ![n] = "writer"],
             UNCHANGED trusted
      PROVE  WriterWasTrusted'
  BY <1>c, <1>s DEF TypeOK, TrustInv, WriterWasTrusted
<1>d. ASSUME NEW n \in Nodes, Demote(n), UNCHANGED trusted PROVE WriterWasTrusted'
  BY <1>d, <1>s DEF TypeOK, TrustInv, WriterWasTrusted, Demote
<1>1. CASE Failover \/ DnsUpdate
  <2>1. trusted \subseteq trusted' /\ primary' \in trusted' /\ dns' \in trusted'
    BY <1>1 DEF TrustInv, Failover, DnsUpdate
  <2>2. UNCHANGED <<nodeVars, flight, walker, setter>>
    BY <1>1 DEF Failover, DnsUpdate
  <2>3. QED
    BY <2>1, <2>2, <1>s, <1>a DEF TrustInv
<1>2. ASSUME NEW n \in Nodes, EnvStep(n) \/ NilPool(n) PROVE TrustInv'
  BY <1>2, <1>b DEF EnvStep, Outage, Recover, LosePool, SelfLock, NilPool
<1>3. ASSUME NEW n \in Nodes, Detect(n) PROVE TrustInv'
  <2>1. flight'[n]["primary"] = flight[n]["primary"]
        /\ \A m \in Nodes \ {n} : flight'[m] = flight[m]
    BY <1>3 DEF TypeOK, Detect, Answers
  <2>2. QED
    BY <1>3, <2>1, <1>s, <1>a DEF TrustInv, Detect
\* Only the server that is the primary now answers a query with "primary".
<1>4. ASSUME NEW n \in Nodes, Answer(n) PROVE TrustInv'
  <2>1. \A m \in Nodes \ {n} : flight'[m] = flight[m]
    BY <1>4 DEF TypeOK, Answer, Answers, Learns
  <2>2. strategy # "probe" => flight'[n]["primary"] = flight[n]["primary"] \/ primary = n
    <3>1. CASE flight' = [flight EXCEPT ![n]["asked"] = @ - 1]
      BY <3>1 DEF TypeOK, Answers
    <3>2. ASSUME NEW a \in Learns(n), a \in {"primary", "replica"}, primary # n, strategy # "probe",
                 flight' = [flight EXCEPT ![n]["asked"] = @ - 1, ![n][a] = @ + 1]
          PROVE  flight'[n]["primary"] = flight[n]["primary"]
      <4>1. a = "replica"
        BY <3>2 DEF Learns
      <4>2. QED
        BY <3>2, <4>1 DEF TypeOK, Answers
    <3>3. Learns(n) \subseteq {"primary", "replica"}
      BY DEF Learns
    <3>4. QED
      BY <1>4, <3>1, <3>2, <3>3 DEF Answer
  <2>3. QED
    BY <1>4, <2>1, <2>2, <1>s, <1>a DEF TrustInv, Answer
<1>5. ASSUME NEW n \in Nodes, NEW a \in Answers, Apply(n, a) PROVE TrustInv'
  <2>1. a = "primary" /\ strategy # "probe" => n \in trusted
    BY <1>5 DEF TrustInv, Apply
  <2>2. WriterWasTrusted'
    <3>1. CASE a = "primary"
      BY <1>5, <2>1, <3>1, <1>c DEF Apply, Promote
    <3>2. CASE a # "primary"
      BY <1>5, <3>2, <1>d DEF Apply
    <3>3. QED
      BY <3>1, <3>2
  <2>3. \A m \in Nodes : flight'[m]["primary"] > 0 => flight[m]["primary"] > 0
    BY <1>5 DEF TypeOK, Apply, Answers
  <2>4. QED
    BY <1>5, <2>2, <2>3, <1>s DEF TrustInv, Apply
<1>6. ASSUME NEW w \in Walkers, Resolve(w) \/ WalkDone(w) PROVE TrustInv'
  <2>1. \A v \in Walkers : walker'[v].pc = "walk" => walker'[v].ip \in trusted
    <3>1. CASE Resolve(w)
      <4>1. walker' = [walker EXCEPT ![w] = [pc |-> "walk", ip |-> dns, idx |-> 1]]
        BY <3>1 DEF Resolve
      <4>2. QED
        BY <4>1 DEF TypeOK, TrustInv
    <3>2. CASE WalkDone(w)
      <4>1. walker' = [walker EXCEPT ![w] = [walker[w] EXCEPT !.pc = "idle", !.idx = 1]]
        BY <3>2 DEF TypeOK, WalkDone
      <4>2. QED
        BY <4>1 DEF TypeOK, TrustInv
    <3>3. QED
      BY <1>6, <3>1, <3>2
  <2>2. UNCHANGED <<nodeVars, flight, setter, primary, dns, trusted>>
    BY <1>6 DEF Resolve, WalkDone
  <2>3. QED
    BY <2>1, <2>2, <1>s, <1>a DEF TrustInv
\* The walk promotes only the node it compares equal with the resolved address.
<1>7. ASSUME NEW w \in Walkers, UpdateByIP(w) PROVE TrustInv'
  <2>1. walker[w].idx \in Nodes
    BY <1>7 DEF TypeOK, UpdateByIP, Nodes
  <2>2. Matches(walker[w].idx, walker[w].ip) => walker[w].idx \in trusted
    BY <1>7 DEF TrustInv, UpdateByIP, Matches
  <2>3. UNCHANGED <<flight, setter, primary, dns, trusted>>
    BY <1>7 DEF UpdateByIP
  <2>4. WriterWasTrusted'
    <3>1. CASE UNCHANGED nodeVars
      BY <2>3, <3>1, <1>a
    <3>2. CASE Matches(walker[w].idx, walker[w].ip) /\ Promote(walker[w].idx)
      BY <2>1, <2>2, <2>3, <3>2, <1>c DEF Promote
    <3>3. CASE Demote(walker[w].idx)
      BY <2>1, <2>3, <3>3, <1>d
    <3>4. QED
      BY <1>7, <3>1, <3>2, <3>3 DEF UpdateByIP
  <2>5. walker' = [walker EXCEPT ![w].idx = walker[w].idx + 1]
    BY <1>7 DEF UpdateByIP
  <2>6. \A v \in Walkers : walker'[v].pc = "walk" => walker'[v].ip \in trusted
    BY <2>5 DEF TypeOK, TrustInv
  <2>7. QED
    BY <2>3, <2>4, <2>6, <1>s DEF TrustInv
<1>8. ASSUME NEW s \in Setters, SetCall(s) PROVE TrustInv'
  <2>1. PICK t \in Nodes : /\ setter' = [setter EXCEPT ![s] = [pc |-> "walk", target |-> t, idx |-> 1]]
                          /\ trusted' = trusted \cup {t}
    BY <1>8 DEF SetCall
  <2>2. \A o \in Setters : setter'[o].pc = "walk" => setter'[o].target \in trusted'
    BY <2>1 DEF TypeOK, TrustInv
  <2>3. UNCHANGED <<nodeVars, flight, walker, primary, dns>>
    BY <1>8 DEF SetCall
  <2>4. QED
    BY <2>1, <2>2, <2>3, <1>s, <1>a DEF TrustInv
<1>9. ASSUME NEW s \in Setters, SetNode(s) PROVE TrustInv'
  <2>1. setter[s].idx \in Nodes
    BY <1>9 DEF TypeOK, SetNode, Nodes
  <2>2. UNCHANGED <<flight, walker, primary, dns, trusted>>
    BY <1>9 DEF SetNode
  <2>3. WriterWasTrusted'
    <3>1. CASE setter[s].idx = setter[s].target
      <4>1. role' = [role EXCEPT ![setter[s].idx] = "writer"] /\ setter[s].idx \in trusted
        BY <1>9, <3>1 DEF SetNode, TrustInv
      <4>2. QED
        BY <2>1, <2>2, <4>1, <1>c
    <3>2. CASE setter[s].idx # setter[s].target
      BY <1>9, <2>1, <2>2, <3>2, <1>d DEF SetNode
    <3>3. QED
      BY <3>1, <3>2
  <2>4. setter' = [setter EXCEPT ![s].idx = setter[s].idx + 1]
    BY <1>9 DEF SetNode
  <2>5. \A o \in Setters : setter'[o].pc = "walk" => setter'[o].target \in trusted
    BY <2>4 DEF TypeOK, TrustInv
  <2>6. QED
    BY <2>2, <2>3, <2>5, <1>s DEF TrustInv
<1>10. ASSUME NEW s \in Setters, SetDone(s) PROVE TrustInv'
  <2>1. \A o \in Setters : setter'[o].pc = "walk" => setter'[o].target \in trusted
    BY <1>10 DEF TypeOK, TrustInv, SetDone
  <2>2. QED
    BY <1>10, <2>1, <1>s, <1>a DEF TrustInv, SetDone
<1>11. CASE UNCHANGED vars
  BY <1>11, <1>b DEF vars
<1>12. QED
  BY <1>1, <1>2, <1>3, <1>4, <1>5, <1>6, <1>7, <1>8, <1>9, <1>10, <1>11
     DEF Next, DetectStep, WalkStep, SetStep

-----------------------------------------------------------------------------
(***************************************************************************)
(* The theorems.                                                           *)
(***************************************************************************)
\* However detection goroutines, DNS walks and SetWriterNode interleave, the fields hold
\* what newClusterManager declares for them, and no node has more goroutines in flight
\* than the bound the model starts (detectWriterByQuery, detectWriterByProbe).
THEOREM TypeCorrect == Spec => []TypeOK
<1>1. Init => TypeOK /\ FlightBounded
  BY TypeInit
<1>2. TypeOK /\ FlightBounded /\ [Next]_vars => (TypeOK /\ FlightBounded)'
  BY TypeStep
<1>3. QED
  BY <1>1, <1>2, PTL DEF Spec

\* Priority 0 marks the writer and no other node, whichever of Promote, Demote and
\* SetWriterNode came last on a node, and in whatever order.
THEOREM WriterHasPriorityZero == Spec => []PriorityTracksRole
<1>1. Init => PriorityTracksRole
  BY DEF Init, PriorityTracksRole, Nodes
<1>2. TypeOK /\ PriorityTracksRole /\ [Next]_vars => PriorityTracksRole'
  BY PriorityStep
<1>3. QED
  BY <1>1, <1>2, TypeCorrect, PTL DEF Spec

\* No late, reordered or failed answer makes a writer of a node that was never the
\* primary, nor configured, nor named to SetWriterNode, by query, DNS and SetWriterNode; a
\* probe makes one of every node that lets it begin, and the formula says so.
THEOREM WriterIsTrusted == Spec => []WriterWasTrusted
<1>1. Init => TrustInv
  BY DEF Init, TrustInv, WriterWasTrusted, Nodes, Answers
<1>2. TypeOK /\ TrustInv /\ [Next]_vars => TrustInv'
  BY TrustStep
<1>3. TrustInv => WriterWasTrusted
  BY DEF TrustInv
<1>4. QED
  BY <1>1, <1>2, <1>3, TypeCorrect, PTL DEF Spec

=============================================================================
