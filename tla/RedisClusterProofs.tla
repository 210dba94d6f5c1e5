-------------------------- MODULE RedisClusterProofs --------------------------
(***************************************************************************)
(* The safety of RedisCluster for every number of nodes, callers, retries    *)
(* and thresholds, and the step-by-step proof that ExecuteWithRetry          *)
(* implements Failover.  The invariants: TypeInv, the types and where the    *)
(* loops are; AttemptInv, the turns a call has taken against the nodes it    *)
(* has tried; SteadyInv, why a call that finds no node had none; and         *)
(* RotationInv, the clients of the nodes and how far Close has come.  The    *)
(* first is used by the others.                                            *)
(***************************************************************************)
EXTENDS RedisCluster, FiniteSetTheorems, WellFoundedInduction, TLAPS

USE NumberAssumption, FaultsAssumption, MarkableAssumption

CallStates ==
    [pc : {"idle", "lock", "scan", "pick", "read", "run", "degrade", "backoff"},
     at : 1..(N + 1), list : SUBSET Nodes, target : 0..N, attempt : 0..MaxRetries,
     tried : SUBSET Nodes,
     result : {"none", "ok", "miss", "unavailable", "exhausted", "cancelled"}]

NodeStates == [state : {"healthy", "degraded", "failed"},
               client : {"none", "open", "closed"}, errors : 0..Threshold]

CheckStates == [pc : {"none", "start", "ping", "reconnect", "await", "walk"}, at : 1..(N + 1)]

\* A scan is at a node, a call that has picked a node has one, and one that waits has
\* another turn.
Calls == {r \in CallStates : /\ r.pc = "scan" => r.at \in Nodes
                             /\ r.pc \in {"read", "run", "degrade"} => r.target \in Nodes
                             /\ r.pc = "backoff" => r.attempt < MaxRetries}

TypeInv == TypeOK /\ call \in [Callers -> Calls]

\* Every node tried has used a turn up; the one being worked on uses up this turn.
AttemptOf(c) ==
    /\ call[c].pc \in {"lock", "scan", "pick"} => Cardinality(call[c].tried) <= call[c].attempt
    /\ call[c].pc \in {"read", "run", "degrade", "backoff"} =>
         Cardinality(call[c].tried) <= call[c].attempt + 1

AttemptInv == \A c \in Callers : AttemptOf(c)

\* A node that has worked all the while is found by the scan, wherever that is.
SteadyOf(c) ==
    /\ call[c].result = "unavailable" => steady[c] = {}
    /\ call[c].pc # "idle" => \A n \in steady[c] : Works(n)
    /\ call[c].pc = "scan" => \A n \in steady[c] : n < call[c].at => n \in call[c].list
    /\ call[c].pc = "pick" => steady[c] \subseteq call[c].list

SteadyInv == \A c \in Callers : SteadyOf(c)

\* Nothing opens a client again, and Close has closed those of the nodes it has passed.
RotationInv ==
    /\ \A n \in Nodes : node[n].state = "healthy" => node[n].client # "none"
    /\ closing.pc = "closed" => closing.at = N + 1
    /\ closing.pc = "open" => closing.at = 1
    /\ \A n \in Nodes : n < closing.at => node[n].client # "open"

-----------------------------------------------------------------------------
(***************************************************************************)
(* Types.                                                                  *)
(***************************************************************************)
\* The numbers a loop over the nodes, the attempts and the errors go through.
LEMMA Ranges ==
    /\ 1 \in Nodes /\ 1 \in 1..(N + 1) /\ 0 \in 0..N
    /\ 0 \in 0..MaxRetries /\ 0 \in 0..Threshold /\ 1 \in 0..Threshold
    /\ \A n \in Nodes : n \in 0..N /\ n \in 1..(N + 1) /\ n + 1 \in 1..(N + 1) /\ (n # N => n + 1 \in Nodes)
    /\ \A k \in 0..MaxRetries : k < MaxRetries => k + 1 \in 0..MaxRetries
    /\ \A k \in 0..Threshold : k < Threshold => k + 1 \in 0..Threshold
  BY DEF Nodes

\* The first node that answers is one of them (NewClusterAdapter, updatePrimaryClient).
LEMMA FirstUp ==
    ASSUME NEW S \in SUBSET Nodes, S # {}
    PROVE  (CHOOSE n \in S : \A m \in S : n <= m) \in S
<1> DEFINE Less == {pair \in Nat \X Nat : pair[1] < pair[2]}
<1>1. IsWellFoundedOn(Less, Nat)
  BY NatLessThanWellFounded DEF OpToRel
<1>2. S \subseteq Nat
  BY DEF Nodes
<1>3. \E n \in S : \A m \in S : ~ (<<m, n>> \in Less)
  <2> HIDE DEF Less
  <2> QED
    BY <1>1, <1>2, WFMin
<1>4. PICK n \in S : \A m \in S : ~ (<<m, n>> \in Less)
  BY <1>3
<1>5. ASSUME NEW m \in S PROVE n <= m
  <2>1. m \in Nat /\ n \in Nat /\ <<m, n>> \notin Less
    BY <1>2, <1>4, <1>5
  <2>2. <<m, n>> \in Nat \X Nat /\ <<m, n>>[1] = m /\ <<m, n>>[2] = n
    BY <2>1
  <2>3. ~ (m < n)
    BY <2>1, <2>2
  <2>4. QED
    BY <2>1, <2>3
<1>6. QED
  BY <1>5

\* A call that has returned, whatever it had tried, is a call; so is one that begins.
LEMMA RestingType ==
    ASSUME NEW result \in {"none", "ok", "miss", "unavailable", "exhausted", "cancelled"},
           NEW S \in SUBSET Nodes
    PROVE  /\ Resting(result) \in Calls
           /\ [Resting(result) EXCEPT !.tried = S] \in Calls
           /\ [Resting(result) EXCEPT !.pc = "lock"] \in Calls
<1>1. Resting(result) \in CallStates
  BY Ranges DEF Resting, CallStates
<1>2. [Resting(result) EXCEPT !.tried = S] \in CallStates
  BY <1>1 DEF CallStates
<1>3. [Resting(result) EXCEPT !.pc = "lock"] \in CallStates
  BY <1>1 DEF CallStates
<1>4. Resting(result).pc = "idle" /\ [Resting(result) EXCEPT !.tried = S].pc = "idle"
      /\ [Resting(result) EXCEPT !.pc = "lock"].pc = "lock"
  BY DEF Resting
<1>5. QED
  BY <1>1, <1>2, <1>3, <1>4 DEF Calls

\* What a call is after each of the steps that change it.
Locked(r) == [r EXCEPT !.pc = "scan", !.at = 1, !.list = {}]

Scanned(r, found) ==
    [r EXCEPT !.at = r.at + 1,
              !.list = IF found THEN r.list \cup {r.at} ELSE r.list,
              !.pc = IF r.at = N THEN "pick" ELSE "scan"]

Picked(r, n) == [r EXCEPT !.pc = "read", !.target = n, !.tried = r.tried \cup {n}]
Again(r) == [r EXCEPT !.pc = "lock", !.attempt = r.attempt + 1]
Returned(r, result) == [Resting(result) EXCEPT !.tried = r.tried]
At(r, pc) == [r EXCEPT !.pc = pc]

\* They are calls again.
LEMMA CallShapes ==
    ASSUME NEW r \in Calls
    PROVE  /\ Locked(r) \in Calls
           /\ r.pc = "scan" => Scanned(r, TRUE) \in Calls /\ Scanned(r, FALSE) \in Calls
           /\ \A n \in Nodes : Picked(r, n) \in Calls
           /\ r.attempt < MaxRetries => Again(r) \in Calls /\ At(r, "backoff") \in Calls
           /\ r.pc \in {"read", "run"} => At(r, "run") \in Calls /\ At(r, "degrade") \in Calls
<1>0. r \in CallStates
  BY DEF Calls
<1>1. Locked(r) \in Calls
  <2>1. Locked(r) \in CallStates
    BY <1>0, Ranges DEF Locked, CallStates
  <2>2. Locked(r).pc = "scan" /\ Locked(r).at = 1
    BY <1>0 DEF Locked, CallStates
  <2>3. QED
    BY <2>1, <2>2, Ranges DEF Calls
<1>2. ASSUME r.pc = "scan", NEW found \in BOOLEAN PROVE Scanned(r, found) \in Calls
  <2>1. r.at \in Nodes /\ r.list \in SUBSET Nodes
    BY <1>0, <1>2 DEF Calls, CallStates
  <2>2. r.at + 1 \in 1..(N + 1) /\ (r.at # N => r.at + 1 \in Nodes)
    BY <2>1, Ranges
  <2>3. (IF found THEN r.list \cup {r.at} ELSE r.list) \in SUBSET Nodes
    BY <2>1
  <2>4. Scanned(r, found) \in CallStates
    BY <1>0, <2>2, <2>3 DEF Scanned, CallStates
  <2>5. Scanned(r, found).pc = (IF r.at = N THEN "pick" ELSE "scan") /\ Scanned(r, found).at = r.at + 1
    BY <1>0 DEF Scanned, CallStates
  <2>6. QED
    BY <2>2, <2>4, <2>5 DEF Calls
<1>3. ASSUME NEW n \in Nodes PROVE Picked(r, n) \in Calls
  <2>1. n \in 0..N /\ r.tried \cup {n} \in SUBSET Nodes
    BY <1>0, Ranges DEF CallStates
  <2>2. Picked(r, n) \in CallStates
    BY <1>0, <2>1 DEF Picked, CallStates
  <2>3. Picked(r, n).pc = "read" /\ Picked(r, n).target = n
    BY <1>0 DEF Picked, CallStates
  <2>4. QED
    BY <2>2, <2>3 DEF Calls
<1>4. ASSUME r.attempt < MaxRetries PROVE Again(r) \in Calls /\ At(r, "backoff") \in Calls
  <2>1. r.attempt + 1 \in 0..MaxRetries
    BY <1>0, <1>4, Ranges DEF CallStates
  <2>2. Again(r) \in CallStates /\ Again(r).pc = "lock"
    BY <1>0, <2>1 DEF Again, CallStates
  <2>3. At(r, "backoff") \in CallStates /\ At(r, "backoff").pc = "backoff"
        /\ At(r, "backoff").attempt = r.attempt
    BY <1>0 DEF At, CallStates
  <2>4. QED
    BY <1>4, <2>2, <2>3 DEF Calls
<1>5. ASSUME r.pc \in {"read", "run"}, NEW pc \in {"run", "degrade"} PROVE At(r, pc) \in Calls
  <2>1. r.target \in Nodes
    BY <1>5 DEF Calls
  <2>2. At(r, pc) \in CallStates /\ At(r, pc).pc = pc /\ At(r, pc).target = r.target
    BY <1>0 DEF At, CallStates
  <2>3. QED
    BY <2>1, <2>2 DEF Calls
<1>6. QED
  BY <1>1, <1>2, <1>3, <1>4, <1>5

\* Replacing one call by a call keeps the calls typed.
LEMMA CallType ==
    ASSUME call \in [Callers -> Calls], NEW c \in Callers, NEW r \in Calls,
           call' = [call EXCEPT ![c] = r]
    PROVE  /\ call' \in [Callers -> Calls] /\ call'[c] = r
           /\ \A d \in Callers \ {c} : call'[d] = call[d]
  OBVIOUS

\* What the steps of a call make of it.
LEMMA PickEffect ==
    ASSUME TypeInv, NEW c \in Callers, Pick(c)
    PROVE  \/ call[c].list = {} /\ call' = [call EXCEPT ![c] = Returned(call[c], "unavailable")]
           \/ \E n \in call[c].list : /\ n \notin call[c].tried
                                      /\ call' = [call EXCEPT ![c] = Picked(call[c], n)]
           \/ call[c].attempt < MaxRetries /\ call' = [call EXCEPT ![c] = Again(call[c])]
           \/ call' = [call EXCEPT ![c] = Returned(call[c], "exhausted")]
<1>0. call \in [Callers -> Calls]
  BY DEF TypeInv
<1>1. CASE call[c].list = {}
  BY <1>1 DEF Pick, Returned
<1>2. CASE call[c].list # {}
  <2>1. PICK n \in call[c].list :
               call' = [call EXCEPT ![c] =
                  IF n \notin call[c].tried
                    THEN [call[c] EXCEPT !.pc = "read", !.target = n, !.tried = @ \cup {n}]
                    ELSE IF call[c].attempt < MaxRetries
                           THEN [call[c] EXCEPT !.pc = "lock", !.attempt = @ + 1]
                           ELSE [Resting("exhausted") EXCEPT !.tried = call[c].tried]]
    BY <1>2 DEF Pick
  <2>2. CASE n \notin call[c].tried
    <3>1. call' = [call EXCEPT ![c] = Picked(call[c], n)]
      BY <1>0, <2>1, <2>2 DEF Picked
    <3>2. QED
      BY <2>2, <3>1
  <2>3. CASE n \in call[c].tried /\ call[c].attempt < MaxRetries
    <3>1. call' = [call EXCEPT ![c] = Again(call[c])]
      BY <1>0, <2>1, <2>3 DEF Again
    <3>2. QED
      BY <2>3, <3>1
  <2>4. CASE n \in call[c].tried /\ ~(call[c].attempt < MaxRetries)
    BY <2>1, <2>4 DEF Returned
  <2>5. QED
    BY <2>2, <2>3, <2>4
<1>3. QED
  BY <1>1, <1>2

LEMMA CallEffects ==
    ASSUME TypeInv, NEW c \in Callers
    PROVE  /\ Execute(c) => call' = [call EXCEPT ![c] = [Resting("none") EXCEPT !.pc = "lock"]]
           /\ Lock(c) => call' = [call EXCEPT ![c] = Locked(call[c])]
           /\ Scan(c) => call' = [call EXCEPT ![c] = Scanned(call[c], InRotation(call[c].at))]
           /\ ReadClient(c) => \/ call' = [call EXCEPT ![c] = At(call[c], "run")]
                               \/ call' = [call EXCEPT ![c] = At(call[c], "degrade")]
           /\ RunOk(c) => \E result \in {"ok", "miss"} : call' = [call EXCEPT ![c] = Resting(result)]
           /\ RunFails(c) => call' = [call EXCEPT ![c] = At(call[c], "degrade")]
           /\ AfterFailure(c) =>
                \/ call[c].attempt < MaxRetries /\ call' = [call EXCEPT ![c] = At(call[c], "backoff")]
                \/ call' = [call EXCEPT ![c] = Returned(call[c], "exhausted")]
           /\ Retry(c) => call' = [call EXCEPT ![c] = Again(call[c])]
           /\ CancelBackoff(c) => call' = [call EXCEPT ![c] = Resting("cancelled")]
<1>0. call \in [Callers -> Calls]
  BY DEF TypeInv
<1>1. Execute(c) => call' = [call EXCEPT ![c] = [Resting("none") EXCEPT !.pc = "lock"]]
  BY DEF Execute
<1>2. Lock(c) => call' = [call EXCEPT ![c] = Locked(call[c])]
  BY <1>0 DEF Lock, Locked
<1>3. Scan(c) => call' = [call EXCEPT ![c] = Scanned(call[c], InRotation(call[c].at))]
  BY <1>0 DEF Scan, Scanned
<1>4. ReadClient(c) => \/ call' = [call EXCEPT ![c] = At(call[c], "run")]
                       \/ call' = [call EXCEPT ![c] = At(call[c], "degrade")]
  BY <1>0 DEF ReadClient, At
<1>5. RunOk(c) => \E result \in {"ok", "miss"} : call' = [call EXCEPT ![c] = Resting(result)]
  BY DEF RunOk
<1>6. RunFails(c) => call' = [call EXCEPT ![c] = At(call[c], "degrade")]
  BY <1>0 DEF RunFails, At
<1>7. AfterFailure(c) =>
        \/ call[c].attempt < MaxRetries /\ call' = [call EXCEPT ![c] = At(call[c], "backoff")]
        \/ call' = [call EXCEPT ![c] = Returned(call[c], "exhausted")]
  BY <1>0 DEF AfterFailure, At, Returned
<1>8. Retry(c) => call' = [call EXCEPT ![c] = Again(call[c])]
  BY <1>0 DEF Retry, Again
<1>9. CancelBackoff(c) => call' = [call EXCEPT ![c] = Resting("cancelled")]
  BY DEF CancelBackoff
<1>10. QED
  BY <1>1, <1>2, <1>3, <1>4, <1>5, <1>6, <1>7, <1>8, <1>9

\* Every step of a call leaves a call, and the other calls alone.
LEMMA CallsTyped ==
    ASSUME TypeInv, NEW c \in Callers, Execute(c) \/ CallStep(c) \/ CancelBackoff(c)
    PROVE  /\ call' \in [Callers -> Calls]
           /\ \A d \in Callers \ {c} : call'[d] = call[d]
<1>0. call \in [Callers -> Calls] /\ call[c] \in Calls
  BY DEF TypeInv
<1>1. call[c].tried \in SUBSET Nodes /\ call[c].list \in SUBSET Nodes
  BY <1>0 DEF Calls, CallStates
<1>2. \E r \in Calls : call' = [call EXCEPT ![c] = r]
  <2>1. CASE Execute(c)
    BY <2>1, <1>1, RestingType, CallEffects
  <2>2. CASE Lock(c)
    BY <2>2, <1>0, CallShapes, CallEffects
  <2>3. CASE Scan(c)
    <3>1. Scanned(call[c], TRUE) \in Calls /\ Scanned(call[c], FALSE) \in Calls
      BY <2>3, <1>0, CallShapes DEF Scan
    <3>2. CASE InRotation(call[c].at)
      <4>1. Scanned(call[c], InRotation(call[c].at)) = Scanned(call[c], TRUE)
        BY <3>2 DEF Scanned
      <4>2. QED
        BY <2>3, <3>1, <4>1, CallEffects
    <3>3. CASE ~InRotation(call[c].at)
      <4>1. Scanned(call[c], InRotation(call[c].at)) = Scanned(call[c], FALSE)
        BY <3>3 DEF Scanned
      <4>2. QED
        BY <2>3, <3>1, <4>1, CallEffects
    <3>4. QED
      BY <3>2, <3>3
  <2>4. CASE Pick(c)
    <3>1. Returned(call[c], "unavailable") \in Calls /\ Returned(call[c], "exhausted") \in Calls
      BY <1>1, RestingType DEF Returned
    <3>2. QED
      BY <2>4, <1>0, <1>1, <3>1, CallShapes, PickEffect
  <2>5. CASE ReadClient(c)
    BY <2>5, <1>0, CallShapes, CallEffects DEF ReadClient
  <2>6. CASE RunOk(c)
    BY <2>6, <1>1, RestingType, CallEffects
  <2>7. CASE RunFails(c)
    BY <2>7, <1>0, CallShapes, CallEffects DEF RunFails
  <2>8. CASE Degrade(c)
    <3>1. Returned(call[c], "exhausted") \in Calls
      BY <1>1, RestingType DEF Returned
    <3>2. QED
      BY <2>8, <1>0, <3>1, CallShapes, CallEffects DEF Degrade
  <2>9. CASE Retry(c)
    <3>1. call[c].attempt < MaxRetries
      BY <2>9, <1>0 DEF Retry, Calls
    <3>2. QED
      BY <2>9, <1>0, <3>1, CallShapes, CallEffects
  <2>10. CASE CancelBackoff(c)
    BY <2>10, <1>1, RestingType, CallEffects
  <2>11. QED
    BY <2>1, <2>2, <2>3, <2>4, <2>5, <2>6, <2>7, <2>8, <2>9, <2>10 DEF CallStep
<1>3. QED
  BY <1>0, <1>2, CallType

-----------------------------------------------------------------------------
\* NewClusterAdapter's first state is of the declared types.
LEMMA TypeInit == Init => TypeInv
<1> SUFFICES ASSUME Init PROVE TypeInv
  OBVIOUS
<1>1. call \in [Callers -> Calls]
  BY RestingType DEF Init
<1>2. call \in [Callers -> CallStates]
  BY <1>1 DEF Calls
<1>3. up \in SUBSET Nodes /\ up # {}
  <2>1. CASE "server" \in Faults
    <3>1. up \in (SUBSET Nodes) \ {{}}
      BY <2>1 DEF Init
    <3>2. up \notin {{}}
      BY <3>1
    <3>3. up # {}
      BY <3>2
    <3>4. QED
      BY <3>1, <3>3
  <2>2. CASE "server" \notin Faults
    <3>1. up \in {Nodes}
      BY <2>2 DEF Init
    <3>2. QED
      BY <3>1, Ranges
  <2>3. QED
    BY <2>1, <2>2
<1>4. primary \in 0..N
  BY <1>3, FirstUp, Ranges DEF Init
<1>5. node \in [Nodes -> NodeStates]
  <2>1. /\ [state |-> "healthy", client |-> "open", errors |-> 0] \in NodeStates
        /\ [state |-> "failed", client |-> "none", errors |-> 1] \in NodeStates
    BY Ranges DEF NodeStates
  <2>2. QED
    BY <2>1 DEF Init
<1>6. check \in [Nodes -> CheckStates]
  BY Ranges DEF Init, NoCheck, CheckStates
<1>7. closing \in [pc : {"open", "nodes", "closed"}, at : 1..(N + 1)]
  BY Ranges DEF Init
<1>8. recent \subseteq Nodes /\ marking \in 0..N /\ steady \in [Callers -> SUBSET Nodes]
  BY Ranges DEF Init
<1>9. QED
  BY <1>1, <1>2, <1>3, <1>4, <1>5, <1>6, <1>7, <1>8 DEF TypeInv, TypeOK, CallStates, NodeStates, CheckStates

\* Replacing one node by a node keeps the nodes typed, and the others alone.
LEMMA NodeType ==
    ASSUME node \in [Nodes -> NodeStates], NEW n \in Nodes, NEW r \in NodeStates,
           node' = [node EXCEPT ![n] = r]
    PROVE  /\ node' \in [Nodes -> NodeStates] /\ node'[n] = r
           /\ \A m \in Nodes \ {n} : node'[m] = node[m]
  OBVIOUS

\* An error more, or as many as are counted.
Counted(k) == IF k < Threshold THEN k + 1 ELSE k

LEMMA CountedType == \A k \in 0..Threshold : Counted(k) \in 0..Threshold
  BY Ranges DEF Counted

Failed(r) == [state |-> IF r.state = "healthy" THEN "failed" ELSE r.state, client |-> "none",
              errors |-> Counted(r.errors)]

\* What the steps make of a node.
LEMMA NodeShapes ==
    ASSUME NEW r \in NodeStates
    PROVE  /\ [r EXCEPT !.errors = Counted(r.errors)] \in NodeStates
           /\ \A state \in {"healthy", "degraded", "failed"} : [r EXCEPT !.state = state] \in NodeStates
           /\ [r EXCEPT !.state = "healthy", !.errors = 0] \in NodeStates
           /\ [r EXCEPT !.client = IF r.client = "open" THEN "closed" ELSE r.client] \in NodeStates
           /\ Failed(r) \in NodeStates
<1>1. Counted(r.errors) \in 0..Threshold
  BY CountedType DEF NodeStates
<1>2. [r EXCEPT !.errors = Counted(r.errors)] \in NodeStates
  BY <1>1 DEF NodeStates
<1>3. \A state \in {"healthy", "degraded", "failed"} : [r EXCEPT !.state = state] \in NodeStates
  BY DEF NodeStates
<1>4. [r EXCEPT !.state = "healthy", !.errors = 0] \in NodeStates
  BY Ranges DEF NodeStates
<1>5. [r EXCEPT !.client = IF r.client = "open" THEN "closed" ELSE r.client] \in NodeStates
  BY DEF NodeStates
<1>6. Failed(r) \in NodeStates
  BY <1>1 DEF NodeStates, Failed
<1>7. QED
  BY <1>2, <1>3, <1>4, <1>5, <1>6

\* A command that fails counts an error and changes nothing else of the node.
LEMMA ErrorEffect ==
    ASSUME TypeInv, NEW c \in Callers, ReadClient(c) \/ RunFails(c)
    PROVE  /\ node' \in [Nodes -> NodeStates]
           /\ \A m \in Nodes : node'[m].state = node[m].state /\ node'[m].client = node[m].client
<1>0. node \in [Nodes -> NodeStates] /\ call[c] \in Calls
  BY DEF TypeInv, TypeOK, NodeStates
<1>1. CASE node' = node
  BY <1>0, <1>1
<1> DEFINE n == call[c].target
<1>2. CASE node' = [node EXCEPT ![n].errors = IF @ < Threshold THEN @ + 1 ELSE @]
  <2>1. n \in Nodes /\ node[n] \in NodeStates
    BY <1>0 DEF ReadClient, RunFails, Calls
  <2>2. [node[n] EXCEPT !.errors = Counted(node[n].errors)] \in NodeStates
    BY <2>1, NodeShapes
  <2>3. node' = [node EXCEPT ![n] = [node[n] EXCEPT !.errors = Counted(node[n].errors)]]
    BY <1>0, <1>2, <2>1 DEF Counted
  <2>4. /\ [node[n] EXCEPT !.errors = Counted(node[n].errors)].state = node[n].state
        /\ [node[n] EXCEPT !.errors = Counted(node[n].errors)].client = node[n].client
    BY <2>1 DEF NodeStates
  <2>5. QED
    BY <1>0, <2>1, <2>2, <2>3, <2>4, NodeType
<1>3. QED
  BY <1>1, <1>2 DEF ReadClient, RunFails

\* checkNodeDegradation and MarkNodeFailed take a node out of rotation and leave its client.
LEMMA DegradeEffect ==
    ASSUME TypeInv, NEW n \in Nodes, NEW state \in {"degraded", "failed"},
           node' = [node EXCEPT ![n].state = state]
    PROVE  /\ node' \in [Nodes -> NodeStates]
           /\ node'[n].state = state /\ node'[n].client = node[n].client
           /\ \A m \in Nodes \ {n} : node'[m] = node[m]
<1>0. node \in [Nodes -> NodeStates]
  BY DEF TypeInv, TypeOK, NodeStates
<1>1. [node[n] EXCEPT !.state = state] \in NodeStates
  BY <1>0, NodeShapes
<1>2. node' = [node EXCEPT ![n] = [node[n] EXCEPT !.state = state]]
  BY <1>0
<1>3. /\ [node[n] EXCEPT !.state = state].state = state
      /\ [node[n] EXCEPT !.state = state].client = node[n].client
  BY <1>0 DEF NodeStates
<1>4. QED
  BY <1>0, <1>1, <1>2, <1>3, NodeType

\* A failed ping drops the client and takes the node out of rotation.
LEMMA PingFailsEffect ==
    ASSUME TypeInv, NEW n \in Nodes, PingFails(n)
    PROVE  /\ node' \in [Nodes -> NodeStates]
           /\ node'[n].state # "healthy" /\ node'[n].client = "none"
           /\ \A m \in Nodes \ {n} : node'[m] = node[m]
<1>0. node \in [Nodes -> NodeStates]
  BY DEF TypeInv, TypeOK, NodeStates
<1>1. node' = [node EXCEPT ![n] = Failed(node[n])]
  BY <1>0 DEF PingFails, Failed, Counted
<1>2. Failed(node[n]) \in NodeStates /\ Failed(node[n]).state # "healthy" /\ Failed(node[n]).client = "none"
  BY <1>0, NodeShapes DEF Failed
<1>3. QED
  BY <1>0, <1>1, <1>2, NodeType

\* A ping that is answered restores a failed node that has an open client.
LEMMA PingOkEffect ==
    ASSUME TypeInv, NEW n \in Nodes, PingOk(n)
    PROVE  /\ node' \in [Nodes -> NodeStates]
           /\ node[n].client = "open" /\ node'[n].client = "open"
           /\ node[n].state = "healthy" => node'[n].state = "healthy"
           /\ \A m \in Nodes \ {n} : node'[m] = node[m]
<1>0. node \in [Nodes -> NodeStates] /\ node[n].client = "open"
  BY DEF TypeInv, TypeOK, NodeStates, PingOk
<1> DEFINE r == [node[n] EXCEPT !.state = "healthy", !.errors = 0]
<1>1. r \in NodeStates
  BY <1>0, NodeShapes
<1>2. r.client = node[n].client /\ r.state = "healthy"
  BY <1>0 DEF NodeStates
<1>3. CASE node' = [node EXCEPT ![n].state = "healthy", ![n].errors = 0]
  <2>1. node' = [node EXCEPT ![n] = r]
    BY <1>0, <1>3
  <2>2. QED
    BY <1>0, <1>1, <1>2, <2>1, NodeType
<1>4. CASE node' = node
  BY <1>0, <1>4
<1>5. QED
  BY <1>3, <1>4 DEF PingOk

\* Close leaves the node without an open client, if it had one.
LEMMA CloseNodeEffect ==
    ASSUME TypeInv, NEW n \in Nodes, CloseNode(n)
    PROVE  /\ node' \in [Nodes -> NodeStates]
           /\ node'[n].state = node[n].state
           /\ node'[n].client = IF node[n].client = "open" THEN "closed" ELSE node[n].client
           /\ \A m \in Nodes \ {n} : node'[m] = node[m]
<1>0. node \in [Nodes -> NodeStates]
  BY DEF TypeInv, TypeOK, NodeStates
<1> DEFINE r == [node[n] EXCEPT !.client = IF node[n].client = "open" THEN "closed" ELSE node[n].client]
<1>1. r \in NodeStates
  BY <1>0, NodeShapes
<1>2. r.state = node[n].state /\ r.client = IF node[n].client = "open" THEN "closed" ELSE node[n].client
  BY <1>0 DEF NodeStates
<1>3. node' = [node EXCEPT ![n] = r]
  BY <1>0 DEF CloseNode
<1>4. QED
  BY <1>0, <1>1, <1>2, <1>3, NodeType

\* Taking a node out of what was steady keeps the type of the history.
LEMMA SpoilType ==
    ASSUME steady \in [Callers -> SUBSET Nodes], NEW n, Spoil(n)
    PROVE  /\ steady' \in [Callers -> SUBSET Nodes]
           /\ \A c \in Callers : steady'[c] = steady[c] \ {n}
  BY DEF Spoil

\* Sending a health check on keeps the checks typed.
LEMMA GotoType ==
    ASSUME check \in [Nodes -> CheckStates], NEW n \in Nodes,
           NEW pc \in {"none", "start", "ping", "reconnect", "await", "walk"}, Goto(n, pc)
    PROVE  check' \in [Nodes -> CheckStates]
<1>1. [pc |-> pc, at |-> 1] \in CheckStates
  BY Ranges DEF CheckStates
<1>2. QED
  BY <1>1 DEF Goto

\* The steps of a call keep the types.
LEMMA CallTypeStep ==
    ASSUME TypeInv, NEW c \in Callers, Execute(c) \/ CallStep(c) \/ CancelBackoff(c)
    PROVE  /\ node' \in [Nodes -> NodeStates] /\ steady' \in [Callers -> SUBSET Nodes]
           /\ UNCHANGED <<primary, recent, check, marking, closing, up>>
<1>0. node \in [Nodes -> NodeStates] /\ steady \in [Callers -> SUBSET Nodes] /\ call[c] \in Calls
  BY DEF TypeInv, TypeOK, NodeStates
<1>1. CASE Execute(c) \/ Lock(c) \/ Scan(c) \/ Pick(c) \/ RunOk(c) \/ Retry(c) \/ CancelBackoff(c)
  BY <1>0, <1>1 DEF Execute, Lock, Scan, Pick, RunOk, Retry, CancelBackoff, adapter
<1>2. CASE ReadClient(c) \/ RunFails(c)
  BY <1>0, <1>2, ErrorEffect DEF ReadClient, RunFails
<1>3. CASE Degrade(c)
  <2>1. call[c].target \in Nodes
    BY <1>0, <1>3 DEF Degrade, Calls
  <2>2. QED
    BY <1>0, <1>3, <2>1, DegradeEffect, SpoilType DEF Degrade
<1>4. QED
  BY <1>1, <1>2, <1>3 DEF CallStep

\* So do those of a health check.
LEMMA CheckTypeStep ==
    ASSUME TypeInv, NEW n \in Nodes, CheckStep(n)
    PROVE  /\ node' \in [Nodes -> NodeStates] /\ steady' \in [Callers -> SUBSET Nodes]
           /\ check' \in [Nodes -> CheckStates] /\ primary' \in 0..N /\ recent' \subseteq Nodes
           /\ UNCHANGED <<marking, call, closing, up>>
<1>0. /\ node \in [Nodes -> NodeStates] /\ steady \in [Callers -> SUBSET Nodes]
      /\ check \in [Nodes -> CheckStates] /\ primary \in 0..N /\ recent \subseteq Nodes
  BY DEF TypeInv, TypeOK, NodeStates, CheckStates
<1>1. CASE CheckBegin(n)
  <2>1. \E pc \in {"none", "ping", "reconnect"} : Goto(n, pc)
    BY <1>1 DEF CheckBegin
  <2>2. QED
    BY <1>0, <1>1, <2>1, GotoType DEF CheckBegin
<1>2. CASE PingFails(n)
  BY <1>0, <1>2, PingFailsEffect, SpoilType, GotoType DEF PingFails
<1>3. CASE PingOk(n)
  <2>1. \E pc \in {"none", "await"} : Goto(n, pc)
    BY <1>3 DEF PingOk
  <2>2. QED
    BY <1>0, <1>3, <2>1, PingOkEffect, GotoType DEF PingOk
<1>4. CASE LockAdapter(n)
  BY <1>0, <1>4, GotoType DEF LockAdapter
<1>5. CASE Walk(n)
  <2>1. check[n].at \in Nodes /\ check[n] \in CheckStates
    BY <1>0, <1>5 DEF Walk
  <2>2. [check[n] EXCEPT !.at = check[n].at + 1] \in CheckStates
    BY <2>1, Ranges DEF CheckStates
  <2>3. CASE check' = [check EXCEPT ![n].at = check[n].at + 1] /\ UNCHANGED primary
    <3>1. check' = [check EXCEPT ![n] = [check[n] EXCEPT !.at = check[n].at + 1]]
      BY <1>0, <2>3
    <3>2. QED
      BY <1>0, <1>5, <2>2, <2>3, <3>1 DEF Walk
  <2>4. CASE primary' = check[n].at /\ Goto(n, "none")
    BY <1>0, <1>5, <2>1, <2>4, GotoType, Ranges DEF Walk
  <2>5. QED
    BY <1>5, <2>3, <2>4 DEF Walk
<1>6. QED
  BY <1>1, <1>2, <1>3, <1>4, <1>5 DEF CheckStep

\* Every step keeps the types.
LEMMA TypeStep == TypeInv /\ [Next]_vars => TypeInv'
<1> SUFFICES ASSUME TypeInv, [Next]_vars PROVE TypeInv'
  OBVIOUS
<1>a. /\ call \in [Callers -> Calls] /\ node \in [Nodes -> NodeStates]
      /\ check \in [Nodes -> CheckStates] /\ primary \in 0..N /\ recent \subseteq Nodes
      /\ marking \in 0..N /\ up \subseteq Nodes /\ steady \in [Callers -> SUBSET Nodes]
      /\ closing \in [pc : {"open", "nodes", "closed"}, at : 1..(N + 1)]
  BY DEF TypeInv, TypeOK, NodeStates, CheckStates
<1>b. ASSUME call' \in [Callers -> Calls], node' \in [Nodes -> NodeStates],
             check' \in [Nodes -> CheckStates], primary' \in 0..N, recent' \subseteq Nodes,
             marking' \in 0..N, up' \subseteq Nodes, steady' \in [Callers -> SUBSET Nodes],
             closing' \in [pc : {"open", "nodes", "closed"}, at : 1..(N + 1)]
      PROVE  TypeInv'
  <2>1. call' \in [Callers -> CallStates]
    BY <1>b DEF Calls
  <2>2. QED
    BY <1>b, <2>1 DEF TypeInv, TypeOK, NodeStates, CallStates, CheckStates
<1>1. ASSUME NEW c \in Callers, Execute(c) \/ CallStep(c) \/ CancelBackoff(c) PROVE TypeInv'
  BY <1>1, <1>a, <1>b, CallsTyped, CallTypeStep
<1>2. ASSUME NEW n \in Nodes, CheckStep(n) PROVE TypeInv'
  BY <1>2, <1>a, <1>b, CheckTypeStep
<1>3. ASSUME NEW n \in Nodes, Age(n) \/ MarkBegin(n) PROVE TypeInv'
  BY <1>3, <1>a, <1>b, Ranges DEF Age, MarkBegin
<1>4. ASSUME NEW n \in Nodes, CloseNode(n) PROVE TypeInv'
  <2>1. closing' \in [pc : {"open", "nodes", "closed"}, at : 1..(N + 1)]
    BY <1>4, Ranges DEF CloseNode
  <2>2. QED
    BY <1>4, <1>a, <1>b, <2>1, CloseNodeEffect, SpoilType DEF CloseNode
<1>5. ASSUME NEW n \in Nodes, ServerChange(n) PROVE TypeInv'
  BY <1>5, <1>a, <1>b, SpoilType DEF ServerChange, adapter
<1>6. CASE Tick
  <2>1. [pc |-> "start", at |-> 1] \in CheckStates
    BY Ranges DEF CheckStates
  <2>2. check' \in [Nodes -> CheckStates]
    BY <1>6, <1>a, <2>1 DEF Tick
  <2>3. QED
    BY <1>6, <1>a, <1>b, <2>2 DEF Tick
<1>7. CASE MarkNode
  <2>1. marking \in Nodes
    BY <1>7, <1>a DEF MarkNode, Nodes
  <2>2. QED
    BY <1>7, <1>a, <1>b, <2>1, DegradeEffect, SpoilType, Ranges DEF MarkNode
<1>8. CASE Close
  BY <1>8, <1>a, <1>b DEF Close, adapter
<1>9. CASE UNCHANGED vars
  BY <1>9, <1>a, <1>b DEF vars, adapter
<1>10. QED
  BY <1>1, <1>2, <1>3, <1>4, <1>5, <1>6, <1>7, <1>8, <1>9 DEF Next

\* A step that is none of this call's own leaves the call alone.
LEMMA CallKept ==
    ASSUME TypeInv, [Next]_vars, NEW c \in Callers, ~ (Execute(c) \/ CallStep(c) \/ CancelBackoff(c))
    PROVE  call'[c] = call[c]
<1>1. ASSUME NEW d \in Callers, Execute(d) \/ CallStep(d) \/ CancelBackoff(d) PROVE call'[c] = call[c]
  BY <1>1, CallsTyped
<1>2. ASSUME NEW n \in Nodes, CheckStep(n) PROVE call'[c] = call[c]
  BY <1>2, CheckTypeStep
<1>3. CASE UNCHANGED call
  BY <1>3
<1>4. QED
  BY <1>1, <1>2, <1>3
     DEF Next, Age, MarkBegin, CloseNode, ServerChange, Tick, MarkNode, Close, vars

-----------------------------------------------------------------------------
(***************************************************************************)
(* Attempts.                                                               *)
(***************************************************************************)
\* A node more is one more.
LEMMA TriedCard ==
    /\ Cardinality({}) = 0
    /\ \A S \in SUBSET Nodes : Cardinality(S) \in Nat
    /\ \A S \in SUBSET Nodes : \A n \in Nodes \ S : Cardinality(S \cup {n}) = Cardinality(S) + 1
<1>1. IsFiniteSet(Nodes)
  BY FS_Interval DEF Nodes
<1>2. ASSUME NEW S \in SUBSET Nodes PROVE IsFiniteSet(S) /\ Cardinality(S) \in Nat
  BY <1>1, FS_Subset, FS_CardinalityType
<1>3. ASSUME NEW S \in SUBSET Nodes, NEW n \in Nodes \ S PROVE Cardinality(S \cup {n}) = Cardinality(S) + 1
  BY <1>2, FS_AddElement
<1>4. QED
  BY <1>2, <1>3, FS_EmptySet

\* The caller's own step.
LEMMA OwnAttempt ==
    ASSUME TypeInv, AttemptInv, NEW c \in Callers, Execute(c) \/ CallStep(c) \/ CancelBackoff(c)
    PROVE  AttemptOf(c)'
<1> DEFINE r == call[c]
<1>0. call \in [Callers -> Calls] /\ r \in Calls /\ AttemptOf(c)
  BY DEF TypeInv, AttemptInv
<1>a. /\ r.tried \in SUBSET Nodes /\ r.list \in SUBSET Nodes /\ r.attempt \in 0..MaxRetries
      /\ r.attempt \in Nat /\ Cardinality(r.tried) \in Nat
  BY <1>0, TriedCard DEF Calls, CallStates
<1>1. CASE Execute(c)
  <2>1. call'[c] = [Resting("none") EXCEPT !.pc = "lock"]
    BY <1>0, <1>1, CallEffects
  <2>2. call'[c].pc = "lock" /\ call'[c].tried = {} /\ call'[c].attempt = 0
    BY <2>1 DEF Resting
  <2>3. QED
    BY <2>2, TriedCard DEF AttemptOf
<1>2. CASE Lock(c)
  <2>1. call'[c] = Locked(r) /\ r.pc = "lock"
    BY <1>0, <1>2, CallEffects DEF Lock
  <2>2. QED
    BY <1>0, <2>1 DEF AttemptOf, Locked, Calls, CallStates
<1>3. CASE Scan(c)
  <2>1. call'[c] = Scanned(r, InRotation(r.at)) /\ r.pc = "scan"
    <3>1. call'[c] = Scanned(r, InRotation(r.at))
      BY <1>0, <1>3, CallEffects
    <3>2. QED
      BY <1>3, <3>1 DEF Scan
  <2>2. call'[c].pc \in {"scan", "pick"} /\ call'[c].tried = r.tried /\ call'[c].attempt = r.attempt
    BY <1>0, <2>1 DEF Scanned, Calls, CallStates
  <2>3. QED
    BY <1>0, <2>1, <2>2 DEF AttemptOf
<1>4. CASE Pick(c)
  <2>1. Cardinality(r.tried) <= r.attempt
    BY <1>0, <1>4 DEF Pick, AttemptOf
  <2>2. ASSUME NEW n \in r.list, n \notin r.tried, call' = [call EXCEPT ![c] = Picked(r, n)]
        PROVE  AttemptOf(c)'
    <3>1. call'[c].pc = "read" /\ call'[c].tried = r.tried \cup {n} /\ call'[c].attempt = r.attempt
      BY <1>0, <2>2 DEF Picked, Calls, CallStates
    <3>2. Cardinality(r.tried \cup {n}) = Cardinality(r.tried) + 1
      BY <1>a, <2>2, TriedCard
    <3>3. QED
      BY <1>a, <2>1, <3>1, <3>2 DEF AttemptOf
  <2>3. CASE call' = [call EXCEPT ![c] = Again(r)]
    <3>1. call'[c].pc = "lock" /\ call'[c].tried = r.tried /\ call'[c].attempt = r.attempt + 1
      BY <1>0, <2>3 DEF Again, Calls, CallStates
    <3>2. QED
      BY <1>a, <2>1, <3>1 DEF AttemptOf
  <2>4. ASSUME NEW result, call' = [call EXCEPT ![c] = Returned(r, result)] PROVE AttemptOf(c)'
    <3>1. call'[c].pc = "idle"
      BY <1>0, <2>4 DEF Returned, Resting
    <3>2. QED
      BY <3>1 DEF AttemptOf
  <2>5. QED
    BY <1>4, <2>2, <2>3, <2>4, PickEffect
<1>5. CASE ReadClient(c) \/ RunFails(c)
  <2>1. \E pc \in {"run", "degrade"} : call'[c] = At(r, pc)
    BY <1>0, <1>5, CallEffects
  <2>2. call'[c].pc \in {"run", "degrade"} /\ call'[c].tried = r.tried /\ call'[c].attempt = r.attempt
    BY <1>0, <2>1 DEF At, Calls, CallStates
  <2>3. Cardinality(r.tried) <= r.attempt + 1
    BY <1>0, <1>5 DEF ReadClient, RunFails, AttemptOf
  <2>4. QED
    BY <2>2, <2>3 DEF AttemptOf
<1>6. CASE RunOk(c) \/ CancelBackoff(c)
  <2>1. \E result \in {"ok", "miss", "cancelled"} : call'[c] = Resting(result)
    BY <1>0, <1>6, CallEffects
  <2>2. call'[c].pc = "idle"
    BY <2>1 DEF Resting
  <2>3. QED
    BY <2>2 DEF AttemptOf
<1>7. CASE Degrade(c)
  <2>1. Cardinality(r.tried) <= r.attempt + 1
    BY <1>0, <1>7 DEF Degrade, AttemptOf
  <2>2. CASE call' = [call EXCEPT ![c] = At(r, "backoff")]
    <3>1. call'[c].pc = "backoff" /\ call'[c].tried = r.tried /\ call'[c].attempt = r.attempt
      BY <1>0, <2>2 DEF At, Calls, CallStates
    <3>2. QED
      BY <2>1, <3>1 DEF AttemptOf
  <2>3. CASE call' = [call EXCEPT ![c] = Returned(r, "exhausted")]
    <3>1. call'[c].pc = "idle"
      BY <1>0, <2>3 DEF Returned, Resting
    <3>2. QED
      BY <3>1 DEF AttemptOf
  <2>4. QED
    BY <1>7, <2>2, <2>3, CallEffects DEF Degrade
<1>8. CASE Retry(c)
  <2>1. call'[c].pc = "lock" /\ call'[c].tried = r.tried /\ call'[c].attempt = r.attempt + 1
    <3>1. call'[c] = Again(r)
      BY <1>0, <1>8, CallEffects
    <3>2. QED
      BY <1>0, <3>1 DEF Again, Calls, CallStates
  <2>2. Cardinality(r.tried) <= r.attempt + 1
    BY <1>0, <1>8 DEF Retry, AttemptOf
  <2>3. QED
    BY <2>1, <2>2 DEF AttemptOf
<1>9. QED
  BY <1>1, <1>2, <1>3, <1>4, <1>5, <1>6, <1>7, <1>8 DEF CallStep

\* And every step.
LEMMA AttemptStep == TypeInv /\ AttemptInv /\ [Next]_vars => AttemptInv'
<1> SUFFICES ASSUME TypeInv, AttemptInv, [Next]_vars, NEW c \in Callers PROVE AttemptOf(c)'
  BY DEF AttemptInv
<1>1. CASE Execute(c) \/ CallStep(c) \/ CancelBackoff(c)
  BY <1>1, OwnAttempt
<1>2. CASE ~ (Execute(c) \/ CallStep(c) \/ CancelBackoff(c))
  BY <1>2, CallKept DEF AttemptInv, AttemptOf
<1>3. QED
  BY <1>1, <1>2

-----------------------------------------------------------------------------
(***************************************************************************)
(* A call finds no node only when there is none.                           *)
(***************************************************************************)
\* Whatever breaks a node, or takes it out of rotation, takes it out of every call's
\* history, and no step but the start of the call puts one in.
LEMMA WorksKept ==
    ASSUME TypeInv, [Next]_vars, NEW c \in Callers, ~Execute(c)
    PROVE  steady'[c] \subseteq steady[c] /\ \A n \in steady'[c] : Works(n) => Works(n)'
<1> DEFINE Kept == steady'[c] \subseteq steady[c] /\ \A n \in steady'[c] : Works(n) => Works(n)'
<1>0. /\ node \in [Nodes -> NodeStates] /\ steady \in [Callers -> SUBSET Nodes]
      /\ up \subseteq Nodes /\ call \in [Callers -> Calls] /\ steady[c] \subseteq Nodes
  BY DEF TypeInv, TypeOK, NodeStates
<1>a. ASSUME NEW m \in Nodes, steady'[c] = steady[c] \ {m},
             \A n \in Nodes \ {m} : node'[n] = node[n] /\ (n \in up => n \in up')
      PROVE  Kept
  BY <1>0, <1>a DEF Works, InRotation
<1>b. ASSUME UNCHANGED <<up, steady>>,
             \A n \in Nodes : /\ node[n].state = "healthy" => node'[n].state = "healthy"
                              /\ node[n].client = "open" => node'[n].client = "open"
      PROVE  Kept
  BY <1>0, <1>b DEF Works, InRotation
<1>1. ASSUME NEW d \in Callers \ {c}, Execute(d) PROVE Kept
  <2>1. steady'[c] = steady[c] /\ UNCHANGED <<node, up>>
    BY <1>0, <1>1 DEF Execute, adapter
  <2>2. QED
    BY <2>1 DEF Works, InRotation
<1>2. ASSUME NEW d \in Callers, ReadClient(d) \/ RunFails(d) PROVE Kept
  <2>1. UNCHANGED <<up, steady>>
    BY <1>2 DEF ReadClient, RunFails
  <2>2. QED
    BY <1>2, <1>b, <2>1, ErrorEffect
<1>3. ASSUME NEW d \in Callers, Degrade(d) PROVE Kept
  <2> DEFINE n == call[d].target
  <2>1. n \in Nodes /\ UNCHANGED up
    BY <1>0, <1>3 DEF Degrade, Calls
  <2>2. CASE node' = [node EXCEPT ![n].state = "degraded"] /\ Spoil(n)
    <3>1. \A m \in Nodes \ {n} : node'[m] = node[m]
      BY <2>1, <2>2, DegradeEffect
    <3>2. steady'[c] = steady[c] \ {n}
      BY <1>0, <2>1, <2>2, SpoilType
    <3>3. QED
      BY <1>a, <2>1, <3>1, <3>2
  <2>3. CASE UNCHANGED <<node, steady>>
    BY <1>b, <2>1, <2>3
  <2>4. QED
    BY <1>3, <2>2, <2>3 DEF Degrade
<1>4. ASSUME NEW n \in Nodes, PingFails(n) PROVE Kept
  <2>1. steady'[c] = steady[c] \ {n} /\ UNCHANGED up
    BY <1>0, <1>4, SpoilType DEF PingFails
  <2>2. QED
    BY <1>4, <1>a, <2>1, PingFailsEffect
<1>5. ASSUME NEW n \in Nodes, PingOk(n) PROVE Kept
  <2>1. UNCHANGED <<up, steady>>
    BY <1>5 DEF PingOk
  <2>2. ASSUME NEW m \in Nodes
        PROVE  /\ node[m].state = "healthy" => node'[m].state = "healthy"
               /\ node[m].client = "open" => node'[m].client = "open"
    BY <1>5, PingOkEffect
  <2>3. QED
    BY <1>b, <2>1, <2>2
<1>6. CASE MarkNode
  <2>1. marking \in Nodes
    BY <1>6 DEF MarkNode, TypeInv, TypeOK, Nodes
  <2>2. steady'[c] = steady[c] \ {marking} /\ UNCHANGED up
    BY <1>0, <1>6, <2>1, SpoilType DEF MarkNode
  <2>3. \A m \in Nodes \ {marking} : node'[m] = node[m]
    BY <1>6, <2>1, DegradeEffect DEF MarkNode
  <2>4. QED
    BY <1>a, <2>1, <2>2, <2>3
<1>7. ASSUME NEW n \in Nodes, CloseNode(n) PROVE Kept
  <2>1. steady'[c] = steady[c] \ {n} /\ UNCHANGED up
    BY <1>0, <1>7, SpoilType DEF CloseNode
  <2>2. QED
    BY <1>7, <1>a, <2>1, CloseNodeEffect
<1>8. ASSUME NEW n \in Nodes, ServerChange(n) PROVE Kept
  <2>1. steady'[c] = steady[c] \ {n} /\ UNCHANGED node
    BY <1>0, <1>8, SpoilType DEF ServerChange, adapter
  <2>2. \A m \in Nodes \ {n} : m \in up => m \in up'
    BY <1>8 DEF ServerChange
  <2>3. QED
    BY <1>a, <2>1, <2>2
<1>9. CASE UNCHANGED <<node, up, steady>>
  BY <1>b, <1>9
<1>10. ASSUME NEW d \in Callers, Execute(d) \/ CallStep(d) \/ CancelBackoff(d) PROVE Kept
  BY <1>1, <1>2, <1>3, <1>9, <1>10
     DEF CallStep, Lock, Scan, Pick, RunOk, Retry, CancelBackoff, adapter
<1>11. ASSUME NEW n \in Nodes, Age(n) \/ CheckStep(n) \/ MarkBegin(n) PROVE Kept
  BY <1>4, <1>5, <1>9, <1>11 DEF CheckStep, Age, CheckBegin, LockAdapter, Walk, MarkBegin
<1>12. CASE Tick \/ Close \/ UNCHANGED vars
  BY <1>9, <1>12 DEF Tick, Close, adapter, vars
<1>13. QED
  BY <1>6, <1>7, <1>8, <1>10, <1>11, <1>12 DEF Next

\* The caller's own step.
LEMMA OwnSteady ==
    ASSUME TypeInv, SteadyInv, [Next]_vars,
           NEW c \in Callers, Execute(c) \/ CallStep(c) \/ CancelBackoff(c)
    PROVE  SteadyOf(c)'
<1> DEFINE r == call[c]
<1>0. /\ call \in [Callers -> Calls] /\ r \in Calls /\ SteadyOf(c)
      /\ steady \in [Callers -> SUBSET Nodes] /\ steady[c] \subseteq Nodes
  BY DEF TypeInv, TypeOK, SteadyInv
<1>1. CASE Execute(c)
  <2>1. call'[c] = [Resting("none") EXCEPT !.pc = "lock"]
    BY <1>0, <1>1, CallEffects
  <2>2. call'[c].pc = "lock" /\ call'[c].result = "none"
    BY <2>1 DEF Resting
  <2>3. \A n \in steady'[c] : Works(n)'
    BY <1>0, <1>1 DEF Execute, Works, InRotation, adapter
  <2>4. QED
    BY <2>2, <2>3 DEF SteadyOf
\* From here on the call is under way, and its history only shrinks.
<1>2. CASE ~Execute(c)
  <2>1. r.pc # "idle"
    BY <1>2 DEF CallStep, Lock, Scan, Pick, ReadClient, RunOk, RunFails, Degrade, Retry, CancelBackoff
  <2>2. steady'[c] \subseteq steady[c] /\ \A n \in steady'[c] : Works(n)'
    BY <1>0, <1>2, <2>1, WorksKept DEF SteadyOf
  <2>3. r.result = "unavailable" => steady'[c] = {}
    BY <1>0, <2>2 DEF SteadyOf
  <2>4. CASE Lock(c)
    <3>1. call'[c] = Locked(r)
      BY <1>0, <2>4, CallEffects
    <3>2. call'[c].pc = "scan" /\ call'[c].at = 1 /\ call'[c].result = r.result
      BY <1>0, <3>1 DEF Locked, Calls, CallStates
    <3>3. \A n \in steady'[c] : ~ (n < 1)
      BY <1>0, <2>2 DEF Nodes
    <3>4. QED
      BY <2>2, <2>3, <3>2, <3>3 DEF SteadyOf
  <2>5. CASE Scan(c)
    <3> DEFINE found == InRotation(r.at)
    <3>1. call'[c] = Scanned(r, found) /\ r.pc = "scan" /\ r.at \in Nodes
      <4>1. call'[c] = Scanned(r, found)
        BY <1>0, <2>5, CallEffects
      <4>2. QED
        BY <1>0, <2>5, <4>1 DEF Scan, Calls
    <3>2. /\ call'[c].pc = (IF r.at = N THEN "pick" ELSE "scan") /\ call'[c].at = r.at + 1
          /\ call'[c].list = (IF found THEN r.list \cup {r.at} ELSE r.list)
          /\ call'[c].result = r.result
      <4> HIDE DEF found
      <4> QED
        BY <1>0, <3>1 DEF Scanned, Calls, CallStates
    <3>3. ASSUME NEW n \in steady'[c], n < r.at + 1 PROVE n \in call'[c].list
      <4>1. n \in steady[c] /\ n \in Nodes /\ InRotation(n)
        BY <1>0, <2>1, <2>2 DEF SteadyOf, Works
      <4>2. CASE n = r.at
        BY <3>2, <4>1, <4>2
      <4>3. CASE n # r.at
        <5>1. n < r.at
          BY <3>1, <3>3, <4>1, <4>3 DEF Nodes
        <5>2. QED
          BY <1>0, <3>1, <3>2, <4>1, <5>1 DEF SteadyOf
      <4>4. QED
        BY <4>2, <4>3
    <3>4. r.at = N => \A n \in steady'[c] : n < r.at + 1
      BY <1>0, <2>2 DEF Nodes
    <3>5. QED
      BY <2>2, <2>3, <3>2, <3>3, <3>4 DEF SteadyOf
  <2>6. CASE Pick(c)
    <3>1. steady'[c] \subseteq r.list
      BY <1>0, <2>2, <2>6 DEF SteadyOf, Pick
    <3>2. ASSUME r.list = {}, call' = [call EXCEPT ![c] = Returned(r, "unavailable")] PROVE SteadyOf(c)'
      <4>1. call'[c].pc = "idle"
        BY <1>0, <3>2 DEF Returned, Resting
      <4>2. QED
        BY <3>1, <3>2, <4>1 DEF SteadyOf
    <3>3. ASSUME NEW n, call' = [call EXCEPT ![c] = Picked(r, n)] PROVE SteadyOf(c)'
      <4>1. call'[c].pc = "read" /\ call'[c].result = r.result
        BY <1>0, <3>3 DEF Picked, Calls, CallStates
      <4>2. QED
        BY <2>2, <2>3, <4>1 DEF SteadyOf
    <3>4. CASE call' = [call EXCEPT ![c] = Again(r)]
      <4>1. call'[c].pc = "lock" /\ call'[c].result = r.result
        BY <1>0, <3>4 DEF Again, Calls, CallStates
      <4>2. QED
        BY <2>2, <2>3, <4>1 DEF SteadyOf
    <3>5. CASE call' = [call EXCEPT ![c] = Returned(r, "exhausted")]
      <4>1. call'[c].pc = "idle" /\ call'[c].result = "exhausted"
        BY <1>0, <3>5 DEF Returned, Resting
      <4>2. QED
        BY <4>1 DEF SteadyOf
    <3>6. QED
      BY <2>6, <3>2, <3>3, <3>4, <3>5, PickEffect
  <2>7. ASSUME NEW pc \in {"run", "degrade", "backoff"}, call' = [call EXCEPT ![c] = At(r, pc)]
        PROVE  SteadyOf(c)'
    <3>1. call'[c].pc = pc /\ call'[c].result = r.result
      BY <1>0, <2>7 DEF At, Calls, CallStates
    <3>2. QED
      BY <2>2, <2>3, <3>1 DEF SteadyOf
  <2>8. CASE RunOk(c) \/ CancelBackoff(c)
    <3>1. \E result \in {"ok", "miss", "cancelled"} : call'[c] = Resting(result)
      BY <1>0, <2>8, CallEffects
    <3>2. call'[c].pc = "idle" /\ call'[c].result # "unavailable"
      BY <3>1 DEF Resting
    <3>3. QED
      BY <3>2 DEF SteadyOf
  <2>9. CASE call' = [call EXCEPT ![c] = Returned(r, "exhausted")]
    <3>1. call'[c].pc = "idle" /\ call'[c].result = "exhausted"
      BY <1>0, <2>9 DEF Returned, Resting
    <3>2. QED
      BY <3>1 DEF SteadyOf
  <2>10. CASE Retry(c)
    <3>1. call'[c] = Again(r)
      BY <1>0, <2>10, CallEffects
    <3>2. call'[c].pc = "lock" /\ call'[c].result = r.result
      BY <1>0, <3>1 DEF Again, Calls, CallStates
    <3>3. QED
      BY <2>2, <2>3, <3>2 DEF SteadyOf
  <2>11. CASE ReadClient(c) \/ RunFails(c)
    BY <2>7, <2>11, CallEffects
  <2>12. CASE Degrade(c)
    BY <2>7, <2>9, <2>12, CallEffects DEF Degrade
  <2>13. QED
    BY <1>2, <2>4, <2>5, <2>6, <2>8, <2>10, <2>11, <2>12 DEF CallStep
<1>3. QED
  BY <1>1, <1>2

\* And every step.
LEMMA SteadyStep == TypeInv /\ SteadyInv /\ [Next]_vars => SteadyInv'
<1> SUFFICES ASSUME TypeInv, SteadyInv, [Next]_vars, NEW c \in Callers PROVE SteadyOf(c)'
  BY DEF SteadyInv
<1>1. CASE Execute(c) \/ CallStep(c) \/ CancelBackoff(c)
  BY <1>1, OwnSteady
<1>2. CASE ~ (Execute(c) \/ CallStep(c) \/ CancelBackoff(c))
  <2>1. call'[c] = call[c] /\ SteadyOf(c)
    BY <1>2, CallKept DEF SteadyInv
  <2>2. steady'[c] \subseteq steady[c] /\ \A n \in steady'[c] : Works(n) => Works(n)'
    BY <1>2, WorksKept
  <2>3. QED
    BY <2>1, <2>2 DEF SteadyOf
<1>3. QED
  BY <1>1, <1>2

-----------------------------------------------------------------------------
(***************************************************************************)
(* Clients and Close.                                                      *)
(***************************************************************************)
\* No step leaves a node in rotation without a client or opens one again.
LEMMA RotationStep == TypeInv /\ RotationInv /\ [Next]_vars => RotationInv'
<1> SUFFICES ASSUME TypeInv, RotationInv, [Next]_vars PROVE RotationInv'
  OBVIOUS
<1>0. /\ node \in [Nodes -> NodeStates] /\ call \in [Callers -> Calls]
      /\ closing \in [pc : {"open", "nodes", "closed"}, at : 1..(N + 1)]
  BY DEF TypeInv, TypeOK, NodeStates
<1>a. ASSUME UNCHANGED closing,
             \A n \in Nodes : /\ node'[n].state = "healthy" => node'[n].client # "none"
                              /\ node'[n].client = "open" => node[n].client = "open"
      PROVE  RotationInv'
  BY <1>0, <1>a DEF RotationInv
<1>1. ASSUME NEW c \in Callers, ReadClient(c) \/ RunFails(c) PROVE RotationInv'
  <2>1. UNCHANGED closing
    BY <1>1 DEF ReadClient, RunFails
  <2>2. QED
    BY <1>1, <1>a, <2>1, ErrorEffect DEF RotationInv
<1>2. ASSUME NEW c \in Callers, Degrade(c) PROVE RotationInv'
  <2>1. call[c].target \in Nodes /\ UNCHANGED closing
    BY <1>0, <1>2 DEF Degrade, Calls
  <2>2. CASE node' = [node EXCEPT ![call[c].target].state = "degraded"]
    BY <1>a, <2>1, <2>2, DegradeEffect DEF RotationInv
  <2>3. CASE UNCHANGED node
    BY <1>a, <2>1, <2>3 DEF RotationInv
  <2>4. QED
    BY <1>2, <2>2, <2>3 DEF Degrade
<1>3. ASSUME NEW n \in Nodes, PingFails(n) PROVE RotationInv'
  <2>1. UNCHANGED closing
    BY <1>3 DEF PingFails
  <2>2. QED
    BY <1>3, <1>a, <2>1, PingFailsEffect DEF RotationInv
<1>4. ASSUME NEW n \in Nodes, PingOk(n) PROVE RotationInv'
  <2>1. UNCHANGED closing
    BY <1>4 DEF PingOk
  <2>2. QED
    BY <1>4, <1>a, <2>1, PingOkEffect DEF RotationInv
<1>5. CASE MarkNode
  <2>1. marking \in Nodes /\ UNCHANGED closing
    BY <1>5 DEF MarkNode, TypeInv, TypeOK, Nodes
  <2>2. node' = [node EXCEPT ![marking].state = "failed"]
    BY <1>5 DEF MarkNode
  <2>3. QED
    BY <1>a, <2>1, <2>2, DegradeEffect DEF RotationInv
<1>6. ASSUME NEW m \in Nodes, CloseNode(m) PROVE RotationInv'
  <2>1. closing.at = m /\ closing'.at = m + 1 /\ closing'.pc = IF m = N THEN "closed" ELSE "nodes"
    BY <1>6 DEF CloseNode
  <2>2. \A n \in Nodes : node'[n].state = "healthy" => node'[n].client # "none"
    BY <1>6, CloseNodeEffect DEF RotationInv
  <2>3. ASSUME NEW n \in Nodes, n < m + 1 PROVE node'[n].client # "open"
    <3>1. CASE n = m
      BY <1>6, <3>1, CloseNodeEffect
    <3>2. CASE n # m
      <4>1. n < closing.at
        BY <2>1, <2>3, <3>2 DEF Nodes
      <4>2. node'[n] = node[n]
        BY <1>6, <3>2, CloseNodeEffect
      <4>3. QED
        BY <4>1, <4>2 DEF RotationInv
    <3>3. QED
      BY <3>1, <3>2
  <2>4. QED
    BY <2>1, <2>2, <2>3 DEF RotationInv
<1>7. CASE Close
  <2>1. closing' = [closing EXCEPT !.pc = "nodes"] /\ UNCHANGED node
    BY <1>7 DEF Close, adapter
  <2>2. closing'.pc = "nodes" /\ closing'.at = closing.at
    BY <1>0, <2>1
  <2>3. QED
    BY <2>1, <2>2 DEF RotationInv
<1>8. CASE UNCHANGED <<node, closing>>
  BY <1>8, <1>a DEF RotationInv
<1>9. ASSUME NEW c \in Callers, Execute(c) \/ CallStep(c) \/ CancelBackoff(c) PROVE RotationInv'
  BY <1>1, <1>2, <1>8, <1>9
     DEF CallStep, Execute, Lock, Scan, Pick, RunOk, Retry, CancelBackoff, adapter
<1>10. ASSUME NEW n \in Nodes, Age(n) \/ CheckStep(n) \/ MarkBegin(n) \/ ServerChange(n) PROVE RotationInv'
  BY <1>3, <1>4, <1>8, <1>10
     DEF CheckStep, Age, CheckBegin, LockAdapter, Walk, MarkBegin, ServerChange, adapter
<1>11. CASE Tick \/ UNCHANGED vars
  BY <1>8, <1>11 DEF Tick, vars, adapter
<1>12. QED
  BY <1>5, <1>6, <1>7, <1>9, <1>10, <1>11 DEF Next

-----------------------------------------------------------------------------
(***************************************************************************)
(* ExecuteWithRetry implements Failover, step by step.                     *)
(***************************************************************************)
\* Before its first call a caller has tried nothing.
LEMMA CallInit == ASSUME Init, NEW c \in Callers PROVE Call(c)!Init
<1>1. call[c].pc = "idle" /\ call[c].result = "none"
  BY DEF Init, Resting
<1>2. Result(c) = "none"
  BY <1>1 DEF Result
<1>3. QED
  BY <1>1, <1>2 DEF Call!Init

\* What Failover sees of a call that has returned, and of one under way.
LEMMA Outcome ==
    ASSUME NEW c \in Callers, call[c] \in Calls
    PROVE  /\ call[c].pc # "idle" <=> Result(c) = "pending"
           /\ call[c].pc = "idle" /\ call[c].result \in {"ok", "miss"} => Result(c) = "ok"
           /\ call[c].pc = "idle" /\ call[c].result \in {"unavailable", "exhausted", "cancelled"} =>
                Result(c) = "failed"
  BY DEF Result, Calls, CallStates

\* The same after a step.
LEMMA OutcomeNext ==
    ASSUME NEW c \in Callers, call'[c] \in Calls
    PROVE  /\ call'[c].pc # "idle" => Result(c)' = "pending"
           /\ call'[c].pc = "idle" /\ call'[c].result \in {"ok", "miss"} => Result(c)' = "ok"
           /\ call'[c].pc = "idle" /\ call'[c].result \in {"unavailable", "exhausted", "cancelled"} =>
                Result(c)' = "failed"
  BY DEF Result, Calls, CallStates

\* A step that changes neither what was tried nor what is being worked on is none of Failover's.
LEMMA StutterRefines ==
    ASSUME NEW c \in Callers, call[c] \in Calls, call'[c] \in Calls,
           call[c].pc \notin {"idle", "read", "run"}, call'[c].pc \notin {"idle", "read", "run"},
           call'[c].tried = call[c].tried
    PROVE  UNCHANGED Call(c)!vars
<1>1. Result(c) = "pending" /\ Result(c)' = "pending"
  BY Outcome, OutcomeNext
<1>2. QED
  BY <1>1 DEF Call!vars

\* A call that returns an error between two nodes gives up.
LEMMA GiveUpRefines ==
    ASSUME NEW c \in Callers, call[c] \in Calls, call'[c] \in Calls,
           call[c].pc \notin {"idle", "read", "run"}, call'[c].pc = "idle",
           call'[c].result \in {"unavailable", "exhausted", "cancelled"}
    PROVE  Call(c)!GiveUp
<1>1. Result(c) = "pending" /\ Result(c)' = "failed"
  BY Outcome, OutcomeNext
<1>2. QED
  BY <1>1 DEF Call!GiveUp, Call!End

\* Every step of a caller is a step of its call, or none.
LEMMA OwnRefines ==
    ASSUME TypeInv, AttemptInv, NEW c \in Callers, Execute(c) \/ CallStep(c) \/ CancelBackoff(c)
    PROVE  [Call(c)!Next]_(Call(c)!vars)
<1> DEFINE r == call[c]
<1>0. call \in [Callers -> Calls] /\ r \in Calls /\ call'[c] \in Calls /\ AttemptOf(c)
  BY CallsTyped DEF TypeInv, AttemptInv
<1>a. /\ r.tried \in SUBSET Nodes /\ r.list \in SUBSET Nodes /\ r.attempt \in 0..MaxRetries
      /\ Cardinality(r.tried) \in Nat
  BY <1>0, TriedCard DEF Calls, CallStates
<1>1. CASE Execute(c)
  <2>1. call'[c] = [Resting("none") EXCEPT !.pc = "lock"] /\ r.pc = "idle"
    BY <1>0, <1>1, CallEffects DEF Execute
  <2>2. call'[c].pc = "lock" /\ call'[c].tried = {}
    BY <2>1 DEF Resting
  <2>3. Result(c) # "pending" /\ Result(c)' = "pending"
    BY <1>0, <2>1, <2>2, Outcome, OutcomeNext
  <2>4. Call(c)!Begin
    BY <2>1, <2>2, <2>3 DEF Call!Begin
  <2>5. QED
    BY <2>4 DEF Call!Next
<1>2. CASE Lock(c)
  <2>1. call'[c] = Locked(r) /\ r.pc = "lock"
    BY <1>0, <1>2, CallEffects DEF Lock
  <2>2. call'[c].pc = "scan" /\ call'[c].tried = r.tried
    BY <1>0, <2>1 DEF Locked, Calls, CallStates
  <2>3. QED
    BY <1>0, <2>1, <2>2, StutterRefines
<1>3. CASE Scan(c)
  <2>1. call'[c] = Scanned(r, InRotation(r.at)) /\ r.pc = "scan"
    <3>1. call'[c] = Scanned(r, InRotation(r.at))
      BY <1>0, <1>3, CallEffects
    <3>2. QED
      BY <1>3, <3>1 DEF Scan
  <2>2. call'[c].pc \in {"scan", "pick"} /\ call'[c].tried = r.tried
    BY <1>0, <2>1 DEF Scanned, Calls, CallStates
  <2>3. QED
    BY <1>0, <2>1, <2>2, StutterRefines
<1>4. CASE Pick(c)
  <2>0. r.pc = "pick"
    BY <1>4 DEF Pick
  <2>1. ASSUME NEW result \in {"unavailable", "exhausted"}, call' = [call EXCEPT ![c] = Returned(r, result)]
        PROVE  Call(c)!GiveUp
    <3>1. call'[c].pc = "idle" /\ call'[c].result = result
      BY <1>0, <2>1 DEF Returned, Resting
    <3>2. QED
      BY <1>0, <2>0, <3>1, GiveUpRefines
  <2>2. ASSUME NEW n \in r.list, n \notin r.tried, call' = [call EXCEPT ![c] = Picked(r, n)]
        PROVE  Call(c)!Attempt(n)
    <3>1. call'[c].pc = "read" /\ call'[c].tried = r.tried \cup {n} /\ call'[c].target = n
      BY <1>0, <2>2 DEF Picked, Calls, CallStates
    <3>2. Cardinality(r.tried) < MaxRetries + 1
      BY <1>0, <1>a, <2>0 DEF AttemptOf
    <3>3. Call(c)!Cardinality(r.tried) = Cardinality(r.tried)
      BY DEF Call!Cardinality, Cardinality
    <3>4. Result(c) = "pending" /\ Result(c)' = "pending"
      BY <1>0, <2>0, <3>1, Outcome, OutcomeNext
    <3>5. QED
      BY <2>0, <2>2, <3>1, <3>2, <3>3, <3>4 DEF Call!Attempt
  <2>3. CASE call' = [call EXCEPT ![c] = Again(r)]
    <3>1. call'[c].pc = "lock" /\ call'[c].tried = r.tried
      BY <1>0, <2>3 DEF Again, Calls, CallStates
    <3>2. QED
      BY <1>0, <2>0, <3>1, StutterRefines
  <2>4. r.list \subseteq Nodes
    BY <1>a
  <2>5. QED
    BY <1>4, <2>1, <2>2, <2>3, <2>4, PickEffect DEF Call!Next
\* The command has failed, or there was no client to run it with.
<1>5. ASSUME r.pc \in {"read", "run"}, call'[c] = At(r, "degrade") PROVE Call(c)!Fail
  <2>1. call'[c].pc = "degrade" /\ call'[c].tried = r.tried
    BY <1>0, <1>5 DEF At, Calls, CallStates
  <2>2. r.target # 0
    BY <1>0, <1>5 DEF Calls, Nodes
  <2>3. Result(c) = "pending" /\ Result(c)' = "pending"
    BY <1>0, <1>5, <2>1, Outcome, OutcomeNext
  <2>4. QED
    BY <1>5, <2>1, <2>2, <2>3 DEF Call!Fail
<1>6. CASE ReadClient(c)
  <2>1. r.pc = "read"
    BY <1>6 DEF ReadClient
  <2>2. CASE call' = [call EXCEPT ![c] = At(r, "run")]
    <3>1. call'[c].pc = "run" /\ call'[c].tried = r.tried /\ call'[c].target = r.target
      BY <1>0, <2>2 DEF At, Calls, CallStates
    <3>2. Result(c) = "pending" /\ Result(c)' = "pending"
      BY <1>0, <2>1, <3>1, Outcome, OutcomeNext
    <3>3. QED
      BY <2>1, <3>1, <3>2 DEF Call!vars
  <2>3. CASE call' = [call EXCEPT ![c] = At(r, "degrade")]
    BY <1>0, <1>5, <2>1, <2>3 DEF Call!Next
  <2>4. QED
    BY <1>6, <2>2, <2>3, CallEffects
<1>7. CASE RunOk(c)
  <2>1. r.pc = "run"
    BY <1>7 DEF RunOk
  <2>2. call'[c].pc = "idle" /\ call'[c].result \in {"ok", "miss"}
    <3>1. \E result \in {"ok", "miss"} : call'[c] = Resting(result)
      BY <1>0, <1>7, CallEffects
    <3>2. QED
      BY <3>1 DEF Resting
  <2>3. r.target # 0
    BY <1>0, <2>1 DEF Calls, Nodes
  <2>4. Result(c)' = "ok"
    BY <1>0, <2>2, OutcomeNext
  <2>5. Call(c)!Succeed
    BY <2>1, <2>2, <2>3, <2>4 DEF Call!Succeed, Call!End
  <2>6. QED
    BY <2>5 DEF Call!Next
<1>8. CASE RunFails(c)
  <2>1. call'[c] = At(r, "degrade")
    BY <1>0, <1>8, CallEffects
  <2>2. QED
    BY <1>5, <1>8, <2>1 DEF RunFails, Call!Next
<1>9. CASE Degrade(c)
  <2>0. r.pc = "degrade"
    BY <1>9 DEF Degrade
  <2>1. CASE call' = [call EXCEPT ![c] = At(r, "backoff")]
    <3>1. call'[c].pc = "backoff" /\ call'[c].tried = r.tried
      BY <1>0, <2>1 DEF At, Calls, CallStates
    <3>2. QED
      BY <1>0, <2>0, <3>1, StutterRefines
  <2>2. CASE call' = [call EXCEPT ![c] = Returned(r, "exhausted")]
    <3>1. call'[c].pc = "idle" /\ call'[c].result = "exhausted"
      BY <1>0, <2>2 DEF Returned, Resting
    <3>2. QED
      BY <1>0, <2>0, <3>1, GiveUpRefines DEF Call!Next
  <2>3. QED
    BY <1>9, <2>1, <2>2, CallEffects DEF Degrade
<1>10. CASE Retry(c)
  <2>1. call'[c] = Again(r) /\ r.pc = "backoff"
    BY <1>0, <1>10, CallEffects DEF Retry
  <2>2. call'[c].pc = "lock" /\ call'[c].tried = r.tried
    BY <1>0, <2>1 DEF Again, Calls, CallStates
  <2>3. QED
    BY <1>0, <2>1, <2>2, StutterRefines
<1>11. CASE CancelBackoff(c)
  <2>1. call'[c] = Resting("cancelled") /\ r.pc = "backoff"
    BY <1>0, <1>11, CallEffects DEF CancelBackoff
  <2>2. call'[c].pc = "idle" /\ call'[c].result = "cancelled"
    BY <2>1 DEF Resting
  <2>3. QED
    BY <1>0, <2>1, <2>2, GiveUpRefines DEF Call!Next
<1>12. QED
  BY <1>1, <1>2, <1>3, <1>4, <1>6, <1>7, <1>8, <1>9, <1>10, <1>11 DEF CallStep

\* So is every step of the system, for every caller.
LEMMA StepRefines ==
    TypeInv /\ AttemptInv /\ [Next]_vars => \A c \in Callers : [Call(c)!Next]_(Call(c)!vars)
<1> SUFFICES ASSUME TypeInv, AttemptInv, [Next]_vars, NEW c \in Callers
             PROVE  [Call(c)!Next]_(Call(c)!vars)
  OBVIOUS
<1>1. CASE Execute(c) \/ CallStep(c) \/ CancelBackoff(c)
  BY <1>1, OwnRefines
<1>2. CASE ~ (Execute(c) \/ CallStep(c) \/ CancelBackoff(c))
  <2>1. call'[c] = call[c]
    BY <1>2, CallKept
  <2>2. QED
    BY <2>1 DEF Call!vars, Result
<1>3. QED
  BY <1>1, <1>2

-----------------------------------------------------------------------------
(***************************************************************************)
(* The theorems.                                                           *)
(***************************************************************************)
\* TypeInv holds for ever; it is used by all that follows.
LEMMA TypeInvariant == Spec => []TypeInv
<1>1. Init => TypeInv
  BY TypeInit
<1>2. TypeInv /\ [Next]_vars => TypeInv'
  BY TypeStep
<1>3. QED
  BY <1>1, <1>2, PTL DEF Spec

\* Attempts stay within MaxRetries, error counts within the threshold, scans and checks
\* within the node list, whatever commands, checks, MarkNodeFailed and Close do.
THEOREM TypeCorrect == Spec => []TypeOK
<1>1. TypeInv => TypeOK
  BY DEF TypeInv
<1>2. QED
  BY <1>1, TypeInvariant, PTL

\* A command runs on a node at most once and on MaxRetries + 1 nodes at most, for any
\* number of nodes and callers and whatever the selection strategy comes back to
\* (ExecuteWithRetry): the turns, which are bounded, bound the nodes tried.
THEOREM AtMostOneAttempt == Spec => OneAttemptPerNode
<1>1. Init => AttemptInv
  BY TriedCard DEF Init, AttemptInv, AttemptOf, Resting
<1>2. TypeInv /\ AttemptInv /\ [Next]_vars => AttemptInv'
  BY AttemptStep
<1>3. Init => \A c \in Callers : Call(c)!Init
  BY CallInit
<1>4. TypeInv /\ AttemptInv /\ [Next]_vars => \A c \in Callers : [Call(c)!Next]_(Call(c)!vars)
  BY StepRefines
<1>5. QED
  BY <1>1, <1>2, <1>3, <1>4, TypeInvariant, PTL DEF Spec, OneAttemptPerNode

\* "no healthy Redis nodes available" is returned only when no node was up and in rotation
\* all the while the call lasted, although getHealthyNodes reads them one by one.
THEOREM UnavailableIsTrue == Spec => []UnavailableOnlyWithoutNode
<1>1. Init => SteadyInv
  BY DEF Init, SteadyInv, SteadyOf, Resting
<1>2. TypeInv /\ SteadyInv /\ [Next]_vars => SteadyInv'
  BY SteadyStep
<1>3. SteadyInv => UnavailableOnlyWithoutNode
  BY DEF SteadyInv, SteadyOf, UnavailableOnlyWithoutNode
<1>4. QED
  BY <1>1, <1>2, <1>3, TypeInvariant, PTL DEF Spec

\* A node in rotation has a client, and after Close no client is open nor opened again,
\* for any number of nodes (checkNodeHealth, checkNodeDegradation, MarkNodeFailed, Close).
THEOREM RotationKeepsClients == Spec => []RotationHasClient
<1>1. Init => RotationInv
  <2>1. ASSUME Init, NEW n \in Nodes PROVE node[n].state = "healthy" => node[n].client # "none"
    BY <2>1 DEF Init
  <2>2. ASSUME NEW n \in Nodes PROVE ~ (n < 1)
    BY DEF Nodes
  <2>3. QED
    BY <2>1, <2>2 DEF Init, RotationInv
<1>2. TypeInv /\ RotationInv /\ [Next]_vars => RotationInv'
  BY RotationStep
<1>3. RotationInv => RotationHasClient
  <2>1. \A n \in Nodes : n < N + 1
    BY DEF Nodes
  <2>2. QED
    BY <2>1 DEF RotationInv, RotationHasClient
<1>4. QED
  BY <1>1, <1>2, <1>3, TypeInvariant, PTL DEF Spec

=============================================================================
