-------------------------- MODULE AmqpClusterProofs --------------------------
(***************************************************************************)
(* The safety of AmqpCluster for every number of nodes, every set of         *)
(* publishers and every mix of faults, and the step-by-step proof that       *)
(* Publish implements Failover.  The invariants: TypeInv, the types and      *)
(* where the loops of a call are; AttemptInv, why no node is sent to twice;  *)
(* SteadyInv, why a call that gives up had no node left; ClosedInv, how far  *)
(* Close has come.  The first is used by the others.                        *)
(***************************************************************************)
EXTENDS AmqpCluster, FiniteSetTheorems, WellFoundedInduction, TLAPS

USE NodesAssumption

CallStates ==
    [pc : {"idle", "scan", "select", "channel", "send", "degrade"}, next : 1..(N + 1),
     list : SUBSET Nodes, target : 0..N, failover : BOOLEAN,
     sent : SUBSET Nodes, result : {"none", "ok", "failed"}]

\* A scan is at a node, and a call that has chosen a node has one.
Calls == {r \in CallStates : /\ r.pc = "scan" => r.next \in Nodes
                             /\ r.pc \in {"channel", "send", "degrade"} => r.target \in Nodes}

TypeInv == TypeOK /\ call \in [Publishers -> Calls]

\* A node that failed a call has an error counted, so that no check restores it, and is
\* out of rotation, so that no scan finds it again, as soon as it is taken out of it.
AttemptOf(p) ==
    /\ call[p].pc = "idle" => call[p].sent = {}
    /\ call[p].sent \subseteq errors
    /\ \A n \in call[p].sent :
         \/ node[n].state # "healthy" /\ n \notin call[p].list
         \/ call[p].pc = "degrade" /\ n = call[p].target
    /\ call[p].pc \in {"channel", "send"} => call[p].target \notin call[p].sent

AttemptInv == \A p \in Publishers : AttemptOf(p)

\* A node that has worked all the while is one the failover loop has still to try.
SteadyOf(p) ==
    /\ call[p].result = "failed" => call[p].pc = "idle" /\ steady[p] = {}
    /\ call[p].failover /\ call[p].pc = "scan" =>
         \A n \in steady[p] : n < call[p].next => n \in call[p].list
    /\ call[p].failover /\ call[p].pc \in {"select", "channel", "send", "degrade"} =>
         steady[p] \subseteq call[p].list

SteadyInv ==
    /\ \A n \in Nodes : node[n].channel => node[n].conn # "none"
    /\ \A p \in Publishers : \A n \in steady[p] : Works(n)
    /\ \A p \in Publishers : SteadyOf(p)

Shut(n) == node[n].conn # "open" /\ ~node[n].channel

\* Close has shut every node it has passed, and nothing opens a connection again.
ClosedInv ==
    /\ closing.pc = "closed" => closing.next = N + 1
    /\ closing.pc = "open" => closing.next = 1
    /\ \A n \in Nodes : n < closing.next => Shut(n)

-----------------------------------------------------------------------------
(***************************************************************************)
(* Types.                                                                  *)
(***************************************************************************)
\* The numbers a loop over the nodes goes through.
LEMMA NodesRange ==
    /\ 1 \in Nodes /\ 1 \in 1..(N + 1) /\ 0 \in 0..N
    /\ \A n \in Nodes : n \in 0..N /\ n + 1 \in 1..(N + 1) /\ (n # N => n + 1 \in Nodes)
  BY DEF Nodes

\* A call at rest, and one that scans anew, is a call.
LEMMA RestingType ==
    ASSUME NEW result \in {"none", "ok", "failed"}
    PROVE  Resting(result) \in Calls /\ [Resting(result) EXCEPT !.pc = "scan"] \in Calls
<1>1. Resting(result) \in CallStates
  BY NodesRange DEF Resting, CallStates
<1>2. [Resting(result) EXCEPT !.pc = "scan"] \in CallStates
  BY NodesRange DEF Resting, CallStates
<1>3. QED
  BY <1>1, <1>2, NodesRange DEF Resting, Calls

\* The first of some nodes is one of them (getHealthyNodes keeps their order).
LEMMA FirstIn ==
    ASSUME NEW S \in SUBSET Nodes, S # {}
    PROVE  First(S) \in S
<1> DEFINE Less == {pair \in Nat \X Nat : pair[1] < pair[2]}
<1>1. IsWellFoundedOn(Less, Nat)
  BY NatLessThanWellFounded DEF OpToRel
<1>2. S \subseteq Nat
  BY DEF Nodes
<1>3. \E n \in S : \A m \in S : ~ (<<m, n>> \in Less)
  <2> HIDE DEF Less
  <2> QED
    BY <1>1, <1>2, WFMin
<1>4. PICK n \in S : \A m \in S : ~ (<<m, n>> \in Less)
  BY <1>3
<1>5. \A m \in S : n <= m
  <2>1. ASSUME NEW m \in S PROVE n <= m
    <3>1. m \in Nat /\ n \in Nat /\ <<m, n>> \notin Less
      BY <1>2, <1>4
    <3>2. <<m, n>> \in Nat \X Nat /\ <<m, n>>[1] = m /\ <<m, n>>[2] = n
      BY <3>1
    <3>3. ~ (m < n)
      BY <3>1, <3>2
    <3>4. QED
      BY <3>1, <3>3
  <2>2. QED
    BY <2>1
<1>6. QED
  BY <1>5 DEF First

\* Replacing one call by a call keeps the calls typed.
LEMMA CallType ==
    ASSUME call \in [Publishers -> Calls], NEW p \in Publishers, NEW r \in Calls,
           call' = [call EXCEPT ![p] = r]
    PROVE  call' \in [Publishers -> Calls]
  OBVIOUS

\* Going on to the next node, or giving up, keeps the calls typed.
LEMMA TryType ==
    ASSUME TypeInv, NEW p \in Publishers, NEW S \in SUBSET Nodes, Try(p, S)
    PROVE  call' \in [Publishers -> Calls]
<1>1. call[p] \in Calls
  BY DEF TypeInv
<1>2. CASE S = {}
  BY <1>2, RestingType, CallType DEF Try, TypeInv
<1>3. CASE S # {}
  <2>1. First(S) \in Nodes
    BY <1>3, FirstIn
  <2>2. [call[p] EXCEPT !.pc = "channel", !.list = S, !.target = First(S)] \in Calls
    <3>1. call[p] \in CallStates
      BY <1>1 DEF Calls
    <3>2. [call[p] EXCEPT !.pc = "channel", !.list = S, !.target = First(S)] \in CallStates
      BY <2>1, <3>1, NodesRange DEF CallStates
    <3>3. QED
      BY <2>1, <3>1, <3>2 DEF Calls, CallStates
  <2>3. QED
    BY <1>3, <2>2, CallType DEF Try, TypeInv
<1>4. QED
  BY <1>2, <1>3

\* So does starting the failover loop.
LEMMA RescanType ==
    ASSUME TypeInv, NEW p \in Publishers, Rescan(p)
    PROVE  call' \in [Publishers -> Calls]
<1>1. call[p].sent \in SUBSET Nodes
  BY DEF TypeInv, Calls, CallStates
<1>2. [Resting("none") EXCEPT !.pc = "scan", !.failover = TRUE, !.sent = call[p].sent] \in Calls
  <2>1. [Resting("none") EXCEPT !.pc = "scan", !.failover = TRUE, !.sent = call[p].sent] \in CallStates
    BY <1>1, NodesRange DEF Resting, CallStates
  <2>2. QED
    BY <2>1, NodesRange DEF Resting, Calls
<1>3. QED
  BY <1>2, CallType DEF Rescan, TypeInv

\* And what publishToNode's error leads to, whichever of the two it is.
LEMMA TryNextType ==
    ASSUME TypeInv, NEW p \in Publishers, TryNext(p)
    PROVE  call' \in [Publishers -> Calls]
<1>1. call[p].list \ {call[p].target} \in SUBSET Nodes
  BY DEF TypeInv, Calls, CallStates
<1>2. QED
  BY <1>1, TryType, RescanType DEF TryNext

\* Every step of Publish keeps the calls typed.
LEMMA CallsTyped ==
    ASSUME TypeInv, NEW p \in Publishers, Publish(p) \/ PublishStep(p)
    PROVE  call' \in [Publishers -> Calls]
<1>0. call[p] \in Calls
  BY DEF TypeInv
<1>1. CASE Publish(p)
  BY <1>1, RestingType, CallType DEF Publish, TypeInv
<1>2. CASE Scan(p)
  <2> DEFINE r == [call[p] EXCEPT !.next = call[p].next + 1,
                     !.list = IF node[call[p].next].state = "healthy" THEN call[p].list \cup {call[p].next}
                              ELSE call[p].list,
                     !.pc = IF call[p].next = N THEN "select" ELSE "scan"]
  <2>1. call[p].next \in 1..N
    BY <1>0, <1>2 DEF Scan, Calls, Nodes
  <2>2. call[p].next + 1 \in 1..(N + 1) /\ (call[p].next # N => call[p].next + 1 \in 1..N)
    BY <2>1
  <2>3. r \in Calls
    <3>1. call[p] \in CallStates /\ call[p].next \in Nodes
      BY <1>0, <2>1 DEF Calls, Nodes
    <3>2. r \in CallStates
      BY <2>2, <3>1 DEF CallStates
    <3>3. r.pc \in {"select", "scan"} /\ (r.pc = "scan" => r.next \in Nodes)
      BY <2>2, <3>1 DEF CallStates, Nodes
    <3>4. QED
      BY <3>2, <3>3 DEF Calls
  <2>4. call' = [call EXCEPT ![p] = r]
    BY <1>2 DEF Scan, TypeInv
  <2>5. QED
    BY <2>3, <2>4, CallType DEF TypeInv
<1>3. CASE Select(p)
  <2>1. call[p].list \in SUBSET Nodes
    BY <1>0 DEF Calls, CallStates
  <2>2. ASSUME NEW n \in call[p].list,
               call' = [call EXCEPT ![p].pc = "channel", ![p].target = n, ![p].list = {}]
        PROVE  call' \in [Publishers -> Calls]
    <3>1. [call[p] EXCEPT !.pc = "channel", !.target = n, !.list = {}] \in Calls
      <4>1. call[p] \in CallStates
        BY <1>0 DEF Calls
      <4>2. [call[p] EXCEPT !.pc = "channel", !.target = n, !.list = {}] \in CallStates
        BY <2>1, <4>1, NodesRange DEF CallStates
      <4>3. QED
        BY <2>1, <4>1, <4>2 DEF Calls, CallStates
    <3>2. call' = [call EXCEPT ![p] = [call[p] EXCEPT !.pc = "channel", !.target = n, !.list = {}]]
      BY <2>2 DEF TypeInv
    <3>3. QED
      BY <3>1, <3>2, CallType DEF TypeInv
  <2>3. QED
    BY <1>3, <2>1, <2>2, TryType, RescanType DEF Select
<1>4. CASE GetChannel(p)
  <2>1. CASE TryNext(p)
    BY <2>1, TryNextType
  <2>2. CASE call' = [call EXCEPT ![p].pc = "send"]
    <3>1. [call[p] EXCEPT !.pc = "send"] \in Calls
      BY <1>0, <1>4 DEF GetChannel, Calls, CallStates
    <3>2. call' = [call EXCEPT ![p] = [call[p] EXCEPT !.pc = "send"]]
      BY <2>2 DEF TypeInv
    <3>3. QED
      BY <3>1, <3>2, CallType DEF TypeInv
  <2>3. QED
    BY <1>4, <2>1, <2>2 DEF GetChannel
<1>5. CASE SendOk(p)
  BY <1>5, RestingType, CallType DEF SendOk, TypeInv
<1>6. CASE SendFails(p)
  <2>1. call[p].target \in Nodes
    BY <1>0, <1>6 DEF SendFails, Calls
  <2>2. [call[p] EXCEPT !.pc = "degrade", !.sent = call[p].sent \cup {call[p].target}] \in Calls
    BY <1>0, <2>1 DEF Calls, CallStates
  <2>3. call' = [call EXCEPT ![p] =
                   [call[p] EXCEPT !.pc = "degrade", !.sent = call[p].sent \cup {call[p].target}]]
    BY <1>6 DEF SendFails, TypeInv
  <2>4. QED
    BY <2>2, <2>3, CallType DEF TypeInv
<1>7. CASE Degrade(p)
  BY <1>7, TryNextType DEF Degrade
<1>8. QED
  BY <1>1, <1>2, <1>3, <1>4, <1>5, <1>6, <1>7 DEF PublishStep

-----------------------------------------------------------------------------
\* NewClusterAdapter's first state is of the declared types.
LEMMA TypeInit == Init => TypeInv
<1> SUFFICES ASSUME Init PROVE TypeInv
  OBVIOUS
<1>1. call \in [Publishers -> Calls]
  BY RestingType DEF Init
<1>2. call \in [Publishers -> CallStates]
  BY <1>1 DEF Calls
<1>3. node \in [Nodes -> [state : {"healthy", "degraded", "failed"},
                         conn : {"none", "open", "closed"}, channel : BOOLEAN]]
  BY DEF Init, Connected
<1>4. closing \in [pc : {"open", "nodes", "closed"}, next : 1..(N + 1)]
  BY DEF Init
<1>5. /\ errors \subseteq Nodes /\ recent \subseteq Nodes /\ checks \subseteq Nodes
      /\ locked \subseteq Nodes /\ up \subseteq Nodes /\ steady \in [Publishers -> SUBSET Nodes]
  BY DEF Init
<1>6. QED
  BY <1>1, <1>2, <1>3, <1>4, <1>5 DEF TypeInv, TypeOK, CallStates

NodeStates == [state : {"healthy", "degraded", "failed"},
               conn : {"none", "open", "closed"}, channel : BOOLEAN]

\* Replacing one node by a node keeps the nodes typed.
LEMMA NodeType ==
    ASSUME node \in [Nodes -> NodeStates], NEW n \in Nodes, NEW r \in NodeStates,
           node' = [node EXCEPT ![n] = r]
    PROVE  node' \in [Nodes -> NodeStates]
  OBVIOUS

\* Taking a node out of what was steady keeps the type of the history.
LEMMA SpoilType ==
    ASSUME steady \in [Publishers -> SUBSET Nodes], NEW n, Spoil(n)
    PROVE  steady' \in [Publishers -> SUBSET Nodes]
  BY DEF Spoil

\* Every step keeps the types.
LEMMA TypeStep == TypeInv /\ [Next]_vars => TypeInv'
<1> SUFFICES ASSUME TypeInv, [Next]_vars PROVE TypeInv'
  OBVIOUS
<1> USE DEF health
<1>a. /\ call \in [Publishers -> Calls] /\ node \in [Nodes -> NodeStates]
      /\ errors \subseteq Nodes /\ recent \subseteq Nodes /\ checks \subseteq Nodes
      /\ locked \subseteq Nodes /\ up \subseteq Nodes /\ steady \in [Publishers -> SUBSET Nodes]
      /\ closing \in [pc : {"open", "nodes", "closed"}, next : 1..(N + 1)]
  BY DEF TypeInv, TypeOK, NodeStates
<1>b. ASSUME call' \in [Publishers -> Calls], node' \in [Nodes -> NodeStates],
             errors' \subseteq Nodes, recent' \subseteq Nodes, checks' \subseteq Nodes,
             locked' \subseteq Nodes, up' \subseteq Nodes, steady' \in [Publishers -> SUBSET Nodes],
             closing' \in [pc : {"open", "nodes", "closed"}, next : 1..(N + 1)]
      PROVE  TypeInv'
  <2>1. call' \in [Publishers -> CallStates]
    BY <1>b DEF Calls
  <2>2. QED
    BY <1>b, <2>1 DEF TypeInv, TypeOK, NodeStates, CallStates
<1>1. ASSUME NEW p \in Publishers, Publish(p) \/ PublishStep(p) PROVE TypeInv'
  <2>1. call' \in [Publishers -> Calls]
    BY <1>1, CallsTyped
  <2>2. node' \in [Nodes -> NodeStates]
    <3>1. CASE Degrade(p)
      <4>1. call[p].target \in Nodes
        BY <1>a, <3>1 DEF Degrade, Calls
      <4>2. QED
        BY <1>a, <3>1, <4>1 DEF Degrade, NodeStates
    <3>2. CASE node' = node
      BY <1>a, <3>2
    <3>3. QED
      BY <1>1, <3>1, <3>2
         DEF Publish, PublishStep, Scan, Select, GetChannel, SendOk, SendFails
  <2>3. errors' \subseteq Nodes
    <3>1. CASE SendFails(p)
      BY <1>a, <3>1 DEF SendFails, Calls
    <3>2. CASE errors' = errors
      BY <1>a, <3>2
    <3>3. QED
      BY <1>1, <3>1, <3>2 DEF Publish, PublishStep, Scan, Select, GetChannel, SendOk, Degrade
  <2>4. steady' \in [Publishers -> SUBSET Nodes]
    <3>1. CASE Degrade(p)
      BY <1>a, <3>1, SpoilType DEF Degrade
    <3>2. CASE Publish(p) \/ SendOk(p)
      BY <1>a, <3>2 DEF Publish, SendOk
    <3>3. CASE steady' = steady
      BY <1>a, <3>3
    <3>4. QED
      BY <1>1, <3>1, <3>2, <3>3 DEF PublishStep, Scan, Select, GetChannel, SendFails
  <2>5. UNCHANGED <<recent, checks, locked, up, closing>>
    BY <1>1 DEF Publish, PublishStep, Scan, Select, GetChannel, SendOk, SendFails, Degrade
  <2>6. QED
    BY <1>a, <1>b, <2>1, <2>2, <2>3, <2>4, <2>5
<1>2. ASSUME NEW n \in Nodes, Age(n) \/ SkipCheck(n) PROVE TypeInv'
  BY <1>2, <1>a, <1>b DEF Age, SkipCheck
<1>3. ASSUME NEW n \in Nodes, Check(n) PROVE TypeInv'
  <2>1. node' \in [Nodes -> NodeStates]
    BY <1>3, <1>a DEF Check, NodeStates
  <2>2. recent' \subseteq Nodes /\ checks' \subseteq Nodes /\ locked' \subseteq Nodes
    BY <1>3, <1>a DEF Check
  <2>3. UNCHANGED <<errors, up, call, closing, steady>>
    BY <1>3 DEF Check
  <2>4. QED
    BY <1>a, <1>b, <2>1, <2>2, <2>3
<1>4. ASSUME NEW n \in Nodes, CloseNode(n) PROVE TypeInv'
  <2>1. node' \in [Nodes -> NodeStates]
    <3> DEFINE r == [node[n] EXCEPT !.channel = FALSE,
                                    !.conn = IF node[n].conn = "open" THEN "closed" ELSE node[n].conn]
    <3>1. r \in NodeStates
      <4>1. node[n] \in NodeStates
        BY <1>a
      <4>2. QED
        BY <4>1 DEF NodeStates
    <3>2. node' = [node EXCEPT ![n] = r]
      BY <1>4, <1>a DEF CloseNode
    <3>3. QED
      BY <1>a, <3>1, <3>2, NodeType
  <2>2. closing' \in [pc : {"open", "nodes", "closed"}, next : 1..(N + 1)]
    BY <1>4, NodesRange DEF CloseNode
  <2>3. steady' \in [Publishers -> SUBSET Nodes]
    BY <1>4, <1>a, SpoilType DEF CloseNode
  <2>4. UNCHANGED <<errors, recent, checks, locked, up, call>>
    BY <1>4 DEF CloseNode
  <2>5. QED
    BY <1>a, <1>b, <2>1, <2>2, <2>3, <2>4
<1>5. ASSUME NEW n \in Nodes, BrokerChange(n) \/ ConnectionLost(n) \/ ChannelLost(n) PROVE TypeInv'
  <2>1. node' \in [Nodes -> NodeStates]
    <3>1. CASE BrokerChange(n)
      BY <1>a, <3>1 DEF BrokerChange
    <3>2. /\ [node[n] EXCEPT !.conn = "closed", !.channel = FALSE] \in NodeStates
          /\ [node[n] EXCEPT !.channel = FALSE] \in NodeStates
      <4>1. node[n] \in NodeStates
        BY <1>a
      <4>2. QED
        BY <4>1 DEF NodeStates
    <3>3. CASE ConnectionLost(n)
      <4>1. node' = [node EXCEPT ![n] = [node[n] EXCEPT !.conn = "closed", !.channel = FALSE]]
        BY <1>a, <3>3 DEF ConnectionLost
      <4>2. QED
        BY <1>a, <3>2, <4>1, NodeType
    <3>4. CASE ChannelLost(n)
      <4>1. node' = [node EXCEPT ![n] = [node[n] EXCEPT !.channel = FALSE]]
        BY <1>a, <3>4 DEF ChannelLost
      <4>2. QED
        BY <1>a, <3>2, <4>1, NodeType
    <3>5. QED
      BY <1>5, <3>1, <3>3, <3>4
  <2>2. steady' \in [Publishers -> SUBSET Nodes]
    BY <1>5, <1>a, SpoilType DEF BrokerChange, ConnectionLost, ChannelLost
  <2>3. up' \subseteq Nodes
    BY <1>5, <1>a DEF BrokerChange, ConnectionLost, ChannelLost
  <2>4. UNCHANGED <<errors, recent, checks, locked, call, closing>>
    BY <1>5 DEF BrokerChange, ConnectionLost, ChannelLost
  <2>5. QED
    BY <1>a, <1>b, <2>1, <2>2, <2>3, <2>4
<1>6. CASE Tick
  BY <1>6, <1>a, <1>b DEF Tick
<1>7. CASE Close
  <2>1. closing' \in [pc : {"open", "nodes", "closed"}, next : 1..(N + 1)]
    BY <1>7, <1>a DEF Close
  <2>2. UNCHANGED <<health, up, call, steady>>
    BY <1>7 DEF Close
  <2>3. QED
    BY <1>a, <1>b, <2>1, <2>2
<1>8. CASE UNCHANGED vars
  BY <1>8, <1>a, <1>b DEF vars
<1>9. QED
  BY <1>1, <1>2, <1>3, <1>4, <1>5, <1>6, <1>7, <1>8 DEF Next

-----------------------------------------------------------------------------
(***************************************************************************)
(* A call does not come back to a node that failed it.                     *)
(***************************************************************************)
\* A step of one publisher leaves the calls of the others alone.
LEMMA OtherCalls ==
    ASSUME TypeInv, NEW p \in Publishers, Publish(p) \/ PublishStep(p),
           NEW q \in Publishers \ {p}
    PROVE  call'[q] = call[q]
<1>1. call \in [Publishers -> Calls]
  BY DEF TypeInv
<1>2. QED
  BY <1>1 DEF Publish, PublishStep, Scan, Select, GetChannel, SendOk, SendFails, Degrade,
              Try, TryNext, Rescan

\* Checks, Close and the environment leave every call alone.
LEMMA CallsKept ==
    ASSUME [Next]_vars, ~ \E p \in Publishers : Publish(p) \/ PublishStep(p)
    PROVE  call' = call
  BY DEF Next, Age, SkipCheck, Check, CloseNode, BrokerChange, ConnectionLost, ChannelLost,
         Tick, Close, vars

\* An error is never taken back, and a node with an error that is out of rotation stays
\* out of it (checkNodeHealth's recovery needs errorCount to be 0).
LEMMA ErrorsStay ==
    ASSUME TypeInv, [Next]_vars
    PROVE  /\ errors \subseteq errors'
           /\ \A n \in errors : node[n].state # "healthy" => node'[n].state # "healthy"
<1> USE DEF health
<1>1. node \in [Nodes -> NodeStates] /\ errors \subseteq Nodes
  BY DEF TypeInv, TypeOK, NodeStates
<1>2. ASSUME NEW p \in Publishers, SendFails(p) PROVE node' = node /\ errors \subseteq errors'
  BY <1>2 DEF SendFails
<1>3. ASSUME NEW p \in Publishers, Degrade(p)
      PROVE  errors' = errors /\ \A n \in errors : node[n].state # "healthy" => node'[n].state # "healthy"
  BY <1>1, <1>3 DEF Degrade, NodeStates
<1>4. ASSUME NEW n \in Nodes, Check(n)
      PROVE  errors' = errors /\ \A m \in errors : node[m].state # "healthy" => node'[m].state # "healthy"
  BY <1>1, <1>4 DEF Check, NodeStates
<1>5. ASSUME NEW n \in Nodes, CloseNode(n) \/ ConnectionLost(n) \/ ChannelLost(n)
      PROVE  errors' = errors /\ \A m \in Nodes : node'[m].state = node[m].state
  <2>1. errors' = errors
    BY <1>5 DEF CloseNode, ConnectionLost, ChannelLost
  <2>2. CASE CloseNode(n)
    BY <1>1, <2>2, <2>1 DEF CloseNode, NodeStates
  <2>3. CASE ConnectionLost(n)
    BY <1>1, <2>3, <2>1 DEF ConnectionLost, NodeStates
  <2>4. CASE ChannelLost(n)
    BY <1>1, <2>4, <2>1 DEF ChannelLost, NodeStates
  <2>5. QED
    BY <1>5, <2>2, <2>3, <2>4
<1>6. ASSUME UNCHANGED <<node, errors>>
      PROVE  errors \subseteq errors' /\ \A n \in errors : node[n].state # "healthy" => node'[n].state # "healthy"
  BY <1>6
<1>7. QED
  BY <1>1, <1>2, <1>3, <1>4, <1>5, <1>6
     DEF Next, Publish, PublishStep, Scan, Select, GetChannel, SendOk, Age, SkipCheck, BrokerChange,
         Tick, Close, vars

\* A call that goes on to one of some nodes none of which it has sent to.
LEMMA TryAttempt ==
    ASSUME TypeInv, TypeInv', NEW p \in Publishers, NEW S \in SUBSET Nodes, Try(p, S),
           call[p].sent \subseteq errors', \A n \in call[p].sent : node'[n].state # "healthy" /\ n \notin S
    PROVE  AttemptOf(p)'
<1>1. call[p] \in Calls /\ call \in [Publishers -> Calls]
  BY DEF TypeInv
<1>2. CASE S = {}
  <2>1. call'[p] = Resting("failed")
    BY <1>1, <1>2 DEF Try
  <2>2. QED
    BY <2>1 DEF AttemptOf, Resting
<1>3. CASE S # {}
  <2>1. call'[p] = [call[p] EXCEPT !.pc = "channel", !.list = S, !.target = First(S)]
    BY <1>1, <1>3 DEF Try
  <2>2. /\ call'[p].pc = "channel" /\ call'[p].list = S /\ call'[p].target = First(S)
        /\ call'[p].sent = call[p].sent
    BY <1>1, <2>1 DEF Calls, CallStates
  <2>3. First(S) \in S
    BY <1>3, FirstIn
  <2>4. QED
    BY <2>2, <2>3 DEF AttemptOf
<1>4. QED
  BY <1>2, <1>3

\* A call that starts the failover loop with what it has sent so far.
LEMMA RescanAttempt ==
    ASSUME TypeInv, NEW p \in Publishers, Rescan(p),
           call[p].sent \subseteq errors', \A n \in call[p].sent : node'[n].state # "healthy"
    PROVE  AttemptOf(p)'
<1>1. call'[p] = [Resting("none") EXCEPT !.pc = "scan", !.failover = TRUE, !.sent = call[p].sent]
  BY DEF TypeInv, Rescan
<1>2. call'[p].pc = "scan" /\ call'[p].list = {} /\ call'[p].sent = call[p].sent
  BY <1>1 DEF Resting
<1>3. QED
  BY <1>2 DEF AttemptOf

\* A call whose choice failed.
LEMMA TryNextAttempt ==
    ASSUME TypeInv, TypeInv', NEW p \in Publishers, TryNext(p), call[p].sent \subseteq errors',
           \A n \in call[p].sent : node'[n].state # "healthy" /\ n \notin call[p].list \ {call[p].target}
    PROVE  AttemptOf(p)'
<1>1. call[p].list \ {call[p].target} \in SUBSET Nodes
  BY DEF TypeInv, Calls, CallStates
<1>2. QED
  BY <1>1, TryAttempt, RescanAttempt DEF TryNext

\* The publisher's own step.
LEMMA OwnAttempt ==
    ASSUME TypeInv, TypeInv', AttemptInv, [Next]_vars,
           NEW p \in Publishers, Publish(p) \/ PublishStep(p)
    PROVE  AttemptOf(p)'
<1>0. /\ call[p] \in Calls /\ call \in [Publishers -> Calls] /\ AttemptOf(p)
      /\ node \in [Nodes -> NodeStates]
  BY DEF TypeInv, TypeOK, NodeStates, AttemptInv
<1>a. errors \subseteq errors'
  BY ErrorsStay
<1>b. \A n \in call[p].sent : node[n].state # "healthy" => node'[n].state # "healthy"
  BY <1>0, ErrorsStay DEF AttemptOf
<1>1. CASE Publish(p)
  <2>1. call'[p] = [Resting("none") EXCEPT !.pc = "scan"]
    BY <1>0, <1>1 DEF Publish
  <2>2. QED
    BY <2>1 DEF AttemptOf, Resting
<1>2. CASE Scan(p)
  <2>1. /\ call'[p].pc \in {"select", "scan"} /\ call'[p].sent = call[p].sent
        /\ call'[p].list \subseteq call[p].list \cup
              (IF node[call[p].next].state = "healthy" THEN {call[p].next} ELSE {})
    BY <1>0, <1>2 DEF Scan, Calls, CallStates
  <2>2. \A n \in call[p].sent : node[n].state # "healthy" /\ n \notin call[p].list
    BY <1>0, <1>2 DEF Scan, AttemptOf
  <2>3. QED
    BY <1>0, <1>2, <1>a, <1>b, <2>1, <2>2 DEF AttemptOf
<1>3. CASE Select(p)
  <2>1. /\ call[p].sent \subseteq errors'
        /\ \A n \in call[p].sent : node'[n].state # "healthy" /\ n \notin call[p].list
    BY <1>0, <1>3, <1>a, <1>b DEF Select, AttemptOf
  <2>2. call[p].list \in SUBSET Nodes
    BY <1>0 DEF Calls, CallStates
  <2>3. ASSUME NEW n \in call[p].list,
               call' = [call EXCEPT ![p].pc = "channel", ![p].target = n, ![p].list = {}]
        PROVE  AttemptOf(p)'
    <3>1. call'[p].pc = "channel" /\ call'[p].target = n /\ call'[p].list = {} /\ call'[p].sent = call[p].sent
      BY <1>0, <2>3 DEF Calls, CallStates
    <3>2. QED
      BY <2>1, <3>1 DEF AttemptOf
  <2>4. QED
    BY <1>3, <2>1, <2>2, <2>3, TryAttempt, RescanAttempt DEF Select
<1>4. CASE GetChannel(p)
  <2>1. /\ call[p].sent \subseteq errors'
        /\ \A n \in call[p].sent : node'[n].state # "healthy" /\ n \notin call[p].list
        /\ call[p].target \notin call[p].sent
    BY <1>0, <1>4, <1>a, <1>b DEF GetChannel, AttemptOf
  <2>2. CASE TryNext(p)
    BY <2>1, <2>2, TryNextAttempt
  <2>3. CASE call' = [call EXCEPT ![p].pc = "send"]
    <3>1. /\ call'[p].pc = "send" /\ call'[p].target = call[p].target
          /\ call'[p].list = call[p].list /\ call'[p].sent = call[p].sent
      BY <1>0, <2>3 DEF Calls, CallStates
    <3>2. QED
      BY <2>1, <3>1 DEF AttemptOf
  <2>4. QED
    BY <1>4, <2>2, <2>3 DEF GetChannel
<1>5. CASE SendOk(p)
  <2>1. call'[p] = Resting("ok")
    BY <1>0, <1>5 DEF SendOk
  <2>2. QED
    BY <2>1 DEF AttemptOf, Resting
<1>6. CASE SendFails(p)
  <2>1. /\ call'[p].pc = "degrade" /\ call'[p].target = call[p].target /\ call'[p].list = call[p].list
        /\ call'[p].sent = call[p].sent \cup {call[p].target}
    BY <1>0, <1>6 DEF SendFails, Calls, CallStates
  <2>2. errors' = errors \cup {call[p].target}
    BY <1>6 DEF SendFails
  <2>3. \A n \in call[p].sent : node'[n].state # "healthy" /\ n \notin call[p].list
    BY <1>0, <1>6, <1>b DEF SendFails, AttemptOf
  <2>4. QED
    BY <1>0, <2>1, <2>2, <2>3 DEF AttemptOf
<1>7. CASE Degrade(p)
  <2>1. call[p].sent \subseteq errors'
    BY <1>0, <1>a DEF AttemptOf
  <2>2. call[p].target \in Nodes
    BY <1>0, <1>7 DEF Degrade, Calls
  <2>3. node'[call[p].target].state # "healthy"
    BY <1>0, <1>7, <2>2 DEF Degrade, NodeStates
  <2>4. \A n \in call[p].sent : node'[n].state # "healthy" /\ n \notin call[p].list \ {call[p].target}
    BY <1>0, <1>b, <2>3 DEF AttemptOf
  <2>5. QED
    BY <1>7, <2>1, <2>4, TryNextAttempt DEF Degrade
<1>8. QED
  BY <1>1, <1>2, <1>3, <1>4, <1>5, <1>6, <1>7 DEF PublishStep

\* And every step, of this publisher or of another, of a check or of the environment.
LEMMA AttemptStep == TypeInv /\ AttemptInv /\ [Next]_vars => AttemptInv'
<1> SUFFICES ASSUME TypeInv, AttemptInv, [Next]_vars, NEW p \in Publishers PROVE AttemptOf(p)'
  BY DEF AttemptInv
<1>1. TypeInv'
  BY TypeStep
<1>2. CASE call'[p] = call[p]
  <2>1. AttemptOf(p)
    BY DEF AttemptInv
  <2>2. call[p].sent \subseteq errors' /\ \A n \in call[p].sent : node[n].state # "healthy" => node'[n].state # "healthy"
    BY <2>1, ErrorsStay DEF AttemptOf
  <2>3. QED
    BY <1>2, <2>1, <2>2 DEF AttemptOf
<1>3. CASE Publish(p) \/ PublishStep(p)
  BY <1>1, <1>3, OwnAttempt
<1>4. QED
  BY <1>2, <1>3, OtherCalls, CallsKept

-----------------------------------------------------------------------------
(***************************************************************************)
(* A call gives up only when no node was left.                             *)
(***************************************************************************)
\* An open channel hangs on a connection: nothing drops the connection of a node without
\* its channel.
LEMMA ChannelStep ==
    ASSUME TypeInv, SteadyInv, [Next]_vars
    PROVE  \A n \in Nodes : node'[n].channel => node'[n].conn # "none"
<1> USE DEF health
<1>1. node \in [Nodes -> NodeStates] /\ \A n \in Nodes : node[n].channel => node[n].conn # "none"
  BY DEF TypeInv, TypeOK, NodeStates, SteadyInv
<1>2. ASSUME NEW p \in Publishers, Degrade(p)
      PROVE  \A n \in Nodes : node'[n].channel = node[n].channel /\ node'[n].conn = node[n].conn
  BY <1>1, <1>2 DEF Degrade, NodeStates
<1>3. ASSUME NEW m \in Nodes, Check(m)
      PROVE  \A n \in Nodes : node'[n].channel = node[n].channel /\ node'[n].conn = node[n].conn
  BY <1>1, <1>3 DEF Check, NodeStates
<1>4. ASSUME NEW m \in Nodes, CloseNode(m) \/ ConnectionLost(m) \/ ChannelLost(m)
      PROVE  /\ node'[m].channel = FALSE
             /\ \A n \in Nodes \ {m} : node'[n] = node[n]
  <2>1. CASE CloseNode(m)
    BY <1>1, <2>1 DEF CloseNode, NodeStates
  <2>2. CASE ConnectionLost(m)
    BY <1>1, <2>2 DEF ConnectionLost, NodeStates
  <2>3. CASE ChannelLost(m)
    BY <1>1, <2>3 DEF ChannelLost, NodeStates
  <2>4. QED
    BY <1>4, <2>1, <2>2, <2>3
<1>5. CASE node' = node
  BY <1>1, <1>5
<1>6. QED
  BY <1>1, <1>2, <1>3, <1>4, <1>5
     DEF Next, Publish, PublishStep, Scan, Select, GetChannel, SendOk, SendFails, Age, SkipCheck,
         BrokerChange, Tick, Close, vars

\* What a step may take from the nodes that are steady: whatever breaks a node, or takes
\* it out of rotation, takes it out of every publisher's set.
LEMMA SteadyWorks ==
    ASSUME TypeInv, SteadyInv, [Next]_vars, NEW p \in Publishers
    PROVE  /\ \A n \in steady'[p] : Works(n)'
           /\ Publish(p) \/ steady'[p] \subseteq steady[p]
<1> USE DEF health
<1>0. /\ node \in [Nodes -> NodeStates] /\ steady \in [Publishers -> SUBSET Nodes]
      /\ up \subseteq Nodes /\ call \in [Publishers -> Calls]
  BY DEF TypeInv, TypeOK, NodeStates
<1>1. \A n \in steady[p] : Works(n)
  BY DEF SteadyInv
<1>2. ASSUME steady'[p] \subseteq steady[p], \A n \in steady'[p] : node'[n] = node[n] /\ (n \in up => n \in up')
      PROVE  (\A n \in steady'[p] : Works(n)') /\ steady'[p] \subseteq steady[p]
  BY <1>1, <1>2 DEF Works
<1>3. ASSUME NEW q \in Publishers, Publish(q)
      PROVE  (\A n \in steady'[p] : Works(n)') /\ (Publish(p) \/ steady'[p] \subseteq steady[p])
  <2>1. CASE q = p
    BY <1>0, <1>3, <2>1 DEF Publish, Works
  <2>2. CASE q # p
    BY <1>0, <1>1, <1>3, <2>2 DEF Publish, Works
  <2>3. QED
    BY <2>1, <2>2
<1>4. ASSUME NEW q \in Publishers, Scan(q) \/ Select(q) \/ GetChannel(q) \/ SendFails(q)
      PROVE  UNCHANGED <<node, up, steady>>
  BY <1>4 DEF Scan, Select, GetChannel, SendFails
<1>5. ASSUME NEW q \in Publishers, SendOk(q)
      PROVE  UNCHANGED <<node, up>> /\ steady'[p] \subseteq steady[p]
  BY <1>0, <1>5 DEF SendOk
<1>6. ASSUME NEW m \in Nodes, steady'[p] \subseteq steady[p] \ {m}, \A n \in Nodes \ {m} : node'[n] = node[n],
             up \subseteq up' \cup {m}
      PROVE  (\A n \in steady'[p] : Works(n)') /\ steady'[p] \subseteq steady[p]
  BY <1>0, <1>2, <1>6
<1>7. ASSUME NEW q \in Publishers, Degrade(q)
      PROVE  (\A n \in steady'[p] : Works(n)') /\ steady'[p] \subseteq steady[p]
  <2>1. call[q].target \in Nodes
    BY <1>0, <1>7 DEF Degrade, Calls
  <2>2. /\ steady'[p] = steady[p] \ {call[q].target} /\ up' = up
        /\ \A n \in Nodes \ {call[q].target} : node'[n] = node[n]
    BY <1>0, <1>7, <2>1 DEF Degrade, Spoil
  <2>3. QED
    BY <1>6, <2>1, <2>2
<1>8. ASSUME NEW m \in Nodes, CloseNode(m) \/ BrokerChange(m) \/ ConnectionLost(m) \/ ChannelLost(m)
      PROVE  (\A n \in steady'[p] : Works(n)') /\ steady'[p] \subseteq steady[p]
  <2>1. steady'[p] = steady[p] \ {m}
    BY <1>0, <1>8 DEF CloseNode, BrokerChange, ConnectionLost, ChannelLost, Spoil
  <2>2. up \subseteq up' \cup {m}
    BY <1>8 DEF CloseNode, BrokerChange, ConnectionLost, ChannelLost
  <2>3. \A n \in Nodes \ {m} : node'[n] = node[n]
    BY <1>0, <1>8 DEF CloseNode, BrokerChange, ConnectionLost, ChannelLost
  <2>4. QED
    BY <1>6, <2>1, <2>2, <2>3
\* A check puts nodes into rotation, never out of it.
<1>9. ASSUME NEW m \in Nodes, Check(m)
      PROVE  (\A n \in steady'[p] : Works(n)') /\ steady'[p] \subseteq steady[p]
  <2>1. UNCHANGED <<up, steady>>
    BY <1>9 DEF Check
  <2>2. \A n \in Nodes : node[n].state = "healthy" => node'[n].state = "healthy"
    BY <1>0, <1>9 DEF Check, NodeStates
  <2>3. \A n \in Nodes : node'[n].channel = node[n].channel
    BY <1>0, <1>9 DEF Check, NodeStates
  <2>4. QED
    BY <1>0, <1>1, <2>1, <2>2, <2>3 DEF Works
<1>10. CASE UNCHANGED <<node, up, steady>>
  BY <1>2, <1>10
<1>11. QED
  BY <1>2, <1>3, <1>4, <1>5, <1>7, <1>8, <1>9, <1>10
     DEF Next, PublishStep, Age, SkipCheck, Tick, Close, vars

\* The failover loop goes on with every node that is still steady, or there is none.
LEMMA TrySteady ==
    ASSUME TypeInv, NEW p \in Publishers, NEW S \in SUBSET Nodes, Try(p, S), steady'[p] \subseteq S,
           call[p].result # "failed"
    PROVE  SteadyOf(p)'
<1>0. call[p] \in Calls /\ call \in [Publishers -> Calls]
  BY DEF TypeInv
<1>1. CASE S = {}
  <2>1. call'[p] = Resting("failed")
    BY <1>0, <1>1 DEF Try
  <2>2. QED
    BY <1>1, <2>1 DEF SteadyOf, Resting
<1>2. CASE S # {}
  <2>1. call'[p] = [call[p] EXCEPT !.pc = "channel", !.list = S, !.target = First(S)]
    BY <1>0, <1>2 DEF Try
  <2>2. call'[p].pc = "channel" /\ call'[p].list = S /\ call'[p].result = call[p].result
    BY <1>0, <2>1 DEF Calls, CallStates
  <2>3. QED
    BY <2>2 DEF SteadyOf
<1>3. QED
  BY <1>1, <1>2

\* It begins with a scan of all nodes.
LEMMA RescanSteady ==
    ASSUME TypeInv, TypeInv', NEW p \in Publishers, Rescan(p)
    PROVE  SteadyOf(p)'
<1>1. call'[p] = [Resting("none") EXCEPT !.pc = "scan", !.failover = TRUE, !.sent = call[p].sent]
  BY DEF TypeInv, Rescan
<1>2. call'[p].pc = "scan" /\ call'[p].next = 1 /\ call'[p].result = "none"
  BY <1>1 DEF Resting
<1>3. steady'[p] \subseteq Nodes
  BY DEF TypeInv, TypeOK
<1>4. \A n \in steady'[p] : ~ (n < 1)
  BY <1>3 DEF Nodes
<1>5. QED
  BY <1>2, <1>4 DEF SteadyOf

\* The publisher's own step.
LEMMA OwnSteady ==
    ASSUME TypeInv, TypeInv', SteadyInv, [Next]_vars,
           NEW p \in Publishers, Publish(p) \/ PublishStep(p)
    PROVE  SteadyOf(p)'
<1>0. /\ call[p] \in Calls /\ call \in [Publishers -> Calls] /\ SteadyOf(p)
      /\ steady[p] \subseteq Nodes /\ steady \in [Publishers -> SUBSET Nodes]
      /\ \A n \in steady[p] : Works(n)
  BY DEF TypeInv, TypeOK, SteadyInv
<1>1. CASE Publish(p)
  <2>1. call'[p] = [Resting("none") EXCEPT !.pc = "scan"]
    BY <1>0, <1>1 DEF Publish
  <2>2. call'[p].pc = "scan" /\ ~call'[p].failover /\ call'[p].result = "none"
    BY <2>1 DEF Resting
  <2>3. QED
    BY <2>2 DEF SteadyOf
<1>2. CASE Scan(p)
  <2> DEFINE n == call[p].next
  <2>1. /\ call'[p].next = n + 1 /\ call'[p].failover = call[p].failover /\ call'[p].result = call[p].result
        /\ call'[p].pc = (IF n = N THEN "select" ELSE "scan")
        /\ call'[p].list = (IF node[n].state = "healthy" THEN call[p].list \cup {n} ELSE call[p].list)
    BY <1>0, <1>2 DEF Scan, Calls, CallStates
  <2>2. steady'[p] = steady[p] /\ call[p].result # "failed" /\ n \in Nodes
    BY <1>0, <1>2 DEF Scan, SteadyOf, Calls
  <2>3. ASSUME call[p].failover, NEW m \in steady[p], m < n + 1 PROVE m \in call'[p].list
    <3>1. CASE m = n
      BY <1>0, <2>1, <3>1 DEF Works
    <3>2. CASE m # n
      <4>1. m < n
        BY <1>0, <2>2, <2>3, <3>2 DEF Nodes
      <4>2. QED
        BY <1>0, <1>2, <2>1, <2>3, <4>1 DEF SteadyOf, Scan
    <3>3. QED
      BY <3>1, <3>2
  <2>4. n = N => \A m \in steady[p] : m < n + 1
    BY <1>0 DEF Nodes
  <2>5. QED
    BY <2>1, <2>2, <2>3, <2>4 DEF SteadyOf
<1>3. CASE Select(p)
  <2>1. call[p].list \in SUBSET Nodes /\ call[p].result # "failed" /\ steady'[p] = steady[p]
    BY <1>0, <1>3 DEF Select, SteadyOf, Calls, CallStates
  <2>2. CASE call[p].failover /\ Try(p, call[p].list)
    <3>1. steady[p] \subseteq call[p].list
      BY <1>0, <1>3, <2>2 DEF Select, SteadyOf
    <3>2. QED
      BY <2>1, <2>2, <3>1, TrySteady
  <2>3. CASE Rescan(p)
    BY <2>3, RescanSteady
  <2>4. ASSUME ~call[p].failover, NEW n \in call[p].list,
               call' = [call EXCEPT ![p].pc = "channel", ![p].target = n, ![p].list = {}]
        PROVE  SteadyOf(p)'
    <3>1. ~call'[p].failover /\ call'[p].result = call[p].result
      BY <1>0, <2>4 DEF Calls, CallStates
    <3>2. QED
      BY <2>1, <3>1 DEF SteadyOf
  <2>5. QED
    BY <1>3, <2>2, <2>3, <2>4 DEF Select
\* A node without a connection has no channel, and so was not steady.
<1>4. CASE GetChannel(p)
  <2>1. /\ call[p].list \in SUBSET Nodes /\ call[p].result # "failed" /\ steady'[p] = steady[p]
        /\ call[p].target \in Nodes
    BY <1>0, <1>4 DEF GetChannel, SteadyOf, Calls, CallStates
  <2>2. CASE node[call[p].target].conn = "none" /\ TryNext(p)
    <3>1. call[p].target \notin steady[p]
      BY <1>0, <2>1, <2>2 DEF SteadyInv, Works
    <3>2. call[p].failover => steady'[p] \subseteq call[p].list \ {call[p].target}
      BY <1>0, <1>4, <2>1, <3>1 DEF GetChannel, SteadyOf
    <3>3. call[p].list \ {call[p].target} \in SUBSET Nodes
      BY <2>1
    <3>4. QED
      BY <2>1, <2>2, <3>2, <3>3, TrySteady, RescanSteady DEF TryNext
  <2>3. CASE call' = [call EXCEPT ![p].pc = "send"]
    <3>1. /\ call'[p].pc = "send" /\ call'[p].failover = call[p].failover
          /\ call'[p].list = call[p].list /\ call'[p].result = call[p].result
      BY <1>0, <2>3 DEF Calls, CallStates
    <3>2. QED
      BY <1>0, <1>4, <2>1, <3>1 DEF SteadyOf, GetChannel
  <2>4. QED
    BY <1>4, <2>2, <2>3 DEF GetChannel
<1>5. CASE SendOk(p)
  <2>1. call'[p] = Resting("ok")
    BY <1>0, <1>5 DEF SendOk
  <2>2. QED
    BY <2>1 DEF SteadyOf, Resting
<1>6. CASE SendFails(p)
  <2>1. /\ call'[p].pc = "degrade" /\ call'[p].failover = call[p].failover
        /\ call'[p].list = call[p].list /\ call'[p].result = call[p].result /\ steady'[p] = steady[p]
    BY <1>0, <1>6 DEF SendFails, Calls, CallStates
  <2>2. QED
    BY <1>0, <1>6, <2>1 DEF SteadyOf, SendFails
<1>7. CASE Degrade(p)
  <2>1. call[p].list \ {call[p].target} \in SUBSET Nodes /\ call[p].result # "failed"
    BY <1>0, <1>7 DEF Degrade, SteadyOf, Calls, CallStates
  <2>2. steady'[p] = steady[p] \ {call[p].target}
    BY <1>0, <1>7 DEF Degrade, Spoil
  <2>3. call[p].failover => steady'[p] \subseteq call[p].list \ {call[p].target}
    BY <1>0, <1>7, <2>2 DEF Degrade, SteadyOf
  <2>4. QED
    BY <1>7, <2>1, <2>3, TrySteady, RescanSteady DEF Degrade, TryNext
<1>8. QED
  BY <1>1, <1>2, <1>3, <1>4, <1>5, <1>6, <1>7 DEF PublishStep

\* And every step.
LEMMA SteadyStep == TypeInv /\ SteadyInv /\ [Next]_vars => SteadyInv'
<1> SUFFICES ASSUME TypeInv, SteadyInv, [Next]_vars PROVE SteadyInv'
  OBVIOUS
<1>1. TypeInv'
  BY TypeStep
<1>2. ASSUME NEW p \in Publishers PROVE SteadyOf(p)'
  <2>1. CASE Publish(p) \/ PublishStep(p)
    BY <1>1, <2>1, OwnSteady
  <2>2. CASE ~ (Publish(p) \/ PublishStep(p))
    <3>1. call'[p] = call[p]
      BY <2>2, OtherCalls, CallsKept
    <3>2. steady'[p] \subseteq steady[p]
      BY <2>2, SteadyWorks
    <3>3. QED
      BY <3>1, <3>2 DEF SteadyInv, SteadyOf
  <2>3. QED
    BY <2>1, <2>2
<1>3. \A p \in Publishers : \A n \in steady'[p] : Works(n)'
  BY SteadyWorks
<1>4. QED
  BY <1>2, <1>3, ChannelStep DEF SteadyInv

-----------------------------------------------------------------------------
(***************************************************************************)
(* Close.                                                                  *)
(***************************************************************************)
\* Nothing but the constructor opens a connection, and Close goes through all nodes.
LEMMA ClosedStep == TypeInv /\ ClosedInv /\ [Next]_vars => ClosedInv'
<1> SUFFICES ASSUME TypeInv, ClosedInv, [Next]_vars PROVE ClosedInv'
  OBVIOUS
<1> USE DEF health
<1>0. node \in [Nodes -> NodeStates] /\ closing \in [pc : {"open", "nodes", "closed"}, next : 1..(N + 1)]
      /\ call \in [Publishers -> Calls]
  BY DEF TypeInv, TypeOK, NodeStates
<1>a. ASSUME closing' = closing, \A n \in Nodes : Shut(n) => Shut(n)' PROVE ClosedInv'
  BY <1>a DEF ClosedInv
<1>1. ASSUME NEW p \in Publishers, Degrade(p) PROVE ClosedInv'
  <2>1. \A n \in Nodes : node'[n].channel = node[n].channel /\ node'[n].conn = node[n].conn
    BY <1>0, <1>1 DEF Degrade, NodeStates
  <2>2. QED
    BY <1>1, <1>a, <2>1 DEF Degrade, Shut
<1>2. ASSUME NEW m \in Nodes, Check(m) PROVE ClosedInv'
  <2>1. \A n \in Nodes : node'[n].channel = node[n].channel /\ node'[n].conn = node[n].conn
    BY <1>0, <1>2 DEF Check, NodeStates
  <2>2. QED
    BY <1>2, <1>a, <2>1 DEF Check, Shut
<1>3. ASSUME NEW m \in Nodes, ConnectionLost(m) \/ ChannelLost(m) PROVE ClosedInv'
  <2>1. CASE ConnectionLost(m)
    <3>1. node'[m].conn = "closed" /\ ~node'[m].channel /\ \A n \in Nodes \ {m} : node'[n] = node[n]
      BY <1>0, <2>1 DEF ConnectionLost, NodeStates
    <3>2. QED
      BY <1>a, <2>1, <3>1 DEF ConnectionLost, Shut
  <2>2. CASE ChannelLost(m)
    <3>1. /\ node'[m].conn = node[m].conn /\ ~node'[m].channel
          /\ \A n \in Nodes \ {m} : node'[n] = node[n]
      BY <1>0, <2>2 DEF ChannelLost, NodeStates
    <3>2. QED
      BY <1>a, <2>2, <3>1 DEF ChannelLost, Shut
  <2>3. QED
    BY <1>3, <2>1, <2>2
<1>4. ASSUME NEW m \in Nodes, CloseNode(m) PROVE ClosedInv'
  <2>1. node'[m].conn # "open" /\ ~node'[m].channel /\ \A n \in Nodes \ {m} : node'[n] = node[n]
    BY <1>0, <1>4 DEF CloseNode, NodeStates
  <2>2. closing.next = m /\ closing'.next = m + 1 /\ closing'.pc = IF m = N THEN "closed" ELSE "nodes"
    BY <1>4 DEF CloseNode
  <2>3. ASSUME NEW n \in Nodes, n < m + 1 PROVE Shut(n)'
    <3>1. CASE n = m
      BY <2>1, <3>1 DEF Shut
    <3>2. CASE n # m
      <4>1. n < closing.next
        BY <2>2, <2>3, <3>2 DEF Nodes
      <4>2. QED
        BY <2>1, <3>2, <4>1 DEF ClosedInv, Shut
    <3>3. QED
      BY <3>1, <3>2
  <2>4. QED
    BY <2>2, <2>3 DEF ClosedInv
<1>5. CASE Close
  <2>1. closing' = [closing EXCEPT !.pc = "nodes"] /\ UNCHANGED node
    BY <1>5 DEF Close
  <2>2. closing'.pc = "nodes" /\ closing'.next = closing.next
    BY <1>0, <2>1
  <2>3. QED
    BY <2>1, <2>2 DEF ClosedInv, Shut
<1>6. CASE UNCHANGED <<node, closing>>
  BY <1>6, <1>a DEF Shut
<1>7. QED
  BY <1>1, <1>2, <1>3, <1>4, <1>5, <1>6
     DEF Next, Publish, PublishStep, Scan, Select, GetChannel, SendOk, SendFails, Age, SkipCheck,
         BrokerChange, Tick, vars

-----------------------------------------------------------------------------
(***************************************************************************)
(* Publish implements Failover, step by step.                              *)
(***************************************************************************)
\* Before its first call a publisher has tried nothing.
LEMMA CallInit == ASSUME Init, NEW p \in Publishers PROVE Call(p)!Init
  BY DEF Init, Call!Init, Resting, Sending

\* A call that has sent to some nodes but not to this one has sends left.
LEMMA SendsLeft ==
    ASSUME NEW S \in SUBSET Nodes, NEW n \in Nodes \ S
    PROVE  Cardinality(S) < N
<1>1. IsFiniteSet(Nodes) /\ Cardinality(Nodes) = N
  BY FS_Interval DEF Nodes
<1>2. Cardinality(S) <= Cardinality(Nodes) /\ (Cardinality(Nodes) = Cardinality(S) => Nodes = S) /\ IsFiniteSet(S)
  BY <1>1, FS_Subset
<1>3. Cardinality(S) \in Nat
  BY <1>2, FS_CardinalityType
<1>4. QED
  BY <1>1, <1>2, <1>3

\* What Failover sees of a call that sends nothing at the moment.
LEMMA Between ==
    ASSUME NEW p \in Publishers, call[p].pc \notin {"send", "idle"}
    PROVE  Sending(p) = 0 /\ call[p].sent \cup ({Sending(p)} \ {0}) = call[p].sent
  BY DEF Sending

\* The failover loop goes on without Failover noticing, or gives the call up.
LEMMA TryRefines ==
    ASSUME TypeInv, NEW p \in Publishers, call[p].pc \in {"select", "channel", "degrade"},
           NEW S \in SUBSET Nodes, Try(p, S)
    PROVE  Call(p)!GiveUp \/ UNCHANGED Call(p)!vars
<1>0. call[p] \in Calls /\ call \in [Publishers -> Calls]
  BY DEF TypeInv
<1>1. CASE S = {}
  <2>1. call'[p] = Resting("failed")
    BY <1>0, <1>1 DEF Try
  <2>2. call'[p].pc = "idle" /\ call'[p].result = "failed" /\ call'[p].sent = {}
    BY <2>1 DEF Resting
  <2>3. QED
    BY <2>2, Between DEF Call!GiveUp, Call!End, Sending
<1>2. CASE S # {}
  <2>1. call'[p] = [call[p] EXCEPT !.pc = "channel", !.list = S, !.target = First(S)]
    BY <1>0, <1>2 DEF Try
  <2>2. call'[p].pc = "channel" /\ call'[p].sent = call[p].sent
    BY <1>0, <2>1 DEF Calls, CallStates
  <2>3. QED
    BY <2>2, Between DEF Call!vars, Sending
<1>3. QED
  BY <1>1, <1>2

\* The failover loop begins with what the first try sent.
LEMMA RescanRefines ==
    ASSUME TypeInv, NEW p \in Publishers, call[p].pc \in {"select", "channel", "degrade"}, Rescan(p)
    PROVE  UNCHANGED Call(p)!vars
<1>1. call'[p] = [Resting("none") EXCEPT !.pc = "scan", !.failover = TRUE, !.sent = call[p].sent]
  BY DEF TypeInv, Rescan
<1>2. call'[p].pc = "scan" /\ call'[p].sent = call[p].sent
  BY <1>1 DEF Resting
<1>3. QED
  BY <1>2, Between DEF Call!vars, Sending

\* Every step of a publisher is a step of its call, or none.
LEMMA OwnRefines ==
    ASSUME TypeInv, AttemptInv, NEW p \in Publishers, Publish(p) \/ PublishStep(p)
    PROVE  [Call(p)!Next]_(Call(p)!vars)
<1>0. call[p] \in Calls /\ call \in [Publishers -> Calls] /\ AttemptOf(p)
  BY DEF TypeInv, AttemptInv
<1>a. call[p].list \in SUBSET Nodes /\ call[p].sent \in SUBSET Nodes /\ call[p].result # "pending"
  BY <1>0 DEF Calls, CallStates
<1>1. CASE Publish(p)
  <2>1. call'[p] = [Resting("none") EXCEPT !.pc = "scan"]
    BY <1>0, <1>1 DEF Publish
  <2>2. call'[p].pc = "scan" /\ call'[p].sent = {} /\ call[p].pc = "idle" /\ call[p].sent = {}
    BY <1>0, <1>1, <2>1 DEF Publish, Resting, AttemptOf
  <2>3. Call(p)!Begin
    BY <1>a, <2>2 DEF Call!Begin, Sending
  <2>4. QED
    BY <2>3 DEF Call!Next
<1>2. CASE Scan(p)
  <2>1. call'[p].pc \in {"scan", "select"} /\ call'[p].sent = call[p].sent /\ call[p].pc = "scan"
    BY <1>0, <1>2 DEF Scan, Calls, CallStates
  <2>2. QED
    BY <2>1 DEF Call!vars, Sending
<1>3. CASE Select(p)
  <2>1. ASSUME NEW n \in call[p].list,
               call' = [call EXCEPT ![p].pc = "channel", ![p].target = n, ![p].list = {}]
        PROVE  UNCHANGED Call(p)!vars
    <3>1. call'[p].pc = "channel" /\ call'[p].sent = call[p].sent /\ call[p].pc = "select"
      BY <1>0, <1>3, <2>1 DEF Select, Calls, CallStates
    <3>2. QED
      BY <3>1 DEF Call!vars, Sending
  <2>2. call[p].pc = "select"
    BY <1>3 DEF Select
  <2>3. QED
    BY <1>3, <1>a, <2>1, <2>2, TryRefines, RescanRefines DEF Select, Call!Next
<1>4. CASE GetChannel(p)
  <2>1. CASE TryNext(p)
    <3>1. call[p].pc = "channel" /\ call[p].list \ {call[p].target} \in SUBSET Nodes
      BY <1>4, <1>a DEF GetChannel
    <3>2. QED
      BY <2>1, <3>1, TryRefines, RescanRefines DEF TryNext, Call!Next
  <2>2. CASE call' = [call EXCEPT ![p].pc = "send"]
    <3>1. /\ call[p].pc = "channel" /\ call'[p].pc = "send" /\ call'[p].sent = call[p].sent
          /\ call'[p].target = call[p].target
      BY <1>0, <1>4, <2>2 DEF GetChannel, Calls, CallStates
    <3>2. call[p].target \in Nodes \ call[p].sent
      BY <1>0, <3>1 DEF Calls, AttemptOf
    <3>3. Cardinality(call[p].sent) < N
      BY <1>a, <3>2, SendsLeft
    <3>4. call[p].target # 0
      BY <3>2 DEF Nodes
    <3>5. Call(p)!Attempt(call[p].target)
      <4>1. Call(p)!Cardinality(call[p].sent) = Cardinality(call[p].sent)
        BY DEF Call!Cardinality, Cardinality
      <4>2. QED
        BY <3>1, <3>2, <3>3, <3>4, <4>1 DEF Call!Attempt, Sending
    <3>6. QED
      BY <3>2, <3>5 DEF Call!Next
  <2>3. QED
    BY <1>4, <2>1, <2>2 DEF GetChannel
<1>5. CASE SendOk(p)
  <2>1. call'[p] = Resting("ok")
    BY <1>0, <1>5 DEF SendOk
  <2>2. call'[p].pc = "idle" /\ call'[p].result = "ok" /\ call'[p].sent = {} /\ call[p].pc = "send"
    BY <1>5, <2>1 DEF SendOk, Resting
  <2>3. call[p].target # 0
    BY <1>0, <2>2 DEF Calls, Nodes
  <2>4. Call(p)!Succeed
    BY <2>2, <2>3 DEF Call!Succeed, Call!End, Sending
  <2>5. QED
    BY <2>4 DEF Call!Next
<1>6. CASE SendFails(p)
  <2>1. /\ call[p].pc = "send" /\ call'[p].pc = "degrade"
        /\ call'[p].sent = call[p].sent \cup {call[p].target}
    BY <1>0, <1>6 DEF SendFails, Calls, CallStates
  <2>2. call[p].target # 0
    BY <1>0, <2>1 DEF Calls, Nodes
  <2>3. Call(p)!Fail
    BY <2>1, <2>2 DEF Call!Fail, Sending
  <2>4. QED
    BY <2>3 DEF Call!Next
<1>7. CASE Degrade(p)
  <2>1. call[p].pc = "degrade" /\ call[p].list \ {call[p].target} \in SUBSET Nodes /\ TryNext(p)
    BY <1>7, <1>a DEF Degrade
  <2>2. QED
    BY <2>1, TryRefines, RescanRefines DEF TryNext, Call!Next
<1>8. QED
  BY <1>1, <1>2, <1>3, <1>4, <1>5, <1>6, <1>7 DEF PublishStep

\* So is every step of the system, for every publisher.
LEMMA StepRefines ==
    TypeInv /\ AttemptInv /\ [Next]_vars => \A p \in Publishers : [Call(p)!Next]_(Call(p)!vars)
<1> SUFFICES ASSUME TypeInv, AttemptInv, [Next]_vars, NEW p \in Publishers
             PROVE  [Call(p)!Next]_(Call(p)!vars)
  OBVIOUS
<1>1. CASE Publish(p) \/ PublishStep(p)
  BY <1>1, OwnRefines
<1>2. CASE ~ (Publish(p) \/ PublishStep(p))
  <2>1. call'[p] = call[p]
    BY <1>2, OtherCalls, CallsKept
  <2>2. QED
    BY <2>1 DEF Call!vars, Sending
<1>3. QED
  BY <1>1, <1>2

-----------------------------------------------------------------------------
(***************************************************************************)
(* The theorems.                                                           *)
(***************************************************************************)
\* TypeInv holds for ever; it is used by all that follows.
LEMMA TypeInvariant == Spec => []TypeInv
<1>1. Init => TypeInv
  BY TypeInit
<1>2. TypeInv /\ [Next]_vars => TypeInv'
  BY TypeStep
<1>3. QED
  BY <1>1, <1>2, PTL DEF Spec

\* Whatever publishers, checks, Close and the brokers do, the variables hold what the
\* code's fields can: no scan runs past the node list, no target is out of it.
THEOREM TypeCorrect == Spec => []TypeOK
<1>1. TypeInv => TypeOK
  BY DEF TypeInv
<1>2. QED
  BY <1>1, TypeInvariant, PTL

\* Publish sends a message to a node at most once, for any number of nodes and of concurrent
\* publishers, and is a Failover: the first choice and the failover loop, which do not know
\* of each other, cannot meet the same node (publishToNode, markNodeDegraded).
THEOREM AtMostOneSend == Spec => OneSendPerNode
<1>1. Init => AttemptInv
  BY DEF Init, AttemptInv, AttemptOf, Resting
<1>2. TypeInv /\ AttemptInv /\ [Next]_vars => AttemptInv'
  BY AttemptStep
<1>3. Init => \A p \in Publishers : Call(p)!Init
  BY CallInit
<1>4. TypeInv /\ AttemptInv /\ [Next]_vars => \A p \in Publishers : [Call(p)!Next]_(Call(p)!vars)
  BY StepRefines
<1>5. QED
  BY <1>1, <1>2, <1>3, <1>4, TypeInvariant, PTL DEF Spec, OneSendPerNode

\* Publish returns an error only when no node worked and stayed in rotation all the while
\* the call lasted, whichever nodes other publishers and checks took out meanwhile.
THEOREM GivesUpOnlyWithoutNode == Spec => []FailsOnlyWithoutNode
<1>1. Init => SteadyInv
  <2>1. ASSUME Init PROVE \A n \in Nodes : node[n].channel => node[n].conn # "none"
    BY <2>1 DEF Init, Connected
  <2>2. QED
    BY <2>1 DEF Init, SteadyInv, SteadyOf, Resting
<1>2. TypeInv /\ SteadyInv /\ [Next]_vars => SteadyInv'
  BY SteadyStep
<1>3. SteadyInv => FailsOnlyWithoutNode
  BY DEF SteadyInv, SteadyOf, FailsOnlyWithoutNode
<1>4. QED
  BY <1>1, <1>2, <1>3, TypeInvariant, PTL DEF Spec

\* After Close no connection and no channel is open on any node, and none is opened again.
THEOREM ClosesForGood == Spec => []ClosedForGood
<1>1. Init => ClosedInv
  BY DEF Init, ClosedInv, Nodes
<1>2. TypeInv /\ ClosedInv /\ [Next]_vars => ClosedInv'
  BY ClosedStep
<1>3. ClosedInv => ClosedForGood
  BY DEF ClosedInv, ClosedForGood, Shut, Nodes
<1>4. QED
  BY <1>1, <1>2, <1>3, TypeInvariant, PTL DEF Spec

=============================================================================
