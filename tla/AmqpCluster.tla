----------------------------- MODULE AmqpCluster -----------------------------
(***************************************************************************)
(* amqpcluster.ClusterAdapter: publishing with failover over the configured *)
(* RabbitMQ nodes, the health checks and Close, all under the nodes'        *)
(* mutexes.  Every critical section is one step but the one a health check  *)
(* never leaves: checkNodeHealth holds the node's mutex when connectToNode   *)
(* asks for it again.  The adapter's own mutex is only ever read-locked.    *)
(***************************************************************************)
EXTENDS Naturals, FiniteSets

CONSTANTS
    N,          \* configured nodes, 1..N
    Publishers, \* goroutines that call Publish
    Faults,     \* "broker": a broker stops or a connection breaks; "channel": the
                \* server closes a channel; "message": the client library refuses
                \* the message (a header of a type AMQP does not have)
    StartDown   \* brokers may be down when the adapter is made

ASSUME NodesAssumption == N \in Nat \ {0}
ASSUME FaultsAssumption == Faults \subseteq {"broker", "channel", "message"}
ASSUME StartAssumption == StartDown \in BOOLEAN

Nodes == 1..N

VARIABLES
    node,    \* state of each node, its connection, whether its channels are open
    errors,  \* nodes whose errorCount is not 0
    recent,  \* nodes checked less than 10 s ago
    checks,  \* nodes a health check goroutine was started for
    locked,  \* nodes whose mutex a health check holds for ever
    up,      \* brokers that run (environment)
    call,    \* the calls of Publish
    closing, \* Close
    steady   \* history: nodes that worked and were in rotation since the call under way began

health == <<node, errors, recent, checks, locked>>
vars == <<health, up, call, closing, steady>>

(***************************************************************************)
(* The one type invariant of the module.                                   *)
(***************************************************************************)
TypeOK ==
    /\ node \in [Nodes -> [state : {"healthy", "degraded", "failed"},
                           conn : {"none", "open", "closed"}, channel : BOOLEAN]]
    /\ errors \subseteq Nodes /\ recent \subseteq Nodes /\ checks \subseteq Nodes
    /\ locked \subseteq Nodes /\ up \subseteq Nodes
    /\ call \in [Publishers ->
                   [pc : {"idle", "scan", "select", "channel", "send", "degrade"}, next : 1..(N + 1),
                    list : SUBSET Nodes, target : 0..N, failover : BOOLEAN,
                    sent : SUBSET Nodes, result : {"none", "ok", "failed"}]]
    /\ closing \in [pc : {"open", "nodes", "closed"}, next : 1..(N + 1)]
    /\ steady \in [Publishers -> SUBSET Nodes]

\* connectToNode without the mutex, as NewClusterAdapter calls it.
Connected(running) ==
    IF running THEN [state |-> "healthy", conn |-> "open", channel |-> TRUE]
    ELSE [state |-> "failed", conn |-> "none", channel |-> FALSE]

Resting(result) ==
    [pc |-> "idle", next |-> 1, list |-> {}, target |-> 0, failover |-> FALSE,
     sent |-> {}, result |-> result]

\* NewClusterAdapter gives up when no node answers.
Init ==
    /\ up \in IF StartDown THEN (SUBSET Nodes) \ {{}} ELSE {Nodes}
    /\ node = [n \in Nodes |-> Connected(n \in up)]
    /\ errors = Nodes \ up
    /\ recent = Nodes
    /\ checks = {}
    /\ locked = {}
    /\ call = [p \in Publishers |-> Resting("none")]
    /\ closing = [pc |-> "open", next |-> 1]
    /\ steady = [p \in Publishers |-> {}]

\* A message sent to the node now arrives.
Works(n) == node[n].state = "healthy" /\ node[n].channel /\ n \in up

Spoil(n) == steady' = [p \in Publishers |-> steady[p] \ {n}]

-----------------------------------------------------------------------------
(***************************************************************************)
(* Publish: getHealthyNodes and the choice of a node, then of all healthy    *)
(* ones in their order.  The round robin counter, the random number and the  *)
(* hash of the routing key may each single out any healthy node.            *)
(***************************************************************************)
Publish(p) ==
    /\ call[p].pc = "idle"
    /\ call' = [call EXCEPT ![p] = [Resting("none") EXCEPT !.pc = "scan"]]
    /\ steady' = [steady EXCEPT ![p] = {n \in Nodes : Works(n)}]
    /\ UNCHANGED <<health, up, closing>>

\* Mutant: the node after the one looked at is taken.
ScanOffByOne(p) ==
    /\ call[p].pc = "scan"
    /\ call[p].next \notin locked
    /\ LET n == call[p].next IN
         call' = [call EXCEPT ![p].next = n + 1,
                              ![p].list = IF node[n].state = "healthy" THEN @ \cup {n + 1} ELSE @,
                              ![p].pc = IF n = N THEN "select" ELSE "scan"]
    /\ UNCHANGED <<health, up, closing, steady>>

\* getHealthyNodes, one node's read lock at a time.
Scan(p) ==
    /\ call[p].pc = "scan"
    /\ call[p].next \notin locked
    /\ LET n == call[p].next IN
         call' = [call EXCEPT ![p].next = n + 1,
                              ![p].list = IF node[n].state = "healthy" THEN @ \cup {n} ELSE @,
                              ![p].pc = IF n = N THEN "select" ELSE "scan"]
    /\ UNCHANGED <<health, up, closing, steady>>

Rescan(p) ==
    call' = [call EXCEPT ![p] =
               [Resting("none") EXCEPT !.pc = "scan", !.failover = TRUE, !.sent = call[p].sent]]

First(nodes) == CHOOSE n \in nodes : \A m \in nodes : n <= m

Try(p, nodes) ==
    call' = [call EXCEPT ![p] =
               IF nodes = {} THEN Resting("failed")
               ELSE [@ EXCEPT !.pc = "channel", !.list = nodes, !.target = First(nodes)]]

Select(p) ==
    /\ call[p].pc = "select"
    /\ IF call[p].failover
         THEN Try(p, call[p].list)
         ELSE \/ call[p].list = {} /\ Rescan(p)
              \/ \E n \in call[p].list :
                   call' = [call EXCEPT ![p].pc = "channel", ![p].target = n, ![p].list = {}]
    /\ UNCHANGED <<health, up, closing, steady>>

\* Mutant: a failed first choice fails the call.
FirstTryOnly(p) == call' = [call EXCEPT ![p] = Resting("failed")]

\* publishToNode returned an error.
TryNext(p) ==
    IF call[p].failover THEN Try(p, call[p].list \ {call[p].target}) ELSE Rescan(p)

GetChannel(p) ==
    /\ call[p].pc = "channel"
    /\ call[p].target \notin locked
    /\ IF node[call[p].target].conn = "none"
         THEN TryNext(p)
         ELSE call' = [call EXCEPT ![p].pc = "send"]
    /\ UNCHANGED <<health, up, closing, steady>>

\* Without publisher confirms a write to a dead connection may still succeed.
SendOk(p) ==
    /\ call[p].pc = "send"
    /\ node[call[p].target].channel
    /\ call' = [call EXCEPT ![p] = Resting("ok")]
    /\ steady' = [steady EXCEPT ![p] = {}]
    /\ UNCHANGED <<health, up, closing>>

SendFails(p) ==
    /\ call[p].pc = "send"
    /\ ~node[call[p].target].channel \/ call[p].target \notin up \/ "message" \in Faults
    /\ errors' = errors \cup {call[p].target}
    /\ call' = [call EXCEPT ![p].pc = "degrade", ![p].sent = @ \cup {call[p].target}]
    /\ UNCHANGED <<node, recent, checks, locked, up, closing, steady>>

\* Mutant: the node stays in rotation.
DegradeNothing(p) ==
    /\ call[p].pc = "degrade"
    /\ call[p].target \notin locked
    /\ TryNext(p)
    /\ UNCHANGED <<health, up, closing, steady>>

Degrade(p) ==
    /\ call[p].pc = "degrade"
    /\ call[p].target \notin locked
    /\ node' = [node EXCEPT ![call[p].target].state = IF @ = "healthy" THEN "degraded" ELSE @]
    /\ Spoil(call[p].target)
    /\ TryNext(p)
    /\ UNCHANGED <<errors, recent, checks, locked, up, closing>>

-----------------------------------------------------------------------------
(***************************************************************************)
(* The health checks: a tick starts one goroutine per node.                *)
(***************************************************************************)
Tick ==
    /\ closing.pc = "open"
    /\ checks # Nodes
    /\ checks' = Nodes
    /\ UNCHANGED <<node, errors, recent, locked, up, call, closing, steady>>

\* Ten seconds pass since the node was checked (nobody looks at a locked one).
Age(n) ==
    /\ n \in recent \ locked
    /\ recent' = recent \ {n}
    /\ UNCHANGED <<node, errors, checks, locked, up, call, closing, steady>>

SkipCheck(n) ==
    /\ n \in checks \ locked
    /\ n \in recent
    /\ checks' = checks \ {n}
    /\ UNCHANGED <<node, errors, recent, locked, up, call, closing, steady>>

\* A connection that is gone is reconnected under the mutex the check holds.  The
\* error rate divides by the time since the check itself began, so that it is 0
\* or beyond any limit.
Check(n) ==
    /\ n \in checks \ locked
    /\ n \notin recent
    /\ recent' = recent \cup {n}
    /\ IF node[n].conn # "open"
         THEN locked' = locked \cup {n} /\ UNCHANGED <<node, checks>>
         ELSE /\ checks' = checks \ {n}
              /\ node' = [node EXCEPT ![n].state =
                            IF @ = "degraded" /\ n \notin errors THEN "healthy" ELSE @]
              /\ UNCHANGED locked
    /\ UNCHANGED <<errors, up, call, closing, steady>>

-----------------------------------------------------------------------------
(***************************************************************************)
(* Close: the monitoring loop ends, then every node is closed in turn.     *)
(***************************************************************************)
Close ==
    /\ closing.pc = "open"
    /\ closing' = [closing EXCEPT !.pc = "nodes"]
    /\ UNCHANGED <<health, up, call, steady>>

\* Mutant: only the channels are closed.
CloseChannels(n) ==
    /\ closing = [pc |-> "nodes", next |-> n]
    /\ n \notin locked
    /\ node' = [node EXCEPT ![n].channel = FALSE]
    /\ closing' = [pc |-> IF n = N THEN "closed" ELSE "nodes", next |-> n + 1]
    /\ Spoil(n)
    /\ UNCHANGED <<errors, recent, checks, locked, up, call>>

CloseNode(n) ==
    /\ closing = [pc |-> "nodes", next |-> n]
    /\ n \notin locked
    /\ node' = [node EXCEPT ![n].channel = FALSE,
                            ![n].conn = IF @ = "open" THEN "closed" ELSE @]
    /\ closing' = [pc |-> IF n = N THEN "closed" ELSE "nodes", next |-> n + 1]
    /\ Spoil(n)
    /\ UNCHANGED <<errors, recent, checks, locked, up, call>>

-----------------------------------------------------------------------------
(***************************************************************************)
(* The environment.                                                        *)
(***************************************************************************)
BrokerChange(n) ==
    /\ "broker" \in Faults
    /\ up' = IF n \in up THEN up \ {n} ELSE up \cup {n}
    /\ Spoil(n)
    /\ UNCHANGED <<health, call, closing>>

ConnectionLost(n) ==
    /\ "broker" \in Faults
    /\ node[n].conn = "open"
    /\ node' = [node EXCEPT ![n].conn = "closed", ![n].channel = FALSE]
    /\ Spoil(n)
    /\ UNCHANGED <<errors, recent, checks, locked, up, call, closing>>

ChannelLost(n) ==
    /\ "channel" \in Faults
    /\ node[n].channel
    /\ node' = [node EXCEPT ![n].channel = FALSE]
    /\ Spoil(n)
    /\ UNCHANGED <<errors, recent, checks, locked, up, call, closing>>

PublishStep(p) ==
    Scan(p) \/ Select(p) \/ GetChannel(p) \/ SendOk(p) \/ SendFails(p) \/ Degrade(p)

Next ==
    \/ \E p \in Publishers : Publish(p) \/ PublishStep(p)
    \/ \E n \in Nodes : Age(n) \/ SkipCheck(n) \/ Check(n) \/ CloseNode(n)
    \/ \E n \in Nodes : BrokerChange(n) \/ ConnectionLost(n) \/ ChannelLost(n)
    \/ Tick \/ Close

Spec == Init /\ [][Next]_vars

-----------------------------------------------------------------------------
\* Publish implements Failover: at most one send per node, other publishers,
\* checks and breaks notwithstanding, though the first choice and the failover
\* loop do not know of each other (publishToNode takes a node that failed it out
\* of rotation), and a call that has failed for good sends nothing any more.
Sending(p) == IF call[p].pc = "send" THEN call[p].target ELSE 0

Call(p) ==
    INSTANCE Failover WITH
        None <- 0, Limit <- N,
        outcome <- IF call[p].pc = "idle" THEN call[p].result ELSE "pending",
        tried <- call[p].sent \cup ({Sending(p)} \ {0}),
        at <- Sending(p)

OneSendPerNode ==
    /\ \A p \in Publishers : Call(p)!Init
    /\ [][\A p \in Publishers : [Call(p)!Next]_(Call(p)!vars)]_vars

\* "fail over when one goes away" (doc.go): Publish gives up only when no node
\* worked and stayed in rotation all the while.  (A late failure of another
\* publisher can take a node that works again out of it.)
FailsOnlyWithoutNode ==
    \A p \in Publishers : call[p].result = "failed" => steady[p] = {}

\* When Close has returned no connection is open, and none is opened again by
\* a publisher or by a health check that was under way (Close, checkNodeHealth).
ClosedForGood ==
    closing.pc = "closed" => \A n \in Nodes : node[n].conn # "open" /\ ~node[n].channel

=============================================================================
