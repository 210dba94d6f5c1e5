---------------------------- MODULE EventDelivery ----------------------------
(***************************************************************************)
(* The life of events in one queue: eventbus.Subscriber,                    *)
(* amqpcluster.ClusterSubscriber and eventbus.BroadcastSubscriber set the   *)
(* queue and its dead-letter queue up, take deliveries, parse and verify    *)
(* them, call the handler and acknowledge.  Several instances share the     *)
(* queue (a broadcast queue has one).  Events are published with            *)
(* SignEvent and verified with VerifyEvent.  The broker is modelled by what   *)
(* these rely on: unacknowledged deliveries return to the queue when the      *)
(* connection goes, rejected and expired ones are dead-lettered.            *)
(***************************************************************************)
EXTENDS Naturals, Sequences, FiniteSets

CONSTANTS
    Messages,       \* events published, numbered in that order
    Instances,      \* service instances that subscribe
    NoMessage,      \* stands for "no delivery at work"
    Styles,         \* what subscribes: any of "subscriber", "cluster", "broadcast"
    Signers,        \* how publishers sign: "shared" (with the key of the subscribers),
                    \* "other" (with another), "short" (a key below 16 bytes), "off"
    Prefetch        \* deliveries Subscriber has the broker send ahead (1: its Qos)

ASSUME StyleAssumption == Styles \subseteq {"subscriber", "cluster", "broadcast"}
ASSUME SignerAssumption == Signers \subseteq {"shared", "other", "short", "off"}
ASSUME PrefetchAssumption == Prefetch \in Nat \ {0}
ASSUME MessagesAssumption == Messages \subseteq Nat
ASSUME NoMessageAssumption == NoMessage \notin Messages

VARIABLES
    config,   \* the style, whether a verifier is configured, whether signing is asked
              \* for (requireSigning, and SigningRequired of the cluster's configuration),
              \* and whether the routing pattern matches the dead-letter key ("#") too
    kind,     \* what was published: "signed" (verifies), "invalid" (does not),
              \* "expired" (no longer does), "plain" (not signed), "none" (nothing yet)
    declared, \* what Subscribe has made on the broker so far
    step,     \* per instance: steps of Subscribe done, Closing, or Gone: no connection
    place,    \* where each event is
    dead,     \* events with a copy in the dead-letter queue
    held,     \* deliveries the broker waits for each instance to settle
    buffer,   \* deliveries each instance has received and not looked at
    work,     \* the delivery each instance works on
    broken,   \* history: a connection has broken
    accepted  \* history: events whose handler ran on them and returned nil

queueVars == <<declared, place, dead>>
instanceVars == <<step, held, buffer, work>>
history == <<broken, accepted>>
vars == <<config, kind, queueVars, instanceVars, history>>

\* Signing is asked for where a verifier is, and nobody gives a broadcast subscriber one.
\* Bounds, of no account to what is handled: in a cluster, whose SigningRequired is never
\* read, it is asked for with every verifier (the default); the wide pattern comes with
\* an unverified cluster only.
Configs ==
    {c \in [style : Styles, verifier : BOOLEAN, signing : BOOLEAN, wildcard : BOOLEAN] :
       /\ c.signing => c.verifier
       /\ c.style = "cluster" => c.signing = c.verifier
       /\ c.style = "broadcast" => ~c.verifier
       /\ c.wildcard => c.style = "cluster" /\ ~c.verifier}

\* The order in which the broker is set up.
SetupOrder ==
    CASE config.style = "subscriber" -> <<"dlq", "main", "bindMain", "bindDlq", "consume">>
      [] config.style = "cluster"    -> <<"dlq", "bindDlq", "main", "bindMain", "consume">>
      [] config.style = "broadcast"  -> <<"main", "bindMain", "consume">>

Consuming == Len(SetupOrder)
Closing == Consuming + 1
Gone == Consuming + 2
Resting == [pc |-> "idle", msg |-> NoMessage, verdict |-> "none"]

(***************************************************************************)
(* The one type invariant of the module.                                   *)
(***************************************************************************)
TypeOK ==
    /\ config \in Configs
    /\ declared \subseteq {"dlq", "main", "bindMain", "bindDlq", "consume"}
    /\ step \in [Instances -> 0..Gone]
    /\ place \in [Messages -> {"new", "unsent", "unrouted", "queue", "held", "acked", "dead", "lost"}]
    /\ dead \subseteq Messages
    /\ held \in [Instances -> SUBSET Messages]
    /\ buffer \in [Instances -> SUBSET Messages]
    /\ config.style = "subscriber" => \A i \in Instances : Cardinality(held[i]) <= Prefetch
    /\ work \in [Instances -> [pc : {"idle", "handle", "settle"}, msg : Messages \cup {NoMessage},
                               verdict : {"none", "event", "other", "ack", "requeue", "reject"}]]
    /\ kind \in [Messages -> {"none", "signed", "invalid", "expired", "plain"}]
    /\ broken \in BOOLEAN
    /\ accepted \subseteq Messages

Init ==
    /\ config \in Configs
    /\ declared = {}
    /\ step = [i \in Instances |-> 0]
    /\ place = [m \in Messages |-> "new"]
    /\ dead = {}
    /\ held = [i \in Instances |-> {}]
    /\ buffer = [i \in Instances |-> {}]
    /\ work = [i \in Instances |-> Resting]
    /\ kind = [m \in Messages |-> "none"]
    /\ broken = FALSE
    /\ accepted = {}

-----------------------------------------------------------------------------
(***************************************************************************)
(* Subscribe, its declarations one by one.                                 *)
(***************************************************************************)
SetupStep(i) ==
    /\ step[i] < Consuming
    /\ config.style = "broadcast" => \A j \in Instances \ {i} : step[j] = 0
    /\ step' = [step EXCEPT ![i] = @ + 1]
    /\ declared' = declared \cup {SetupOrder[step[i] + 1]}
    /\ UNCHANGED <<config, kind, place, dead, held, buffer, work, history>>

\* A declaration fails and Subscribe returns the error; the service starts over.
SetupFails(i) ==
    /\ step[i] \in 1..(Consuming - 1)
    /\ step' = [step EXCEPT ![i] = 0]
    /\ UNCHANGED <<config, kind, queueVars, held, buffer, work, history>>

(***************************************************************************)
(* Publish: SignEvent wants every required claim and a key that is long      *)
(* enough, or nothing is sent; an event no queue is bound for is dropped by   *)
(* the broker.                                                             *)
(***************************************************************************)
SignEvent(claims, signer) ==
    CASE ~claims \/ signer = "short" -> "none"
      [] claims /\ signer = "shared" -> "signed"
      [] claims /\ signer = "other" -> "invalid"

Publish(m) ==
    /\ place[m] = "new"
    /\ \A earlier \in Messages : earlier < m => place[earlier] # "new"
    /\ \E claims \in BOOLEAN, signer \in Signers :
         kind' = [kind EXCEPT ![m] = IF signer = "off" THEN "plain" ELSE SignEvent(claims, signer)]
    /\ place' = [place EXCEPT ![m] =
                   CASE kind'[m] = "none" -> "unsent"
                     [] kind'[m] # "none" /\ "bindMain" \in declared -> "queue"
                     [] OTHER -> "unrouted"]
    /\ UNCHANGED <<config, declared, dead, instanceVars, history>>

\* The expiry window passes, while the event waits or is worked on; only a verifier
\* takes notice.
Lapse(m) ==
    /\ kind[m] = "signed"
    /\ config.verifier
    /\ place[m] \in {"queue", "held"}
    /\ kind' = [kind EXCEPT ![m] = "expired"]
    /\ UNCHANGED <<config, queueVars, instanceVars, history>>

-----------------------------------------------------------------------------
(***************************************************************************)
(* Dead-lettering: to the exchange under the key of the dead-letter queue;  *)
(* a broadcast queue has no dead-letter exchange.                          *)
(***************************************************************************)
DeadLetter(m) ==
    /\ dead' = IF "bindDlq" \in declared THEN dead \cup {m} ELSE dead
    /\ place' = [place EXCEPT ![m] =
                   CASE config.style = "broadcast" -> "lost"
                     [] config.style # "broadcast" /\ config.wildcard -> "queue"
                     [] OTHER -> IF "bindDlq" \in declared THEN "dead" ELSE "lost"]

\* The queue's x-message-ttl passes.
Expire(m) ==
    /\ place[m] = "queue"
    /\ DeadLetter(m)
    /\ UNCHANGED <<config, kind, declared, instanceVars, history>>

-----------------------------------------------------------------------------
(***************************************************************************)
(* The processing goroutine: parse, verify, handle, settle.                *)
(***************************************************************************)
\* Mutant: no Qos, the broker sends all it has.
DeliverAll(i, m) ==
    /\ step[i] \in {Consuming, Closing}
    /\ place[m] = "queue"
    /\ held' = [held EXCEPT ![i] = @ \cup {m}]
    /\ buffer' = [buffer EXCEPT ![i] = @ \cup {m}]
    /\ place' = [place EXCEPT ![m] = "held"]
    /\ UNCHANGED <<config, kind, declared, dead, step, work, history>>

\* Only Subscriber sets a Qos: SubscriptionOptions.PrefetchCount is never read.
Deliver(i, m) ==
    /\ step[i] \in {Consuming, Closing}
    /\ place[m] = "queue"
    /\ config.style = "subscriber" => Cardinality(held[i]) < Prefetch
    /\ held' = [held EXCEPT ![i] = @ \cup {m}]
    /\ buffer' = [buffer EXCEPT ![i] = @ \cup {m}]
    /\ place' = [place EXCEPT ![m] = "held"]
    /\ UNCHANGED <<config, kind, declared, dead, step, work, history>>

\* VerifyEvent: the window, the claims, then the signature, which has to be that of
\* the same content under the same key.
VerifyEvent(k) == k = "signed"

Signed(k) == k \in {"signed", "invalid", "expired"}

\* Mutant: requireSigning is not looked at.
ParseTrustsPlain(k) ==
    CASE Signed(k) /\ config.verifier -> IF VerifyEvent(k) THEN "event" ELSE "reject"
      [] k = "plain" -> "event"
      [] OTHER -> "reject"

\* What the handler is given: the event, something else, or nothing at all.
Parse(k) ==
    CASE k = "plain" -> IF config.style = "subscriber" /\ config.signing THEN "reject" ELSE "event"
      [] Signed(k) /\ config.verifier /\ config.style # "broadcast" ->
           IF VerifyEvent(k) THEN "event" ELSE "reject"
      [] OTHER -> IF config.style = "cluster" THEN "reject" ELSE "other"

\* ClusterSubscriber asks isRetryableError about what it does not accept as well: the
\* text quotes a signature that is wrong, which may hold one of its keywords.
Verdicts(k) ==
    {Parse(k)} \cup (IF config.style = "cluster" /\ k = "invalid" /\ Parse(k) = "reject"
                     THEN {"requeue"} ELSE {})

\* The goroutine goes on with what it has received when the connection is gone.
Take(i, m) ==
    /\ work[i].pc = "idle"
    /\ m \in buffer[i]
    /\ buffer' = [buffer EXCEPT ![i] = @ \ {m}]
    /\ \E verdict \in Verdicts(kind[m]) :
         work' = [work EXCEPT ![i] =
                    [pc |-> IF Parse(kind[m]) = "reject" THEN "settle" ELSE "handle",
                     msg |-> m, verdict |-> verdict]]
    /\ UNCHANGED <<config, kind, queueVars, step, held, history>>

Decide(i, verdict) ==
    work' = [work EXCEPT ![i] = [pc |-> "settle", msg |-> work[i].msg, verdict |-> verdict]]

HandlerReturns(i) ==
    /\ work[i].pc = "handle"
    /\ accepted' = IF work[i].verdict = "event" THEN accepted \cup {work[i].msg} ELSE accepted
    /\ Decide(i, "ack")
    /\ UNCHANGED <<config, kind, queueVars, step, held, buffer, broken>>

\* The copies of an event the retry count is read from: x-retry-count, which
\* nothing writes.
RetryCount(m) == 0

\* An error the package takes for transient; a broadcast is retried on any error.  There
\* is no limit to it.
HandlerFails(i) ==
    /\ work[i].pc = "handle"
    /\ Decide(i, IF config.style # "broadcast" \/ RetryCount(work[i].msg) < 3 THEN "requeue" ELSE "reject")
    /\ UNCHANGED <<config, kind, queueVars, step, held, buffer, history>>

\* Any other error, or a panic that is recovered.
HandlerRejects(i) ==
    /\ config.style # "broadcast"
    /\ work[i].pc = "handle"
    /\ Decide(i, "reject")
    /\ UNCHANGED <<config, kind, queueVars, step, held, buffer, history>>

\* Mutant: a rejected delivery is requeued.
SettleRequeues(i) ==
    /\ work[i].pc = "settle"
    /\ work' = [work EXCEPT ![i] = Resting]
    /\ held' = [held EXCEPT ![i] = @ \ {work[i].msg}]
    /\ place' = [place EXCEPT ![work[i].msg] =
                   IF work[i].msg \notin held[i] THEN @
                   ELSE IF work[i].verdict = "ack" THEN "acked" ELSE "queue"]
    /\ UNCHANGED <<config, kind, declared, dead, step, buffer, history>>

\* Mutant: a delivery is settled over whatever connection there is.
SettleStale(i) ==
    /\ work[i].pc = "settle"
    /\ work' = [work EXCEPT ![i] = Resting]
    /\ held' = [held EXCEPT ![i] = @ \ {work[i].msg}]
    /\ LET m == work[i].msg IN
         CASE work[i].verdict = "ack" -> place' = [place EXCEPT ![m] = "acked"] /\ UNCHANGED dead
           [] work[i].verdict = "requeue" -> place' = [place EXCEPT ![m] = "queue"] /\ UNCHANGED dead
           [] OTHER -> DeadLetter(m)
    /\ UNCHANGED <<config, kind, declared, step, buffer, history>>

\* ack and nack, for AutoAck is off (its default); on a lost connection they fail, which
\* is logged.
Settle(i) ==
    /\ work[i].pc = "settle"
    /\ work' = [work EXCEPT ![i] = Resting]
    /\ held' = [held EXCEPT ![i] = @ \ {work[i].msg}]
    /\ LET m == work[i].msg IN
         CASE m \notin held[i] -> UNCHANGED <<place, dead>>
           [] m \in held[i] /\ work[i].verdict = "ack" ->
                place' = [place EXCEPT ![m] = "acked"] /\ UNCHANGED dead
           [] m \in held[i] /\ work[i].verdict = "requeue" ->
                place' = [place EXCEPT ![m] = "queue"] /\ UNCHANGED dead
           [] OTHER -> DeadLetter(m)
    /\ UNCHANGED <<config, kind, declared, step, buffer, history>>

-----------------------------------------------------------------------------
(***************************************************************************)
(* A connection that breaks or is closed returns what the instance held to    *)
(* the queue and ends its delivery channel; a handler at work goes on, and so  *)
(* does the goroutine with what it may have been handed (amqp drops the rest). *)
(* A broadcast queue is exclusive and goes with its connection.             *)
(***************************************************************************)
Disconnect(i, kept) ==
    /\ step' = [step EXCEPT ![i] = Gone]
    /\ held' = [held EXCEPT ![i] = {}]
    /\ buffer' = [buffer EXCEPT ![i] = kept]
    /\ IF config.style = "broadcast"
         THEN /\ declared' = {}
              /\ place' = [m \in Messages |-> IF place[m] \in {"queue", "held"} THEN "lost" ELSE place[m]]
         ELSE /\ place' = [m \in Messages |-> IF m \in held[i] THEN "queue" ELSE place[m]]
              /\ UNCHANGED declared

Lose(i) ==
    /\ step[i] = Consuming
    /\ broken' = TRUE
    /\ \E kept \in {buffer[i], {}} : Disconnect(i, kept)
    /\ UNCHANGED <<config, kind, dead, work, accepted>>

\* Close: ClusterSubscriber cancels its context first and waits for the goroutine.
Close(i) ==
    /\ step[i] = Consuming
    /\ IF config.style = "cluster"
         THEN step' = [step EXCEPT ![i] = Closing] /\ UNCHANGED <<declared, place, held, buffer>>
         ELSE \E kept \in {buffer[i], {}} : Disconnect(i, kept)
    /\ UNCHANGED <<config, kind, dead, work, history>>

\* Mutant: Close does not wait for the handler.
StopAtOnce(i) ==
    /\ step[i] = Closing
    /\ Disconnect(i, {})
    /\ UNCHANGED <<config, kind, dead, work, history>>

\* The goroutine sees the cancelled context between two deliveries.
Stop(i) ==
    /\ step[i] = Closing
    /\ work[i].pc = "idle"
    /\ Disconnect(i, {})
    /\ UNCHANGED <<config, kind, dead, work, history>>

\* The process is started again: no subscriber resubscribes by itself.
Restart(i) ==
    /\ step[i] = Gone
    /\ step' = [step EXCEPT ![i] = 0]
    /\ buffer' = [buffer EXCEPT ![i] = {}]
    /\ work' = [work EXCEPT ![i] = Resting]
    /\ UNCHANGED <<config, kind, queueVars, held, history>>

Process(i) ==
    \/ \E m \in Messages : Deliver(i, m) \/ Take(i, m)
    \/ Settle(i) \/ Stop(i)

Next ==
    \/ \E m \in Messages : Publish(m) \/ Lapse(m) \/ Expire(m)
    \/ \E i \in Instances :
         \/ SetupStep(i) \/ SetupFails(i) \/ Lose(i) \/ Close(i) \/ Restart(i)
         \/ HandlerReturns(i) \/ HandlerFails(i) \/ HandlerRejects(i)
         \/ Process(i)

Spec == Init /\ [][Next]_vars

(***************************************************************************)
(* Fairness: the loop of an instance goes on, and what only waits expires. A *)
(* handler need not return, nor an instance be set up or started again.     *)
(***************************************************************************)
FairSpec ==
    /\ Spec
    /\ \A i \in Instances : WF_vars(Process(i))
    /\ WF_vars(\E m \in Messages : Expire(m))

-----------------------------------------------------------------------------
StartsOn(i, m) == work[i].pc # "handle" /\ work'[i].pc = "handle" /\ work'[i].msg = m

\* With requireSigning, Subscriber starts no handler on an event whose signature does
\* not verify at that moment, whatever was forged, has lapsed since it was published or
\* first handled, or is redelivered, and to whom.  A ClusterSubscriber, and a Subscriber
\* with a verifier, start none on a signed one that does not verify.  But unsigned ones
\* the cluster handles, also when EVENT_SIGNING_REQUIRED asks for signatures: nothing
\* reads SigningRequired (amqpcluster/config.go).  A broadcast is never verified, nor is
\* anything without a verifier (Subscribe, handleMessage).
OnlyVerifiedStarts ==
    [][\A i \in Instances, m \in Messages : StartsOn(i, m) =>
         \/ VerifyEvent(kind[m])
         \/ config.style = "broadcast"
         \/ config.style = "cluster" /\ kind[m] = "plain"
         \/ config.style = "subscriber" /\ ~config.signing
              /\ (kind[m] = "plain" \/ ~config.verifier)]_vars

\* As long as no connection breaks, a cluster event whose handler has succeeded is
\* acknowledged by the instance that handled it and never handed to another one:
\* not through Close, a restart, a failed setup, or an expiry either
\* (ClusterSubscriber.Close waits for handleMessage before the cluster is closed).
HandledOnce ==
    config.style = "cluster" /\ ~broken =>
        \A m \in accepted :
            \/ place[m] = "acked"
            \/ \E i \in Instances : m \in held[i] /\ work[i].msg = m /\ work[i].verdict = "ack"

\* What an instance has received and is not done with.
InHand(i) == buffer[i] \cup (IF work[i].pc = "idle" THEN {} ELSE {work[i].msg})

\* What is not sent, or not routed, never gets into the queue.
Fate(m) == IF place[m] \in {"unsent", "unrouted"} THEN "dropped" ELSE place[m]

Queue ==
    INSTANCE EventQueue WITH
        Events <- Messages, Consumers <- Instances,
        fate <- [m \in Messages |-> Fate(m)],
        leased <- held,
        hands <- [i \in Instances |-> InHand(i)],
        handled <- accepted,
        buried <- dead

\* With the cluster adapter the queue implements EventQueue, whatever breaks: what an
\* instance still works on after its connection is gone may be with another one by
\* then, and yet only the holder settles it, and an acknowledgement ends only what was
\* handled.  So an event leaves the queue for good only handled or with a copy in the
\* dead-letter queue: not through a redelivery that races its acknowledgement, a
\* restart, an expiry or a failed setup ("dead-letter handling"; Subscribe,
\* handleMessage, Close).
DeliversAtLeastOnce ==
    /\ config.style = "cluster" => Queue!Init
    /\ [][config.style = "cluster" => [Queue!Next]_(Queue!vars)]_vars

\* Every event leaves the queue in the end: nothing parks it, whether or not anybody
\* subscribes, returns or restarts (Subscribe, handleMessage, x-message-ttl).  Not so an
\* event whose error is taken for transient again and again, nor what waits with it
\* (nothing counts the requeues, and nothing writes the x-retry-count a broadcast looks
\* at), nor where a handler never returns, where connections break for ever, or where a
\* wide pattern brings dead letters back.
QueueDrains ==
    \/ \E i \in Instances : <>[](work[i].pc = "handle")
    \/ []<>(\E i \in Instances : work[i].verdict = "requeue")
    \/ []<><<\E i \in Instances : Restart(i)>>_vars
    \/ \A m \in Messages : []<>(place[m] \notin {"queue", "held"} \/ config.wildcard)

=============================================================================
