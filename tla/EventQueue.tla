------------------------------ MODULE EventQueue ------------------------------
(***************************************************************************)
(* What a queue of events promises those that share it: delivery at least    *)
(* once.  An event is leased to one consumer at a time; a consumer handles    *)
(* only what it was leased, and may do so after the lease has ended; a lease   *)
(* is completed only by its holder, and only when the event has been handled;  *)
(* what is returned waits again, and what is given up has a copy among the    *)
(* buried.  Completed and dead events stay so.  EventDelivery implements it   *)
(* with the cluster adapter.                                               *)
(***************************************************************************)
EXTENDS Naturals

CONSTANTS
    Events,   \* what may be published
    Consumers \* who shares the queue

VARIABLES
    fate,    \* of an event: "new", "dropped", "queue", "held", "acked", "dead"
    leased,  \* per consumer: the events it is to settle
    hands,   \* per consumer: the events it has been given and not done with
    handled, \* events that a consumer has handled
    buried   \* events with a copy in the dead-letter queue

vars == <<fate, leased, hands, handled, buried>>

Init ==
    /\ fate = [e \in Events |-> "new"]
    /\ leased = [c \in Consumers |-> {}]
    /\ hands = [c \in Consumers |-> {}]
    /\ handled = {}
    /\ buried = {}

Publish(e) ==
    /\ fate[e] = "new"
    /\ \E f \in {"queue", "dropped"} : fate' = [fate EXCEPT ![e] = f]
    /\ UNCHANGED <<leased, hands, handled, buried>>

Lease(c, e) ==
    /\ fate[e] = "queue"
    /\ fate' = [fate EXCEPT ![e] = "held"]
    /\ leased' = [leased EXCEPT ![c] = @ \cup {e}]
    /\ hands' = [hands EXCEPT ![c] = @ \cup {e}]
    /\ UNCHANGED <<handled, buried>>

Handle(c, e) ==
    /\ e \in hands[c]
    /\ handled' = handled \cup {e}
    /\ UNCHANGED <<fate, leased, hands, buried>>

\* A consumer may be done with an event, or lose it, whoever holds the lease by now.
LetsGo(c) == \E kept \in SUBSET hands[c] : hands' = [hands EXCEPT ![c] = kept]

Complete(c, e) ==
    /\ e \in leased[c] \cap handled
    /\ fate' = [fate EXCEPT ![e] = "acked"]
    /\ leased' = [leased EXCEPT ![c] = @ \ {e}]
    /\ LetsGo(c)
    /\ UNCHANGED <<handled, buried>>

\* Nothing, one event or all that was leased waits again.
Return(c) ==
    /\ \E returned \in SUBSET leased[c] :
         /\ fate' = [e \in Events |-> IF e \in returned THEN "queue" ELSE fate[e]]
         /\ leased' = [leased EXCEPT ![c] = @ \ returned]
    /\ LetsGo(c)
    /\ UNCHANGED <<handled, buried>>

\* A binding may bring a dead letter back.
Bury(e) ==
    /\ buried' = buried \cup {e}
    /\ \E f \in {"dead", "queue"} : fate' = [fate EXCEPT ![e] = f]
    /\ UNCHANGED handled

Expire(e) ==
    /\ fate[e] = "queue"
    /\ Bury(e)
    /\ UNCHANGED <<leased, hands>>

Reject(c, e) ==
    /\ e \in leased[c]
    /\ Bury(e)
    /\ leased' = [leased EXCEPT ![c] = @ \ {e}]
    /\ LetsGo(c)

Next ==
    \/ \E e \in Events : Publish(e) \/ Expire(e)
    \/ \E c \in Consumers : Return(c)
    \/ \E c \in Consumers, e \in Events :
         Lease(c, e) \/ Handle(c, e) \/ Complete(c, e) \/ Reject(c, e)

Spec == Init /\ [][Next]_vars

=============================================================================
