------------------------- MODULE EventDeliveryProofs -------------------------
(***************************************************************************)
(* The safety of EventDelivery for every number of events and instances,     *)
(* every Prefetch and any number of breaks and faults.  The invariants:      *)
(* TypeInv, the types and what a delivery at work looks like; HoldInv, that  *)
(* a delivery is held by one connected instance only; KeepInv, why nothing   *)
(* is lost with the cluster adapter; SentInv, that what is at work was sent;  *)
(* and OnceInv, where the deliveries at work are while no connection breaks. *)
(* Each uses the ones before it.  The first three make every step one of EventQueue's.                         *)
(***************************************************************************)
EXTENDS EventDelivery, FiniteSetTheorems, TLAPS

USE StyleAssumption, SignerAssumption, PrefetchAssumption, NoMessageAssumption

Places == {"new", "unsent", "unrouted", "queue", "held", "acked", "dead", "lost"}

Declarations == {"dlq", "main", "bindMain", "bindDlq", "consume"}

Kinds == {"none", "signed", "invalid", "expired", "plain"}

WorkStates == [pc : {"idle", "handle", "settle"}, msg : Messages \cup {NoMessage},
               verdict : {"none", "event", "other", "ack", "requeue", "reject"}]

\* A handler works on an event or what it took for one; a decision is about a delivery.
Works == {r \in WorkStates : /\ r.pc = "idle" => r.verdict = "none"
                             /\ r.pc = "handle" => r.msg \in Messages /\ r.verdict \in {"event", "other"}
                             /\ r.pc = "settle" => r.msg \in Messages /\ r.verdict \in {"ack", "requeue", "reject"}}

TypeInv ==
    /\ TypeOK
    /\ work \in [Instances -> Works]
    /\ \A i \in Instances : IsFiniteSet(held[i])

\* A delivery waits for one instance only, which is connected; a broadcast queue has one
\* instance at a time.
HoldInv ==
    /\ \A i \in Instances : \A m \in held[i] : place[m] = "held"
    /\ \A i, j \in Instances : i # j => held[i] \cap held[j] = {}
    /\ \A i \in Instances : held[i] # {} => step[i] \in {Consuming, Closing}
    /\ config.style = "broadcast" => \A i, j \in Instances : i # j => step[i] = 0 \/ step[j] = 0

\* With the cluster adapter an event leaves the queue for good only when a handler has
\* run on that very event and returned nil, or with a copy in the dead-letter queue.
NoneVanishes ==
    config.style = "cluster" =>
        \A m \in Messages : (place[m] = "acked" => m \in accepted) /\ place[m] # "lost"

\* The cluster adapter binds the dead-letter queue before the queue that feeds it, and
\* hands its handler nothing but events.
KeepInv ==
    /\ config.style = "cluster" =>
         /\ \A i \in Instances : step[i] > 1 => "bindDlq" \in declared
         /\ "bindMain" \in declared => "bindDlq" \in declared
         /\ \A m \in Messages : place[m] \in {"queue", "held"} => "bindMain" \in declared
         /\ \A i \in Instances : work[i].verdict # "other" /\ (work[i].verdict = "ack" => work[i].msg \in accepted)
    /\ NoneVanishes

\* What nothing was sent of is in no queue and at no instance.
SentInv ==
    \A m \in Messages :
        /\ place[m] = "new" => kind[m] = "none"
        /\ kind[m] = "none" => /\ place[m] \notin {"queue", "held"}
                                /\ \A i \in Instances : m \notin buffer[i] \cup held[i]

\* While no connection has broken, what an instance has received or works on is still its own.
OnceInv ==
    /\ config.style = "cluster" /\ ~broken =>
         \A i \in Instances : /\ buffer[i] \subseteq held[i]
                              /\ work[i].pc # "idle" => work[i].msg \in held[i] \ buffer[i]
    /\ HandledOnce

-----------------------------------------------------------------------------
(***************************************************************************)
(* What the actions' parts do.                                             *)
(***************************************************************************)
LEMMA ConfigFacts ==
    ASSUME config \in Configs
    PROVE  /\ config.style \in {"subscriber", "cluster", "broadcast"}
           /\ config.signing => config.verifier
           /\ config.verifier \in BOOLEAN /\ config.signing \in BOOLEAN /\ config.wildcard \in BOOLEAN
  BY DEF Configs

\* The steps of Subscribe; the cluster adapter binds the dead-letter queue second.
LEMMA SetupFacts ==
    ASSUME config \in Configs
    PROVE  /\ Consuming \in {3, 5} /\ Closing = Consuming + 1 /\ Gone = Consuming + 2
           /\ config.style # "broadcast" => Consuming = 5
           /\ \A k \in 0..(Consuming - 1) : SetupOrder[k + 1] \in Declarations
           /\ config.style = "cluster" =>
                /\ SetupOrder[2] = "bindDlq"
                /\ \A k \in 0..(Consuming - 1) : SetupOrder[k + 1] = "bindMain" => k > 1
<1>1. config.style \in {"subscriber", "cluster", "broadcast"}
  BY ConfigFacts
<1>2. CASE config.style = "subscriber"
  <2>1. SetupOrder = <<"dlq", "main", "bindMain", "bindDlq", "consume">>
    BY <1>2 DEF SetupOrder
  <2>2. QED
    BY <1>2, <2>1 DEF Consuming, Closing, Gone, Declarations
<1>3. CASE config.style = "cluster"
  <2>1. SetupOrder = <<"dlq", "bindDlq", "main", "bindMain", "consume">>
    BY <1>3 DEF SetupOrder
  <2>2. QED
    BY <1>3, <2>1 DEF Consuming, Closing, Gone, Declarations
<1>4. CASE config.style = "broadcast"
  <2>1. SetupOrder = <<"main", "bindMain", "consume">>
    BY <1>4 DEF SetupOrder
  <2>2. QED
    BY <1>4, <2>1 DEF Consuming, Closing, Gone, Declarations
<1>5. QED
  BY <1>1, <1>2, <1>3, <1>4

\* The configuration stays, and with it the number of the steps.
LEMMA ConfigStays ==
    ASSUME [Next]_vars
    PROVE  config' = config /\ Consuming' = Consuming /\ Closing' = Closing /\ Gone' = Gone
<1>1. config' = config
  <2>1. CASE Next
    BY <2>1 DEF Next, Process, SetupStep, SetupFails, Publish, Lapse, Expire, Deliver, Take,
       HandlerReturns, HandlerFails, HandlerRejects, Settle, Lose, Close, Stop, Restart
  <2>2. CASE UNCHANGED vars
    BY <2>2 DEF vars
  <2>3. QED
    BY <2>1, <2>2
<1>2. QED
  BY <1>1 DEF Consuming, Closing, Gone, SetupOrder

\* Dead-lettering moves one event, and into the dead-letter queue when that is bound.
LEMMA DeadLetterEffect ==
    ASSUME TypeInv, NEW m \in Messages, DeadLetter(m)
    PROVE  /\ place' \in [Messages -> Places] /\ dead' \subseteq Messages
           /\ \A n \in Messages \ {m} : place'[n] = place[n]
           /\ place'[m] \in {"lost", "queue", "dead"}
           /\ config.style = "cluster" /\ "bindDlq" \in declared => place'[m] # "lost"
<1>1. place \in [Messages -> Places] /\ dead \subseteq Messages
  BY DEF TypeInv, TypeOK, Places
<1>2. PICK p : /\ place' = [place EXCEPT ![m] = p]
               /\ p \in {"lost", "queue", "dead"}
               /\ config.style = "cluster" /\ "bindDlq" \in declared => p # "lost"
  <2> DEFINE q == CASE config.style = "broadcast" -> "lost"
                    [] config.style # "broadcast" /\ config.wildcard -> "queue"
                    [] OTHER -> IF "bindDlq" \in declared THEN "dead" ELSE "lost"
  <2>1. place' = [place EXCEPT ![m] = q]
    BY DEF DeadLetter
  <2>2. q \in {"lost", "queue", "dead"}
    OBVIOUS
  <2>3. config.style = "cluster" /\ "bindDlq" \in declared => q # "lost"
    OBVIOUS
  <2>4. QED
    BY <2>1, <2>2, <2>3
<1>3. dead' \subseteq Messages
  BY <1>1 DEF DeadLetter
<1>4. QED
  BY <1>1, <1>2, <1>3 DEF Places

\* Disconnect empties the hands of one instance and touches the place of events in the
\* queue or at an instance only.
LEMMA DisconnectEffect ==
    ASSUME TypeInv, NEW i \in Instances, NEW kept \in SUBSET buffer[i], Disconnect(i, kept)
    PROVE  /\ step' = [step EXCEPT ![i] = Gone]
           /\ held' = [held EXCEPT ![i] = {}]
           /\ buffer' = [buffer EXCEPT ![i] = kept]
           /\ declared' \in {declared, {}}
           /\ place' \in [Messages -> Places]
           /\ config.style = "broadcast" =>
                \A m \in Messages : place'[m] = IF place[m] \in {"queue", "held"} THEN "lost" ELSE place[m]
           /\ config.style # "broadcast" =>
                /\ declared' = declared
                /\ \A m \in Messages : place'[m] = IF m \in held[i] THEN "queue" ELSE place[m]
<1>1. place \in [Messages -> Places]
  BY DEF TypeInv, TypeOK, Places
<1>2. QED
  BY <1>1 DEF Disconnect, Places

-----------------------------------------------------------------------------
(***************************************************************************)
(* Types.                                                                  *)
(***************************************************************************)
\* What the broker waits for, with Subscriber's Qos.
HeldTyped ==
    /\ held \in [Instances -> SUBSET Messages]
    /\ \A i \in Instances : IsFiniteSet(held[i])
    /\ config.style = "subscriber" => \A i \in Instances : Cardinality(held[i]) <= Prefetch

LEMMA HeldAdd ==
    ASSUME HeldTyped, config' = config, NEW i \in Instances, NEW m \in Messages,
           config.style = "subscriber" => Cardinality(held[i]) < Prefetch,
           held' = [held EXCEPT ![i] = @ \cup {m}]
    PROVE  HeldTyped'
<1>1. held' \in [Instances -> SUBSET Messages]
  BY DEF HeldTyped
<1>2. ASSUME NEW j \in Instances
      PROVE  /\ IsFiniteSet(held'[j])
             /\ config.style = "subscriber" => Cardinality(held'[j]) <= Prefetch
  <2>1. CASE j = i
    <3>1. held'[j] = held[i] \cup {m} /\ IsFiniteSet(held[i])
      BY <2>1 DEF HeldTyped
    <3>2. /\ IsFiniteSet(held[i] \cup {m})
          /\ Cardinality(held[i] \cup {m}) \in {Cardinality(held[i]), Cardinality(held[i]) + 1}
      BY <3>1, FS_AddElement
    <3>3. Cardinality(held[i]) \in Nat
      BY <3>1, FS_CardinalityType
    <3>4. IsFiniteSet(held'[j]) /\ Cardinality(held'[j]) \in {Cardinality(held[i]), Cardinality(held[i]) + 1}
      BY <3>1, <3>2
    <3>5. config.style = "subscriber" => Cardinality(held'[j]) <= Prefetch
      BY <3>3, <3>4
    <3>6. QED
      BY <3>4, <3>5
  <2>2. CASE j # i
    BY <2>2 DEF HeldTyped
  <2>3. QED
    BY <2>1, <2>2
<1>3. QED
  BY <1>1, <1>2 DEF HeldTyped

LEMMA HeldFewer ==
    ASSUME HeldTyped, config' = config, held' \in [Instances -> SUBSET Messages],
           \A i \in Instances : held'[i] \subseteq held[i]
    PROVE  HeldTyped'
<1>1. ASSUME NEW j \in Instances
      PROVE  /\ IsFiniteSet(held'[j])
             /\ config.style = "subscriber" => Cardinality(held'[j]) <= Prefetch
  <2>1. IsFiniteSet(held[j]) /\ held'[j] \subseteq held[j]
    BY DEF HeldTyped
  <2>2. IsFiniteSet(held'[j]) /\ Cardinality(held'[j]) <= Cardinality(held[j])
    BY <2>1, FS_Subset
  <2>3. Cardinality(held[j]) \in Nat /\ Cardinality(held'[j]) \in Nat
    BY <2>1, <2>2, FS_CardinalityType
  <2>4. config.style = "subscriber" => Cardinality(held[j]) <= Prefetch
    BY DEF HeldTyped
  <2>5. QED
    BY <2>2, <2>3, <2>4
<1>2. QED
  BY <1>1 DEF HeldTyped

\* The other variables.
RestTyped ==
    /\ config \in Configs
    /\ declared \subseteq Declarations
    /\ step \in [Instances -> 0..Gone]
    /\ place \in [Messages -> Places]
    /\ dead \subseteq Messages
    /\ buffer \in [Instances -> SUBSET Messages]
    /\ work \in [Instances -> Works]
    /\ kind \in [Messages -> Kinds]
    /\ broken \in BOOLEAN
    /\ accepted \subseteq Messages

LEMMA TypeParts == TypeInv <=> HeldTyped /\ RestTyped
<1>1. Works \subseteq WorkStates
  BY DEF Works
<1>2. work \in [Instances -> Works] => work \in [Instances -> WorkStates]
  BY <1>1
<1>3. QED
  BY <1>2 DEF TypeInv, TypeOK, HeldTyped, RestTyped, Declarations, Places, Kinds, WorkStates

LEMMA InitTypes == Init => TypeInv
<1> SUFFICES ASSUME Init PROVE TypeInv
  OBVIOUS
<1>1. HeldTyped
  BY FS_EmptySet DEF Init, HeldTyped
<1>2. Resting \in Works
  BY DEF Resting, Works, WorkStates
<1>3. 0 \in 0..Gone
  BY SetupFacts DEF Init
<1>4. RestTyped
  BY <1>2, <1>3 DEF Init, RestTyped, Places, Kinds
<1>5. QED
  BY <1>1, <1>4, TypeParts

\* What a handler is given, and what becomes of it.
LEMMA ParseType ==
    ASSUME config \in Configs, NEW k
    PROVE  /\ Parse(k) \in {"event", "other", "reject"}
           /\ config.style = "cluster" => Parse(k) # "other"
           /\ Verdicts(k) \subseteq {"event", "other", "reject", "requeue"}
           /\ "event" \in Verdicts(k) => Parse(k) = "event"
           /\ "other" \in Verdicts(k) => Parse(k) = "other"
           /\ \A v \in Verdicts(k) : Parse(k) = "reject" <=> v \in {"reject", "requeue"}
<1>1. config.style \in {"subscriber", "cluster", "broadcast"}
  BY ConfigFacts
<1>2. /\ Parse(k) \in {"event", "other", "reject"}
      /\ config.style = "cluster" => Parse(k) # "other"
  BY <1>1 DEF Parse
<1>3. Verdicts(k) = {Parse(k)} \/ (Verdicts(k) = {Parse(k), "requeue"} /\ Parse(k) = "reject")
  BY DEF Verdicts
<1>4. QED
  BY <1>2, <1>3

At(pc, m, verdict) == [pc |-> pc, msg |-> m, verdict |-> verdict]

LEMMA AtType ==
    ASSUME NEW m \in Messages
    PROVE  /\ Resting \in Works
           /\ \A v \in {"event", "other"} : At("handle", m, v) \in Works
           /\ \A v \in {"ack", "requeue", "reject"} : At("settle", m, v) \in Works
  BY DEF Resting, At, Works, WorkStates

\* A decision keeps the delivery at work.
LEMMA DecideEffect ==
    ASSUME TypeInv, NEW i \in Instances, work[i].pc = "handle",
           NEW v \in {"ack", "requeue", "reject"}, Decide(i, v)
    PROVE  /\ work[i].msg \in Messages /\ work[i].verdict \in {"event", "other"}
           /\ work' = [work EXCEPT ![i] = At("settle", work[i].msg, v)]
           /\ work' \in [Instances -> Works]
<1>1. work \in [Instances -> Works] /\ work[i] \in Works /\ work[i] \in WorkStates
  BY DEF TypeInv, Works
<1>2. work[i].msg \in Messages /\ work[i].verdict \in {"event", "other"}
  BY <1>1 DEF Works
<1>3. work' = [work EXCEPT ![i] = At("settle", work[i].msg, v)]
  BY DEF Decide, At
<1>4. At("settle", work[i].msg, v) \in Works
  BY <1>2, AtType
<1>5. QED
  BY <1>1, <1>2, <1>3, <1>4

\* Settle moves one delivery at most, one the instance holds.
LEMMA SettleEffect ==
    ASSUME TypeInv, NEW i \in Instances, Settle(i)
    PROVE  /\ work[i].pc = "settle" /\ work[i].msg \in Messages
           /\ work' = [work EXCEPT ![i] = Resting]
           /\ held' = [held EXCEPT ![i] = @ \ {work[i].msg}]
           /\ place' \in [Messages -> Places] /\ dead' \subseteq Messages
           /\ \A n \in Messages \ {work[i].msg} : place'[n] = place[n]
           /\ work[i].msg \notin held[i] => place' = place
           /\ work[i].msg \in held[i] =>
                /\ place'[work[i].msg] \in {"acked", "queue", "dead", "lost"}
                /\ place'[work[i].msg] = "acked" <=> work[i].verdict = "ack"
                /\ place'[work[i].msg] = "lost" => ~(config.style = "cluster" /\ "bindDlq" \in declared)
<1> DEFINE m == work[i].msg
<1>0. place \in [Messages -> Places] /\ dead \subseteq Messages /\ held \in [Instances -> SUBSET Messages]
  BY DEF TypeInv, TypeOK, Places
<1>1. /\ work[i].pc = "settle" /\ work' = [work EXCEPT ![i] = Resting]
      /\ held' = [held EXCEPT ![i] = @ \ {m}]
  BY DEF Settle
<1>2. m \in Messages /\ work[i].verdict \in {"ack", "requeue", "reject"}
  <2>1. work[i] \in Works
    BY DEF TypeInv
  <2>2. QED
    BY <1>1, <2>1 DEF Works
<1>3. CASE m \notin held[i]
  <2>1. place' = place /\ dead' = dead
    BY <1>3 DEF Settle
  <2>2. QED
    BY <1>0, <1>1, <1>2, <1>3, <2>1
<1>4. CASE m \in held[i] /\ work[i].verdict = "ack"
  <2>1. place' = [place EXCEPT ![m] = "acked"] /\ dead' = dead
    BY <1>4 DEF Settle
  <2>2. QED
    BY <1>0, <1>1, <1>2, <1>4, <2>1 DEF Places
<1>5. CASE m \in held[i] /\ work[i].verdict = "requeue"
  <2>1. place' = [place EXCEPT ![m] = "queue"] /\ dead' = dead
    BY <1>5 DEF Settle
  <2>2. QED
    BY <1>0, <1>1, <1>2, <1>5, <2>1 DEF Places
<1>6. CASE m \in held[i] /\ work[i].verdict = "reject"
  <2>1. DeadLetter(m)
    BY <1>6 DEF Settle
  <2> HIDE DEF m
  <2>2. /\ place' \in [Messages -> Places] /\ dead' \subseteq Messages
        /\ \A n \in Messages \ {m} : place'[n] = place[n]
        /\ place'[m] \in {"lost", "queue", "dead"}
        /\ config.style = "cluster" /\ "bindDlq" \in declared => place'[m] # "lost"
    BY <1>2, <2>1, DeadLetterEffect
  <2> USE DEF m
  <2>3. QED
    BY <1>0, <1>1, <1>2, <1>6, <2>2
<1>7. QED
  BY <1>2, <1>3, <1>4, <1>5, <1>6

\* Publish gives an event its kind, once.
LEMMA PublishEffect ==
    ASSUME TypeInv, NEW m \in Messages, Publish(m)
    PROVE  /\ place[m] = "new"
           /\ kind' \in [Messages -> Kinds] /\ place' \in [Messages -> Places]
           /\ \A n \in Messages \ {m} : kind'[n] = kind[n] /\ place'[n] = place[n]
           /\ place'[m] \in {"unsent", "queue", "unrouted"}
           /\ place'[m] = "queue" => "bindMain" \in declared /\ kind'[m] # "none"
<1>0. place \in [Messages -> Places] /\ kind \in [Messages -> Kinds]
  BY DEF TypeInv, TypeOK, Places, Kinds
<1>1. PICK claims \in BOOLEAN, signer \in Signers :
         kind' = [kind EXCEPT ![m] = IF signer = "off" THEN "plain" ELSE SignEvent(claims, signer)]
  BY DEF Publish
<1>2. signer \in {"shared", "other", "short", "off"}
  OBVIOUS
<1>3. (IF signer = "off" THEN "plain" ELSE SignEvent(claims, signer)) \in Kinds
  BY <1>2 DEF SignEvent, Kinds
<1>4. kind' \in [Messages -> Kinds] /\ \A n \in Messages \ {m} : kind'[n] = kind[n]
  BY <1>0, <1>1, <1>3
<1>5. PICK p : /\ place' = [place EXCEPT ![m] = p]
               /\ p \in {"unsent", "queue", "unrouted"}
               /\ p = "queue" => "bindMain" \in declared /\ kind'[m] # "none"
  <2> DEFINE q == CASE kind'[m] = "none" -> "unsent"
                    [] kind'[m] # "none" /\ "bindMain" \in declared -> "queue"
                    [] OTHER -> "unrouted"
  <2>1. place' = [place EXCEPT ![m] = q]
    BY DEF Publish
  <2>2. q \in {"unsent", "queue", "unrouted"} /\ (q = "queue" => "bindMain" \in declared /\ kind'[m] # "none")
    OBVIOUS
  <2>3. QED
    BY <2>1, <2>2
<1>6. place[m] = "new"
  BY DEF Publish
<1>7. QED
  BY <1>0, <1>4, <1>5, <1>6 DEF Places

\* Close asks the goroutine to end, or ends the connection.
LEMMA CloseEffect ==
    ASSUME TypeInv, NEW i \in Instances, Close(i)
    PROVE  /\ step[i] = Consuming
           /\ config.style = "cluster" =>
                /\ step' = [step EXCEPT ![i] = Closing]
                /\ UNCHANGED <<declared, place, held, buffer>>
           /\ config.style # "cluster" => \E kept \in SUBSET buffer[i] : Disconnect(i, kept)
           /\ UNCHANGED <<config, kind, dead, work, broken, accepted>>
  BY DEF Close, history

LEMMA LoseEffect ==
    ASSUME TypeInv, NEW i \in Instances, Lose(i)
    PROVE  /\ step[i] = Consuming
           /\ \E kept \in SUBSET buffer[i] : Disconnect(i, kept)
           /\ UNCHANGED <<config, kind, dead, work, accepted>>
           /\ broken' = TRUE
  BY DEF Lose

\* A connection that ends keeps the types.
LEMMA DisconnectTypes ==
    ASSUME TypeInv, NEW i \in Instances, NEW kept \in SUBSET buffer[i], Disconnect(i, kept),
           UNCHANGED <<config, kind, dead, work, accepted>>, Gone' = Gone, Gone \in Nat,
           broken' \in BOOLEAN
    PROVE  HeldTyped' /\ RestTyped'
<1>0. HeldTyped /\ RestTyped
  BY TypeParts
<1>1. /\ step' = [step EXCEPT ![i] = Gone] /\ held' = [held EXCEPT ![i] = {}]
      /\ buffer' = [buffer EXCEPT ![i] = kept] /\ declared' \in {declared, {}}
      /\ place' \in [Messages -> Places]
  BY DisconnectEffect
<1>2. HeldTyped'
  <2>1. held' \in [Instances -> SUBSET Messages] /\ \A j \in Instances : held'[j] \subseteq held[j]
    BY <1>0, <1>1 DEF HeldTyped
  <2>2. QED
    BY <1>0, <2>1, HeldFewer
<1>3. step' \in [Instances -> 0..Gone'] /\ buffer' \in [Instances -> SUBSET Messages]
      /\ declared' \subseteq Declarations
  BY <1>0, <1>1 DEF RestTyped
<1>4. QED
  BY <1>0, <1>1, <1>2, <1>3 DEF RestTyped

LEMMA TypeStep == TypeInv /\ [Next]_vars => TypeInv'
<1> SUFFICES ASSUME TypeInv, [Next]_vars PROVE HeldTyped' /\ RestTyped'
  BY TypeParts, PTL
<1>0. HeldTyped /\ RestTyped
  BY TypeParts
<1>1. config' = config /\ Consuming' = Consuming /\ Closing' = Closing /\ Gone' = Gone
  BY ConfigStays
<1>2. /\ Consuming \in {3, 5} /\ Closing = Consuming + 1 /\ Gone = Consuming + 2
      /\ \A k \in 0..(Consuming - 1) : SetupOrder[k + 1] \in Declarations
  BY <1>0, SetupFacts DEF RestTyped
<1>3. ASSUME NEW m \in Messages, Publish(m) PROVE HeldTyped' /\ RestTyped'
  <2>1. kind' \in [Messages -> Kinds] /\ place' \in [Messages -> Places]
    BY <1>3, PublishEffect
  <2>2. QED
    BY <1>0, <1>1, <1>3, <2>1 DEF Publish, instanceVars, history, HeldTyped, RestTyped
<1>4. ASSUME NEW m \in Messages, Lapse(m) PROVE HeldTyped' /\ RestTyped'
  <2>1. kind' \in [Messages -> Kinds]
    BY <1>0, <1>4 DEF Lapse, RestTyped, Kinds
  <2>2. QED
    BY <1>0, <1>1, <1>4, <2>1 DEF Lapse, instanceVars, history, queueVars, HeldTyped, RestTyped
<1>5. ASSUME NEW m \in Messages, Expire(m) PROVE HeldTyped' /\ RestTyped'
  <2>1. place' \in [Messages -> Places] /\ dead' \subseteq Messages
    BY <1>5, DeadLetterEffect DEF Expire
  <2>2. QED
    BY <1>0, <1>1, <1>5, <2>1 DEF Expire, instanceVars, history, HeldTyped, RestTyped
<1>6. ASSUME NEW i \in Instances, SetupStep(i) PROVE HeldTyped' /\ RestTyped'
  <2>1. step[i] \in 0..(Consuming - 1)
    BY <1>0, <1>2, <1>6 DEF SetupStep, RestTyped
  <2>2. step' \in [Instances -> 0..Gone']
    BY <1>0, <1>1, <1>2, <1>6, <2>1 DEF SetupStep, RestTyped
  <2>3. declared' \subseteq Declarations
    BY <1>0, <1>2, <1>6, <2>1 DEF SetupStep, RestTyped
  <2>4. QED
    BY <1>0, <1>1, <1>6, <2>2, <2>3 DEF SetupStep, history, HeldTyped, RestTyped
<1>7. ASSUME NEW i \in Instances, SetupFails(i) PROVE HeldTyped' /\ RestTyped'
  <2>1. step' \in [Instances -> 0..Gone']
    BY <1>0, <1>1, <1>2, <1>7 DEF SetupFails, RestTyped
  <2>2. QED
    BY <1>0, <1>1, <1>7, <2>1 DEF SetupFails, queueVars, history, HeldTyped, RestTyped
<1>8. ASSUME NEW i \in Instances, NEW m \in Messages, Deliver(i, m) PROVE HeldTyped' /\ RestTyped'
  <2>1. HeldTyped'
    BY <1>0, <1>1, <1>8, HeldAdd DEF Deliver
  <2>2. buffer' \in [Instances -> SUBSET Messages] /\ place' \in [Messages -> Places]
    BY <1>0, <1>8 DEF Deliver, RestTyped, Places
  <2>3. QED
    BY <1>0, <1>1, <1>8, <2>1, <2>2 DEF Deliver, history, RestTyped
<1>9. ASSUME NEW i \in Instances, NEW m \in Messages, Take(i, m) PROVE HeldTyped' /\ RestTyped'
  <2> DEFINE pc == IF Parse(kind[m]) = "reject" THEN "settle" ELSE "handle"
  <2>1. PICK v \in Verdicts(kind[m]) : work' = [work EXCEPT ![i] = At(pc, m, v)]
    BY <1>9 DEF Take, At
  <2>2. (pc = "settle" /\ v \in {"reject", "requeue"}) \/ (pc = "handle" /\ v \in {"event", "other"})
    BY <1>0, ParseType DEF RestTyped
  <2> HIDE DEF pc
  <2>3. At(pc, m, v) \in Works
    BY <2>2, AtType
  <2>4. work' \in [Instances -> Works]
    BY <1>0, <2>1, <2>3 DEF RestTyped
  <2>5. buffer' \in [Instances -> SUBSET Messages]
    BY <1>0, <1>9 DEF Take, RestTyped
  <2>6. QED
    BY <1>0, <1>1, <1>9, <2>4, <2>5 DEF Take, queueVars, history, HeldTyped, RestTyped
<1>10. ASSUME NEW i \in Instances, HandlerReturns(i) PROVE HeldTyped' /\ RestTyped'
  <2>1. work[i].msg \in Messages /\ work' \in [Instances -> Works]
    BY <1>10, DecideEffect DEF HandlerReturns
  <2>2. accepted' \subseteq Messages
    BY <1>0, <1>10, <2>1 DEF HandlerReturns, RestTyped
  <2>3. QED
    BY <1>0, <1>1, <1>10, <2>1, <2>2 DEF HandlerReturns, queueVars, history, HeldTyped, RestTyped
<1>11. ASSUME NEW i \in Instances, HandlerFails(i) PROVE HeldTyped' /\ RestTyped'
  <2>1. work' \in [Instances -> Works]
    BY <1>11, DecideEffect DEF HandlerFails
  <2>2. QED
    BY <1>0, <1>1, <1>11, <2>1 DEF HandlerFails, queueVars, history, HeldTyped, RestTyped
<1>12. ASSUME NEW i \in Instances, HandlerRejects(i) PROVE HeldTyped' /\ RestTyped'
  <2>1. work' \in [Instances -> Works]
    BY <1>12, DecideEffect DEF HandlerRejects
  <2>2. QED
    BY <1>0, <1>1, <1>12, <2>1 DEF HandlerRejects, queueVars, history, HeldTyped, RestTyped
<1>13. ASSUME NEW i \in Instances, Settle(i) PROVE HeldTyped' /\ RestTyped'
  <2>1. /\ work' = [work EXCEPT ![i] = Resting] /\ held' = [held EXCEPT ![i] = @ \ {work[i].msg}]
        /\ place' \in [Messages -> Places] /\ dead' \subseteq Messages
    BY <1>13, SettleEffect
  <2>2. work' \in [Instances -> Works]
    BY <1>0, <2>1 DEF RestTyped, Resting, Works, WorkStates
  <2>3. held' \in [Instances -> SUBSET Messages] /\ \A j \in Instances : held'[j] \subseteq held[j]
    BY <1>0, <2>1 DEF HeldTyped
  <2>4. HeldTyped'
    BY <1>0, <1>1, <2>3, HeldFewer
  <2>5. QED
    BY <1>0, <1>1, <1>13, <2>1, <2>2, <2>4 DEF Settle, history, RestTyped
<1>14. ASSUME NEW i \in Instances, Lose(i) PROVE HeldTyped' /\ RestTyped'
  <2>1. broken' \in BOOLEAN /\ UNCHANGED <<config, kind, dead, work, accepted>>
    BY <1>14, LoseEffect
  <2>2. PICK kept \in SUBSET buffer[i] : Disconnect(i, kept)
    BY <1>14, LoseEffect
  <2>3. QED
    BY <1>1, <1>2, <2>1, <2>2, DisconnectTypes
<1>15. ASSUME NEW i \in Instances, Close(i) PROVE HeldTyped' /\ RestTyped'
  <2>1. broken' \in BOOLEAN
    BY <1>0, <1>15 DEF Close, history, RestTyped
  <2>2. CASE config.style = "cluster"
    <3>1. /\ step' = [step EXCEPT ![i] = Closing]
          /\ UNCHANGED <<config, kind, declared, place, dead, held, buffer, work, accepted>>
      BY <1>15, <2>2, CloseEffect
    <3>2. step' \in [Instances -> 0..Gone']
      BY <1>0, <1>1, <1>2, <3>1 DEF RestTyped
    <3>3. QED
      BY <1>0, <2>1, <3>1, <3>2 DEF HeldTyped, RestTyped
  <2>3. CASE config.style # "cluster"
    BY <1>1, <1>2, <1>15, <2>1, <2>3, CloseEffect, DisconnectTypes
  <2>4. QED
    BY <2>2, <2>3
<1>16. ASSUME NEW i \in Instances, Stop(i) PROVE HeldTyped' /\ RestTyped'
  <2>1. broken' \in BOOLEAN
    BY <1>0, <1>16 DEF Stop, history, RestTyped
  <2>2. {} \in SUBSET buffer[i] /\ Disconnect(i, {})
    BY <1>16 DEF Stop
  <2>3. QED
    BY <1>1, <1>2, <1>16, <2>1, <2>2, DisconnectTypes DEF Stop, history
<1>17. ASSUME NEW i \in Instances, Restart(i) PROVE HeldTyped' /\ RestTyped'
  <2>1. work' \in [Instances -> Works]
    BY <1>0, <1>17 DEF Restart, RestTyped, Resting, Works, WorkStates
  <2>2. step' \in [Instances -> 0..Gone'] /\ buffer' \in [Instances -> SUBSET Messages]
    BY <1>0, <1>1, <1>2, <1>17 DEF Restart, RestTyped
  <2>3. QED
    BY <1>0, <1>1, <1>17, <2>1, <2>2 DEF Restart, queueVars, history, HeldTyped, RestTyped
<1>18. CASE UNCHANGED vars
  BY <1>0, <1>1, <1>18 DEF vars, queueVars, instanceVars, history, HeldTyped, RestTyped
<1>19. QED
  BY <1>3, <1>4, <1>5, <1>6, <1>7, <1>8, <1>9, <1>10, <1>11, <1>12, <1>13, <1>14, <1>15, <1>16,
     <1>17, <1>18 DEF Next, Process

\* Setting up, delivering, handling, breaking and starting again keep every variable
\* typed: Subscriber holds no more than its Prefetch, however often it is redelivered to.
THEOREM TypeCorrect == Spec => []TypeOK
<1>1. Spec => []TypeInv
  BY InitTypes, TypeStep, PTL DEF Spec
<1>2. TypeInv => TypeOK
  BY DEF TypeInv
<1>3. QED
  BY <1>1, <1>2, PTL

-----------------------------------------------------------------------------
(***************************************************************************)
(* Deliveries held by one instance each.                                   *)
(***************************************************************************)
LEMMA InitHold == Init => HoldInv
<1> SUFFICES ASSUME Init PROVE HoldInv
  OBVIOUS
<1>1. \A i \in Instances : held[i] = {} /\ step[i] = 0
  BY DEF Init
<1>2. QED
  BY <1>1 DEF HoldInv

\* A connection that ends takes what it held with it, and no more.
LEMMA DisconnectHold ==
    ASSUME TypeInv, HoldInv, NEW i \in Instances, NEW kept \in SUBSET buffer[i], Disconnect(i, kept),
           step[i] \in {Consuming, Closing}, Consuming' = Consuming, Closing' = Closing, config' = config
    PROVE  HoldInv'
<1>0. /\ step \in [Instances -> 0..Gone] /\ held \in [Instances -> SUBSET Messages]
      /\ 0 \notin {Consuming, Closing}
  BY SetupFacts DEF TypeInv, TypeOK
<1>1. /\ step' = [step EXCEPT ![i] = Gone] /\ held' = [held EXCEPT ![i] = {}]
      /\ config.style # "broadcast" => \A m \in Messages : place'[m] = IF m \in held[i] THEN "queue" ELSE place[m]
  BY DisconnectEffect
<1>2. config.style = "broadcast" => \A j \in Instances \ {i} : step[j] = 0
  BY <1>0 DEF HoldInv
<1>3. config.style = "broadcast" => \A j \in Instances : held'[j] = {}
  BY <1>0, <1>1, <1>2 DEF HoldInv
<1>4. \A j \in Instances : held'[j] # {} => j # i /\ held'[j] = held[j] /\ step'[j] = step[j]
  BY <1>0, <1>1
<1>5. \A j \in Instances : \A m \in held'[j] : place'[m] = "held"
  <2> SUFFICES ASSUME NEW j \in Instances, NEW m \in held'[j] PROVE place'[m] = "held"
    OBVIOUS
  <2>1. j # i /\ held'[j] = held[j] /\ m \in Messages /\ config.style # "broadcast"
    BY <1>0, <1>3, <1>4
  <2>2. place[m] = "held" /\ m \notin held[i]
    BY <2>1 DEF HoldInv
  <2>3. QED
    BY <1>1, <2>1, <2>2
<1>6. \A j, k \in Instances : j # k => held'[j] \cap held'[k] = {}
  BY <1>4 DEF HoldInv
<1>7. \A j \in Instances : held'[j] # {} => step'[j] \in {Consuming', Closing'}
  BY <1>4 DEF HoldInv
<1>8. config'.style = "broadcast" => \A j, k \in Instances : j # k => step'[j] = 0 \/ step'[k] = 0
  BY <1>0, <1>1, <1>2
<1>9. QED
  BY <1>5, <1>6, <1>7, <1>8 DEF HoldInv

LEMMA HoldStep == TypeInv /\ HoldInv /\ [Next]_vars => HoldInv'
<1> SUFFICES ASSUME TypeInv, HoldInv, [Next]_vars PROVE HoldInv'
  OBVIOUS
<1>0. /\ held \in [Instances -> SUBSET Messages] /\ step \in [Instances -> 0..Gone]
      /\ place \in [Messages -> Places]
  BY DEF TypeInv, TypeOK, Places
<1>1. config' = config /\ Consuming' = Consuming /\ Closing' = Closing /\ Gone' = Gone
  BY ConfigStays
<1>2. Consuming \in {3, 5} /\ Closing = Consuming + 1 /\ Gone = Consuming + 2
  BY SetupFacts DEF TypeInv, TypeOK
\* What is not held may go anywhere.
<1>3. ASSUME NEW m \in Messages, place[m] # "held", \A n \in Messages \ {m} : place'[n] = place[n],
             UNCHANGED <<held, step>>
      PROVE  HoldInv'
  <2>1. \A i \in Instances : \A n \in held[i] : n \in Messages \ {m}
    BY <1>0, <1>3 DEF HoldInv
  <2>2. QED
    BY <1>1, <1>3, <2>1 DEF HoldInv
<1>4. ASSUME NEW m \in Messages, Publish(m) PROVE HoldInv'
  <2>1. place[m] # "held" /\ \A n \in Messages \ {m} : place'[n] = place[n]
    BY <1>4, PublishEffect
  <2>2. QED
    BY <1>3, <1>4, <2>1 DEF Publish, instanceVars
<1>5. ASSUME NEW m \in Messages, Expire(m) PROVE HoldInv'
  <2>1. place[m] # "held" /\ \A n \in Messages \ {m} : place'[n] = place[n]
    BY <1>5, DeadLetterEffect DEF Expire
  <2>2. QED
    BY <1>3, <1>5, <2>1 DEF Expire, instanceVars
<1>6. ASSUME NEW i \in Instances, SetupStep(i) PROVE HoldInv'
  <2>1. held' = held /\ place' = place /\ step' = [step EXCEPT ![i] = step[i] + 1]
    BY <1>6 DEF SetupStep
  <2>2. held[i] = {}
    BY <1>0, <1>2, <1>6 DEF SetupStep, HoldInv
  <2>3. config.style = "broadcast" => \A j \in Instances \ {i} : step'[j] = 0
    BY <1>0, <1>6, <2>1 DEF SetupStep
  <2>4. QED
    BY <1>0, <1>1, <2>1, <2>2, <2>3 DEF HoldInv
<1>7. ASSUME NEW i \in Instances, SetupFails(i) PROVE HoldInv'
  <2>1. held' = held /\ place' = place /\ step' = [step EXCEPT ![i] = 0]
    BY <1>7 DEF SetupFails, queueVars
  <2>2. held[i] = {}
    BY <1>0, <1>2, <1>7 DEF SetupFails, HoldInv
  <2>3. QED
    BY <1>0, <1>1, <2>1, <2>2 DEF HoldInv
<1>8. ASSUME NEW i \in Instances, NEW m \in Messages, Deliver(i, m) PROVE HoldInv'
  <2>1. /\ held' = [held EXCEPT ![i] = held[i] \cup {m}] /\ step' = step
        /\ place' = [place EXCEPT ![m] = "held"] /\ step[i] \in {Consuming, Closing}
    BY <1>8 DEF Deliver
  <2>2. \A j \in Instances : m \notin held[j]
    BY <1>8 DEF Deliver, HoldInv
  <2>3. \A j \in Instances : \A n \in held'[j] : place'[n] = "held"
    BY <1>0, <2>1 DEF HoldInv
  <2>4. \A j, k \in Instances : j # k => held'[j] \cap held'[k] = {}
    BY <1>0, <2>1, <2>2 DEF HoldInv
  <2>5. \A j \in Instances : held'[j] # {} => step'[j] \in {Consuming', Closing'}
    BY <1>0, <1>1, <2>1 DEF HoldInv
  <2>6. QED
    BY <1>1, <2>1, <2>3, <2>4, <2>5 DEF HoldInv
<1>9. ASSUME NEW i \in Instances, Settle(i) PROVE HoldInv'
  <2>1. /\ held' = [held EXCEPT ![i] = @ \ {work[i].msg}] /\ work[i].msg \in Messages
        /\ \A n \in Messages \ {work[i].msg} : place'[n] = place[n]
        /\ work[i].msg \notin held[i] => place' = place
    BY <1>9, SettleEffect
  <2>2. step' = step
    BY <1>9 DEF Settle
  <2>3. \A j \in Instances : held'[j] \subseteq held[j]
    BY <1>0, <2>1
  <2>4. \A j \in Instances : \A n \in held'[j] : place'[n] = "held"
    <3> SUFFICES ASSUME NEW j \in Instances, NEW n \in held'[j] PROVE place'[n] = "held"
      OBVIOUS
    <3>1. n \in held[j] /\ n \in Messages /\ place[n] = "held"
      BY <1>0, <2>3 DEF HoldInv
    <3>2. n # work[i].msg \/ work[i].msg \notin held[i]
      BY <1>0, <2>1, <3>1 DEF HoldInv
    <3>3. QED
      BY <2>1, <3>1, <3>2
  <2>5. \A j, k \in Instances : j # k => held'[j] \cap held'[k] = {}
    BY <2>3 DEF HoldInv
  <2>6. \A j \in Instances : held'[j] # {} => step'[j] \in {Consuming', Closing'}
    BY <1>1, <2>2, <2>3 DEF HoldInv
  <2>7. QED
    BY <1>1, <2>2, <2>4, <2>5, <2>6 DEF HoldInv
<1>10. ASSUME NEW i \in Instances, Lose(i) PROVE HoldInv'
  BY <1>1, <1>10, LoseEffect, DisconnectHold
<1>11. ASSUME NEW i \in Instances, Close(i) PROVE HoldInv'
  <2>1. CASE config.style = "cluster"
    <3>1. step' = [step EXCEPT ![i] = Closing] /\ UNCHANGED <<place, held>>
      BY <1>11, <2>1, CloseEffect
    <3>2. QED
      BY <1>0, <1>1, <2>1, <3>1 DEF HoldInv
  <2>2. CASE config.style # "cluster"
    BY <1>1, <1>11, <2>2, CloseEffect, DisconnectHold
  <2>3. QED
    BY <2>1, <2>2
<1>12. ASSUME NEW i \in Instances, Stop(i) PROVE HoldInv'
  <2>1. {} \in SUBSET buffer[i] /\ Disconnect(i, {}) /\ step[i] = Closing
    BY <1>12 DEF Stop
  <2>2. QED
    BY <1>1, <2>1, DisconnectHold
<1>13. ASSUME NEW i \in Instances, Restart(i) PROVE HoldInv'
  <2>1. held' = held /\ place' = place /\ step' = [step EXCEPT ![i] = 0] /\ step[i] = Gone
    BY <1>13 DEF Restart, queueVars
  <2>2. held[i] = {}
    BY <1>2, <2>1 DEF HoldInv
  <2>3. QED
    BY <1>0, <1>1, <2>1, <2>2 DEF HoldInv
\* The others leave the three variables alone.
<1>14. ASSUME UNCHANGED <<held, step, place>> PROVE HoldInv'
  BY <1>1, <1>14 DEF HoldInv
<1>15. QED
  BY <1>4, <1>5, <1>6, <1>7, <1>8, <1>9, <1>10, <1>11, <1>12, <1>13, <1>14
     DEF Next, Process, vars, queueVars, instanceVars, Lapse, Take, HandlerReturns, HandlerFails, HandlerRejects

-----------------------------------------------------------------------------
(***************************************************************************)
(* Nothing vanishes with the cluster adapter.                              *)
(***************************************************************************)
\* KeepInv, in the parts a step can disturb.
Kept ==
    /\ \A i \in Instances : step[i] > 1 => "bindDlq" \in declared
    /\ "bindMain" \in declared => "bindDlq" \in declared
    /\ \A m \in Messages : place[m] \in {"queue", "held"} => "bindMain" \in declared
    /\ \A i \in Instances : work[i].verdict # "other" /\ (work[i].verdict = "ack" => work[i].msg \in accepted)
    /\ \A m \in Messages : (place[m] = "acked" => m \in accepted) /\ place[m] # "lost"

LEMMA KeptForm == KeepInv <=> (config.style = "cluster" => Kept)
  BY DEF KeepInv, NoneVanishes, Kept

LEMMA InitKept == Init => KeepInv
<1> SUFFICES ASSUME Init PROVE Kept
  BY KeptForm
<1>1. QED
  BY DEF Init, Kept, Resting

LEMMA DisconnectKept ==
    ASSUME TypeInv, HoldInv, Kept, config.style = "cluster",
           NEW i \in Instances, NEW kept \in SUBSET buffer[i], Disconnect(i, kept),
           step[i] \in {Consuming, Closing}, UNCHANGED <<work, accepted>>
    PROVE  Kept'
<1>0. step \in [Instances -> 0..Gone] /\ held \in [Instances -> SUBSET Messages]
  BY DEF TypeInv, TypeOK
<1>1. Consuming = 5 /\ Closing = 6
  BY SetupFacts DEF TypeInv, TypeOK
<1>2. /\ step' = [step EXCEPT ![i] = Gone] /\ declared' = declared
      /\ \A m \in Messages : place'[m] = IF m \in held[i] THEN "queue" ELSE place[m]
  BY DisconnectEffect
<1>3. \A m \in held[i] : place[m] = "held"
  BY DEF HoldInv
<1>4. \A j \in Instances : step'[j] > 1 => "bindDlq" \in declared'
  BY <1>0, <1>1, <1>2 DEF Kept
<1>5. \A m \in Messages : place'[m] \in {"queue", "held"} => "bindMain" \in declared'
  BY <1>2, <1>3 DEF Kept
<1>6. \A m \in Messages : (place'[m] = "acked" => m \in accepted') /\ place'[m] # "lost"
  BY <1>2 DEF Kept
<1>7. QED
  BY <1>2, <1>4, <1>5, <1>6 DEF Kept

LEMMA KeptStep ==
    ASSUME TypeInv, HoldInv, Kept, config.style = "cluster", [Next]_vars
    PROVE  Kept'
<1>0. /\ held \in [Instances -> SUBSET Messages] /\ step \in [Instances -> 0..Gone]
      /\ place \in [Messages -> Places] /\ work \in [Instances -> Works] /\ config \in Configs
  BY DEF TypeInv, TypeOK, Places
<1>1. Consuming = 5 /\ Closing = 6 /\ Gone = 7
  BY SetupFacts DEF TypeInv, TypeOK
\* One event moves, not to where it would be lost.
<1>2. ASSUME NEW m \in Messages, \A n \in Messages \ {m} : place'[n] = place[n],
             place'[m] \in {"queue", "held"} => "bindMain" \in declared,
             place'[m] = "acked" => m \in accepted, place'[m] # "lost",
             UNCHANGED <<step, declared, accepted>>,
             \A i \in Instances : work'[i] \in {work[i], Resting}
      PROVE  Kept'
  <2>1. \A i \in Instances : work'[i].verdict # "other" /\ (work'[i].verdict = "ack" => work'[i].msg \in accepted')
    BY <1>2 DEF Kept, Resting
  <2>2. QED
    BY <1>2, <2>1 DEF Kept
<1>3. ASSUME NEW m \in Messages, Publish(m) PROVE Kept'
  <2>1. /\ \A n \in Messages \ {m} : place'[n] = place[n]
        /\ place'[m] \in {"unsent", "queue", "unrouted"}
        /\ place'[m] = "queue" => "bindMain" \in declared
    BY <1>3, PublishEffect
  <2>2. UNCHANGED <<step, declared, accepted, work>>
    BY <1>3 DEF Publish, instanceVars, history
  <2>3. QED
    BY <1>2, <2>1, <2>2
<1>4. ASSUME NEW m \in Messages, Expire(m) PROVE Kept'
  <2>1. "bindMain" \in declared /\ "bindDlq" \in declared
    BY <1>4 DEF Expire, Kept
  <2>2. /\ \A n \in Messages \ {m} : place'[n] = place[n]
        /\ place'[m] \in {"queue", "dead"}
    BY <1>4, <2>1, DeadLetterEffect DEF Expire
  <2>3. UNCHANGED <<step, declared, accepted, work>>
    BY <1>4 DEF Expire, instanceVars, history
  <2>4. QED
    BY <1>2, <2>1, <2>2, <2>3
<1>5. ASSUME NEW i \in Instances, SetupStep(i) PROVE Kept'
  <2>1. /\ step' = [step EXCEPT ![i] = step[i] + 1] /\ step[i] \in 0..(Consuming - 1)
        /\ declared' = declared \cup {SetupOrder[step[i] + 1]}
        /\ UNCHANGED <<place, work, accepted>>
    BY <1>0, <1>1, <1>5 DEF SetupStep, history
  <2>2. SetupOrder[2] = "bindDlq" /\ (SetupOrder[step[i] + 1] = "bindMain" => step[i] > 1)
    BY <1>0, <2>1, SetupFacts
  <2>3. step'[i] > 1 => "bindDlq" \in declared'
    <3>1. step'[i] = step[i] + 1
      BY <1>0, <2>1
    <3>2. CASE step[i] = 1
      BY <2>1, <2>2, <3>2
    <3>3. CASE step[i] > 1
      BY <2>1, <3>3 DEF Kept
    <3>4. QED
      BY <1>1, <2>1, <3>1, <3>2, <3>3
  <2>4. \A j \in Instances : step'[j] > 1 => "bindDlq" \in declared'
    BY <1>0, <2>1, <2>3 DEF Kept
  <2>5. "bindMain" \in declared' => "bindDlq" \in declared'
    BY <2>1, <2>2 DEF Kept
  <2>6. QED
    BY <2>1, <2>4, <2>5 DEF Kept
<1>6. ASSUME NEW i \in Instances, SetupFails(i) PROVE Kept'
  <2>1. step' = [step EXCEPT ![i] = 0] /\ UNCHANGED <<declared, place, work, accepted>>
    BY <1>6 DEF SetupFails, queueVars, history
  <2>2. \A j \in Instances : step'[j] > 1 => "bindDlq" \in declared'
    BY <1>0, <2>1 DEF Kept
  <2>3. QED
    BY <2>1, <2>2 DEF Kept
<1>7. ASSUME NEW i \in Instances, NEW m \in Messages, Deliver(i, m) PROVE Kept'
  <2>1. /\ place' = [place EXCEPT ![m] = "held"] /\ place[m] = "queue"
        /\ UNCHANGED <<step, declared, accepted, work>>
    BY <1>7 DEF Deliver, history
  <2>2. \A n \in Messages \ {m} : place'[n] = place[n]
    BY <1>0, <2>1
  <2>3. place'[m] = "held" /\ "bindMain" \in declared
    BY <1>0, <2>1 DEF Kept
  <2>4. QED
    BY <1>2, <2>1, <2>2, <2>3
\* One instance goes on with its work.
<1>8. ASSUME NEW i \in Instances, UNCHANGED <<step, declared, place>>, accepted \subseteq accepted',
             \A j \in Instances \ {i} : work'[j] = work[j],
             work'[i].verdict # "other", work'[i].verdict = "ack" => work'[i].msg \in accepted'
      PROVE  Kept'
  BY <1>8 DEF Kept
<1>9. ASSUME NEW i \in Instances, NEW m \in Messages, Take(i, m) PROVE Kept'
  <2>1. /\ UNCHANGED <<step, declared, place, accepted>> /\ work'[i].verdict \in Verdicts(kind[m])
        /\ \A j \in Instances \ {i} : work'[j] = work[j]
    BY <1>0, <1>9 DEF Take, queueVars, history
  <2>2. work'[i].verdict \in {"event", "reject", "requeue"}
    BY <1>0, <2>1, ParseType
  <2>3. QED
    BY <1>8, <2>1, <2>2
<1>10. ASSUME NEW i \in Instances, HandlerReturns(i) PROVE Kept'
  <2>1. /\ work[i].verdict \in {"event", "other"}
        /\ work' = [work EXCEPT ![i] = At("settle", work[i].msg, "ack")]
    BY <1>10, DecideEffect DEF HandlerReturns
  <2>2. accepted' = accepted \cup {work[i].msg}
    BY <1>10, <2>1 DEF HandlerReturns, Kept
  <2>3. /\ work'[i].verdict = "ack" /\ work'[i].msg = work[i].msg
        /\ \A j \in Instances \ {i} : work'[j] = work[j]
    BY <1>0, <2>1 DEF At
  <2>4. UNCHANGED <<step, declared, place>>
    BY <1>10 DEF HandlerReturns, queueVars
  <2>5. QED
    BY <1>8, <2>2, <2>3, <2>4
<1>11. ASSUME NEW i \in Instances, HandlerFails(i) \/ HandlerRejects(i) PROVE Kept'
  <2>1. \E v \in {"requeue", "reject"} : work' = [work EXCEPT ![i] = At("settle", work[i].msg, v)]
    BY <1>11, DecideEffect DEF HandlerFails, HandlerRejects
  <2>2. /\ work'[i].verdict \in {"requeue", "reject"}
        /\ \A j \in Instances \ {i} : work'[j] = work[j]
    BY <1>0, <2>1 DEF At
  <2>3. UNCHANGED <<step, declared, place, accepted>>
    BY <1>11 DEF HandlerFails, HandlerRejects, queueVars, history
  <2>4. QED
    BY <1>8, <2>2, <2>3
<1>12. ASSUME NEW i \in Instances, Settle(i) PROVE Kept'
  <2> DEFINE m == work[i].msg
  <2>1. /\ m \in Messages /\ work' = [work EXCEPT ![i] = Resting]
        /\ \A n \in Messages \ {m} : place'[n] = place[n]
        /\ m \notin held[i] => place' = place
        /\ m \in held[i] =>
             /\ place'[m] \in {"acked", "queue", "dead", "lost"}
             /\ place'[m] = "acked" <=> work[i].verdict = "ack"
             /\ place'[m] = "lost" => ~(config.style = "cluster" /\ "bindDlq" \in declared)
    BY <1>12, SettleEffect
  <2>2. UNCHANGED <<step, declared, accepted>>
    BY <1>12 DEF Settle, history
  <2>3. \A j \in Instances : work'[j] \in {work[j], Resting}
    BY <1>0, <2>1
  <2>4. work[i].verdict = "ack" => m \in accepted
    BY DEF Kept
  <2> HIDE DEF m
  <2>5. CASE m \in held[i]
    <3>1. "bindMain" \in declared /\ "bindDlq" \in declared
      BY <2>1, <2>5 DEF HoldInv, Kept
    <3>2. place'[m] # "lost" /\ (place'[m] = "acked" => m \in accepted)
      BY <2>1, <2>4, <2>5, <3>1
    <3>3. QED
      BY <1>2, <2>1, <2>2, <2>3, <3>1, <3>2
  <2>6. CASE m \notin held[i]
    <3>1. place' = place
      BY <2>1, <2>6
    <3>2. QED
      BY <1>2, <2>1, <2>2, <2>3, <3>1 DEF Kept
  <2>7. QED
    BY <2>5, <2>6
<1>13. ASSUME NEW i \in Instances, Lose(i) PROVE Kept'
  BY <1>13, LoseEffect, DisconnectKept
<1>14. ASSUME NEW i \in Instances, Close(i) PROVE Kept'
  <2>1. step' = [step EXCEPT ![i] = Closing] /\ UNCHANGED <<declared, place, work, accepted>> /\ step[i] = Consuming
    BY <1>14, CloseEffect
  <2>2. \A j \in Instances : step'[j] > 1 => "bindDlq" \in declared'
    BY <1>0, <1>1, <2>1 DEF Kept
  <2>3. QED
    BY <2>1, <2>2 DEF Kept
<1>15. ASSUME NEW i \in Instances, Stop(i) PROVE Kept'
  <2>1. {} \in SUBSET buffer[i] /\ Disconnect(i, {}) /\ step[i] = Closing /\ UNCHANGED <<work, accepted>>
    BY <1>15 DEF Stop, history
  <2>2. QED
    BY <2>1, DisconnectKept
<1>16. ASSUME NEW i \in Instances, Restart(i) PROVE Kept'
  <2>1. /\ step' = [step EXCEPT ![i] = 0] /\ UNCHANGED <<declared, place, accepted>>
        /\ work' = [work EXCEPT ![i] = Resting]
    BY <1>16 DEF Restart, queueVars, history
  <2>2. \A j \in Instances : step'[j] > 1 => "bindDlq" \in declared'
    BY <1>0, <2>1 DEF Kept
  <2>3. \A j \in Instances : work'[j] \in {work[j], Resting}
    BY <1>0, <2>1
  <2>4. \A j \in Instances : work'[j].verdict # "other" /\ (work'[j].verdict = "ack" => work'[j].msg \in accepted')
    BY <2>1, <2>3 DEF Kept, Resting
  <2>5. QED
    BY <2>1, <2>2, <2>4 DEF Kept
<1>17. ASSUME UNCHANGED <<step, declared, place, work, accepted>> PROVE Kept'
  BY <1>17 DEF Kept
<1>18. QED
  BY <1>3, <1>4, <1>5, <1>6, <1>7, <1>9, <1>10, <1>11, <1>12, <1>13, <1>14, <1>15, <1>16, <1>17
     DEF Next, Process, vars, queueVars, instanceVars, Lapse, history

LEMMA KeepStep == TypeInv /\ HoldInv /\ KeepInv /\ [Next]_vars => KeepInv'
<1> SUFFICES ASSUME TypeInv, HoldInv, KeepInv, [Next]_vars PROVE KeepInv'
  OBVIOUS
<1>1. config' = config
  BY ConfigStays
<1>2. config.style = "cluster" => Kept'
  BY KeptForm, KeptStep
<1>3. KeepInv' <=> (config'.style = "cluster" => Kept')
  BY DEF KeepInv, NoneVanishes, Kept
<1>4. QED
  BY <1>1, <1>2, <1>3

\* What DeliversAtLeastOnce comes to in the end, as an invariant: with the cluster adapter
\* an event is acknowledged only when its handler has returned nil, and is dead-lettered, never dropped, otherwise: through redelivery, lost
\* connections, failed setups, restarts and expiry.
THEOREM NothingVanishes == Spec => []NoneVanishes
<1>1. Init => TypeInv /\ HoldInv /\ KeepInv
  BY InitTypes, InitHold, InitKept
<1>2. TypeInv /\ HoldInv /\ KeepInv /\ [Next]_vars => (TypeInv /\ HoldInv /\ KeepInv)'
  BY TypeStep, HoldStep, KeepStep
<1>3. KeepInv => NoneVanishes
  BY DEF KeepInv
<1>4. QED
  BY <1>1, <1>2, <1>3, PTL DEF Spec

-----------------------------------------------------------------------------
(***************************************************************************)
(* What a handler is started on has verified, where it should.             *)
(***************************************************************************)
LEMMA InitSent == Init => SentInv
  BY DEF Init, SentInv

LEMMA SentStep == TypeInv /\ SentInv /\ [Next]_vars => SentInv'
<1> SUFFICES ASSUME TypeInv, SentInv, [Next]_vars PROVE SentInv'
  OBVIOUS
<1>0. /\ place \in [Messages -> Places] /\ kind \in [Messages -> Kinds]
      /\ held \in [Instances -> SUBSET Messages] /\ buffer \in [Instances -> SUBSET Messages]
  BY DEF TypeInv, TypeOK, Places, Kinds
\* What was not sent stays where it is.
<1>1. ASSUME \A n \in Messages : /\ kind'[n] = "none" <=> kind[n] = "none"
                                 /\ place'[n] = "new" => place[n] = "new"
                                 /\ kind[n] = "none" => place'[n] = place[n],
             \A j \in Instances : buffer'[j] \cup held'[j] \subseteq buffer[j] \cup held[j]
      PROVE  SentInv'
  BY <1>1 DEF SentInv
<1>2. ASSUME NEW m \in Messages, Publish(m) PROVE SentInv'
  <2>1. /\ \A n \in Messages \ {m} : kind'[n] = kind[n] /\ place'[n] = place[n]
        /\ place'[m] \in {"unsent", "queue", "unrouted"}
        /\ place'[m] = "queue" => kind'[m] # "none"
        /\ place[m] = "new"
    BY <1>2, PublishEffect
  <2>2. UNCHANGED <<buffer, held>>
    BY <1>2 DEF Publish, instanceVars
  <2>3. kind[m] = "none"
    BY <2>1 DEF SentInv
  <2>4. QED
    BY <2>1, <2>2, <2>3 DEF SentInv
<1>3. ASSUME NEW m \in Messages, Lapse(m) PROVE SentInv'
  <2>1. kind' = [kind EXCEPT ![m] = "expired"] /\ kind[m] = "signed" /\ UNCHANGED <<place, buffer, held>>
    BY <1>3 DEF Lapse, queueVars, instanceVars
  <2>2. \A n \in Messages : kind'[n] = "none" <=> kind[n] = "none"
    BY <1>0, <2>1
  <2>3. QED
    BY <1>1, <2>1, <2>2
<1>4. ASSUME NEW m \in Messages, Expire(m) PROVE SentInv'
  <2>1. kind[m] # "none"
    BY <1>4 DEF Expire, SentInv
  <2>2. UNCHANGED <<kind, buffer, held>>
    BY <1>4 DEF Expire, instanceVars
  <2>3. QED
    BY <1>1, <1>4, <2>1, <2>2, DeadLetterEffect DEF Expire
<1>5. ASSUME NEW i \in Instances, NEW m \in Messages, Deliver(i, m) PROVE SentInv'
  <2>1. /\ place[m] = "queue" /\ kind' = kind /\ place' = [place EXCEPT ![m] = "held"]
        /\ buffer' = [buffer EXCEPT ![i] = @ \cup {m}] /\ held' = [held EXCEPT ![i] = @ \cup {m}]
    BY <1>5 DEF Deliver
  <2>2. \A j \in Instances : buffer'[j] \cup held'[j] \subseteq (buffer[j] \cup held[j]) \cup {m}
    BY <1>0, <2>1
  <2>3. \A n \in Messages \ {m} : place'[n] = place[n]
    BY <1>0, <2>1
  <2>4. kind[m] # "none" /\ place'[m] = "held"
    BY <1>0, <2>1 DEF SentInv
  <2>5. QED
    BY <2>1, <2>2, <2>3, <2>4 DEF SentInv
<1>6. ASSUME NEW i \in Instances, NEW m \in Messages, Take(i, m) PROVE SentInv'
  <2>1. UNCHANGED <<kind, place, held>> /\ \A j \in Instances : buffer'[j] \subseteq buffer[j]
    BY <1>0, <1>6 DEF Take, queueVars
  <2>2. QED
    BY <1>1, <2>1
<1>7. ASSUME NEW i \in Instances, Settle(i) PROVE SentInv'
  <2>1. \A j \in Instances : held'[j] \subseteq held[j]
    BY <1>0, <1>7, SettleEffect
  <2>2. UNCHANGED <<kind, buffer>>
    BY <1>7 DEF Settle
  <2>3. \A n \in Messages : /\ place'[n] = "new" => place[n] = "new"
                            /\ kind[n] = "none" => place'[n] = place[n]
    BY <1>7, SettleEffect DEF SentInv
  <2>4. QED
    BY <1>1, <2>1, <2>2, <2>3
<1>8. ASSUME NEW i \in Instances, NEW kept \in SUBSET buffer[i], Disconnect(i, kept), kind' = kind
      PROVE  SentInv'
  <2>1. \A j \in Instances : buffer'[j] \cup held'[j] \subseteq buffer[j] \cup held[j]
    BY <1>0, <1>8, DisconnectEffect
  <2>2. \A n \in Messages : /\ place'[n] = "new" => place[n] = "new"
                            /\ kind[n] = "none" => place'[n] = place[n]
    BY <1>8, DisconnectEffect DEF SentInv
  <2>3. QED
    BY <1>1, <1>8, <2>1, <2>2
<1>9. ASSUME NEW i \in Instances, Lose(i) PROVE SentInv'
  BY <1>8, <1>9, LoseEffect
<1>10. ASSUME NEW i \in Instances, Close(i) PROVE SentInv'
  <2>1. CASE config.style = "cluster"
    BY <1>1, <1>10, <2>1, CloseEffect
  <2>2. CASE config.style # "cluster"
    BY <1>8, <1>10, <2>2, CloseEffect
  <2>3. QED
    BY <2>1, <2>2
<1>11. ASSUME NEW i \in Instances, Stop(i) PROVE SentInv'
  <2>1. {} \in SUBSET buffer[i] /\ Disconnect(i, {}) /\ kind' = kind
    BY <1>11 DEF Stop
  <2>2. QED
    BY <1>8, <2>1
<1>12. ASSUME NEW i \in Instances, Restart(i) PROVE SentInv'
  <2>1. UNCHANGED <<kind, place, held>> /\ \A j \in Instances : buffer'[j] \subseteq buffer[j]
    BY <1>0, <1>12 DEF Restart, queueVars
  <2>2. QED
    BY <1>1, <2>1
<1>13. ASSUME UNCHANGED <<kind, place, buffer, held>> PROVE SentInv'
  BY <1>1, <1>13
<1>14. QED
  BY <1>2, <1>3, <1>4, <1>5, <1>6, <1>7, <1>9, <1>10, <1>11, <1>12, <1>13
     DEF Next, Process, vars, queueVars, instanceVars, SetupStep, SetupFails, HandlerReturns, HandlerFails,
         HandlerRejects

\* Every Subscriber with requireSigning starts its handlers on events that verify at that
\* moment only, and no cluster on a signed one that does not, for every number of events
\* and instances: nothing but Take starts a handler, whatever is redelivered and lapses.
THEOREM OnlySignedHandled == Spec => OnlyVerifiedStarts
<1> DEFINE Verified(m) ==
      \/ VerifyEvent(kind[m])
      \/ config.style = "broadcast"
      \/ config.style = "cluster" /\ kind[m] = "plain"
      \/ config.style = "subscriber" /\ ~config.signing /\ (kind[m] = "plain" \/ ~config.verifier)
<1>1. ASSUME TypeInv, SentInv, [Next]_vars, NEW i \in Instances, NEW m \in Messages, StartsOn(i, m)
      PROVE  Verified(m)
  <2>1. /\ work \in [Instances -> Works] /\ config \in Configs
    BY <1>1 DEF TypeInv, TypeOK
  <2>2. work'[i] # work[i] /\ work'[i].pc = "handle" /\ work'[i].msg = m
    BY <1>1 DEF StartsOn
  \* Every other step leaves the work of the instance alone, or ends a handler.
  <2>3. \A j \in Instances, v \in {"ack", "requeue", "reject"} : ~Decide(j, v)
    <3> SUFFICES ASSUME NEW j \in Instances, NEW v \in {"ack", "requeue", "reject"}, Decide(j, v)
                 PROVE  FALSE
      OBVIOUS
    <3>1. CASE j = i
      BY <2>1, <2>2, <3>1 DEF Decide
    <3>2. CASE j # i
      BY <2>1, <2>2, <3>2 DEF Decide
    <3>3. QED
      BY <3>1, <3>2
  <2>4. \A j \in Instances : work' # [work EXCEPT ![j] = Resting]
    <3> SUFFICES ASSUME NEW j \in Instances, work' = [work EXCEPT ![j] = Resting] PROVE FALSE
      OBVIOUS
    <3>1. CASE j = i
      BY <2>1, <2>2, <3>1 DEF Resting
    <3>2. CASE j # i
      BY <2>1, <2>2, <3>2
    <3>3. QED
      BY <3>1, <3>2
  <2>5. PICK j \in Instances, n \in Messages : Take(j, n)
    <3>1. \A j \in Instances : ~HandlerReturns(j) /\ ~HandlerFails(j) /\ ~HandlerRejects(j)
      BY <2>3 DEF HandlerReturns, HandlerFails, HandlerRejects
    <3>2. \A j \in Instances : ~Settle(j) /\ ~Restart(j)
      BY <2>4 DEF Settle, Restart
    <3>3. work' # work
      BY <2>2
    <3>4. \A j \in Instances : ~SetupStep(j) /\ ~SetupFails(j) /\ ~Lose(j) /\ ~Close(j) /\ ~Stop(j)
      BY <3>3 DEF SetupStep, SetupFails, Lose, Close, Stop
    <3>5. \A n \in Messages : ~Publish(n) /\ ~Lapse(n) /\ ~Expire(n)
      BY <3>3 DEF Publish, Lapse, Expire, instanceVars
    <3>6. \A j \in Instances, n \in Messages : ~Deliver(j, n)
      BY <3>3 DEF Deliver
    <3>7. QED
      BY <1>1, <3>1, <3>2, <3>3, <3>4, <3>5, <3>6 DEF Next, Process, vars, instanceVars
  <2>6. j = i /\ n = m /\ Parse(kind[m]) # "reject"
    <3>1. PICK v : work' = [work EXCEPT ![j] =
                              [pc |-> IF Parse(kind[n]) = "reject" THEN "settle" ELSE "handle",
                               msg |-> n, verdict |-> v]]
      BY <2>5 DEF Take
    <3>2. j = i
      BY <2>1, <2>2, <3>1
    <3>3. QED
      BY <2>1, <2>2, <3>1, <3>2
  <2>7. config.style \in {"subscriber", "cluster", "broadcast"}
    BY <2>1, ConfigFacts
  <2>8. kind[m] = "plain" => Verified(m)
    BY <2>6, <2>7 DEF Parse
  <2>9. kind[m] # "none"
    <3>1. m \in buffer[i]
      BY <2>5, <2>6 DEF Take
    <3>2. QED
      BY <1>1, <3>1 DEF SentInv
  <2>10. kind[m] # "plain" => Verified(m)
    <3>1. ASSUME kind[m] # "plain" PROVE Signed(kind[m])
      BY <1>1, <2>9, <3>1 DEF TypeInv, TypeOK, Signed
    <3>2. CASE config.verifier
      BY <2>6, <2>7, <3>1, <3>2 DEF Parse
    <3>3. CASE ~config.verifier
      <4>1. kind[m] # "plain" => config.style # "cluster"
        BY <2>6, <3>1, <3>3 DEF Parse
      <4>2. ~config.signing
        BY <2>1, <3>3, ConfigFacts
      <4>3. QED
        BY <2>7, <3>3, <4>1, <4>2
    <3>4. QED
      BY <3>2, <3>3
  <2>11. QED
    BY <2>8, <2>10
<1>2. TypeInv /\ SentInv /\ [Next]_vars =>
        [\A i \in Instances, m \in Messages : StartsOn(i, m) => Verified(m)]_vars
  BY <1>1
<1>3. Spec => [](TypeInv /\ SentInv)
  BY InitTypes, InitSent, TypeStep, SentStep, PTL DEF Spec
<1>4. QED
  BY <1>2, <1>3, PTL DEF Spec, OnlyVerifiedStarts

-----------------------------------------------------------------------------
(***************************************************************************)
(* A cluster event is handled with success once, while connections last.     *)
(***************************************************************************)
\* Whoever has succeeded with an event holds it until it is acknowledged.
Owned(m) ==
    \/ place[m] = "acked"
    \/ \E i \in Instances : m \in held[i] /\ work[i].msg = m /\ work[i].verdict = "ack"

AtHand(i) ==
    /\ buffer[i] \subseteq held[i]
    /\ work[i].pc # "idle" => work[i].msg \in held[i] \ buffer[i]

Once ==
    /\ \A i \in Instances : AtHand(i)
    /\ \A m \in accepted : Owned(m)

LEMMA OnceForm == OnceInv <=> (config.style = "cluster" /\ ~broken => Once)
  BY DEF OnceInv, HandledOnce, Once, AtHand, Owned

LEMMA InitOnce == Init => OnceInv
<1> SUFFICES ASSUME Init PROVE Once
  BY OnceForm
<1>1. QED
  BY DEF Init, Once, AtHand, Resting

LEMMA OnceStep ==
    ASSUME TypeInv, HoldInv, Once, config.style = "cluster", ~broken', [Next]_vars
    PROVE  Once'
<1>0. /\ held \in [Instances -> SUBSET Messages] /\ step \in [Instances -> 0..Gone]
      /\ place \in [Messages -> Places] /\ work \in [Instances -> Works]
      /\ buffer \in [Instances -> SUBSET Messages] /\ accepted \subseteq Messages
  BY DEF TypeInv, TypeOK, Places
\* A decision to acknowledge is one that waits to be settled.
<1>1. \A i \in Instances : work[i].verdict = "ack" => work[i].pc = "settle"
  BY <1>0 DEF Works, WorkStates
\* What an instance had succeeded with stays its own when its hands and the place of the
\* event do.
<1>2. ASSUME NEW m \in Messages, Owned(m), place[m] = "acked" => place'[m] = "acked",
             \A i \in Instances : m \in held[i] /\ work[i].msg = m /\ work[i].verdict = "ack" =>
                place'[m] = "acked" \/ (m \in held'[i] /\ work'[i] = work[i])
      PROVE  Owned(m)'
  BY <1>2 DEF Owned
\* An event that is nobody's moves.
<1>3. ASSUME NEW m \in Messages, place[m] \notin {"held", "acked"}, \A n \in Messages \ {m} : place'[n] = place[n],
             UNCHANGED <<held, buffer, work, accepted>>
      PROVE  Once'
  <2>1. m \notin accepted
    BY <1>3 DEF Once, Owned, HoldInv
  <2>2. \A n \in accepted' : Owned(n)'
    BY <1>0, <1>2, <1>3, <2>1 DEF Once
  <2>3. QED
    BY <1>3, <2>2 DEF Once, AtHand
<1>4. ASSUME NEW m \in Messages, Publish(m) PROVE Once'
  <2>1. place[m] = "new" /\ \A n \in Messages \ {m} : place'[n] = place[n]
    BY <1>4, PublishEffect
  <2>2. UNCHANGED <<held, buffer, work, accepted>>
    BY <1>4 DEF Publish, instanceVars, history
  <2>3. QED
    BY <1>3, <2>1, <2>2
<1>5. ASSUME NEW m \in Messages, Expire(m) PROVE Once'
  <2>1. place[m] = "queue" /\ \A n \in Messages \ {m} : place'[n] = place[n]
    BY <1>5, DeadLetterEffect DEF Expire
  <2>2. UNCHANGED <<held, buffer, work, accepted>>
    BY <1>5 DEF Expire, instanceVars, history
  <2>3. QED
    BY <1>3, <2>1, <2>2
<1>6. ASSUME NEW i \in Instances, NEW m \in Messages, Deliver(i, m) PROVE Once'
  <2>1. /\ held' = [held EXCEPT ![i] = held[i] \cup {m}] /\ buffer' = [buffer EXCEPT ![i] = buffer[i] \cup {m}]
        /\ place' = [place EXCEPT ![m] = "held"] /\ place[m] = "queue" /\ UNCHANGED <<work, accepted>>
    BY <1>6 DEF Deliver, history
  <2>2. \A j \in Instances : m \notin held[j]
    BY <2>1 DEF HoldInv
  <2>3. \A j \in Instances : AtHand(j)'
    <3> SUFFICES ASSUME NEW j \in Instances PROVE AtHand(j)'
      OBVIOUS
    <3>1. AtHand(j)
      BY DEF Once
    <3>2. CASE j = i
      <4>1. held'[j] = held[j] \cup {m} /\ buffer'[j] = buffer[j] \cup {m} /\ work'[j] = work[j]
        BY <1>0, <2>1, <3>2
      <4>2. QED
        BY <2>2, <3>1, <4>1 DEF AtHand
    <3>3. CASE j # i
      <4>1. held'[j] = held[j] /\ buffer'[j] = buffer[j] /\ work'[j] = work[j]
        BY <1>0, <2>1, <3>3
      <4>2. QED
        BY <3>1, <4>1 DEF AtHand
    <3>4. QED
      BY <3>2, <3>3
  <2>4. \A n \in accepted' : Owned(n)'
    <3> SUFFICES ASSUME NEW n \in accepted PROVE Owned(n)'
      BY <2>1
    <3>1. n \in Messages /\ Owned(n)
      BY <1>0 DEF Once
    <3>2. n # m
      BY <2>1, <2>2, <3>1 DEF Owned
    <3>3. place'[n] = place[n] /\ \A j \in Instances : held[j] \subseteq held'[j] /\ work'[j] = work[j]
      BY <1>0, <2>1, <3>1, <3>2
    <3>4. QED
      BY <1>2, <3>1, <3>3
  <2>5. QED
    BY <2>3, <2>4 DEF Once
\* An instance that has not yet decided goes on.
<1>7. ASSUME NEW i \in Instances, work[i].pc # "settle", UNCHANGED <<held, place>>,
             \A j \in Instances \ {i} : work'[j] = work[j] /\ buffer'[j] = buffer[j],
             AtHand(i)',
             \A n \in accepted' : n \in accepted \/
                (n \in held'[i] /\ work'[i].msg = n /\ work'[i].verdict = "ack")
      PROVE  Once'
  <2>1. \A j \in Instances : AtHand(j)'
    BY <1>7 DEF Once, AtHand
  <2>2. \A n \in accepted' : Owned(n)'
    <3> SUFFICES ASSUME NEW n \in accepted' PROVE Owned(n)'
      OBVIOUS
    <3>1. CASE n \in accepted
      <4>1. n \in Messages /\ Owned(n)
        BY <1>0, <3>1 DEF Once
      <4>2. work[i].verdict # "ack"
        BY <1>1, <1>7
      <4>3. QED
        BY <1>2, <1>7, <4>1, <4>2
    <3>2. CASE n \notin accepted
      BY <1>7, <3>2 DEF Owned
    <3>3. QED
      BY <3>1, <3>2
  <2>3. QED
    BY <2>1, <2>2 DEF Once
<1>8. ASSUME NEW i \in Instances, NEW m \in Messages, Take(i, m) PROVE Once'
  <2>1. /\ work[i].pc = "idle" /\ m \in buffer[i] /\ buffer'[i] = buffer[i] \ {m} /\ work'[i].msg = m
        /\ UNCHANGED <<held, place, accepted>>
        /\ \A j \in Instances \ {i} : work'[j] = work[j] /\ buffer'[j] = buffer[j]
    BY <1>0, <1>8 DEF Take, queueVars, history
  <2>2. AtHand(i)'
    BY <2>1 DEF Once, AtHand
  <2>3. QED
    BY <1>7, <2>1, <2>2
<1>9. ASSUME NEW i \in Instances, HandlerReturns(i) \/ HandlerFails(i) \/ HandlerRejects(i) PROVE Once'
  <2>1. work[i].pc = "handle" /\ UNCHANGED <<held, buffer, place>>
    BY <1>9 DEF HandlerReturns, HandlerFails, HandlerRejects, queueVars
  <2>2. PICK v \in {"ack", "requeue", "reject"} : /\ work' = [work EXCEPT ![i] = At("settle", work[i].msg, v)]
                                                  /\ v # "ack" => accepted' = accepted
    <3>1. CASE HandlerReturns(i)
      BY <3>1, DecideEffect DEF HandlerReturns
    <3>2. CASE HandlerFails(i) \/ HandlerRejects(i)
      <4>1. \E v \in {"requeue", "reject"} : work' = [work EXCEPT ![i] = At("settle", work[i].msg, v)]
        BY <3>2, DecideEffect DEF HandlerFails, HandlerRejects
      <4>2. accepted' = accepted
        BY <3>2 DEF HandlerFails, HandlerRejects, history
      <4>3. QED
        BY <4>1, <4>2
    <3>3. QED
      BY <1>9, <3>1, <3>2
  <2>3. accepted' \subseteq accepted \cup {work[i].msg}
    BY <1>9 DEF HandlerReturns, HandlerFails, HandlerRejects, history
  <2>4. /\ work'[i].msg = work[i].msg /\ work'[i].verdict = v
        /\ \A j \in Instances \ {i} : work'[j] = work[j]
    BY <1>0, <2>2 DEF At
  <2>5. work[i].msg \in held[i] \ buffer[i] /\ buffer[i] \subseteq held[i]
    BY <2>1 DEF Once, AtHand
  <2>6. AtHand(i)'
    BY <2>1, <2>4, <2>5 DEF AtHand
  <2>7. \A n \in accepted' : n \in accepted \/
            (n \in held'[i] /\ work'[i].msg = n /\ work'[i].verdict = "ack")
    BY <2>1, <2>2, <2>3, <2>4, <2>5
  <2>8. QED
    BY <1>7, <2>1, <2>4, <2>6, <2>7
<1>10. ASSUME NEW i \in Instances, Settle(i) PROVE Once'
  <2> DEFINE m == work[i].msg
  <2>1. /\ m \in Messages /\ work' = [work EXCEPT ![i] = Resting] /\ held' = [held EXCEPT ![i] = held[i] \ {m}]
        /\ \A n \in Messages \ {m} : place'[n] = place[n]
        /\ m \in held[i] => (place'[m] = "acked" <=> work[i].verdict = "ack")
        /\ work[i].pc = "settle"
    BY <1>10, SettleEffect
  <2>2. UNCHANGED <<buffer, accepted>>
    BY <1>10 DEF Settle, history
  <2>3. m \in held[i] \ buffer[i] /\ place[m] = "held"
    BY <2>1 DEF Once, AtHand, HoldInv
  <2>4. work'[i] = Resting /\ held'[i] = held[i] \ {m} /\ \A j \in Instances \ {i} : work'[j] = work[j] /\ held'[j] = held[j]
    BY <1>0, <2>1
  <2>5. \A j \in Instances : AtHand(j)'
    <3> SUFFICES ASSUME NEW j \in Instances PROVE AtHand(j)'
      OBVIOUS
    <3>1. AtHand(j)
      BY DEF Once
    <3>2. CASE j = i
      BY <2>2, <2>3, <2>4, <3>1, <3>2 DEF AtHand, Resting
    <3>3. CASE j # i
      BY <2>2, <2>4, <3>1, <3>3 DEF AtHand
    <3>4. QED
      BY <3>2, <3>3
  <2>6. ASSUME NEW n \in accepted PROVE Owned(n)'
    <3>1. n \in Messages /\ Owned(n)
      BY <1>0 DEF Once
    <3>2. CASE n = m
      <4>1. \A j \in Instances \ {i} : m \notin held[j]
        BY <2>3 DEF HoldInv
      <4>2. work[i].verdict = "ack"
        BY <2>3, <3>1, <3>2, <4>1 DEF Owned
      <4>3. QED
        BY <2>1, <2>3, <3>2, <4>2 DEF Owned
    <3>3. CASE n # m
      <4>1. place'[n] = place[n]
        BY <2>1, <3>1, <3>3
      <4>2. \A j \in Instances : n \in held[j] /\ work[j].msg = n => n \in held'[j] /\ work'[j] = work[j]
        BY <2>4, <3>3
      <4>3. QED
        BY <1>2, <3>1, <4>1, <4>2
    <3>4. QED
      BY <3>2, <3>3
  <2>7. QED
    BY <2>2, <2>5, <2>6 DEF Once
<1>11. ASSUME NEW i \in Instances, Lose(i) PROVE Once'
  <2>1. broken' = TRUE
    BY <1>11, LoseEffect
  <2>2. QED
    BY <2>1
<1>12. ASSUME NEW i \in Instances, Close(i) PROVE Once'
  <2>1. UNCHANGED <<place, held, buffer, work, accepted>>
    BY <1>12, CloseEffect
  <2>2. QED
    BY <2>1 DEF Once, AtHand, Owned
<1>13. ASSUME NEW i \in Instances, Stop(i) PROVE Once'
  <2>1. {} \in SUBSET buffer[i] /\ Disconnect(i, {}) /\ work[i].pc = "idle" /\ UNCHANGED <<work, accepted>>
    BY <1>13 DEF Stop, history
  <2>2. /\ held' = [held EXCEPT ![i] = {}] /\ buffer' = [buffer EXCEPT ![i] = {}]
        /\ \A n \in Messages : place'[n] = IF n \in held[i] THEN "queue" ELSE place[n]
    BY <2>1, DisconnectEffect
  <2>3. /\ held'[i] = {} /\ buffer'[i] = {}
        /\ \A j \in Instances \ {i} : held'[j] = held[j] /\ buffer'[j] = buffer[j]
    BY <1>0, <2>2
  <2>4. \A j \in Instances : AtHand(j)'
    BY <2>1, <2>3 DEF Once, AtHand
  <2>5. ASSUME NEW n \in accepted PROVE Owned(n)'
    <3>1. n \in Messages /\ Owned(n)
      BY <1>0 DEF Once
    <3>2. work[i].verdict # "ack"
      BY <1>1, <2>1
    <3>3. place[n] = "acked" => place'[n] = "acked"
      BY <2>2, <3>1 DEF HoldInv
    <3>4. \A j \in Instances : n \in held[j] /\ work[j].verdict = "ack" => n \in held'[j] /\ work'[j] = work[j]
      BY <2>1, <2>3, <3>2
    <3>5. QED
      BY <1>2, <3>1, <3>3, <3>4
  <2>6. QED
    BY <2>1, <2>4, <2>5 DEF Once
<1>14. ASSUME NEW i \in Instances, Restart(i) PROVE Once'
  <2>1. /\ work' = [work EXCEPT ![i] = Resting] /\ buffer' = [buffer EXCEPT ![i] = {}]
        /\ UNCHANGED <<held, place, accepted>> /\ step[i] = Gone
    BY <1>14 DEF Restart, queueVars, history
  <2>2. held[i] = {}
    BY <2>1, SetupFacts DEF HoldInv, TypeInv, TypeOK
  <2>3. /\ work'[i] = Resting /\ buffer'[i] = {}
        /\ \A j \in Instances \ {i} : work'[j] = work[j] /\ buffer'[j] = buffer[j]
    BY <1>0, <2>1
  <2>4. \A j \in Instances : AtHand(j)'
    BY <2>1, <2>3 DEF Once, AtHand, Resting
  <2>5. ASSUME NEW n \in accepted PROVE Owned(n)'
    <3>1. n \in Messages /\ Owned(n)
      BY <1>0 DEF Once
    <3>2. \A j \in Instances : n \in held[j] => n \in held'[j] /\ work'[j] = work[j]
      BY <2>1, <2>2, <2>3
    <3>3. QED
      BY <1>2, <2>1, <3>1, <3>2
  <2>6. QED
    BY <2>1, <2>4, <2>5 DEF Once
\* The others leave what is held and done alone.
<1>15. ASSUME UNCHANGED <<place, held, buffer, work, accepted>> PROVE Once'
  BY <1>15 DEF Once, AtHand, Owned
<1>16. QED
  BY <1>4, <1>5, <1>6, <1>8, <1>9, <1>10, <1>11, <1>12, <1>13, <1>14, <1>15
     DEF Next, Process, vars, queueVars, instanceVars, SetupStep, SetupFails, Lapse, history

\* The number of broken connections never falls.
LEMMA BreaksGrow ==
    ASSUME TypeInv, [Next]_vars, ~broken'
    PROVE  ~broken
<1>1. broken' = broken \/ broken' = TRUE
  <2>1. \A i \in Instances : Lose(i) => broken' = TRUE
    BY LoseEffect
  <2>2. \A i \in Instances : Close(i) => broken' = broken
    BY CloseEffect
  <2>3. QED
    BY <2>1, <2>2 DEF Next, Process, vars, history, SetupStep, SetupFails, Publish, Lapse, Expire, Deliver,
       Take, HandlerReturns, HandlerFails, HandlerRejects, Settle, Stop, Restart
<1>2. QED
  BY <1>1

LEMMA OnceInvStep == TypeInv /\ HoldInv /\ OnceInv /\ [Next]_vars => OnceInv'
<1> SUFFICES ASSUME TypeInv, HoldInv, OnceInv, [Next]_vars PROVE OnceInv'
  OBVIOUS
<1>1. config' = config
  BY ConfigStays
<1>2. config.style = "cluster" /\ ~broken' => Once'
  BY OnceForm, OnceStep, BreaksGrow
<1>3. OnceInv' <=> (config'.style = "cluster" /\ ~broken' => Once')
  BY DEF OnceInv, HandledOnce, Once, AtHand, Owned
<1>4. QED
  BY <1>1, <1>2, <1>3

\* Until a connection breaks, what a cluster handler has succeeded with is acknowledged by
\* the instance that handled it, and goes to no other: Close waits for the handler.
THEOREM SuccessIsFinal == Spec => []HandledOnce
<1>1. Init => TypeInv /\ HoldInv /\ OnceInv
  BY InitTypes, InitHold, InitOnce
<1>2. TypeInv /\ HoldInv /\ OnceInv /\ [Next]_vars => (TypeInv /\ HoldInv /\ OnceInv)'
  BY TypeStep, HoldStep, OnceInvStep
<1>3. OnceInv => HandledOnce
  BY DEF OnceInv
<1>4. QED
  BY <1>1, <1>2, <1>3, PTL DEF Spec

-----------------------------------------------------------------------------
(***************************************************************************)
(* The queue implements EventQueue with the cluster adapter.               *)
(***************************************************************************)
\* What EventQueue sees of the places, and of the deliveries at the instances.
Fates == [m \in Messages |-> Fate(m)]

Hands == [i \in Instances |-> InHand(i)]

\* One event moves.
LEMMA FateMoves ==
    ASSUME NEW m \in Messages, \A n \in Messages \ {m} : place'[n] = place[n],
           place'[m] \in {"queue", "held", "acked", "dead"}
    PROVE  Fates' = [Fates EXCEPT ![m] = place'[m]]
<1>1. Fate(m)' = place'[m]
  BY DEF Fate
<1>2. \A n \in Messages \ {m} : Fate(n)' = Fate(n)
  BY DEF Fate
<1> QED
  BY <1>1, <1>2 DEF Fates

\* None does.
LEMMA FatesStay == UNCHANGED place => UNCHANGED Fates
  BY DEF Fates, Fate

\* The deliveries of one instance change.
LEMMA HandsMove ==
    ASSUME NEW i \in Instances,
           \A j \in Instances \ {i} : buffer'[j] = buffer[j] /\ work'[j] = work[j]
    PROVE  Hands' = [Hands EXCEPT ![i] = InHand(i)']
<1>1. \A j \in Instances \ {i} : InHand(j)' = InHand(j)
  BY DEF InHand
<1> QED
  BY <1>1 DEF Hands

\* No delivery does.
LEMMA HandsStay == UNCHANGED <<buffer, work>> => UNCHANGED Hands
  BY DEF Hands, InHand

\* An instance is done with what it works on, or loses what it has received.
LEMMA HandsShrink ==
    ASSUME NEW i \in Instances,
           \A j \in Instances \ {i} : buffer'[j] = buffer[j] /\ work'[j] = work[j],
           InHand(i)' \subseteq InHand(i)
    PROVE  Queue!LetsGo(i)
<1>1. Hands' = [Hands EXCEPT ![i] = InHand(i)']
  BY HandsMove
<1>2. InHand(i)' \in SUBSET Hands[i]
  BY DEF Hands
<1> QED
  BY <1>1, <1>2 DEF Queue!LetsGo, Hands

\* What EventQueue sees stays.
LEMMA QueueStutters == UNCHANGED <<Fates, held, Hands, accepted, dead>> => UNCHANGED Queue!vars
  BY DEF Queue!vars, Fates, Hands

\* Nothing is published or delivered at first.
LEMMA InitQueue == Init => Queue!Init
<1> SUFFICES ASSUME Init
             PROVE  Queue!Init
  OBVIOUS
<1>1. \A m \in Messages : Fate(m) = "new"
  BY DEF Init, Fate
<1>2. \A i \in Instances : InHand(i) = {}
  BY DEF Init, InHand, Resting
<1> QED
  BY <1>1, <1>2 DEF Init, Queue!Init

\* With the dead-letter queue bound, a dead letter has its copy there.
LEMMA DeadLetterBuries ==
    ASSUME TypeInv, NEW m \in Messages, DeadLetter(m), UNCHANGED accepted,
           config.style = "cluster", "bindDlq" \in declared
    PROVE  Queue!Bury(m)
<1>1. /\ \A n \in Messages \ {m} : place'[n] = place[n]
      /\ place'[m] \in {"queue", "dead"}
  BY DeadLetterEffect
<1>2. Fates' = [Fates EXCEPT ![m] = place'[m]]
  BY <1>1, FateMoves
<1>3. dead' = dead \cup {m}
  BY DEF DeadLetter
<1> QED
  BY <1>1, <1>2, <1>3 DEF Queue!Bury, Fates

\* A connection that ends returns what it held, and the goroutine may go on with the rest.
LEMMA DisconnectReturns ==
    ASSUME TypeInv, HoldInv, config.style = "cluster",
           NEW i \in Instances, NEW kept \in SUBSET buffer[i], Disconnect(i, kept),
           UNCHANGED <<dead, work, accepted>>
    PROVE  Queue!Return(i)
<1>0. held \in [Instances -> SUBSET Messages] /\ buffer \in [Instances -> SUBSET Messages]
  BY DEF TypeInv, TypeOK
<1>1. /\ held' = [held EXCEPT ![i] = {}] /\ buffer' = [buffer EXCEPT ![i] = kept]
      /\ \A m \in Messages : place'[m] = IF m \in held[i] THEN "queue" ELSE place[m]
  BY DisconnectEffect
<1>2. \A m \in Messages : Fate(m)' = IF m \in held[i] THEN "queue" ELSE Fate(m)
  BY <1>1 DEF Fate
<1>3. Fates' = [m \in Messages |-> IF m \in held[i] THEN "queue" ELSE Fates[m]]
  BY <1>2 DEF Fates
<1>4. held' = [held EXCEPT ![i] = @ \ held[i]]
  BY <1>0, <1>1
<1>5. Queue!LetsGo(i)
  <2>1. InHand(i)' \subseteq InHand(i)
    BY <1>0, <1>1 DEF InHand
  <2>2. \A j \in Instances \ {i} : buffer'[j] = buffer[j] /\ work'[j] = work[j]
    BY <1>0, <1>1
  <2> QED
    BY <2>1, <2>2, HandsShrink
<1>6. held[i] \in SUBSET held[i]
  OBVIOUS
<1> QED
  BY <1>3, <1>4, <1>5, <1>6 DEF Queue!Return, Fates

\* A decision is acted upon if the delivery is still held, and noticed by no one if not.
LEMMA SettleRefines ==
    ASSUME TypeInv, HoldInv, Kept, config.style = "cluster", NEW i \in Instances, Settle(i)
    PROVE  \/ Queue!Return(i)
           \/ \E m \in Messages : Queue!Complete(i, m) \/ Queue!Reject(i, m)
<1> DEFINE m == work[i].msg
<1>0. /\ held \in [Instances -> SUBSET Messages] /\ place \in [Messages -> Places]
      /\ work \in [Instances -> Works]
  BY DEF TypeInv, TypeOK, Places
<1>1. /\ m \in Messages /\ work[i].pc = "settle" /\ work' = [work EXCEPT ![i] = Resting]
      /\ held' = [held EXCEPT ![i] = held[i] \ {m}]
      /\ \A n \in Messages \ {m} : place'[n] = place[n]
  BY SettleEffect
<1>2. UNCHANGED <<buffer, accepted, declared>>
  BY DEF Settle, history
<1>3. work[i].verdict \in {"ack", "requeue", "reject"} /\ (work[i].verdict = "ack" => m \in accepted)
  <2>1. work[i] \in Works
    BY <1>0
  <2> QED
    BY <1>1, <2>1 DEF Works, Kept
<1>4. Queue!LetsGo(i)
  <2>1. InHand(i)' \subseteq InHand(i)
    BY <1>0, <1>1, <1>2 DEF InHand, Resting
  <2>2. \A j \in Instances \ {i} : buffer'[j] = buffer[j] /\ work'[j] = work[j]
    BY <1>0, <1>1, <1>2
  <2> QED
    BY <2>1, <2>2, HandsShrink
<1>5. CASE m \notin held[i]
  <2>1. UNCHANGED <<place, dead>>
    BY <1>5 DEF Settle
  <2>2. Fates' = Fates
    BY <2>1, FatesStay
  <2>3. Fates' = [n \in Messages |-> IF n \in {} THEN "queue" ELSE Fates[n]]
    BY <2>2 DEF Fates
  <2>4. held' = [held EXCEPT ![i] = @ \ {}] /\ {} \in SUBSET held[i]
    BY <1>0, <1>1, <1>5
  <2> HIDE DEF m
  <2> QED
    BY <1>2, <1>4, <2>1, <2>3, <2>4 DEF Queue!Return, Fates
<1>6. CASE m \in held[i] /\ work[i].verdict = "ack"
  <2>1. place' = [place EXCEPT ![m] = "acked"] /\ UNCHANGED dead
    BY <1>6 DEF Settle
  <2>2. place'[m] = "acked"
    BY <1>0, <1>1, <2>1
  <2> HIDE DEF m
  <2>3. Fates' = [Fates EXCEPT ![m] = "acked"]
    BY <1>1, <2>2, FateMoves
  <2>4. Queue!Complete(i, m)
    BY <1>1, <1>2, <1>3, <1>4, <1>6, <2>1, <2>3 DEF Queue!Complete, Fates
  <2> QED
    BY <1>1, <2>4
<1>7. CASE m \in held[i] /\ work[i].verdict = "requeue"
  <2>1. place' = [place EXCEPT ![m] = "queue"] /\ UNCHANGED dead
    BY <1>7 DEF Settle
  <2>2. place'[m] = "queue"
    BY <1>0, <1>1, <2>1
  <2> HIDE DEF m
  <2>3. Fates' = [Fates EXCEPT ![m] = "queue"]
    BY <1>1, <2>2, FateMoves
  <2>4. Fates' = [n \in Messages |-> IF n \in {m} THEN "queue" ELSE Fates[n]]
    BY <1>1, <2>3 DEF Fates
  <2>5. held' = [held EXCEPT ![i] = @ \ {m}] /\ {m} \in SUBSET held[i]
    BY <1>1, <1>7
  <2> QED
    BY <1>2, <1>4, <2>1, <2>4, <2>5 DEF Queue!Return, Fates
<1>8. CASE m \in held[i] /\ work[i].verdict = "reject"
  <2>1. DeadLetter(m)
    BY <1>8 DEF Settle
  <2> HIDE DEF m
  <2>2. "bindDlq" \in declared
    BY <1>1, <1>8 DEF HoldInv, Kept
  <2>3. Queue!Bury(m)
    BY <1>1, <1>2, <2>1, <2>2, DeadLetterBuries
  <2>4. Queue!Reject(i, m)
    BY <1>1, <1>4, <1>8, <2>3 DEF Queue!Reject
  <2> QED
    BY <1>1, <2>4
<1> QED
  BY <1>3, <1>5, <1>6, <1>7, <1>8

\* Each step of the cluster adapter is one of EventQueue's, or none.
LEMMA QueueStep ==
    ASSUME TypeInv, HoldInv, Kept, config.style = "cluster", [Next]_vars
    PROVE  [Queue!Next]_(Queue!vars)
<1>0. /\ held \in [Instances -> SUBSET Messages] /\ buffer \in [Instances -> SUBSET Messages]
      /\ place \in [Messages -> Places] /\ work \in [Instances -> Works] /\ config \in Configs
  BY DEF TypeInv, TypeOK, Places
\* Subscribing, deciding and lapsing are of no account to the queue.
<1>1. ASSUME UNCHANGED <<place, dead, held, accepted, Hands>>
      PROVE  UNCHANGED Queue!vars
  BY <1>1, FatesStay, QueueStutters
<1>2. ASSUME UNCHANGED <<place, dead, held, buffer, work, accepted>>
      PROVE  UNCHANGED Queue!vars
  BY <1>1, <1>2, HandsStay
<1>3. ASSUME NEW m \in Messages, Publish(m)
      PROVE  Queue!Publish(m)
  <2>1. /\ place[m] = "new" /\ \A n \in Messages \ {m} : place'[n] = place[n]
        /\ place'[m] \in {"unsent", "queue", "unrouted"}
    BY <1>3, PublishEffect
  <2>2. UNCHANGED <<dead, held, buffer, work, accepted>>
    BY <1>3 DEF Publish, instanceVars, history
  <2>3. Fate(m) = "new" /\ Fate(m)' \in {"queue", "dropped"}
    BY <2>1 DEF Fate
  <2>4. Fates' = [Fates EXCEPT ![m] = Fate(m)']
    <3>1. \A n \in Messages \ {m} : Fate(n)' = Fate(n)
      BY <2>1 DEF Fate
    <3> QED
      BY <3>1 DEF Fates
  <2>5. UNCHANGED Hands
    BY <2>2, HandsStay
  <2> QED
    BY <2>2, <2>3, <2>4, <2>5 DEF Queue!Publish, Fates, Hands
<1>4. ASSUME NEW m \in Messages, Lapse(m)
      PROVE  UNCHANGED Queue!vars
  BY <1>2, <1>4 DEF Lapse, queueVars, instanceVars, history
<1>5. ASSUME NEW m \in Messages, Expire(m)
      PROVE  Queue!Expire(m)
  <2>1. place[m] = "queue" /\ DeadLetter(m) /\ UNCHANGED <<held, buffer, work, accepted>>
    BY <1>5 DEF Expire, instanceVars, history
  <2>2. "bindDlq" \in declared
    BY <2>1 DEF Kept
  <2>3. Queue!Bury(m)
    BY <2>1, <2>2, DeadLetterBuries
  <2>4. Fate(m) = "queue" /\ UNCHANGED Hands
    BY <2>1, HandsStay DEF Fate
  <2> QED
    BY <2>1, <2>3, <2>4 DEF Queue!Expire, Hands
<1>6. ASSUME NEW i \in Instances, SetupStep(i) \/ SetupFails(i)
      PROVE  UNCHANGED Queue!vars
  BY <1>2, <1>6 DEF SetupStep, SetupFails, queueVars, history
<1>7. ASSUME NEW i \in Instances, NEW m \in Messages, Deliver(i, m)
      PROVE  Queue!Lease(i, m)
  <2>1. /\ place[m] = "queue" /\ place' = [place EXCEPT ![m] = "held"]
        /\ held' = [held EXCEPT ![i] = @ \cup {m}]
        /\ buffer' = [buffer EXCEPT ![i] = buffer[i] \cup {m}]
        /\ UNCHANGED <<dead, work, accepted>>
    BY <1>7 DEF Deliver, history
  <2>2. place'[m] = "held" /\ \A n \in Messages \ {m} : place'[n] = place[n]
    BY <1>0, <2>1
  <2>3. Fates' = [Fates EXCEPT ![m] = "held"]
    BY <2>2, FateMoves
  <2>4. Fate(m) = "queue"
    BY <2>1 DEF Fate
  <2>5. InHand(i)' = InHand(i) \cup {m}
    BY <1>0, <2>1 DEF InHand
  <2>6. \A j \in Instances \ {i} : buffer'[j] = buffer[j] /\ work'[j] = work[j]
    BY <1>0, <2>1
  <2>7. Hands' = [Hands EXCEPT ![i] = InHand(i) \cup {m}]
    BY <2>5, <2>6, HandsMove
  <2>8. Hands' = [Hands EXCEPT ![i] = @ \cup {m}]
    BY <2>7 DEF Hands
  <2> QED
    BY <2>1, <2>3, <2>4, <2>8 DEF Queue!Lease, Fates, Hands
<1>8. ASSUME NEW i \in Instances, NEW m \in Messages, Take(i, m)
      PROVE  UNCHANGED Queue!vars
  <2>1. /\ work[i].pc = "idle" /\ m \in buffer[i] /\ buffer'[i] = buffer[i] \ {m}
        /\ work'[i].msg = m /\ work'[i].pc # "idle"
        /\ \A j \in Instances \ {i} : buffer'[j] = buffer[j] /\ work'[j] = work[j]
        /\ UNCHANGED <<place, dead, held, accepted>>
    BY <1>0, <1>8 DEF Take, queueVars, history
  <2>2. InHand(i)' = InHand(i)
    BY <2>1 DEF InHand
  <2>3. UNCHANGED Hands
    BY <2>1, <2>2, HandsMove DEF Hands
  <2> QED
    BY <1>1, <2>1, <2>3
<1>9. ASSUME NEW i \in Instances, NEW v \in {"ack", "requeue", "reject"},
             work[i].pc = "handle", Decide(i, v), UNCHANGED buffer
      PROVE  work[i].msg \in InHand(i) /\ work[i].msg \in Messages /\ UNCHANGED Hands
  <2>1. work[i].msg \in Messages /\ work' = [work EXCEPT ![i] = At("settle", work[i].msg, v)]
    BY <1>9, DecideEffect
  <2>2. InHand(i)' = InHand(i)
    BY <1>0, <1>9, <2>1 DEF InHand, At
  <2>3. \A j \in Instances \ {i} : buffer'[j] = buffer[j] /\ work'[j] = work[j]
    BY <1>0, <1>9, <2>1
  <2>4. UNCHANGED Hands
    BY <2>2, <2>3, HandsMove DEF Hands
  <2> QED
    BY <1>9, <2>1, <2>4 DEF InHand
<1>10. ASSUME NEW i \in Instances, HandlerReturns(i)
       PROVE  \E m \in Messages : Queue!Handle(i, m)
  <2>1. work[i].pc = "handle" /\ Decide(i, "ack") /\ UNCHANGED <<place, dead, held, buffer>>
    BY <1>10 DEF HandlerReturns, queueVars
  <2>2. work[i].msg \in InHand(i) /\ work[i].msg \in Messages /\ UNCHANGED Hands
    BY <1>9, <2>1
  <2>3. work[i].verdict = "event"
    BY <2>1, DecideEffect DEF Kept
  <2>4. accepted' = accepted \cup {work[i].msg}
    BY <1>10, <2>3 DEF HandlerReturns
  <2>5. UNCHANGED Fates
    BY <2>1, FatesStay
  <2>6. Queue!Handle(i, work[i].msg)
    BY <2>1, <2>2, <2>4, <2>5 DEF Queue!Handle, Fates, Hands
  <2> QED
    BY <2>2, <2>6
<1>11. ASSUME NEW i \in Instances, HandlerFails(i) \/ HandlerRejects(i)
       PROVE  UNCHANGED Queue!vars
  <2>1. /\ work[i].pc = "handle" /\ UNCHANGED <<place, dead, held, buffer, accepted>>
        /\ Decide(i, "requeue") \/ Decide(i, "reject")
    BY <1>11 DEF HandlerFails, HandlerRejects, queueVars, history
  <2>2. UNCHANGED Hands
    BY <1>9, <2>1
  <2> QED
    BY <1>1, <2>1, <2>2
<1>12. ASSUME NEW i \in Instances, Lose(i)
       PROVE  Queue!Return(i)
  BY <1>12, LoseEffect, DisconnectReturns
<1>13. ASSUME NEW i \in Instances, Close(i)
       PROVE  UNCHANGED Queue!vars
  BY <1>2, <1>13, CloseEffect
<1>14. ASSUME NEW i \in Instances, Stop(i)
       PROVE  Queue!Return(i)
  <2>1. {} \in SUBSET buffer[i] /\ Disconnect(i, {}) /\ UNCHANGED <<dead, work, accepted>>
    BY <1>14 DEF Stop, history
  <2> QED
    BY <2>1, DisconnectReturns
<1>15. ASSUME NEW i \in Instances, Restart(i)
       PROVE  Queue!Return(i)
  <2>1. /\ work' = [work EXCEPT ![i] = Resting] /\ buffer' = [buffer EXCEPT ![i] = {}]
        /\ UNCHANGED <<place, dead, held, accepted>>
    BY <1>15 DEF Restart, queueVars, history
  <2>2. InHand(i)' \subseteq InHand(i)
    BY <1>0, <2>1 DEF InHand, Resting
  <2>3. \A j \in Instances \ {i} : buffer'[j] = buffer[j] /\ work'[j] = work[j]
    BY <1>0, <2>1
  <2>4. Queue!LetsGo(i)
    BY <2>2, <2>3, HandsShrink
  <2>5. Fates' = [n \in Messages |-> IF n \in {} THEN "queue" ELSE Fates[n]]
    BY <2>1, FatesStay DEF Fates
  <2>6. held' = [held EXCEPT ![i] = @ \ {}] /\ {} \in SUBSET held[i]
    BY <1>0, <2>1
  <2> QED
    BY <2>1, <2>4, <2>5, <2>6 DEF Queue!Return, Fates
<1>16. CASE UNCHANGED vars
  BY <1>2, <1>16 DEF vars, queueVars, instanceVars, history
<1>17. CASE \E i \in Instances : Settle(i)
  BY <1>17, SettleRefines DEF Queue!Next
<1> QED
  BY <1>3, <1>4, <1>5, <1>6, <1>7, <1>8, <1>10, <1>11, <1>12, <1>13, <1>14, <1>15, <1>16, <1>17
     DEF Next, Process, Queue!Next

\* With the cluster adapter the queue implements EventQueue, for any number of events and
\* instances and any number of breaks: only the holder of a delivery settles it, it
\* acknowledges only what was handled, and no acknowledgement or dead letter is undone.
THEOREM ImplementsEventQueue == Spec => DeliversAtLeastOnce
<1>1. Init => TypeInv /\ HoldInv /\ KeepInv
  BY InitTypes, InitHold, InitKept
<1>2. TypeInv /\ HoldInv /\ KeepInv /\ [Next]_vars => (TypeInv /\ HoldInv /\ KeepInv)'
  BY TypeStep, HoldStep, KeepStep
<1>3. Init => (config.style = "cluster" => Queue!Init)
  BY InitQueue
<1>4. TypeInv /\ HoldInv /\ KeepInv /\ [Next]_vars =>
        (config.style = "cluster" => [Queue!Next]_(Queue!vars))
  BY KeptForm, QueueStep
<1> QED
  BY <1>1, <1>2, <1>3, <1>4, PTL DEF Spec, DeliversAtLeastOnce

=============================================================================
