---------------------------- MODULE ServiceProofs ----------------------------
(***************************************************************************)
(* The safety of Service, and with it of RateLimiter, for every number of    *)
(* requests and tasks, every limit and every choice of resources.  The        *)
(* invariants: LimiterInv, what the counter of a minute can still grow to;   *)
(* TombInv, the number of goroutines alive; PhaseInv, what is at rest in     *)
(* each phase of the main goroutine; and CloserInv, that the closers are the  *)
(* open resources in the order in which they were made.                     *)
(***************************************************************************)
EXTENDS Service, FiniteSetTheorems, SequenceTheorems, TLAPS

USE RequestsAssumption, ServersAssumption, LimitAssumption, FailsAssumption, WantedAssumption, TasksAssumption

\* Requests that the counter of a server has let through and that have not incremented.
Passed(s) == {r \in Requests : request[r].pc = "increment" /\ request[r].read = s}

\* A counter below the limit has missed none of those it let through, so that the limit
\* bounds them, and those about to increment, from the moment of the last read.
LimiterInv ==
    /\ LimiterTypeOK
    /\ \A r \in Requests : request[r].minute = "last" => request[r].read = "none"
    /\ \A s \in Servers : count[s] < Limit => admitted[s] <= count[s]
    /\ \A s \in Servers : admitted[s] + Cardinality(Passed(s)) <= AdmittedCap

Phases == {"new", "start", "run", "drain", "cleanup", "wait", "close", "exited"}

AliveTasks == {t \in Tasks : task[t] \in Alive}

\* The tomb counts its goroutines, and is dead only without one.
TombInv ==
    /\ task \in [Tasks -> Alive \cup {"new", "ended"}]
    /\ http \in {"new", "listening", "closed", "ended"}
    /\ tomb \in [alive : Nat, dying : BOOLEAN, dead : BOOLEAN]
    /\ tomb.alive = Cardinality(AliveTasks) + (IF http \in {"listening", "closed"} THEN 1 ELSE 0)
    /\ tomb.dead => tomb.alive = 0

\* What is at rest in the phases of main.
PhaseInv ==
    /\ main \in [pc : Phases, at : Nat]
    /\ late \in BOOLEAN
    /\ main.pc = "new" => tomb.alive = 0 /\ \A t \in Tasks : task[t] = "new"
    /\ main.pc \in {"new", "start"} => http = "new"
    /\ http = "new" => InFlight = {}
    /\ main.pc \notin {"new", "start", "run"} => http # "listening"
    /\ main.pc \in {"cleanup", "wait", "close", "exited"} => ~ServesRequests
    /\ main.pc \in {"close", "exited"} => tomb.alive = 0
    /\ main.pc \notin {"close", "exited"} => \A x \in Wanted : resource[x] # "closed"

\* The place of a resource in New.
Rank == [db |-> 1, pub |-> 2, sub |-> 3, audit |-> 4]

Closable == Wanted \ {"audit"}

\* The closers are what is open and tracked, later ones last, and what is closed was
\* made after all of them.
CloserInv ==
    /\ main.at \in 1..(Len(Order) + 1)
    /\ resource \in [Wanted -> {"none", "open", "closed"}]
    /\ closers \in Seq(Closable)
    /\ Len(closers) <= Len(Order)
    /\ main.pc = "new" => Len(closers) < main.at
    /\ \A x \in Closable : resource[x] = "open" <=> \E k \in 1..Len(closers) : closers[k] = x
    /\ \A j, k \in 1..Len(closers) : j < k => Rank[closers[j]] < Rank[closers[k]]
    /\ main.pc = "new" =>
         \A k \in 1..Len(closers), j \in main.at..Len(Order) : Rank[closers[k]] < Rank[Order[j]]
    /\ \A x \in Closable : resource[x] = "closed" => \A k \in 1..Len(closers) : Rank[closers[k]] < Rank[x]
    /\ main.pc = "exited" => closers = <<>>

-----------------------------------------------------------------------------
(***************************************************************************)
(* The limiter.                                                            *)
(***************************************************************************)
RequestStates == [pc : {"idle", "blocked?", "count", "block", "increment", "answer"},
                  minute : Minutes, read : Servers \cup {"none"}]

LEMMA CapType ==
    /\ Cardinality(Requests) \in Nat
    /\ AdmittedCap \in Nat /\ AdmittedCap = Limit - 1 + Cardinality(Requests)
<1>1. Cardinality(Requests) \in Nat
  BY FS_CardinalityType
<1>2. QED
  BY <1>1 DEF AdmittedCap

LEMMA LimiterTypes ==
    LimiterTypeOK <=> /\ request \in [Requests -> RequestStates]
                      /\ count \in [Servers -> 0..Limit]
                      /\ block \in [Servers -> 0..BlockTicks]
                      /\ admitted \in [Servers -> Nat]
  BY DEF LimiterTypeOK, RequestStates

LEMMA PassedBound ==
    ASSUME NEW s
    PROVE  /\ IsFiniteSet(Passed(s)) /\ Cardinality(Passed(s)) \in Nat
           /\ Cardinality(Passed(s)) <= Cardinality(Requests)
<1>1. Passed(s) \in SUBSET Requests
  BY DEF Passed
<1>2. IsFiniteSet(Passed(s)) /\ Cardinality(Passed(s)) <= Cardinality(Requests)
  BY <1>1, FS_Subset
<1>3. QED
  BY <1>2, FS_CardinalityType

\* The same of the next state.
LEMMA PassedBoundNext ==
    ASSUME NEW s
    PROVE  Cardinality(Passed(s)') \in Nat /\ Cardinality(Passed(s)') <= Cardinality(Requests)
<1>1. Passed(s)' \in SUBSET Requests
  BY DEF Passed
<1>2. IsFiniteSet(Passed(s)') /\ Cardinality(Passed(s)') <= Cardinality(Requests)
  BY <1>1, FS_Subset
<1>3. QED
  BY <1>2, FS_CardinalityType

LEMMA InitLimiter == LimiterInit => LimiterInv
<1> SUFFICES ASSUME LimiterInit PROVE LimiterInv
  OBVIOUS
<1>1. LimiterTypeOK
  <2>1. Idle \in RequestStates
    BY DEF Idle, RequestStates, Minutes
  <2>2. QED
    BY <2>1, LimiterTypes DEF LimiterInit
<1>2. ASSUME NEW s \in Servers PROVE admitted[s] = 0 /\ count[s] = 0 /\ Cardinality(Passed(s)) = 0
  <2>1. Passed(s) = {}
    BY DEF LimiterInit, Passed, Idle
  <2>2. QED
    BY <2>1, FS_EmptySet DEF LimiterInit
<1>3. \A r \in Requests : request[r].read = "none"
  BY DEF LimiterInit, Idle
<1>4. ASSUME NEW s \in Servers
      PROVE  admitted[s] <= count[s] /\ admitted[s] + Cardinality(Passed(s)) <= AdmittedCap
  BY <1>2, CapType
<1>5. QED
  BY <1>1, <1>3, <1>4 DEF LimiterInv

\* A request that is not about to increment after its step.
LEMMA PassedOn ==
    ASSUME request \in [Requests -> RequestStates], NEW r \in Requests,
           \A q \in Requests \ {r} : request'[q] = request[q],
           request'[r].pc # "increment", NEW s \in Servers
    PROVE  /\ Cardinality(Passed(s)') <= Cardinality(Passed(s))
           /\ r \in Passed(s) => Cardinality(Passed(s)') = Cardinality(Passed(s)) - 1
<1>1. Passed(s)' = Passed(s) \ {r}
  BY DEF Passed
<1>2. IsFiniteSet(Passed(s)) /\ Cardinality(Passed(s)) \in Nat
  BY PassedBound
<1>3. Cardinality(Passed(s) \ {r}) = IF r \in Passed(s) THEN Cardinality(Passed(s)) - 1 ELSE Cardinality(Passed(s))
  BY <1>2, FS_RemoveElement
<1>4. QED
  BY <1>1, <1>2, <1>3

\* How the requests move.
LEMMA AnswerEffect ==
    ASSUME request \in [Requests -> RequestStates], NEW r \in Requests,
           NEW pc \in {"idle", "blocked?", "answer"}, Answer(r, pc)
    PROVE  /\ request' \in [Requests -> RequestStates] /\ request'[r].pc = pc
           /\ request'[r].read = "none"
           /\ \A q \in Requests \ {r} : request'[q] = request[q]
<1>1. /\ [Idle EXCEPT !.pc = pc] \in RequestStates /\ [Idle EXCEPT !.pc = pc].pc = pc
      /\ [Idle EXCEPT !.pc = pc].read = "none"
  BY DEF Idle, RequestStates, Minutes
<1>2. QED
  BY <1>1 DEF Answer

LEMMA GotoEffect ==
    ASSUME request \in [Requests -> RequestStates], NEW r \in Requests,
           NEW pc \in {"count", "block"}, Goto(r, pc)
    PROVE  /\ request' \in [Requests -> RequestStates] /\ request'[r].pc = pc
           /\ request'[r].minute = request[r].minute /\ request'[r].read = request[r].read
           /\ \A q \in Requests \ {r} : request'[q] = request[q]
<1>1. request[r] \in RequestStates
  OBVIOUS
<1>2. /\ [request[r] EXCEPT !.pc = pc] \in RequestStates /\ [request[r] EXCEPT !.pc = pc].pc = pc
      /\ [request[r] EXCEPT !.pc = pc].minute = request[r].minute
      /\ [request[r] EXCEPT !.pc = pc].read = request[r].read
  BY <1>1 DEF RequestStates
<1>3. request' = [request EXCEPT ![r] = [request[r] EXCEPT !.pc = pc]]
  BY DEF Goto
<1>4. QED
  BY <1>2, <1>3

\* A request that goes on, or answers: what it does to the counters decides.
LEMMA CountStep ==
    ASSUME LimiterInv, NEW r \in Requests, request' \in [Requests -> RequestStates],
           request'[r].pc # "increment", request'[r].minute = "last" => request'[r].read = "none",
           \A q \in Requests \ {r} : request'[q] = request[q],
           block' \in [Servers -> 0..BlockTicks],
           count' \in [Servers -> 0..Limit], admitted' \in [Servers -> Nat],
           \A s \in Servers : count[s] <= count'[s],
           \A s \in Servers :
              \/ admitted'[s] = admitted[s]
              \/ /\ r \in Passed(s) /\ admitted'[s] = admitted[s] + 1
                 /\ count'[s] = Limit \/ count'[s] = count[s] + 1
    PROVE  LimiterInv'
<1>0. request \in [Requests -> RequestStates] /\ count \in [Servers -> 0..Limit] /\ admitted \in [Servers -> Nat]
  BY LimiterTypes DEF LimiterInv
<1>1. LimiterTypeOK'
  BY DEF LimiterTypeOK, RequestStates
<1>2. \A q \in Requests : request'[q].minute = "last" => request'[q].read = "none"
  BY DEF LimiterInv
<1>3. ASSUME NEW s \in Servers
      PROVE  /\ count'[s] < Limit => admitted'[s] <= count'[s]
             /\ admitted'[s] + Cardinality(Passed(s)') <= AdmittedCap
  <2>1. /\ count[s] \in Nat /\ count'[s] \in Nat /\ admitted[s] \in Nat /\ admitted'[s] \in Nat
        /\ count[s] <= count'[s]
        /\ count[s] < Limit => admitted[s] <= count[s]
        /\ admitted[s] + Cardinality(Passed(s)) <= AdmittedCap
    BY <1>0 DEF LimiterInv
  <2>2. /\ Cardinality(Passed(s)) \in Nat /\ Cardinality(Passed(s)') \in Nat
        /\ Cardinality(Passed(s)') <= Cardinality(Passed(s))
        /\ r \in Passed(s) => Cardinality(Passed(s)') = Cardinality(Passed(s)) - 1
    BY <1>0, PassedOn, PassedBound, PassedBoundNext
  <2>3. CASE admitted'[s] = admitted[s]
    BY <2>1, <2>2, <2>3, CapType
  <2>4. CASE /\ r \in Passed(s) /\ admitted'[s] = admitted[s] + 1
             /\ count'[s] = Limit \/ count'[s] = count[s] + 1
    BY <2>1, <2>2, <2>4, CapType
  <2>5. QED
    BY <2>3, <2>4
<1>4. QED
  BY <1>1, <1>2, <1>3 DEF LimiterInv

LEMMA IncrementedEffect ==
    ASSUME count \in [Servers -> 0..Limit], NEW r \in Requests, NEW s \in Servers, Incremented(r, s)
    PROVE  /\ count' \in [Servers -> 0..Limit] /\ \A t \in Servers : count[t] <= count'[t]
           /\ request[r].minute = "this" => count'[s] = Limit \/ count'[s] = count[s] + 1
<1>1. CASE request[r].minute = "this" /\ count[s] < Limit
  <2>1. count' = [count EXCEPT ![s] = count[s] + 1] /\ count[s] + 1 \in 0..Limit
    BY <1>1 DEF Incremented
  <2>2. QED
    BY <2>1
<1>2. CASE ~(request[r].minute = "this" /\ count[s] < Limit)
  <2>1. count' = count
    BY <1>2 DEF Incremented
  <2>2. count[s] \in 0..Limit
    OBVIOUS
  <2>3. QED
    BY <1>2, <2>1, <2>2
<1>3. QED
  BY <1>1, <1>2

LEMMA LimiterStep ==
    ASSUME LimiterInv,
           (\E r \in Requests : Begin(r) \/ RequestStep(r)) \/ TimeStep \/ UNCHANGED limiter
    PROVE  LimiterInv'
<1>0. /\ request \in [Requests -> RequestStates] /\ count \in [Servers -> 0..Limit]
      /\ block \in [Servers -> 0..BlockTicks] /\ admitted \in [Servers -> Nat]
  BY LimiterTypes DEF LimiterInv
<1>1. \A s \in Servers : [block EXCEPT ![s] = BlockTicks] \in [Servers -> 0..BlockTicks]
  BY <1>0
<1>2. \A s \in Servers : count[s] <= count[s]
  BY <1>0
\* A request that answers, or begins, without a word to its counter.
<1>3. ASSUME NEW r \in Requests, NEW pc \in {"idle", "blocked?", "answer"}, Answer(r, pc),
             UNCHANGED <<count, admitted>>, block' \in [Servers -> 0..BlockTicks]
      PROVE  LimiterInv'
  BY <1>0, <1>2, <1>3, AnswerEffect, CountStep
<1>4. ASSUME NEW r \in Requests, NEW pc \in {"count", "block"}, Goto(r, pc), UNCHANGED <<count, block, admitted>>
      PROVE  LimiterInv'
  <2>1. /\ request' \in [Requests -> RequestStates] /\ request'[r].pc # "increment"
        /\ request'[r].minute = "last" => request'[r].read = "none"
        /\ \A q \in Requests \ {r} : request'[q] = request[q]
    BY <1>0, <1>4, GotoEffect DEF LimiterInv
  <2>2. QED
    BY <1>0, <1>2, <1>4, <2>1, CountStep
<1>5. ASSUME NEW r \in Requests, Begin(r) PROVE LimiterInv'
  BY <1>0, <1>3, <1>5 DEF Begin
<1>6. ASSUME NEW r \in Requests, CheckBlock(r) PROVE LimiterInv'
  <2>1. Answer(r, "answer") \/ Goto(r, "count")
    BY <1>6 DEF CheckBlock
  <2>2. QED
    BY <1>0, <1>3, <1>4, <1>6, <2>1 DEF CheckBlock
<1>7. ASSUME NEW r \in Requests, CheckCount(r) PROVE LimiterInv'
  <2>1. PICK s \in Servers : \E n \in Counter(r, s) : IF n >= Limit THEN Goto(r, "block") ELSE Passes(r, s)
    BY <1>7 DEF CheckCount
  <2>2. CASE Goto(r, "block")
    BY <1>4, <1>7, <2>2 DEF CheckCount
  <2>3. CASE Passes(r, s) /\ \E n \in Counter(r, s) : ~(n >= Limit)
    <3>1. request[r] \in RequestStates /\ UNCHANGED <<count, block, admitted>>
      BY <1>0, <1>7 DEF CheckCount
    <3> DEFINE now == [request[r] EXCEPT !.pc = "increment",
                                         !.read = IF request[r].minute = "this" THEN s ELSE request[r].read]
    <3>2. /\ now \in RequestStates /\ now.minute = request[r].minute
          /\ now.read = IF request[r].minute = "this" THEN s ELSE request[r].read
      BY <3>1 DEF RequestStates
    <3>3. request' = [request EXCEPT ![r] = now]
      BY <2>3 DEF Passes
    <3> HIDE DEF now
    <3>4. /\ request' \in [Requests -> RequestStates] /\ request'[r] = now
          /\ \A q \in Requests \ {r} : request'[q] = request[q]
      BY <1>0, <3>2, <3>3
    <3>5. \A q \in Requests : request'[q].minute = "last" => request'[q].read = "none"
      BY <3>2, <3>4 DEF LimiterInv
    <3>6. ASSUME NEW t \in Servers PROVE admitted[t] + Cardinality(Passed(t)') <= AdmittedCap
      <4>1. CASE t = s /\ request[r].minute = "this"
        <5>1. count[s] \in Nat /\ count[s] < Limit
          BY <1>0, <2>3, <4>1 DEF Counter
        <5>2. admitted[t] \in Nat /\ admitted[t] <= Limit - 1
          BY <1>0, <4>1, <5>1 DEF LimiterInv
        <5>3. QED
          BY <5>2, CapType, PassedBoundNext
      <4>2. CASE ~(t = s /\ request[r].minute = "this")
        <5>1. now.read # t
          <6>1. CASE request[r].minute = "this"
            BY <3>2, <4>2, <6>1
          <6>2. CASE request[r].minute = "last"
            BY <3>2, <6>2 DEF LimiterInv
          <6>3. QED
            BY <3>1, <6>1, <6>2 DEF RequestStates, Minutes
        <5>2. Passed(t)' \in SUBSET Passed(t)
          BY <3>4, <5>1 DEF Passed
        <5>3. Cardinality(Passed(t)') <= Cardinality(Passed(t))
          BY <5>2, PassedBound, FS_Subset
        <5>4. admitted[t] \in Nat /\ admitted[t] + Cardinality(Passed(t)) <= AdmittedCap
          BY <1>0 DEF LimiterInv
        <5>5. QED
          BY <5>3, <5>4, CapType, PassedBound, PassedBoundNext
      <4>3. QED
        BY <4>1, <4>2
    <3>7. LimiterTypeOK'
      BY <1>0, <3>1, <3>4 DEF LimiterTypeOK, RequestStates
    <3>8. QED
      BY <3>1, <3>5, <3>6, <3>7 DEF LimiterInv
  <2>4. QED
    BY <2>1, <2>2, <2>3
<1>8. ASSUME NEW r \in Requests, SetBlock(r) PROVE LimiterInv'
  BY <1>1, <1>3, <1>8 DEF SetBlock
<1>9. ASSUME NEW r \in Requests, Increment(r) PROVE LimiterInv'
  <2>1. PICK s \in Servers :
            /\ Incremented(r, s)
            /\ admitted' = IF request[r].read = s THEN [admitted EXCEPT ![s] = @ + 1] ELSE admitted
    BY <1>9 DEF Increment
  <2>2. Answer(r, "answer") /\ request[r].pc = "increment" /\ block' = block
    BY <1>9 DEF Increment
  <2>3. /\ count' \in [Servers -> 0..Limit] /\ \A t \in Servers : count[t] <= count'[t]
        /\ request[r].minute = "this" => count'[s] = Limit \/ count'[s] = count[s] + 1
    BY <1>0, <2>1, IncrementedEffect
  <2>4. admitted' \in [Servers -> Nat]
    BY <1>0, <2>1
  <2>5. ASSUME NEW t \in Servers
        PROVE  \/ admitted'[t] = admitted[t]
               \/ /\ r \in Passed(t) /\ admitted'[t] = admitted[t] + 1
                  /\ count'[t] = Limit \/ count'[t] = count[t] + 1
    <3>1. CASE request[r].read = s /\ t = s
      <4>1. r \in Passed(t) /\ admitted'[t] = admitted[t] + 1
        BY <1>0, <2>1, <2>2, <3>1 DEF Passed
      <4>2. request[r].minute = "this"
        <5>1. request[r].minute \in {"this", "last"} /\ request[r].read # "none"
          BY <1>0, <3>1 DEF RequestStates, Minutes
        <5>2. QED
          BY <5>1 DEF LimiterInv
      <4>3. QED
        BY <2>3, <3>1, <4>1, <4>2
    <3>2. CASE ~(request[r].read = s /\ t = s)
      BY <1>0, <2>1, <3>2
    <3>3. QED
      BY <3>1, <3>2
  <2>6. /\ request' \in [Requests -> RequestStates] /\ request'[r].pc = "answer" /\ request'[r].read = "none"
        /\ \A q \in Requests \ {r} : request'[q] = request[q]
    BY <1>0, <2>2, AnswerEffect
  <2>7. QED
    BY <1>0, <2>2, <2>3, <2>4, <2>5, <2>6, CountStep
<1>10. ASSUME NEW r \in Requests, RedisError(r) PROVE LimiterInv'
  <2>1. Answer(r, "answer") /\ admitted' = admitted
    BY <1>10 DEF RedisError
  <2>2. block' \in [Servers -> 0..BlockTicks]
    BY <1>0, <1>1, <1>10 DEF RedisError
  <2>3. count' = count \/ \E s \in Servers : Incremented(r, s)
    BY <1>10 DEF RedisError
  <2>4. count' \in [Servers -> 0..Limit] /\ \A t \in Servers : count[t] <= count'[t]
    BY <1>0, <1>2, <2>3, IncrementedEffect
  <2>5. /\ request' \in [Requests -> RequestStates] /\ request'[r].pc = "answer" /\ request'[r].read = "none"
        /\ \A q \in Requests \ {r} : request'[q] = request[q]
    BY <1>0, <2>1, AnswerEffect
  <2>6. QED
    BY <1>0, <2>1, <2>2, <2>4, <2>5, CountStep
<1>11. ASSUME NEW r \in Requests, Finish(r) PROVE LimiterInv'
  <2>1. Answer(r, "idle") /\ UNCHANGED <<count, block, admitted>>
    <3>1. [Idle EXCEPT !.pc = "idle"] = Idle
      BY DEF Idle
    <3>2. QED
      BY <1>11, <3>1 DEF Finish, Answer
  <2>2. QED
    BY <1>0, <1>3, <2>1
<1>12. CASE LimiterTick
  <2>1. UNCHANGED <<request, count, admitted>>
    BY <1>12 DEF LimiterTick
  <2>2. block' \in [Servers -> 0..BlockTicks]
    <3>1. \A s \in Servers : block[s] \in 0..BlockTicks
      BY <1>0
    <3>2. \A s \in Servers : (IF block[s] > 0 THEN block[s] - 1 ELSE 0) \in 0..BlockTicks
      BY <3>1
    <3>3. QED
      BY <1>12, <3>2 DEF LimiterTick
  <2>3. LimiterTypeOK' /\ \A s : Passed(s)' = Passed(s)
    BY <1>0, <2>1, <2>2 DEF LimiterTypeOK, RequestStates, Passed
  <2>4. QED
    BY <2>1, <2>3 DEF LimiterInv
<1>13. CASE NextMinute
  <2>1. ASSUME NEW r \in Requests
        PROVE  /\ request'[r] \in RequestStates
               /\ request'[r].minute = "last" => request'[r].read = "none"
               /\ request'[r].pc = "increment" => request'[r].read = "none"
    <3>1. request[r] \in RequestStates /\ request[r].minute = "this"
      BY <1>0, <1>13 DEF NextMinute
    <3>2. request'[r] = IF Deciding(r) THEN [request[r] EXCEPT !.minute = "last", !.read = "none"] ELSE request[r]
      BY <1>13 DEF NextMinute
    <3>3. CASE Deciding(r)
      BY <3>1, <3>2, <3>3 DEF RequestStates, Minutes
    <3>4. CASE ~Deciding(r)
      BY <3>1, <3>2, <3>4 DEF Deciding
    <3>5. QED
      BY <3>3, <3>4
  <2>2. request' \in [Requests -> RequestStates]
    <3>1. request' = [r \in Requests |-> request'[r]]
      BY <1>13 DEF NextMinute
    <3>2. QED
      BY <2>1, <3>1
  <2>3. block' = block /\ count' = [s \in Servers |-> 0] /\ admitted' = [s \in Servers |-> 0]
    BY <1>13 DEF NextMinute
  <2>4. ASSUME NEW s \in Servers PROVE Cardinality(Passed(s)') = 0
    <3>1. Passed(s)' = {}
      BY <2>1 DEF Passed
    <3>2. QED
      BY <3>1, FS_EmptySet
  <2>5. LimiterTypeOK'
    BY <1>0, <2>2, <2>3 DEF LimiterTypeOK, RequestStates
  <2>6. ASSUME NEW s \in Servers
        PROVE  admitted'[s] <= count'[s] /\ admitted'[s] + Cardinality(Passed(s)') <= AdmittedCap
    BY <2>3, <2>4, CapType
  <2>7. AdmittedCap' = AdmittedCap
    BY DEF AdmittedCap
  <2>8. QED
    BY <2>1, <2>5, <2>6, <2>7 DEF LimiterInv
<1>14. CASE UNCHANGED limiter
  BY <1>14 DEF limiter, LimiterInv, LimiterTypeOK, Passed
<1>15. QED
  BY <1>5, <1>6, <1>7, <1>8, <1>9, <1>10, <1>11, <1>12, <1>13, <1>14 DEF RequestStep, TimeStep

LEMMA LimiterNext == LimiterInv /\ [Next]_vars => LimiterInv'
<1> SUFFICES ASSUME LimiterInv, [Next]_vars PROVE LimiterInv'
  OBVIOUS
<1>1. (\E r \in Requests : Begin(r) \/ RequestStep(r)) \/ TimeStep \/ UNCHANGED limiter
  BY DEF Next, vars
<1>2. QED
  BY <1>1, LimiterStep

\* However many requests read the counter of a server before any of them increments it,
\* it lets through in a minute no more that are counted there than the limit and one less
\* than the requests served at a time.  Nothing is said of requests that a Redis error
\* lets through, nor of those counted on another server than the one they read.
THEOREM LimitHolds == Spec => []WithinLimit
<1>1. Init => LimiterInv
  BY InitLimiter DEF Init
<1>2. LimiterInv => WithinLimit
  <2> SUFFICES ASSUME LimiterInv, NEW s \in Servers PROVE admitted[s] <= AdmittedCap
    BY DEF WithinLimit
  <2>1. admitted[s] \in Nat /\ admitted[s] + Cardinality(Passed(s)) <= AdmittedCap
    BY LimiterTypes DEF LimiterInv
  <2>2. QED
    BY <2>1, CapType, PassedBound
<1>3. QED
  BY <1>1, <1>2, LimiterNext, PTL DEF Spec

-----------------------------------------------------------------------------
(***************************************************************************)
(* The tomb.                                                               *)
(***************************************************************************)
LEMMA AliveCount ==
    /\ IsFiniteSet(AliveTasks) /\ Cardinality(AliveTasks) \in Nat
    /\ AliveTasks # {} => Cardinality(AliveTasks) # 0
<1>1. AliveTasks \in SUBSET Tasks
  BY DEF AliveTasks
<1>2. IsFiniteSet(AliveTasks)
  BY <1>1, FS_Subset
<1>3. QED
  BY <1>2, FS_CardinalityType, FS_EmptySet

\* Without a goroutine no task is alive, and no server.
LEMMA NoneAlive ==
    ASSUME TombInv, tomb.alive = 0
    PROVE  AliveTasks = {} /\ http \notin {"listening", "closed"}
<1>1. Cardinality(AliveTasks) = 0 /\ http \notin {"listening", "closed"}
  BY AliveCount DEF TombInv
<1>2. QED
  BY <1>1, AliveCount

LEMMA InitTomb == Init => TombInv
<1> SUFFICES ASSUME Init PROVE TombInv
  OBVIOUS
<1>1. AliveTasks = {}
  BY DEF Init, AliveTasks, Alive
<1>2. Cardinality(AliveTasks) = 0
  BY <1>1, FS_EmptySet
<1>3. QED
  BY <1>2 DEF Init, TombInv

\* A task that ends, of the four kinds.
LEMMA EndsTomb ==
    ASSUME TombInv, NEW t \in Tasks, task[t] \in Alive, NEW failed \in BOOLEAN, Ends(t, failed)
    PROVE  TombInv'
<1>0. /\ task \in [Tasks -> Alive \cup {"new", "ended"}]
      /\ tomb \in [alive : Nat, dying : BOOLEAN, dead : BOOLEAN]
      /\ tomb.alive = Cardinality(AliveTasks) + (IF http \in {"listening", "closed"} THEN 1 ELSE 0)
  BY DEF TombInv
<1>1. task' = [task EXCEPT ![t] = "ended"] /\ http' = http
  BY DEF Ends
<1>2. tomb' = [alive |-> tomb.alive - 1, dying |-> tomb.dying \/ failed \/ tomb.alive = 1, dead |-> tomb.alive = 1]
  BY DEF Ends, Returned
<1>3. AliveTasks' = AliveTasks \ {t} /\ t \in AliveTasks
  BY <1>0, <1>1 DEF AliveTasks, Alive
<1>4. Cardinality(AliveTasks \ {t}) = Cardinality(AliveTasks) - 1 /\ Cardinality(AliveTasks) \in Nat \ {0}
  BY <1>3, AliveCount, FS_RemoveElement
<1>5. tomb.alive \in Nat /\ tomb.alive - 1 \in Nat
  BY <1>0, <1>4
<1>6. tomb' \in [alive : Nat, dying : BOOLEAN, dead : BOOLEAN]
  <2>1. (tomb.dying \/ failed \/ tomb.alive = 1) \in BOOLEAN /\ (tomb.alive = 1) \in BOOLEAN
    BY <1>0
  <2>2. QED
    BY <1>2, <1>5, <2>1
<1>7. /\ tomb'.alive = tomb.alive - 1
      /\ tomb'.dead => tomb'.alive = 0
  <2>1. tomb'.alive = tomb.alive - 1 /\ tomb'.dead = (tomb.alive = 1)
    BY <1>2, Zenon
  <2>2. tomb.alive = 1 => tomb.alive - 1 = 0
    OBVIOUS
  <2>3. tomb.alive = 1 => tomb'.alive = 0
    BY <2>1, <2>2
  <2>4. tomb'.dead => tomb'.alive = 0
    BY <2>1, <2>3, Zenon
  <2>5. QED
    BY <1>5, <2>1, <2>4
<1>8. tomb'.alive = Cardinality(AliveTasks') + (IF http' \in {"listening", "closed"} THEN 1 ELSE 0)
  BY <1>0, <1>1, <1>3, <1>4, <1>7
<1>9. task' \in [Tasks -> Alive \cup {"new", "ended"}]
  BY <1>0, <1>1
<1>10. QED
  BY <1>1, <1>6, <1>7, <1>8, <1>9 DEF TombInv

\* The server ends.
LEMMA ServerTomb ==
    ASSUME TombInv, http \in {"listening", "closed"}, http' = "ended", task' = task,
           NEW failed \in BOOLEAN, Returned(failed)
    PROVE  TombInv'
<1>0. /\ tomb \in [alive : Nat, dying : BOOLEAN, dead : BOOLEAN]
      /\ tomb.alive = Cardinality(AliveTasks) + 1
  BY DEF TombInv
<1>1. tomb' = [alive |-> tomb.alive - 1, dying |-> tomb.dying \/ failed \/ tomb.alive = 1, dead |-> tomb.alive = 1]
  BY DEF Returned
<1>2. tomb.alive - 1 = Cardinality(AliveTasks) /\ Cardinality(AliveTasks) \in Nat
  BY <1>0, AliveCount
<1>3. tomb' \in [alive : Nat, dying : BOOLEAN, dead : BOOLEAN]
  <2>1. (tomb.dying \/ failed \/ tomb.alive = 1) \in BOOLEAN /\ (tomb.alive = 1) \in BOOLEAN
    BY <1>0
  <2>2. QED
    BY <1>1, <1>2, <2>1
<1>4. AliveTasks' = AliveTasks
  BY DEF AliveTasks
<1>5. tomb'.alive = Cardinality(AliveTasks) /\ (tomb'.dead => tomb'.alive = 0)
  <2>1. tomb'.alive = tomb.alive - 1 /\ tomb'.dead = (tomb.alive = 1)
    BY <1>1, Zenon
  <2>2. tomb.alive = 1 => tomb.alive - 1 = 0
    OBVIOUS
  <2>3. tomb.alive = 1 => tomb'.alive = 0
    BY <2>1, <2>2
  <2>4. tomb'.dead => tomb'.alive = 0
    BY <2>1, <2>3, Zenon
  <2>5. QED
    BY <1>0, <1>2, <2>1, <2>4
<1>6. tomb'.alive = Cardinality(AliveTasks') + (IF http' \in {"listening", "closed"} THEN 1 ELSE 0)
  BY <1>2, <1>4, <1>5
<1>7. QED
  BY <1>3, <1>5, <1>6 DEF TombInv

LEMMA TombStep == TombInv /\ PhaseInv /\ [Next]_vars => TombInv'
<1> SUFFICES ASSUME TombInv, PhaseInv, [Next]_vars PROVE TombInv'
  OBVIOUS
<1>0. /\ task \in [Tasks -> Alive \cup {"new", "ended"}] /\ tomb \in [alive : Nat, dying : BOOLEAN, dead : BOOLEAN]
      /\ http \in {"new", "listening", "closed", "ended"}
      /\ tomb.alive = Cardinality(AliveTasks) + (IF http \in {"listening", "closed"} THEN 1 ELSE 0)
      /\ tomb.dead => tomb.alive = 0
  BY DEF TombInv
<1>1. ASSUME UNCHANGED tracked PROVE TombInv'
  BY <1>1 DEF tracked, TombInv, AliveTasks
\* A goroutine more.
<1>2. ASSUME Started
      PROVE  /\ tomb' \in [alive : Nat, dying : BOOLEAN, dead : BOOLEAN]
             /\ tomb'.alive = tomb.alive + 1 /\ tomb'.dead = tomb.dead
  BY <1>0, <1>2 DEF Started
<1>3. ASSUME NEW t \in Tasks, StartTask(t) PROVE TombInv'
  <2>1. CASE tomb.dead
    BY <1>1, <1>3, <2>1 DEF StartTask, Panic
  <2>2. CASE ~tomb.dead
    <3>1. PICK kind \in Alive : task' = [task EXCEPT ![t] = kind]
      BY <1>3, <2>2 DEF StartTask
    <3>2. Started /\ http' = http /\ task[t] = "new"
      BY <1>3, <2>2 DEF StartTask
    <3>3. AliveTasks' = AliveTasks \cup {t} /\ t \notin AliveTasks
      BY <1>0, <3>1, <3>2 DEF AliveTasks, Alive
    <3>4. Cardinality(AliveTasks \cup {t}) = Cardinality(AliveTasks) + 1 /\ Cardinality(AliveTasks) \in Nat
      BY <3>3, AliveCount, FS_AddElement
    <3>5. tomb'.alive = Cardinality(AliveTasks') + (IF http' \in {"listening", "closed"} THEN 1 ELSE 0)
      BY <1>0, <1>2, <3>2, <3>3, <3>4
    <3>6. task' \in [Tasks -> Alive \cup {"new", "ended"}]
      BY <1>0, <3>1
    <3>7. QED
      BY <1>0, <1>2, <2>2, <3>2, <3>5, <3>6 DEF TombInv
  <2>3. QED
    BY <1>0, <2>1, <2>2
<1>4. ASSUME NEW t \in Tasks, Subscribed(t) PROVE TombInv'
  <2>1. task' = [task EXCEPT ![t] = "waiting"] /\ task[t] = "subscribing" /\ UNCHANGED <<http, tomb>>
    BY <1>4 DEF Subscribed
  <2>2. AliveTasks' = AliveTasks /\ task' \in [Tasks -> Alive \cup {"new", "ended"}]
    BY <1>0, <2>1 DEF AliveTasks, Alive
  <2>3. QED
    BY <2>1, <2>2 DEF TombInv
<1>5. ASSUME NEW t \in Tasks, TaskEnds(t) \/ TaskStops(t) PROVE TombInv'
  <2>1. task[t] \in Alive /\ \E failed \in BOOLEAN : Ends(t, failed)
    BY <1>5 DEF TaskEnds, TaskStops, Alive
  <2>2. QED
    BY <2>1, EndsTomb
<1>6. ASSUME Run PROVE TombInv'
  <2>1. CASE tomb.dead
    BY <1>1, <1>6, <2>1 DEF Run, Panic
  <2>2. CASE ~tomb.dead
    <3>0. http = "new"
      BY <1>6 DEF Run, PhaseInv
    <3>1. Started /\ http' = "listening" /\ task' = task
      BY <1>6, <2>2 DEF Run
    <3>2. AliveTasks' = AliveTasks
      BY <3>1 DEF AliveTasks
    <3>3. tomb'.alive = Cardinality(AliveTasks') + (IF http' \in {"listening", "closed"} THEN 1 ELSE 0)
      BY <1>0, <1>2, <3>0, <3>1, <3>2, AliveCount
    <3>4. QED
      BY <1>0, <1>2, <2>2, <3>1, <3>3 DEF TombInv
  <2>3. QED
    BY <2>1, <2>2
<1>7. ASSUME ServerFails \/ ServerReturns PROVE TombInv'
  BY <1>7, ServerTomb DEF ServerFails, ServerReturns
<1>8. ASSUME Signal PROVE TombInv'
  <2>1. /\ task' = task /\ tomb' = [tomb EXCEPT !.dying = TRUE]
        /\ http' = IF http = "listening" THEN "closed" ELSE http
    BY <1>8 DEF Signal
  <2>2. /\ tomb' \in [alive : Nat, dying : BOOLEAN, dead : BOOLEAN]
        /\ tomb'.alive = tomb.alive /\ tomb'.dead = tomb.dead
    BY <1>0, <2>1
  <2>3. AliveTasks' = AliveTasks
    BY <2>1 DEF AliveTasks
  <2>4. QED
    BY <1>0, <2>1, <2>2, <2>3 DEF TombInv
\* The others leave the three variables alone.
<1>9. QED
  BY <1>1, <1>3, <1>4, <1>5, <1>6, <1>7, <1>8
     DEF Next, ProcessStep, NewStep, ShutdownStep, TaskStep, vars, process, tracked, Create, Lacks, DatabaseFails,
       ConfigFails, NewReturns, Drained, DrainTimesOut, CleanedUp, Wait, CloseLast, Exit

-----------------------------------------------------------------------------
(***************************************************************************)
(* The phases of the main goroutine.                                       *)
(***************************************************************************)
LEMMA InitPhase == Init => PhaseInv
<1> SUFFICES ASSUME Init PROVE PhaseInv
  OBVIOUS
<1>1. InFlight = {}
  BY DEF Init, LimiterInit, InFlight, Idle
<1>2. QED
  BY <1>1 DEF Init, PhaseInv, ServesRequests, Phases

LEMMA EnterEffect ==
    ASSUME main \in [pc : Phases, at : Nat], NEW pc \in Phases, Enter(pc)
    PROVE  main' \in [pc : Phases, at : Nat] /\ main'.pc = pc /\ main'.at = main.at
  BY DEF Enter

\* A request that is under way stays so or ends.
LEMMA RequestsEnd ==
    ASSUME LimiterInv, NEW r \in Requests, RequestStep(r)
    PROVE  InFlight' \subseteq InFlight
<1>1. request \in [Requests -> RequestStates] /\ request[r].pc # "idle"
  BY LimiterTypes DEF LimiterInv, RequestStep, CheckBlock, CheckCount, SetBlock, Increment, RedisError, Finish, Deciding
<1>2. \A q \in Requests \ {r} : request'[q] = request[q]
  BY <1>1 DEF RequestStep, CheckBlock, CheckCount, SetBlock, Increment, RedisError, Finish, Answer, Goto, Passes
<1>3. QED
  BY <1>1, <1>2 DEF InFlight

LEMMA PhaseStep ==
    LimiterInv /\ TombInv /\ PhaseInv /\ CloserInv /\ [Next]_vars => PhaseInv'
<1> SUFFICES ASSUME LimiterInv, TombInv, PhaseInv, CloserInv, [Next]_vars PROVE PhaseInv'
  OBVIOUS
<1>0. /\ main \in [pc : Phases, at : Nat] /\ late \in BOOLEAN
      /\ resource \in [Wanted -> {"none", "open", "closed"}]
      /\ http \in {"new", "listening", "closed", "ended"}
      /\ tomb.dead => tomb.alive = 0
      /\ task \in [Tasks -> Alive \cup {"new", "ended"}]
  BY DEF PhaseInv, CloserInv, TombInv
<1>1. tomb.alive = 0 => (\A t \in Tasks : task[t] \notin Alive) /\ http \notin {"listening", "closed"}
  BY NoneAlive DEF AliveTasks
<1>2. UNCHANGED limiter => InFlight' = InFlight
  BY DEF limiter, InFlight
\* In New nothing runs yet.
<1>3. ASSUME main.pc = "new", UNCHANGED <<tracked, late, limiter>>, main' \in [pc : Phases, at : Nat],
             main'.pc \in {"new", "close", "start"}, \A x \in Wanted : resource'[x] # "closed"
      PROVE  PhaseInv'
  <2>1. tomb.alive = 0 /\ (\A t \in Tasks : task[t] = "new") /\ http = "new" /\ InFlight = {}
    BY <1>3 DEF PhaseInv
  <2>2. tomb' = tomb /\ task' = task /\ http' = http /\ late' = late /\ InFlight' = InFlight
    BY <1>2, <1>3 DEF tracked
  <2>3. QED
    BY <1>0, <1>3, <2>1, <2>2 DEF PhaseInv, ServesRequests
<1>4. ASSUME NEW pc \in {"new", "close", "start"}, main.pc = "new",
             Enter(pc) \/ Proceed \/ main' = [main EXCEPT !.at = Len(Order) + 1] \/ main' = [pc |-> "start", at |-> 1]
      PROVE  main' \in [pc : Phases, at : Nat] /\ main'.pc \in {"new", "close", "start"}
  <2>1. Len(Order) \in Nat
    BY DEF CloserInv, Order, Part
  <2>2. QED
    BY <1>0, <1>4, <2>1 DEF Enter, Proceed, Phases
<1>5. ASSUME NEW x \in Wanted, Create(x) \/ Lacks(x), UNCHANGED limiter PROVE PhaseInv'
  <2>1. /\ main.pc = "new" /\ UNCHANGED <<tracked, late>> /\ (Proceed \/ Enter("close"))
        /\ resource' = [resource EXCEPT ![x] = "open"] \/ resource' = resource
    BY <1>5 DEF Create, Lacks, AtResource
  <2>2. \A y \in Wanted : resource'[y] # "closed"
    BY <1>0, <2>1 DEF PhaseInv
  <2>3. QED
    BY <1>3, <1>4, <1>5, <2>1, <2>2
<1>6. ASSUME "db" \in Wanted, DatabaseFails, UNCHANGED limiter PROVE PhaseInv'
  <2>1. /\ main.pc = "new" /\ UNCHANGED <<tracked, late>> /\ Enter("close")
        /\ resource' = [resource EXCEPT !["db"] = "open"]
    BY <1>6 DEF DatabaseFails, AtResource
  <2>2. \A y \in Wanted : resource'[y] # "closed"
    BY <1>0, <2>1 DEF PhaseInv
  <2>3. QED
    BY <1>3, <1>4, <1>6, <2>1, <2>2
<1>7. ASSUME ConfigFails \/ NewReturns, UNCHANGED limiter PROVE PhaseInv'
  <2>1. /\ main.pc = "new" /\ UNCHANGED <<tracked, late>> /\ resource' = resource
        /\ \/ Enter("close") \/ main' = [main EXCEPT !.at = Len(Order) + 1]
           \/ main' = [pc |-> "start", at |-> 1]
    BY <1>7 DEF ConfigFails, NewReturns
  <2>2. QED
    BY <1>3, <1>4, <1>7, <2>1 DEF PhaseInv
\* The panic of a tomb that is dead.
<1>8. ASSUME main.pc = "start", tomb.dead, Panic, UNCHANGED <<resource, late, limiter>> PROVE PhaseInv'
  <2>1. http = "new" /\ InFlight = {} /\ \A x \in Wanted : resource[x] # "closed"
    BY <1>8 DEF PhaseInv
  <2>2. /\ main' \in [pc : Phases, at : Nat] /\ main'.pc = "close"
        /\ tomb' = tomb /\ http' = http
    BY <1>0, <1>8, EnterEffect DEF Panic, tracked, Phases
  <2>3. QED
    BY <1>0, <1>2, <1>8, <2>1, <2>2 DEF PhaseInv, ServesRequests
<1>9. ASSUME NEW t \in Tasks, StartTask(t), UNCHANGED limiter PROVE PhaseInv'
  <2>1. CASE tomb.dead
    BY <1>8, <1>9, <2>1 DEF StartTask
  <2>2. CASE ~tomb.dead
    <3>1. main.pc = "start" /\ UNCHANGED <<main, http, resource, late>>
      BY <1>9, <2>2 DEF StartTask
    <3>2. QED
      BY <1>2, <1>9, <3>1 DEF PhaseInv
  <2>3. QED
    BY <2>1, <2>2
<1>10. ASSUME NEW t \in Tasks, Subscribed(t), UNCHANGED limiter PROVE PhaseInv'
  <2>1. main.pc # "new" /\ UNCHANGED <<main, http, tomb, resource, late>>
    BY <1>10 DEF Subscribed, PhaseInv
  <2>2. QED
    BY <1>2, <1>10, <2>1 DEF PhaseInv, ServesRequests
<1>11. ASSUME NEW t \in Tasks, TaskEnds(t) \/ TaskStops(t), UNCHANGED limiter PROVE PhaseInv'
  <2>1. task[t] \in Alive /\ UNCHANGED <<main, http, resource, late>>
    BY <1>11 DEF TaskEnds, TaskStops, Ends, Alive
  <2>2. tomb.alive # 0
    BY <1>1, <2>1
  <2>3. main.pc \notin {"new", "close", "exited"}
    BY <2>2 DEF PhaseInv
  <2>4. QED
    BY <1>2, <1>11, <2>1, <2>3 DEF PhaseInv, ServesRequests
<1>12. ASSUME Run, UNCHANGED limiter PROVE PhaseInv'
  <2>1. CASE tomb.dead
    BY <1>8, <1>12, <2>1 DEF Run
  <2>2. CASE ~tomb.dead
    <3>1. main.pc = "start" /\ http' = "listening" /\ Enter("run") /\ UNCHANGED <<resource, late>>
      BY <1>12, <2>2 DEF Run
    <3>2. main' \in [pc : Phases, at : Nat] /\ main'.pc = "run"
      BY <1>0, <3>1, EnterEffect DEF Phases
    <3>3. QED
      BY <1>0, <3>1, <3>2 DEF PhaseInv
  <2>3. QED
    BY <2>1, <2>2
<1>13. ASSUME ServerFails \/ ServerReturns, UNCHANGED limiter PROVE PhaseInv'
  <2>1. http \in {"listening", "closed"} /\ http' = "ended" /\ UNCHANGED <<main, resource, late>>
    BY <1>13 DEF ServerFails, ServerReturns
  <2>2. tomb.alive # 0
    BY <1>1, <2>1
  <2>3. main.pc \notin {"new", "start", "close", "exited"}
    BY <2>1, <2>2 DEF PhaseInv
  <2>4. QED
    BY <1>2, <1>13, <2>1, <2>3 DEF PhaseInv, ServesRequests
<1>14. ASSUME Signal, UNCHANGED limiter PROVE PhaseInv'
  <2>1. /\ main.pc = "run" /\ Enter("drain") /\ UNCHANGED <<resource, late>>
        /\ http' = IF http = "listening" THEN "closed" ELSE http
    BY <1>14 DEF Signal
  <2>2. main' \in [pc : Phases, at : Nat] /\ main'.pc = "drain"
    BY <1>0, <2>1, EnterEffect DEF Phases
  <2>3. QED
    BY <1>0, <1>2, <1>14, <2>1, <2>2 DEF PhaseInv
\* The server has stopped listening; main goes on.
<1>15. ASSUME NEW pc \in {"cleanup", "wait", "close", "exited"}, Enter(pc), UNCHANGED <<tracked, limiter>>,
              main.pc \in {"drain", "cleanup", "wait", "close"}, late' \in BOOLEAN, ~ServesRequests',
              pc \in {"close", "exited"} => tomb.alive = 0, UNCHANGED resource,
              pc \in {"cleanup", "wait"} => main.pc # "close"
       PROVE  PhaseInv'
  <2>1. main' \in [pc : Phases, at : Nat] /\ main'.pc = pc
    BY <1>0, <1>15, EnterEffect DEF Phases
  <2>2. tomb' = tomb /\ http' = http /\ task' = task /\ InFlight' = InFlight /\ resource' = resource
    BY <1>2, <1>15 DEF tracked
  <2>3. http # "listening" /\ (http = "new" => InFlight = {})
    BY <1>15 DEF PhaseInv
  <2>4. main.pc # "close" => \A x \in Wanted : resource[x] # "closed"
    BY <1>15 DEF PhaseInv
  <2>5. QED
    BY <1>15, <2>1, <2>2, <2>3, <2>4 DEF PhaseInv
<1>16. ASSUME Drained \/ DrainTimesOut, UNCHANGED limiter PROVE PhaseInv'
  <2>1. /\ Enter("cleanup") /\ UNCHANGED <<tracked, limiter, resource>> /\ main.pc = "drain"
        /\ (InFlight = {} /\ late' = late) \/ late' = TRUE
    BY <1>16 DEF Drained, DrainTimesOut
  <2>2. late' \in BOOLEAN /\ ~ServesRequests'
    BY <1>0, <1>2, <1>16, <2>1 DEF ServesRequests
  <2>3. QED
    BY <1>15, <2>1, <2>2
<1>17. ASSUME CleanedUp \/ Wait \/ Exit, UNCHANGED limiter PROVE PhaseInv'
  <2>1. ~ServesRequests'
    BY <1>2, <1>17 DEF CleanedUp, Wait, Exit, PhaseInv, ServesRequests
  <2>2. CASE CleanedUp
    BY <1>0, <1>15, <1>17, <2>1, <2>2 DEF CleanedUp
  <2>3. CASE Wait
    BY <1>0, <1>15, <1>17, <2>1, <2>3 DEF Wait
  <2>4. CASE Exit
    <3>1. tomb.alive = 0
      BY <2>4 DEF Exit, PhaseInv
    <3>2. QED
      BY <1>0, <1>15, <1>17, <2>1, <2>4, <3>1 DEF Exit
  <2>5. QED
    BY <1>17, <2>2, <2>3, <2>4
<1>18. ASSUME CloseLast, UNCHANGED limiter PROVE PhaseInv'
  <2>1. main.pc = "close" /\ UNCHANGED <<main, tracked, late>>
    BY <1>18 DEF CloseLast
  <2>2. QED
    BY <1>2, <1>18, <2>1 DEF PhaseInv, ServesRequests, tracked
\* Requests, and the clock of the limiter.
<1>19. ASSUME UNCHANGED process, http = "listening" \/ InFlight' \subseteq InFlight PROVE PhaseInv'
  <2>1. UNCHANGED <<main, resource, task, http, tomb, late>>
    BY <1>19 DEF process, tracked
  <2>2. http = "new" \/ ~ServesRequests => http = "listening" \/ InFlight' \subseteq InFlight
    BY <1>19
  <2>3. main.pc \in {"cleanup", "wait", "close", "exited"} => ~ServesRequests'
    <3>1. main.pc \in {"cleanup", "wait", "close", "exited"} => http # "listening" /\ ~ServesRequests
      BY DEF PhaseInv
    <3>2. QED
      BY <1>19, <2>1, <3>1 DEF ServesRequests
  <2>4. http = "new" => InFlight' = {}
    BY <1>19 DEF PhaseInv
  <2>5. QED
    BY <2>1, <2>3, <2>4 DEF PhaseInv
<1>20. CASE UNCHANGED vars
  <2>1. UNCHANGED process /\ InFlight' = InFlight
    BY <1>2, <1>20 DEF vars
  <2>2. QED
    BY <1>19, <2>1
<1>21. CASE Next
  <2>1. CASE ProcessStep /\ UNCHANGED limiter
    BY <1>5, <1>6, <1>7, <1>9, <1>10, <1>11, <1>12, <1>13, <1>14, <1>16, <1>17, <1>18, <2>1
       DEF ProcessStep, NewStep, ShutdownStep, TaskStep
  <2>2. CASE UNCHANGED process /\ (http = "listening" \/ \E r \in Requests : RequestStep(r))
    <3>1. http = "listening" \/ InFlight' \subseteq InFlight
      BY <2>2, RequestsEnd
    <3>2. QED
      BY <1>19, <2>2, <3>1
  <2>3. QED
    BY <1>21, <2>1, <2>2 DEF Next
<1>22. QED
  BY <1>20, <1>21

-----------------------------------------------------------------------------
(***************************************************************************)
(* The closers.                                                            *)
(***************************************************************************)
LEMMA RankFacts ==
    /\ \A x \in Wanted : Rank[x] \in 1..4
    /\ \A x, y \in Wanted : Rank[x] = Rank[y] => x = y
  BY DEF Rank

\* A sequence of resources in the order of New, up to the n-th of them.
Ascending(s, n) ==
    /\ s \in Seq(Wanted)
    /\ \A i \in 1..Len(s) : Rank[s[i]] <= n
    /\ \A i, j \in 1..Len(s) : i < j => Rank[s[i]] < Rank[s[j]]

LEMMA PartAscends ==
    ASSUME NEW s, NEW x \in {"db", "pub", "sub", "audit"}, Ascending(s, Rank[x] - 1)
    PROVE  Ascending(s \o Part(x), Rank[x])
<1>0. /\ s \in Seq(Wanted) /\ Len(s) \in Nat /\ Rank[x] \in 1..4
      /\ \A i \in 1..Len(s) : s[i] \in Wanted /\ Rank[s[i]] \in 1..4 /\ Rank[s[i]] <= Rank[x] - 1
      /\ \A i, j \in 1..Len(s) : i < j => Rank[s[i]] < Rank[s[j]]
  <2>1. s \in Seq(Wanted) /\ Len(s) \in Nat /\ Rank[x] \in 1..4
    BY DEF Ascending, Rank
  <2>2. \A i \in 1..Len(s) : s[i] \in Wanted
    BY <2>1, ElementOfSeq
  <2>3. QED
    BY <2>1, <2>2, RankFacts DEF Ascending
<1>1. CASE x \in Wanted
  <2> DEFINE t == s \o <<x>>
  <2>1. <<x>> \in Seq(Wanted) /\ Len(<<x>>) = 1 /\ <<x>>[1] = x
    BY <1>1
  <2>2. /\ t \in Seq(Wanted) /\ Len(t) = Len(s) + 1
        /\ \A i \in 1..(Len(s) + 1) : t[i] = IF i <= Len(s) THEN s[i] ELSE <<x>>[i - Len(s)]
    BY <1>0, <2>1, ConcatProperties
  <2>3. t[Len(s) + 1] = x /\ \A i \in 1..Len(s) : t[i] = s[i]
    BY <1>0, <2>1, <2>2
  <2>4. Part(x) = <<x>>
    BY <1>1 DEF Part
  <2> HIDE DEF t
  <2>5. \A i \in 1..Len(t) : i = Len(s) + 1 \/ i \in 1..Len(s)
    BY <1>0, <2>2
  <2>6. \A i \in 1..Len(t) : Rank[t[i]] <= Rank[x]
    BY <1>0, <2>3, <2>5
  <2>7. \A i, j \in 1..Len(t) : i < j => Rank[t[i]] < Rank[t[j]]
    <3> SUFFICES ASSUME NEW i \in 1..Len(t), NEW j \in 1..Len(t), i < j PROVE Rank[t[i]] < Rank[t[j]]
      OBVIOUS
    <3>1. i \in 1..Len(s)
      BY <1>0, <2>2
    <3>2. CASE j = Len(s) + 1
      BY <1>0, <2>3, <3>1, <3>2
    <3>3. CASE j \in 1..Len(s)
      BY <1>0, <2>3, <3>1, <3>3
    <3>4. QED
      BY <2>5, <3>2, <3>3
  <2>8. QED
    BY <2>2, <2>4, <2>6, <2>7 DEF Ascending, t
<1>2. CASE x \notin Wanted
  <2>1. Part(x) = <<>>
    BY <1>2 DEF Part
  <2>2. s \o <<>> = s
    BY <1>0, ConcatEmptySeq
  <2>3. \A i \in 1..Len(s) : Rank[s[i]] <= Rank[x]
    BY <1>0
  <2>4. QED
    BY <1>0, <2>1, <2>2, <2>3 DEF Ascending
<1>3. QED
  BY <1>1, <1>2

LEMMA OrderFacts ==
    /\ Order \in Seq(Wanted) /\ Len(Order) \in Nat
    /\ \A i \in 1..Len(Order) : Order[i] \in Wanted
    /\ \A i, j \in 1..Len(Order) : i < j => Rank[Order[i]] < Rank[Order[j]]
<1>1. Ascending(Part("db"), 1)
  BY DEF Ascending, Part, Rank
<1>2. Ascending(Part("db") \o Part("pub"), 2)
  BY <1>1, PartAscends DEF Rank
<1>3. Ascending(Part("db") \o Part("pub") \o Part("sub"), 3)
  BY <1>2, PartAscends DEF Rank
<1>4. Ascending(Order, 4)
  BY <1>3, PartAscends DEF Rank, Order
<1>5. QED
  BY <1>4, ElementOfSeq, LenProperties DEF Ascending

LEMMA InitCloser == Init => CloserInv
<1> SUFFICES ASSUME Init PROVE CloserInv
  OBVIOUS
<1>1. /\ closers = <<>> /\ closers \in Seq(Closable) /\ Len(closers) = 0
      /\ main = [pc |-> "new", at |-> 1]
      /\ resource = [x \in Wanted |-> "none"]
  BY DEF Init
<1>2. QED
  BY <1>1, OrderFacts DEF CloserInv, Closable

\* The part of CloserInv that is about the closers alone.
ClosersOpen ==
    /\ resource \in [Wanted -> {"none", "open", "closed"}]
    /\ closers \in Seq(Closable)
    /\ \A x \in Closable : resource[x] = "open" <=> \E k \in 1..Len(closers) : closers[k] = x
    /\ \A j, k \in 1..Len(closers) : j < k => Rank[closers[j]] < Rank[closers[k]]
    /\ \A x \in Closable : resource[x] = "closed" => \A k \in 1..Len(closers) : Rank[closers[k]] < Rank[x]

\* Creating the resource New is at.
LEMMA CreateEffect ==
    ASSUME PhaseInv, CloserInv, NEW x \in Wanted, AtResource(x), Track(x),
           resource' = [resource EXCEPT ![x] = "open"]
    PROVE  /\ ClosersOpen' /\ Len(closers') \in Nat /\ Len(closers') <= main.at
           /\ \A k \in 1..Len(closers'), j \in (main.at + 1)..Len(Order) : Rank[closers'[k]] < Rank[Order[j]]
<1> DEFINE n == Len(closers)
<1>0. /\ main.pc = "new" /\ main.at \in 1..Len(Order) /\ Order[main.at] = x
      /\ closers \in Seq(Closable) /\ n \in Nat /\ n < main.at
      /\ resource \in [Wanted -> {"none", "open", "closed"}]
      /\ \A k \in 1..n : closers[k] \in Closable
      /\ \A k \in 1..n, j \in main.at..Len(Order) : Rank[closers[k]] < Rank[Order[j]]
  <2>1. main.pc = "new" /\ main.at \in 1..Len(Order) /\ Order[main.at] = x
    BY OrderFacts DEF CloserInv, AtResource
  <2>2. closers \in Seq(Closable) /\ n \in Nat /\ \A k \in 1..n : closers[k] \in Closable
    BY ElementOfSeq, LenProperties DEF CloserInv
  <2>3. QED
    BY <2>1, <2>2 DEF CloserInv
<1>1. /\ \A y \in Closable : resource[y] = "open" <=> \E k \in 1..n : closers[k] = y
      /\ \A j, k \in 1..n : j < k => Rank[closers[j]] < Rank[closers[k]]
      /\ \A y \in Wanted : resource[y] # "closed"
  BY <1>0 DEF CloserInv, PhaseInv
<1>2. /\ \A y \in Wanted \ {x} : resource'[y] = resource[y]
      /\ resource'[x] = "open" /\ resource' \in [Wanted -> {"none", "open", "closed"}]
  BY <1>0
<1>3. CASE x = "audit"
  <2>1. closers' = closers
    BY <1>3 DEF Track
  <2>2. \A y \in Closable : resource'[y] = resource[y]
    BY <1>2, <1>3 DEF Closable
  <2>3. ClosersOpen'
    BY <1>0, <1>1, <1>2, <2>1, <2>2 DEF ClosersOpen, Closable
  <2>4. QED
    BY <1>0, <2>1, <2>3, OrderFacts
<1>4. CASE x # "audit"
  <2>1. closers' = Append(closers, x) /\ x \in Closable
    BY <1>4 DEF Track, Closable
  <2>2. /\ closers' \in Seq(Closable) /\ Len(closers') = n + 1
        /\ closers'[n + 1] = x /\ \A k \in 1..n : closers'[k] = closers[k]
    BY <1>0, <2>1, AppendProperties
  <2>3. \A k \in 1..Len(closers') : k \in 1..n \/ k = n + 1
    BY <1>0, <2>2
  <2>4. \A k \in 1..n : k \in 1..Len(closers')
    BY <1>0, <2>2
  <2>5. \A y \in Closable : resource'[y] = "open" <=> \E k \in 1..Len(closers') : closers'[k] = y
    <3> SUFFICES ASSUME NEW y \in Closable
                 PROVE  resource'[y] = "open" <=> \E k \in 1..Len(closers') : closers'[k] = y
      OBVIOUS
    <3>1. CASE y = x
      <4>1. n + 1 \in 1..Len(closers')
        BY <1>0, <2>2
      <4>2. QED
        BY <1>2, <2>2, <3>1, <4>1
    <3>2. CASE y # x
      <4>1. resource'[y] = resource[y]
        BY <1>2, <3>2 DEF Closable
      <4>2. (\E k \in 1..Len(closers') : closers'[k] = y) <=> (\E k \in 1..n : closers[k] = y)
        BY <2>2, <2>3, <2>4, <3>2
      <4>3. QED
        BY <1>1, <4>1, <4>2
    <3>3. QED
      BY <3>1, <3>2
  <2>6. \A j, k \in 1..Len(closers') : j < k => Rank[closers'[j]] < Rank[closers'[k]]
    <3> SUFFICES ASSUME NEW j \in 1..Len(closers'), NEW k \in 1..Len(closers'), j < k
                 PROVE  Rank[closers'[j]] < Rank[closers'[k]]
      OBVIOUS
    <3>1. j \in 1..n /\ closers'[j] = closers[j]
      BY <1>0, <2>2
    <3>2. CASE k \in 1..n
      BY <1>1, <2>2, <3>1, <3>2
    <3>3. CASE k = n + 1
      BY <1>0, <2>2, <3>1, <3>3
    <3>4. QED
      BY <2>3, <3>2, <3>3
  <2>7. \A y \in Closable : resource'[y] # "closed"
    BY <1>1, <1>2 DEF Closable
  <2>8. \A k \in 1..Len(closers'), j \in (main.at + 1)..Len(Order) : Rank[closers'[k]] < Rank[Order[j]]
    <3> SUFFICES ASSUME NEW k \in 1..Len(closers'), NEW j \in (main.at + 1)..Len(Order)
                 PROVE  Rank[closers'[k]] < Rank[Order[j]]
      OBVIOUS
    <3>1. j \in main.at..Len(Order) /\ j \in 1..Len(Order) /\ main.at < j
      BY <1>0, OrderFacts
    <3>2. CASE k \in 1..n
      BY <1>0, <2>2, <3>1, <3>2
    <3>3. CASE k = n + 1
      BY <1>0, <2>2, <3>1, <3>3, OrderFacts
    <3>4. QED
      BY <2>3, <3>2, <3>3
  <2>9. Len(closers') \in Nat /\ Len(closers') <= main.at
    BY <1>0, <2>2, OrderFacts
  <2>10. QED
    BY <1>2, <2>2, <2>5, <2>6, <2>7, <2>8, <2>9 DEF ClosersOpen
<1>5. QED
  BY <1>3, <1>4

LEMMA CloserStep ==
    PhaseInv /\ CloserInv /\ [Next]_vars => CloserInv'
<1> SUFFICES ASSUME PhaseInv, CloserInv, [Next]_vars PROVE CloserInv'
  OBVIOUS
<1> DEFINE n == Len(closers)
<1>0. /\ main \in [pc : Phases, at : Nat] /\ main.at \in 1..(Len(Order) + 1) /\ n \in Nat /\ n <= Len(Order)
      /\ ClosersOpen /\ Len(Order) \in Nat
      /\ \A k \in 1..n : closers[k] \in Closable
  <2>1. ClosersOpen
    BY DEF CloserInv, ClosersOpen
  <2>2. n \in Nat /\ \A k \in 1..n : closers[k] \in Closable
    BY <2>1, ElementOfSeq, LenProperties DEF ClosersOpen
  <2>3. QED
    BY <2>1, <2>2, OrderFacts DEF CloserInv, PhaseInv
\* In New, at the next resource or past it.
<1>1. ASSUME main.pc = "new", ClosersOpen', Len(closers') \in Nat, main.at \in 1..Len(Order), Len(closers') <= main.at,
             \A k \in 1..Len(closers'), j \in (main.at + 1)..Len(Order) : Rank[closers'[k]] < Rank[Order[j]],
             main' = [main EXCEPT !.at = main.at + 1] \/ Enter("close")
      PROVE  CloserInv'
  <2>1. CASE main' = [main EXCEPT !.at = main.at + 1]
    <3>1. main'.at = main.at + 1 /\ main'.pc = main.pc
      BY <1>0, <2>1
    <3>2. main'.at \in 1..(Len(Order) + 1) /\ Len(closers') <= Len(Order) /\ Len(closers') < main'.at
      BY <1>0, <1>1, <3>1
    <3>3. QED
      BY <1>1, <3>1, <3>2 DEF CloserInv, ClosersOpen
  <2>2. CASE Enter("close")
    <3>1. main'.at = main.at /\ main'.pc = "close"
      BY <1>0, <2>2 DEF Enter
    <3>2. Len(closers') <= Len(Order)
      BY <1>0, <1>1
    <3>3. QED
      BY <1>0, <1>1, <3>1, <3>2 DEF CloserInv, ClosersOpen
  <2>3. QED
    BY <1>1, <2>1, <2>2
\* Elsewhere the closers stay.
<1>2. ASSUME UNCHANGED <<resource, closers>>, main' = main \/ \E pc \in Phases \ {"new", "exited"} : Enter(pc)
      PROVE  CloserInv'
  <2>1. /\ main'.at = main.at
        /\ closers' = closers /\ resource' = resource
    BY <1>0, <1>2 DEF Enter
  <2>2. (main'.pc = "new" => main.pc = "new") /\ (main'.pc = "exited" => main.pc = "exited")
    BY <1>0, <1>2 DEF Enter
  <2>3. QED
    BY <1>0, <2>1, <2>2 DEF CloserInv
<1>3. ASSUME NEW x \in Wanted, Create(x) PROVE CloserInv'
  <2>1. /\ AtResource(x) /\ Track(x) /\ resource' = [resource EXCEPT ![x] = "open"]
        /\ main' = [main EXCEPT !.at = main.at + 1]
    BY <1>3 DEF Create, Proceed
  <2>2. main.pc = "new" /\ main.at \in 1..Len(Order)
    BY <1>0, <2>1 DEF AtResource
  <2>3. QED
    BY <1>1, <2>1, <2>2, CreateEffect
<1>4. ASSUME "db" \in Wanted, DatabaseFails PROVE CloserInv'
  <2>1. /\ AtResource("db") /\ Track("db") /\ resource' = [resource EXCEPT !["db"] = "open"] /\ Enter("close")
    BY <1>4 DEF DatabaseFails
  <2>2. main.pc = "new" /\ main.at \in 1..Len(Order)
    BY <1>0, <2>1 DEF AtResource
  <2>3. QED
    BY <1>1, <1>4, <2>1, <2>2, CreateEffect
<1>5. ASSUME NEW x \in Wanted, Lacks(x) PROVE CloserInv'
  <2>1. /\ UNCHANGED <<resource, closers>> /\ main.pc = "new" /\ main.at \in 1..Len(Order)
        /\ main' = [main EXCEPT !.at = main.at + 1] \/ Enter("close")
    BY <1>0, <1>5 DEF Lacks, AtResource, Proceed
  <2>2. ClosersOpen' /\ Len(closers') \in Nat /\ Len(closers') <= main.at
    <3>1. n < main.at
      BY <2>1 DEF CloserInv
    <3>2. QED
      BY <1>0, <2>1, <3>1 DEF ClosersOpen
  <2>3. \A k \in 1..Len(closers'), j \in (main.at + 1)..Len(Order) : Rank[closers'[k]] < Rank[Order[j]]
    <3>1. \A j \in (main.at + 1)..Len(Order) : j \in main.at..Len(Order)
      BY <1>0
    <3>2. QED
      BY <2>1, <3>1 DEF CloserInv
  <2>4. QED
    BY <1>1, <2>1, <2>2, <2>3
<1>6. ASSUME ConfigFails PROVE CloserInv'
  <2>1. /\ UNCHANGED <<resource, closers>>
        /\ main' = [main EXCEPT !.at = Len(Order) + 1] \/ Enter("close")
    BY <1>6 DEF ConfigFails
  <2>2. CASE main' = [main EXCEPT !.at = Len(Order) + 1]
    <3>1. main'.at = Len(Order) + 1 /\ main'.pc = main.pc
      BY <1>0, <2>2
    <3>2. /\ \A j \in (Len(Order) + 1)..Len(Order) : FALSE
          /\ Len(Order) + 1 \in 1..(Len(Order) + 1)
          /\ n < Len(Order) + 1
      BY <1>0
    <3>3. QED
      BY <1>0, <2>1, <3>1, <3>2 DEF CloserInv
  <2>3. CASE Enter("close")
    BY <1>2, <2>1, <2>3 DEF Phases
  <2>4. QED
    BY <2>1, <2>2, <2>3
<1>7. ASSUME NewReturns PROVE CloserInv'
  <2>1. UNCHANGED <<resource, closers>> /\ main' = [pc |-> "start", at |-> 1]
    BY <1>7 DEF NewReturns
  <2>2. main'.pc = "start" /\ main'.at \in 1..(Len(Order) + 1)
    BY <1>0, <2>1
  <2>3. QED
    BY <2>1, <2>2 DEF CloserInv
<1>8. ASSUME CloseLast PROVE CloserInv'
  <2>1. /\ main.pc = "close" /\ main' = main /\ n > 0
        /\ resource' = [resource EXCEPT ![closers[n]] = "closed"]
        /\ closers' = SubSeq(closers, 1, n - 1)
    BY <1>8 DEF CloseLast
  <2>2. n \in 1..n /\ closers[n] \in Closable
    BY <1>0, <2>1
  <2>3. /\ closers' \in Seq(Closable) /\ Len(closers') = n - 1
        /\ \A k \in 1..(n - 1) : closers'[k] = closers[k] /\ k \in 1..n
    <3>1. \A k \in 1..(n - 1) : closers[k] \in Closable /\ k \in 1..n
      BY <1>0
    <3>2. /\ SubSeq(closers, 1, n - 1) \in Seq(Closable)
          /\ Len(SubSeq(closers, 1, n - 1)) = IF 1 <= n - 1 THEN (n - 1) - 1 + 1 ELSE 0
          /\ \A k \in 1..((n - 1) - 1 + 1) : SubSeq(closers, 1, n - 1)[k] = closers[1 + k - 1]
      BY <1>0, <3>1, SubSeqProperties
    <3>3. (IF 1 <= n - 1 THEN (n - 1) - 1 + 1 ELSE 0) = n - 1 /\ (n - 1) - 1 + 1 = n - 1
      <4>1. \A i \in Nat : i > 0 => (IF 1 <= i - 1 THEN (i - 1) - 1 + 1 ELSE 0) = i - 1 /\ (i - 1) - 1 + 1 = i - 1
        OBVIOUS
      <4>2. n \in Nat /\ n > 0
        BY <1>0, <2>1
      <4>3. QED
        BY <4>1, <4>2
    <3>4. \A k \in 1..(n - 1) : 1 + k - 1 = k
      OBVIOUS
    <3>5. Len(closers') = n - 1 /\ \A k \in 1..(n - 1) : closers'[k] = closers[1 + k - 1]
      BY <2>1, <3>2, <3>3
    <3>6. closers' \in Seq(Closable)
      BY <2>1, <3>2
    <3>7. QED
      BY <3>1, <3>4, <3>5, <3>6
  <2> DEFINE last == closers[n]
  <2>4. /\ resource' \in [Wanted -> {"none", "open", "closed"}] /\ resource'[last] = "closed"
        /\ \A x \in Closable \ {last} : resource'[x] = resource[x]
    BY <1>0, <2>1, <2>2 DEF ClosersOpen, Closable
  <2>5. \A k \in 1..(n - 1) : Rank[closers[k]] < Rank[last]
    BY <1>0, <2>2, <2>3 DEF ClosersOpen
  <2>6. \A k \in 1..(n - 1) : closers[k] # last
    <3>1. Rank[last] \in 1..4
      BY <2>2, RankFacts DEF Closable
    <3>2. QED
      BY <2>5, <3>1
  <2> HIDE DEF last
  <2>7. \A x \in Closable : resource'[x] = "open" <=> \E k \in 1..(n - 1) : closers'[k] = x
    <3> SUFFICES ASSUME NEW x \in Closable
                 PROVE  resource'[x] = "open" <=> \E k \in 1..(n - 1) : closers'[k] = x
      OBVIOUS
    <3>1. CASE x = last
      BY <2>3, <2>4, <2>6, <3>1
    <3>2. CASE x # last
      <4>1. resource[x] = "open" <=> \E k \in 1..n : closers[k] = x
        BY <1>0 DEF ClosersOpen
      <4>2. (\E k \in 1..n : closers[k] = x) <=> (\E k \in 1..(n - 1) : closers[k] = x)
        <5>1. \A k \in 1..n : k = n \/ k \in 1..(n - 1)
          BY <1>0
        <5>2. closers[n] # x
          BY <3>2 DEF last
        <5>3. QED
          BY <2>3, <5>1, <5>2
      <4>3. QED
        BY <2>3, <2>4, <3>2, <4>1, <4>2
    <3>3. QED
      BY <3>1, <3>2
  <2>8. \A j, k \in 1..(n - 1) : j < k => Rank[closers'[j]] < Rank[closers'[k]]
    BY <1>0, <2>3 DEF ClosersOpen
  <2>9. \A x \in Closable : resource'[x] = "closed" => \A k \in 1..(n - 1) : Rank[closers'[k]] < Rank[x]
    BY <1>0, <2>3, <2>4, <2>5 DEF ClosersOpen
  <2>10. n - 1 <= Len(Order)
    BY <1>0
  <2>11. main'.pc = "close" /\ main'.at \in 1..(Len(Order) + 1)
    BY <1>0, <2>1
  <2>12. Len(closers') <= Len(Order) /\ 1..Len(closers') = 1..(n - 1)
    BY <2>3, <2>10
  <2> HIDE DEF n
  <2>13. QED
    BY <2>3, <2>4, <2>7, <2>8, <2>9, <2>11, <2>12 DEF CloserInv
<1>9. ASSUME Exit PROVE CloserInv'
  <2>1. UNCHANGED <<resource, closers>> /\ closers = <<>> /\ main'.pc = "exited" /\ main'.at = main.at
    BY <1>0, <1>9 DEF Exit, Enter
  <2>2. QED
    BY <2>1 DEF CloserInv
\* The others leave the closers alone and do not go back to New.
<1>10. ASSUME UNCHANGED <<main, resource, closers>> PROVE CloserInv'
  BY <1>2, <1>10
<1>11. ASSUME (\E t \in Tasks : StartTask(t)) \/ Run \/ Signal \/ Drained \/ DrainTimesOut \/ CleanedUp \/ Wait
       PROVE  CloserInv'
  <2>1. UNCHANGED <<resource, closers>> /\ (main' = main \/ \E pc \in Phases \ {"new", "exited"} : Enter(pc))
    BY <1>11 DEF StartTask, Panic, Run, Signal, Drained, DrainTimesOut, CleanedUp, Wait, Phases
  <2>2. QED
    BY <1>2, <2>1
<1>12. QED
  BY <1>3, <1>4, <1>5, <1>6, <1>7, <1>8, <1>9, <1>10, <1>11
     DEF Next, ProcessStep, NewStep, ShutdownStep, TaskStep, vars, process, Subscribed, TaskEnds, TaskStops, Ends,
       ServerFails, ServerReturns

-----------------------------------------------------------------------------
(***************************************************************************)
(* The theorems.                                                           *)
(***************************************************************************)
ServiceInv == LimiterInv /\ TombInv /\ PhaseInv /\ CloserInv

LEMMA ServiceInvariant == Spec => []ServiceInv
<1>1. Init => ServiceInv
  <2>1. Init => LimiterInv
    BY InitLimiter DEF Init
  <2>2. QED
    BY <2>1, InitTomb, InitPhase, InitCloser DEF ServiceInv
<1>2. ServiceInv /\ [Next]_vars => ServiceInv'
  BY LimiterNext, TombStep, PhaseStep, CloserStep DEF ServiceInv
<1>3. QED
  BY <1>1, <1>2, PTL DEF Spec

\* Goroutines, resources, closers and requests keep their types: the tomb counts exactly
\* the goroutines that are alive, and there are never more closers than resources.
THEOREM TypeCorrect == Spec => []TypeOK
<1>1. ServiceInv => TypeOK
  <2> SUFFICES ASSUME ServiceInv PROVE TypeOK
    OBVIOUS
  <2>1. LimiterTypeOK /\ TombInv /\ PhaseInv /\ CloserInv
    BY DEF ServiceInv, LimiterInv
  <2>2. main \in [pc : Phases, at : 1..(Len(Order) + 1)]
    BY <2>1 DEF PhaseInv, CloserInv
  <2>3. closers \in Seq(Wanted) /\ Len(closers) <= Len(Order)
    <3>1. closers \in Seq(Closable) /\ Closable \subseteq Wanted
      BY <2>1 DEF CloserInv, Closable
    <3>2. QED
      BY <2>1, <3>1, SeqMonotonic DEF CloserInv
  <2>4. late \in BOOLEAN /\ resource \in [Wanted -> {"none", "open", "closed"}]
    BY <2>1 DEF PhaseInv, CloserInv
  <2>5. QED
    BY <2>1, <2>2, <2>3, <2>4 DEF TypeOK, TombInv, AliveTasks, Phases
<1>2. QED
  BY <1>1, ServiceInvariant, PTL

\* A resource is closed only when no goroutine of the tomb is alive and no request is
\* served, unless the five seconds of the shutdown ran out: on every way into Close, a
\* failed New, the panic of a dead tomb, or the end of Run.
THEOREM ClosedUnused == Spec => []NoUseAfterClose
<1>1. ServiceInv => NoUseAfterClose
  BY DEF ServiceInv, PhaseInv, NoUseAfterClose
<1>2. QED
  BY <1>1, ServiceInvariant, PTL

\* Resources are closed in the reverse order of their creation, and all that are tracked
\* are closed when the process ends by itself, wherever New failed.
THEOREM ReverseRelease == Spec => []ReleasedInReverse
<1>1. ServiceInv => ReleasedInReverse
  <2> SUFFICES ASSUME ServiceInv PROVE ReleasedInReverse
    OBVIOUS
  <2>1. CloserInv
    BY DEF ServiceInv
  <2>2. ASSUME NEW x \in Closable, NEW y \in Closable, Before(x, y), resource[x] = "closed"
        PROVE  resource[y] # "open"
    <3>1. Rank[x] < Rank[y] /\ Rank[x] \in 1..4 /\ Rank[y] \in 1..4
      BY <2>2, OrderFacts, RankFacts DEF Before, Closable
    <3>2. ~ \E k \in 1..Len(closers) : closers[k] = y
      BY <2>1, <2>2, <3>1 DEF CloserInv
    <3>3. QED
      BY <2>1, <3>2 DEF CloserInv
  <2>3. ASSUME main.pc = "exited", NEW x \in Closable PROVE resource[x] # "open"
    <3>1. closers = <<>>
      BY <2>1, <2>3 DEF CloserInv
    <3>2. QED
      BY <2>1, <3>1 DEF CloserInv
  <2>4. QED
    BY <2>2, <2>3 DEF ReleasedInReverse, Closable
<1>2. QED
  BY <1>1, ServiceInvariant, PTL

=============================================================================
