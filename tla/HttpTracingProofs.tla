-------------------------- MODULE HttpTracingProofs --------------------------
(***************************************************************************)
(* The safety of HttpTracing, and with it of HttpClient, for every set of    *)
(* clients, every maxFailures and MaxRetries and every mix of outcomes.  The *)
(* invariants: TypeInv, the types and that a call that waits has a retry     *)
(* left; RecordInv, failureCount and what was read of it against the failed  *)
(* calls recorded; and TracingInv, what a call continues and has sent.       *)
(***************************************************************************)
EXTENDS HttpTracing, TLAPS

USE MaxAssumption, OutcomesAssumption

\* A call that waits has a retry left.
Calls == {r \in CallStates : r.pc = "wait" => r.attempt < MaxRetries}

TypeInv == TypeOK /\ call \in [Clients -> Calls]

\* failureCount, and the copies RecordFailure works on, never run ahead of the failed
\* calls recorded: a lost update makes it smaller.  A call that is about to open the
\* circuit has found enough of them.
RecordInv ==
    /\ failures <= recorded
    /\ \A c \in Clients : call[c].local <= recorded
    /\ \A c \in Clients : call[c].pc = "open" => recorded = MaxFailures
    /\ TripsOnlyAfterMax

\* The traces requests come with, and the identifiers in them.
Identifiers == {"hex", "other"} \X (Clients \cup {"caller", "request"}) \X Nat

Incoming(t) ==
    \/ t = NoTrace
    \/ \E trace \in Identifiers, span \in Identifiers, parent \in Identifiers \cup {Absent},
          chain \in {<<>>, <<"remote">>} :
         t = [trace |-> trace, span |-> span, parent |-> parent, chain |-> chain]

\* What the n-th attempt of a call sends.
Sent(c, n) == ToHeaders(AddToServiceChain(NewTraceContext(incoming, Fresh(c, n)), c))

\* A call under way continues the trace of the request, and what it sent was one of its
\* attempts to do so.
TracingOf(c) ==
    /\ call[c].pc # "idle" => context[c] = incoming
    /\ headers[c] # NoHeaders => \E n \in 0..MaxRetries : headers[c] = Sent(c, n)

TracingInv ==
    /\ Incoming(incoming)
    /\ context \in [Clients -> {NoTrace, incoming}]
    /\ DOMAIN headers = Clients
    /\ \A c \in Clients : TracingOf(c)

-----------------------------------------------------------------------------
(***************************************************************************)
(* Types.                                                                  *)
(***************************************************************************)
\* A counter that is kept up to maxFailures, and one that is ahead of another stays so.
LEMMA SaturatedType ==
    /\ \A n \in 0..MaxFailures : Saturated(n) \in 0..MaxFailures /\ n <= Saturated(n)
    /\ \A n, m \in 0..MaxFailures : n <= m => Saturated(n) <= Saturated(m)
  BY DEF Saturated

\* What a call at rest and one on its way look like.
At(r, pc) == [r EXCEPT !.pc = pc]

Rest(result) == [pc |-> "idle", attempt |-> 0, local |-> 0, result |-> result]

Results == {"none", "ok", "client", "other", "error", "rejected", "cancelled"}

LEMMA RestType == \A result \in Results : Rest(result) \in Calls
  BY DEF Rest, Results, Calls, CallStates

LEMMA AtType ==
    ASSUME NEW r \in Calls,
           NEW pc \in {"check", "cooling", "probe", "send", "resetCount", "close", "readCount",
                       "writeCount", "trip", "open"}
    PROVE  At(r, pc) \in Calls /\ At(r, pc).pc = pc /\ At(r, pc).local = r.local
  BY DEF At, Calls, CallStates

\* What a step of a call leaves: calls, the others as they were, no other copy of the
\* count of failures than the one ReadCount makes, and only after Trip's comparison a
\* call that opens the circuit.
Effect(c) ==
    /\ call' \in [Clients -> Calls]
    /\ \A d \in Clients \ {c} : call'[d] = call[d]
    /\ \/ call'[c].local \in {0, call[c].local}
       \/ ReadCount(c) /\ call'[c].local = failures
    /\ call'[c].pc = "open" => Trip(c) /\ failures >= MaxFailures

\* Replacing one call by a call keeps the calls typed.
LEMMA CallType ==
    ASSUME call \in [Clients -> Calls], NEW c \in Clients, NEW r \in Calls,
           call' = [call EXCEPT ![c] = r],
           r.local \in {0, call[c].local} \/ (ReadCount(c) /\ r.local = failures),
           r.pc # "open" \/ (Trip(c) /\ failures >= MaxFailures)
    PROVE  Effect(c)
<1>1. /\ call' \in [Clients -> Calls] /\ call'[c] = r
      /\ \A d \in Clients \ {c} : call'[d] = call[d]
  OBVIOUS
<1>2. QED
  BY <1>1 DEF Effect

\* What an attempt that fails, or is answered, makes of the call.
LEMMA AnswerEffect ==
    ASSUME TypeInv, NEW c \in Clients, Answer(c)
    PROVE  Effect(c)
<1>0. call \in [Clients -> Calls] /\ call[c] \in Calls /\ call[c] \in CallStates /\ outcome \in Outcomes
  BY DEF TypeInv, TypeOK, Calls
<1>1. CASE outcome \in {"down", "local", "cancel"}
  <2> DEFINE pc == IF call[c].attempt < MaxRetries THEN "wait" ELSE "readCount"
  <2> DEFINE r == [call[c] EXCEPT !.pc = pc, !.result = "error"]
  <2>1. call' = [call EXCEPT ![c] = r]
    BY <1>0, <1>1 DEF Answer, Failed
  <2>2. r \in CallStates /\ r.attempt = call[c].attempt /\ r.pc = pc /\ r.local = call[c].local
    BY <1>0 DEF CallStates
  <2>3. pc \in {"wait", "readCount"} /\ (pc = "wait" => call[c].attempt < MaxRetries)
    OBVIOUS
  <2> HIDE DEF r, pc
  <2>4. r \in Calls
    BY <2>2, <2>3 DEF Calls
  <2>5. r.pc # "open"
    BY <2>2, <2>3
  <2>6. QED
    BY <1>0, <2>1, <2>2, <2>4, <2>5, CallType
<1>2. CASE outcome \in {"ok", "client"}
  <2> DEFINE r == [call[c] EXCEPT !.pc = "resetCount", !.result = outcome]
  <2>1. call' = [call EXCEPT ![c] = r]
    BY <1>0, <1>2 DEF Answer
  <2>2. r \in CallStates /\ r.pc = "resetCount" /\ r.local = call[c].local
    BY <1>0, <1>2 DEF CallStates
  <2>3. r \in Calls
    BY <2>2 DEF Calls
  <2> HIDE DEF r
  <2>4. QED
    BY <1>0, <2>1, <2>2, <2>3, CallType
<1>3. CASE outcome = "other"
  <2>1. call' = [call EXCEPT ![c] = Rest("other")]
    BY <1>3 DEF Answer, Return, Rest
  <2>2. Rest("other") \in Calls /\ Rest("other").local = 0 /\ Rest("other").pc = "idle"
    <3>1. Rest("other") \in Calls
      BY RestType DEF Results
    <3>2. QED
      BY <3>1 DEF Rest
  <2>3. QED
    BY <1>0, <2>1, <2>2, CallType
<1>4. QED
  BY <1>0, <1>1, <1>2, <1>3

\* Every step of a call leaves a call and the other calls alone; only ReadCount copies the
\* count of failures.
LEMMA CallEffect ==
    ASSUME TypeInv, NEW c \in Clients, Start(c) \/ CallStep(c)
    PROVE  Effect(c)
<1>0. call \in [Clients -> Calls] /\ call[c] \in Calls /\ call[c] \in CallStates /\ failures \in 0..MaxFailures
  BY DEF TypeInv, TypeOK, Calls
<1>a. ASSUME NEW pc \in {"check", "cooling", "probe", "send", "resetCount", "close", "readCount",
                         "writeCount", "trip"}, Goto(c, pc)
      PROVE  Effect(c)
  <2>1. call' = [call EXCEPT ![c] = At(call[c], pc)]
    BY <1>0, <1>a DEF Goto, At
  <2>2. /\ At(call[c], pc) \in Calls /\ At(call[c], pc).local = call[c].local
        /\ At(call[c], pc).pc = pc
    BY <1>0, AtType
  <2>3. QED
    BY <1>0, <2>1, <2>2, CallType
<1>b. ASSUME NEW result \in Results, Return(c, result)
      PROVE  Effect(c)
  <2>1. call' = [call EXCEPT ![c] = Rest(result)] /\ Rest(result).local = 0 /\ Rest(result).pc = "idle"
    BY <1>b DEF Return, Rest
  <2>2. Rest(result) \in Calls
    BY RestType
  <2>3. QED
    BY <1>0, <2>1, <2>2, CallType
<1>1. CASE Start(c)
  <2> DEFINE r == [call[c] EXCEPT !.pc = "check", !.result = "none"]
  <2>1. call' = [call EXCEPT ![c] = r]
    BY <1>0, <1>1 DEF Start
  <2>2. r \in Calls /\ r.local = call[c].local /\ r.pc = "check"
    BY <1>0 DEF Calls, CallStates
  <2> HIDE DEF r
  <2>3. QED
    BY <1>0, <2>1, <2>2, CallType
<1>2. CASE CheckState(c)
  <2>1. \E pc \in {"cooling", "send"} : Goto(c, pc)
    BY <1>2 DEF CheckState
  <2>2. QED
    BY <1>a, <2>1
<1>3. CASE CheckTimeout(c)
  BY <1>3, <1>a, <1>b DEF CheckTimeout, Results
<1>4. CASE HalfOpen(c)
  BY <1>4, <1>a DEF HalfOpen
<1>5. CASE Answer(c)
  BY <1>5, AnswerEffect
<1>6. CASE Retry(c)
  <2> DEFINE r == [call[c] EXCEPT !.pc = "send", !.attempt = call[c].attempt + 1]
  <2>1. call' = [call EXCEPT ![c] = r]
    BY <1>0, <1>6 DEF Retry
  <2>2. call[c].attempt + 1 \in 0..MaxRetries
    BY <1>0, <1>6 DEF Retry, Calls, CallStates
  <2>3. r \in CallStates /\ r.pc = "send" /\ r.local = call[c].local
    BY <1>0, <2>2 DEF CallStates
  <2>4. r \in Calls
    BY <2>3 DEF Calls
  <2> HIDE DEF r
  <2>5. QED
    BY <1>0, <2>1, <2>3, <2>4, CallType
<1>7. CASE CancelWait(c)
  BY <1>7, <1>b DEF CancelWait, Results
<1>8. CASE ResetCount(c) \/ WriteCount(c)
  BY <1>8, <1>a DEF ResetCount, WriteCount
<1>9. CASE CloseCircuit(c)
  <2>1. call[c].result \in Results
    BY <1>0 DEF CallStates, Results
  <2>2. QED
    BY <1>9, <1>b, <2>1 DEF CloseCircuit
<1>10. CASE ReadCount(c)
  <2> DEFINE r == [call[c] EXCEPT !.pc = "writeCount", !.local = failures]
  <2>1. call' = [call EXCEPT ![c] = r]
    BY <1>0, <1>10 DEF ReadCount
  <2>2. r \in CallStates /\ r.pc = "writeCount" /\ r.local = failures
    BY <1>0 DEF CallStates
  <2>3. r \in Calls
    BY <2>2 DEF Calls
  <2> HIDE DEF r
  <2>4. QED
    BY <1>0, <1>10, <2>1, <2>2, <2>3, CallType
<1>11. CASE Trip(c)
  <2>1. CASE failures >= MaxFailures
    <3>1. call' = [call EXCEPT ![c] = At(call[c], "open")]
      BY <1>0, <1>11, <2>1 DEF Trip, Goto, At
    <3>2. At(call[c], "open") \in Calls /\ At(call[c], "open").local = call[c].local
      BY <1>0, AtType
    <3>3. QED
      BY <1>0, <1>11, <2>1, <3>1, <3>2, CallType
  <2>2. CASE ~(failures >= MaxFailures)
    BY <1>11, <1>b, <2>2 DEF Trip, Results
  <2>3. QED
    BY <2>1, <2>2
<1>12. CASE OpenCircuit(c)
  BY <1>12, <1>b DEF OpenCircuit, Results
<1>13. QED
  BY <1>1, <1>2, <1>3, <1>4, <1>5, <1>6, <1>7, <1>8, <1>9, <1>10, <1>11, <1>12 DEF CallStep

-----------------------------------------------------------------------------
\* The first state is of the declared types.
LEMMA TypeInit == TracedInit => TypeInv
<1> SUFFICES ASSUME TracedInit PROVE TypeInv
  OBVIOUS
<1>1. call = [c \in Clients |-> Rest("none")]
  BY DEF TracedInit, Init, Rest
<1>2. Rest("none") \in Calls
  BY RestType DEF Results
<1>3. call \in [Clients -> Calls] /\ call \in [Clients -> CallStates]
  BY <1>1, <1>2 DEF Calls
<1>4. QED
  BY <1>3 DEF TracedInit, Init, TypeInv, TypeOK

\* The breaker after a step of a call.
LEMMA BreakerType ==
    ASSUME TypeInv, NEW c \in Clients, Start(c) \/ CallStep(c)
    PROVE  /\ state' \in {"closed", "open", "halfopen"} /\ failures' \in 0..MaxFailures
           /\ cooled' \in BOOLEAN /\ recorded' \in 0..MaxFailures /\ outcome' = outcome
<1>0. /\ state \in {"closed", "open", "halfopen"} /\ failures \in 0..MaxFailures
      /\ cooled \in BOOLEAN /\ recorded \in 0..MaxFailures /\ call[c].local \in 0..MaxFailures
  BY DEF TypeInv, TypeOK, Calls, CallStates
<1>1. CASE WriteCount(c)
  BY <1>0, <1>1, SaturatedType DEF WriteCount
<1>2. CASE OpenCircuit(c)
  BY <1>0, <1>2 DEF OpenCircuit
<1>3. CASE HalfOpen(c) \/ ResetCount(c) \/ CloseCircuit(c)
  BY <1>0, <1>3 DEF HalfOpen, ResetCount, CloseCircuit
<1>4. CASE UNCHANGED <<breaker, outcome, recorded>>
  BY <1>0, <1>4 DEF breaker
<1>5. QED
  BY <1>1, <1>2, <1>3, <1>4
     DEF CallStep, Start, CheckState, CheckTimeout, Answer, Retry, CancelWait, ReadCount, Trip

\* Every step keeps the types.
LEMMA TypeStep == TypeInv /\ [Next]_tracedVars => TypeInv'
<1> SUFFICES ASSUME TypeInv, [Next]_tracedVars PROVE TypeInv'
  OBVIOUS
<1>0. /\ call \in [Clients -> Calls] /\ state \in {"closed", "open", "halfopen"}
      /\ failures \in 0..MaxFailures /\ cooled \in BOOLEAN /\ recorded \in 0..MaxFailures
      /\ outcome \in Outcomes
  BY DEF TypeInv, TypeOK
<1>a. ASSUME call' \in [Clients -> Calls], state' \in {"closed", "open", "halfopen"},
             failures' \in 0..MaxFailures, cooled' \in BOOLEAN, recorded' \in 0..MaxFailures,
             outcome' \in Outcomes
      PROVE  TypeInv'
  <2>1. call' \in [Clients -> CallStates]
    BY <1>a DEF Calls
  <2>2. QED
    BY <1>a, <2>1 DEF TypeInv, TypeOK
<1>1. ASSUME NEW c \in Clients, Start(c) \/ CallStep(c) PROVE TypeInv'
  <2>1. call' \in [Clients -> Calls]
    BY <1>1, CallEffect DEF Effect
  <2>2. QED
    BY <1>0, <1>1, <1>a, <2>1, BreakerType
<1>2. CASE Cool \/ OutcomeChange
  BY <1>0, <1>2, <1>a DEF Cool, OutcomeChange, breaker
<1>3. CASE UNCHANGED vars
  BY <1>0, <1>3, <1>a DEF vars, breaker
<1>4. QED
  BY <1>1, <1>2, <1>3 DEF Next, TracedStart, TracedStep, Environment, tracedVars

-----------------------------------------------------------------------------
(***************************************************************************)
(* The breaker.                                                            *)
(***************************************************************************)
\* No step counts a failure that was not recorded, or opens the circuit before the last.
LEMMA RecordStep == TypeInv /\ RecordInv /\ [Next]_tracedVars => RecordInv'
<1> SUFFICES ASSUME TypeInv, RecordInv, [Next]_tracedVars PROVE RecordInv'
  OBVIOUS
<1>0. /\ call \in [Clients -> Calls] /\ failures \in 0..MaxFailures /\ recorded \in 0..MaxFailures
      /\ failures <= recorded /\ (state = "open" => recorded = MaxFailures)
      /\ \A d \in Clients : call[d].local <= recorded /\ call[d].local \in 0..MaxFailures
      /\ \A d \in Clients : call[d].pc = "open" => recorded = MaxFailures
  <2>1. /\ call \in [Clients -> Calls] /\ failures \in 0..MaxFailures /\ recorded \in 0..MaxFailures
        /\ \A d \in Clients : call[d].local \in 0..MaxFailures
    BY DEF TypeInv, TypeOK, CallStates
  <2>2. /\ failures <= recorded /\ (state = "open" => recorded = MaxFailures)
        /\ \A d \in Clients : call[d].local <= recorded
        /\ \A d \in Clients : call[d].pc = "open" => recorded = MaxFailures
    BY DEF RecordInv, TripsOnlyAfterMax
  <2>3. QED
    BY <2>1, <2>2
<1>1. ASSUME NEW c \in Clients, Start(c) \/ CallStep(c) PROVE RecordInv'
  <2>0. Effect(c)
    BY <1>1, CallEffect
  <2>1. \A d \in Clients : call'[d].local <= recorded /\ (call'[d].pc = "open" => recorded = MaxFailures)
    <3>1. call'[c].local <= recorded /\ (call'[c].pc = "open" => recorded = MaxFailures)
      BY <1>0, <2>0 DEF Effect
    <3>2. QED
      BY <1>0, <2>0, <3>1 DEF Effect
  <2>2. CASE WriteCount(c)
    <3>1. failures' = Saturated(call[c].local) /\ recorded' = Saturated(recorded) /\ state' = state
      BY <2>2 DEF WriteCount
    <3>2. failures' <= recorded' /\ recorded <= recorded' /\ recorded' \in 0..MaxFailures
      BY <1>0, <3>1, SaturatedType
    <3>3. recorded = MaxFailures => recorded' = MaxFailures
      BY <1>0, <3>2
    <3>4. \A d \in Clients : call'[d].local \in 0..MaxFailures
      BY <2>0 DEF Effect, Calls, CallStates
    <3>5. \A d \in Clients : call'[d].local <= recorded'
      BY <1>0, <2>1, <3>2, <3>4
    <3>6. QED
      BY <1>0, <2>1, <3>1, <3>2, <3>3, <3>5 DEF RecordInv, TripsOnlyAfterMax
  <2>3. CASE OpenCircuit(c)
    <3>1. UNCHANGED <<failures, recorded>> /\ call[c].pc = "open"
      BY <2>3 DEF OpenCircuit
    <3>2. recorded = MaxFailures
      BY <1>0, <3>1
    <3>3. QED
      BY <1>0, <2>1, <3>1, <3>2 DEF RecordInv, TripsOnlyAfterMax
  <2>4. CASE ResetCount(c)
    <3>1. failures' = 0 /\ UNCHANGED <<state, recorded>>
      BY <2>4 DEF ResetCount
    <3>2. QED
      BY <1>0, <2>1, <3>1 DEF RecordInv, TripsOnlyAfterMax
  <2>5. CASE HalfOpen(c) \/ CloseCircuit(c)
    <3>1. UNCHANGED <<failures, recorded>> /\ state' # "open"
      BY <2>5 DEF HalfOpen, CloseCircuit
    <3>2. QED
      BY <1>0, <2>1, <3>1 DEF RecordInv, TripsOnlyAfterMax
  <2>6. CASE UNCHANGED <<state, failures, recorded>>
    BY <1>0, <2>1, <2>6 DEF RecordInv, TripsOnlyAfterMax
  <2>7. QED
    BY <1>1, <2>2, <2>3, <2>4, <2>5, <2>6
       DEF CallStep, Start, CheckState, CheckTimeout, Answer, Retry, CancelWait, ReadCount, Trip, breaker
<1>2. CASE UNCHANGED <<state, failures, recorded, call>>
  BY <1>0, <1>2 DEF RecordInv, TripsOnlyAfterMax
<1>3. QED
  BY <1>1, <1>2
     DEF Next, TracedStart, TracedStep, Environment, Cool, OutcomeChange, tracedVars, vars, breaker

-----------------------------------------------------------------------------
(***************************************************************************)
(* Traces.                                                                 *)
(***************************************************************************)
\* The identifiers made here, the caller's, and the one that is not there.
LEMMA IdentifierTypes ==
    /\ Remote \in Identifiers /\ Opaque \in Identifiers /\ Fresh("request", 1) \in Identifiers
    /\ \A c \in Clients, n \in Nat : Fresh(c, n) \in Identifiers
    /\ Absent \notin Identifiers
  BY AbsentAssumption DEF Remote, Opaque, Fresh, Identifiers

\* middleware.Tracing gives every caller's request a whole trace.
LEMMA IncomingType ==
    ASSUME NEW caller \in Callers
    PROVE  Incoming(Tracing(Received(caller), Fresh("request", 1)))
<1> DEFINE id == Fresh("request", 1)
<1>0. Remote \in Identifiers /\ Opaque \in Identifiers /\ id \in Identifiers /\ Absent \notin Identifiers
  BY IdentifierTypes
<1>a. Remote # Absent /\ Opaque # Absent /\ id # Absent
  BY <1>0
<1>1. CASE caller = "nobody"
  <2>1. Received(caller) = NoHeaders
    BY <1>1 DEF Received
  <2>2. TraceContextFromHeaders(NoHeaders, id) = NoTrace
    BY DEF TraceContextFromHeaders, NoHeaders, NoTrace
  <2>3. Tracing(NoHeaders, id) = [trace |-> id, span |-> id, parent |-> Absent, chain |-> <<>>]
    BY <2>2 DEF Tracing, NewTraceContext, NoTrace
  <2>4. QED
    BY <1>0, <2>1, <2>3 DEF Incoming
<1>2. CASE caller = "svckit"
  <2> DEFINE t == [trace |-> Remote, span |-> Remote, parent |-> Absent, chain |-> <<"remote">>]
  <2>1. Received(caller) = ToHeaders(t)
    BY <1>2 DEF Received
  <2>2. ToHeaders(t) = [trace |-> Remote, span |-> Remote, parent |-> Absent,
                        w3c |-> <<Remote, Remote>>, chain |-> <<"remote">>]
    BY DEF ToHeaders, Traceparent, Remote
  <2>3. TraceContextFromHeaders(ToHeaders(t), id) =
          [trace |-> Remote, span |-> Remote, parent |-> Remote, chain |-> <<"remote">>]
    BY <1>a, <2>2 DEF TraceContextFromHeaders
  <2>4. Tracing(ToHeaders(t), id) = [trace |-> Remote, span |-> Remote, parent |-> Remote, chain |-> <<"remote">>]
    BY <1>a, <2>3 DEF Tracing
  <2>5. QED
    BY <1>0, <2>1, <2>4 DEF Incoming
<1>3. CASE caller = "w3c"
  <2> DEFINE h == [trace |-> Absent, span |-> Absent, parent |-> Absent, w3c |-> <<Remote, Remote>>, chain |-> <<>>]
  <2>1. Received(caller) = h
    BY <1>3 DEF Received, NoHeaders
  <2>2. TraceContextFromHeaders(h, id) = [trace |-> Remote, span |-> id, parent |-> Remote, chain |-> <<>>]
    BY DEF TraceContextFromHeaders
  <2>3. Tracing(h, id) = [trace |-> Remote, span |-> id, parent |-> Remote, chain |-> <<>>]
    BY <1>a, <2>2 DEF Tracing
  <2>4. QED
    BY <1>0, <2>1, <2>3 DEF Incoming
<1>4. CASE caller = "legacy"
  <2> DEFINE t == [trace |-> Opaque, span |-> Remote, parent |-> Absent, chain |-> <<"remote">>]
  <2>1. Received(caller) = ToHeaders(t)
    BY <1>4 DEF Received
  <2>2. ToHeaders(t) = [trace |-> Opaque, span |-> Remote, parent |-> Absent,
                        w3c |-> <<>>, chain |-> <<"remote">>]
    BY DEF ToHeaders, Traceparent, Opaque
  <2>3. TraceContextFromHeaders(ToHeaders(t), id) = t
    BY <2>2 DEF TraceContextFromHeaders
  <2>4. Tracing(ToHeaders(t), id) = t
    BY <1>a, <2>3 DEF Tracing
  <2>5. QED
    BY <1>0, <2>1, <2>4 DEF Incoming
<1>5. QED
  BY <1>1, <1>2, <1>3, <1>4, CallersAssumption

\* What the called service reads from an attempt's headers: the trace of the request, or a
\* new one, the attempt's span and the request's span as its parent.
LEMMA SentTrace ==
    ASSUME Incoming(incoming), NEW c \in Clients, NEW n \in Nat, NEW h, h = Sent(c, n)
    PROVE  LET peer == Tracing(h, Fresh("peer", 1)) IN
           /\ peer.trace = IF incoming = NoTrace THEN h.span ELSE incoming.trace
           /\ peer.chain = Append(incoming.chain, c)
           /\ peer.span = Fresh(c, n)
           /\ h.parent = incoming.span
<1> DEFINE id == Fresh(c, n)
           peer == Tracing(h, Fresh("peer", 1))
<1>0. id \in Identifiers /\ id # Absent /\ id[1] = "hex"
  BY IdentifierTypes DEF Fresh
<1>1. CASE incoming = NoTrace
  <2>1. incoming.chain = <<>> /\ incoming.span = Absent
    BY <1>1 DEF NoTrace
  <2>2. NewTraceContext(incoming, id) = [trace |-> id, span |-> id, parent |-> Absent, chain |-> <<>>]
    BY <1>1 DEF NewTraceContext
  <2>3. AddToServiceChain(NewTraceContext(incoming, id), c) =
          [trace |-> id, span |-> id, parent |-> Absent, chain |-> Append(<<>>, c)]
    BY <2>2 DEF AddToServiceChain
  <2>4. h = [trace |-> id, span |-> id, parent |-> Absent, w3c |-> <<id, id>>, chain |-> Append(<<>>, c)]
    BY <1>0, <2>3 DEF Sent, ToHeaders, Traceparent
  <2>5. TraceContextFromHeaders(h, Fresh("peer", 1)) =
          [trace |-> id, span |-> id, parent |-> id, chain |-> Append(<<>>, c)]
    BY <1>0, <2>4 DEF TraceContextFromHeaders
  <2>6. peer = [trace |-> id, span |-> id, parent |-> id, chain |-> Append(<<>>, c)]
    BY <1>0, <2>5 DEF Tracing
  <2>7. QED
    BY <1>1, <2>1, <2>4, <2>6
<1>2. CASE incoming # NoTrace
  <2>1. PICK trace \in Identifiers, span \in Identifiers, parent \in Identifiers \cup {Absent},
            chain \in {<<>>, <<"remote">>} :
          incoming = [trace |-> trace, span |-> span, parent |-> parent, chain |-> chain]
    BY <1>2 DEF Incoming
  <2>2. NewTraceContext(incoming, id) = [trace |-> trace, span |-> id, parent |-> span, chain |-> chain]
    BY <1>2, <2>1 DEF NewTraceContext
  <2>3. AddToServiceChain(NewTraceContext(incoming, id), c) =
          [trace |-> trace, span |-> id, parent |-> span, chain |-> Append(chain, c)]
    <3>1. ASSUME NEW t, t = [trace |-> trace, span |-> id, parent |-> span, chain |-> chain]
          PROVE  AddToServiceChain(t, c) =
                   [trace |-> trace, span |-> id, parent |-> span, chain |-> Append(chain, c)]
      <4>1. \A longer : [t EXCEPT !.chain = longer] =
                        [trace |-> trace, span |-> id, parent |-> span, chain |-> longer]
        BY <3>1
      <4>2. AddToServiceChain(t, c) = [t EXCEPT !.chain = Append(t.chain, c)] /\ t.chain = chain
        BY <3>1 DEF AddToServiceChain
      <4>3. QED
        BY <4>1, <4>2
    <3>2. QED
      BY <2>2, <3>1
  <2>4. h = [trace |-> trace, span |-> id, parent |-> span,
             w3c |-> IF trace[1] = "hex" THEN <<trace, id>> ELSE <<>>, chain |-> Append(chain, c)]
    BY <2>3 DEF Sent, ToHeaders, Traceparent
  <2>5. trace # Absent
    BY IdentifierTypes
  <2>6. PICK above : TraceContextFromHeaders(h, Fresh("peer", 1)) =
                       [trace |-> trace, span |-> id, parent |-> above, chain |-> Append(chain, c)]
    <3>1. CASE trace[1] = "hex"
      <4>1. h.w3c = <<trace, id>> /\ h.span = id /\ h.chain = Append(chain, c)
        BY <2>4, <3>1
      <4>2. TraceContextFromHeaders(h, Fresh("peer", 1)) =
              [trace |-> trace, span |-> id, parent |-> id, chain |-> Append(chain, c)]
        BY <1>0, <4>1 DEF TraceContextFromHeaders
      <4>3. QED
        BY <4>2
    <3>2. CASE trace[1] # "hex"
      <4>1. h.w3c = <<>>
        BY <2>4, <3>2
      <4>2. TraceContextFromHeaders(h, Fresh("peer", 1)) =
              [trace |-> trace, span |-> id, parent |-> span, chain |-> Append(chain, c)]
        BY <2>4, <4>1 DEF TraceContextFromHeaders
      <4>3. QED
        BY <4>2
    <3>3. QED
      BY <3>1, <3>2
  <2>7. peer = [trace |-> trace, span |-> id, parent |-> above, chain |-> Append(chain, c)]
    BY <2>5, <2>6 DEF Tracing
  <2>8. peer.trace = trace /\ peer.chain = Append(chain, c) /\ peer.span = id
    BY <2>7
  <2>9. h.parent = span /\ incoming.trace = trace /\ incoming.chain = chain /\ incoming.span = span
    BY <2>1, <2>4
  <2>10. QED
    BY <1>2, <2>8, <2>9
<1>3. QED
  BY <1>1, <1>2

\* Every step of a call continues the trace of the request, and no step touches another
\* call's trace.
LEMMA TracingStep == TypeInv /\ TracingInv /\ [Next]_tracedVars => TracingInv'
<1> SUFFICES ASSUME TypeInv, TracingInv, [Next]_tracedVars PROVE TracingInv'
  OBVIOUS
<1>0. /\ call \in [Clients -> Calls] /\ context \in [Clients -> {NoTrace, incoming}]
      /\ DOMAIN headers = Clients /\ Incoming(incoming) /\ \A c \in Clients : TracingOf(c)
  BY DEF TypeInv, TracingInv
<1>a. incoming' = incoming
  BY DEF Next, TracedStart, TracedStep, Environment, tracedVars, tracing
<1>b. \A c \in Clients, n \in Nat : Sent(c, n)' = Sent(c, n)
  BY <1>a DEF Sent, ToHeaders, Traceparent, AddToServiceChain, NewTraceContext, Fresh
\* A call whose part of the state stays keeps its trace.
<1>c. ASSUME NEW c \in Clients, call'[c] = call[c], context'[c] = context[c], headers'[c] = headers[c]
      PROVE  TracingOf(c)'
  <2>1. TracingOf(c)
    BY <1>0
  <2>2. \A n \in 0..MaxRetries : Sent(c, n)' = Sent(c, n)
    BY <1>b
  <2> HIDE DEF Sent
  <2>3. QED
    BY <1>a, <1>c, <2>1, <2>2 DEF TracingOf, NoHeaders
<1>1. ASSUME NEW c \in Clients, Start(c) \/ CallStep(c),
             context' \in [Clients -> {NoTrace, incoming}], DOMAIN headers' = Clients,
             \A d \in Clients \ {c} : context'[d] = context[d] /\ headers'[d] = headers[d], TracingOf(c)'
      PROVE  TracingInv'
  <2>1. \A d \in Clients \ {c} : call'[d] = call[d]
    BY <1>1, CallEffect DEF Effect
  <2>2. \A d \in Clients : TracingOf(d)'
    BY <1>1, <1>c, <2>1
  <2>3. QED
    BY <1>0, <1>1, <1>a, <2>2 DEF TracingInv, Incoming, NoTrace
<1>2. ASSUME NEW c \in Clients, TracedStart(c) PROVE TracingInv'
  <2>1. context'[c] = incoming /\ headers'[c] = NoHeaders
    BY <1>0, <1>2 DEF TracedStart
  <2>2. TracingOf(c)'
    BY <1>a, <2>1 DEF TracingOf, NoHeaders
  <2>3. /\ context' \in [Clients -> {NoTrace, incoming}] /\ DOMAIN headers' = Clients
        /\ \A d \in Clients \ {c} : context'[d] = context[d] /\ headers'[d] = headers[d]
    BY <1>0, <1>2 DEF TracedStart
  <2>4. QED
    BY <1>1, <1>2, <2>2, <2>3 DEF TracedStart
<1>3. ASSUME NEW c \in Clients, TracedStep(c) PROVE TracingInv'
  <2>1. call[c].pc # "idle" /\ call[c].attempt \in 0..MaxRetries
    <3>1. call[c].pc # "idle"
      BY <1>3 DEF TracedStep, CallStep, CheckState, CheckTimeout, HalfOpen, Answer, Retry, CancelWait,
                  ResetCount, CloseCircuit, ReadCount, WriteCount, Trip, OpenCircuit
    <3>2. QED
      BY <1>0, <3>1 DEF Calls, CallStates
  <2>2. context[c] = incoming /\ context' = context
    BY <1>0, <1>3, <2>1 DEF TracingOf, TracedStep, Send
  <2>3. headers'[c] = IF call[c].pc = "send" /\ outcome # "local" THEN ToHeaders(Attempt(c)) ELSE NoHeaders
    BY <1>0, <1>3 DEF TracedStep, Send
  <2>4. ToHeaders(Attempt(c)) = Sent(c, call[c].attempt)
    BY <2>2 DEF Attempt, Sent, NewSpan
  <2>5. TracingOf(c)'
    <3>1. headers'[c] = NoHeaders \/ headers'[c] = Sent(c, call[c].attempt)
      BY <2>3, <2>4
    <3>2. \A n \in 0..MaxRetries : Sent(c, n)' = Sent(c, n)
      BY <1>b
    <3>3. context'[c] = incoming'
      BY <1>a, <2>2
    <3> HIDE DEF Sent
    <3>4. QED
      BY <2>1, <3>1, <3>2, <3>3 DEF TracingOf, NoHeaders
  <2>6. /\ DOMAIN headers' = Clients
        /\ \A d \in Clients \ {c} : headers'[d] = headers[d]
    BY <1>0, <1>3 DEF TracedStep, Send
  <2>7. QED
    BY <1>0, <1>1, <1>3, <2>2, <2>5, <2>6 DEF TracedStep
<1>4. CASE UNCHANGED <<call, tracing>>
  <2>1. \A c \in Clients : TracingOf(c)'
    BY <1>4, <1>c DEF tracing
  <2>2. QED
    BY <1>0, <1>4, <2>1 DEF TracingInv, Incoming, NoTrace, tracing
<1>5. QED
  BY <1>2, <1>3, <1>4 DEF Next, Environment, Cool, OutcomeChange, tracedVars, vars

-----------------------------------------------------------------------------
(***************************************************************************)
(* The theorems.                                                           *)
(***************************************************************************)
\* TypeInv holds for ever; it is used by all that follows.
LEMMA TypeInvariant == Spec => []TypeInv
<1>1. TracedInit => TypeInv
  BY TypeInit
<1>2. TypeInv /\ [Next]_tracedVars => TypeInv'
  BY TypeStep
<1>3. QED
  BY <1>1, <1>2, PTL DEF Spec

\* No call retries more than MaxRetries times (Do), and failureCount is only ever what a
\* counter up to maxFailures can be.
THEOREM TypeCorrect == Spec => []TypeOK
<1>1. TypeInv => TypeOK
  BY DEF TypeInv
<1>2. QED
  BY <1>1, TypeInvariant, PTL

\* However many calls share the breaker that nothing locks, the circuit does not open
\* before RecordFailure has run maxFailures times (CanExecute, RecordFailure).
THEOREM NeverTripsEarly == Spec => []TripsOnlyAfterMax
<1>1. TracedInit => RecordInv
  BY DEF TracedInit, Init, RecordInv, TripsOnlyAfterMax
<1>2. TypeInv /\ RecordInv /\ [Next]_tracedVars => RecordInv'
  BY RecordStep
<1>3. RecordInv => TripsOnlyAfterMax
  BY DEF RecordInv
<1>4. QED
  BY <1>1, <1>2, <1>3, TypeInvariant, PTL DEF Spec

\* Every attempt of every one of any number of calls carries the trace of the request it
\* is made for, whatever headers that came with (doSingleRequest, NewTraceContext,
\* AddToServiceChain, TraceContextFromHeaders).
THEOREM TraceAlwaysFollows == Spec => []TraceFollowsCalls
<1>1. TracedInit => TracingInv
  <2> SUFFICES ASSUME TracedInit PROVE TracingInv
    OBVIOUS
  <2>1. Incoming(incoming)
    <3>1. CASE incoming = NoTrace
      BY <3>1 DEF Incoming
    <3>2. ASSUME NEW caller \in Callers, incoming = Tracing(Received(caller), Fresh("request", 1))
          PROVE  Incoming(incoming)
      BY <3>2, IncomingType
    <3>3. QED
      BY <3>1, <3>2 DEF TracedInit
  <2>2. \A c \in Clients : call[c].pc = "idle" /\ headers[c] = NoHeaders
    BY DEF TracedInit, Init
  <2>3. \A c \in Clients : TracingOf(c)
    BY <2>2 DEF TracingOf
  <2>4. context \in [Clients -> {NoTrace, incoming}] /\ DOMAIN headers = Clients
    BY DEF TracedInit
  <2>5. QED
    BY <2>1, <2>3, <2>4 DEF TracingInv
<1>2. TypeInv /\ TracingInv /\ [Next]_tracedVars => TracingInv'
  BY TracingStep
<1>3. TracingInv => TraceFollowsCalls
  <2> SUFFICES ASSUME TracingInv, NEW c \in Clients, headers[c] # NoHeaders
               PROVE  LET peer == Tracing(headers[c], Fresh("peer", 1)) IN
                      /\ peer.trace = IF incoming = NoTrace THEN headers[c].span ELSE incoming.trace
                      /\ peer.chain = Append(incoming.chain, c)
                      /\ peer.span \in {Fresh(c, n) : n \in 0..MaxRetries}
                      /\ headers[c].parent = incoming.span
    BY DEF TraceFollowsCalls
  <2>1. PICK n \in 0..MaxRetries : headers[c] = Sent(c, n)
    BY DEF TracingInv, TracingOf
  <2>2. Incoming(incoming) /\ n \in Nat
    BY DEF TracingInv
  <2>3. QED
    BY <2>1, <2>2, SentTrace
<1>4. QED
  BY <1>1, <1>2, <1>3, TypeInvariant, PTL DEF Spec

=============================================================================
