------------------------------ MODULE HttpClient ------------------------------
(***************************************************************************)
(* httpclient.Client.Do and its CircuitBreaker: concurrent calls through    *)
(* one breaker that nothing locks, so CanExecute, RecordSuccess and         *)
(* RecordFailure are taken apart into the accesses other calls can come     *)
(* between.  failureCount is only compared with maxFailures: it is kept up  *)
(* to that value, which changes no comparison.                              *)
(***************************************************************************)
EXTENDS Naturals

CONSTANTS
    Clients,     \* goroutines that call Do
    MaxFailures, \* cb.maxFailures
    MaxRetries,  \* retryConfig.MaxRetries
    Outcomes     \* what a request may meet: "ok" (2xx), "client" (4xx), "other"
                 \* (1xx, 3xx), "down" (5xx, a network error), "local" (the body does
                 \* not marshal, the URL is bad), "cancel" (the context has ended)

ASSUME MaxAssumption == MaxFailures \in Nat \ {0} /\ MaxRetries \in Nat
ASSUME OutcomesAssumption == Outcomes \subseteq {"ok", "client", "other", "down", "local", "cancel"}

VARIABLES
    state,      \* cb.state
    failures,   \* cb.failureCount, up to maxFailures
    cooled,     \* resetTimeout has passed since cb.lastFailureTime
    call,       \* the calls of Do
    outcome,    \* what a request meets now (environment)
    recorded    \* history: calls of RecordFailure so far, up to maxFailures

breaker == <<state, failures, cooled>>
vars == <<breaker, call, outcome, recorded>>

CallStates ==
    [pc : {"idle", "check", "cooling", "probe", "send", "wait", "resetCount", "close",
           "readCount", "writeCount", "trip", "open"},
     attempt : 0..MaxRetries, local : 0..MaxFailures,
     result : {"none", "ok", "client", "other", "error", "rejected", "cancelled"}]

(***************************************************************************)
(* The one type invariant of the module.                                   *)
(***************************************************************************)
TypeOK ==
    /\ state \in {"closed", "open", "halfopen"}
    /\ failures \in 0..MaxFailures
    /\ cooled \in BOOLEAN
    /\ call \in [Clients -> CallStates]
    /\ outcome \in Outcomes
    /\ recorded \in 0..MaxFailures

Init ==
    /\ state = "closed"
    /\ failures = 0
    /\ cooled = TRUE
    /\ call = [c \in Clients |-> [pc |-> "idle", attempt |-> 0, local |-> 0, result |-> "none"]]
    /\ outcome \in Outcomes
    /\ recorded = 0

Saturated(n) == IF n < MaxFailures THEN n + 1 ELSE MaxFailures

Goto(c, pc) == call' = [call EXCEPT ![c].pc = pc]

Return(c, result) ==
    call' = [call EXCEPT ![c] = [pc |-> "idle", attempt |-> 0, local |-> 0, result |-> result]]

-----------------------------------------------------------------------------
(***************************************************************************)
(* CanExecute.                                                             *)
(***************************************************************************)
Start(c) ==
    /\ call[c].pc = "idle"
    /\ call' = [call EXCEPT ![c].pc = "check", ![c].result = "none"]
    /\ UNCHANGED <<breaker, outcome, recorded>>

\* Mutant: an open circuit lets nothing through again.
CheckNeverProbes(c) ==
    /\ call[c].pc = "check"
    /\ IF state = "open" THEN Return(c, "rejected") ELSE Goto(c, "send")
    /\ UNCHANGED <<breaker, outcome, recorded>>

CheckState(c) ==
    /\ call[c].pc = "check"
    /\ Goto(c, IF state = "open" THEN "cooling" ELSE "send")
    /\ UNCHANGED <<breaker, outcome, recorded>>

CheckTimeout(c) ==
    /\ call[c].pc = "cooling"
    /\ IF cooled THEN Goto(c, "probe") ELSE Return(c, "rejected")
    /\ UNCHANGED <<breaker, outcome, recorded>>

HalfOpen(c) ==
    /\ call[c].pc = "probe"
    /\ state' = "halfopen"
    /\ Goto(c, "send")
    /\ UNCHANGED <<failures, cooled, outcome, recorded>>

\* resetTimeout passes.
Cool ==
    /\ ~cooled
    /\ cooled' = TRUE
    /\ UNCHANGED <<state, failures, call, outcome, recorded>>

-----------------------------------------------------------------------------
(***************************************************************************)
(* doSingleRequest and the branches of Do on what it returns.               *)
(***************************************************************************)
\* A failed attempt is retried after a wait; the last one is recorded.
Failed(c) ==
    call' = [call EXCEPT ![c].pc = IF call[c].attempt < MaxRetries THEN "wait" ELSE "readCount",
                         ![c].result = "error"]

\* A request that never leaves the caller, or whose context has ended, is an error
\* like any other.
Answer(c) ==
    /\ call[c].pc = "send"
    /\ CASE outcome \in {"down", "local", "cancel"} -> Failed(c)
         [] outcome \in {"ok", "client"} ->
              call' = [call EXCEPT ![c].pc = "resetCount", ![c].result = outcome]
         [] OTHER -> Return(c, "other")
    /\ UNCHANGED <<breaker, outcome, recorded>>

Retry(c) ==
    /\ call[c].pc = "wait"
    /\ call' = [call EXCEPT ![c].pc = "send", ![c].attempt = @ + 1]
    /\ UNCHANGED <<breaker, outcome, recorded>>

CancelWait(c) ==
    /\ call[c].pc = "wait"
    /\ outcome = "cancel"
    /\ Return(c, "cancelled")
    /\ UNCHANGED <<breaker, outcome, recorded>>

-----------------------------------------------------------------------------
(***************************************************************************)
(* RecordSuccess and RecordFailure.                                        *)
(***************************************************************************)
ResetCount(c) ==
    /\ call[c].pc = "resetCount"
    /\ failures' = 0
    /\ Goto(c, "close")
    /\ UNCHANGED <<state, cooled, outcome, recorded>>

CloseCircuit(c) ==
    /\ call[c].pc = "close"
    /\ state' = "closed"
    /\ Return(c, call[c].result)
    /\ UNCHANGED <<failures, cooled, outcome, recorded>>

ReadCount(c) ==
    /\ call[c].pc = "readCount"
    /\ call' = [call EXCEPT ![c].pc = "writeCount", ![c].local = failures]
    /\ UNCHANGED <<breaker, outcome, recorded>>

WriteCount(c) ==
    /\ call[c].pc = "writeCount"
    /\ failures' = Saturated(call[c].local)
    /\ cooled' = FALSE
    /\ recorded' = Saturated(recorded)
    /\ Goto(c, "trip")
    /\ UNCHANGED <<state, outcome>>

\* Mutant: the circuit opens one failure early.
TripEarly(c) ==
    /\ call[c].pc = "trip"
    /\ IF failures + 1 >= MaxFailures THEN Goto(c, "open") ELSE Return(c, "error")
    /\ UNCHANGED <<breaker, outcome, recorded>>

\* Mutant: the circuit opens and failureCount runs past its limit.
TripCounts(c) ==
    /\ call[c].pc = "trip"
    /\ IF failures >= MaxFailures THEN Goto(c, "open") ELSE Return(c, "error")
    /\ failures' = IF failures >= MaxFailures THEN failures + 1 ELSE failures
    /\ UNCHANGED <<state, cooled, outcome, recorded>>

Trip(c) ==
    /\ call[c].pc = "trip"
    /\ IF failures >= MaxFailures THEN Goto(c, "open") ELSE Return(c, "error")
    /\ UNCHANGED <<breaker, outcome, recorded>>

\* The count may have been reset since it was compared.
OpenCircuit(c) ==
    /\ call[c].pc = "open"
    /\ state' = "open"
    /\ Return(c, "error")
    /\ UNCHANGED <<failures, cooled, outcome, recorded>>

-----------------------------------------------------------------------------
OutcomeChange ==
    /\ \E o \in Outcomes \ {outcome} : outcome' = o
    /\ UNCHANGED <<breaker, call, recorded>>

\* The steps of a call under way.
CallStep(c) ==
    \/ CheckState(c) \/ CheckTimeout(c) \/ HalfOpen(c) \/ Answer(c) \/ Retry(c) \/ CancelWait(c)
    \/ ResetCount(c) \/ CloseCircuit(c) \/ ReadCount(c) \/ WriteCount(c) \/ Trip(c)
    \/ OpenCircuit(c)

-----------------------------------------------------------------------------
\* Lost updates, late successes and late failures notwithstanding, the circuit
\* is never open before RecordFailure has run maxFailures times in all.
TripsOnlyAfterMax == state = "open" => recorded = MaxFailures

\* Once the service answers for good, every client that keeps calling gets
\* answers again and again, and the circuit is in the end closed for good:
\* neither a lost half-open probe nor a race leaves it open (CanExecute,
\* RecordSuccess, RecordFailure).
RecoversWithPeer ==
    <>[](outcome = "ok") =>
        <>[](state = "closed") /\ \A c \in Clients : []<>(call[c].result = "ok")

=============================================================================
