----------------------------- MODULE HttpTracing -----------------------------
(***************************************************************************)
(* The calls of HttpClient made on behalf of an incoming request, with the    *)
(* trace they carry: middleware.Tracing adopts the caller's trace or starts  *)
(* one, doSingleRequest continues it in every attempt and sends it as        *)
(* headers, which the called service reads the same way.  RequestID,         *)
(* CorrelationID and UserID travel as TraceID does.  The service chain of the *)
(* request's context is a full slice (strings.Split): append copies it.       *)
(***************************************************************************)
EXTENDS HttpClient, Sequences

CONSTANTS
    Callers,  \* what the incoming request comes from: "nobody" (no headers), "svckit",
              \* "w3c" (a traceparent alone), "legacy" (X- headers, identifiers of
              \* another form)
    Absent    \* a header that is not there, an identifier that is empty

ASSUME CallersAssumption == Callers \subseteq {"nobody", "svckit", "w3c", "legacy"}
ASSUME AbsentAssumption == Absent \notin {"hex", "other"} \X (Clients \cup {"caller", "request"}) \X Nat

VARIABLES
    incoming, \* the trace of the request being served
    context,  \* per call: the trace its next attempt continues
    headers   \* per call: the headers it has just sent

tracing == <<incoming, context, headers>>
tracedVars == <<vars, tracing>>

NoTrace == [trace |-> Absent, span |-> Absent, parent |-> Absent, chain |-> <<>>]
NoHeaders == [trace |-> Absent, span |-> Absent, parent |-> Absent, w3c |-> <<>>, chain |-> <<>>]

\* Identifiers: the caller's, of the form of W3C or not, and those generated here: an
\* attempt's span is neither the caller's nor that of the attempt before.
Remote == <<"hex", "caller", 1>>
Opaque == <<"other", "caller", 1>>
Fresh(owner, n) == <<"hex", owner, n>>
NewSpan(c) == Fresh(c, call[c].attempt)

\* Traceparent: only identifiers of the right form are rendered.
Traceparent(t) == IF t.trace[1] = "hex" THEN <<t.trace, t.span>> ELSE <<>>

ToHeaders(t) ==
    [trace |-> t.trace, span |-> t.span, parent |-> t.parent, w3c |-> Traceparent(t),
     chain |-> t.chain]

\* A traceparent wins; what it names is the caller's span.
TraceContextFromHeaders(h, id) ==
    IF h.w3c = <<>>
      THEN [trace |-> h.trace, span |-> h.span, parent |-> h.parent, chain |-> h.chain]
      ELSE [trace |-> h.w3c[1], span |-> IF h.span = Absent THEN id ELSE h.span,
            parent |-> h.w3c[2], chain |-> h.chain]

\* The trace in the context, if there is one, goes on with a span of its own.
NewTraceContext(existing, id) ==
    IF existing # NoTrace
      THEN [existing EXCEPT !.span = id, !.parent = existing.span]
      ELSE [trace |-> id, span |-> id, parent |-> Absent, chain |-> <<>>]

AddToServiceChain(t, name) == [t EXCEPT !.chain = Append(@, name)]

\* The headers of a remote caller.
Received(caller) ==
    CASE caller = "nobody" -> NoHeaders
      [] caller = "svckit" ->
           ToHeaders([trace |-> Remote, span |-> Remote, parent |-> Absent, chain |-> <<"remote">>])
      [] caller = "w3c" -> [NoHeaders EXCEPT !.w3c = <<Remote, Remote>>]
      [] caller = "legacy" ->
           ToHeaders([trace |-> Opaque, span |-> Remote, parent |-> Absent, chain |-> <<"remote">>])

\* middleware.Tracing.
Tracing(h, id) ==
    LET t == TraceContextFromHeaders(h, id) IN IF t.trace = Absent THEN NewTraceContext(NoTrace, id) ELSE t

TracedInit ==
    /\ Init
    /\ incoming \in {Tracing(Received(caller), Fresh("request", 1)) : caller \in Callers} \cup {NoTrace}
    /\ context = [c \in Clients |-> NoTrace]
    /\ headers = [c \in Clients |-> NoHeaders]

-----------------------------------------------------------------------------
TracedStart(c) ==
    /\ Start(c)
    /\ context' = [context EXCEPT ![c] = incoming]
    /\ headers' = [headers EXCEPT ![c] = NoHeaders]
    /\ UNCHANGED incoming

Attempt(c) == AddToServiceChain(NewTraceContext(context[c], NewSpan(c)), c)

\* Mutant: an attempt goes on where the one before it ended.
SendAccumulates(c) ==
    IF call[c].pc = "send" /\ outcome # "local"
      THEN /\ headers' = [headers EXCEPT ![c] = ToHeaders(Attempt(c))]
           /\ context' = [context EXCEPT ![c] = Attempt(c)]
      ELSE headers' = [headers EXCEPT ![c] = NoHeaders] /\ UNCHANGED context

\* doSingleRequest: every attempt continues the trace of the call's context; a request
\* that cannot be built is not sent.
Send(c) ==
    /\ headers' = [headers EXCEPT ![c] =
                     IF call[c].pc = "send" /\ outcome # "local" THEN ToHeaders(Attempt(c)) ELSE NoHeaders]
    /\ UNCHANGED context

TracedStep(c) == CallStep(c) /\ Send(c) /\ UNCHANGED incoming

Environment == (Cool \/ OutcomeChange) /\ UNCHANGED tracing

Next ==
    \/ \E c \in Clients : TracedStart(c) \/ TracedStep(c)
    \/ Environment

Spec == TracedInit /\ [][Next]_tracedVars

(***************************************************************************)
(* Fairness: calls under way go on (the http.Client has a timeout), time    *)
(* passes, and the callers of interest call again and again.                *)
(***************************************************************************)
FairSpec ==
    /\ Spec
    /\ \A c \in Clients : WF_tracedVars(TracedStep(c)) /\ WF_tracedVars(TracedStart(c))
    /\ WF_tracedVars(Cool /\ UNCHANGED tracing)

-----------------------------------------------------------------------------
\* Whatever the caller sent, the service called by any attempt of any of the concurrent
\* calls finds the trace of the incoming request (or, without one, a trace of that attempt),
\* a chain with one name more, a span of the attempt, and the span of the request as its
\* parent: attempts neither add up nor get mixed up, and a trace without traceparent is
\* understood as well (NewTraceContext, ToHeaders, TraceContextFromHeaders).
TraceFollowsCalls ==
    \A c \in Clients : headers[c] # NoHeaders =>
        LET peer == Tracing(headers[c], Fresh("peer", 1)) IN
        /\ peer.trace = IF incoming = NoTrace THEN headers[c].span ELSE incoming.trace
        /\ peer.chain = Append(incoming.chain, c)
        /\ peer.span \in {Fresh(c, n) : n \in 0..MaxRetries}
        /\ headers[c].parent = incoming.span

=============================================================================
