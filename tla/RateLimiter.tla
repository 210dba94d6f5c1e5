----------------------------- MODULE RateLimiter -----------------------------
(***************************************************************************)
(* middleware.RateLimit over RateLimiter.IsAllowed: the requests of one     *)
(* client to one type of endpoint, each served by a goroutine of its own.   *)
(* Every Redis command of IsAllowed is a step; the counter is keyed by the  *)
(* minute in which the request began, so that a request may still be at     *)
(* work on the minute that has just passed.                                 *)
(*                                                                         *)
(* The servers are the nodes of rediscluster, each with keys of its own:    *)
(* Exists, Get and Set go to whichever is selected, the pipeline that       *)
(* increments to the primary client of the moment (Pipeline, selectNode).   *)
(*                                                                         *)
(* The requests run inside a server: Service says when one may begin.       *)
(***************************************************************************)
EXTENDS Naturals, FiniteSets

CONSTANTS
    Requests,    \* goroutines that serve requests
    Servers,     \* Redis servers
    Limit,       \* RequestsPerMinute + BurstAllowance
    BlockTicks,  \* BlockDuration, in ticks
    RedisFails   \* commands to Redis may fail

ASSUME RequestsAssumption == IsFiniteSet(Requests)
ASSUME ServersAssumption == Servers # {} /\ "none" \notin Servers
ASSUME LimitAssumption == Limit \in Nat \ {0} /\ BlockTicks \in Nat \ {0}
ASSUME FailsAssumption == RedisFails \in BOOLEAN

VARIABLES
    request,  \* the requests: how far each is, the minute it counts in, and (history)
              \* the server whose counter of this minute let it through
    count,    \* the counter of this minute on each server, as far as Limit
    block,    \* ticks until the block key of a server expires, 0: there is none
    admitted  \* history: requests of this minute let through by the counter of a
              \* server that they incremented on that server

limiter == <<request, count, block, admitted>>

Minutes == {"this", "last"}

\* As many as the read and the increment, apart, can let through.
AdmittedCap == Limit + Cardinality(Requests) - 1

(***************************************************************************)
(* The type invariant of the limiter.                                      *)
(***************************************************************************)
LimiterTypeOK ==
    /\ request \in [Requests ->
                      [pc : {"idle", "blocked?", "count", "block", "increment", "answer"},
                       minute : Minutes,
                       read : Servers \cup {"none"}]]
    /\ count \in [Servers -> 0..Limit]
    /\ block \in [Servers -> 0..BlockTicks]
    /\ admitted \in [Servers -> Nat]

Idle == [pc |-> "idle", minute |-> "this", read |-> "none"]

LimiterInit ==
    /\ request = [r \in Requests |-> Idle]
    /\ count = [s \in Servers |-> 0]
    /\ block = [s \in Servers |-> 0]
    /\ admitted = [s \in Servers |-> 0]

Goto(r, pc) == request' = [request EXCEPT ![r].pc = pc]

Answer(r, pc) == request' = [request EXCEPT ![r] = [Idle EXCEPT !.pc = pc]]

Deciding(r) == request[r].pc \in {"blocked?", "count", "block", "increment"}

-----------------------------------------------------------------------------
(***************************************************************************)
(* IsAllowed.  Health endpoints have no limit.                             *)
(***************************************************************************)
Begin(r) ==
    /\ request[r].pc = "idle"
    /\ \E pc \in {"blocked?", "answer"} : Answer(r, pc)
    /\ UNCHANGED <<count, block, admitted>>

\* Mutant: a refused request renews the block.
BlockRenewed(r) ==
    /\ request[r].pc = "blocked?"
    /\ \E s \in Servers :
          /\ block' = IF block[s] > 0 THEN [block EXCEPT ![s] = BlockTicks] ELSE block
          /\ IF block[s] > 0 THEN Answer(r, "answer") ELSE Goto(r, "count")
    /\ UNCHANGED <<count, admitted>>

CheckBlock(r) ==
    /\ request[r].pc = "blocked?"
    /\ \E s \in Servers : IF block[s] > 0 THEN Answer(r, "answer") ELSE Goto(r, "count")
    /\ UNCHANGED <<count, block, admitted>>

\* The counter of the minute before, which is not followed, may hold anything.
Counter(r, s) == IF request[r].minute = "this" THEN {count[s]} ELSE 0..Limit

Passes(r, s) ==
    request' = [request EXCEPT ![r].pc = "increment",
                               ![r].read = IF request[r].minute = "this" THEN s ELSE @]

\* Mutant: the limit itself is let through.
AtLimitPasses(r) ==
    /\ request[r].pc = "count"
    /\ \E s \in Servers : \E n \in Counter(r, s) :
          IF n > Limit THEN Goto(r, "block") ELSE Passes(r, s)
    /\ UNCHANGED <<count, block, admitted>>

CheckCount(r) ==
    /\ request[r].pc = "count"
    /\ \E s \in Servers : \E n \in Counter(r, s) :
          IF n >= Limit THEN Goto(r, "block") ELSE Passes(r, s)
    /\ UNCHANGED <<count, block, admitted>>

SetBlock(r) ==
    /\ request[r].pc = "block"
    /\ \E s \in Servers : block' = [block EXCEPT ![s] = BlockTicks]
    /\ Answer(r, "answer")
    /\ UNCHANGED <<count, admitted>>

Incremented(r, s) ==
    count' = IF request[r].minute = "this" /\ count[s] < Limit
               THEN [count EXCEPT ![s] = @ + 1]
               ELSE count

Increment(r) ==
    /\ request[r].pc = "increment"
    /\ \E s \in Servers :
          /\ Incremented(r, s)
          /\ admitted' = IF request[r].read = s THEN [admitted EXCEPT ![s] = @ + 1] ELSE admitted
    /\ Answer(r, "answer")
    /\ UNCHANGED block

\* A command that fails, carried out or not, lets the request through uncounted.
RedisError(r) ==
    /\ RedisFails
    /\ Deciding(r)
    /\ \/ UNCHANGED <<count, block>>
       \/ /\ request[r].pc = "block"
          /\ \E s \in Servers : block' = [block EXCEPT ![s] = BlockTicks]
          /\ UNCHANGED count
       \/ /\ request[r].pc = "increment"
          /\ \E s \in Servers : Incremented(r, s)
          /\ UNCHANGED block
    /\ Answer(r, "answer")
    /\ UNCHANGED admitted

\* The handler behind the limiter, or the refusal, has been answered.
Finish(r) ==
    /\ request[r].pc = "answer"
    /\ request' = [request EXCEPT ![r] = Idle]
    /\ UNCHANGED <<count, block, admitted>>

-----------------------------------------------------------------------------
(***************************************************************************)
(* Time.  How many ticks a minute has is left open.  IsAllowed ends before a *)
(* second minute does (the client's time-outs are below that).              *)
(***************************************************************************)
LimiterTick ==
    /\ \E s \in Servers : block[s] > 0
    /\ block' = [s \in Servers |-> IF block[s] > 0 THEN block[s] - 1 ELSE 0]
    /\ UNCHANGED <<request, count, admitted>>

NextMinute ==
    /\ \A r \in Requests : request[r].minute = "this"
    /\ request' = [r \in Requests |->
                     IF Deciding(r)
                       THEN [request[r] EXCEPT !.minute = "last", !.read = "none"]
                       ELSE request[r]]
    /\ count' = [s \in Servers |-> 0]
    /\ admitted' = [s \in Servers |-> 0]
    /\ UNCHANGED block

RequestStep(r) ==
    \/ CheckBlock(r) \/ CheckCount(r) \/ SetBlock(r) \/ Increment(r) \/ RedisError(r)
    \/ Finish(r)

TimeStep == LimiterTick \/ NextMinute

-----------------------------------------------------------------------------
\* Requests read the counter, compare and increment in separate commands, so that
\* several may pass on the same value; still, of those that a server's counter lets
\* through and that are counted there, no minute has more than the limit and one less
\* than the requests served at a time (IsAllowed).  With a single server and no error
\* of Redis these are all that pass; not bounded, here or in the code, are those that a
\* Redis error lets through and those counted on another server than they read.
WithinLimit == \A s \in Servers : admitted[s] <= AdmittedCap

=============================================================================
