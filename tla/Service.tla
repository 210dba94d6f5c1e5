------------------------------- MODULE Service -------------------------------
(***************************************************************************)
(* The life of a service process: app.New wires the resources, the service  *)
(* hands its background tasks to the lifecycle.Manager (a tomb), App.Run    *)
(* serves HTTP until a signal has been handled, and App.Close releases what *)
(* New tracked.  The requests are RateLimiter's: the server lets them begin  *)
(* while it listens, and the shutdown waits for them, five seconds at most. *)
(***************************************************************************)
EXTENDS RateLimiter, Sequences

CONSTANTS
    Tasks,  \* what the service starts before Run, in any order
    Wanted  \* the resources New is asked for

ASSUME WantedAssumption == Wanted \subseteq {"db", "pub", "sub", "audit"}
ASSUME TasksAssumption == IsFiniteSet(Tasks)

\* The order in which New creates them.
Part(x) == IF x \in Wanted THEN <<x>> ELSE <<>>

Order == Part("db") \o Part("pub") \o Part("sub") \o Part("audit")

VARIABLES
    main,      \* the main goroutine: where it is, and the resource New is at
    resource,  \* the resources
    closers,   \* a.closers
    task,      \* the background tasks
    http,      \* the goroutine of the HTTP server
    tomb,      \* the tomb: goroutines alive, dying, dead
    late       \* history: the shutdown did not wait for every request

tracked == <<task, http, tomb>>
process == <<main, resource, closers, tracked, late>>
vars == <<limiter, process>>

\* What runs in a goroutine of the tomb: the function given to StartEventSubscriber, its
\* wait for Dying, a periodic task, a function given to Go.
Alive == {"subscribing", "waiting", "periodic", "plain"}

(***************************************************************************)
(* The one type invariant of the module.                                   *)
(***************************************************************************)
TypeOK ==
    /\ LimiterTypeOK
    /\ main \in [pc : {"new", "start", "run", "drain", "cleanup", "wait", "close", "exited"},
                 at : 1..(Len(Order) + 1)]
    /\ resource \in [Wanted -> {"none", "open", "closed"}]
    /\ closers \in Seq(Wanted) /\ Len(closers) <= Len(Order)
    /\ task \in [Tasks -> Alive \cup {"new", "ended"}]
    /\ http \in {"new", "listening", "closed", "ended"}
    /\ tomb \in [alive : Nat, dying : BOOLEAN, dead : BOOLEAN]
    /\ tomb.alive = Cardinality({t \in Tasks : task[t] \in Alive})
                    + (IF http \in {"listening", "closed"} THEN 1 ELSE 0)
    /\ late \in BOOLEAN

Init ==
    /\ LimiterInit
    /\ main = [pc |-> "new", at |-> 1]
    /\ resource = [x \in Wanted |-> "none"]
    /\ closers = <<>>
    /\ task = [t \in Tasks |-> "new"]
    /\ http = "new"
    /\ tomb = [alive |-> 0, dying |-> FALSE, dead |-> FALSE]
    /\ late = FALSE

Enter(pc) == main' = [main EXCEPT !.pc = pc]

-----------------------------------------------------------------------------
(***************************************************************************)
(* New: setupDatabase and setupMessaging.  Whether a resource is required or *)
(* optional is an input of its step (the database has no such choice).  An  *)
(* error makes New call Close.                                             *)
(***************************************************************************)
AtResource(x) == main.pc = "new" /\ main.at <= Len(Order) /\ Order[main.at] = x

Proceed == main' = [main EXCEPT !.at = @ + 1]

\* The audit client is not given a closer.
Track(x) == closers' = IF x = "audit" THEN closers ELSE Append(closers, x)

Create(x) ==
    /\ AtResource(x)
    /\ resource' = [resource EXCEPT ![x] = "open"]
    /\ Track(x)
    /\ Proceed
    /\ UNCHANGED <<tracked, late>>

\* Optional and refused; required and refused.
Lacks(x) ==
    /\ AtResource(x)
    /\ (x # "db" /\ Proceed) \/ Enter("close")
    /\ UNCHANGED <<resource, closers, tracked, late>>

\* No writer, or the migration fails: the manager is open and tracked by then.
DatabaseFails ==
    /\ AtResource("db")
    /\ resource' = [resource EXCEPT !["db"] = "open"]
    /\ Track("db")
    /\ Enter("close")
    /\ UNCHANGED <<tracked, late>>

\* The configuration of the brokers does not load: an error, unless every part of
\* messaging asked for is optional, which leaves messaging out as a whole.
ConfigFails ==
    /\ main.pc = "new"
    /\ main.at <= Len(Order)
    /\ \A i \in 1..(main.at - 1) : Order[i] = "db"
    /\ Order[main.at] # "db"
    /\ main' = [main EXCEPT !.at = Len(Order) + 1] \/ Enter("close")
    /\ UNCHANGED <<resource, closers, tracked, late>>

NewReturns ==
    /\ main.pc = "new"
    /\ main.at = Len(Order) + 1
    /\ main' = [pc |-> "start", at |-> 1]
    /\ UNCHANGED <<resource, closers, tracked, late>>

-----------------------------------------------------------------------------
(***************************************************************************)
(* The tomb.  It dies when a goroutine returns an error, or the last one    *)
(* returns; one that is dead takes no other: Go panics.                    *)
(***************************************************************************)
Started == tomb' = [tomb EXCEPT !.alive = @ + 1]

\* Mutant: a goroutine that ends is not counted out.
ReturnedUncounted(failed) ==
    tomb' = [alive |-> tomb.alive,
             dying |-> tomb.dying \/ failed \/ tomb.alive = 1,
             dead |-> tomb.alive = 1]

Returned(failed) ==
    tomb' = [alive |-> tomb.alive - 1,
             dying |-> tomb.dying \/ failed \/ tomb.alive = 1,
             dead |-> tomb.alive = 1]

\* The panic runs the deferred Close.
Panic == Enter("close") /\ UNCHANGED tracked

StartTask(t) ==
    /\ main.pc = "start"
    /\ task[t] = "new"
    /\ IF tomb.dead
         THEN Panic
         ELSE /\ Started
              /\ \E kind \in Alive \ {"waiting"} : task' = [task EXCEPT ![t] = kind]
              /\ UNCHANGED <<main, http>>
    /\ UNCHANGED <<resource, closers, late>>

\* StartEventSubscriber's function has returned nil.
Subscribed(t) ==
    /\ task[t] = "subscribing"
    /\ task' = [task EXCEPT ![t] = "waiting"]
    /\ UNCHANGED <<main, resource, closers, http, tomb, late>>

Ends(t, failed) ==
    /\ task' = [task EXCEPT ![t] = "ended"]
    /\ Returned(failed)
    /\ UNCHANGED <<main, resource, closers, http, late>>

\* A subscriber that fails, a plain goroutine that returns.  The errors of a
\* periodic task are logged and it goes on.
TaskEnds(t) ==
    \/ task[t] = "subscribing" /\ Ends(t, TRUE)
    \/ task[t] = "plain" /\ \E failed \in BOOLEAN : Ends(t, failed)

\* Mutant: a periodic task looks at its ticker only.
PeriodicRunsOn(t) ==
    /\ tomb.dying
    /\ task[t] \in {"waiting", "plain"}
    /\ Ends(t, FALSE)

\* Dying has been seen (plain goroutines are trusted to look).
TaskStops(t) ==
    /\ tomb.dying
    /\ task[t] \in {"waiting", "periodic", "plain"}
    /\ Ends(t, FALSE)

-----------------------------------------------------------------------------
(***************************************************************************)
(* Run: StartHTTPServer, then WaitForShutdownSignal.                       *)
(***************************************************************************)
Run ==
    /\ main.pc = "start"
    /\ IF tomb.dead
         THEN Panic
         ELSE Started /\ http' = "listening" /\ Enter("run") /\ UNCHANGED task
    /\ UNCHANGED <<resource, closers, late>>

\* ListenAndServe fails; requests under way are not touched.
ServerFails ==
    /\ http = "listening"
    /\ http' = "ended"
    /\ Returned(TRUE)
    /\ UNCHANGED <<main, resource, closers, task, late>>

\* The signal: the tomb is killed, then the server is shut down.
Signal ==
    /\ main.pc = "run"
    /\ Enter("drain")
    /\ tomb' = [tomb EXCEPT !.dying = TRUE]
    /\ http' = IF http = "listening" THEN "closed" ELSE http
    /\ UNCHANGED <<resource, closers, task, late>>

ServerReturns ==
    /\ http = "closed"
    /\ http' = "ended"
    /\ Returned(FALSE)
    /\ UNCHANGED <<main, resource, closers, task, late>>

InFlight == {r \in Requests : request[r].pc # "idle"}

Drained ==
    /\ main.pc = "drain"
    /\ InFlight = {}
    /\ Enter("cleanup")
    /\ UNCHANGED <<resource, closers, tracked, late>>

DrainTimesOut ==
    /\ main.pc = "drain"
    /\ InFlight # {}
    /\ late' = TRUE
    /\ Enter("cleanup")
    /\ UNCHANGED <<resource, closers, tracked>>

CleanedUp ==
    /\ main.pc = "cleanup"
    /\ Enter("wait")
    /\ UNCHANGED <<resource, closers, tracked, late>>

\* Mutant: Run returns without waiting for the tomb.
NoWait ==
    /\ main.pc = "wait"
    /\ Enter("close")
    /\ UNCHANGED <<resource, closers, tracked, late>>

\* Wait, and Run returns into the deferred Close.
Wait ==
    /\ main.pc = "wait"
    /\ tomb.dead
    /\ Enter("close")
    /\ UNCHANGED <<resource, closers, tracked, late>>

-----------------------------------------------------------------------------
(***************************************************************************)
(* Close: the closers, last one first.                                     *)
(***************************************************************************)
\* Mutant: first one first.
CloseFirst ==
    /\ main.pc = "close"
    /\ closers # <<>>
    /\ resource' = [resource EXCEPT ![Head(closers)] = "closed"]
    /\ closers' = Tail(closers)
    /\ UNCHANGED <<main, tracked, late>>

CloseLast ==
    LET n == Len(closers)
    IN  /\ main.pc = "close"
        /\ n > 0
        /\ resource' = [resource EXCEPT ![closers[n]] = "closed"]
        /\ closers' = SubSeq(closers, 1, n - 1)
        /\ UNCHANGED <<main, tracked, late>>

Exit ==
    /\ main.pc = "close"
    /\ closers = <<>>
    /\ Enter("exited")
    /\ UNCHANGED <<resource, closers, tracked, late>>

-----------------------------------------------------------------------------
NewStep ==
    \/ \E x \in Wanted : Create(x) \/ Lacks(x)
    \/ ("db" \in Wanted /\ DatabaseFails) \/ ConfigFails \/ NewReturns

ShutdownStep == Drained \/ DrainTimesOut \/ CleanedUp \/ Wait \/ CloseLast \/ Exit

TaskStep(t) == Subscribed(t) \/ TaskEnds(t) \/ TaskStops(t)

ProcessStep ==
    \/ NewStep \/ Run \/ ServerFails \/ Signal \/ ServerReturns \/ ShutdownStep
    \/ \E t \in Tasks : StartTask(t) \/ TaskStep(t)

\* A process that has exited takes no step.  A server lets requests in only while it
\* listens, and the clock of the limiter is followed as long.
Next ==
    /\ main.pc # "exited"
    /\ \/ ProcessStep /\ UNCHANGED limiter
       \/ /\ UNCHANGED process
          /\ \/ \E r \in Requests : RequestStep(r) \/ (http = "listening" /\ Begin(r))
             \/ http = "listening" /\ TimeStep

Spec == Init /\ [][Next]_vars

(***************************************************************************)
(* Fairness.  The shutdown's own steps, goroutines that have been told to   *)
(* stop, the requests and the clock go on; when a task fails, when a signal *)
(* or a request arrives and what New is refused is not up to the code.      *)
(***************************************************************************)
FairSpec ==
    /\ Spec
    /\ WF_vars(ShutdownStep /\ UNCHANGED limiter)
    /\ WF_vars(ServerReturns /\ UNCHANGED limiter)
    /\ \A t \in Tasks : WF_vars((Subscribed(t) \/ TaskStops(t)) /\ UNCHANGED limiter)
    /\ \A r \in Requests : WF_vars(RequestStep(r) /\ UNCHANGED process)
    /\ WF_vars(http = "listening" /\ LimiterTick /\ UNCHANGED process)

-----------------------------------------------------------------------------
(***************************************************************************)
(* The properties.                                                         *)
(***************************************************************************)
ServesRequests == InFlight # {} /\ ~late

\* A resource is closed only when nothing that New, the tomb or the drained server
\* answers for can still be using it: no goroutine of the tomb is alive and, unless
\* the five seconds ran out, no request is being served (WaitForShutdownSignal, Close).
NoUseAfterClose ==
    (\E x \in Wanted : resource[x] = "closed") => tomb.alive = 0 /\ ~ServesRequests

Before(x, y) == \E i, j \in 1..Len(Order) : i < j /\ Order[i] = x /\ Order[j] = y

\* What was created later goes first, whatever New got done before it failed, and a
\* process that ends by itself leaves open what Close does not track, no more (Close).
ReleasedInReverse ==
    /\ \A x, y \in Wanted \ {"audit"} :
          Before(x, y) /\ resource[x] = "closed" => resource[y] # "open"
    /\ main.pc = "exited" => \A x \in Wanted \ {"audit"} : resource[x] # "open"

\* A signal ends the process, whatever became of its tasks, of the server and of the
\* requests under way (WaitForShutdownSignal, Wait and Close).
ShutdownEnds == main.pc = "drain" ~> main.pc = "exited"

\* A client is not kept out for good: while the service listens there is time and again
\* a server without a block, however often the client asks meanwhile and however a block
\* on one server is renewed by requests that asked another (IsAllowed).
BlockEnds == []<>((\E s \in Servers : block[s] = 0) \/ http # "listening")

=============================================================================
