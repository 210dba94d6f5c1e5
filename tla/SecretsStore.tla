----------------------------- MODULE SecretsStore -----------------------------
(***************************************************************************)
(* One secret read through the stack secrets.NewFromEnv builds: Cached(env), *)
(* or Cached(Retrying(Chain(remote, env))) over Vault or Kubernetes.  A read *)
(* of the backend and the store into the cache are separate steps: no lock   *)
(* is held between them.  Time is a tick; values are version numbers, 0      *)
(* standing for the one in the environment.                                *)
(***************************************************************************)
EXTENDS Integers

CONSTANTS
    Callers,    \* goroutines sharing the cached store
    Ops,        \* what they call: "get", "set", "exists"
    TTL,        \* the cache's ttl, in ticks
    MaxLag,     \* bound: ticks between an answer of the backend and its store
    MaxVersion, \* bound: writes of the secret
    Backends,   \* SECRETS_BACKEND: "env", "vault", "kubernetes"
    Statuses,   \* how the remote's server answers: "ok", "garbled" (a body that does
                \* not parse), "401", "403", "429", "4xx", "5xx", "lost" (no answer)
    Cancels     \* contexts may end

ASSUME BoundAssumption == TTL \in Nat \ {0} /\ MaxLag \in Nat /\ MaxVersion \in Nat \ {0}
ASSUME FlagAssumption == Cancels \in BOOLEAN
ASSUME BackendAssumption == Backends \subseteq {"env", "vault", "kubernetes"}
ASSUME OpsAssumption == Ops \subseteq {"get", "set", "exists"}
ASSUME StatusAssumption ==
    Statuses \subseteq {"ok", "garbled", "401", "403", "429", "4xx", "5xx", "lost"}

NoValue == -1
Versions == 0..MaxVersion
StaleCap == TTL + MaxLag

VARIABLES
    cache,   \* entries[path]: its value, and the ticks until it expires
    call,    \* the calls under way
    latest,  \* the last version written to the remote store (0: not seeded)
    secret,  \* the remote store holds that version, an empty value, or nothing
    status,  \* the answers of its server
    given,   \* the backend, and whether the environment has a value for the path
    stale    \* history: ticks since the stack last resolved to each version

remote == <<latest, secret, status, given>>
vars == <<cache, call, remote, stale>>

CallStates ==
    [pc : {"idle", "lookup", "read", "backoff", "store", "write", "create"}, op : {"none", "get", "set", "exists"},
     value : Versions \cup {NoValue}, lag : 0..MaxLag,
     result : {"none", "value", "yes", "no", "missing", "down", "denied", "broken", "readonly", "cancelled"}]

(***************************************************************************)
(* The one type invariant of the module.                                   *)
(***************************************************************************)
TypeOK ==
    /\ cache \in [value : Versions \cup {NoValue}, left : 0..TTL]
    /\ call \in [Callers -> CallStates]
    /\ latest \in Versions
    /\ secret \in {"absent", "empty", "live"}
    /\ status \in Statuses
    /\ given \in [backend : Backends, env : BOOLEAN]
    /\ stale \in [Versions -> 0..StaleCap]

Idle == [pc |-> "idle", op |-> "none", value |-> NoValue, lag |-> 0, result |-> "none"]

Init ==
    /\ cache = [value |-> NoValue, left |-> 0]
    /\ call = [c \in Callers |-> Idle]
    /\ latest = 0
    /\ secret = "absent"
    /\ status \in Statuses
    /\ given \in [backend : Backends, env : BOOLEAN]
    /\ stale = [v \in Versions |-> 0]

Reach(c, pc, result, value) ==
    call' = [call EXCEPT ![c] = [pc |-> pc, op |-> call[c].op, value |-> value, lag |-> 0, result |-> result]]

Return(c, result, value) == Reach(c, "idle", result, value)

\* The answer is there, and has yet to reach the cache.
Hold(c, value) == Reach(c, "store", "none", value)

-----------------------------------------------------------------------------
(***************************************************************************)
(* What one round of Chain(remote, env), or the environment alone, answers. *)
(***************************************************************************)
Remote == given.backend # "env"

\* checkStatus, for anything but 200 and 404: Vault does not know of 401.
Refusal ==
    CASE status \in {"429", "5xx", "lost"} -> "down"
      [] status = "403" -> "denied"
      [] status = "401" /\ given.backend = "kubernetes" -> "denied"
      [] OTHER -> "broken"

Answer(result) == [result |-> result, value |-> NoValue]

RemoteGet ==
    CASE status \in {"ok", "garbled"} /\ secret = "absent" -> Answer("missing")
      [] status = "ok" /\ secret = "empty" -> Answer("missing")
      [] status = "ok" /\ secret = "live" -> [result |-> "value", value |-> latest]
      [] OTHER -> Answer(Refusal)

EnvGet == IF given.env THEN [result |-> "value", value |-> 0] ELSE Answer("missing")

\* Only a missing secret falls through to the environment.
ChainAnswer == IF Remote /\ RemoteGet.result # "missing" THEN RemoteGet ELSE EnvGet

-----------------------------------------------------------------------------
(***************************************************************************)
(* Get and Exists of the cache.                                            *)
(***************************************************************************)
Begin(c) ==
    /\ call[c].pc = "idle"
    /\ \E op \in Ops :
         call' = [call EXCEPT ![c] = [pc |-> IF op = "set" THEN "write" ELSE "lookup",
                                      op |-> op, value |-> NoValue, lag |-> 0, result |-> "none"]]
    /\ UNCHANGED <<cache, remote, stale>>

\* Mutant: an entry is used however old it is.
NeverExpires == cache.value # NoValue

Fresh == cache.value # NoValue /\ cache.left > 0

Lookup(c) ==
    /\ call[c].pc = "lookup"
    /\ IF Fresh
         THEN Return(c, IF call[c].op = "get" THEN "value" ELSE "yes", cache.value)
         ELSE call' = [call EXCEPT ![c].pc = "read"]
    /\ UNCHANGED <<cache, remote, stale>>

\* Mutant: an unreachable store ends the call at once.
TransientOnlyMissing(result) == Remote /\ result = "missing"

\* What Retrying.Get waits and tries again for; the environment is not retried.
Transient(result) == Remote /\ result \in {"missing", "down"}

Read(c) ==
    /\ call[c].pc = "read"
    /\ call[c].op = "get"
    /\ LET answer == ChainAnswer IN
         IF answer.result = "value"
           THEN Hold(c, answer.value)
           ELSE IF Transient(answer.result)
                  THEN call' = [call EXCEPT ![c].pc = "backoff"]
                  ELSE Return(c, answer.result, NoValue)
    /\ UNCHANGED <<cache, remote, stale>>

ReadExists(c) ==
    /\ call[c].pc = "read"
    /\ call[c].op = "exists"
    /\ Return(c, CASE ChainAnswer.result = "value" -> "yes"
                   [] ChainAnswer.result = "missing" -> "no"
                   [] OTHER -> ChainAnswer.result, NoValue)
    /\ UNCHANGED <<cache, remote, stale>>

Retry(c) ==
    /\ call[c].pc = "backoff"
    /\ call' = [call EXCEPT ![c].pc = "read"]
    /\ UNCHANGED <<cache, remote, stale>>

CancelBackoff(c) ==
    /\ Cancels
    /\ call[c].pc = "backoff"
    /\ Return(c, "cancelled", NoValue)
    /\ UNCHANGED <<cache, remote, stale>>

-----------------------------------------------------------------------------
(***************************************************************************)
(* Set writes the remote store, then the cache; store ends Get and Set.  A   *)
(* Kubernetes secret is patched, and created if it was not there; whoever    *)
(* finds it there by then is told so.  A request that gets no answer may     *)
(* have been carried out.                                                  *)
(***************************************************************************)
\* A version becomes the one the stack resolves to; the one before starts to age.
Publish ==
    /\ latest < MaxVersion
    /\ latest' = latest + 1
    /\ secret' = "live"
    /\ stale' = [stale EXCEPT ![latest + 1] = 0]

Unwritten == UNCHANGED <<latest, secret, stale>>

Written(c) == Publish /\ Hold(c, latest + 1)

Refused(c, applies) ==
    /\ Return(c, Refusal, NoValue)
    /\ Unwritten \/ (status = "lost" /\ applies /\ Publish)

Takes == status \in {"ok", "garbled"}

Write(c) ==
    LET applies == given.backend = "vault" \/ secret # "absent"
    IN  /\ call[c].pc = "write"
        /\ \/ ~Remote /\ Return(c, "readonly", NoValue) /\ Unwritten
           \/ Remote /\ Takes /\ applies /\ Written(c)
           \/ Remote /\ Takes /\ ~applies /\ call' = [call EXCEPT ![c].pc = "create"] /\ Unwritten
           \/ Remote /\ ~Takes /\ Refused(c, applies)
        /\ UNCHANGED <<cache, status, given>>

CreateSecret(c) ==
    /\ call[c].pc = "create"
    /\ \/ Takes /\ secret = "absent" /\ Written(c)
       \/ Takes /\ secret # "absent" /\ Return(c, "broken", NoValue) /\ Unwritten
       \/ ~Takes /\ Refused(c, secret = "absent")
    /\ UNCHANGED <<cache, status, given>>

\* Mutant: entries get twice the time to live.
StoreForLonger(c) ==
    /\ call[c].pc = "store"
    /\ cache' = [value |-> call[c].value, left |-> 2 * TTL]
    /\ Return(c, "value", call[c].value)
    /\ UNCHANGED <<remote, stale>>

Store(c) ==
    /\ call[c].pc = "store"
    /\ cache' = [value |-> call[c].value, left |-> TTL]
    /\ Return(c, "value", call[c].value)
    /\ UNCHANGED <<remote, stale>>

-----------------------------------------------------------------------------
(***************************************************************************)
(* The environment: rotation by another process, outages, revocation, time. *)
(***************************************************************************)
Rotate ==
    /\ Remote
    /\ Publish
    /\ UNCHANGED <<cache, call, status, given>>

\* An operator writes an empty value, or deletes the secret.  Either is ErrNotFound, and
\* the chain falls through to the environment, whatever was written before.
Revoke ==
    /\ secret = "live"
    /\ secret' \in {"empty", "absent"}
    /\ stale' = IF given.env THEN [stale EXCEPT ![0] = 0] ELSE stale
    /\ UNCHANGED <<cache, call, latest, status, given>>

StatusChange ==
    /\ Remote
    /\ status' \in Statuses \ {status}
    /\ UNCHANGED <<cache, call, latest, secret, given, stale>>

\* The version the stack resolves to when the remote store answers: without a live
\* secret, never seeded or revoked, it is the one in the environment.
Current == IF secret = "live" THEN latest ELSE IF given.env THEN 0 ELSE NoValue

Tick ==
    /\ \A c \in Callers : call[c].pc = "store" => call[c].lag < MaxLag
    /\ call' = [c \in Callers |->
                  IF call[c].pc = "store" THEN [call[c] EXCEPT !.lag = @ + 1] ELSE call[c]]
    /\ cache' = [cache EXCEPT !.left = IF @ > 0 THEN @ - 1 ELSE 0]
    /\ stale' = [v \in Versions |->
                   IF v > latest \/ v = Current \/ stale[v] = StaleCap THEN stale[v] ELSE stale[v] + 1]
    /\ UNCHANGED remote

CallStep(c) == Lookup(c) \/ Read(c) \/ ReadExists(c) \/ Retry(c) \/ Write(c) \/ CreateSecret(c)
               \/ Store(c)

Next ==
    \/ \E c \in Callers : Begin(c) \/ CallStep(c) \/ CancelBackoff(c)
    \/ Rotate \/ Revoke \/ StatusChange \/ Tick

Spec == Init /\ [][Next]_vars

(***************************************************************************)
(* Fairness: calls under way go on (both stores' HTTP clients have a        *)
(* timeout, the backoff is a timer).                                       *)
(***************************************************************************)
FairSpec == Spec /\ \A c \in Callers : WF_vars(CallStep(c))

-----------------------------------------------------------------------------
\* A version that was rotated out or revoked is handed out for less than ttl plus the
\* time the answer that brought it took to reach the cache (Get, store, the expiry
\* check), with any number of gets, writes, outages and rotations in between.  The
\* exception is the environment's value: the chain goes back to it when the secret is
\* revoked, and it is bounded only from the time a live secret is there again.
StaleOnlyWithinLag ==
    [][\A c \in Callers :
         call[c].pc = "lookup" /\ call'[c].result = "value"
             => stale[call'[c].value] < TTL + MaxLag]_vars

\* "bootstrap ordering" (Retrying): once the secret is there and the store stays
\* reachable every Get under way ends, and none ends with "missing" or "down",
\* however often the store was unreachable or the secret missing before.
GetsArrive ==
    <>[](secret = "live" /\ status = "ok") =>
        \A c \in Callers :
            call[c].pc # "idle" /\ call[c].op = "get"
                ~> call[c].pc = "idle" /\ call[c].result \notin {"missing", "down"}

=============================================================================
