-------------------------- MODULE SecretsStoreProofs --------------------------
(***************************************************************************)
(* How old a secret can be when the cache hands it out, for every number of  *)
(* callers and of writes, every time to live and every lag.  Two            *)
(* invariants: StoredInv, the types and which calls can be where; AgeInv,    *)
(* which follows a value from the backend through a call into the cache and  *)
(* bounds its age at each of the three places.                             *)
(***************************************************************************)
EXTENDS SecretsStore, TLAPS

USE BoundAssumption, FlagAssumption, BackendAssumption, OpsAssumption, StatusAssumption

Known == Versions \cup {NoValue}
Results == {"none", "value", "yes", "no", "missing", "down", "denied", "broken", "readonly", "cancelled"}

\* Only a remote store is written, and it holds nothing before it is.
StoredInv ==
    /\ TypeOK
    /\ latest > 0 => Remote
    /\ latest = 0 => secret = "absent"
    /\ \A c \in Callers : call[c].pc = "create" => Remote
    /\ \A c \in Callers : call[c].pc = "lookup" => call[c].result = "none"

\* The version the stack resolves to does not age.
CurrentInv == IF secret = "live" THEN stale[latest] = 0 ELSE given.env => stale[0] = 0

\* An answer on its way to the cache was current when it was read, and a cached one
\* when it began its way: both age no faster than the clock they carry.
HeldInv == \A c \in Callers : call[c].pc = "store" => call[c].value \in Versions /\ stale[call[c].value] <= call[c].lag
CachedInv == cache.value # NoValue => stale[cache.value] <= MaxLag + (TTL - cache.left)

AgeInv == CurrentInv /\ HeldInv /\ CachedInv

-----------------------------------------------------------------------------
(***************************************************************************)
(* What a step does to the calls.                                          *)
(***************************************************************************)
\* Call c, and no other, goes on; where it is now says what is known of it.
Moves(c) ==
    /\ call' \in [Callers -> CallStates]
    /\ \A d \in Callers \ {c} : call'[d] = call[d]

LEMMA ReachMoves ==
    ASSUME TypeOK, NEW c \in Callers, NEW pc \in {"idle", "store"}, NEW result \in Results, NEW value \in Known,
           Reach(c, pc, result, value)
    PROVE  /\ Moves(c) /\ call'[c].pc = pc /\ call'[c].result = result /\ call'[c].value = value
           /\ call'[c].lag = 0
<1> DEFINE new == [pc |-> pc, op |-> call[c].op, value |-> value, lag |-> 0, result |-> result]
<1>1. call[c].op \in {"none", "get", "set", "exists"}
  BY DEF TypeOK, CallStates
<1>2. new \in CallStates /\ new.pc = pc /\ new.result = result /\ new.value = value /\ new.lag = 0
  BY <1>1 DEF CallStates, Known, Results
<1>3. call' = [call EXCEPT ![c] = new]
  BY DEF Reach
<1> HIDE DEF new
<1>4. QED
  BY <1>2, <1>3 DEF Moves, TypeOK

LEMMA GotoMoves ==
    ASSUME TypeOK, NEW c \in Callers, NEW pc \in {"read", "backoff", "create"}, call' = [call EXCEPT ![c].pc = pc]
    PROVE  Moves(c) /\ call'[c].pc = pc /\ call'[c].result = call[c].result
<1> DEFINE went == [call[c] EXCEPT !.pc = pc]
<1>1. call[c] \in CallStates
  BY DEF TypeOK
<1>2. went \in CallStates /\ went.pc = pc /\ went.result = call[c].result
  BY <1>1 DEF CallStates
<1>3. call' = [call EXCEPT ![c] = went]
  OBVIOUS
<1> HIDE DEF went
<1>4. QED
  BY <1>2, <1>3 DEF Moves, TypeOK

LEMMA BeginMoves ==
    ASSUME TypeOK, NEW c \in Callers, Begin(c)
    PROVE  Moves(c) /\ call'[c].pc \in {"write", "lookup"} /\ call'[c].result = "none"
<1> DEFINE new(op) == [pc |-> IF op = "set" THEN "write" ELSE "lookup",
                       op |-> op, value |-> NoValue, lag |-> 0, result |-> "none"]
<1>1. PICK op \in Ops : call' = [call EXCEPT ![c] = new(op)]
  BY DEF Begin
<1> DEFINE begun == new(op)
<1>3. begun \in CallStates /\ begun.pc \in {"write", "lookup"} /\ begun.result = "none"
  BY DEF CallStates
<1>4. call' = [call EXCEPT ![c] = begun]
  BY <1>1
<1> HIDE DEF begun
<1>5. QED
  BY <1>3, <1>4 DEF Moves, TypeOK

-----------------------------------------------------------------------------
(***************************************************************************)
(* What the chain answers, and all that a step of a call can do.           *)
(***************************************************************************)
LEMMA AnswerKnown ==
    ASSUME TypeOK
    PROVE  /\ Refusal \in {"down", "denied", "broken"}
           /\ ChainAnswer.result \in {"value", "missing", "down", "denied", "broken"}
           /\ ChainAnswer.result = "value" => ChainAnswer.value \in Versions
<1>1. Refusal \in {"down", "denied", "broken"}
  BY DEF Refusal
<1>2. /\ RemoteGet.result \in {"value", "missing", "down", "denied", "broken"}
      /\ RemoteGet.result = "value" => RemoteGet.value \in Versions
  <2>1. RemoteGet \in {Answer("missing"), Answer(Refusal), [result |-> "value", value |-> latest]}
    BY DEF RemoteGet
  <2>2. QED
    BY <1>1, <2>1 DEF Answer, TypeOK
<1>3. /\ EnvGet.result \in {"value", "missing"}
      /\ EnvGet.result = "value" => EnvGet.value \in Versions
  BY DEF EnvGet, Answer, Versions
<1>4. QED
  BY <1>1, <1>2, <1>3 DEF ChainAnswer

\* The backend is left alone, or is a remote one and has a new version.
BackendStep == Unwritten \/ (Remote /\ Publish)

\* An answer that was read, or the version that was just written.
Obtained(value) ==
    \/ Unwritten /\ ChainAnswer.result = "value" /\ value = ChainAnswer.value
    \/ Publish /\ value = latest + 1

CallerEffect(c) ==
    /\ Moves(c) /\ UNCHANGED <<status, given>>
    /\ BackendStep
    /\ cache' = cache \/ (call[c].pc = "store" /\ cache' = [value |-> call[c].value, left |-> TTL])
    /\ call'[c].pc = "create" => Remote
    /\ call'[c].pc = "lookup" => call'[c].result = "none"
    /\ call'[c].pc = "store" => Obtained(call'[c].value)
    /\ (call[c].pc = "lookup" /\ call'[c].result = "value") => (Fresh /\ call'[c].value = cache.value)

\* Most steps touch the call alone.
LEMMA CallOnly ==
    ASSUME NEW c \in Callers, Moves(c), UNCHANGED <<cache, remote, stale>>, call'[c].pc \notin {"create", "lookup", "store"},
           call[c].pc # "lookup"
    PROVE  CallerEffect(c)
  BY DEF CallerEffect, BackendStep, Unwritten, remote

LEMMA CallerStep ==
    ASSUME StoredInv, NEW c \in Callers, Begin(c) \/ CallStep(c) \/ CancelBackoff(c)
    PROVE  CallerEffect(c)
<1>0. TypeOK /\ (call[c].pc = "create" => Remote)
  BY DEF StoredInv
<1>1. CASE Begin(c)
  <2>1. Moves(c) /\ call'[c].pc \in {"write", "lookup"} /\ call'[c].result = "none"
    BY <1>0, <1>1, BeginMoves
  <2>2. call[c].pc = "idle" /\ UNCHANGED <<cache, remote, stale>>
    BY <1>1 DEF Begin
  <2>3. QED
    BY <2>1, <2>2 DEF CallerEffect, BackendStep, Unwritten, remote
<1>2. CASE Lookup(c)
  <2>1. call[c].pc = "lookup" /\ UNCHANGED <<cache, remote, stale>>
    BY <1>2 DEF Lookup
  <2>2. CASE Fresh
    <3>1. \E result \in {"value", "yes"} : Return(c, result, cache.value)
      BY <1>2, <2>2 DEF Lookup
    <3>2. Moves(c) /\ call'[c].pc = "idle" /\ call'[c].value = cache.value
      BY <1>0, <3>1, ReachMoves DEF Return, TypeOK, Known, Results
    <3>3. QED
      BY <2>1, <2>2, <3>2 DEF CallerEffect, BackendStep, Unwritten, remote
  <2>3. CASE ~Fresh
    <3>1. call' = [call EXCEPT ![c].pc = "read"]
      BY <1>2, <2>3 DEF Lookup
    <3>2. Moves(c) /\ call'[c].pc = "read" /\ call'[c].result = call[c].result
      BY <1>0, <3>1, GotoMoves
    <3>3. call'[c].result = "none"
      BY <2>1, <3>2 DEF StoredInv
    <3>4. QED
      BY <2>1, <3>2, <3>3 DEF CallerEffect, BackendStep, Unwritten, remote
  <2>4. QED
    BY <2>2, <2>3
<1>3. CASE Read(c)
  <2>1. call[c].pc = "read" /\ UNCHANGED <<cache, remote, stale>>
    BY <1>3 DEF Read
  <2>2. CASE ChainAnswer.result = "value"
    <3>1. Hold(c, ChainAnswer.value) /\ ChainAnswer.value \in Known
      BY <1>0, <1>3, <2>2, AnswerKnown DEF Read, Known
    <3>2. Moves(c) /\ call'[c].pc = "store" /\ call'[c].value = ChainAnswer.value
      BY <1>0, <3>1, ReachMoves DEF Hold, Results
    <3>3. QED
      BY <2>1, <2>2, <3>2 DEF CallerEffect, Obtained, BackendStep, Unwritten, remote
  <2>3. CASE call' = [call EXCEPT ![c].pc = "backoff"]
    <3>1. Moves(c) /\ call'[c].pc = "backoff"
      BY <1>0, <2>3, GotoMoves
    <3>2. QED
      BY <2>1, <3>1, CallOnly
  <2>4. CASE Return(c, ChainAnswer.result, NoValue)
    <3>1. Moves(c) /\ call'[c].pc = "idle"
      BY <1>0, <2>4, AnswerKnown, ReachMoves DEF Return, Results, Known
    <3>2. QED
      BY <2>1, <3>1, CallOnly
  <2>5. QED
    BY <1>3, <2>2, <2>3, <2>4 DEF Read
<1>4. CASE ReadExists(c)
  <2>1. call[c].pc = "read" /\ UNCHANGED <<cache, remote, stale>>
    BY <1>4 DEF ReadExists
  <2>2. PICK result \in Results : Return(c, result, NoValue)
    BY <1>0, <1>4, AnswerKnown DEF ReadExists, Results
  <2>3. Moves(c) /\ call'[c].pc = "idle"
    BY <1>0, <2>2, ReachMoves DEF Return, Known
  <2>4. QED
    BY <2>1, <2>3, CallOnly
<1>5. CASE Retry(c) \/ CancelBackoff(c)
  <2>1. call[c].pc = "backoff" /\ UNCHANGED <<cache, remote, stale>>
    BY <1>5 DEF Retry, CancelBackoff
  <2>2. Moves(c) /\ call'[c].pc \in {"read", "idle"}
    BY <1>0, <1>5, GotoMoves, ReachMoves DEF Retry, CancelBackoff, Return, Results, Known
  <2>3. QED
    BY <2>1, <2>2, CallOnly
\* A write is carried out, refused, or goes on to create the secret.
<1>6. ASSUME Written(c), Remote, call[c].pc # "lookup", UNCHANGED <<cache, status, given>>
      PROVE  CallerEffect(c)
  <2>1. Publish /\ Hold(c, latest + 1) /\ latest + 1 \in Known
    BY <1>0, <1>6 DEF Written, Publish, TypeOK, Versions, Known
  <2>2. Moves(c) /\ call'[c].pc = "store" /\ call'[c].value = latest + 1
    BY <1>0, <2>1, ReachMoves DEF Hold, Results
  <2>3. QED
    BY <1>6, <2>1, <2>2 DEF CallerEffect, BackendStep, Obtained
<1>7. ASSUME NEW result \in Results, Return(c, result, NoValue), BackendStep, call[c].pc # "lookup",
             UNCHANGED <<cache, status, given>>
      PROVE  CallerEffect(c)
  <2>1. Moves(c) /\ call'[c].pc = "idle"
    BY <1>0, <1>7, ReachMoves DEF Return, Known
  <2>2. QED
    BY <1>7, <2>1 DEF CallerEffect
<1>8. ASSUME NEW applies, Refused(c, applies), Remote, call[c].pc # "lookup", UNCHANGED <<cache, status, given>>
      PROVE  CallerEffect(c)
  <2>1. Return(c, Refusal, NoValue) /\ Refusal \in Results /\ BackendStep
    BY <1>0, <1>8, AnswerKnown DEF Refused, BackendStep, Results
  <2>2. QED
    BY <1>7, <1>8, <2>1
<1>9. CASE Write(c)
  <2>1. call[c].pc = "write" /\ UNCHANGED <<cache, status, given>>
    BY <1>9 DEF Write
  <2>2. CASE Remote /\ call' = [call EXCEPT ![c].pc = "create"] /\ Unwritten
    <3>1. Moves(c) /\ call'[c].pc = "create"
      BY <1>0, <2>2, GotoMoves
    <3>2. QED
      BY <2>1, <2>2, <3>1 DEF CallerEffect, BackendStep
  <2>3. CASE Return(c, "readonly", NoValue) /\ Unwritten
    BY <1>7, <2>1, <2>3 DEF Results, BackendStep
  <2>4. QED
    BY <1>6, <1>8, <1>9, <2>1, <2>2, <2>3 DEF Write
<1>10. CASE CreateSecret(c)
  <2>1. call[c].pc = "create" /\ UNCHANGED <<cache, status, given>> /\ Remote
    BY <1>0, <1>10 DEF CreateSecret
  <2>2. CASE Return(c, "broken", NoValue) /\ Unwritten
    BY <1>7, <2>1, <2>2 DEF Results, BackendStep
  <2>3. QED
    BY <1>6, <1>8, <1>10, <2>1, <2>2 DEF CreateSecret
<1>11. CASE Store(c)
  <2>1. /\ call[c].pc = "store" /\ UNCHANGED <<remote, stale>>
        /\ cache' = [value |-> call[c].value, left |-> TTL] /\ Return(c, "value", call[c].value)
    BY <1>11 DEF Store
  <2>2. call[c].value \in Known
    BY <1>0 DEF TypeOK, CallStates, Known
  <2>3. Moves(c) /\ call'[c].pc = "idle"
    BY <1>0, <2>1, <2>2, ReachMoves DEF Return, Results
  <2>4. QED
    BY <2>1, <2>3 DEF CallerEffect, BackendStep, Unwritten, remote
<1>12. QED
  BY <1>1, <1>2, <1>3, <1>4, <1>5, <1>9, <1>10, <1>11 DEF CallStep

-----------------------------------------------------------------------------
(***************************************************************************)
(* Types, and which calls can be where.                                    *)
(***************************************************************************)
\* The two ends of the backend's history: a new version is not stale, and no other
\* gets older by it.
LEMMA PublishEffect ==
    ASSUME TypeOK, Publish
    PROVE  /\ latest' \in Versions /\ latest' = latest + 1 /\ latest' > 0 /\ secret' = "live"
           /\ stale' \in [Versions -> 0..StaleCap] /\ stale'[latest'] = 0
           /\ \A v \in Versions : stale'[v] <= stale[v]
<1>1. latest + 1 \in Versions /\ latest' = latest + 1 /\ secret' = "live" /\ latest + 1 > 0
  BY DEF TypeOK, Publish, Versions
<1>2. 0 \in 0..StaleCap /\ \A v \in Versions : stale[v] \in 0..StaleCap /\ stale[v] >= 0 /\ stale[v] <= stale[v]
  BY DEF TypeOK, StaleCap
<1>3. stale' = [stale EXCEPT ![latest + 1] = 0]
  BY DEF Publish
<1>4. QED
  BY <1>1, <1>2, <1>3 DEF TypeOK

LEMMA BackendTypes ==
    ASSUME StoredInv, BackendStep, UNCHANGED given
    PROVE  /\ latest' \in Versions /\ secret' \in {"absent", "empty", "live"} /\ stale' \in [Versions -> 0..StaleCap]
           /\ latest' > 0 => Remote'
           /\ latest' = 0 => secret' = "absent"
<1>1. CASE Unwritten
  BY <1>1 DEF StoredInv, TypeOK, Unwritten, Remote
<1>2. CASE Remote /\ Publish
  BY <1>2, PublishEffect DEF StoredInv, Remote
<1>3. QED
  BY <1>1, <1>2 DEF BackendStep

LEMMA InitStored == Init => StoredInv
<1> SUFFICES ASSUME Init PROVE StoredInv
  OBVIOUS
<1>1. Idle \in CallStates /\ Idle.pc = "idle"
  BY DEF Idle, CallStates
<1>2. \A c \in Callers : call[c] = Idle
  BY DEF Init
<1>3. call \in [Callers -> CallStates]
  BY <1>1 DEF Init
<1>4. TypeOK
  BY <1>3 DEF Init, TypeOK, Versions, StaleCap
<1>5. QED
  BY <1>1, <1>2, <1>4 DEF StoredInv, Init

\* The clock moves the lag of an answer that has still room, and nothing else of a call.
LEMMA TickEffect ==
    ASSUME TypeOK, Tick
    PROVE  /\ call' \in [Callers -> CallStates]
           /\ \A c \in Callers :
                 /\ call'[c].pc = call[c].pc /\ call'[c].result = call[c].result /\ call'[c].value = call[c].value
                 /\ call[c].pc = "store" => call'[c].lag = call[c].lag + 1
           /\ cache'.value = cache.value /\ cache' \in [value : Known, left : 0..TTL]
           /\ cache'.left = IF cache.left > 0 THEN cache.left - 1 ELSE 0
           /\ stale' \in [Versions -> 0..StaleCap]
           /\ \A v \in Versions : stale'[v] = stale[v] \/ stale'[v] = stale[v] + 1
           /\ \A v \in Versions : v = Current => stale'[v] = stale[v]
           /\ UNCHANGED remote
<1>1. /\ call' \in [Callers -> CallStates]
      /\ \A c \in Callers :
            /\ call'[c].pc = call[c].pc /\ call'[c].result = call[c].result /\ call'[c].value = call[c].value
            /\ call[c].pc = "store" => call'[c].lag = call[c].lag + 1
  <2> DEFINE later(c) == IF call[c].pc = "store" THEN [call[c] EXCEPT !.lag = call[c].lag + 1] ELSE call[c]
  <2>1. call' = [c \in Callers |-> later(c)]
    BY DEF Tick
  <2>2. \A c \in Callers :
          /\ later(c) \in CallStates
          /\ later(c).pc = call[c].pc /\ later(c).result = call[c].result /\ later(c).value = call[c].value
          /\ call[c].pc = "store" => later(c).lag = call[c].lag + 1
    <3> SUFFICES ASSUME NEW c \in Callers
                 PROVE  /\ later(c) \in CallStates
                        /\ later(c).pc = call[c].pc /\ later(c).result = call[c].result /\ later(c).value = call[c].value
                        /\ call[c].pc = "store" => later(c).lag = call[c].lag + 1
      OBVIOUS
    <3>1. call[c] \in CallStates /\ (call[c].pc = "store" => call[c].lag < MaxLag)
      BY DEF TypeOK, Tick
    <3>2. CASE call[c].pc = "store"
      BY <3>1, <3>2 DEF CallStates
    <3>3. CASE call[c].pc # "store"
      BY <3>1, <3>3
    <3>4. QED
      BY <3>2, <3>3
  <2> HIDE DEF later
  <2>3. QED
    BY <2>1, <2>2
<1>2. /\ cache'.value = cache.value /\ cache' \in [value : Known, left : 0..TTL]
      /\ cache'.left = IF cache.left > 0 THEN cache.left - 1 ELSE 0
  <2>1. cache' = [cache EXCEPT !.left = IF cache.left > 0 THEN cache.left - 1 ELSE 0]
    BY DEF Tick
  <2>2. QED
    BY <2>1 DEF TypeOK, Known
<1>3. /\ stale' \in [Versions -> 0..StaleCap]
      /\ \A v \in Versions : stale'[v] = stale[v] \/ stale'[v] = stale[v] + 1
      /\ \A v \in Versions : v = Current => stale'[v] = stale[v]
  <2>1. StaleCap \in Nat
    BY DEF StaleCap
  <2>2. \A v \in Versions : stale[v] \in 0..StaleCap
    BY DEF TypeOK
  <2>3. QED
    BY <2>1, <2>2 DEF Tick
<1>4. QED
  BY <1>1, <1>2, <1>3 DEF Tick

LEMMA StoredStep ==
    StoredInv /\ [Next]_vars => StoredInv'
<1> SUFFICES ASSUME StoredInv, [Next]_vars PROVE StoredInv'
  OBVIOUS
<1>0. TypeOK
  BY DEF StoredInv
<1>1. ASSUME NEW c \in Callers, CallerEffect(c) PROVE StoredInv'
  <2>1. /\ Moves(c) /\ UNCHANGED <<status, given>> /\ BackendStep /\ Remote' = Remote
        /\ call'[c].pc = "create" => Remote
        /\ call'[c].pc = "lookup" => call'[c].result = "none"
    BY <1>1 DEF CallerEffect, Remote
  <2>2. cache' \in [value : Known, left : 0..TTL]
    <3>1. call[c].value \in Known
      BY <1>0 DEF TypeOK, CallStates, Known
    <3>2. QED
      BY <1>0, <1>1, <3>1 DEF CallerEffect, TypeOK, Known
  <2>3. TypeOK'
    BY <1>0, <2>1, <2>2, BackendTypes DEF TypeOK, Moves, Known
  <2>4. \A d \in Callers : /\ call'[d].pc = "create" => Remote'
                           /\ call'[d].pc = "lookup" => call'[d].result = "none"
    BY <2>1 DEF StoredInv, Moves
  <2>5. QED
    BY <2>1, <2>3, <2>4, BackendTypes DEF StoredInv
<1>2. CASE Rotate
  <2>1. BackendStep /\ UNCHANGED <<cache, call, status, given>> /\ Remote' = Remote
    BY <1>2 DEF Rotate, BackendStep, Remote
  <2>2. TypeOK'
    BY <1>0, <2>1, BackendTypes DEF TypeOK
  <2>3. QED
    BY <2>1, <2>2, BackendTypes DEF StoredInv
<1>3. CASE Revoke
  <2>1. /\ UNCHANGED <<cache, call, latest, status, given>> /\ Remote' = Remote
        /\ secret = "live" /\ secret' \in {"empty", "absent"}
        /\ stale' = IF given.env THEN [stale EXCEPT ![0] = 0] ELSE stale
    BY <1>3 DEF Revoke, Remote
  <2>2. stale' \in [Versions -> 0..StaleCap]
    <3>1. 0 \in 0..StaleCap /\ stale \in [Versions -> 0..StaleCap]
      BY <1>0 DEF TypeOK, StaleCap
    <3>2. QED
      BY <2>1, <3>1
  <2>3. TypeOK'
    BY <1>0, <2>1, <2>2 DEF TypeOK
  <2>4. QED
    BY <2>1, <2>3 DEF StoredInv
<1>4. CASE StatusChange
  <2>1. UNCHANGED <<cache, call, latest, secret, given, stale>> /\ Remote' = Remote /\ status' \in Statuses
    BY <1>4 DEF StatusChange, Remote
  <2>2. TypeOK'
    BY <1>0, <2>1 DEF TypeOK
  <2>3. QED
    BY <2>1, <2>2 DEF StoredInv
<1>5. CASE Tick
  <2>1. UNCHANGED <<latest, secret, status, given>> /\ Remote' = Remote
    BY <1>5 DEF Tick, remote, Remote
  <2>2. TypeOK'
    BY <1>0, <1>5, <2>1, TickEffect DEF TypeOK, Known
  <2>3. \A c \in Callers : call'[c].pc = call[c].pc /\ call'[c].result = call[c].result
    BY <1>0, <1>5, TickEffect
  <2>4. QED
    BY <2>1, <2>2, <2>3 DEF StoredInv
<1>6. CASE UNCHANGED vars
  BY <1>6 DEF vars, remote, StoredInv, TypeOK, Remote
<1>7. QED
  BY <1>1, <1>2, <1>3, <1>4, <1>5, <1>6, CallerStep DEF Next

-----------------------------------------------------------------------------
(***************************************************************************)
(* Ages.                                                                   *)
(***************************************************************************)
LEMMA InitAge == Init => AgeInv
<1> SUFFICES ASSUME Init PROVE AgeInv
  OBVIOUS
<1>1. \A c \in Callers : call[c].pc = "idle"
  BY DEF Init, Idle
<1>2. stale[0] = 0
  BY DEF Init, Versions
<1>3. QED
  BY <1>1, <1>2 DEF Init, AgeInv, CurrentInv, HeldInv, CachedInv

\* What the chain answers is what the stack resolves to now, thus not stale.
LEMMA AnswerCurrent ==
    ASSUME StoredInv, CurrentInv, ChainAnswer.result = "value"
    PROVE  ChainAnswer.value \in Versions /\ stale[ChainAnswer.value] = 0
<1>0. TypeOK /\ 0 \in Versions
  BY DEF StoredInv, Versions
<1>1. CASE ChainAnswer = RemoteGet
  <2>1. secret = "live" /\ RemoteGet = [result |-> "value", value |-> latest]
    BY <1>0, <1>1, AnswerKnown DEF RemoteGet, Answer
  <2>2. QED
    BY <1>0, <1>1, <2>1 DEF CurrentInv, TypeOK
<1>2. CASE ChainAnswer = EnvGet /\ (Remote => RemoteGet.result = "missing")
  <2>1. given.env /\ ChainAnswer.value = 0
    BY <1>2 DEF EnvGet, Answer
  <2>2. secret # "live"
    <3>1. CASE Remote
      BY <1>2, <3>1, AnswerKnown, <1>0 DEF RemoteGet, Answer
    <3>2. CASE ~Remote
      BY <1>0, <3>2 DEF StoredInv, TypeOK, Versions
    <3>3. QED
      BY <3>1, <3>2
  <2>3. QED
    BY <1>0, <2>1, <2>2 DEF CurrentInv
<1>3. QED
  BY <1>1, <1>2 DEF ChainAnswer

\* Neither what a call does to the backend nor a rotation makes any version older,
\* and the version the stack resolves to is current afterwards.
LEMMA BackendAges ==
    ASSUME StoredInv, CurrentInv, BackendStep, UNCHANGED given
    PROVE  CurrentInv' /\ \A v \in Versions : stale'[v] <= stale[v]
<1>0. TypeOK /\ \A v \in Versions : stale[v] \in Nat
  BY DEF StoredInv, TypeOK, StaleCap
<1>1. CASE Unwritten
  <2>1. \A v \in Versions : stale'[v] <= stale[v]
    BY <1>0, <1>1 DEF Unwritten
  <2>2. QED
    BY <1>1, <2>1 DEF Unwritten, CurrentInv
<1>2. CASE Remote /\ Publish
  BY <1>0, <1>2, PublishEffect DEF CurrentInv
<1>3. QED
  BY <1>1, <1>2 DEF BackendStep

LEMMA AgeStep == StoredInv /\ AgeInv /\ [Next]_vars => AgeInv'
<1> SUFFICES ASSUME StoredInv, AgeInv, [Next]_vars PROVE AgeInv'
  OBVIOUS
<1>0. /\ TypeOK /\ CurrentInv /\ HeldInv /\ CachedInv
      /\ StaleCap = TTL + MaxLag /\ TTL \in Nat /\ MaxLag \in Nat
      /\ \A v \in Versions : stale[v] \in 0..StaleCap /\ stale[v] \in Nat
      /\ \A c \in Callers : call[c].lag \in 0..MaxLag
      /\ cache.left \in 0..TTL /\ cache.value \in Versions \cup {NoValue}
  BY DEF StoredInv, AgeInv, TypeOK, StaleCap, CallStates
<1>1. ASSUME NEW c \in Callers, CallerEffect(c) PROVE AgeInv'
  <2>1. /\ Moves(c) /\ UNCHANGED <<status, given>> /\ BackendStep
        /\ call'[c].pc = "store" => Obtained(call'[c].value)
    BY <1>1 DEF CallerEffect
  <2>2. CurrentInv' /\ \A v \in Versions : stale'[v] <= stale[v] /\ stale'[v] \in Nat
    BY <1>0, <2>1, BackendAges, BackendTypes DEF StaleCap
  <2>3. HeldInv'
    <3>1. ASSUME call'[c].pc = "store"
          PROVE  call'[c].value \in Versions /\ stale'[call'[c].value] = 0 /\ call'[c].lag \in Nat
      <4>1. call'[c].lag \in Nat
        BY <2>1 DEF Moves, CallStates
      <4>2. CASE Unwritten /\ ChainAnswer.result = "value" /\ call'[c].value = ChainAnswer.value
        BY <1>0, <4>1, <4>2, AnswerCurrent DEF Unwritten
      <4>3. CASE Publish /\ call'[c].value = latest + 1
        BY <1>0, <4>1, <4>3, PublishEffect
      <4>4. QED
        BY <2>1, <3>1, <4>2, <4>3 DEF Obtained
    <3>2. ASSUME NEW d \in Callers \ {c}, call'[d].pc = "store"
          PROVE  call'[d].value \in Versions /\ stale'[call'[d].value] <= call'[d].lag
      <4>1. call'[d] = call[d] /\ call[d].value \in Versions /\ stale[call[d].value] <= call[d].lag
        BY <1>0, <2>1, <3>2 DEF Moves, HeldInv
      <4>2. QED
        BY <1>0, <2>2, <4>1
    <3>3. QED
      BY <3>1, <3>2 DEF HeldInv
  <2>4. CachedInv'
    <3>1. CASE cache' = cache
      <4>1. ASSUME cache.value # NoValue PROVE stale'[cache.value] <= MaxLag + (TTL - cache.left)
        BY <1>0, <2>2, <4>1 DEF CachedInv
      <4>2. QED
        BY <3>1, <4>1 DEF CachedInv
    <3>2. CASE call[c].pc = "store" /\ cache' = [value |-> call[c].value, left |-> TTL]
      <4>1. call[c].value \in Versions /\ stale[call[c].value] <= call[c].lag
        BY <1>0, <3>2 DEF HeldInv
      <4>2. stale'[call[c].value] <= MaxLag + (TTL - TTL)
        BY <1>0, <2>2, <4>1
      <4>3. QED
        BY <3>2, <4>2 DEF CachedInv
    <3>3. QED
      BY <1>1, <3>1, <3>2 DEF CallerEffect
  <2>5. QED
    BY <2>2, <2>3, <2>4 DEF AgeInv
<1>2. CASE Rotate
  <2>1. BackendStep /\ UNCHANGED <<cache, call, given>>
    BY <1>2 DEF Rotate, BackendStep
  <2>2. CurrentInv' /\ \A v \in Versions : stale'[v] <= stale[v] /\ stale'[v] \in Nat
    BY <1>0, <2>1, BackendAges, BackendTypes DEF StaleCap
  <2>3. \A c \in Callers : call[c].pc = "store" => call[c].value \in Versions /\ stale'[call[c].value] <= call[c].lag
    BY <1>0, <2>2 DEF HeldInv
  <2>4. cache.value # NoValue => stale'[cache.value] <= MaxLag + (TTL - cache.left)
    BY <1>0, <2>2 DEF CachedInv
  <2>5. QED
    BY <2>1, <2>2, <2>3, <2>4 DEF AgeInv, HeldInv, CachedInv
\* What the stack falls back to, if the environment has a value, is current again.
<1>3. CASE Revoke
  <2>1. /\ UNCHANGED <<cache, call, latest, given>> /\ secret' # "live"
        /\ stale' = IF given.env THEN [stale EXCEPT ![0] = 0] ELSE stale
    BY <1>3 DEF Revoke
  <2>2. 0 \in Versions /\ DOMAIN stale = Versions
    BY <1>0 DEF Versions, TypeOK
  <2>3. \A v \in Versions : stale'[v] \in Nat /\ stale'[v] <= stale[v]
    BY <1>0, <2>1, <2>2
  <2>4. CurrentInv'
    BY <2>1, <2>2 DEF CurrentInv
  <2>5. \A c \in Callers : call[c].pc = "store" => call[c].value \in Versions /\ stale'[call[c].value] <= call[c].lag
    BY <1>0, <2>3 DEF HeldInv
  <2>6. cache.value # NoValue => stale'[cache.value] <= MaxLag + (TTL - cache.left)
    BY <1>0, <2>3 DEF CachedInv
  <2>7. QED
    BY <2>1, <2>4, <2>5, <2>6 DEF AgeInv, HeldInv, CachedInv
<1>4. CASE StatusChange
  <2>1. UNCHANGED <<cache, call, latest, secret, given, stale>>
    BY <1>4 DEF StatusChange
  <2>2. QED
    BY <1>0, <2>1 DEF AgeInv, CurrentInv, HeldInv, CachedInv
<1>5. CASE Tick
  <2>1. UNCHANGED <<latest, secret, given>>
    BY <1>5 DEF Tick, remote
  <2>2. CurrentInv'
    <3>1. latest \in Versions /\ 0 \in Versions
      BY <1>0 DEF TypeOK, Versions
    <3>2. secret = "live" => stale'[latest] = stale[latest]
      BY <1>0, <1>5, <3>1, TickEffect DEF Current
    <3>3. secret # "live" /\ given.env => stale'[0] = stale[0]
      BY <1>0, <1>5, <3>1, TickEffect DEF Current
    <3>4. QED
      BY <1>0, <2>1, <3>2, <3>3 DEF CurrentInv
  <2>3. \A v \in Versions : stale'[v] \in Nat /\ stale'[v] <= stale[v] + 1 /\ stale'[v] <= StaleCap
    BY <1>0, <1>5, TickEffect
  <2>4. HeldInv'
    <3> SUFFICES ASSUME NEW c \in Callers, call'[c].pc = "store"
                 PROVE  call'[c].value \in Versions /\ stale'[call'[c].value] <= call'[c].lag
      BY DEF HeldInv
    <3>1. call[c].pc = "store" /\ call'[c].value = call[c].value /\ call'[c].lag = call[c].lag + 1
      BY <1>0, <1>5, TickEffect
    <3>2. call[c].value \in Versions /\ stale[call[c].value] <= call[c].lag
      BY <1>0, <3>1 DEF HeldInv
    <3>3. QED
      BY <1>0, <2>3, <3>1, <3>2
  <2>5. CachedInv'
    <3>1. cache'.value = cache.value /\ cache'.left = IF cache.left > 0 THEN cache.left - 1 ELSE 0
      BY <1>0, <1>5, TickEffect
    <3>2. ASSUME cache.value # NoValue PROVE stale'[cache.value] <= MaxLag + (TTL - cache'.left)
      <4>1. cache.value \in Versions /\ stale[cache.value] <= MaxLag + (TTL - cache.left)
        BY <1>0, <3>2 DEF CachedInv
      <4>2. CASE cache.left > 0
        BY <1>0, <2>3, <3>1, <4>1, <4>2
      <4>3. CASE ~(cache.left > 0)
        BY <1>0, <2>3, <3>1, <4>1, <4>3
      <4>4. QED
        BY <4>2, <4>3
    <3>3. QED
      BY <3>1, <3>2 DEF CachedInv
  <2>6. QED
    BY <2>2, <2>4, <2>5 DEF AgeInv
<1>6. CASE UNCHANGED vars
  BY <1>0, <1>6 DEF vars, remote, AgeInv, CurrentInv, HeldInv, CachedInv
<1>7. QED
  BY <1>1, <1>2, <1>3, <1>4, <1>5, <1>6, CallerStep DEF Next

-----------------------------------------------------------------------------
(***************************************************************************)
(* The theorems.                                                           *)
(***************************************************************************)
\* The cache, the calls and the backend keep their types: an entry is a version that was
\* read or written, and no read takes longer than its lag (Get, Set, store).
THEOREM TypeCorrect == Spec => []TypeOK
<1>1. StoredInv => TypeOK
  BY DEF StoredInv
<1>2. QED
  BY <1>1, InitStored, StoredStep, PTL DEF Spec

\* A version that was rotated out or revoked is handed out for less than the time to live
\* plus the lag of the read that brought it (cachedStore.Get).  The environment's value is
\* what the stack resolves to whenever the remote store has no live secret, thus also
\* after a revocation (Chain): the bound holds for it from when there is one again.
THEOREM RotationArrives == Spec => StaleOnlyWithinLag
<1>1. Init => StoredInv /\ AgeInv
  BY InitStored, InitAge
<1>2. StoredInv /\ AgeInv /\ [Next]_vars => StoredInv' /\ AgeInv'
  BY StoredStep, AgeStep
<1>3. StoredInv /\ AgeInv /\ [Next]_vars
        => [\A c \in Callers :
              call[c].pc = "lookup" /\ call'[c].result = "value"
                  => stale[call'[c].value] < TTL + MaxLag]_vars
  <2> SUFFICES ASSUME StoredInv, AgeInv, Next, NEW c \in Callers, call[c].pc = "lookup", call'[c].result = "value"
               PROVE  stale[call'[c].value] < TTL + MaxLag
    OBVIOUS
  <2>0. /\ TypeOK /\ call[c].result = "none"
        /\ cache.left \in 0..TTL /\ cache.value \in Versions \cup {NoValue}
        /\ \A v \in Versions : stale[v] \in Nat
    BY DEF StoredInv, TypeOK, StaleCap
  <2>1. CASE CallerEffect(c)
    <3>1. cache.value # NoValue /\ cache.left > 0 /\ call'[c].value = cache.value
      BY <2>1 DEF CallerEffect, Fresh
    <3>2. stale[cache.value] <= MaxLag + (TTL - cache.left)
      BY <3>1 DEF AgeInv, CachedInv
    <3>3. QED
      BY <2>0, <3>1, <3>2
  <2>2. ASSUME NEW d \in Callers, CallerEffect(d), d # c PROVE FALSE
    BY <2>0, <2>2 DEF CallerEffect, Moves
  <2>3. CASE Rotate \/ Revoke \/ StatusChange
    BY <2>0, <2>3 DEF Rotate, Revoke, StatusChange
  <2>4. CASE Tick
    BY <2>0, <2>4, TickEffect
  <2>5. QED
    BY <2>1, <2>2, <2>3, <2>4, CallerStep DEF Next
<1>4. QED
  BY <1>1, <1>2, <1>3, PTL DEF Spec, StaleOnlyWithinLag

=============================================================================
