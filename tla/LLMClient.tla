------------------------------ MODULE LLMClient ------------------------------
(***************************************************************************)
(* LLMClient.acompletion and StreamingResponseWrapper of llm/client.py:    *)
(* concurrent provider calls that pass the circuit breaker once, then take *)
(* a rate-limiter slot for every attempt.  Each await of the code is a     *)
(* program counter (a free semaphore does not suspend the call; the model  *)
(* lets others run there too).  A call may be cancelled at any of its      *)
(* awaits (the wall timeout, a cancelled playground run, a client that     *)
(* went away): the except clause catches Exception, so nothing is recorded *)
(* for it.                                                                 *)
(***************************************************************************)
EXTENDS CircuitBreaker, RateLimiter

CONSTANTS
  Direct,     \* the calls of the single-model path, which pass no timeout
  Retries,    \* retries of the 429 loop
  MayCancel   \* whether the environment cancels calls

ASSUME ClientAssumption ==
  Direct \subseteq Calls /\ Retries \in Nat /\ MayCancel \in BOOLEAN
ASSUME CallsAssumption == IsFiniteSet(Calls)

VARIABLES
  pc,       \* where each call is
  target,   \* the provider it resolved to
  stream,   \* whether it asked for a stream
  attempt,  \* the loop variable of the retry loop
  probe     \* history: the call was admitted by a circuit that was not closed

clientVars == <<pc, target, stream, attempt, probe>>
vars == <<breaker, limiterVars, clientVars>>

Waiting == {"bucket", "provider", "global", "backoff"}
InFlight == Waiting \cup {"upstream"}
Ended == {"refused", "done", "failed", "cancelled"}

TypeOK ==
  /\ BreakerTypeOK
  /\ LimiterTypeOK
  /\ pc \in [Calls -> {"idle", "streaming"} \cup InFlight \cup Ended]
  /\ target \in [Calls -> Providers]
  /\ stream \in [Calls -> BOOLEAN]
  /\ attempt \in [Calls -> 0..Retries]
  /\ probe \in [Calls -> BOOLEAN]

Init ==
  /\ BreakerInit
  /\ LimiterInit
  /\ pc = [c \in Calls |-> "idle"]
  /\ target \in [Calls -> Providers]
  /\ stream \in [Calls -> BOOLEAN]
  /\ attempt = [c \in Calls |-> 0]
  /\ probe = [c \in Calls |-> FALSE]
-----------------------------------------------------------------------------
Goto(c, from, to) ==
  /\ pc[c] = from
  /\ pc' = [pc EXCEPT ![c] = to]

(* The request resolves its provider and asks the breaker, once for all    *)
(* its attempts.                                                           *)
Start(c) ==
  /\ Goto(c, "idle", "bucket")
  /\ AllowRequest(target[c])
  /\ probe' = [probe EXCEPT ![c] = breaker[target[c]].state # "closed"]
  /\ UNCHANGED <<limiterVars, target, stream, attempt>>

(* CircuitOpenError *)
Refuse(c) ==
  /\ Goto(c, "idle", "refused")
  /\ RefuseRequest(target[c])
  /\ UNCHANGED <<limiterVars, target, stream, attempt, probe>>

(* rate_limiter.acquire: bucket, provider permit, global permit. *)
TakeToken(c) ==
  /\ Goto(c, "bucket", "provider")
  /\ ConsumeToken(target[c])
  /\ UNCHANGED <<breaker, target, stream, attempt, probe>>

TakeProvider(c) ==
  /\ Goto(c, "provider", "global")
  /\ AcquireProvider(c, target[c])
  /\ UNCHANGED <<breaker, target, stream, attempt, probe>>

TakeGlobal(c) ==
  /\ Goto(c, "global", "upstream")
  /\ AcquireGlobal(c)
  /\ UNCHANGED <<breaker, target, stream, attempt, probe>>

(* The provider answers.  For a stream success is recorded as soon as it   *)
(* is set up, and the slot goes with the wrapper.                          *)
Succeed(c) ==
  /\ ~stream[c]
  /\ Goto(c, "upstream", "done")
  /\ RecordSuccess(target[c])
  /\ Release(c, target[c])
  /\ UNCHANGED <<target, stream, attempt, probe>>

StreamSetUp(c) ==
  /\ stream[c]
  /\ Goto(c, "upstream", "streaming")
  /\ RecordSuccess(target[c])
  /\ UNCHANGED <<limiterVars, target, stream, attempt, probe>>

(* An HTTP 429 before the last attempt: back off without the slot, and do  *)
(* not tell the breaker.                                                   *)
RateLimited(c) ==
  /\ attempt[c] < Retries
  /\ Goto(c, "upstream", "backoff")
  /\ Release(c, target[c])
  /\ UNCHANGED <<breaker, target, stream, attempt, probe>>

(* Mutant: a retry starts the loop again. *)
RetryAfresh(c) ==
  /\ Goto(c, "backoff", "bucket")
  /\ attempt' = [attempt EXCEPT ![c] = 0]
  /\ UNCHANGED <<breaker, limiterVars, target, stream, probe>>

Retry(c) ==
  /\ Goto(c, "backoff", "bucket")
  /\ attempt' = [attempt EXCEPT ![c] = @ + 1]
  /\ UNCHANGED <<breaker, limiterVars, target, stream, probe>>

(* Any other exception, the stage timeout included. *)
Fail(c) ==
  /\ Goto(c, "upstream", "failed")
  /\ RecordFailure(target[c])
  /\ Release(c, target[c])
  /\ UNCHANGED <<target, stream, attempt, probe>>

(* The wrapper's stream ends: exhausted, failed, past its chunk deadline,  *)
(* cancelled, or dropped and collected.                                    *)
StreamOver(c) ==
  /\ Goto(c, "streaming", "done")
  /\ Release(c, target[c])
  /\ UNCHANGED <<breaker, target, stream, attempt, probe>>

(* Mutant: the slot is not given back when the wait for the global permit  *)
(* is cancelled.                                                           *)
CancelKeepingPermit(c) ==
  /\ MayCancel
  /\ pc[c] \in InFlight
  /\ pc' = [pc EXCEPT ![c] = "cancelled"]
  /\ IF pc[c] = "global" THEN UNCHANGED limiterVars ELSE Release(c, target[c])
  /\ UNCHANGED <<breaker, target, stream, attempt, probe>>

(* CancelledError at an await: permits go back, the breaker is not told.   *)
Cancel(c) ==
  /\ MayCancel
  /\ pc[c] \in InFlight
  /\ pc' = [pc EXCEPT ![c] = "cancelled"]
  /\ Release(c, target[c])
  /\ UNCHANGED <<breaker, target, stream, attempt, probe>>

(* Time passes for the buckets and the circuits. *)
Refill(p) == RefillToken(p) /\ UNCHANGED <<breaker, clientVars>>
Cool(p) == BreakerTick(p) /\ UNCHANGED <<limiterVars, clientVars>>

Step(c) ==
  \/ Start(c) \/ Refuse(c)
  \/ TakeToken(c) \/ TakeProvider(c) \/ TakeGlobal(c)
  \/ Succeed(c) \/ StreamSetUp(c) \/ RateLimited(c) \/ Fail(c)
  \/ Retry(c) \/ StreamOver(c)

Next ==
  \/ \E c \in Calls : Step(c) \/ Cancel(c)
  \/ \E p \in Providers : Refill(p) \/ Cool(p)

Spec == Init /\ [][Next]_vars

(* Up to the answer, or the set-up of its stream, a call that can go on    *)
(* does: the event loop resumes it, the stage timeout bounds the upstream  *)
(* wait, the wall timeout cancels a direct call, and time passes.  Every   *)
(* call takes finitely many tokens and permits, so weak fairness is enough *)
(* to be served.  A stream ends because each of its chunks has a deadline; *)
(* a direct one has none (client.py:167-169 with no timeout from           *)
(* chat.py:111-126), so nothing makes it end.  Nobody has to issue a call. *)
Fairness ==
  /\ \A c \in Calls \ Direct : WF_vars(pc[c] # "idle" /\ Step(c))
  /\ \A c \in Direct :
       WF_vars(pc[c] \in InFlight /\ (Step(c) \/ Cancel(c)))
  /\ \A p \in Providers : WF_vars(Refill(p)) /\ WF_vars(Cool(p))

FairSpec == Spec /\ Fairness
-----------------------------------------------------------------------------
(* Where a call holds the permit of its provider, and the global one.      *)
HoldsProvider == {"global", "upstream", "streaming"}
HoldsGlobal == {"upstream", "streaming"}

At(p, places) == {c \in Calls : target[c] = p /\ pc[c] \in places}
InUse == {c \in Calls : pc[c] \in HoldsGlobal}

SlotsMatch ==
  \A c \in Calls : /\ slot[c].provider <=> pc[c] \in HoldsProvider
                   /\ slot[c].global <=> pc[c] \in HoldsGlobal

(* The permits missing from the semaphores are exactly those of the calls  *)
(* that are using them, and every slot knows its own: none is lost or      *)
(* given back twice, whatever is cancelled, retried or dropped             *)
(* ("cancellation-safe rate-limiter Slot", CHANGELOG.md:49).  So the caps  *)
(* bound the calls upstream.                                               *)
PermitsInUse ==
  /\ SlotsMatch
  /\ \A p \in Providers :
       providerFree[p] + Cardinality(At(p, HoldsProvider)) = ProviderCap
  /\ globalFree + Cardinality(InUse) = GlobalCap

(* The semaphores of a slot keep the contract of Semaphores, the holders   *)
(* being the calls at the places where the code holds the permit: none is  *)
(* let in beyond the cap, although permits go back one by one on four      *)
(* paths (result, back-off, cancellation, end of a stream).                *)
ProviderPermits ==
  INSTANCE Semaphores WITH Pool <- Providers, Users <- Calls, Cap <- ProviderCap,
                           holders <- [p \in Providers |-> At(p, HoldsProvider)]
GlobalPermits ==
  INSTANCE Semaphores WITH Pool <- {"process"}, Users <- Calls, Cap <- GlobalCap,
                           holders <- [p \in {"process"} |-> InUse]

ImplementsSemaphores == ProviderPermits!Spec /\ GlobalPermits!Spec

(* A call only backs off when an attempt is left. *)
RetriesLeft == \A c \in Calls : pc[c] = "backoff" => attempt[c] < Retries

(* A circuit that waits for its probe has one: a call that it admitted as  *)
(* a probe is still under way, or was cancelled.  Late results of other    *)
(* calls end the wait (circuit_breaker.py:93 and 98), they never prolong   *)
(* it.                                                                     *)
ProbeOutstanding ==
  \A p \in Providers :
    breaker[p].probing =>
      \E c \in Calls : /\ target[c] = p /\ probe[c]
                       /\ pc[c] \in InFlight \cup {"cancelled"}

(* The circuits are sound: besides, one with a full count of failures is   *)
(* not closed, and only a half-open one awaits a probe.                    *)
CircuitsSound == TypeOK /\ BreakerSound /\ ProbeOutstanding

(* The inductive invariant: the types need RetriesLeft, the semaphores'    *)
(* bounds need PermitsInUse.                                               *)
IInv == TypeOK /\ BreakerSound /\ PermitsInUse /\ RetriesLeft /\ ProbeOutstanding

(* The trips upstream that a call may still make. *)
TripsLeft(c) ==
  IF pc[c] \in {"bucket", "provider", "global"} THEN Retries - attempt[c] + 1
  ELSE IF pc[c] \in {"upstream", "backoff"} THEN Retries - attempt[c]
  ELSE 0

(* The retry loop does not ask the circuit again (client.py:152-159), so a *)
(* circuit that has opened still sends calls upstream: only those that it  *)
(* had admitted before, and none of them more often than it had attempts   *)
(* left when the circuit opened.                                           *)
OpenCircuitDrains ==
  [][\A c \in Calls :
       LET p == target[c] IN
       breaker[p].state = "open" /\ breaker'[p].state = "open" =>
         /\ TripsLeft(c)' <= TripsLeft(c)
         /\ pc[c] # "upstream" /\ pc'[c] = "upstream" => TripsLeft(c)' < TripsLeft(c)]_vars

(* No direct stream stands still for good. *)
DirectStreamsGoOn == \A c \in Direct : []<>(pc[c] # "streaming")

(* Every call that was let in ends, as long as no direct stream keeps its  *)
(* permits for good: no permit is waited for in a circle, and the retry    *)
(* loop stops.  (Each call is made once, so in the end none is under way.) *)
EveryCallEnds ==
  DirectStreamsGoOn => <>[](\A c \in Calls : pc[c] \in {"idle"} \cup Ended)

(* The probe of a half-open circuit is heard of: the circuit stays waiting *)
(* for it ("circuit breaker is open; retry after cooldown",                *)
(* circuit_breaker.py:114) only when a probe of it was cancelled, or when  *)
(* a direct stream keeps the permit that the probe waits for.              *)
ProbeReturnsOrCancelled ==
  DirectStreamsGoOn =>
    \A p \in Providers :
      breaker[p].probing ~>
        \/ ~breaker[p].probing
        \/ \E c \in Calls : target[c] = p /\ probe[c] /\ pc[c] = "cancelled"
=============================================================================
