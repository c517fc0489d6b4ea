--------------------------- MODULE LLMClientProofs ---------------------------
(***************************************************************************)
(* Proofs about LLMClient for any number of calls and providers and any    *)
(* caps: its types, the soundness of the circuits and of their probes,     *)
(* what an open circuit lets pass, that permits are conserved, and the     *)
(* contract of the semaphores.  A step of a call moves it from one place   *)
(* to another; what the step does to the semaphores is what the two places *)
(* say about the permits held there (Moves), whichever action it is        *)
(* (Effect).                                                               *)
(***************************************************************************)
EXTENDS LLMClient, FiniteSetTheorems, TLAPS

Places == {"idle", "streaming"} \cup InFlight \cup Ended

(* The permits of either kind that a call in a place holds. *)
Provider(place) == IF place \in HoldsProvider THEN 1 ELSE 0
Global(place) == IF place \in HoldsGlobal THEN 1 ELSE 0

(* The effect of moving call c to a place on semaphores and slots. *)
Moves(c, to) ==
  /\ pc' = [pc EXCEPT ![c] = to]
  /\ target' = target
  /\ Provider(to) <= providerFree[target[c]] + Provider(pc[c])
  /\ Global(to) <= globalFree + Global(pc[c])
  /\ globalFree' = globalFree + Global(pc[c]) - Global(to)
  /\ providerFree' = [providerFree EXCEPT ![target[c]] =
                        @ + Provider(pc[c]) - Provider(to)]
  /\ slot' \in [Calls -> Slot]
  /\ \A d \in Calls \ {c} : slot'[d] = slot[d]
  /\ slot'[c].provider <=> to \in HoldsProvider
  /\ slot'[c].global <=> to \in HoldsGlobal

PermitInv == TypeOK /\ PermitsInUse

(* What the invariant says of one call. *)
LEMMA OfCall ==
  ASSUME PermitInv, NEW c \in Calls
  PROVE  /\ slot \in [Calls -> Slot]
         /\ slot[c] \in Slot
         /\ slot[c].provider \in BOOLEAN
         /\ slot[c].global \in BOOLEAN
         /\ providerFree \in [Providers -> Int]
         /\ globalFree \in Nat
         /\ target[c] \in Providers
         /\ providerFree[target[c]] \in Nat
         /\ pc \in [Calls -> Places]
         /\ slot[c].provider <=> pc[c] \in HoldsProvider
         /\ slot[c].global <=> pc[c] \in HoldsGlobal
<1>1. /\ slot \in [Calls -> Slot]
      /\ providerFree \in [Providers -> Int]
      /\ globalFree \in Nat
      /\ target[c] \in Providers
      /\ providerFree[target[c]] \in Nat
      /\ pc \in [Calls -> Places]
  BY DEF PermitInv, TypeOK, LimiterTypeOK, Places
<1>2. slot[c] \in Slot
  BY <1>1
<1>3. slot[c].provider \in BOOLEAN /\ slot[c].global \in BOOLEAN
  BY <1>2 DEF Slot
<1>4. /\ slot[c].provider <=> pc[c] \in HoldsProvider
      /\ slot[c].global <=> pc[c] \in HoldsGlobal
  BY DEF PermitInv, PermitsInUse, SlotsMatch
<1>5. QED BY <1>1, <1>2, <1>3, <1>4

-----------------------------------------------------------------------------
(* What Slot.release does for a call whose slot is right. *)
LEMMA ReleaseEffect ==
  ASSUME PermitInv, NEW c \in Calls, NEW to \in Places \ HoldsProvider,
         pc' = [pc EXCEPT ![c] = to], target' = target,
         Release(c, target[c])
  PROVE  Moves(c, to)
<1>1. to \notin HoldsProvider /\ to \notin HoldsGlobal
  BY DEF HoldsProvider, HoldsGlobal
<1>2. Provider(to) = 0 /\ Global(to) = 0
  BY <1>1 DEF Provider, Global
<1>3. globalFree' = globalFree + Global(pc[c]) - Global(to)
  <2>1. globalFree' = globalFree + Global(pc[c])
    BY OfCall DEF Release, Global
  <2>2. QED BY <2>1, <1>2, OfCall DEF Global
<1>4. providerFree' = [providerFree EXCEPT ![target[c]] =
                         @ + Provider(pc[c]) - Provider(to)]
  <2>1. (IF slot[c].provider THEN providerFree[target[c]] + 1 ELSE providerFree[target[c]])
           = providerFree[target[c]] + Provider(pc[c]) - Provider(to)
    BY <1>2, OfCall DEF Provider
  <2>2. QED BY <2>1, OfCall DEF Release
<1>5. slot' = [slot EXCEPT ![c] = [provider |-> FALSE, global |-> FALSE]]
  BY DEF Release, EmptySlot
<1>6. /\ slot' \in [Calls -> Slot]
      /\ \A d \in Calls \ {c} : slot'[d] = slot[d]
      /\ slot'[c].provider = FALSE
      /\ slot'[c].global = FALSE
  BY <1>5, OfCall DEF Slot
<1>7. /\ Provider(to) <= providerFree[target[c]] + Provider(pc[c])
      /\ Global(to) <= globalFree + Global(pc[c])
  BY <1>2, OfCall DEF Provider, Global
<1>8. QED BY <1>1, <1>3, <1>4, <1>6, <1>7 DEF Moves

(* Moving without touching the limiter, between places that hold the same. *)
LEMMA StayEffect ==
  ASSUME PermitInv, NEW c \in Calls, NEW to \in Places,
         pc' = [pc EXCEPT ![c] = to], target' = target,
         UNCHANGED <<providerFree, globalFree, slot>>,
         pc[c] \in HoldsProvider <=> to \in HoldsProvider,
         pc[c] \in HoldsGlobal <=> to \in HoldsGlobal
  PROVE  Moves(c, to)
<1>1. Provider(pc[c]) = Provider(to) /\ Global(pc[c]) = Global(to)
  BY DEF Provider, Global
<1>2. Provider(to) \in Int /\ Global(to) \in Int
  BY DEF Provider, Global
<1>3. globalFree' = globalFree + Global(pc[c]) - Global(to)
  BY <1>1, <1>2, OfCall
<1>4. providerFree[target[c]] + Provider(pc[c]) - Provider(to) = providerFree[target[c]]
  BY <1>1, <1>2, OfCall
<1>5. providerFree' = [providerFree EXCEPT ![target[c]] =
                         @ + Provider(pc[c]) - Provider(to)]
  BY <1>4, OfCall
<1>6. /\ slot' \in [Calls -> Slot]
      /\ \A d \in Calls \ {c} : slot'[d] = slot[d]
      /\ slot'[c].provider <=> to \in HoldsProvider
      /\ slot'[c].global <=> to \in HoldsGlobal
  BY OfCall
<1>7. /\ Provider(to) <= providerFree[target[c]] + Provider(pc[c])
      /\ Global(to) <= globalFree + Global(pc[c])
  BY <1>1, <1>2, OfCall
<1>8. QED BY <1>3, <1>5, <1>6, <1>7 DEF Moves

(* Every step of a call moves it in that sense. *)
LEMMA Effect ==
  ASSUME PermitInv, NEW c \in Calls, Step(c) \/ Cancel(c)
  PROVE  \E to \in Places : Moves(c, to)
<1> USE DEF Goto, Places, InFlight, Waiting, Ended, HoldsProvider, HoldsGlobal
<1>1. CASE Start(c)
  <2>1. pc[c] = "idle" /\ pc' = [pc EXCEPT ![c] = "bucket"] /\ target' = target
        /\ UNCHANGED <<providerFree, globalFree, slot>>
    BY <1>1 DEF Start, limiterVars
  <2>2. QED BY <2>1, StayEffect
<1>2. CASE Refuse(c)
  <2>1. pc[c] = "idle" /\ pc' = [pc EXCEPT ![c] = "refused"] /\ target' = target
        /\ UNCHANGED <<providerFree, globalFree, slot>>
    BY <1>2 DEF Refuse, limiterVars
  <2>2. QED BY <2>1, StayEffect
<1>3. CASE TakeToken(c)
  <2>1. pc[c] = "bucket" /\ pc' = [pc EXCEPT ![c] = "provider"] /\ target' = target
        /\ UNCHANGED <<providerFree, globalFree, slot>>
    BY <1>3 DEF TakeToken, ConsumeToken
  <2>2. QED BY <2>1, StayEffect
<1>4. CASE TakeProvider(c)
  <2>1. /\ pc[c] = "provider" /\ pc' = [pc EXCEPT ![c] = "global"] /\ target' = target
        /\ providerFree[target[c]] > 0
        /\ providerFree' = [providerFree EXCEPT ![target[c]] = @ - 1]
        /\ slot' = [slot EXCEPT ![c].provider = TRUE]
        /\ globalFree' = globalFree
    BY <1>4 DEF TakeProvider, AcquireProvider
  <2>2. /\ Provider(pc[c]) = 0 /\ Provider("global") = 1
        /\ Global(pc[c]) = 0 /\ Global("global") = 0
    BY <2>1 DEF Provider, Global
  <2>3. globalFree' = globalFree + Global(pc[c]) - Global("global")
    BY <2>1, <2>2, OfCall
  <2>4. providerFree' = [providerFree EXCEPT ![target[c]] =
                           @ + Provider(pc[c]) - Provider("global")]
    <3>1. providerFree[target[c]] + Provider(pc[c]) - Provider("global")
            = providerFree[target[c]] - 1
      BY <2>2, OfCall
    <3>2. QED BY <2>1, <3>1, OfCall
  <2>5. /\ slot' \in [Calls -> Slot]
        /\ \A d \in Calls \ {c} : slot'[d] = slot[d]
        /\ slot'[c].provider = TRUE
        /\ slot'[c].global = slot[c].global
    BY <2>1, OfCall DEF Slot
  <2>6. /\ slot'[c].provider <=> "global" \in HoldsProvider
        /\ slot'[c].global <=> "global" \in HoldsGlobal
    BY <2>1, <2>5, OfCall
  <2>7. /\ Provider("global") <= providerFree[target[c]] + Provider(pc[c])
        /\ Global("global") <= globalFree + Global(pc[c])
    BY <2>1, <2>2, OfCall
  <2>8. Moves(c, "global")
    BY <2>1, <2>3, <2>4, <2>5, <2>6, <2>7 DEF Moves
  <2>9. QED BY <2>8
<1>5. CASE TakeGlobal(c)
  <2>1. /\ pc[c] = "global" /\ pc' = [pc EXCEPT ![c] = "upstream"] /\ target' = target
        /\ globalFree > 0
        /\ globalFree' = globalFree - 1
        /\ slot' = [slot EXCEPT ![c].global = TRUE]
        /\ providerFree' = providerFree
    BY <1>5 DEF TakeGlobal, AcquireGlobal
  <2>2. /\ Provider(pc[c]) = 1 /\ Provider("upstream") = 1
        /\ Global(pc[c]) = 0 /\ Global("upstream") = 1
    BY <2>1 DEF Provider, Global
  <2>3. globalFree' = globalFree + Global(pc[c]) - Global("upstream")
    BY <2>1, <2>2, OfCall
  <2>4. providerFree' = [providerFree EXCEPT ![target[c]] =
                           @ + Provider(pc[c]) - Provider("upstream")]
    <3>1. providerFree[target[c]] + Provider(pc[c]) - Provider("upstream")
            = providerFree[target[c]]
      BY <2>2, OfCall
    <3>2. QED BY <2>1, <3>1, OfCall
  <2>5. /\ slot' \in [Calls -> Slot]
        /\ \A d \in Calls \ {c} : slot'[d] = slot[d]
        /\ slot'[c].global = TRUE
        /\ slot'[c].provider = slot[c].provider
    BY <2>1, OfCall DEF Slot
  <2>6. /\ slot'[c].provider <=> "upstream" \in HoldsProvider
        /\ slot'[c].global <=> "upstream" \in HoldsGlobal
    BY <2>1, <2>5, OfCall
  <2>7. /\ Provider("upstream") <= providerFree[target[c]] + Provider(pc[c])
        /\ Global("upstream") <= globalFree + Global(pc[c])
    BY <2>1, <2>2, OfCall
  <2>8. Moves(c, "upstream")
    BY <2>1, <2>3, <2>4, <2>5, <2>6, <2>7 DEF Moves
  <2>9. QED BY <2>8
<1>6. CASE Succeed(c) \/ StreamOver(c)
  <2>1. pc' = [pc EXCEPT ![c] = "done"] /\ target' = target /\ Release(c, target[c])
    BY <1>6 DEF Succeed, StreamOver
  <2>2. QED BY <2>1, ReleaseEffect
<1>7. CASE StreamSetUp(c)
  <2>1. pc[c] = "upstream" /\ pc' = [pc EXCEPT ![c] = "streaming"] /\ target' = target
        /\ UNCHANGED <<providerFree, globalFree, slot>>
    BY <1>7 DEF StreamSetUp, limiterVars
  <2>2. QED BY <2>1, StayEffect
<1>8. CASE RateLimited(c)
  <2>1. pc' = [pc EXCEPT ![c] = "backoff"] /\ target' = target /\ Release(c, target[c])
    BY <1>8 DEF RateLimited
  <2>2. QED BY <2>1, ReleaseEffect
<1>9. CASE Fail(c)
  <2>1. pc' = [pc EXCEPT ![c] = "failed"] /\ target' = target /\ Release(c, target[c])
    BY <1>9 DEF Fail
  <2>2. QED BY <2>1, ReleaseEffect
<1>10. CASE Retry(c)
  <2>1. pc[c] = "backoff" /\ pc' = [pc EXCEPT ![c] = "bucket"] /\ target' = target
        /\ UNCHANGED <<providerFree, globalFree, slot>>
    BY <1>10 DEF Retry, limiterVars
  <2>2. QED BY <2>1, StayEffect
<1>11. CASE Cancel(c)
  <2>1. pc' = [pc EXCEPT ![c] = "cancelled"] /\ target' = target /\ Release(c, target[c])
    BY <1>11 DEF Cancel
  <2>2. QED BY <2>1, ReleaseEffect
<1>12. QED
  BY <1>1, <1>2, <1>3, <1>4, <1>5, <1>6, <1>7, <1>8, <1>9, <1>10, <1>11 DEF Step

-----------------------------------------------------------------------------
(* Two sets of calls that differ in one call at most. *)
LEMMA Recount ==
  ASSUME NEW A \in SUBSET Calls, NEW B \in SUBSET Calls, NEW c \in Calls,
         \A d \in Calls \ {c} : d \in A <=> d \in B
  PROVE  /\ Cardinality(A) \in Nat
         /\ Cardinality(B) \in Nat
         /\ Cardinality(B) + (IF c \in A THEN 1 ELSE 0)
              = Cardinality(A) + (IF c \in B THEN 1 ELSE 0)
<1>1. IsFiniteSet(A) /\ IsFiniteSet(B)
  BY CallsAssumption, FS_Subset
<1>2. Cardinality(A) \in Nat /\ Cardinality(B) \in Nat
  BY <1>1, FS_CardinalityType
<1>3. CASE c \in A <=> c \in B
  <2>1. A = B BY <1>3
  <2>2. QED BY <2>1, <1>2
<1>4. CASE c \in A /\ c \notin B
  <2>1. A = B \cup {c} BY <1>4
  <2>2. Cardinality(A) = Cardinality(B) + 1
    BY <2>1, <1>1, <1>4, FS_AddElement
  <2>3. QED BY <2>2, <1>2, <1>4
<1>5. CASE c \notin A /\ c \in B
  <2>1. B = A \cup {c} BY <1>5
  <2>2. Cardinality(B) = Cardinality(A) + 1
    BY <2>1, <1>1, <1>5, FS_AddElement
  <2>3. QED BY <2>2, <1>2, <1>5
<1>6. QED BY <1>3, <1>4, <1>5

(* Moving a call keeps the books of both semaphores. *)
LEMMA MoveKeepsPermits ==
  ASSUME PermitInv, NEW c \in Calls, NEW to \in Places, Moves(c, to)
  PROVE  /\ PermitsInUse'
         /\ providerFree' \in [Providers -> 0..ProviderCap]
         /\ globalFree' \in 0..GlobalCap
         /\ slot' \in [Calls -> Slot]
         /\ pc' \in [Calls -> Places]
         /\ target' = target
<1>1. /\ pc' \in [Calls -> Places] /\ pc'[c] = to
      /\ \A d \in Calls \ {c} : pc'[d] = pc[d]
      /\ target' = target
  BY OfCall DEF Moves
<1>2. SlotsMatch'
  <2>1. SUFFICES ASSUME NEW d \in Calls
                 PROVE  /\ slot'[d].provider <=> pc'[d] \in HoldsProvider
                        /\ slot'[d].global <=> pc'[d] \in HoldsGlobal
    BY DEF SlotsMatch, HoldsProvider, HoldsGlobal
  <2>2. CASE d = c
    BY <2>2, <1>1 DEF Moves
  <2>3. CASE d # c
    BY <2>3, <1>1, OfCall DEF Moves
  <2>4. QED BY <2>2, <2>3
<1>3. /\ Provider(to) \in Nat /\ Provider(pc[c]) \in Nat
      /\ Global(to) \in Nat /\ Global(pc[c]) \in Nat
  BY DEF Provider, Global
<1>4. /\ globalFree' + Cardinality(InUse') = GlobalCap
      /\ globalFree' \in 0..GlobalCap
  <2>1. /\ Cardinality(InUse) \in Nat
        /\ Cardinality(InUse') \in Nat
        /\ Cardinality(InUse') + (IF c \in InUse THEN 1 ELSE 0)
             = Cardinality(InUse) + (IF c \in InUse' THEN 1 ELSE 0)
    BY <1>1, Recount DEF InUse, HoldsGlobal
  <2>2. /\ (IF c \in InUse THEN 1 ELSE 0) = Global(pc[c])
        /\ (IF c \in InUse' THEN 1 ELSE 0) = Global(to)
    BY <1>1 DEF InUse, HoldsGlobal, Global
  <2>3. globalFree + Cardinality(InUse) = GlobalCap
    BY DEF PermitInv, PermitsInUse
  <2>4. globalFree \in Nat
    BY OfCall
  <2>5. /\ globalFree' = globalFree + Global(pc[c]) - Global(to)
        /\ Global(to) <= globalFree + Global(pc[c])
    BY DEF Moves
  <2>6. QED BY <2>1, <2>2, <2>3, <2>4, <2>5, <1>3, LimiterAssumption
<1>5. ASSUME NEW p \in Providers
      PROVE  /\ providerFree'[p] + Cardinality(At(p, HoldsProvider)') = ProviderCap
             /\ providerFree'[p] \in 0..ProviderCap
  <2> DEFINE Here == At(p, HoldsProvider)
  <2>1. /\ Cardinality(Here) \in Nat
        /\ Cardinality(Here') \in Nat
        /\ Cardinality(Here') + (IF c \in Here THEN 1 ELSE 0)
             = Cardinality(Here) + (IF c \in Here' THEN 1 ELSE 0)
    BY <1>1, Recount DEF At, HoldsProvider
  <2>2. providerFree[p] + Cardinality(Here) = ProviderCap
    BY DEF PermitInv, PermitsInUse
  <2>3. providerFree \in [Providers -> 0..ProviderCap]
    BY DEF PermitInv, TypeOK, LimiterTypeOK
  <2>4. CASE p = target[c]
    <3>1. /\ (IF c \in Here THEN 1 ELSE 0) = Provider(pc[c])
          /\ (IF c \in Here' THEN 1 ELSE 0) = Provider(to)
      BY <1>1, <2>4 DEF At, Provider, HoldsProvider
    <3>2. /\ providerFree'[p] = providerFree[p] + Provider(pc[c]) - Provider(to)
          /\ Provider(to) <= providerFree[p] + Provider(pc[c])
      BY <2>3, <2>4 DEF Moves
    <3>3. QED BY <2>1, <2>2, <2>3, <3>1, <3>2, <1>3, LimiterAssumption
  <2>5. CASE p # target[c]
    <3>1. c \notin Here /\ c \notin Here'
      BY <1>1, <2>5 DEF At
    <3>2. providerFree'[p] = providerFree[p]
      BY <2>3, <2>5 DEF Moves
    <3>3. QED BY <2>1, <2>2, <2>3, <3>1, <3>2
  <2>6. QED BY <2>4, <2>5
<1>6. providerFree' \in [Providers -> 0..ProviderCap]
  <2>1. providerFree' \in [Providers -> Int]
    BY <1>3, OfCall DEF Moves
  <2>2. QED BY <2>1, <1>5
<1>7. PermitsInUse'
  BY <1>2, <1>4, <1>5 DEF PermitsInUse
<1>8. QED BY <1>1, <1>4, <1>6, <1>7 DEF Moves

-----------------------------------------------------------------------------
(* The initial states satisfy the invariant: no permit is taken. *)
LEMMA InitInv == Init => IInv
<1> SUFFICES ASSUME Init PROVE IInv
  OBVIOUS
<1>1. TypeOK
  BY BreakerAssumption, LimiterAssumption, ClientAssumption
  DEF Init, BreakerInit, LimiterInit, TypeOK, BreakerTypeOK, LimiterTypeOK,
      Circuit, Slot, EmptySlot, InFlight, Waiting, Ended
<1>2. BreakerSound
  <2>1. \A p \in Providers : breaker[p].failures = 0 /\ breaker[p].probing = FALSE
    BY DEF Init, BreakerInit
  <2>2. ~(0 >= FailureThreshold)
    BY BreakerAssumption
  <2>3. QED BY <2>1, <2>2 DEF BreakerSound
<1>3. SlotsMatch
  BY DEF Init, LimiterInit, EmptySlot, SlotsMatch, HoldsProvider, HoldsGlobal
<1>4. /\ \A p \in Providers : At(p, HoldsProvider) = {}
      /\ InUse = {}
  BY DEF Init, At, InUse, HoldsProvider, HoldsGlobal
<1>5. PermitsInUse
  <2>1. Cardinality({}) = 0
    BY FS_EmptySet
  <2>2. /\ \A p \in Providers : providerFree[p] = ProviderCap
        /\ globalFree = GlobalCap
    BY DEF Init, LimiterInit
  <2>3. ProviderCap + 0 = ProviderCap /\ GlobalCap + 0 = GlobalCap
    BY LimiterAssumption
  <2>4. QED BY <1>3, <1>4, <2>1, <2>2, <2>3 DEF PermitsInUse
<1>6. RetriesLeft
  BY DEF Init, RetriesLeft
<1>7. ProbeOutstanding
  BY DEF Init, BreakerInit, ProbeOutstanding
<1>8. QED BY <1>1, <1>2, <1>5, <1>6, <1>7 DEF IInv

(* Each method of the breaker keeps its types and its soundness. *)
LEMMA BreakerStep ==
  ASSUME BreakerTypeOK, BreakerSound, NEW p \in Providers,
         \/ AllowRequest(p) \/ RecordSuccess(p) \/ RecordFailure(p)
         \/ BreakerTick(p) \/ UNCHANGED breaker
  PROVE  BreakerTypeOK' /\ BreakerSound'
<1> USE BreakerAssumption DEF BreakerTypeOK, BreakerSound, Circuit
<1>1. CASE AllowRequest(p)
  BY <1>1 DEF AllowRequest, Allows, Admitting
<1>2. CASE RecordSuccess(p)
  <2>1. /\ Recovered(breaker[p]) \in Circuit
        /\ Recovered(breaker[p]).failures = 0
        /\ Recovered(breaker[p]).probing = FALSE
    BY DEF Recovered
  <2>2. QED BY <1>2, <2>1 DEF RecordSuccess
<1>3. CASE RecordFailure(p)
  <2>1. Failed(breaker[p]) \in Circuit
    BY DEF Failed, Bounded
  <2>2. /\ Failed(breaker[p]).failures >= FailureThreshold => Failed(breaker[p]).state # "closed"
        /\ Failed(breaker[p]).probing = FALSE
    BY DEF Failed, Bounded
  <2>3. QED BY <1>3, <2>1, <2>2 DEF RecordFailure
<1>4. CASE BreakerTick(p)
  BY <1>4 DEF BreakerTick
<1>5. CASE UNCHANGED breaker
  BY <1>5
<1>6. QED BY <1>1, <1>2, <1>3, <1>4, <1>5

(* The tokens of a bucket stay within the burst. *)
LEMMA TokensStep ==
  ASSUME LimiterTypeOK, NEW p \in Providers,
         ConsumeToken(p) \/ RefillToken(p) \/ UNCHANGED tokens
  PROVE  tokens' \in [Providers -> 0..Burst]
BY LimiterAssumption DEF LimiterTypeOK, ConsumeToken, RefillToken

(* What a step of a call does to the rest of the state. *)
LEMMA CallStep ==
  ASSUME IInv, NEW c \in Calls, Step(c) \/ Cancel(c)
  PROVE  /\ \/ AllowRequest(target[c]) \/ RecordSuccess(target[c])
            \/ RecordFailure(target[c]) \/ UNCHANGED breaker
         /\ ConsumeToken(target[c]) \/ UNCHANGED tokens
         /\ UNCHANGED stream
         /\ attempt' \in [Calls -> 0..Retries]
         /\ probe' \in [Calls -> BOOLEAN]
         /\ RetriesLeft'
<1>1. /\ attempt \in [Calls -> 0..Retries] /\ probe \in [Calls -> BOOLEAN]
      /\ pc \in [Calls -> Places]
      /\ \A d \in Calls : pc[d] = "backoff" => attempt[d] < Retries
  BY DEF IInv, TypeOK, RetriesLeft, Places
<1> USE <1>1, ClientAssumption DEF Goto, limiterVars, RetriesLeft
<1>2. CASE Start(c)
  BY <1>2 DEF Start
<1>3. CASE Refuse(c)
  BY <1>3 DEF Refuse, RefuseRequest
<1>4. CASE TakeToken(c)
  BY <1>4 DEF TakeToken
<1>5. CASE TakeProvider(c)
  BY <1>5 DEF TakeProvider, AcquireProvider
<1>6. CASE TakeGlobal(c)
  BY <1>6 DEF TakeGlobal, AcquireGlobal
<1>7. CASE Succeed(c)
  BY <1>7 DEF Succeed, Release
<1>8. CASE StreamSetUp(c)
  BY <1>8 DEF StreamSetUp
<1>9. CASE RateLimited(c)
  BY <1>9 DEF RateLimited, Release
<1>10. CASE Fail(c)
  BY <1>10 DEF Fail, Release
<1>11. CASE Retry(c)
  BY <1>11 DEF Retry
<1>12. CASE StreamOver(c)
  BY <1>12 DEF StreamOver, Release
<1>13. CASE Cancel(c)
  BY <1>13 DEF Cancel, Release
<1>14. QED
  BY <1>2, <1>3, <1>4, <1>5, <1>6, <1>7, <1>8, <1>9, <1>10, <1>11, <1>12, <1>13 DEF Step

(* A step of a call either ends the wait of its circuit for a probe, or    *)
(* starts it with the call as the probe, or leaves circuit and probe alone.*)
LEMMA ProbeStep ==
  ASSUME IInv, NEW c \in Calls, Step(c) \/ Cancel(c)
  PROVE  /\ \A p \in Providers \ {target[c]} : breaker'[p] = breaker[p]
         /\ \A d \in Calls \ {c} : pc'[d] = pc[d] /\ probe'[d] = probe[d]
         /\ target' = target
         /\ \/ ~breaker'[target[c]].probing
            \/ probe'[c] /\ pc'[c] \in InFlight
            \/ /\ breaker'[target[c]].probing = breaker[target[c]].probing
               /\ probe'[c] = probe[c]
               /\ pc[c] \in InFlight => pc'[c] \in InFlight \cup {"cancelled"}
               /\ pc[c] # "cancelled"
<1>1. /\ probe \in [Calls -> BOOLEAN] /\ pc \in [Calls -> Places]
      /\ breaker \in [Providers -> Circuit] /\ target[c] \in Providers
      /\ breaker[target[c]].probing => breaker[target[c]].state = "half_open"
  BY DEF IInv, TypeOK, BreakerTypeOK, BreakerSound, Places
<1> USE <1>1 DEF Goto, InFlight, Waiting
<1>2. CASE Start(c)
  <2>1. /\ pc' = [pc EXCEPT ![c] = "bucket"] /\ target' = target
        /\ breaker' = [breaker EXCEPT ![target[c]] = Admitting(breaker[target[c]])]
        /\ probe' = [probe EXCEPT ![c] = (breaker[target[c]].state # "closed")]
    BY <1>2 DEF Start, AllowRequest
  <2>2. CASE breaker[target[c]].state = "closed"
    BY <2>1, <2>2 DEF Admitting
  <2>3. CASE breaker[target[c]].state # "closed"
    BY <2>1, <2>3
  <2>4. QED BY <2>2, <2>3
<1>3. CASE Succeed(c) \/ StreamSetUp(c)
  <2>1. ~Recovered(breaker[target[c]]).probing
    BY DEF Recovered
  <2>2. QED BY <1>3, <2>1 DEF Succeed, StreamSetUp, RecordSuccess
<1>4. CASE Fail(c)
  <2>1. ~Failed(breaker[target[c]]).probing
    BY DEF Failed
  <2>2. QED BY <1>4, <2>1 DEF Fail, RecordFailure
<1>5. CASE Refuse(c) \/ TakeToken(c) \/ TakeProvider(c) \/ TakeGlobal(c)
  BY <1>5 DEF Refuse, RefuseRequest, TakeToken, TakeProvider, TakeGlobal
<1>6. CASE RateLimited(c) \/ Retry(c) \/ StreamOver(c) \/ Cancel(c)
  BY <1>6 DEF RateLimited, Retry, StreamOver, Cancel
<1>7. QED BY <1>2, <1>3, <1>4, <1>5, <1>6 DEF Step

(* So the probe of a waiting circuit is not lost. *)
LEMMA ProbeKept ==
  ASSUME IInv, NEW c \in Calls, Step(c) \/ Cancel(c)
  PROVE  ProbeOutstanding'
<1>1. target[c] \in Providers
  BY DEF IInv, TypeOK
<1>2. ASSUME NEW p \in Providers, breaker'[p].probing
      PROVE  \E d \in Calls : /\ target'[d] = p /\ probe'[d]
                             /\ pc'[d] \in InFlight \cup {"cancelled"}
  <2>1. CASE p = target[c] /\ probe'[c] /\ pc'[c] \in InFlight
    BY <2>1, ProbeStep
  <2>2. CASE ~(p = target[c] /\ probe'[c] /\ pc'[c] \in InFlight)
    <3>1. breaker[p].probing
      BY <1>2, <2>2, ProbeStep
    <3>2. PICK d \in Calls : /\ target[d] = p /\ probe[d]
                             /\ pc[d] \in InFlight \cup {"cancelled"}
      BY <3>1 DEF IInv, ProbeOutstanding
    <3>3. CASE d # c
      BY <3>2, <3>3, ProbeStep
    <3>4. CASE d = c
      BY <1>2, <2>2, <3>2, <3>4, ProbeStep
    <3>5. QED BY <3>3, <3>4
  <2>3. QED BY <2>1, <2>2
<1>3. QED BY <1>2 DEF ProbeOutstanding

(* Every step keeps the invariant. *)
LEMMA NextInv == IInv /\ [Next]_vars => IInv'
<1> SUFFICES ASSUME IInv, [Next]_vars PROVE IInv'
  OBVIOUS
<1>1. /\ TypeOK /\ PermitInv /\ BreakerTypeOK /\ BreakerSound /\ LimiterTypeOK
      /\ \A c \in Calls : target[c] \in Providers
  BY DEF IInv, PermitInv, TypeOK
<1>2. ASSUME NEW c \in Calls, Step(c) \/ Cancel(c)
      PROVE  IInv'
  <2>1. PICK to \in Places : Moves(c, to)
    BY <1>1, <1>2, Effect
  <2>2. /\ PermitsInUse'
        /\ providerFree' \in [Providers -> 0..ProviderCap]
        /\ globalFree' \in 0..GlobalCap
        /\ slot' \in [Calls -> Slot]
        /\ pc' \in [Calls -> Places]
        /\ target' = target
    BY <1>1, <2>1, MoveKeepsPermits
  <2>3. /\ \/ AllowRequest(target[c]) \/ RecordSuccess(target[c])
           \/ RecordFailure(target[c]) \/ UNCHANGED breaker
        /\ ConsumeToken(target[c]) \/ UNCHANGED tokens
        /\ UNCHANGED stream
        /\ attempt' \in [Calls -> 0..Retries]
        /\ probe' \in [Calls -> BOOLEAN]
        /\ RetriesLeft'
    BY <1>2, CallStep
  <2>4. BreakerTypeOK' /\ BreakerSound'
    BY <1>1, <2>3, BreakerStep
  <2>5. tokens' \in [Providers -> 0..Burst]
    BY <1>1, <2>3, TokensStep
  <2>6. TypeOK'
    BY <1>1, <2>2, <2>3, <2>4, <2>5 DEF TypeOK, LimiterTypeOK, Places
  <2>7. ProbeOutstanding'
    BY <1>2, ProbeKept
  <2>8. QED BY <2>2, <2>3, <2>4, <2>6, <2>7 DEF IInv
<1>3. ASSUME UNCHANGED <<providerFree, globalFree, slot, clientVars>>,
             \A p \in Providers : breaker'[p].probing = breaker[p].probing,
             BreakerTypeOK', BreakerSound', tokens' \in [Providers -> 0..Burst]
      PROVE  IInv'
  BY <1>1, <1>3 DEF IInv, TypeOK, LimiterTypeOK, PermitsInUse, SlotsMatch, At, InUse,
                    RetriesLeft, ProbeOutstanding, clientVars
<1>4. ASSUME NEW p \in Providers, Refill(p) \/ Cool(p)
      PROVE  IInv'
  <2>1. /\ UNCHANGED <<providerFree, globalFree, slot, clientVars>>
        /\ RefillToken(p) \/ UNCHANGED tokens
        /\ BreakerTick(p) \/ UNCHANGED breaker
    BY <1>4 DEF Refill, Cool, RefillToken, limiterVars
  <2>2. BreakerTypeOK' /\ BreakerSound' /\ tokens' \in [Providers -> 0..Burst]
    BY <1>1, <2>1, BreakerStep, TokensStep
  <2>3. \A q \in Providers : breaker'[q].probing = breaker[q].probing
    BY <1>1, <2>1 DEF BreakerTick, BreakerTypeOK, Circuit
  <2>4. QED BY <1>3, <2>1, <2>2, <2>3
<1>5. CASE UNCHANGED vars
  <2>1. /\ UNCHANGED <<providerFree, globalFree, slot, clientVars>>
        /\ UNCHANGED breaker /\ UNCHANGED tokens
    BY <1>5 DEF vars, limiterVars
  <2>2. BreakerTypeOK' /\ BreakerSound' /\ tokens' \in [Providers -> 0..Burst]
    BY <1>1, <2>1 DEF BreakerTypeOK, BreakerSound, LimiterTypeOK
  <2>3. QED BY <1>3, <2>1, <2>2
<1>6. QED BY <1>2, <1>4, <1>5 DEF Next

(* The inductive invariant holds of the client: circuits, semaphores,      *)
(* slots and retry counts are as acompletion leaves them, whatever is      *)
(* cancelled and however many calls and providers there are.               *)
THEOREM Invariance == Spec => []IInv
<1>1. Init => IInv BY InitInv
<1>2. IInv /\ [Next]_vars => IInv' BY NextInv
<1>3. QED BY <1>1, <1>2, PTL DEF Spec

(* The client's variables keep their types. *)
THEOREM TypeCorrect == Spec => []TypeOK
<1>1. IInv => TypeOK BY DEF IInv
<1>2. QED BY <1>1, Invariance, PTL

(* No permit is lost or given back twice (Slot.release, limiter.py), so    *)
(* the caps bound the calls upstream.                                      *)
THEOREM PermitsConserved == Spec => []PermitsInUse
<1>1. IInv => PermitsInUse BY DEF IInv
<1>2. QED BY <1>1, Invariance, PTL

(* A circuit with a full count of failures is not closed, only a half-open *)
(* one awaits a probe (circuit_breaker.py), and it never waits for one     *)
(* that has reported: a probe is still under way, or was cancelled.        *)
THEOREM CircuitsAreSound == Spec => []CircuitsSound
<1>1. IInv => CircuitsSound BY DEF IInv, CircuitsSound
<1>2. QED BY <1>1, Invariance, PTL

-----------------------------------------------------------------------------
(* What a step does to the trips that calls have left: it adds none,       *)
(* unless a circuit admits a call, and a trip upstream uses one up.        *)
LEMMA TripsStep ==
  ASSUME IInv, NEW c \in Calls, Step(c) \/ Cancel(c), ~Start(c)
  PROVE  /\ TripsLeft(c)' <= TripsLeft(c)
         /\ pc[c] # "upstream" /\ pc'[c] = "upstream" => TripsLeft(c)' < TripsLeft(c)
<1>1. /\ attempt \in [Calls -> 0..Retries] /\ Retries \in Nat
      /\ pc \in [Calls -> Places]
  BY ClientAssumption DEF IInv, TypeOK, Places
<1>2. attempt[c] \in Nat /\ Retries - attempt[c] \in Nat
  BY <1>1
<1> USE <1>1, <1>2 DEF TripsLeft, Goto
<1>3. CASE TakeToken(c)
  BY <1>3 DEF TakeToken
<1>4. CASE TakeProvider(c)
  BY <1>4 DEF TakeProvider
<1>5. CASE TakeGlobal(c)
  BY <1>5 DEF TakeGlobal
<1>6. CASE Refuse(c)
  BY <1>6 DEF Refuse
<1>7. CASE Succeed(c)
  BY <1>7 DEF Succeed
<1>8. CASE StreamSetUp(c)
  BY <1>8 DEF StreamSetUp
<1>9. CASE RateLimited(c)
  BY <1>9 DEF RateLimited
<1>10. CASE Retry(c)
  BY <1>10 DEF Retry
<1>11. CASE Fail(c)
  BY <1>11 DEF Fail
<1>12. CASE StreamOver(c)
  BY <1>12 DEF StreamOver
<1>13. CASE Cancel(c)
  BY <1>13 DEF Cancel
<1>14. QED
  BY <1>3, <1>4, <1>5, <1>6, <1>7, <1>8, <1>9, <1>10, <1>11, <1>12, <1>13 DEF Step

(* A circuit that is open, and stays open, has not admitted anybody. *)
LEMMA OpenAdmitsNobody ==
  ASSUME IInv, NEW c \in Calls, Start(c), breaker[target[c]].state = "open"
  PROVE  breaker'[target[c]].state = "half_open"
<1>1. breaker \in [Providers -> Circuit] /\ target[c] \in Providers
  BY DEF IInv, TypeOK, BreakerTypeOK
<1>2. QED BY <1>1 DEF Start, AllowRequest, Admitting, Circuit

(* An open circuit takes at most the trips upstream that were left to the  *)
(* calls it had admitted before (LLMClient.acompletion asks it once for    *)
(* all attempts), for any number of calls and retries.                     *)
THEOREM OpenCircuitsDrain == Spec => OpenCircuitDrains
<1> DEFINE Drains(c) ==
      breaker[target[c]].state = "open" /\ breaker'[target[c]].state = "open" =>
        /\ TripsLeft(c)' <= TripsLeft(c)
        /\ pc[c] # "upstream" /\ pc'[c] = "upstream" => TripsLeft(c)' < TripsLeft(c)
<1>1. ASSUME IInv, [Next]_vars, NEW c \in Calls PROVE Drains(c)
  <2>1. /\ pc \in [Calls -> Places] /\ attempt \in [Calls -> 0..Retries]
        /\ Retries \in Nat /\ TripsLeft(c) \in Int
    BY <1>1, ClientAssumption DEF IInv, TypeOK, Places, TripsLeft
  <2>2. CASE Step(c) \/ Cancel(c)
    BY <1>1, <2>2, TripsStep, OpenAdmitsNobody
  <2>3. ASSUME NEW d \in Calls \ {c}, Step(d) \/ Cancel(d) PROVE Drains(c)
    <3>1. pc'[c] = pc[c] /\ attempt'[c] = attempt[c]
      BY <2>1, <2>3
      DEF Step, Goto, Start, Refuse, TakeToken, TakeProvider, TakeGlobal, Succeed,
          StreamSetUp, RateLimited, Retry, Fail, StreamOver, Cancel
    <3>2. QED BY <2>1, <3>1 DEF TripsLeft
  <2>4. ASSUME UNCHANGED clientVars PROVE Drains(c)
    BY <2>1, <2>4 DEF TripsLeft, clientVars
  <2>5. CASE \E p \in Providers : Refill(p) \/ Cool(p)
    BY <2>4, <2>5 DEF Refill, Cool
  <2>6. CASE UNCHANGED vars
    BY <2>4, <2>6 DEF vars
  <2>7. QED BY <1>1, <2>2, <2>3, <2>5, <2>6 DEF Next
<1>2. IInv /\ [Next]_vars
        => [\A c \in Calls :
              LET p == target[c] IN
              breaker[p].state = "open" /\ breaker'[p].state = "open" =>
                /\ TripsLeft(c)' <= TripsLeft(c)
                /\ pc[c] # "upstream" /\ pc'[c] = "upstream"
                     => TripsLeft(c)' < TripsLeft(c)]_vars
  BY <1>1
<1>3. QED BY <1>2, Invariance, PTL DEF Spec, OpenCircuitDrains

-----------------------------------------------------------------------------
(* The instances count with the same operator. *)
LEMMA SameCount ==
  \A S : /\ ProviderPermits!Cardinality(S) = Cardinality(S)
         /\ GlobalPermits!Cardinality(S) = Cardinality(S)
BY DEF ProviderPermits!Cardinality, GlobalPermits!Cardinality, Cardinality

(* A move is a step of the semaphore of its provider: it takes a permit    *)
(* that is free, gives one back, or stutters.                              *)
LEMMA MoveIsProviderStep ==
  ASSUME PermitInv, NEW c \in Calls, NEW to \in Places, Moves(c, to)
  PROVE  [ProviderPermits!Next]_([p \in Providers |-> At(p, HoldsProvider)])
<1> DEFINE held == [p \in Providers |-> At(p, HoldsProvider)]
<1> DEFINE q == target[c]
<1>1. /\ target' = target /\ q \in Providers
      /\ pc' = [pc EXCEPT ![c] = to] /\ pc \in [Calls -> Places]
      /\ Provider(to) <= providerFree[q] + Provider(pc[c])
      /\ providerFree[q] \in Nat
  BY OfCall DEF Moves
<1>2. /\ \A p \in Providers \ {q} : At(p, HoldsProvider)' = At(p, HoldsProvider)
      /\ At(q, HoldsProvider)' = IF to \in HoldsProvider THEN At(q, HoldsProvider) \cup {c}
                                 ELSE At(q, HoldsProvider) \ {c}
      /\ c \in At(q, HoldsProvider) <=> pc[c] \in HoldsProvider
  BY <1>1 DEF At, HoldsProvider
<1>3. CASE pc[c] \in HoldsProvider <=> to \in HoldsProvider
  <2>1. At(q, HoldsProvider)' = At(q, HoldsProvider)
    <3>1. CASE to \in HoldsProvider
      BY <1>2, <1>3, <3>1
    <3>2. CASE to \notin HoldsProvider
      BY <1>2, <1>3, <3>2
    <3>3. QED BY <3>1, <3>2
  <2>2. held' = held
    BY <1>1, <1>2, <2>1
  <2>3. QED BY <2>2
<1>4. CASE pc[c] \notin HoldsProvider /\ to \in HoldsProvider
  <2>1. c \notin held[q]
    BY <1>1, <1>2, <1>4
  <2>2. Cardinality(held[q]) < ProviderCap
    <3>1. providerFree[q] + Cardinality(At(q, HoldsProvider)) = ProviderCap
      BY <1>1 DEF PermitInv, PermitsInUse
    <3>2. Cardinality(At(q, HoldsProvider)) \in Nat
      BY Recount DEF At
    <3>3. Provider(to) = 1 /\ Provider(pc[c]) = 0
      BY <1>4 DEF Provider
    <3>4. QED BY <1>1, <3>1, <3>2, <3>3
  <2>3. held' = [held EXCEPT ![q] = held[q] \cup {c}]
    BY <1>1, <1>2, <1>4
  <2>4. ProviderPermits!Take(q, c)
    BY <2>1, <2>2, <2>3, SameCount DEF ProviderPermits!Take
  <2>5. QED BY <1>1, <2>4 DEF ProviderPermits!Next
<1>5. CASE pc[c] \in HoldsProvider /\ to \notin HoldsProvider
  <2>1. c \in held[q]
    BY <1>1, <1>2, <1>5
  <2>2. held' = [held EXCEPT ![q] = held[q] \ {c}]
    BY <1>1, <1>2, <1>5
  <2>3. ProviderPermits!Give(q, c)
    BY <2>1, <2>2 DEF ProviderPermits!Give
  <2>4. QED BY <1>1, <2>3 DEF ProviderPermits!Next
<1>6. QED BY <1>3, <1>4, <1>5

(* And it is such a step of the semaphore of the process.                  *)
LEMMA MoveIsGlobalStep ==
  ASSUME PermitInv, NEW c \in Calls, NEW to \in Places, Moves(c, to)
  PROVE  [GlobalPermits!Next]_([p \in {"process"} |-> InUse])
<1> DEFINE held == [p \in {"process"} |-> InUse]
<1>1. /\ pc' = [pc EXCEPT ![c] = to] /\ pc \in [Calls -> Places]
      /\ Global(to) <= globalFree + Global(pc[c])
      /\ globalFree \in Nat
  BY OfCall DEF Moves
<1>2. /\ InUse' = IF to \in HoldsGlobal THEN InUse \cup {c} ELSE InUse \ {c}
      /\ c \in InUse <=> pc[c] \in HoldsGlobal
  BY <1>1 DEF InUse, HoldsGlobal
<1>3. CASE pc[c] \in HoldsGlobal <=> to \in HoldsGlobal
  <2>1. InUse' = InUse
    <3>1. CASE to \in HoldsGlobal
      BY <1>2, <1>3, <3>1
    <3>2. CASE to \notin HoldsGlobal
      BY <1>2, <1>3, <3>2
    <3>3. QED BY <3>1, <3>2
  <2>2. held' = held
    BY <2>1
  <2>3. QED BY <2>2
<1>4. CASE pc[c] \notin HoldsGlobal /\ to \in HoldsGlobal
  <2>1. c \notin held["process"]
    BY <1>2, <1>4
  <2>2. Cardinality(held["process"]) < GlobalCap
    <3>1. globalFree + Cardinality(InUse) = GlobalCap
      BY DEF PermitInv, PermitsInUse
    <3>2. Cardinality(InUse) \in Nat
      BY Recount DEF InUse
    <3>3. Global(to) = 1 /\ Global(pc[c]) = 0
      BY <1>4 DEF Global
    <3>4. QED BY <1>1, <3>1, <3>2, <3>3
  <2>3. held' = [held EXCEPT !["process"] = held["process"] \cup {c}]
    BY <1>2, <1>4
  <2>4. GlobalPermits!Take("process", c)
    BY <2>1, <2>2, <2>3, SameCount DEF GlobalPermits!Take
  <2>5. QED BY <2>4 DEF GlobalPermits!Next
<1>5. CASE pc[c] \in HoldsGlobal /\ to \notin HoldsGlobal
  <2>1. c \in held["process"]
    BY <1>2, <1>5
  <2>2. held' = [held EXCEPT !["process"] = held["process"] \ {c}]
    BY <1>2, <1>5
  <2>3. GlobalPermits!Give("process", c)
    BY <2>1, <2>2 DEF GlobalPermits!Give
  <2>4. QED BY <2>3 DEF GlobalPermits!Next
<1>6. QED BY <1>3, <1>4, <1>5

(* The client keeps the contract of a semaphore for each provider and of   *)
(* one for the process (RateLimiter of ratelimit/limiter.py), with the     *)
(* calls at the places that hold a permit as its holders.                  *)
THEOREM PermitsImplementSemaphores == Spec => ImplementsSemaphores
<1> DEFINE ofProviders == [p \in Providers |-> At(p, HoldsProvider)]
<1> DEFINE ofProcess == [p \in {"process"} |-> InUse]
<1>1. Init => ProviderPermits!Init /\ GlobalPermits!Init
  BY DEF Init, ProviderPermits!Init, GlobalPermits!Init, At, InUse,
         HoldsProvider, HoldsGlobal
<1>2. IInv /\ [Next]_vars
        => [ProviderPermits!Next]_ofProviders /\ [GlobalPermits!Next]_ofProcess
  <2> SUFFICES ASSUME IInv, [Next]_vars
               PROVE  [ProviderPermits!Next]_ofProviders /\ [GlobalPermits!Next]_ofProcess
    OBVIOUS
  <2>1. PermitInv
    BY DEF IInv, PermitInv
  <2>2. ASSUME NEW c \in Calls, Step(c) \/ Cancel(c)
        PROVE  [ProviderPermits!Next]_ofProviders /\ [GlobalPermits!Next]_ofProcess
    <3>1. PICK to \in Places : Moves(c, to)
      BY <2>1, <2>2, Effect
    <3>2. QED BY <2>1, <3>1, MoveIsProviderStep, MoveIsGlobalStep
  <2>3. ASSUME UNCHANGED clientVars
        PROVE  ofProviders' = ofProviders /\ ofProcess' = ofProcess
    BY <2>3 DEF clientVars, At, InUse, HoldsProvider, HoldsGlobal
  <2>4. CASE \E p \in Providers : Refill(p) \/ Cool(p)
    BY <2>3, <2>4 DEF Refill, Cool
  <2>5. CASE UNCHANGED vars
    BY <2>3, <2>5 DEF vars
  <2>6. QED BY <2>2, <2>4, <2>5 DEF Next
<1>3. QED
  BY <1>1, <1>2, Invariance, PTL
  DEF Spec, ImplementsSemaphores, ProviderPermits!Spec, GlobalPermits!Spec
=============================================================================
