---------------------------- MODULE ChatApiProofs ----------------------------
(***************************************************************************)
(* Proofs about ChatApi for any number of keys and requests and any limit: *)
(* its types, and that the slots of a key are conserved.  Whatever a step  *)
(* is, it moves one request from a place to another; what it does to the   *)
(* slots is what the two places say about holding one (Moves).             *)
(***************************************************************************)
EXTENDS ChatApi, FiniteSetTheorems, TLAPS

Holding == Handling \cup Body \cup {"ignored"}
Places == {"idle", "waiting", "over"} \cup Holding

Held(place) == IF place \in Holding THEN 1 ELSE 0

(* Request r goes to a place and takes or returns the slot accordingly.    *)
Moves(r, to) ==
  /\ key' = key
  /\ pc' = [pc EXCEPT ![r] = to]
  /\ key[r] \in Keys
  /\ Held(to) <= free[key[r]] + Held(pc[r])
  /\ free' = [free EXCEPT ![key[r]] = @ + Held(pc[r]) - Held(to)]

(* The books of every key.                                                 *)
Counted == \A k \in Keys : free[k] + Cardinality(Taken(k)) = Limit

(* A request without a known key is turned away and never holds a slot.    *)
IInv ==
  /\ TypeOK
  /\ Counted
  /\ \A r \in Requests : pc[r] \notin {"idle", "over"} => key[r] \in Keys

-----------------------------------------------------------------------------
(* Two sets of requests that differ in one request at most. *)
LEMMA Recount ==
  ASSUME NEW A \in SUBSET Requests, NEW B \in SUBSET Requests, NEW r \in Requests,
         \A q \in Requests \ {r} : q \in A <=> q \in B
  PROVE  /\ Cardinality(A) \in Nat
         /\ Cardinality(B) \in Nat
         /\ Cardinality(B) + (IF r \in A THEN 1 ELSE 0)
              = Cardinality(A) + (IF r \in B THEN 1 ELSE 0)
<1>1. IsFiniteSet(A) /\ IsFiniteSet(B)
  BY RequestsAssumption, FS_Subset
<1>2. Cardinality(A) \in Nat /\ Cardinality(B) \in Nat
  BY <1>1, FS_CardinalityType
<1>3. CASE r \in A <=> r \in B
  <2>1. A = B
    BY <1>3
  <2>2. QED BY <2>1, <1>2
<1>4. CASE r \in A /\ r \notin B
  <2>1. A = B \cup {r}
    BY <1>4
  <2>2. Cardinality(A) = Cardinality(B) + 1
    BY <2>1, <1>1, <1>4, FS_AddElement
  <2>3. QED BY <2>2, <1>2, <1>4
<1>5. CASE r \notin A /\ r \in B
  <2>1. B = A \cup {r}
    BY <1>5
  <2>2. Cardinality(B) = Cardinality(A) + 1
    BY <2>1, <1>1, <1>5, FS_AddElement
  <2>3. QED BY <2>2, <1>2, <1>5
<1>6. QED BY <1>3, <1>4, <1>5

(* A move keeps the books of every key. *)
LEMMA MoveKeepsSlots ==
  ASSUME IInv, NEW r \in Requests, NEW to \in Places, Moves(r, to)
  PROVE  /\ Counted'
         /\ free' \in [Keys -> 0..Limit]
         /\ pc' \in [Requests -> Places]
         /\ \A q \in Requests : pc'[q] \notin {"idle", "over"} => key'[q] \in Keys
<1>1. /\ key \in [Requests -> Keys \cup {NoKey}]
      /\ pc \in [Requests -> Places]
      /\ free \in [Keys -> 0..Limit]
  BY DEF IInv, TypeOK, Places, Holding, Ended
<1>2. /\ pc' \in [Requests -> Places]
      /\ pc'[r] = to
      /\ \A q \in Requests \ {r} : pc'[q] = pc[q]
      /\ key' = key
  BY <1>1 DEF Moves
<1>3. Held(to) \in Nat /\ Held(pc[r]) \in Nat
  BY DEF Held
<1>4. free' \in [Keys -> Int]
  BY <1>1, <1>3 DEF Moves
<1>5. ASSUME NEW k \in Keys
      PROVE  /\ free'[k] + Cardinality(Taken(k)') = Limit
             /\ free'[k] \in 0..Limit
  <2> DEFINE Here == Taken(k)
  <2>1. /\ Cardinality(Here) \in Nat
        /\ Cardinality(Here') \in Nat
        /\ Cardinality(Here') + (IF r \in Here THEN 1 ELSE 0)
             = Cardinality(Here) + (IF r \in Here' THEN 1 ELSE 0)
    BY <1>2, Recount DEF Taken, Holders, Lost
  <2>2. free[k] + Cardinality(Here) = Limit /\ free[k] \in Nat
    BY <1>1 DEF IInv, Counted
  <2>3. CASE k = key[r]
    <3>1. /\ (IF r \in Here THEN 1 ELSE 0) = Held(pc[r])
          /\ (IF r \in Here' THEN 1 ELSE 0) = Held(to)
      BY <1>2, <2>3 DEF Taken, Holders, Lost, Held, Holding
    <3>2. /\ free'[k] = free[k] + Held(pc[r]) - Held(to)
          /\ Held(to) <= free[k] + Held(pc[r])
      BY <1>1, <2>3 DEF Moves
    <3>3. QED BY <2>1, <2>2, <3>1, <3>2, <1>3, LimitAssumption
  <2>4. CASE k # key[r]
    <3>1. r \notin Here /\ r \notin Here'
      BY <1>2, <2>4 DEF Taken, Holders, Lost
    <3>2. free'[k] = free[k]
      BY <1>1, <2>4 DEF Moves
    <3>3. QED BY <2>1, <2>2, <3>1, <3>2, LimitAssumption
  <2>5. QED BY <2>3, <2>4
<1>6. free' \in [Keys -> 0..Limit]
  BY <1>4, <1>5
<1>7. Counted'
  BY <1>5 DEF Counted
<1>8. \A q \in Requests : pc'[q] \notin {"idle", "over"} => key'[q] \in Keys
  BY <1>2 DEF IInv, Moves
<1>9. QED BY <1>2, <1>6, <1>7, <1>8

-----------------------------------------------------------------------------
(* A step that leaves the slots alone, between places that hold the same.  *)
LEMMA StayMoves ==
  ASSUME IInv, NEW r \in Requests, NEW from \in SUBSET Places, NEW to \in Places,
         Goes(r, from, to), UNCHANGED <<key, free>>, key[r] \in Keys,
         \A p \in from : p \in Holding <=> to \in Holding
  PROVE  Moves(r, to)
<1>1. free \in [Keys -> 0..Limit] /\ free[key[r]] \in Nat
  BY DEF IInv, TypeOK
<1>2. Held(pc[r]) = Held(to) /\ Held(to) \in Nat
  BY DEF Goes, Held
<1>3. free[key[r]] + Held(pc[r]) - Held(to) = free[key[r]]
  BY <1>1, <1>2
<1>4. free' = [free EXCEPT ![key[r]] = @ + Held(pc[r]) - Held(to)]
  BY <1>1, <1>3
<1>5. Held(to) <= free[key[r]] + Held(pc[r])
  BY <1>1, <1>2
<1>6. key' = key /\ pc' = [pc EXCEPT ![r] = to]
  BY DEF Goes
<1>7. QED BY <1>4, <1>5, <1>6 DEF Moves

(* The handler's or the body's finally block gives the slot back.          *)
LEMMA LeaveMoves ==
  ASSUME IInv, NEW r \in Requests, NEW from \in SUBSET Holding, NEW status,
         Leave(r, from, status)
  PROVE  Moves(r, "over")
<1>1. pc[r] \in Holding /\ key[r] \in Keys
  BY DEF IInv, Leave, Goes, Holding, Handling, Body
<1>2. Held(pc[r]) = 1 /\ Held("over") = 0
  BY <1>1 DEF Held, Holding, Handling, Body
<1>3. free \in [Keys -> 0..Limit] /\ free[key[r]] \in Nat
  BY <1>1 DEF IInv, TypeOK
<1>4. free[key[r]] + Held(pc[r]) - Held("over") = free[key[r]] + 1
  BY <1>2, <1>3
<1>5. free' = [free EXCEPT ![key[r]] = @ + Held(pc[r]) - Held("over")]
  BY <1>3, <1>4 DEF Leave, ReleaseSlot
<1>6. QED BY <1>1, <1>2, <1>3, <1>5 DEF Leave, Goes, Moves

(* Every step of a request that has a known key moves it in that sense;    *)
(* one with an unknown key is only told so.                                *)
LEMMA StepMoves ==
  ASSUME IInv, NEW r \in Requests,
         Send(r) \/ CancelWait(r) \/ Cancel(r) \/ Handle(r)
  PROVE  \/ \E to \in Places : Moves(r, to)
         \/ UNCHANGED <<key, free>> /\ Goes(r, {"idle"}, "over") /\ key[r] \notin Keys
<1> USE DEF Places, Holding, Handling, Body
<1>1. pc[r] \notin {"idle", "over"} => key[r] \in Keys
  BY DEF IInv
<1>2. CASE Send(r)
  <2>1. CASE key[r] = NoKey
    BY <1>2, <2>1, NoKeyAssumption DEF Send
  <2>2. CASE key[r] \in Keys
    <3>1. Goes(r, {"idle"}, "waiting") /\ UNCHANGED <<key, free>>
      BY <1>2, <2>2, NoKeyAssumption DEF Send
    <3>2. Moves(r, "waiting")
      BY <2>2, <3>1, StayMoves
    <3>3. QED BY <3>2
  <2>3. QED BY <1>2, <2>1, <2>2 DEF Send
<1>3. CASE AcquireSlot(r)
  <2>1. pc[r] = "waiting" /\ key[r] \in Keys
    BY <1>1, <1>3 DEF AcquireSlot, Goes
  <2>2. Held(pc[r]) = 0 /\ Held("lookup") = 1
    BY <2>1 DEF Held
  <2>3. free \in [Keys -> 0..Limit] /\ free[key[r]] \in Nat
    BY <2>1 DEF IInv, TypeOK
  <2>4. free[key[r]] + Held(pc[r]) - Held("lookup") = free[key[r]] - 1
    BY <2>2, <2>3
  <2>5. free' = [free EXCEPT ![key[r]] = @ + Held(pc[r]) - Held("lookup")]
    BY <1>3, <2>3, <2>4 DEF AcquireSlot
  <2>6. Held("lookup") <= free[key[r]] + Held(pc[r])
    BY <1>3, <2>2, <2>3 DEF AcquireSlot
  <2>7. Moves(r, "lookup")
    BY <1>3, <2>1, <2>5, <2>6 DEF AcquireSlot, Goes, Moves
  <2>8. QED BY <2>7
<1>4. CASE CancelWait(r) \/ AcquireTimeout(r)
  <2>1. Goes(r, {"waiting"}, "over") /\ UNCHANGED <<key, free>>
    BY <1>4 DEF CancelWait, AcquireTimeout
  <2>2. key[r] \in Keys
    BY <1>1, <2>1 DEF Goes
  <2>3. Moves(r, "over")
    BY <2>1, <2>2, StayMoves
  <2>4. QED BY <2>3
<1>5. CASE LookUp(r)
  <2> DEFINE to == IF r \in Direct THEN "single" ELSE "fusion"
  <2>1. Goes(r, {"lookup"}, to) /\ to \in {"fusion", "single"}
    BY <1>5 DEF LookUp
  <2>2. UNCHANGED <<key, free>> /\ key[r] \in Keys
    BY <1>1, <1>5, <2>1 DEF LookUp, Goes
  <2>3. Moves(r, to)
    BY <2>1, <2>2, StayMoves
  <2>4. QED BY <2>3
<1>6. CASE Reject(r) \/ Answer(r) \/ Raise(r) \/ WallTimeout(r) \/ Cancel(r)
           \/ Exhausted(r) \/ Breaks(r) \/ Collected(r)
  <2>1. PICK from \in SUBSET Holding, status \in Statuses : Leave(r, from, status)
    BY <1>6 DEF Reject, Answer, Raise, WallTimeout, Cancel, Exhausted, Breaks,
                Collected, Statuses
  <2>2. Moves(r, "over")
    BY <2>1, LeaveMoves
  <2>3. QED BY <2>2
<1>7. CASE SetUp(r) \/ HandOver(r) \/ BodyStarts(r) \/ BodyIgnored(r) \/ Chunk(r)
           \/ Resume(r) \/ Dropped(r)
  <2>1. PICK from \in SUBSET Holding, to \in Holding : Goes(r, from, to)
    BY <1>7 DEF SetUp, HandOver, BodyStarts, BodyIgnored, Chunk, Resume, Dropped
  <2>2. UNCHANGED <<key, free>> /\ key[r] \in Keys
    BY <1>1, <1>7, <2>1 DEF SetUp, HandOver, BodyStarts, BodyIgnored, Chunk,
                            Resume, Dropped, Goes
  <2>3. Moves(r, to)
    BY <2>1, <2>2, StayMoves
  <2>4. QED BY <2>3
<1>8. QED
  BY <1>2, <1>3, <1>4, <1>5, <1>6, <1>7 DEF Handle

(* What a request gets is one of the statuses. *)
LEMMA StepAnswers ==
  ASSUME IInv, NEW r \in Requests,
         Send(r) \/ CancelWait(r) \/ Cancel(r) \/ Handle(r)
  PROVE  client' \in [Requests -> Statuses]
<1>1. client \in [Requests -> Statuses]
  BY DEF IInv, TypeOK
<1>2. \A s \in Statuses : Gets(r, s) => client' \in [Requests -> Statuses]
  BY <1>1 DEF Gets
<1>3. (\E s \in Statuses : Gets(r, s)) \/ client' = client
  BY DEF Send, CancelWait, Cancel, Handle, AcquireSlot, AcquireTimeout, LookUp,
         Reject, Answer, Raise, WallTimeout, Leave, SetUp, HandOver, BodyStarts,
         BodyIgnored, Chunk, Resume, Exhausted, Breaks, Dropped, Collected, Statuses
<1>4. QED BY <1>1, <1>2, <1>3

-----------------------------------------------------------------------------
(* At first every slot is free and nobody holds one. *)
LEMMA InitInv == Init => IInv
<1> SUFFICES ASSUME Init PROVE IInv
  OBVIOUS
<1>1. TypeOK
  BY LimitAssumption DEF Init, TypeOK, Statuses
<1>2. \A k \in Keys : Taken(k) = {}
  BY DEF Init, Taken, Holders, Lost, Handling, Body
<1>3. Counted
  BY <1>2, FS_EmptySet, LimitAssumption DEF Init, Counted
<1>4. QED BY <1>1, <1>3 DEF Init, IInv

(* Every step keeps the invariant. *)
LEMMA NextInv == IInv /\ [Next]_vars => IInv'
<1> SUFFICES ASSUME IInv, [Next]_vars PROVE IInv'
  OBVIOUS
<1>1. /\ key \in [Requests -> Keys \cup {NoKey}]
      /\ pc \in [Requests -> Places]
      /\ free \in [Keys -> 0..Limit]
  BY DEF IInv, TypeOK, Places, Holding, Ended
<1>2. ASSUME NEW r \in Requests, Send(r) \/ CancelWait(r) \/ Cancel(r) \/ Handle(r)
      PROVE  IInv'
  <2>1. client' \in [Requests -> Statuses]
    BY <1>2, StepAnswers
  <2>2. ASSUME NEW to \in Places, Moves(r, to) PROVE IInv'
    <3>1. key' = key
      BY <2>2 DEF Moves
    <3>2. QED
      BY <1>1, <2>1, <2>2, <3>1, MoveKeepsSlots DEF IInv, TypeOK, Places, Holding, Ended
  <2>3. ASSUME UNCHANGED <<key, free>>, Goes(r, {"idle"}, "over"), key[r] \notin Keys
        PROVE  IInv'
    <3>1. /\ pc' \in [Requests -> Places] /\ pc'[r] = "over"
          /\ \A q \in Requests \ {r} : pc'[q] = pc[q]
      BY <1>1, <2>3 DEF Goes, Places
    <3>2. \A k \in Keys : Taken(k)' = Taken(k)
      BY <3>1, <2>3 DEF Taken, Holders, Lost
    <3>3. Counted'
      BY <3>2, <2>3 DEF IInv, Counted
    <3>4. TypeOK'
      BY <1>1, <2>1, <2>3, <3>1 DEF TypeOK, Places, Holding, Ended
    <3>5. QED BY <2>3, <3>1, <3>3, <3>4 DEF IInv
  <2>4. QED BY <1>2, <2>2, <2>3, StepMoves
<1>3. CASE UNCHANGED vars
  BY <1>3 DEF vars, IInv, TypeOK, Counted, Taken, Holders, Lost
<1>4. QED BY <1>2, <1>3 DEF Next

(* The inductive invariant holds of the API's handlers and bodies.         *)
THEOREM Invariance == Spec => []IInv
<1>1. Init => IInv BY InitInv
<1>2. IInv /\ [Next]_vars => IInv' BY NextInv
<1>3. QED BY <1>1, <1>2, PTL DEF Spec

(* The variables keep their types: in particular a semaphore never counts  *)
(* more than its limit.                                                    *)
THEOREM TypeCorrect == Spec => []TypeOK
<1>1. IInv => TypeOK BY DEF IInv
<1>2. QED BY <1>1, Invariance, PTL

(* A slot of an API key that is missing is with a request or stream at     *)
(* work, or was lost with a body that never started; none is given back    *)
(* twice (chat.py:35-77), whatever is cancelled, times out or is handed    *)
(* over to a stream.                                                       *)
THEOREM SlotsAreConserved == Spec => []SlotsConserved
<1>1. ASSUME IInv PROVE SlotsConserved
  <2>1. ASSUME NEW k \in Keys
        PROVE  free[k] + Cardinality(Holders(k)) + Cardinality(Lost(k)) = Limit
    <3>1. /\ Holders(k) \subseteq Requests /\ Lost(k) \subseteq Requests
          /\ Holders(k) \cap Lost(k) = {}
      BY DEF Holders, Lost, Handling, Body
    <3>2. IsFiniteSet(Holders(k)) /\ IsFiniteSet(Lost(k))
      BY <3>1, RequestsAssumption, FS_Subset
    <3>3. Cardinality(Taken(k)) = Cardinality(Holders(k)) + Cardinality(Lost(k))
      <4> DEFINE A == Holders(k)
                 B == Lost(k)
      <4>1. Cardinality(A \cup B) = Cardinality(A) + Cardinality(B) - Cardinality(A \cap B)
        BY <3>2, FS_Union
      <4>2. Cardinality(A \cap B) = 0
        BY <3>1, FS_EmptySet
      <4>3. Cardinality(A) \in Nat /\ Cardinality(B) \in Nat
        BY <3>2, FS_CardinalityType
      <4>4. QED BY <4>1, <4>2, <4>3 DEF Taken
    <3>4. free[k] \in Nat /\ free[k] + Cardinality(Taken(k)) = Limit
      BY <1>1 DEF IInv, TypeOK, Counted
    <3>5. QED BY <3>2, <3>3, <3>4, FS_CardinalityType
  <2>2. QED BY <1>1, <2>1 DEF IInv, SlotsConserved
<1>2. QED BY <1>1, Invariance, PTL

-----------------------------------------------------------------------------
(* The instance counts with the same operator. *)
LEMMA SameCount == \A S : KeySlots!Cardinality(S) = Cardinality(S)
BY DEF KeySlots!Cardinality, Cardinality

(* A move is a step of the semaphore of its key: it takes a permit that is *)
(* free, gives one back, or stutters.                                      *)
LEMMA MoveIsPermitStep ==
  ASSUME IInv, NEW r \in Requests, NEW to \in Places, Moves(r, to)
  PROVE  [KeySlots!Next]_([k \in Keys |-> Taken(k)])
<1> DEFINE held == [k \in Keys |-> Taken(k)]
<1>1. /\ key' = key /\ key[r] \in Keys
      /\ pc' = [pc EXCEPT ![r] = to] /\ pc \in [Requests -> Places]
      /\ Held(to) <= free[key[r]] + Held(pc[r])
      /\ free \in [Keys -> 0..Limit]
  BY DEF Moves, IInv, TypeOK, Places, Holding, Ended
<1> DEFINE k == key[r]
<1>2. /\ \A j \in Keys \ {k} : Taken(j)' = Taken(j)
      /\ Taken(k)' = IF to \in Holding THEN Taken(k) \cup {r} ELSE Taken(k) \ {r}
      /\ r \in Taken(k) <=> pc[r] \in Holding
  BY <1>1 DEF Taken, Holders, Lost, Holding
<1>3. CASE pc[r] \in Holding <=> to \in Holding
  <2>1. Taken(k)' = Taken(k)
    <3>1. CASE to \in Holding
      BY <1>2, <1>3, <3>1
    <3>2. CASE to \notin Holding
      BY <1>2, <1>3, <3>2
    <3>3. QED BY <3>1, <3>2
  <2>2. held' = held
    BY <1>1, <1>2, <2>1
  <2>3. QED BY <2>2
<1>4. CASE pc[r] \notin Holding /\ to \in Holding
  <2>1. r \notin held[k]
    BY <1>1, <1>2, <1>4
  <2>2. Cardinality(held[k]) < Limit
    <3>1. free[k] + Cardinality(Taken(k)) = Limit /\ free[k] \in Nat
      BY <1>1 DEF IInv, Counted
    <3>2. Cardinality(Taken(k)) \in Nat
      BY Recount DEF Taken, Holders, Lost
    <3>3. Held(to) = 1 /\ Held(pc[r]) = 0
      BY <1>4 DEF Held
    <3>4. QED BY <1>1, <3>1, <3>2, <3>3
  <2>3. held' = [held EXCEPT ![k] = held[k] \cup {r}]
    BY <1>1, <1>2, <1>4
  <2>4. KeySlots!Take(k, r)
    BY <2>1, <2>2, <2>3, SameCount DEF KeySlots!Take
  <2>5. QED BY <1>1, <2>4 DEF KeySlots!Next
<1>5. CASE pc[r] \in Holding /\ to \notin Holding
  <2>1. r \in held[k]
    BY <1>1, <1>2, <1>5
  <2>2. held' = [held EXCEPT ![k] = held[k] \ {r}]
    BY <1>1, <1>2, <1>5
  <2>3. KeySlots!Give(k, r)
    BY <2>1, <2>2 DEF KeySlots!Give
  <2>4. QED BY <1>1, <2>3 DEF KeySlots!Next
<1>6. QED BY <1>3, <1>4, <1>5

(* The handlers and bodies keep the contract of a semaphore for each API   *)
(* key (_key_semaphores of api/chat.py), with the requests at work as its  *)
(* holders.                                                                *)
THEOREM SlotsImplementSemaphores == Spec => ImplementsSemaphores
<1> DEFINE held == [k \in Keys |-> Taken(k)]
<1>1. Init => KeySlots!Init
  BY DEF Init, KeySlots!Init, Taken, Holders, Lost, Handling, Body
<1>2. IInv /\ [Next]_vars => [KeySlots!Next]_held
  <2> SUFFICES ASSUME IInv, [Next]_vars PROVE [KeySlots!Next]_held
    OBVIOUS
  <2>1. ASSUME NEW r \in Requests, Send(r) \/ CancelWait(r) \/ Cancel(r) \/ Handle(r)
        PROVE  [KeySlots!Next]_held
    <3>1. CASE \E to \in Places : Moves(r, to)
      BY <3>1, MoveIsPermitStep
    <3>2. CASE UNCHANGED <<key, free>> /\ Goes(r, {"idle"}, "over") /\ key[r] \notin Keys
      <4>1. \A k \in Keys : Taken(k)' = Taken(k)
        BY <3>2 DEF Goes, Taken, Holders, Lost, IInv, TypeOK
      <4>2. held' = held
        BY <4>1
      <4>3. QED BY <4>2
    <3>3. QED BY <2>1, <3>1, <3>2, StepMoves
  <2>2. CASE UNCHANGED vars
    <3>1. held' = held
      BY <2>2 DEF vars, Taken, Holders, Lost
    <3>2. QED BY <3>1
  <2>3. QED BY <2>1, <2>2 DEF Next
<1>3. QED
  BY <1>1, <1>2, Invariance, PTL DEF Spec, ImplementsSemaphores, KeySlots!Spec
=============================================================================
