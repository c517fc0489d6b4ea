------------------------- MODULE BudgetedCallsProofs -------------------------
(* Proofs about BudgetedCalls for any number of calls, runs, days and        *)
(* amounts: the calls use the ledger as its specification allows, so that    *)
(* the ledger's theorems hold of the program; and a call that its owner      *)
(* settles through BudgetedExecutor is booked at what the provider billed.   *)
EXTENDS BudgetedCalls, TLAPS

(* The ledger again, with the theorems about it. *)
L == INSTANCE BudgetLedgerProofs WITH Costs <- 0..MaxCost, held <- Holding

(* The provider has not finished with the call. *)
Waiting == {"upstream", "first", "unstarted", "open", "reading"}

(* What holds of a call: its settlements run only while or after it awaits   *)
(* them; until it settles, only the sweep may have settled its reservation.  *)
CallOK(c) ==
  /\ pc[c] = "idle" => rid[c] = 0
  /\ pc[c] \in Live \/ tasks[c] # {} => rid[c] # 0
  /\ pc[c] \notin {"settling", "closing", "error"} => tasks[c] = {}
  /\ pc[c] = "settling" => tasks[c] = {1}
  /\ pc[c] = "closing" => 2 \in tasks[c]
  /\ Unary(c) => pc[c] \notin {"first", "unstarted", "open", "reading"}
  /\ pc[c] \in Waiting /\ Settled(c) => rid[c] \in swept
  /\ kind[c] \in {"unary", "stream"} => BilledIsCharged(c)

(* No two calls share a reservation. *)
Apart == \A c, d \in Calls : c # d /\ rid[c] # 0 => rid[c] # rid[d]

SweptAreSettled == \A i \in swept : reservations[i].state = "reconciled"

(* The part of TypeOK about the calls. *)
CallTypes ==
  /\ kind \in [Calls -> Kinds]
  /\ pc \in [Calls -> Live \cup {"idle", "done", "error", "dropped", "dead"}]
  /\ rid \in [Calls -> 0..Len(reservations)]
  /\ cost \in [Calls -> 0..MaxCost]
  /\ tasks \in [Calls -> SUBSET {1, 2}]
  /\ swept \subseteq 1..Len(reservations)

CallsInv == CallTypes /\ Apart /\ SweptAreSettled /\ \A c \in Calls : CallOK(c)
IInv == L!IInv /\ CallsInv

-----------------------------------------------------------------------------
(* What the theorems about the ledger assume of its parameters. *)
LEMMA LedgerParameters ==
  /\ Amounts \subseteq Nat
  /\ 0..MaxCost \subseteq Int
  /\ GlobalCeiling \in Nat /\ RequestCeilings \subseteq Nat
  /\ LastDay \in Nat /\ StaleAge \in Nat /\ SweepLimit \in Nat \ {0} /\ MaxReservations \in Nat
  /\ NoRow \notin Nat /\ NoKey \notin Nat
BY LedgerAssumption, CallsAssumption

(* What the proofs about the calls use of the parameters. *)
LEMMA Parameters ==
  /\ MaxCost \in Nat /\ MaxCost # 0 /\ 1 \in 0..MaxCost /\ 0 \in 0..MaxCost
  /\ StaleAge \in Nat
  /\ NoKey \notin Nat
BY LedgerAssumption, CallsAssumption

(* The two instances of the ledger are the same: in their types, *)
LEMMA SameTypes == Ledger!TypeOK <=> L!TypeOK
BY DEF Ledger!TypeOK, L!TypeOK, Ledger!Days, L!Days, Ledger!Windows, L!Windows,
  Ledger!Ids, L!Ids, Ledger!Reservation, L!Reservation, Ledger!Ages, L!Ages

(* ... in their initial tables, *)
LEMMA SameInit == Ledger!InitFresh <=> L!InitFresh
BY DEF Ledger!InitFresh, L!InitFresh, Ledger!Windows, L!Windows, Ledger!Days, L!Days

(* ... and in every operation: a reservation, *)
LEMMA SameBooks ==
  ASSUME NEW r, NEW a PROVE Ledger!Book(r, a) <=> L!Book(r, a)
BY DEF Ledger!Book, L!Book, Ledger!Request, L!Request, Ledger!Global, L!Global,
  Ledger!Affordable, L!Affordable, Ledger!Fits, L!Fits,
  Ledger!InsertOrIgnore, L!InsertOrIgnore, Ledger!Post, L!Post,
  Ledger!Windows, L!Windows, Ledger!Days, L!Days

(* a settlement, *)
LEMMA SameSettlements ==
  ASSUME NEW i, NEW k PROVE Ledger!Settle(i, k) <=> L!Settle(i, k)
BY DEF Ledger!Settle, L!Settle, Ledger!Request, L!Request, Ledger!Global, L!Global,
  Ledger!SettleWindow, L!SettleWindow, Ledger!Clamp, L!Clamp, Ledger!ledgerVars, L!ledgerVars,
  Ledger!Post, L!Post, Ledger!Windows, L!Windows, Ledger!Days, L!Days

(* the opening of a run, *)
LEMMA SameRuns ==
  ASSUME NEW r, NEW m PROVE Ledger!InitializeRequest(r, m) <=> L!InitializeRequest(r, m)
BY DEF Ledger!InitializeRequest, L!InitializeRequest, Ledger!Request, L!Request,
  Ledger!Global, L!Global, Ledger!InsertOrIgnore, L!InsertOrIgnore

(* the steps of the sweep, *)
LEMMA SameSweeps ==
  /\ Ledger!SweepSelect <=> L!SweepSelect
  /\ \A i : (Ledger!SweepCancel(i) <=> L!SweepCancel(i))
            /\ (Ledger!SweepSkip(i) <=> L!SweepSkip(i))
<1>1. Ledger!Stale = L!Stale
  BY DEF Ledger!Stale, L!Stale, Ledger!Ids, L!Ids
<1>2. Ledger!SweepSelect <=> L!SweepSelect
  <2>1. \A s : Ledger!Cardinality(s) = L!Cardinality(s)
    BY DEF Ledger!Cardinality, L!Cardinality
  <2>2. QED
    BY <1>1, <2>1 DEF Ledger!SweepSelect, L!SweepSelect, Ledger!ledgerVars, L!ledgerVars
<1>3. \A i : Ledger!SweepCancel(i) <=> L!SweepCancel(i)
  BY SameSettlements DEF Ledger!SweepCancel, L!SweepCancel
<1>4. \A i : Ledger!SweepSkip(i) <=> L!SweepSkip(i)
  BY DEF Ledger!SweepSkip, L!SweepSkip, Ledger!ledgerVars, L!ledgerVars
<1>5. QED BY <1>2, <1>3, <1>4

(* the passing of time, *)
LEMMA SameTicks == Ledger!Tick <=> L!Tick
BY DEF Ledger!Tick, L!Tick, Ledger!Days, L!Days, Ledger!Ids, L!Ids, Ledger!Older, L!Older,
  Ledger!ledgerVars, L!ledgerVars

(* and so in their next-state relation. *)
LEMMA SameNext == Ledger!Next <=> L!Next
<1>1. Ledger!Ids = L!Ids
  BY DEF Ledger!Ids, L!Ids
<1>2. \A r, a, k : Ledger!Reserve(r, a, k) <=> L!Reserve(r, a, k)
  BY SameBooks DEF Ledger!Reserve, L!Reserve
<1>3. \A i, k : Ledger!Reconcile(i, k) <=> L!Reconcile(i, k)
  BY SameSettlements DEF Ledger!Reconcile, L!Reconcile
<1>4. \A i : Ledger!Forget(i) <=> L!Forget(i)
  BY DEF Ledger!Forget, L!Forget, Ledger!ledgerVars, L!ledgerVars
<1>5. Ledger!Restart <=> L!Restart
  BY DEF Ledger!Restart, L!Restart, Ledger!ledgerVars, L!ledgerVars
<1>6. \A r, m : Ledger!InitializeRequest(r, m) <=> L!InitializeRequest(r, m)
  BY SameRuns
<1>7. QED
  BY <1>1, <1>2, <1>3, <1>4, <1>5, <1>6, SameSweeps, SameTicks DEF Ledger!Next, L!Next

-----------------------------------------------------------------------------
(* The rows of the table through the operations of the ledger: a reservation *)
(* appends a row. *)
LEMMA BookedRows ==
  ASSUME L!TypeOK, NEW r \in Runs, NEW a \in Amounts, Ledger!Book(r, a)
  PROVE  LET n == Len(reservations) + 1 IN
         /\ Len(reservations) \in Nat /\ Len(reservations') = n
         /\ \A j \in 1..Len(reservations) : reservations'[j] = reservations[j]
         /\ reservations'[n].state = "reserved"
<1>1. reservations \in Seq(L!Reservation)
  BY DEF L!TypeOK
<1> DEFINE row == [run |-> r, amount |-> a, state |-> "reserved", key |-> today,
                   age |-> 0, opened |-> today, charged |-> 0]
<1>2. reservations' = Append(reservations, row)
  BY DEF Ledger!Book
<1>3. row.state = "reserved"
  OBVIOUS
<1> HIDE DEF row
<1>4. QED BY <1>1, <1>2, <1>3

(* A settlement changes the row that it settles. *)
LEMMA SettledRows ==
  ASSUME L!TypeOK, NEW i \in 1..Len(reservations), NEW k \in 0..MaxCost, Ledger!Settle(i, k)
  PROVE  /\ Len(reservations') = Len(reservations)
         /\ \A j \in 1..Len(reservations) : j # i => reservations'[j] = reservations[j]
         /\ reservations[i].state = "reserved"
         /\ reservations'[i].state = "reconciled"
         /\ reservations'[i].charged = k
<1>1. reservations \in Seq(L!Reservation) /\ reservations[i] \in L!Reservation
  BY DEF L!TypeOK
<1>2. Ledger!Clamp(k) = k
  BY Parameters DEF Ledger!Clamp
<1>3. /\ reservations[i].state = "reserved"
      /\ reservations' = [reservations EXCEPT ![i].state = "reconciled", ![i].charged = k]
  BY <1>2 DEF Ledger!Settle
<1>4. QED BY <1>1, <1>3 DEF L!Reservation

(* Time makes rows older and changes nothing else of them. *)
LEMMA TickedRows ==
  ASSUME L!TypeOK, Ledger!Tick
  PROVE  /\ Len(reservations') = Len(reservations)
         /\ \A j \in 1..Len(reservations) :
              /\ reservations'[j].state = reservations[j].state
              /\ reservations'[j].charged = reservations[j].charged
<1>1. reservations \in Seq(L!Reservation) /\ Len(reservations) \in Nat
  BY DEF L!TypeOK
<1>2. reservations' = [i \in 1..Len(reservations) |->
                        [reservations[i] EXCEPT !.age = Ledger!Older(@)]]
  BY DEF Ledger!Tick, Ledger!Ids
<1>3. Len(reservations') = Len(reservations)
  BY <1>1, <1>2
<1>4. ASSUME NEW j \in 1..Len(reservations)
      PROVE  /\ reservations'[j].state = reservations[j].state
             /\ reservations'[j].charged = reservations[j].charged
  <2>1. reservations[j] \in L!Reservation
    BY <1>1
  <2>2. reservations'[j] = [reservations[j] EXCEPT !.age = Ledger!Older(@)]
    BY <1>2
  <2>3. QED BY <2>1, <2>2 DEF L!Reservation
<1>5. QED BY <1>3, <1>4

-----------------------------------------------------------------------------
(* A step of call c, as the other calls see it. *)
OthersKeep(c) ==
  /\ kind' = kind /\ swept' = swept
  /\ \A d \in Calls \ {c} :
       /\ pc'[d] = pc[d] /\ rid'[d] = rid[d] /\ cost'[d] = cost[d] /\ tasks'[d] = tasks[d]
       /\ rid[d] # 0 => reservations'[rid[d]] = reservations[rid[d]]

(* Nothing changes for the others. *)
LEMMA Others ==
  ASSUME CallsInv, NEW c \in Calls, OthersKeep(c), NEW d \in Calls, d # c
  PROVE  CallOK(d)' /\ (Owns(d)' <=> Owns(d)) /\ rid'[d] = rid[d]
<1>1. CallOK(d)
  BY DEF CallsInv
<1>2. /\ kind'[d] = kind[d] /\ swept' = swept
      /\ pc'[d] = pc[d] /\ rid'[d] = rid[d] /\ cost'[d] = cost[d] /\ tasks'[d] = tasks[d]
      /\ rid[d] # 0 => reservations'[rid[d]] = reservations[rid[d]]
  BY DEF OthersKeep
<1>3. (Settled(d)' <=> Settled(d)) /\ (Unary(d)' <=> Unary(d))
  BY <1>2 DEF Settled, Unary
<1>4. CallOK(d)'
  <2>1. Settled(d) => rid[d] # 0
    BY DEF Settled
  <2>2. BilledIsCharged(d) => BilledIsCharged(d)'
    BY <1>2, <1>3, <2>1 DEF BilledIsCharged
  <2>3. QED BY <1>1, <1>2, <1>3, <2>2 DEF CallOK, Live, Waiting
<1>5. Owns(d)' <=> Owns(d)
  BY <1>2, <1>3 DEF Owns
<1>6. QED BY <1>2, <1>4, <1>5

(* What the callers hold, when call c keeps its reservation or gives it up. *)
LEMMA HoldingSteps ==
  ASSUME CallsInv, NEW c \in Calls, OthersKeep(c), rid'[c] = rid[c]
  PROVE  /\ rid[c] = 0 \/ (Owns(c)' <=> Owns(c)) => Holding' = Holding
         /\ rid[c] # 0 /\ Owns(c) /\ ~Owns(c)' =>
              rid[c] \in Holding /\ Holding' = Holding \ {rid[c]}
<1>1. \A d \in Calls : d # c => (Owns(d)' <=> Owns(d)) /\ rid'[d] = rid[d]
  BY Others
<1>2. ASSUME rid[c] = 0 \/ (Owns(c)' <=> Owns(c)) PROVE Holding' = Holding
  BY <1>1, <1>2 DEF Holding
<1>3. ASSUME rid[c] # 0, Owns(c), ~Owns(c)'
      PROVE  rid[c] \in Holding /\ Holding' = Holding \ {rid[c]}
  <2>1. \A d \in Calls : d # c => rid[d] # rid[c]
    BY <1>3 DEF CallsInv, Apart
  <2>2. QED BY <1>1, <1>3, <2>1 DEF Holding
<1>4. QED BY <1>2, <1>3

Points == Live \cup {"idle", "done", "error", "dropped", "dead"}

(* A step of call c that the database does not see: the ledger stutters, or  *)
(* the call gives its reservation up.                                        *)
LEMMA LocalStep ==
  ASSUME CallsInv, L!TypeOK, NEW c \in Calls,
         NEW to \in Points, NEW k \in 0..MaxCost, NEW ts \in SUBSET {1, 2},
         pc' = [pc EXCEPT ![c] = to],
         cost' = [cost EXCEPT ![c] = k],
         tasks' = [tasks EXCEPT ![c] = ts],
         UNCHANGED <<ledgerState, kind, rid, swept>>,
         pc[c] \in Live \/ tasks[c] # {} \/ rid[c] = 0,
         pc'[c] = to /\ cost'[c] = k /\ tasks'[c] = ts => CallOK(c)'
  PROVE  CallsInv' /\ [L!Next]_(L!vars)
<1>1. CallTypes
  BY DEF CallsInv
<1>2. /\ UNCHANGED <<today, ceiling, reserved, spent, reservations, batch>>
      /\ kind' = kind /\ rid' = rid /\ swept' = swept
  BY DEF ledgerState
<1>3. CallTypes'
  BY <1>1, <1>2 DEF CallTypes, Points
<1>4. pc'[c] = to /\ cost'[c] = k /\ tasks'[c] = ts
  BY <1>1 DEF CallTypes
<1>5. OthersKeep(c)
  BY <1>1, <1>2 DEF CallTypes, OthersKeep
<1>6. \A d \in Calls : CallOK(d)'
  BY <1>4, <1>5, Others
<1>7. Apart' /\ SweptAreSettled'
  BY <1>2 DEF CallsInv, Apart, SweptAreSettled
<1>8. CallsInv'
  BY <1>3, <1>6, <1>7 DEF CallsInv
<1>9. rid[c] \in 0..Len(reservations) /\ rid'[c] = rid[c]
  BY <1>1, <1>2 DEF CallTypes
<1>10. ASSUME Holding' = Holding PROVE [L!Next]_(L!vars)
  BY <1>2, <1>10 DEF L!vars
<1>11. ASSUME Holding' # Holding PROVE [L!Next]_(L!vars)
  <2>1. rid[c] # 0 /\ Owns(c)
    BY <1>5, <1>9, <1>11, HoldingSteps DEF Owns
  <2>2. rid[c] \in Holding /\ Holding' = Holding \ {rid[c]}
    BY <1>5, <1>9, <1>11, <2>1, HoldingSteps
  <2>3. L!Forget(rid[c])
    BY <1>2, <2>2 DEF L!Forget, L!ledgerVars
  <2>4. rid[c] \in L!Ids
    BY <1>9, <2>1 DEF L!Ids, L!TypeOK
  <2>5. QED BY <2>3, <2>4 DEF L!Next
<1>12. QED BY <1>8, <1>10, <1>11

(* A call between its reservation and its settlement. *)
LEMMA CallSteps ==
  ASSUME CallsInv, L!TypeOK, NEW c \in Calls,
         \/ \E k \in 0..MaxCost : Answer(c, k)
         \/ Abort(c) \/ SetUp(c) \/ FirstChunk(c) \/ BodyStarts(c) \/ Read(c) \/ Chunk(c)
         \/ StreamEnds(c) \/ BodyClosed(c) \/ Dropped(c) \/ LetGo(c)
  PROVE  CallsInv' /\ [L!Next]_(L!vars)
<1>1. CallOK(c) /\ CallTypes
  BY DEF CallsInv
<1>2. /\ pc[c] \in Points /\ cost[c] \in 0..MaxCost /\ tasks[c] \in SUBSET {1, 2}
      /\ cost = [cost EXCEPT ![c] = cost[c]] /\ tasks = [tasks EXCEPT ![c] = tasks[c]]
  BY <1>1 DEF CallTypes, Points
<1> DEFINE Same == UNCHANGED <<ledgerState, kind, rid, swept>>
<1>3. Same => /\ kind'[c] = kind[c] /\ rid'[c] = rid[c] /\ swept' = swept
              /\ reservations' = reservations
  BY DEF ledgerState
<1> USE DEF CallOK, BilledIsCharged, Settled, Unary, Waiting, Live, Points
<1>4. ASSUME NEW k \in 0..MaxCost, Answer(c, k) PROVE CallsInv' /\ [L!Next]_(L!vars)
  <2>1. /\ Same /\ pc[c] = "upstream" /\ pc' = [pc EXCEPT ![c] = "settling"]
        /\ cost' = [cost EXCEPT ![c] = k] /\ tasks' = [tasks EXCEPT ![c] = {1}] /\ Unary(c)
    BY <1>1, <1>4 DEF Answer, Goto
  <2>2. pc'[c] = "settling" /\ cost'[c] = k /\ tasks'[c] = {1} => CallOK(c)'
    BY <1>1, <1>3, <2>1
  <2>3. QED BY <2>1, <2>2, LocalStep
<1>5. ASSUME Abort(c) PROVE CallsInv' /\ [L!Next]_(L!vars)
  <2> DEFINE ts == tasks[c] \cup {2}
  <2>1. /\ Same /\ pc[c] \in {"upstream", "first", "settling"}
        /\ pc' = [pc EXCEPT ![c] = "closing"]
        /\ cost' = [cost EXCEPT ![c] = cost[c]] /\ tasks' = [tasks EXCEPT ![c] = ts]
    BY <1>2, <1>5 DEF Abort
  <2>2. pc'[c] = "closing" /\ cost'[c] = cost[c] /\ tasks'[c] = ts => CallOK(c)'
    BY <1>1, <1>3, <2>1
  <2>3. QED BY <1>2, <2>1, <2>2, LocalStep
<1>6. ASSUME SetUp(c) PROVE CallsInv' /\ [L!Next]_(L!vars)
  <2> DEFINE to == IF kind[c] = "stream" THEN "open" ELSE "first"
  <2>1. /\ Same /\ pc[c] = "upstream" /\ pc' = [pc EXCEPT ![c] = to] /\ ~Unary(c)
        /\ cost' = [cost EXCEPT ![c] = 1] /\ tasks' = [tasks EXCEPT ![c] = tasks[c]]
    BY <1>2, <1>6 DEF SetUp, Goto
  <2>2. pc'[c] = to /\ cost'[c] = 1 /\ tasks'[c] = tasks[c] => CallOK(c)'
    BY <1>1, <1>3, <2>1
  <2>3. QED BY <1>2, <2>1, <2>2, LocalStep, Parameters
<1>7. ASSUME FirstChunk(c) \/ BodyStarts(c) \/ Read(c) PROVE CallsInv' /\ [L!Next]_(L!vars)
  <2>1. PICK from \in {"first", "unstarted", "open"}, to \in {"unstarted", "open", "reading"} :
          /\ Same /\ pc[c] = from /\ pc' = [pc EXCEPT ![c] = to]
          /\ cost' = [cost EXCEPT ![c] = cost[c]] /\ tasks' = [tasks EXCEPT ![c] = tasks[c]]
    BY <1>2, <1>7 DEF FirstChunk, BodyStarts, Read, Goto
  <2>2. pc'[c] = to /\ cost'[c] = cost[c] /\ tasks'[c] = tasks[c] => CallOK(c)'
    BY <1>1, <1>3, <2>1
  <2>3. QED BY <1>2, <2>1, <2>2, LocalStep
<1>8. ASSUME Chunk(c) PROVE CallsInv' /\ [L!Next]_(L!vars)
  <2> DEFINE k == cost[c] + 1
  <2>1. /\ Same /\ pc[c] = "reading" /\ pc' = [pc EXCEPT ![c] = "open"] /\ cost[c] < MaxCost
        /\ cost' = [cost EXCEPT ![c] = k] /\ tasks' = [tasks EXCEPT ![c] = tasks[c]]
    BY <1>2, <1>8 DEF Chunk, Goto
  <2>2. pc'[c] = "open" /\ cost'[c] = k /\ tasks'[c] = tasks[c] => CallOK(c)'
    BY <1>1, <1>3, <2>1
  <2>3. k \in 0..MaxCost
    BY <1>2, <2>1, Parameters
  <2>4. QED BY <1>2, <2>1, <2>2, <2>3, LocalStep
<1>9. ASSUME StreamEnds(c) \/ BodyClosed(c) PROVE CallsInv' /\ [L!Next]_(L!vars)
  <2>1. /\ Same /\ pc[c] \in {"reading", "open"} /\ pc' = [pc EXCEPT ![c] = "settling"]
        /\ cost' = [cost EXCEPT ![c] = cost[c]] /\ tasks' = [tasks EXCEPT ![c] = {1}]
    BY <1>1, <1>2, <1>9 DEF StreamEnds, BodyClosed, Finish
  <2>2. pc'[c] = "settling" /\ cost'[c] = cost[c] /\ tasks'[c] = {1} => CallOK(c)'
    BY <1>1, <1>3, <2>1
  <2>3. QED BY <1>2, <2>1, <2>2, LocalStep
<1>10. ASSUME Dropped(c) PROVE CallsInv' /\ [L!Next]_(L!vars)
  <2>1. /\ Same /\ pc[c] \in {"open", "unstarted"} /\ pc' = [pc EXCEPT ![c] = "dropped"]
        /\ cost' = [cost EXCEPT ![c] = cost[c]] /\ tasks' = [tasks EXCEPT ![c] = tasks[c]]
    BY <1>2, <1>10 DEF Dropped, Goto
  <2>2. pc'[c] = "dropped" /\ cost'[c] = cost[c] /\ tasks'[c] = tasks[c] => CallOK(c)'
    BY <1>1, <1>3, <2>1
  <2>3. QED BY <1>2, <2>1, <2>2, LocalStep
<1>11. ASSUME LetGo(c) PROVE CallsInv' /\ [L!Next]_(L!vars)
  <2>1. /\ Same /\ pc[c] \in {"closing", "settling"} /\ pc' = [pc EXCEPT ![c] = "error"]
        /\ cost' = [cost EXCEPT ![c] = cost[c]] /\ tasks' = [tasks EXCEPT ![c] = tasks[c]]
    BY <1>2, <1>11 DEF LetGo
  <2>2. pc'[c] = "error" /\ cost'[c] = cost[c] /\ tasks'[c] = tasks[c] => CallOK(c)'
    BY <1>1, <1>3, <2>1
  <2>3. QED BY <1>2, <2>1, <2>2, LocalStep
<1>12. QED BY <1>4, <1>5, <1>6, <1>7, <1>8, <1>9, <1>10, <1>11

(* A call that the budget refuses, and a settlement that changes nothing. *)
LEMMA IdleSteps ==
  ASSUME CallsInv, L!TypeOK, NEW c \in Calls,
         \/ \E r \in Runs, a \in Amounts : StartRefused(c, r, a)
         \/ \E n \in tasks[c] : FindsSettled(c, n) \/ SettleFails(c, n)
  PROVE  CallsInv' /\ [L!Next]_(L!vars)
<1>1. CallOK(c) /\ CallTypes
  BY DEF CallsInv
<1>2. /\ pc[c] \in Points /\ cost[c] \in 0..MaxCost /\ tasks[c] \in SUBSET {1, 2}
      /\ cost = [cost EXCEPT ![c] = cost[c]] /\ tasks = [tasks EXCEPT ![c] = tasks[c]]
      /\ pc = [pc EXCEPT ![c] = pc[c]]
  BY <1>1 DEF CallTypes, Points
<1> DEFINE Same == UNCHANGED <<ledgerState, kind, rid, swept>>
<1>3. Same => /\ kind'[c] = kind[c] /\ rid'[c] = rid[c] /\ swept' = swept
              /\ reservations' = reservations
  BY DEF ledgerState
<1> USE DEF CallOK, BilledIsCharged, Settled, Unary, Waiting, Live, Points
<1>4. ASSUME NEW r \in Runs, NEW a \in Amounts, StartRefused(c, r, a)
      PROVE  CallsInv' /\ [L!Next]_(L!vars)
  <2>1. /\ Same /\ pc[c] = "idle" /\ pc' = [pc EXCEPT ![c] = "error"]
        /\ cost' = [cost EXCEPT ![c] = cost[c]] /\ tasks' = [tasks EXCEPT ![c] = tasks[c]]
    BY <1>2, <1>4 DEF StartRefused, Goto
  <2>2. pc'[c] = "error" /\ cost'[c] = cost[c] /\ tasks'[c] = tasks[c] => CallOK(c)'
    BY <1>1, <1>3, <2>1
  <2>3. QED BY <1>1, <1>2, <2>1, <2>2, LocalStep
<1>5. ASSUME NEW n \in tasks[c], NEW ok \in BOOLEAN, Same, UNCHANGED cost, Ended(c, n, ok),
             ok => reservations[rid[c]].state = "reconciled"
      PROVE  CallsInv' /\ [L!Next]_(L!vars)
  <2> DEFINE retry == ~ok /\ n = 1 /\ Unary(c) /\ Awaits(c, n)
             to == IF ~Awaits(c, n) THEN pc[c]
                   ELSE IF retry THEN "closing" ELSE IF ok /\ n = 1 THEN "done" ELSE "error"
             ts == (tasks[c] \ {n}) \cup (IF retry THEN {2} ELSE {})
  <2>1. /\ to \in Points /\ pc' = [pc EXCEPT ![c] = to]
        /\ cost' = [cost EXCEPT ![c] = cost[c]]
        /\ ts \in SUBSET {1, 2} /\ tasks' = [tasks EXCEPT ![c] = ts]
    BY <1>2, <1>5 DEF Ended
  <2>2. ASSUME pc'[c] = to, cost'[c] = cost[c], tasks'[c] = ts PROVE CallOK(c)'
    <3>1. n \in {1, 2} /\ Settled(c)' = Settled(c) /\ (ok => Settled(c))
      BY <1>1, <1>2, <1>3, <1>5
    <3>2. CASE ~Awaits(c, n)
      <4>1. pc'[c] = pc[c] /\ tasks'[c] = tasks[c] \ {n} /\ pc[c] # "settling"
        BY <1>1, <2>2, <3>1, <3>2 DEF Awaits
      <4>2. pc[c] = "closing" => 2 \in tasks'[c]
        BY <1>1, <3>1, <3>2, <4>1 DEF Awaits
      <4>3. QED BY <1>1, <1>3, <1>5, <2>2, <4>1, <4>2
    <3>3. CASE Awaits(c, n) /\ retry
      <4>1. pc[c] = "settling" /\ tasks[c] = {1} /\ pc'[c] = "closing" /\ tasks'[c] = {2}
        BY <1>1, <2>2, <3>1, <3>3 DEF Awaits
      <4>2. QED BY <1>1, <1>3, <1>5, <2>2, <4>1
    <3>4. CASE Awaits(c, n) /\ ~retry /\ ok /\ n = 1
      <4>1. pc[c] = "settling" /\ tasks[c] = {1} /\ pc'[c] = "done" /\ tasks'[c] = {}
        BY <1>1, <2>2, <3>1, <3>4 DEF Awaits
      <4>2. QED BY <1>1, <1>3, <1>5, <2>2, <3>1, <3>4, <4>1
    <3>5. CASE Awaits(c, n) /\ ~retry /\ ~(ok /\ n = 1)
      <4>1. pc[c] \in {"settling", "closing"} /\ pc'[c] = "error"
        BY <2>2, <3>1, <3>5 DEF Awaits
      <4>2. QED BY <1>1, <1>3, <1>5, <4>1, <2>2
    <3>6. QED BY <3>2, <3>3, <3>4, <3>5
  <2>3. Same /\ tasks[c] # {}
    BY <1>5
  <2> HIDE DEF to, ts, Same, CallOK
  <2>4. pc'[c] = to /\ cost'[c] = cost[c] /\ tasks'[c] = ts => CallOK(c)'
    BY <2>2
  <2>5. QED BY <1>2, <2>1, <2>3, <2>4, LocalStep DEF Same
<1>6. ASSUME NEW n \in tasks[c], FindsSettled(c, n) PROVE CallsInv' /\ [L!Next]_(L!vars)
  BY <1>5, <1>6 DEF FindsSettled
<1>7. ASSUME NEW n \in tasks[c], SettleFails(c, n) PROVE CallsInv' /\ [L!Next]_(L!vars)
  BY <1>5, <1>7 DEF SettleFails
<1>8. QED BY <1>4, <1>6, <1>7

(* A call reserves its amount, and learns the id of its reservation or not.  *)
LEMMA StartSteps ==
  ASSUME CallsInv, L!TypeOK, NEW c \in Calls, NEW r \in Runs, NEW a \in Amounts,
         Start(c, r, a) \/ StartLost(c, r, a)
  PROVE  CallsInv' /\ [L!Next]_(L!vars)
<1>1. CallOK(c) /\ CallTypes /\ Apart /\ SweptAreSettled
  BY DEF CallsInv
<1> DEFINE n == Len(reservations) + 1
<1>2. /\ Ledger!Book(r, a) /\ pc[c] = "idle" /\ UNCHANGED <<kind, cost, tasks, swept>>
      /\ rid[c] = 0 /\ tasks[c] = {}
  BY <1>1 DEF Start, StartLost, Goto, CallOK
<1>3. /\ Len(reservations) \in Nat /\ Len(reservations') = n
      /\ \A j \in 1..Len(reservations) : reservations'[j] = reservations[j]
      /\ reservations'[n].state = "reserved"
  BY <1>2, BookedRows
<1>4. \A d \in Calls : rid[d] \in 0..Len(reservations)
  BY <1>1 DEF CallTypes
<1>5. \A d \in Calls : rid[d] # 0 => reservations'[rid[d]] = reservations[rid[d]]
  BY <1>3, <1>4
<1>6. OthersKeep(c)
  BY <1>1, <1>2, <1>5 DEF OthersKeep, CallTypes, Start, StartLost, Goto
<1>7. swept' = swept /\ SweptAreSettled'
  BY <1>1, <1>2, <1>3 DEF CallTypes, SweptAreSettled
<1>8. CASE StartLost(c, r, a)
  <2>1. pc' = [pc EXCEPT ![c] = "error"] /\ rid' = rid /\ rid'[c] = rid[c]
    BY <1>8 DEF StartLost, Goto
  <2>2. CallTypes'
    BY <1>1, <1>2, <1>3, <2>1 DEF CallTypes
  <2>3. pc'[c] = "error" /\ tasks'[c] = {} /\ rid'[c] = 0
    BY <1>1, <1>2, <2>1 DEF CallTypes
  <2>4. CallOK(c)'
    BY <2>3 DEF CallOK, BilledIsCharged, Settled, Waiting, Live
  <2>5. CallsInv'
    BY <1>1, <1>6, <1>7, <2>1, <2>2, <2>4, Others DEF CallsInv, Apart
  <2>6. Holding' = Holding
    BY <1>2, <1>6, <2>1, HoldingSteps
  <2>7. L!Reserve(r, a, FALSE)
    BY <1>2, <2>6, SameBooks DEF L!Reserve
  <2>8. QED BY <2>5, <2>7 DEF L!Next
<1>9. CASE Start(c, r, a)
  <2>1. pc' = [pc EXCEPT ![c] = "upstream"] /\ rid' = [rid EXCEPT ![c] = n]
    BY <1>9 DEF Start, Goto
  <2>2. CallTypes'
    BY <1>1, <1>2, <1>3, <1>4, <2>1 DEF CallTypes, Live
  <2>3. pc'[c] = "upstream" /\ tasks'[c] = {} /\ rid'[c] = n /\ kind'[c] = kind[c]
    BY <1>1, <1>2, <2>1 DEF CallTypes
  <2>4. n \notin swept /\ n # 0
    BY <1>1, <1>3 DEF CallTypes
  <2>5. CallOK(c)'
    BY <1>3, <1>7, <2>3, <2>4, Parameters
      DEF CallOK, BilledIsCharged, Settled, Waiting, Live
  <2>6. Apart'
    BY <1>1, <1>3, <1>4, <2>1 DEF Apart, CallTypes
  <2>7. CallsInv'
    BY <1>6, <1>7, <2>2, <2>5, <2>6, Others DEF CallsInv
  <2>8. Holding' = Holding \cup {n}
    <3>1. Owns(c)' /\ rid'[c] # 0 /\ n # 0
      BY <2>3, <2>4 DEF Owns, Live
    <3>2. \A d \in Calls : d # c => (Owns(d)' <=> Owns(d)) /\ rid'[d] = rid[d]
      BY <1>6, Others
    <3>3. QED BY <1>2, <2>3, <3>1, <3>2 DEF Holding
  <2>9. L!Reserve(r, a, TRUE)
    BY <1>2, <2>8, SameBooks DEF L!Reserve
  <2>10. QED BY <2>7, <2>9 DEF L!Next
<1>10. QED BY <1>8, <1>9

(* A settlement commits; its owner keeps the reservation it has settled. *)
LEMMA SettleSteps ==
  ASSUME CallsInv, L!TypeOK, NEW c \in Calls, NEW n \in tasks[c], Settles(c, n)
  PROVE  CallsInv' /\ [L!Next]_(L!vars)
<1>1. CallOK(c) /\ CallTypes /\ Apart /\ SweptAreSettled
  BY DEF CallsInv
<1> DEFINE i == rid[c]
           k == AttemptCost(c, n)
<1>2. /\ i \in 1..Len(reservations) /\ i # 0 /\ n \in {1, 2}
      /\ pc[c] \in {"settling", "closing", "error"}
  <2>1. rid[c] \in 0..Len(reservations) /\ tasks[c] \in SUBSET {1, 2}
    BY <1>1 DEF CallTypes
  <2>2. Len(reservations) \in Nat /\ tasks[c] # {}
    BY DEF L!TypeOK
  <2>3. rid[c] # 0 /\ pc[c] \in {"settling", "closing", "error"}
    BY <1>1, <2>2 DEF CallOK
  <2>4. QED BY <2>1, <2>2, <2>3
<1>3. k \in 0..MaxCost /\ (kind[c] \in {"unary", "stream"} => k = cost[c])
  BY <1>1, Parameters DEF AttemptCost, CallTypes
<1>4. /\ Len(reservations') = Len(reservations)
      /\ \A j \in 1..Len(reservations) : j # i => reservations'[j] = reservations[j]
      /\ reservations[i].state = "reserved" /\ reservations'[i].state = "reconciled"
      /\ reservations'[i].charged = k
  BY <1>2, <1>3, SettledRows DEF Settles
<1>5. UNCHANGED <<today, batch, kind, rid, cost, swept>> /\ Ended(c, n, TRUE)
  BY DEF Settles
<1> DEFINE to == IF ~Awaits(c, n) THEN pc[c] ELSE IF n = 1 THEN "done" ELSE "error"
           ts == tasks[c] \ {n}
<1>6. pc' = [pc EXCEPT ![c] = to] /\ tasks' = [tasks EXCEPT ![c] = ts]
  BY <1>1, <1>5 DEF Ended, CallTypes
<1>7. CallTypes'
  <2>1. to \in Live \cup {"idle", "done", "error", "dropped", "dead"} /\ ts \in SUBSET {1, 2}
    BY <1>1 DEF CallTypes
  <2>2. QED BY <1>1, <1>4, <1>5, <1>6, <2>1 DEF CallTypes
<1>8. pc'[c] = to /\ tasks'[c] = ts
  BY <1>1, <1>6 DEF CallTypes
<1>9. OthersKeep(c)
  <2>1. \A d \in Calls \ {c} : rid[d] # 0 => rid[d] # i /\ rid[d] \in 1..Len(reservations)
    BY <1>1, <1>2 DEF Apart, CallTypes, L!TypeOK
  <2>2. QED BY <1>1, <1>4, <1>5, <1>6, <2>1 DEF CallTypes, OthersKeep
<1>10. i \notin swept /\ SweptAreSettled'
  BY <1>1, <1>4, <1>5 DEF SweptAreSettled, CallTypes
<1>11. Settled(c)' /\ (kind[c] \in {"unary", "stream"} => BilledIsCharged(c)')
  BY <1>2, <1>3, <1>4, <1>5 DEF Settled, BilledIsCharged
<1>12. to \in {"settling", "closing", "error", "done"}
  BY <1>2
<1>13. CallOK(c)'
  <2>1. to = "done" => ts = {}
    BY <1>1, <1>2 DEF CallOK, Awaits
  <2>2. to = "settling" => FALSE
    BY <1>1, <1>2 DEF CallOK, Awaits
  <2>3. to = "closing" => 2 \in ts
    BY <1>1, <1>2 DEF CallOK, Awaits
  <2> HIDE DEF to, ts
  <2>4. QED
    BY <1>2, <1>5, <1>8, <1>11, <1>12, <2>1, <2>2, <2>3 DEF CallOK, Waiting, Unary
<1>14. CallsInv'
  BY <1>1, <1>5, <1>7, <1>9, <1>10, <1>13, Others DEF CallsInv, Apart
<1>15. Holding' = Holding
  <2>1. Owns(c)
    BY DEF Owns
  <2>2. Owns(c)'
    BY <1>5, <1>8, <1>10, <1>11, <1>12 DEF Owns
  <2>3. QED BY <1>5, <1>9, <2>1, <2>2, HoldingSteps
<1>16. L!Reconcile(i, k)
  <2>1. i \in Holding
    BY <1>2 DEF Holding, Owns
  <2>2. QED BY <1>5, <1>15, <2>1, SameSettlements DEF L!Reconcile, Settles
<1>17. i \in L!Ids
  BY <1>2 DEF L!Ids
<1>18. QED BY <1>3, <1>14, <1>16, <1>17 DEF L!Next

(* The steps that no call takes: a run is opened, the sweep, a restart, time. *)
LEMMA OtherSteps ==
  ASSUME IInv,
         \/ \E r \in Runs, m \in RequestCeilings : OpenRun(r, m)
         \/ Sweep \/ Restart \/ Tick
  PROVE  CallsInv' /\ [L!Next]_(L!vars)
<1>1. L!TypeOK /\ CallsInv
  BY DEF IInv, L!IInv
<1>2. /\ CallTypes /\ Apart /\ SweptAreSettled /\ \A c \in Calls : CallOK(c)
      /\ Len(reservations) \in Nat
  BY <1>1 DEF CallsInv, L!TypeOK
<1>3. ASSUME callVars' = callVars, reservations' = reservations, swept' = swept PROVE CallsInv'
  <2>1. kind' = kind /\ pc' = pc /\ rid' = rid /\ cost' = cost /\ tasks' = tasks
    BY <1>3 DEF callVars
  <2>2. \A c \in Calls : CallOK(c)'
    BY <1>2, <1>3, <2>1 DEF CallOK, BilledIsCharged, Settled, Unary
  <2>3. QED
    BY <1>2, <1>3, <2>1, <2>2 DEF CallsInv, CallTypes, Apart, SweptAreSettled
<1>4. ASSUME NEW r \in Runs, NEW m \in RequestCeilings, OpenRun(r, m)
      PROVE  CallsInv' /\ [L!Next]_(L!vars)
  <2>1. L!InitializeRequest(r, m)
    BY <1>4, SameRuns DEF OpenRun
  <2>2. CallsInv'
    BY <1>3, <1>4, <2>1 DEF OpenRun, L!InitializeRequest
  <2>3. QED BY <2>1, <2>2 DEF L!Next
<1>5. ASSUME UNCHANGED callVars, swept' = swept, Ledger!SweepSelect
      PROVE  CallsInv' /\ [L!Next]_(L!vars)
  <2>1. L!SweepSelect
    BY <1>5, SameSweeps
  <2>2. CallsInv'
    BY <1>3, <1>5, <2>1 DEF L!SweepSelect
  <2>3. QED BY <2>1, <2>2 DEF L!Next
<1>6. ASSUME UNCHANGED callVars, NEW i \in batch, swept' = swept, Ledger!SweepSkip(i)
      PROVE  CallsInv' /\ [L!Next]_(L!vars)
  <2>1. L!SweepSkip(i) /\ i \in L!Ids
    BY <1>1, <1>6, SameSweeps DEF L!TypeOK
  <2>2. CallsInv'
    BY <1>3, <1>6, <2>1 DEF L!SweepSkip
  <2>3. QED BY <2>1, <2>2 DEF L!Next
<1>7. ASSUME UNCHANGED callVars, NEW i \in batch,
             swept' = swept \cup {i}, Ledger!SweepCancel(i)
      PROVE  CallsInv' /\ [L!Next]_(L!vars)
  <2>1. L!SweepCancel(i) /\ i \in L!Ids /\ i \in 1..Len(reservations)
    BY <1>1, <1>7, SameSweeps DEF L!TypeOK, L!Ids
  <2>2. /\ Len(reservations') = Len(reservations)
        /\ \A j \in 1..Len(reservations) : j # i => reservations'[j] = reservations[j]
        /\ reservations[i].state = "reserved" /\ reservations'[i].state = "reconciled"
    <3>1. Ledger!Settle(i, 0)
      BY <1>7 DEF Ledger!SweepCancel
    <3>2. QED BY <1>1, <2>1, <3>1, SettledRows, Parameters
  <2>3. kind' = kind /\ pc' = pc /\ rid' = rid /\ cost' = cost /\ tasks' = tasks
    BY <1>7 DEF callVars
  <2>4. ASSUME NEW c \in Calls PROVE CallOK(c)'
    <3>1. CallOK(c) /\ rid[c] \in 0..Len(reservations)
      BY <1>2 DEF CallTypes
    <3>2. CASE rid[c] # i
      <4>1. (Settled(c)' <=> Settled(c)) /\ (rid'[c] \in swept' <=> rid[c] \in swept)
        BY <1>7, <2>2, <2>3, <3>1, <3>2 DEF Settled
      <4>2. rid[c] # 0 => reservations'[rid[c]] = reservations[rid[c]]
        BY <2>2, <3>1, <3>2
      <4>3. QED
        BY <2>3, <3>1, <4>1, <4>2 DEF CallOK, BilledIsCharged, Unary, Settled
    <3>3. CASE rid[c] = i
      <4>1. rid'[c] \in swept' /\ Settled(c)'
        BY <1>7, <2>1, <2>2, <2>3, <3>3 DEF Settled
      <4>2. QED BY <2>3, <3>1, <4>1 DEF CallOK, BilledIsCharged, Unary
    <3>4. QED BY <3>2, <3>3
  <2>5. CallTypes' /\ Apart' /\ SweptAreSettled'
    BY <1>2, <1>7, <2>1, <2>2, <2>3 DEF CallTypes, Apart, SweptAreSettled
  <2>6. QED BY <2>1, <2>4, <2>5 DEF CallsInv, L!Next
<1>8. CASE Restart
  <2>1. /\ pc' = [c \in Calls |-> IF pc[c] = "idle" THEN "idle" ELSE "dead"]
        /\ tasks' = [c \in Calls |-> {}] /\ reservations' = reservations
        /\ kind' = kind /\ rid' = rid /\ cost' = cost /\ swept' = swept
    BY <1>8 DEF Restart
  <2>2. ASSUME NEW c \in Calls PROVE CallOK(c)' /\ (rid[c] = 0 \/ ~Owns(c)')
    <3>1. CallOK(c) /\ pc'[c] = (IF pc[c] = "idle" THEN "idle" ELSE "dead") /\ tasks'[c] = {}
      BY <1>2, <2>1
    <3>2. CallOK(c)'
      BY <2>1, <3>1
        DEF CallOK, BilledIsCharged, Settled, Waiting, Live, Unary
    <3>3. rid[c] = 0 \/ ~Owns(c)'
      BY <2>1, <3>1 DEF CallOK, Owns, Live
    <3>4. QED BY <3>2, <3>3
  <2>3. CallTypes' /\ Apart' /\ SweptAreSettled'
    BY <1>2, <2>1 DEF CallTypes, Apart, SweptAreSettled
  <2>4. Holding' = {}
    BY <2>1, <2>2 DEF Holding
  <2>5. L!Restart
    BY <1>8, <2>4 DEF Restart, L!Restart, L!ledgerVars
  <2>6. QED BY <2>2, <2>3, <2>5 DEF CallsInv, L!Next
<1>9. CASE Tick
  <2>1. /\ kind' = kind /\ pc' = pc /\ rid' = rid /\ cost' = cost /\ tasks' = tasks
        /\ swept' = swept /\ Ledger!Tick
    BY <1>9 DEF Tick, callVars
  <2>2. /\ Len(reservations') = Len(reservations)
        /\ \A j \in 1..Len(reservations) :
             /\ reservations'[j].state = reservations[j].state
             /\ reservations'[j].charged = reservations[j].charged
    BY <1>1, <2>1, TickedRows
  <2>3. ASSUME NEW c \in Calls PROVE CallOK(c)'
    <3>1. CallOK(c) /\ rid[c] \in 0..Len(reservations)
      BY <1>2 DEF CallTypes
    <3>2. (Settled(c)' <=> Settled(c)) /\ (BilledIsCharged(c) => BilledIsCharged(c)')
      BY <1>2, <2>1, <2>2, <3>1 DEF Settled, BilledIsCharged
    <3>3. QED BY <2>1, <3>1, <3>2 DEF CallOK, Unary
  <2>4. CallTypes' /\ Apart' /\ SweptAreSettled'
    BY <1>2, <2>1, <2>2 DEF CallTypes, Apart, SweptAreSettled
  <2>5. QED BY <2>1, <2>3, <2>4, SameTicks DEF CallsInv, L!Next
<1>10. QED BY <1>4, <1>5, <1>6, <1>7, <1>8, <1>9 DEF Sweep

-----------------------------------------------------------------------------
(* The tables are fresh and no call has started. *)
LEMMA InitInvariant == Init => IInv
<1> SUFFICES ASSUME Init PROVE IInv
  OBVIOUS
<1>1. L!Init
  BY SameInit DEF Init, L!Init
<1>2. L!IInv
  BY <1>1, L!InitInvariant, LedgerParameters
<1>3. /\ \A c \in Calls : pc[c] = "idle" /\ rid[c] = 0 /\ tasks[c] = {}
      /\ swept = {}
  BY DEF Init
<1>4. \A c \in Calls : CallOK(c)
  BY <1>3 DEF CallOK, BilledIsCharged, Settled, Waiting, Live
<1>5. CallTypes
  <2>1. Len(reservations) \in Nat /\ 0 \in 0..MaxCost
    BY <1>2, Parameters DEF L!IInv, L!TypeOK
  <2>2. QED BY <2>1 DEF Init, CallTypes
<1>6. Apart /\ SweptAreSettled
  BY <1>3 DEF Apart, SweptAreSettled
<1>7. QED BY <1>2, <1>4, <1>5, <1>6 DEF IInv, CallsInv

(* Every step of the program is a step of the ledger or does not touch it.   *)
LEMMA Steps ==
  ASSUME IInv, [Next]_vars PROVE CallsInv' /\ [L!Next]_(L!vars)
<1>1. CallsInv /\ L!TypeOK
  BY DEF IInv, L!IInv
<1>2. ASSUME NEW c \in Calls, NEW r \in Runs, NEW a \in Amounts,
             Start(c, r, a) \/ StartLost(c, r, a) \/ StartRefused(c, r, a)
      PROVE  CallsInv' /\ [L!Next]_(L!vars)
  BY <1>1, <1>2, StartSteps, IdleSteps
<1>3. ASSUME NEW c \in Calls, NEW n \in tasks[c],
             Settles(c, n) \/ FindsSettled(c, n) \/ SettleFails(c, n)
      PROVE  CallsInv' /\ [L!Next]_(L!vars)
  BY <1>1, <1>3, SettleSteps, IdleSteps
<1>4. CASE UNCHANGED vars
  <2>1. /\ UNCHANGED <<today, ceiling, reserved, spent, reservations, batch>>
        /\ kind' = kind /\ pc' = pc /\ rid' = rid /\ cost' = cost /\ tasks' = tasks
        /\ swept' = swept
    BY <1>4 DEF vars, ledgerState, callVars
  <2>2. \A c \in Calls : CallOK(c)' /\ (Owns(c)' <=> Owns(c))
    BY <1>1, <2>1 DEF CallsInv, CallOK, BilledIsCharged, Settled, Unary, Owns
  <2>3. Holding' = Holding
    BY <2>1, <2>2 DEF Holding
  <2>4. CallsInv'
    BY <1>1, <2>1, <2>2 DEF CallsInv, CallTypes, Apart, SweptAreSettled
  <2>5. QED BY <2>1, <2>3, <2>4 DEF L!vars
<1>5. QED
  BY <1>1, <1>2, <1>3, <1>4, CallSteps, OtherSteps DEF Next

(* The ledger's own theorem carries its invariant over the step. *)
LEMMA NextInvariant == IInv /\ [Next]_vars => IInv'
<1> SUFFICES ASSUME IInv, [Next]_vars PROVE IInv'
  OBVIOUS
<1>1. CallsInv' /\ [L!Next]_(L!vars) /\ L!IInv
  BY Steps DEF IInv
<1>2. L!IInv'
  BY <1>1, L!NextInvariant, LedgerParameters
<1>3. QED BY <1>1, <1>2 DEF IInv

(* The ledger's invariant holds of the calls that use it, no two calls share *)
(* a reservation, and what CallOK says holds of each of them.                *)
THEOREM Invariance == Spec => []IInv
BY InitInvariant, NextInvariant, PTL DEF Spec

(* The types of the calls and of the ledger they use. *)
THEOREM TypeCorrect == Spec => []TypeOK
<1>1. IInv => TypeOK
  BY SameTypes DEF IInv, L!IInv, CallsInv, CallTypes, TypeOK
<1>2. QED BY <1>1, Invariance, PTL

(* A reservation that a call through BudgetedExecutor settled is booked at   *)
(* what the provider billed, whichever of its attempts won the race, and a   *)
(* call that ended well has settled.                                         *)
THEOREM BilledByExecutor == Spec => []ExecutorBilled
<1>1. IInv => ExecutorBilled
  BY SameTypes
  DEF IInv, L!IInv, CallsInv, CallTypes, CallOK, TypeOK, ExecutorBilled
<1>2. QED BY <1>1, Invariance, PTL

(* The calls implement the ledger's specification: what they hold is what    *)
(* they may still settle, and every step is a step of the ledger or leaves   *)
(* it alone.                                                                 *)
THEOREM Refinement == Spec => ImplementsLedger
<1>1. Init => Ledger!Init
  BY DEF Init, Ledger!Init
<1>2. IInv /\ [Next]_vars => [Ledger!Next]_(Ledger!vars)
  <2>1. ASSUME IInv, [Next]_vars PROVE L!Next \/ UNCHANGED L!vars
    BY <2>1, Steps
  <2>2. UNCHANGED L!vars => UNCHANGED Ledger!vars
    BY DEF L!vars, Ledger!vars
  <2>3. QED BY <2>1, <2>2, SameNext
<1>3. QED BY <1>1, <1>2, Invariance, PTL DEF Spec, ImplementsLedger

(* So the ledger's sums are right and no ceiling is passed by more than the  *)
(* calls overran their own reservations, whatever calls are cancelled, swept *)
(* or lost in a restart.                                                     *)
THEOREM LedgerIsSound ==
  Spec => [](L!ReservedIsOutstanding /\ L!SpentIsCharged /\ L!CeilingHolds)
<1>1. IInv => L!ReservedIsOutstanding /\ L!SpentIsCharged /\ L!CeilingHolds
  BY DEF IInv, L!IInv
<1>2. QED BY <1>1, Invariance, PTL

(* The actions of the ledger leave `held' alone, and here that is Holding,   *)
(* which is made of other variables.  This restricts no step of Next: what   *)
(* is held does not change when the sweep settles a reservation, and neither *)
(* when rows keep their state (a run is opened, a row skipped, time passes). *)
THEOREM HoldingIsNoGuard ==
  ASSUME CallsInv, L!TypeOK, UNCHANGED callVars
  PROVE  /\ \A i \in 1..Len(reservations) :
              Ledger!Settle(i, 0) /\ swept' = swept \cup {i} => Holding' = Holding
         /\ (/\ \A i \in 1..Len(reservations) : reservations'[i].state = reservations[i].state
             /\ swept' = swept) => Holding' = Holding
<1>1. kind' = kind /\ pc' = pc /\ rid' = rid /\ cost' = cost /\ tasks' = tasks
  BY DEF callVars
<1>2. ASSUME \A c \in Calls : rid[c] # 0 => (Owns(c)' <=> Owns(c)) PROVE Holding' = Holding
  BY <1>1, <1>2 DEF Holding
<1>3. \A c \in Calls : rid[c] # 0 => rid[c] \in 1..Len(reservations)
  BY DEF CallsInv, CallTypes, L!TypeOK
<1>4. ASSUME NEW i \in 1..Len(reservations), Ledger!Settle(i, 0), swept' = swept \cup {i}
      PROVE  Holding' = Holding
  <2>1. /\ \A j \in 1..Len(reservations) : j # i => reservations'[j] = reservations[j]
        /\ reservations[i].state = "reserved" /\ reservations'[i].state = "reconciled"
    BY <1>4, SettledRows, Parameters
  <2>2. ASSUME NEW c \in Calls, rid[c] # 0 PROVE Owns(c)' <=> Owns(c)
    BY <1>1, <1>3, <1>4, <2>1, <2>2 DEF Owns, Settled
  <2>3. QED BY <1>2, <2>2
<1>5. ASSUME \A i \in 1..Len(reservations) : reservations'[i].state = reservations[i].state,
             swept' = swept
      PROVE  Holding' = Holding
  <2>1. ASSUME NEW c \in Calls, rid[c] # 0 PROVE Owns(c)' <=> Owns(c)
    BY <1>1, <1>3, <1>5, <2>1 DEF Owns, Settled
  <2>2. QED BY <1>2, <2>1
<1>6. QED BY <1>4, <1>5
=============================================================================
