---------------------------- MODULE BudgetedCalls ----------------------------
(***************************************************************************)
(* Who spends the budget: the life of a provider call from its reservation *)
(* to its settlement, on top of the ledger.  A call is of one kind:        *)
(*   "unary"          BudgetedExecutor.call      (runtime/executor.py)     *)
(*   "stream"         BudgetedExecutor.stream and its BudgetedStream       *)
(*   "direct"         _single_model_completion   (api/chat.py)             *)
(*   "direct_stream"  the same with body.stream                            *)
(*                                                                         *)
(* A settlement is awaited under asyncio.shield: when the call that awaits *)
(* it is cancelled the settlement goes on by itself, as a task.  Attempt 1 *)
(* is the settlement of the normal path, attempt 2 that of the finally     *)
(* block.  The ledger's sweep and a restart of the process run alongside.  *)
(* rid 0 is no reservation; costs are counted in units of micro-USD.       *)
(***************************************************************************)
EXTENDS Integers, Sequences, FiniteSets

CONSTANTS
  Calls,
  Kinds,      \* the kinds of call of this instance
  MaxCost,    \* bound: what a call may be billed
  Runs, Amounts, GlobalCeiling, RequestCeilings, LastDay, StaleAge,
  SweepLimit, MaxReservations, NoRow, NoKey

ASSUME CallsAssumption ==
  /\ Kinds \subseteq {"unary", "stream", "direct", "direct_stream"}
  /\ MaxCost \in Nat \ {0}

(* What the ledger assumes of its parameters. *)
ASSUME LedgerAssumption ==
  /\ Amounts \subseteq Nat /\ RequestCeilings \subseteq Nat /\ GlobalCeiling \in Nat
  /\ LastDay \in Nat /\ StaleAge \in Nat
  /\ SweepLimit \in Nat \ {0} /\ MaxReservations \in Nat
  /\ NoRow \notin Nat /\ NoKey \notin Nat

VARIABLES
  today, ceiling, reserved, spent, reservations, batch,  \* the ledger
  kind,     \* which of the four code paths the call takes
  pc,       \* where it is
  rid,      \* its reservation_id
  cost,     \* what the provider has billed it for so far
  tasks,    \* its shielded settlements that are still running
  swept     \* history: ids settled by the sweep

callVars == <<kind, pc, rid, cost, tasks>>
ledgerState == <<today, ceiling, reserved, spent, reservations, batch>>
vars == <<ledgerState, callVars, swept>>

(* upstream: awaiting the provider; first: awaiting the first chunk;       *)
(* unstarted: the response is returned, its body not yet asked for;        *)
(* open: suspended at a yield; reading: awaiting a chunk; settling and     *)
(* closing: awaiting attempt 1 and attempt 2.                              *)
Live == {"upstream", "settling", "closing", "first", "unstarted", "open", "reading"}

Settled(c) == rid[c] # 0 /\ reservations[rid[c]].state = "reconciled"

(* The reservations that their owners, in this process, may still settle   *)
(* or have settled.                                                        *)
Owns(c) ==
  \/ pc[c] \in Live
  \/ tasks[c] # {}
  \/ Settled(c) /\ rid[c] \notin swept /\ pc[c] # "dead"

Holding == {rid[c] : c \in {d \in Calls : Owns(d)}} \ {0}

Ledger == INSTANCE BudgetLedger WITH
  Costs <- 0..MaxCost, held <- Holding

TypeOK ==
  /\ Ledger!TypeOK
  /\ kind \in [Calls -> Kinds]
  /\ pc \in [Calls -> Live \cup {"idle", "done", "error", "dropped", "dead"}]
  /\ rid \in [Calls -> 0..Len(reservations)]
  /\ cost \in [Calls -> 0..MaxCost]
  /\ tasks \in [Calls -> SUBSET {1, 2}]
  /\ swept \subseteq 1..Len(reservations)

Init ==
  /\ kind \in [Calls -> Kinds]
  /\ pc = [c \in Calls |-> "idle"]
  /\ rid = [c \in Calls |-> 0]
  /\ cost = [c \in Calls |-> 0]
  /\ tasks = [c \in Calls |-> {}]
  /\ swept = {}
  /\ Ledger!InitFresh
-----------------------------------------------------------------------------
Goto(c, from, to) ==
  /\ pc[c] \in from
  /\ pc' = [pc EXCEPT ![c] = to]

Unary(c) == kind[c] \in {"unary", "direct"}

(* initialize_request_budget, at the start of every run *)
OpenRun(r, m) ==
  /\ UNCHANGED <<callVars, swept>>
  /\ Ledger!InitializeRequest(r, m)

(* reserve_budget: booked; booked by a call that is cancelled before it    *)
(* has the id; or refused with BudgetExceededError.                        *)
Start(c, r, a) ==
  /\ Goto(c, {"idle"}, "upstream")
  /\ Ledger!Book(r, a)
  /\ rid' = [rid EXCEPT ![c] = Len(reservations) + 1]
  /\ UNCHANGED <<kind, cost, tasks, swept>>

StartLost(c, r, a) ==
  /\ Goto(c, {"idle"}, "error")
  /\ Ledger!Book(r, a)
  /\ UNCHANGED <<kind, rid, cost, tasks, swept>>

StartRefused(c, r, a) ==
  /\ Goto(c, {"idle"}, "error")
  /\ ceiling[Ledger!Request(r)] # NoRow
  /\ ~Ledger!Affordable(r, a)
  /\ UNCHANGED <<ledgerState, kind, rid, cost, tasks, swept>>

(* The provider answers a unary call, which settles what it cost. *)
Answer(c, k) ==
  /\ Unary(c)
  /\ Goto(c, {"upstream"}, "settling")
  /\ cost' = [cost EXCEPT ![c] = k]
  /\ tasks' = [tasks EXCEPT ![c] = @ \cup {1}]
  /\ UNCHANGED <<ledgerState, kind, rid, swept>>

(* An exception, a timeout or a cancellation before the answer, or before  *)
(* the first chunk of a direct stream, or of a call that awaits attempt 1. *)
(* The finally block makes attempt 2.                                      *)
Abort(c) ==
  /\ \/ pc[c] \in {"upstream", "first"}
     \/ Unary(c) /\ pc[c] = "settling"
  /\ pc' = [pc EXCEPT ![c] = "closing"]
  /\ tasks' = [tasks EXCEPT ![c] = @ \cup {2}]
  /\ UNCHANGED <<ledgerState, kind, rid, cost, swept>>

(* A stream is set up; from here on at least its prompt is billed.  The    *)
(* executor returns it; the direct path awaits the first chunk before it   *)
(* returns the response.                                                   *)
SetUp(c) ==
  /\ ~Unary(c)
  /\ Goto(c, {"upstream"}, IF kind[c] = "stream" THEN "open" ELSE "first")
  /\ cost' = [cost EXCEPT ![c] = 1]
  /\ UNCHANGED <<ledgerState, kind, rid, tasks, swept>>

FirstChunk(c) ==
  /\ Goto(c, {"first"}, "unstarted")
  /\ UNCHANGED <<ledgerState, kind, rid, cost, tasks, swept>>

BodyStarts(c) ==
  /\ Goto(c, {"unstarted"}, "open")
  /\ UNCHANGED <<ledgerState, kind, rid, cost, tasks, swept>>

Read(c) ==
  /\ Goto(c, {"open"}, "reading")
  /\ UNCHANGED <<ledgerState, kind, rid, cost, tasks, swept>>

Chunk(c) ==
  /\ Goto(c, {"reading"}, "open")
  /\ cost[c] < MaxCost
  /\ cost' = [cost EXCEPT ![c] = @ + 1]
  /\ UNCHANGED <<ledgerState, kind, rid, tasks, swept>>

Finish(c) ==
  /\ pc' = [pc EXCEPT ![c] = "settling"]
  /\ tasks' = [tasks EXCEPT ![c] = @ \cup {1}]
  /\ UNCHANGED <<ledgerState, kind, rid, cost, swept>>

(* The stream is exhausted, fails, or its reader is cancelled: _cleanup.   *)
StreamEnds(c) == pc[c] = "reading" /\ Finish(c)

(* The body is closed at a yield, the client being gone: the finally of    *)
(* the direct path's generator settles; BudgetedStream.aclose would, but   *)
(* the generators that read a BudgetedStream do not call it.               *)
BodyClosed(c) == kind[c] = "direct_stream" /\ pc[c] = "open" /\ Finish(c)

Dropped(c) ==
  /\ kind[c] = "stream" \/ pc[c] = "unstarted"
  /\ Goto(c, {"open", "unstarted"}, "dropped")
  /\ UNCHANGED <<ledgerState, kind, rid, cost, tasks, swept>>

(* Mutant: the executor's finally block settles at no cost as well. *)
AttemptCostZero(c, n) == IF n = 2 THEN 0 ELSE cost[c]

(* What attempt n settles: the executor remembers actual_cost for its      *)
(* finally block, the direct path's finally block settles 0.               *)
AttemptCost(c, n) ==
  IF n = 2 /\ kind[c] \in {"direct", "direct_stream"} THEN 0 ELSE cost[c]

(* What the awaiting call does when its attempt n is over. *)
Awaits(c, n) == pc[c] = (IF n = 1 THEN "settling" ELSE "closing")

(* After attempt 1 a call has ended well; when it failed a unary call goes *)
(* to its finally block and a stream passes the error on.                  *)
Ended(c, n, ok) ==
  LET retry == ~ok /\ n = 1 /\ Unary(c) /\ Awaits(c, n)
      to == IF retry THEN "closing" ELSE IF ok /\ n = 1 THEN "done" ELSE "error"
  IN  /\ pc' = IF Awaits(c, n) THEN [pc EXCEPT ![c] = to] ELSE pc
      /\ tasks' = [tasks EXCEPT ![c] = (@ \ {n}) \cup (IF retry THEN {2} ELSE {})]

(* reconcile_budget of attempt n commits; or finds the reservation settled *)
(* already; or fails ("database is locked").                               *)
Settles(c, n) ==
  /\ n \in tasks[c]
  /\ Ended(c, n, TRUE)
  /\ Ledger!Settle(rid[c], AttemptCost(c, n))
  /\ UNCHANGED <<today, batch, kind, rid, cost, swept>>

FindsSettled(c, n) ==
  /\ n \in tasks[c]
  /\ reservations[rid[c]].state = "reconciled"
  /\ Ended(c, n, TRUE)
  /\ UNCHANGED <<ledgerState, kind, rid, cost, swept>>

SettleFails(c, n) ==
  /\ n \in tasks[c]
  /\ Ended(c, n, FALSE)
  /\ UNCHANGED <<ledgerState, kind, rid, cost, swept>>

(* The call is cancelled while it awaits its last attempt, which goes on.  *)
LetGo(c) ==
  /\ pc[c] = "closing" \/ (pc[c] = "settling" /\ ~Unary(c))
  /\ pc' = [pc EXCEPT ![c] = "error"]
  /\ UNCHANGED <<ledgerState, kind, rid, cost, tasks, swept>>

(* The sweep of the ledger.  Holding does not change in its steps.         *)
Sweep ==
  /\ UNCHANGED callVars
  /\ \/ UNCHANGED swept /\ Ledger!SweepSelect
     \/ \E i \in batch :
          \/ swept' = swept \cup {i} /\ Ledger!SweepCancel(i)
          \/ UNCHANGED swept /\ Ledger!SweepSkip(i)

(* Mutant: the shielded settlements survive the process. *)
RestartKeepsTasks ==
  /\ pc' = [c \in Calls |-> IF pc[c] = "idle" THEN "idle" ELSE "dead"]
  /\ batch' = {}
  /\ UNCHANGED <<today, ceiling, reserved, spent, reservations>>
  /\ UNCHANGED <<kind, rid, cost, tasks, swept>>

(* The process dies, with the calls and their settlements. *)
Restart ==
  /\ pc' = [c \in Calls |-> IF pc[c] = "idle" THEN "idle" ELSE "dead"]
  /\ tasks' = [c \in Calls |-> {}]
  /\ batch' = {}
  /\ UNCHANGED <<today, ceiling, reserved, spent, reservations>>
  /\ UNCHANGED <<kind, rid, cost, swept>>

(* Time passes, for a call that waits for its permits, backs off or reads a *)
(* stream as for any other: no deadline covers all of it, and the wall      *)
(* timeout does not cover playground runs.                                  *)
Tick == UNCHANGED <<callVars, swept>> /\ Ledger!Tick

Next ==
  \/ \E r \in Runs, m \in RequestCeilings : OpenRun(r, m)
  \/ \E c \in Calls, r \in Runs, a \in Amounts :
       Start(c, r, a) \/ StartLost(c, r, a) \/ StartRefused(c, r, a)
  \/ \E c \in Calls :
       \/ \E k \in 0..MaxCost : Answer(c, k)
       \/ Abort(c) \/ SetUp(c) \/ FirstChunk(c) \/ BodyStarts(c)
       \/ Read(c) \/ Chunk(c) \/ StreamEnds(c) \/ BodyClosed(c) \/ Dropped(c)
       \/ \E n \in tasks[c] : Settles(c, n) \/ FindsSettled(c, n) \/ SettleFails(c, n)
       \/ LetGo(c)
  \/ Sweep
  \/ Restart
  \/ Tick

Spec == Init /\ [][Next]_vars
-----------------------------------------------------------------------------
(* A call that its owner settled is booked at what the provider billed,    *)
(* whichever attempt won and whatever was cancelled ("Records the TRUE     *)
(* actual spend", ledger.py:121), and a call that ended well is settled:   *)
(* of the calls through BudgetedExecutor, and of the single-model path.    *)
BilledIsCharged(c) ==
  /\ Settled(c) /\ rid[c] \notin swept => reservations[rid[c]].charged = cost[c]
  /\ pc[c] = "done" => Settled(c)

ExecutorBilled == TypeOK /\
  \A c \in Calls : kind[c] \in {"unary", "stream"} => BilledIsCharged(c)

DirectBilled ==
  \A c \in Calls : kind[c] \in {"direct", "direct_stream"} => BilledIsCharged(c)

(* The callers use the ledger as its specification allows: a reservation   *)
(* is settled only by its owner or, once stale, by the sweep; so the       *)
(* ledger's theorems hold of the program.                                  *)
ImplementsLedger == Ledger!Init /\ [][Ledger!Next]_(Ledger!vars)

(* "Unary and streaming calls ... reconcile exactly once after usage is    *)
(* known or the stream closes" (docs/budgeting-tracing.md:3-5).            *)
ClosedStreamsReconcile ==
  \A c \in Calls : pc[c] = "dropped" => rid[c] \notin swept
=============================================================================
