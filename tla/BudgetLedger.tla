---------------------------- MODULE BudgetLedger ----------------------------
(***************************************************************************)
(* The budget ledger of budget/ledger.py: two SQLite tables,               *)
(* budget_ledger (one row per daily window and one per run, each with a    *)
(* reserved and a spent counter and a ceiling) and budget_reservations     *)
(* (one row per provider call, 'reserved' until it is settled).            *)
(*                                                                         *)
(* Every operation is one BEGIN IMMEDIATE transaction, so it is one        *)
(* action.  The sweep is not: it collects its candidates in one            *)
(* transaction and cancels them one by one, while callers keep settling.   *)
(*                                                                         *)
(* What a caller knows (the ids it got back) and the batch of the sweeper  *)
(* live in the process and are lost by a restart; the tables survive it.   *)
(***************************************************************************)
EXTENDS Integers, Sequences, FiniteSets, Totals

CONSTANTS
  Runs,             \* run ids, the keys of the per-request windows
  Amounts,          \* micro-USD a call may reserve
  Costs,            \* micro-USD a caller may report as the actual cost
  GlobalCeiling,    \* settings.global_daily_budget_usd
  RequestCeilings,  \* the ceilings a request may be opened with
  LastDay,          \* bound: the days of the model are 0..LastDay
  StaleAge,         \* STALE_RESERVATION_AGE_SECONDS, in ticks of the clock
  SweepLimit,       \* LIMIT of the sweep's candidate query
  MaxReservations,  \* bound: rows of budget_reservations in the model
  NoRow,            \* the ceiling of a window whose row does not exist
  NoKey             \* a column that holds NULL (an un-migrated row)

ASSUME AmountsAssumption == Amounts \subseteq Nat
ASSUME CostsAssumption == Costs \subseteq Int
ASSUME CeilingsAssumption ==
  /\ GlobalCeiling \in Nat
  /\ RequestCeilings \subseteq Nat
ASSUME BoundsAssumption ==
  /\ LastDay \in Nat
  /\ StaleAge \in Nat
  /\ SweepLimit \in Nat \ {0}
  /\ MaxReservations \in Nat
ASSUME NullsAssumption ==
  /\ NoRow \notin Nat
  /\ NoKey \notin Nat

VARIABLES
  today,         \* datetime.date.today()
  ceiling,       \* ceiling_micro_usd of each window, NoRow if it has no row
  reserved,      \* reserved_micro_usd of each window
  spent,         \* spent_micro_usd of each window
  reservations,  \* budget_reservations; the reservation id is the index
  held,          \* ids that a caller in this process still has
  batch          \* stale_ids the running sweep has still to cancel

ledgerVars == <<ceiling, reserved, spent>>
vars == <<today, ceiling, reserved, spent, reservations, held, batch>>

Days == 0..LastDay
Global(d) == <<"global", d>>
Request(r) == <<"request", r>>
Windows == ({"global"} \X Days) \cup ({"request"} \X Runs)

(* An age saturates one tick past the threshold: only "older than the      *)
(* threshold" matters.  NoKey is created_at = 0 of an un-migrated row.     *)
Ages == 0..(StaleAge + 1)
Ids == 1..Len(reservations)

(* A row of budget_reservations.  opened and charged are history: the day  *)
(* the amount was reserved on, and the cost that settled the reservation.  *)
Reservation ==
  [run: Runs, amount: Nat, state: {"reserved", "reconciled"},
   key: Days \cup {NoKey}, age: Ages \cup {NoKey},
   opened: Days, charged: Nat]

TypeOK ==
  /\ today \in Days
  /\ ceiling \in [Windows -> Nat \cup {NoRow}]
  /\ reserved \in [Windows -> Int]
  /\ spent \in [Windows -> Int]
  /\ reservations \in Seq(Reservation)
  /\ held \subseteq Ids
  /\ batch \subseteq Ids
-----------------------------------------------------------------------------
(* The tables start empty, or hold what an earlier version left behind: a  *)
(* reservation that was pending when init_db added the new columns, so it  *)
(* has no created_at and may have no global_window_key.                    *)
InitFresh ==
  /\ today = 0
  /\ ceiling = [w \in Windows |-> NoRow]
  /\ reserved = [w \in Windows |-> 0]
  /\ spent = [w \in Windows |-> 0]
  /\ reservations = <<>>
  /\ held = {}
  /\ batch = {}

InitMigrated ==
  \E r \in Runs, a \in Amounts, c \in RequestCeilings, k \in {0, NoKey} :
    LET ws == {Global(0), Request(r)} IN
    /\ a <= GlobalCeiling /\ a <= c
    /\ today = 0
    /\ ceiling = [w \in Windows |->
                    IF w = Global(0) THEN GlobalCeiling
                    ELSE IF w = Request(r) THEN c ELSE NoRow]
    /\ reserved = [w \in Windows |-> IF w \in ws THEN a ELSE 0]
    /\ spent = [w \in Windows |-> 0]
    /\ reservations = <<[run |-> r, amount |-> a, state |-> "reserved",
                         key |-> k, age |-> NoKey, opened |-> 0, charged |-> 0]>>
    /\ held = {}
    /\ batch = {}

Init == InitFresh \/ InitMigrated
-----------------------------------------------------------------------------
(* INSERT OR IGNORE: a row that exists keeps its ceiling. *)
InsertOrIgnore(rows, w, c) ==
  IF rows[w] = NoRow THEN [rows EXCEPT ![w] = c] ELSE rows

(* UPDATE budget_ledger SET f = f + d, for the rows of ws that exist. *)
Post(f, ws, d) ==
  [w \in Windows |-> IF w \in ws /\ ceiling'[w] # NoRow THEN f[w] + d ELSE f[w]]

(* initialize_request_budget *)
InitializeRequest(r, c) ==
  /\ ceiling' = InsertOrIgnore(InsertOrIgnore(ceiling, Global(today), GlobalCeiling),
                               Request(r), c)
  /\ UNCHANGED <<today, reserved, spent, reservations, held, batch>>

(* Mutant: the check forgets what other calls have reserved. *)
FitsSpentOnly(rows, w, a) == spent[w] + a <= rows[w]

(* The ceiling check of reserve_budget for the window w. *)
Fits(rows, w, a) == reserved[w] + spent[w] + a <= rows[w]

(* reserve_budget, when both checks pass (when one fails the transaction   *)
(* is rolled back and nothing changes): book the amount in both windows    *)
(* and insert the row.  Callers open the request's row first.              *)
Affordable(r, a) ==
  LET rows == InsertOrIgnore(ceiling, Global(today), GlobalCeiling)
  IN  \A w \in {Global(today), Request(r)} : Fits(rows, w, a)

Book(r, a) ==
  /\ Len(reservations) < MaxReservations
  /\ ceiling[Request(r)] # NoRow
  /\ Affordable(r, a)
  /\ ceiling' = InsertOrIgnore(ceiling, Global(today), GlobalCeiling)
  /\ reserved' = Post(reserved, {Global(today), Request(r)}, a)
  /\ reservations' =
       Append(reservations,
              [run |-> r, amount |-> a, state |-> "reserved", key |-> today,
               age |-> 0, opened |-> today, charged |-> 0])
  /\ UNCHANGED <<today, spent, batch>>

(* A caller cancelled between the commit and the return never learns the   *)
(* id: then known is FALSE.                                                *)
Reserve(r, a, known) ==
  /\ Book(r, a)
  /\ held' = IF known THEN held \cup {Len(reservations) + 1} ELSE held

(* Mutant: a settlement goes to today's window. *)
SettleWindowToday(i) == Global(today)

(* The global window a settlement goes to: the one stored with the row,    *)
(* today's when the row has none.                                          *)
SettleWindow(i) ==
  Global(IF reservations[i].key = NoKey THEN today ELSE reservations[i].key)

(* Mutant: the second early return is missing. *)
SettleAgain(i, cost) ==
  LET r == reservations[i]
      ws == {SettleWindow(i), Request(r.run)}
  IN
  /\ UNCHANGED ceiling
  /\ reserved' = Post(reserved, ws, 0 - r.amount)
  /\ spent' = Post(spent, ws, Clamp(cost))
  /\ reservations' = [reservations EXCEPT ![i].state = "reconciled",
                                          ![i].charged = Clamp(cost)]

(* reconcile_budget past its two early returns (unknown id, row no longer  *)
(* 'reserved'): release the reservation, book the clamped cost.            *)
Settle(i, cost) ==
  LET r == reservations[i]
      ws == {SettleWindow(i), Request(r.run)}
  IN
  /\ r.state = "reserved"
  /\ UNCHANGED ceiling
  /\ reserved' = Post(reserved, ws, 0 - r.amount)
  /\ spent' = Post(spent, ws, Clamp(cost))
  /\ reservations' = [reservations EXCEPT ![i].state = "reconciled",
                                          ![i].charged = Clamp(cost)]

(* reconcile_budget called by the owner of a reservation.  It may call     *)
(* again: every caller has a second reconcile in a finally block.          *)
Reconcile(i, cost) ==
  /\ i \in held
  /\ Settle(i, cost)
  /\ UNCHANGED <<today, held, batch>>

(* The owner is done with the id, or is dropped before it settled.         *)
Forget(i) ==
  /\ i \in held
  /\ held' = held \ {i}
  /\ UNCHANGED <<today, ledgerVars, reservations, batch>>

(* Mutants: the query forgets the age; asks for rows without an owner.     *)
StaleAnyAge == {i \in Ids : reservations[i].state = "reserved"}
StaleUnowned == {i \in Ids \ held : /\ reservations[i].state = "reserved"
                                   /\ reservations[i].age # NoKey
                                   /\ reservations[i].age > StaleAge}

(* The rows the candidate query of the sweep matches. *)
Stale == {i \in Ids : /\ reservations[i].state = "reserved"
                      /\ reservations[i].age # NoKey
                      /\ reservations[i].age > StaleAge}

(* sweep_stale_reservations, step 1: up to SweepLimit candidates.  *)
SweepSelect ==
  /\ batch = {}
  /\ batch' \in {s \in SUBSET Stale : s # {} /\ Cardinality(s) <= SweepLimit}
  /\ Cardinality(batch') = SweepLimit \/ batch' = Stale
  /\ UNCHANGED <<today, ledgerVars, reservations, held>>

(* Step 2, for one candidate: cancel_reservation, a reconcile at cost 0. *)
SweepCancel(i) ==
  /\ i \in batch
  /\ batch' = batch \ {i}
  /\ Settle(i, 0)
  /\ UNCHANGED <<today, held>>

(* A candidate that was settled since, or whose transaction failed.        *)
SweepSkip(i) ==
  /\ i \in batch
  /\ batch' = batch \ {i}
  /\ UNCHANGED <<today, ledgerVars, reservations, held>>

(* The process dies and is started again on the same database. *)
Restart ==
  /\ held' = {}
  /\ batch' = {}
  /\ UNCHANGED <<today, ledgerVars, reservations>>

(* Time passes; midnight may pass with it. *)
Older(age) == IF age = NoKey \/ age > StaleAge THEN age ELSE age + 1

Tick ==
  /\ today' \in {today, today + 1} \cap Days
  /\ reservations' = [i \in Ids |-> [reservations[i] EXCEPT !.age = Older(@)]]
  /\ UNCHANGED <<ledgerVars, held, batch>>

Next ==
  \/ \E r \in Runs, c \in RequestCeilings : InitializeRequest(r, c)
  \/ \E r \in Runs, a \in Amounts, known \in BOOLEAN : Reserve(r, a, known)
  \/ \E i \in Ids, cost \in Costs : Reconcile(i, cost)
  \/ \E i \in Ids : Forget(i)
  \/ SweepSelect
  \/ \E i \in Ids : SweepCancel(i)
  \/ \E i \in Ids : SweepSkip(i)
  \/ Restart
  \/ Tick

Spec == Init /\ [][Next]_vars

(* The sweep loop of main.py runs for as long as the process does, and a   *)
(* failed cancellation is retried by the next sweep: not every attempt     *)
(* fails.  Nothing is assumed of the callers.                              *)
Fairness ==
  /\ WF_vars(Tick)
  /\ WF_vars(SweepSelect)
  /\ \A i \in 1..MaxReservations : /\ SF_vars(i \in Ids /\ SweepCancel(i))
                                   /\ WF_vars(i \in Ids /\ SweepSkip(i))

FairSpec == Spec /\ Fairness
-----------------------------------------------------------------------------
(* Reservation i is booked in the window of the day it was made on and in  *)
(* the window of its run, whatever day it is settled on.                   *)
Bills(i, w) == w \in {Global(reservations[i].opened), Request(reservations[i].run)}

Outstanding(w) ==
  [i \in Ids |-> IF Bills(i, w) /\ reservations[i].state = "reserved"
                 THEN reservations[i].amount ELSE 0]

Charges(w) == [i \in Ids |-> IF Bills(i, w) THEN reservations[i].charged ELSE 0]

Overruns(w) ==
  [i \in Ids |-> IF Bills(i, w) /\ reservations[i].state = "reconciled"
                 THEN Clamp(reservations[i].charged - reservations[i].amount) ELSE 0]

(* What ties a row of budget_reservations to the ledger rows it was booked *)
(* in: they exist, the stored key names the day of the booking, and a row  *)
(* of the old schema is left alone by everybody.                           *)
RowsExist ==
  \A i \in Ids : /\ ceiling[Global(reservations[i].opened)] # NoRow
                 /\ ceiling[Request(reservations[i].run)] # NoRow

KeysSound ==
  \A i \in Ids : /\ reservations[i].key \in {reservations[i].opened, NoKey}
                 /\ reservations[i].key = NoKey => reservations[i].age = NoKey

MigratedUntouched ==
  \A i \in Ids : reservations[i].age = NoKey =>
                  reservations[i].state = "reserved" /\ i \notin held \cup batch

PendingUncharged ==
  \A i \in Ids : reservations[i].state = "reserved" => reservations[i].charged = 0

BatchStale ==
  \A i \in batch : reservations[i].age # NoKey /\ reservations[i].age > StaleAge

(* The reserved counter of every window is the sum of the reservations     *)
(* still pending in it: nothing is released twice, to the wrong day, or    *)
(* never booked, across midnight, restarts and sweeps (ledger.py: the      *)
(* paired UPDATEs of reserve_budget and reconcile_budget).                 *)
ReservedIsOutstanding ==
  \A w \in Windows : reserved[w] = Total(Outstanding(w), Len(reservations))

(* The spent counter of every window is the sum of what settled the        *)
(* reservations made in it (ledger.py:164-175).                            *)
SpentIsCharged ==
  \A w \in Windows : spent[w] = Total(Charges(w), Len(reservations))

(* No window is committed beyond its ceiling except by the amount single   *)
(* calls cost more than they had reserved: "an over-ceiling spent simply   *)
(* means ... an under-reservation" (ledger.py:126-129).                    *)
CeilingHolds ==
  \A w \in Windows :
    ceiling[w] # NoRow =>
      reserved[w] + spent[w] <= ceiling[w] + Total(Overruns(w), Len(reservations))

(* The inductive invariant the theorems rest on. *)
IInv ==
  /\ TypeOK
  /\ RowsExist
  /\ KeysSound
  /\ MigratedUntouched
  /\ PendingUncharged
  /\ BatchStale
  /\ ReservedIsOutstanding
  /\ SpentIsCharged
  /\ CeilingHolds

(* A settled reservation stays settled at the cost it was settled with,    *)
(* however often its owner and the sweep try again (ledger.py:146-148).    *)
StaysSettled(i) ==
  reservations[i].state = "reconciled" =>
    /\ reservations'[i].state = "reconciled"
    /\ reservations'[i].charged = reservations[i].charged

SpentOnlyGrows == \A w \in Windows : spent'[w] >= spent[w]

SettledOnce == [][SpentOnlyGrows /\ \A i \in Ids : StaysSettled(i)]_vars

(* Nobody but its owner settles a reservation, unless it is older than the *)
(* threshold, and then at no cost (ledger.py:209-226).                     *)
OwnedOrStale(i) ==
  (reservations[i].state = "reserved" /\ reservations'[i].state # "reserved")
    => \/ i \in held
       \/ /\ reservations[i].age # NoKey
          /\ reservations[i].age > StaleAge
          /\ reservations'[i].charged = 0

OnlyStaleAreSwept == [][\A i \in Ids : OwnedOrStale(i)]_vars

(* Budget is never locked up for good: whatever happens to its owner, a    *)
(* reservation made by this version of the code is settled in the end      *)
(* (main.py:340-349, the reservation sweep loop).                          *)
EventuallySettled ==
  \A i \in 1..MaxReservations :
    (i \in Ids /\ reservations[i].age # NoKey)
      ~> (i \in Ids /\ reservations[i].state = "reconciled")

(* What init_db promises of the rows that an earlier version left pending: *)
(* created_at is added as 0 "so existing rows are immediately eligible for *)
(* a sweep" (store/db.py:160-161), so that they too are settled in the end. *)
(* Violated: the sweep's query asks for created_at > 0 (ledger.py:212).    *)
MigratedAreSwept ==
  \A i \in 1..MaxReservations :
    (i \in Ids /\ reservations[i].age = NoKey)
      ~> (i \in Ids /\ reservations[i].state = "reconciled")
=============================================================================
