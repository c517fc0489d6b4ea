-------------------------- MODULE WorkerLeaseProofs --------------------------
(* Proofs about WorkerLease for any number of processes and any times: its   *)
(* types, how old the row of a sleeping worker gets, and that another one is *)
(* admitted beside it only in a gap, provided that the sleep and one wait    *)
(* for the lock are not longer than a row counts (3 s, 5 s and 8 s).         *)
EXTENDS WorkerLease, TLAPS

(* Only a serving process has a heartbeat to come. *)
Idle == \A p \in Pids : proc[p] # "up" => due[p] = 0

(* A worker that sleeps and whose heartbeats were heard has a row: it was as *)
(* old as the wait for the lock when it was written, and the worker wakes up *)
(* before it is older than that and the sleep.  A worker that waits to write *)
(* promises nothing: its row may be expired, or deleted.                     *)
Recent(p) ==
  clock[p] = Unread => last[p] # NoBeat /\ last[p] + due[p] <= Beat + Wait

RowsAreRecent == \A p \in Pids : proc[p] = "up" /\ p \notin unheard => Recent(p)

TInv == LeaseTypeOK /\ Idle
IInv == TInv /\ RowsAreRecent

-----------------------------------------------------------------------------
(* The constants, and which numbers a clock, an age and a sleep may be. *)
LEMMA Times ==
  /\ Stale \in Nat /\ Beat \in Nat /\ Wait \in Nat /\ MaxMishaps \in Nat
  /\ Beat > 0 /\ Wait > 0 /\ Root \in Users /\ NoBeat \notin Nat /\ Unread \notin Nat
  /\ \A n \in 0..Wait : n \in Ages /\ n # Unread /\ n # NoBeat
  /\ 0 \in 0..Wait /\ 0 \in 0..Beat /\ Beat \in 0..Beat
BY LeaseAssumption DEF Ages, Oldest

(* A process that has gone. *)
LEMMA GoneTypes ==
  ASSUME TInv, NEW p \in Pids, Gone(p), UNCHANGED <<last, unsafe>>,
         mishaps' \in 0..MaxMishaps
  PROVE  TInv'
BY Times DEF TInv, LeaseTypeOK, Idle, Gone

(* Every step keeps the types, and a process that does not serve sleeps no   *)
(* longer.                                                                   *)
LEMMA KeepsTypes ==
  ASSUME TInv, [LeaseNext]_leaseVars PROVE TInv'
<1>1. Mishap => mishaps' \in 0..MaxMishaps
  BY Times DEF TInv, LeaseTypeOK, Mishap
<1>2. mishaps \in 0..MaxMishaps
  BY DEF TInv, LeaseTypeOK
<1> USE DEF TInv, LeaseTypeOK, Idle
<1>3. ASSUME NEW p \in Pids, Start(p) PROVE TInv'
  BY <1>3, Times DEF Start
<1>4. ASSUME NEW p \in Pids, Admit(p) PROVE TInv'
  <2>1. clock[p] \in 0..Wait /\ clock[p] \in Ages
    BY <1>4, Times DEF Admit
  <2>2. last' \in [Pids -> Ages \cup {NoBeat}]
    BY <1>4, <2>1 DEF Admit
  <2>3. unheard' \subseteq {q \in Pids : proc'[q] = "up"}
    BY <1>4 DEF Admit, Kept
  <2>4. QED BY <1>4, <2>2, <2>3 DEF Admit
<1>5. ASSUME NEW p \in Pids, Refuse(p) \/ CheckFails(p) \/ Exit(p) \/ Crash(p) PROVE TInv'
  BY <1>1, <1>2, <1>5, GoneTypes DEF Refuse, CheckFails, Exit, Crash
<1>6. ASSUME NEW p \in Pids, HeartbeatStarts(p) PROVE TInv'
  BY <1>6, Times DEF HeartbeatStarts
<1>7. ASSUME NEW p \in Pids, Heartbeat(p) PROVE TInv'
  <2>1. clock[p] \in Ages
    BY <1>7, Times DEF Heartbeat, Sleeps, Beating
  <2>2. QED BY <1>7, <2>1, Times DEF Heartbeat, Sleeps, Beating
<1>8. ASSUME NEW p \in Pids, HeartbeatFails(p) PROVE TInv'
  BY <1>1, <1>8, Times DEF HeartbeatFails, Sleeps, Beating
<1>9. ASSUME NEW p \in Pids, Stop(p) PROVE TInv'
  <2>1. last' \in [Pids -> Ages \cup {NoBeat}]
    BY <1>9, Times DEF Stop, Beating
  <2>2. QED BY <1>1, <1>9, <2>1, Times DEF Stop
<1>10. ASSUME NEW p \in Pids, Reuse(p) PROVE TInv'
  BY <1>1, <1>10 DEF Reuse
<1>11. CASE LeaseTick
  <2>1. \A n \in Ages : n # Oldest => n + 1 \in Ages
    BY Times DEF Ages, Oldest
  <2>2. last' \in [Pids -> Ages \cup {NoBeat}]
    BY <1>11, <2>1 DEF LeaseTick
  <2>3. \A n \in 0..Wait : n < Wait => n + 1 \in 0..Wait
    BY Times
  <2>4. clock' \in [Pids -> (0..Wait) \cup {Unread}]
    BY <1>11, <2>3 DEF LeaseTick
  <2>5. \A n \in 0..Beat : n # 0 => n - 1 \in 0..Beat
    BY Times
  <2>6. due' \in [Pids -> 0..Beat] /\ \A p \in Pids : due[p] = 0 => due'[p] = 0
    BY <1>11, <2>5 DEF LeaseTick
  <2>7. \A p \in Pids : clock'[p] = Unread <=> clock[p] = Unread
    BY <1>11, <2>3, Times DEF LeaseTick
  <2>8. QED BY <1>11, <2>2, <2>4, <2>6, <2>7 DEF LeaseTick
<1>12. CASE UNCHANGED leaseVars
  BY <1>12 DEF leaseVars
<1>13. QED
  BY <1>3, <1>4, <1>5, <1>6, <1>7, <1>8, <1>9, <1>10, <1>11, <1>12 DEF LeaseNext, Check

(* The module's types hold whatever the times are.                            *)
THEOREM TypeCorrect == LeaseSpec => []LeaseTypeOK
<1>1. LeaseInit => TInv
  BY Times DEF LeaseInit, TInv, LeaseTypeOK, Idle
<1>2. TInv => LeaseTypeOK
  BY DEF TInv
<1>3. QED BY <1>1, <1>2, KeepsTypes, PTL DEF LeaseSpec

-----------------------------------------------------------------------------
(* The row of a worker that sleeps counts for every check that is under way, *)
(* unless the one who checks may not signal the worker.                      *)
LEMMA RecentCounts ==
  ASSUME TInv, Beat + Wait <= Stale, NEW p \in Pids, NEW q \in Pids, p # q,
         proc[p] = "checking", proc[q] = "up", clock[q] = Unread, Recent(q)
  PROVE  q \in Kept(p) /\ (CanSignal(p, q) => q \in ActiveOthers(p))
<1>1. clock[p] \in 0..Wait /\ last[q] \in 0..Oldest /\ due[q] \in 0..Beat
  BY DEF TInv, LeaseTypeOK, Recent, Ages
<1>2. last[q] # NoBeat /\ last[q] + due[q] <= Beat + Wait
  BY DEF Recent
<1>3. last[q] <= Stale + clock[p]
  BY <1>1, <1>2, Times DEF Oldest
<1>4. q \in Kept(p)
  BY <1>2, <1>3 DEF Kept
<1>5. QED BY <1>4 DEF ActiveOthers, Exists

(* A check takes the row of a sleeping worker away only as one that may not  *)
(* signal it, and each tick adds one to the age of a row and takes one off   *)
(* the sleep.                                                                *)
LEMMA KeepsRecent ==
  ASSUME IInv, [LeaseNext]_leaseVars, Beat + Wait <= Stale
  PROVE  RowsAreRecent'
<1>1. TInv /\ RowsAreRecent
  BY DEF IInv
<1>2. ASSUME NEW q \in Pids, Recent(q),
             last'[q] = last[q], due'[q] = due[q], clock'[q] = clock[q]
      PROVE  Recent(q)'
  BY <1>2 DEF Recent
<1>3. ASSUME NEW p \in Pids, clock[p] # Unread, last'[p] = clock[p],
             clock'[p] = Unread, due'[p] \in 0..Beat
      PROVE  Recent(p)'
  <2>1. clock[p] \in 0..Wait
    BY <1>1, <1>3 DEF TInv, LeaseTypeOK
  <2>2. last'[p] + due'[p] <= Beat + Wait
    BY <1>3, <2>1, Times
  <2>3. QED BY <1>3, <2>1, <2>2, Times DEF Recent
(* What a step of p leaves of another process. *)
<1> DEFINE Apart(p) ==
      \A q \in Pids \ {p} :
        /\ proc'[q] = "up" => proc[q] = "up"
        /\ q \notin unheard' => q \notin unheard
        /\ last'[q] = last[q] /\ due'[q] = due[q] /\ clock'[q] = clock[q]
<1>4. ASSUME NEW p \in Pids, Apart(p), proc'[p] = "up" /\ p \notin unheard' => Recent(p)'
      PROVE  RowsAreRecent'
  BY <1>1, <1>2, <1>4 DEF RowsAreRecent
<1> USE DEF TInv, LeaseTypeOK
<1>5. ASSUME NEW p \in Pids, Start(p) \/ Reuse(p) PROVE RowsAreRecent'
  <2>1. Apart(p) /\ proc'[p] # "up"
    BY <1>1, <1>5 DEF Start, Reuse
  <2>2. QED BY <1>4, <2>1
<1>6. ASSUME NEW p \in Pids, Refuse(p) \/ CheckFails(p) \/ Exit(p) \/ Crash(p)
      PROVE  RowsAreRecent'
  <2>1. Apart(p) /\ proc'[p] # "up"
    BY <1>1, <1>6 DEF Refuse, CheckFails, Exit, Crash, Gone
  <2>2. QED BY <1>4, <2>1
<1>7. ASSUME NEW p \in Pids, Stop(p) PROVE RowsAreRecent'
  <2>1. Apart(p) /\ proc'[p] # "up"
    BY <1>1, <1>7 DEF Stop
  <2>2. QED BY <1>4, <2>1
<1>8. ASSUME NEW p \in Pids, HeartbeatStarts(p) PROVE RowsAreRecent'
  <2>1. Apart(p) /\ clock'[p] # Unread
    BY <1>1, <1>8, Times DEF HeartbeatStarts
  <2>2. QED BY <1>4, <2>1 DEF Recent
<1>9. ASSUME NEW p \in Pids, Heartbeat(p) PROVE RowsAreRecent'
  <2>1. /\ Apart(p) /\ last'[p] = clock[p] /\ clock[p] # Unread
        /\ clock'[p] = Unread /\ due'[p] = Beat
    BY <1>1, <1>9 DEF Heartbeat, Sleeps, Beating
  <2>2. Recent(p)'
    BY <1>3, <2>1, Times
  <2>3. QED BY <1>4, <2>1, <2>2
<1>10. ASSUME NEW p \in Pids, HeartbeatFails(p) PROVE RowsAreRecent'
  <2>1. Apart(p) /\ p \in unheard'
    BY <1>1, <1>10 DEF HeartbeatFails, Sleeps
  <2>2. QED BY <1>4, <2>1
<1>11. ASSUME NEW p \in Pids, Admit(p) PROVE RowsAreRecent'
  <2>1. /\ proc[p] = "checking" /\ last'[p] = clock[p] /\ clock[p] # Unread
        /\ clock'[p] = Unread /\ due'[p] = due[p] /\ due[p] \in 0..Beat
    BY <1>1, <1>11 DEF Admit
  <2>2. Recent(p)'
    BY <1>3, <2>1
  <2>3. ASSUME NEW q \in Pids, q # p, proc'[q] = "up", q \notin unheard' PROVE Recent(q)'
    <3>1. /\ proc[q] = "up" /\ Recent(q)
          /\ due'[q] = due[q] /\ clock'[q] = clock[q]
      BY <1>1, <1>11, <2>3 DEF Admit, RowsAreRecent
    <3>2. CASE clock[q] # Unread
      BY <3>1, <3>2 DEF Recent
    <3>3. CASE clock[q] = Unread
      <4>1. q \in Kept(p) /\ (CanSignal(p, q) => q \in ActiveOthers(p))
        BY <1>1, <2>1, <2>3, <3>1, <3>3, RecentCounts
      <4>2. CanSignal(p, q)
        BY <1>11, <2>3, <3>1, <4>1 DEF Admit
      <4>3. last'[q] = last[q]
        BY <1>1, <1>11, <2>3, <4>1, <4>2 DEF Admit
      <4>4. QED BY <1>2, <3>1, <4>3
    <3>4. QED BY <3>2, <3>3
  <2>4. QED BY <2>2, <2>3 DEF RowsAreRecent
<1>12. CASE LeaseTick
  <2>1. ASSUME NEW p \in Pids, proc[p] = "up", p \notin unheard, clock'[p] = Unread
        PROVE  Recent(p)'
    <3>1. clock[p] = Unread
      BY <1>1, <1>12, <2>1, Times DEF LeaseTick
    <3>2. last[p] # NoBeat /\ last[p] + due[p] <= Beat + Wait
      BY <1>1, <2>1, <3>1 DEF RowsAreRecent, Recent
    <3>3. last[p] \in 0..Oldest /\ due[p] \in 0..Beat /\ due[p] > 0
      BY <1>1, <1>12, <2>1, <3>1, <3>2 DEF Ages, LeaseTick
    <3>4. last'[p] # NoBeat /\ last'[p] \in Nat /\ last'[p] <= last[p] + 1
      BY <1>1, <1>12, <3>2, <3>3, Times DEF LeaseTick, Oldest
    <3>5. due'[p] = due[p] - 1
      BY <1>1, <1>12, <3>3 DEF LeaseTick
    <3>6. last'[p] + due'[p] <= Beat + Wait
      BY <3>2, <3>3, <3>4, <3>5, Times DEF Oldest
    <3>7. QED BY <3>4, <3>6 DEF Recent
  <2>2. proc' = proc /\ unheard' = unheard
    BY <1>12 DEF LeaseTick
  <2>3. QED BY <2>1, <2>2 DEF RowsAreRecent, Recent
<1>13. CASE UNCHANGED leaseVars
  BY <1>1, <1>2, <1>13 DEF leaseVars, RowsAreRecent
<1>14. QED
  BY <1>5, <1>6, <1>7, <1>8, <1>9, <1>10, <1>11, <1>12, <1>13 DEF LeaseNext, Check

(* With the program's times, whatever crashes, stops, restarts or fails: the *)
(* rows of the workers that sleep between two heartbeats that were heard are *)
(* there and have not expired.                                               *)
THEOREM Invariance ==
  ASSUME Beat + Wait <= Stale
  PROVE  LeaseSpec => []IInv
<1>1. LeaseInit => IInv
  BY Times DEF LeaseInit, IInv, TInv, LeaseTypeOK, Idle, RowsAreRecent
<1>2. IInv /\ [LeaseNext]_leaseVars => IInv'
  BY KeepsTypes, KeepsRecent DEF IInv
<1>3. QED BY <1>1, <1>2, PTL DEF LeaseSpec

(* check_single_worker admits a worker beside one that serves only while the *)
(* other's heartbeat waits for the write lock, after it has failed, or where *)
(* the one may not signal the other.  The assumption holds of the program's  *)
(* times: 3 s of sleep and 5 s of busy_timeout against the 8 s of a row.     *)
THEOREM AdmissionOnlyInGap ==
  ASSUME Beat + Wait <= Stale
  PROVE  LeaseSpec => AdmittedInGap
<1> DEFINE InGap ==
      \A p, q \in Pids :
        AdmittedBeside(p, q) => Beating(q) \/ q \in unheard \/ ~CanSignal(p, q)
<1>1. ASSUME IInv, LeaseNext, NEW p \in Pids, NEW q \in Pids, AdmittedBeside(p, q)
      PROVE  Beating(q) \/ q \in unheard \/ ~CanSignal(p, q)
  <2>0. ~unsafe /\ p # q /\ proc[q] = "up" /\ proc[p] # "up" /\ proc'[p] = "up"
    BY <1>1 DEF AdmittedBeside
  <2>1. Admit(p)
    <3>1. ASSUME NEW r \in Pids,
                 \/ Start(r) \/ Refuse(r) \/ CheckFails(r)
                 \/ HeartbeatStarts(r) \/ Heartbeat(r) \/ HeartbeatFails(r)
                 \/ Stop(r) \/ Exit(r) \/ Crash(r) \/ Reuse(r)
          PROVE  FALSE
      BY <1>1, <2>0, <3>1 DEF IInv, TInv, LeaseTypeOK, Start, Refuse, CheckFails,
        HeartbeatStarts, Heartbeat, HeartbeatFails, Sleeps, Stop, Exit, Crash, Reuse, Gone
    <3>2. ASSUME NEW r \in Pids, Admit(r) PROVE r = p
      BY <1>1, <2>0, <3>2 DEF IInv, TInv, LeaseTypeOK, Admit
    <3>3. ~LeaseTick
      BY <2>0 DEF LeaseTick
    <3>4. QED BY <1>1, <3>1, <3>2, <3>3 DEF LeaseNext, Check
  <2>2. ActiveOthers(p) = {} /\ proc[p] = "checking"
    BY <2>0, <2>1 DEF Admit
  <2>3. ASSUME clock[q] = Unread, q \notin unheard PROVE ~CanSignal(p, q)
    <3>1. Recent(q)
      BY <1>1, <2>0, <2>3 DEF IInv, RowsAreRecent
    <3>2. QED BY <1>1, <2>0, <2>2, <2>3, <3>1, RecentCounts DEF IInv
  <2>4. QED BY <2>0, <2>3 DEF Beating
<1>2. IInv /\ [LeaseNext]_leaseVars => [InGap]_leaseVars
  BY <1>1
<1>3. QED BY <1>2, Invariance, PTL DEF LeaseSpec, AdmittedInGap
=============================================================================
