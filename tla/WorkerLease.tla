---------------------------- MODULE WorkerLease ----------------------------
(* The single-worker rule of main.py: a process that starts looks for        *)
(* heartbeats of other processes in the table `workers` and refuses to serve  *)
(* beside a live one; a process that serves writes its heartbeat every Beat   *)
(* seconds and never looks again.  Several processes of one host share the    *)
(* database; a process may crash, and its pid may be given to a foreign one.  *)
EXTENDS Naturals, FiniteSets

CONSTANTS
  Pids,        \* the process ids of the host
  NoBeat,      \* a pid without a row in `workers`
  Users,       \* the users of the host who run processes
  Root,        \* the one who may signal the processes of all
  Unread,      \* a process that is not about to write a timestamp
  Stale,       \* seconds after which a heartbeat no longer counts (8)
  Beat,        \* seconds between two heartbeats (3)
  Wait,        \* the longest a statement waits for the database's write lock
  MaxMishaps   \* bound on crashes, stops, reused pids and failing statements

ASSUME LeaseAssumption ==
  /\ Root \in Users
  /\ Stale \in Nat /\ Beat \in Nat \ {0} /\ Wait \in Nat \ {0} /\ MaxMishaps \in Nat
  /\ NoBeat \notin Nat /\ Unread \notin Nat

VARIABLES
  proc,     \* what runs under a pid
  user,     \* who runs it
  last,     \* age of workers.last_seen, in seconds
  clock,    \* seconds since the process has read the time it is going to write
  due,      \* seconds until the heartbeat loop wakes up
  unheard,  \* history: the serving processes whose latest heartbeat failed, or
            \* whose row was deleted since by one that may not signal them
  unsafe,   \* settings.omnifusion_unsafe_allow_multiworker
  mishaps

leaseVars == <<proc, user, last, clock, due, unheard, unsafe, mishaps>>

Oldest == Stale + Wait + 1   \* all ages from here on are alike
Ages == 0..Oldest

LeaseInit ==
  /\ proc = [p \in Pids |-> "none"]
  /\ user = [p \in Pids |-> Root]
  /\ last = [p \in Pids |-> NoBeat]
  /\ clock = [p \in Pids |-> Unread]
  /\ due = [p \in Pids |-> 0]
  /\ unheard = {}
  /\ unsafe \in BOOLEAN
  /\ mishaps = 0

Mishap == mishaps < MaxMishaps /\ mishaps' = mishaps + 1

\* The process no longer exists; its row stays behind.
Gone(p) ==
  /\ proc' = [proc EXCEPT ![p] = "none"]
  /\ user' = [user EXCEPT ![p] = Root]
  /\ clock' = [clock EXCEPT ![p] = Unread]
  /\ due' = [due EXCEPT ![p] = 0]
  /\ unheard' = unheard \ {p}

----------------------------------------------------------------------------
\* A process is started and reads the time, before it waits for the lock.
Start(p) ==
  /\ proc[p] = "none"
  /\ proc' = [proc EXCEPT ![p] = "checking"]
  /\ \E u \in Users : user' = [user EXCEPT ![p] = u]
  /\ clock' = [clock EXCEPT ![p] = 0]
  /\ UNCHANGED <<last, due, unheard, unsafe, mishaps>>

KeptForever(p) == {q \in Pids : last[q] # NoBeat}   \* mutant: rows do not expire
\* The pids whose rows survive DELETE ... WHERE last_seen < now - 8.
Kept(p) == {q \in Pids : last[q] # NoBeat /\ last[q] <= Stale + clock[p]}

\* os.kill(pid, 0) finds a process, of this program or not.  PermissionError,
\* for a process of another user, is an OSError too: that one passes for dead.
CanSignal(p, q) == user[p] \in {Root, user[q]}
Exists(p, q) == proc[q] # "none" /\ CanSignal(p, q)

ActiveOthers(p) == {q \in Kept(p) \ {p} : Exists(p, q)}

\* No other worker, or the operator allows several: the stale and the "defunct"
\* rows are deleted and the own one is written, in one transaction.
Admit(p) ==
  /\ proc[p] = "checking"
  /\ unsafe \/ ActiveOthers(p) = {}
  /\ last' = [q \in Pids |-> IF q = p THEN clock[p]
                             ELSE IF q \in ActiveOthers(p) THEN last[q] ELSE NoBeat]
  /\ proc' = [proc EXCEPT ![p] = "up"]
  /\ clock' = [clock EXCEPT ![p] = Unread]
  /\ unheard' = unheard \cup {q \in Kept(p) : proc[q] = "up" /\ ~CanSignal(p, q)}
  /\ UNCHANGED <<user, due, unsafe, mishaps>>

\* Another worker is alive: ROLLBACK, and the process ends.
Refuse(p) ==
  /\ proc[p] = "checking"
  /\ ~unsafe /\ ActiveOthers(p) # {}
  /\ Gone(p)
  /\ UNCHANGED <<last, unsafe, mishaps>>

\* The check's transaction fails: the process ends, its changes are undone.
CheckFails(p) ==
  /\ proc[p] = "checking"
  /\ Mishap /\ Gone(p)
  /\ UNCHANGED <<last, unsafe>>

----------------------------------------------------------------------------
\* worker_heartbeat_loop reads the time and asks for the lock.
HeartbeatStarts(p) ==
  /\ proc[p] = "up" /\ clock[p] = Unread /\ due[p] = 0
  /\ clock' = [clock EXCEPT ![p] = 0]
  /\ UNCHANGED <<proc, user, last, due, unheard, unsafe, mishaps>>

Beating(p) == proc[p] = "up" /\ clock[p] # Unread

\* The loop sleeps, whether the write has succeeded or not.
Sleeps(p) ==
  /\ Beating(p)
  /\ clock' = [clock EXCEPT ![p] = Unread]
  /\ due' = [due EXCEPT ![p] = Beat]
  /\ UNCHANGED <<proc, user, unsafe>>

\* Mutant: INSERT OR IGNORE keeps the row of the start.
HeartbeatIgnored(p) ==
  /\ Sleeps(p)
  /\ last' = [last EXCEPT ![p] = IF last[p] = NoBeat THEN clock[p] ELSE last[p]]
  /\ unheard' = unheard \ {p}
  /\ UNCHANGED mishaps
\* INSERT OR REPLACE writes the time that was read before the wait.
Heartbeat(p) ==
  /\ Sleeps(p)
  /\ last' = [last EXCEPT ![p] = clock[p]]
  /\ unheard' = unheard \ {p}
  /\ UNCHANGED mishaps

\* The write fails and the loop swallows it.
HeartbeatFails(p) ==
  /\ Sleeps(p)
  /\ Mishap
  /\ unheard' = unheard \cup {p}
  /\ UNCHANGED last

----------------------------------------------------------------------------
\* Mutant: the heartbeat task is not cancelled.
StopBeating(p) ==
  /\ proc[p] = "up"
  /\ Mishap
  /\ proc' = [proc EXCEPT ![p] = "stopping"]
  /\ UNCHANGED <<user, last, clock, due, unheard, unsafe>>
\* lifespan's finally cancels the loops; a heartbeat on its way to the database
\* may still arrive.  The row is not deleted.
Stop(p) ==
  /\ proc[p] = "up"
  /\ Mishap
  /\ proc' = [proc EXCEPT ![p] = "stopping"]
  /\ last' \in {last} \cup (IF Beating(p) THEN {[last EXCEPT ![p] = clock[p]]} ELSE {})
  /\ clock' = [clock EXCEPT ![p] = Unread]
  /\ due' = [due EXCEPT ![p] = 0]
  /\ unheard' = unheard \ {p}
  /\ UNCHANGED <<user, unsafe>>

Exit(p) == proc[p] = "stopping" /\ Gone(p) /\ UNCHANGED <<last, unsafe, mishaps>>

Crash(p) ==
  /\ proc[p] \in {"checking", "up", "stopping"}
  /\ Mishap /\ Gone(p)
  /\ UNCHANGED <<last, unsafe>>

\* The operating system gives a free pid to a process of another program; it
\* has others left.
Reuse(p) ==
  /\ proc[p] = "none"
  /\ \E q \in Pids \ {p} : proc[q] # "foreign"
  /\ Mishap
  /\ proc' = [proc EXCEPT ![p] = "foreign"]
  /\ \E u \in Users : user' = [user EXCEPT ![p] = u]
  /\ UNCHANGED <<last, clock, due, unheard, unsafe>>

\* The event loop is on time and the lock is granted within Wait.
LeaseTick ==
  /\ \A p \in Pids : clock[p] # Unread => clock[p] < Wait
  /\ \A p \in Pids : proc[p] = "up" /\ clock[p] = Unread => due[p] > 0
  /\ last' = [p \in Pids |-> IF last[p] = NoBeat \/ last[p] = Oldest THEN last[p] ELSE last[p] + 1]
  /\ clock' = [p \in Pids |-> IF clock[p] = Unread THEN Unread ELSE clock[p] + 1]
  /\ due' = [p \in Pids |-> IF due[p] = 0 THEN 0 ELSE due[p] - 1]
  /\ UNCHANGED <<proc, user, unheard, unsafe, mishaps>>

----------------------------------------------------------------------------
Check(p) == Admit(p) \/ Refuse(p)

LeaseNext ==
  \/ \E p \in Pids :
       \/ Start(p) \/ Check(p) \/ CheckFails(p)
       \/ HeartbeatStarts(p) \/ Heartbeat(p) \/ HeartbeatFails(p)
       \/ Stop(p) \/ Exit(p) \/ Crash(p) \/ Reuse(p)
  \/ LeaseTick

LeaseSpec == LeaseInit /\ [][LeaseNext]_leaseVars

\* What a process does by itself; it never has a choice between these.
Proceed(p) == Check(p) \/ HeartbeatStarts(p) \/ Heartbeat(p) \/ Exit(p)

\* A supervisor restarts the program, statements get the lock, time passes.
LeaseFairness ==
  /\ WF_leaseVars(\E p \in Pids : Start(p)) /\ WF_leaseVars(LeaseTick)
  /\ \A p \in Pids : WF_leaseVars(Proceed(p))

FairLeaseSpec == LeaseSpec /\ LeaseFairness

----------------------------------------------------------------------------
(* Types; only a process that checks or serves is about to write a time, and  *)
(* only a serving one is unheard.                                             *)
LeaseTypeOK ==
  /\ proc \in [Pids -> {"none", "checking", "up", "stopping", "foreign"}]
  /\ user \in [Pids -> Users]
  /\ last \in [Pids -> Ages \cup {NoBeat}]
  /\ clock \in [Pids -> (0..Wait) \cup {Unread}]
  /\ due \in [Pids -> 0..Beat]
  /\ unheard \subseteq {p \in Pids : proc[p] = "up"}
  /\ unsafe \in BOOLEAN /\ mishaps \in 0..MaxMishaps
  /\ \A p \in Pids : /\ proc[p] = "checking" => clock[p] # Unread
                     /\ clock[p] # Unread => proc[p] \in {"checking", "up"}

(* A process goes from checking to serving beside q. *)
AdmittedBeside(p, q) ==
  /\ ~unsafe /\ p # q /\ proc[q] = "up"
  /\ proc[p] # "up" /\ proc'[p] = "up"

(* check_single_worker admits a worker beside a serving one only in a gap:    *)
(* the other's heartbeat is waiting for the write lock, or has failed, or the *)
(* one who checks (or one before) may not signal it.  While a worker sleeps   *)
(* between two heartbeats its row counts, whatever has crashed, stopped,      *)
(* restarted or been refused, even if the lock was waited for as long as the  *)
(* busy timeout allows: Beat + Wait <= Stale, with nothing to spare.          *)
AdmittedInGap ==
  [][\A p, q \in Pids :
       AdmittedBeside(p, q) => Beating(q) \/ q \in unheard \/ ~CanSignal(p, q)]_leaseVars

(* What the check is for: "Multiple worker processes detected. Single worker  *)
(* process required." (main.py:297).  No worker is admitted beside one whose  *)
(* heartbeats arrive.                                                         *)
AdmittedAlone ==
  [][\A p, q \in Pids : AdmittedBeside(p, q) => q \in unheard]_leaseVars

(* The rows that crashed or stopped processes leave behind, and the foreign   *)
(* processes that inherit their pids, keep a restarted worker out only for a  *)
(* while: some worker serves again and again.                                 *)
WorkerComesBack == []<>(\E p \in Pids : proc[p] = "up")
============================================================================
