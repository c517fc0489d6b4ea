--------------------------- MODULE PlaygroundJobs ---------------------------
(***************************************************************************)
(* The playground of the admin console: JobRegistry and run_playground_job *)
(* of admin/jobs.py, and the four playground routes of admin/routes.py.    *)
(* A run is a background task with a job in the registry; readers share    *)
(* the job's queue; a sweep cancels runs that were left alone and prunes   *)
(* finished ones.  The registry's lock is never held across an await, so   *)
(* its methods are steps, and creating a task and registering it is one.   *)
(***************************************************************************)
EXTENDS Integers, Sequences, FiniteSets

CONSTANTS
  Runs, Readers, NoRun,
  MaxJobs,            \* JobRegistry.max_jobs
  Grace, Prune, Evict \* the ages 15 s, 60 s and 300 s, in ticks

ASSUME JobsAssumption ==
  /\ NoRun \notin Runs /\ IsFiniteSet(Runs)
  /\ MaxJobs \in Nat \ {0}
  /\ Grace \in Nat /\ Prune \in Nat /\ Evict \in Nat
  /\ Grace < Evict /\ Prune < Evict

VARIABLES
  registry, \* JobRegistry.jobs: the run ids in it
  started,  \* the runs in the order of their jobs' created_at
  job,      \* per run: its PlaygroundJob
  task,     \* per run: its background task
  verdict,  \* per run: the terminal event, while it is in the queue
  reader,   \* per reader: the run whose events it streams
  gone,     \* the readers whose browser has left
  asked     \* history: who told a run's task to cancel, last

jobsVars == <<registry, started, job, task, verdict, reader, gone, asked>>

(* idle: time since last_connected; finished: time since finished_at, or   *)
(* Never.  A job out of the registry has no use for its ages.              *)
Never == -1
Job == [completed: BOOLEAN, cancelled: BOOLEAN, connected: BOOLEAN,
        idle: 0..(Evict + 1), finished: Never..(Prune + 1)]
NewJob == [completed |-> FALSE, cancelled |-> FALSE, connected |-> TRUE,
           idle |-> 0, finished |-> Never]

Terminal == {"done", "error", "cancelled"}
Places == {"none", "working", "judging", "cancelling", "over"}

JobsTypeOK ==
  /\ registry \subseteq Runs /\ Cardinality(registry) <= MaxJobs
  /\ started \in Seq(Runs) /\ \A r \in registry : \E i \in DOMAIN started : started[i] = r
  /\ job \in [Runs -> Job]
  /\ task \in [Runs -> Places]
  /\ verdict \in [Runs -> Terminal \cup {"none"}]
  /\ reader \in [Readers -> Runs \cup {NoRun}]
  /\ gone \subseteq Readers
  /\ asked \in [Runs -> {"nobody", "user", "sweep", "register"}]

JobsInit ==
  /\ registry = {} /\ started = <<>>
  /\ job = [r \in Runs |-> NewJob]
  /\ task = [r \in Runs |-> "none"]
  /\ verdict = [r \in Runs |-> "none"]
  /\ reader = [d \in Readers |-> NoRun]
  /\ gone = {}
  /\ asked = [r \in Runs |-> "nobody"]
-----------------------------------------------------------------------------
(* A job of other ages; what is kept of one that leaves the registry; and   *)
(* what ends, aborts or sees a job.                                        *)
Aged(j, idle, finished) ==
  [completed |-> j.completed, cancelled |-> j.cancelled, connected |-> j.connected,
   idle |-> idle, finished |-> finished]
Shelved(j) == Aged(j, 0, Never)

Completed(j, finished) == [Aged(j, j.idle, finished) EXCEPT !.completed = TRUE]
Aborted(j) == [Aged(j, j.idle, 0) EXCEPT !.cancelled = TRUE]
Seen(j, connected) == [Aged(j, 0, j.finished) EXCEPT !.connected = connected]

(* task.cancel(), which does nothing to a task that is over *)
Live(r) == task[r] \in {"working", "judging", "cancelling"}
Cancelling(runs, who) ==
  /\ task' = [r \in Runs |-> IF r \in runs /\ Live(r) THEN "cancelling" ELSE task[r]]
  /\ asked' = [r \in Runs |-> IF r \in runs /\ Live(r) THEN who ELSE asked[r]]

Removable(r) == job[r].completed \/ job[r].cancelled \/ job[r].idle > Evict

(* The oldest job that is finished, or was connected to long ago.          *)
Before(q, r) ==
  \E i, j \in DOMAIN started : i < j /\ started[i] = q /\ started[j] = r
Victims ==
  {r \in registry : Removable(r) /\ \A q \in registry : Removable(q) => ~Before(q, r)}

Registers(r, others) ==
  /\ registry' = others \cup {r}
  /\ started' = Append(started, r)

Replaces(r, v) ==
  /\ Registers(r, registry \ {v})
  /\ job' = [q \in Runs |-> IF q = r THEN NewJob
                            ELSE IF q = v THEN Shelved(job[q]) ELSE job[q]]

(* Mutant: an evicted run is forgotten, but not stopped. *)
RunEvictingOnly(r) ==
  /\ task[r] = "none"
  /\ Cardinality(registry) >= MaxJobs
  /\ \E v \in Victims :
       /\ Replaces(r, v)
       /\ task' = [task EXCEPT ![r] = "working"]
  /\ UNCHANGED <<verdict, reader, gone, asked>>

(* register on a full registry: somebody must go, and is stopped.          *)
RunEvicting(r) ==
  /\ task[r] = "none"
  /\ Cardinality(registry) >= MaxJobs
  /\ \E v \in Victims :
       /\ Replaces(r, v)
       /\ task' = [q \in Runs |-> IF q = r THEN "working"
                                  ELSE IF q = v /\ Live(q) THEN "cancelling" ELSE task[q]]
       /\ asked' = [asked EXCEPT ![v] = IF Live(v) THEN "register" ELSE @]
  /\ UNCHANGED <<verdict, reader, gone>>

Run(r) ==
  /\ task[r] = "none"
  /\ Cardinality(registry) < MaxJobs
  /\ Registers(r, registry)
  /\ job' = [job EXCEPT ![r] = NewJob]
  /\ task' = [task EXCEPT ![r] = "working"]
  /\ UNCHANGED <<verdict, reader, gone, asked>>

(* RuntimeError; the task finds no job of its own and returns at once.     *)
RunRefused(r) ==
  /\ task[r] = "none"
  /\ Cardinality(registry) >= MaxJobs /\ Victims = {}
  /\ task' = [task EXCEPT ![r] = "over"]
  /\ UNCHANGED <<registry, started, job, verdict, reader, gone, asked>>
-----------------------------------------------------------------------------
(* run_playground_job up to its terminal event: preset and panel, then the *)
(* judge, then the synthesis and the trace (see FusionRun).                *)
PanelDone(r) ==
  /\ task[r] = "working"
  /\ task' = [task EXCEPT ![r] = "judging"]
  /\ UNCHANGED <<registry, started, job, verdict, reader, gone, asked>>

(* Mutant: a panel without quorum ends without marking the job. *)
EndUnmarked(r, event, stamped) ==
  /\ task[r] \in {"working", "judging"}
  /\ task' = [task EXCEPT ![r] = "over"]
  /\ verdict' = [verdict EXCEPT ![r] = event]
  /\ job' = [job EXCEPT ![r].completed = (event = "done") \/ stamped]
  /\ UNCHANGED <<registry, started, reader, gone, asked>>

(* done; an error the code returns with; or an exception, which stamps the *)
(* job.  The queue is unbounded, so event and flags come without an await. *)
End(r, event, stamped) ==
  /\ task[r] \in {"working", "judging"}
  /\ task' = [task EXCEPT ![r] = "over"]
  /\ verdict' = [verdict EXCEPT ![r] = event]
  /\ job' = [job EXCEPT ![r] =
       Completed(@, IF stamped /\ r \in registry THEN 0 ELSE @.finished)]
  /\ UNCHANGED <<registry, started, reader, gone, asked>>

(* CancelledError, after the panelists have been stopped and settled.      *)
Cancelled(r) ==
  /\ task[r] = "cancelling"
  /\ task' = [task EXCEPT ![r] = "over"]
  /\ verdict' = [verdict EXCEPT ![r] = "cancelled"]
  /\ job' = [job EXCEPT ![r].cancelled = TRUE]
  /\ UNCHANGED <<registry, started, reader, gone, asked>>

(* The settlement in the finally block of the judge's call fails: its      *)
(* exception takes the place of the CancelledError, and run_judge swallows *)
(* it.  The run goes on.                                                   *)
CancelSwallowed(r) ==
  /\ task[r] = "cancelling"
  /\ task' = [task EXCEPT ![r] = "judging"]
  /\ UNCHANGED <<registry, started, job, verdict, reader, gone, asked>>
-----------------------------------------------------------------------------
(* playground_events: the response holds on to the job it has found.       *)
Connect(d, r) ==
  /\ reader[d] = NoRun /\ d \notin gone
  /\ r \in registry
  /\ reader' = [reader EXCEPT ![d] = r]
  /\ job' = [job EXCEPT ![r] = Seen(@, TRUE)]
  /\ UNCHANGED <<registry, started, task, verdict, gone, asked>>

LeaveBrowser(d) ==
  /\ reader[d] # NoRun
  /\ gone' = gone \cup {d}
  /\ UNCHANGED <<registry, started, job, task, verdict, reader, asked>>

(* A reader stops; its browser may connect again, as EventSource does.     *)
StopTask(d) ==
  /\ reader' = [reader EXCEPT ![d] = NoRun]
  /\ gone' = gone \ {d}

(* The loop asks whether the client is still there. *)
NoticesLeft(d) ==
  /\ d \in gone /\ reader[d] # NoRun
  /\ StopTask(d)
  /\ job' = [job EXCEPT ![reader[d]] = Seen(@, FALSE)]
  /\ UNCHANGED <<registry, started, task, verdict, asked>>

(* Or the server cancels the response first, which marks nothing. *)
ReaderCancelled(d) ==
  /\ d \in gone /\ reader[d] # NoRun
  /\ StopTask(d)
  /\ UNCHANGED <<registry, started, job, task, verdict, asked>>

(* The terminal event goes to one of the readers, there or not. *)
TakesVerdict(d) ==
  /\ reader[d] # NoRun
  /\ verdict[reader[d]] # "none"
  /\ verdict' = [verdict EXCEPT ![reader[d]] = "none"]
  /\ StopTask(d)
  /\ UNCHANGED <<registry, started, job, task, asked>>

(* cancel: abort, of a job that may have ended already; it then awaits the *)
(* task.                                                                   *)
Abort(r) ==
  /\ r \in registry
  /\ job' = [job EXCEPT ![r] = Aborted(@)]
  /\ Cancelling({r}, "user")
  /\ UNCHANGED <<registry, started, verdict, reader, gone>>
-----------------------------------------------------------------------------
Finished(r) == job[r].completed \/ job[r].cancelled
Left(r) == ~Finished(r) /\ ~job[r].connected /\ job[r].idle > Grace
Pruned(r) == Finished(r) /\ job[r].finished > Prune

(* Mutant: a finished job is not stamped, so its age never counts. *)
SweptUnstamped(r) ==
  IF r \in registry /\ Left(r) THEN [job[r] EXCEPT !.cancelled = TRUE] ELSE job[r]

Swept(r) ==
  IF r \notin registry THEN job[r]
  ELSE IF Pruned(r) THEN Shelved(job[r])
  ELSE IF Left(r) THEN Aborted(job[r])
  ELSE IF Finished(r) /\ job[r].finished = Never THEN [job[r] EXCEPT !.finished = 0]
  ELSE job[r]

(* sweep, in the loop of main.py *)
Sweep ==
  /\ job' = [r \in Runs |-> Swept(r)]
  /\ registry' = registry \ {r \in registry : Pruned(r)}
  /\ Cancelling({r \in registry : Left(r)}, "sweep")
  /\ UNCHANGED <<started, verdict, reader, gone>>

Older(age, cap) == IF age < cap THEN age + 1 ELSE age

(* A tick for the ages of what is in the registry. *)
JobsTick ==
  /\ job' = [r \in Runs |->
       IF r \notin registry THEN job[r]
       ELSE Aged(job[r], Older(job[r].idle, Evict + 1),
                 IF job[r].finished = Never THEN Never
                 ELSE Older(job[r].finished, Prune + 1))]
  /\ UNCHANGED <<registry, started, task, verdict, reader, gone, asked>>

(* What goes on by itself in a task and in a reader *)
Work(r) ==
  \/ PanelDone(r)
  \/ End(r, "done", FALSE) \/ \E stamped \in BOOLEAN : End(r, "error", stamped)
  \/ Cancelled(r)

JobsNext ==
  \/ \E r \in Runs : Run(r) \/ RunEvicting(r) \/ RunRefused(r) \/ Work(r)
                     \/ CancelSwallowed(r) \/ Abort(r)
  \/ \E d \in Readers : \/ \E r \in Runs : Connect(d, r)
                        \/ LeaveBrowser(d) \/ NoticesLeft(d)
                        \/ ReaderCancelled(d) \/ TakesVerdict(d)
  \/ Sweep \/ JobsTick

JobsSpec == JobsInit /\ [][JobsNext]_jobsVars

(* Time passes, the loop of main.py sweeps again and again, and a run goes *)
(* on: its provider calls have timeouts and finitely many attempts, and    *)
(* the permits that they wait for come back unless a direct stream stands  *)
(* still for good (EveryCallEnds of LLMClient).  Nothing is assumed of     *)
(* browsers and readers.                                                   *)
JobsFairness ==
  /\ WF_jobsVars(Sweep) /\ WF_jobsVars(JobsTick)
  /\ \A r \in Runs : WF_jobsVars(Work(r))

FairJobsSpec == JobsSpec /\ JobsFairness
-----------------------------------------------------------------------------
(* A run that has left the registry is over or was told to stop: nothing   *)
(* spends money that nobody can find or cancel any more (jobs.py:138-141). *)
OrphansWereCancelled ==
  \A r \in Runs : Live(r) /\ r \notin registry => asked[r] # "nobody"

(* A task that is over has marked its job, which the pruning relies on,    *)
(* and a job that claims completion has no task at work.                   *)
FlagsMatchTask == JobsTypeOK /\
  \A r \in registry :
    /\ task[r] = "over" => Finished(r)
    /\ job[r].completed => task[r] = "over"

(* "so the registry can't grow unbounded" (jobs.py:79): every job leaves   *)
(* it, unless it is aborted again and again, which starts its age anew.    *)
JobsLeave ==
  \A r \in Runs : []<><<Abort(r)>>_jobsVars \/ (r \in registry ~> r \notin registry)

(* "Cancels disconnected runs past their grace period" (jobs.py:78): the   *)
(* sweep lets a run alone that somebody is watching.  In the code, an old  *)
(* reader that notices late that its browser has left marks the job        *)
(* disconnected although a newer one has connected since.                  *)
WatchedRunsSurvive ==
  [][\A r \in Runs : asked[r] # "sweep" /\ asked'[r] = "sweep" =>
       ~\E d \in Readers \ gone : reader[d] = r]_jobsVars
=============================================================================
