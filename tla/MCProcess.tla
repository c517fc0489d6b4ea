----------------------------- MODULE MCProcess -----------------------------
(***************************************************************************)
(* What a worker process keeps for itself, the slots of its API keys and   *)
(* the registry of its playground, and the rule that there is one worker.  *)
(* The three share no state, and no step of one enables, disables or       *)
(* undoes a step of another, so each is checked by itself: in a behaviour  *)
(* one of them is on, and the others rest as they began.                   *)
(***************************************************************************)
EXTENDS PlaygroundJobs, ChatApi, WorkerLease, TLC

CONSTANTS j1, j2, d1, k1, r1, r2, r3, w1, w2, Owner

VARIABLE part  \* the component that is on

processVars == <<part, jobsVars, vars, leaseVars>>

ProcessInit ==
  /\ part \in {"playground", "api", "workers"}
  /\ JobsInit /\ Init /\ LeaseInit
  /\ part # "api" => key = [r \in Requests |-> k1]
  /\ part # "workers" => unsafe = FALSE

ProcessNext ==
  /\ UNCHANGED part
  /\ \/ part = "playground" /\ JobsNext /\ UNCHANGED <<vars, leaseVars>>
     \/ part = "api" /\ Next /\ UNCHANGED <<jobsVars, leaseVars>>
     \/ part = "workers" /\ LeaseNext /\ UNCHANGED <<jobsVars, vars>>

(* The fairness of the component that is on. *)
ProcessFairness ==
  /\ WF_jobsVars(part = "playground" /\ Sweep)
  /\ WF_jobsVars(part = "playground" /\ JobsTick)
  /\ \A r \in Runs : WF_jobsVars(part = "playground" /\ Work(r))
  /\ \A r \in Requests : WF_vars(part = "api" /\ ~Unbounded(r) /\ Handle(r))
  /\ \A r \in Requests \ Direct :
       SF_vars(part = "api" /\ (Exhausted(r) \/ Breaks(r) \/ Dropped(r)))
  /\ WF_leaseVars(part = "workers" /\ \E p \in Pids : Start(p))
  /\ WF_leaseVars(part = "workers" /\ LeaseTick)
  /\ \A p \in Pids : WF_leaseVars(part = "workers" /\ Proceed(p))

ProcessSpec == ProcessInit /\ [][ProcessNext]_processVars /\ ProcessFairness

(* The rows that crashed or stopped processes leave behind keep a worker   *)
(* out only for a while (WorkerComesBack), where the worker rule is on.    *)
WorkersComeBack == part = "workers" => WorkerComesBack
=============================================================================
