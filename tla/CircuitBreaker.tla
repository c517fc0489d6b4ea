--------------------------- MODULE CircuitBreaker ---------------------------
(***************************************************************************)
(* The per-provider circuit of ratelimit/circuit_breaker.py.  Its methods  *)
(* contain no await, so each is one step of the event loop.  The recorders *)
(* are not told which call they speak for: any late result is taken for    *)
(* the result of the probe.                                                *)
(***************************************************************************)
EXTENDS Integers, Upstreams

CONSTANTS
  FailureThreshold,  \* consecutive failures that open a closed circuit
  Cooldown           \* cooldown_seconds, in ticks of the clock

ASSUME BreakerAssumption ==
  /\ FailureThreshold \in Nat \ {0}
  /\ Cooldown \in Nat

VARIABLE breaker

(* since is the time since last_failure_time; it and failures saturate     *)
(* where the code stops telling values apart.                              *)
Circuit == [state: {"closed", "open", "half_open"},
            failures: 0..FailureThreshold,
            since: 0..Cooldown,
            probing: BOOLEAN]

BreakerTypeOK == breaker \in [Providers -> Circuit]

BreakerInit ==
  breaker = [p \in Providers |->
               [state |-> "closed", failures |-> 0, since |-> 0, probing |-> FALSE]]

(* allow_request: the answer, and the circuit once it has answered yes.    *)
Allows(c) ==
  \/ c.state = "closed"
  \/ c.state = "open" /\ c.since >= Cooldown
  \/ c.state = "half_open" /\ ~c.probing

Admitting(c) ==
  IF c.state = "closed" THEN c
  ELSE [c EXCEPT !.state = "half_open", !.probing = TRUE]

AllowRequest(p) ==
  /\ Allows(breaker[p])
  /\ breaker' = [breaker EXCEPT ![p] = Admitting(@)]

RefuseRequest(p) ==
  /\ ~Allows(breaker[p])
  /\ UNCHANGED breaker

(* record_success *)
Recovered(c) ==
  [state |-> "closed", failures |-> 0, since |-> c.since, probing |-> FALSE]

RecordSuccess(p) == breaker' = [breaker EXCEPT ![p] = Recovered(@)]

(* record_failure *)
Bounded(n, bound) == IF n > bound THEN bound ELSE n

(* Mutant: only a failing probe opens the circuit. *)
FailedProbeOnly(c) ==
  [state |-> IF c.state = "half_open" THEN "open" ELSE c.state,
   failures |-> Bounded(c.failures + 1, FailureThreshold),
   since |-> 0, probing |-> FALSE]

(* Mutant: a failure does not say that the probe is over. *)
FailedKeepsProbe(c) ==
  LET n == Bounded(c.failures + 1, FailureThreshold)
      opens == c.state = "half_open" \/ n >= FailureThreshold
  IN  [state |-> IF opens THEN "open" ELSE c.state,
       failures |-> n, since |-> 0, probing |-> c.probing]

Failed(c) ==
  LET n == Bounded(c.failures + 1, FailureThreshold)
      opens == c.state = "half_open" \/ n >= FailureThreshold
  IN  [state |-> IF opens THEN "open" ELSE c.state,
       failures |-> n, since |-> 0, probing |-> FALSE]

RecordFailure(p) == breaker' = [breaker EXCEPT ![p] = Failed(@)]

(* Time passes. *)
BreakerTick(p) ==
  /\ breaker[p].since < Cooldown
  /\ breaker' = [breaker EXCEPT ![p].since = @ + 1]

(* A circuit with a full count of failures is not closed, and only a       *)
(* half-open circuit has a probe in flight.                                *)
BreakerSound ==
  \A p \in Providers :
    /\ breaker[p].failures >= FailureThreshold => breaker[p].state # "closed"
    /\ breaker[p].probing => breaker[p].state = "half_open"
=============================================================================
