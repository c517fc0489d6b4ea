----------------------------- MODULE Semaphores -----------------------------
(***************************************************************************)
(* What the program relies on when it keeps an asyncio.Semaphore for each  *)
(* member of a pool: at any time at most Cap users hold a permit of one    *)
(* member, and each of them holds one.  RateLimiter has a pool of the      *)
(* providers and one semaphore for the process, api/chat a pool of the API *)
(* keys; LLMClient and ChatApi implement this contract with counters that  *)
(* each user decrements and increments by itself.                          *)
(***************************************************************************)
EXTENDS Integers, FiniteSets

CONSTANTS
  Pool,
  Users,
  Cap

VARIABLE holders  \* per member of the pool: the users that hold a permit

Init == holders = [p \in Pool |-> {}]

Take(p, u) ==
  /\ u \notin holders[p]
  /\ Cardinality(holders[p]) < Cap
  /\ holders' = [holders EXCEPT ![p] = @ \cup {u}]

Give(p, u) ==
  /\ u \in holders[p]
  /\ holders' = [holders EXCEPT ![p] = @ \ {u}]

Next == \E p \in Pool, u \in Users : Take(p, u) \/ Give(p, u)

Spec == Init /\ [][Next]_holders
=============================================================================
