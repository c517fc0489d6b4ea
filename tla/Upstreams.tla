------------------------------ MODULE Upstreams ------------------------------
(***************************************************************************)
(* What the circuit breaker, the rate limiter and the client share: the    *)
(* provider ids that key their dictionaries, and the concurrent provider   *)
(* calls of the process.                                                   *)
(***************************************************************************)
CONSTANTS
  Providers,
  Calls
=============================================================================
