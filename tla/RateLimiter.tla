----------------------------- MODULE RateLimiter -----------------------------
(***************************************************************************)
(* ratelimit/limiter.py: a token bucket and a concurrency semaphore for    *)
(* each provider, one semaphore for the process, and the Slot that records *)
(* which of the two permits a call holds.  asyncio.Semaphore is used as a  *)
(* counter: taking a permit waits until one is free.                       *)
(***************************************************************************)
EXTENDS Integers, FiniteSets, Upstreams

CONSTANTS
  Burst,        \* capacity of a token bucket
  ProviderCap,  \* Semaphore(10) of each provider
  GlobalCap     \* Semaphore(50) of the process

ASSUME LimiterAssumption ==
  /\ Burst \in Nat \ {0}
  /\ ProviderCap \in Nat \ {0}
  /\ GlobalCap \in Nat \ {0}

VARIABLES
  tokens,        \* TokenBucket.tokens of each provider
  providerFree,  \* free permits of each provider's semaphore
  globalFree,    \* free permits of the global semaphore
  slot           \* the Slot of each call

limiterVars == <<tokens, providerFree, globalFree, slot>>

Slot == [provider: BOOLEAN, global: BOOLEAN]
EmptySlot == [provider |-> FALSE, global |-> FALSE]

LimiterTypeOK ==
  /\ tokens \in [Providers -> 0..Burst]
  /\ providerFree \in [Providers -> 0..ProviderCap]
  /\ globalFree \in 0..GlobalCap
  /\ slot \in [Calls -> Slot]

LimiterInit ==
  /\ tokens = [p \in Providers |-> Burst]
  /\ providerFree = [p \in Providers |-> ProviderCap]
  /\ globalFree = GlobalCap
  /\ slot = [c \in Calls |-> EmptySlot]

(* TokenBucket.consume, and the refill it computes from the clock. *)
ConsumeToken(p) ==
  /\ tokens[p] > 0
  /\ tokens' = [tokens EXCEPT ![p] = @ - 1]
  /\ UNCHANGED <<providerFree, globalFree, slot>>

RefillToken(p) ==
  /\ tokens[p] < Burst
  /\ tokens' = [tokens EXCEPT ![p] = @ + 1]
  /\ UNCHANGED <<providerFree, globalFree, slot>>

(* The two halves of RateLimiter.acquire, in the order of the code: the    *)
(* provider's permit first, then the global one.                           *)
AcquireProvider(c, p) ==
  /\ providerFree[p] > 0
  /\ providerFree' = [providerFree EXCEPT ![p] = @ - 1]
  /\ slot' = [slot EXCEPT ![c].provider = TRUE]
  /\ UNCHANGED <<tokens, globalFree>>

AcquireGlobal(c) ==
  /\ globalFree > 0
  /\ globalFree' = globalFree - 1
  /\ slot' = [slot EXCEPT ![c].global = TRUE]
  /\ UNCHANGED <<tokens, providerFree>>

(* Mutant: release gives back the permits only if it holds both. *)
ReleaseWhole(c, p) ==
  LET whole == slot[c].global /\ slot[c].provider IN
  /\ globalFree' = IF whole THEN globalFree + 1 ELSE globalFree
  /\ providerFree' = [providerFree EXCEPT ![p] = IF whole THEN @ + 1 ELSE @]
  /\ slot' = [slot EXCEPT ![c] = EmptySlot]
  /\ UNCHANGED tokens

(* Mutant: release does not look at what the slot holds. *)
ReleaseUnchecked(c, p) ==
  /\ globalFree' = globalFree + 1
  /\ providerFree' = [providerFree EXCEPT ![p] = @ + 1]
  /\ slot' = [slot EXCEPT ![c] = EmptySlot]
  /\ UNCHANGED tokens

(* Slot.release, a no-op for a permit that is not held. *)
Release(c, p) ==
  /\ globalFree' = IF slot[c].global THEN globalFree + 1 ELSE globalFree
  /\ providerFree' = [providerFree EXCEPT ![p] = IF slot[c].provider THEN @ + 1 ELSE @]
  /\ slot' = [slot EXCEPT ![c] = EmptySlot]
  /\ UNCHANGED tokens
=============================================================================
