------------------------------- MODULE ChatApi -------------------------------
(***************************************************************************)
(* create_chat_completion of api/chat.py and create_response of            *)
(* api/responses.py: authentication, the concurrency slots of each API     *)
(* key, and the hand-over of a slot to the body of a stream.  What happens *)
(* inside a run is the subject of FusionRun and BudgetedCalls; here it     *)
(* answers, streams, raises, or is overtaken by the wall timeout.          *)
(***************************************************************************)
EXTENDS Integers, FiniteSets

CONSTANTS
  Keys,      \* settings.omnifusion_api_keys
  NoKey,     \* a token that matches none of them
  Requests,
  Direct,    \* those that name a single model of the passthrough list
  Limit      \* settings.omnifusion_max_concurrent_per_key

ASSUME RequestsAssumption == IsFiniteSet(Requests) /\ Direct \subseteq Requests
ASSUME LimitAssumption == Limit \in Nat \ {0}
ASSUME NoKeyAssumption == NoKey \notin Keys

VARIABLES
  key,     \* per request: the token it was sent with
  pc,      \* per request: where it is
  client,  \* per request: the status it was answered with
  free     \* _key_semaphores: per key, the free slots

vars == <<key, pc, client, free>>

Handling == {"lookup", "fusion", "single", "first_chunk"}
Body == {"unstarted", "yielding", "reading", "orphaned"}
Ended == {"over", "ignored"}

Statuses == {"none", "unauthorized", "too_many_requests", "rejected", "answered",
             "failed", "wall_timeout", "streaming", "complete", "gone"}

TypeOK ==
  /\ key \in [Requests -> Keys \cup {NoKey}]
  /\ pc \in [Requests -> {"idle", "waiting"} \cup Handling \cup Body \cup Ended]
  /\ client \in [Requests -> Statuses]
  /\ free \in [Keys -> 0..Limit]

Init ==
  /\ key \in [Requests -> Keys \cup {NoKey}]
  /\ pc = [r \in Requests |-> "idle"]
  /\ client = [r \in Requests |-> "none"]
  /\ free = [k \in Keys |-> Limit]
-----------------------------------------------------------------------------
Goes(r, from, to) == pc[r] \in from /\ pc' = [pc EXCEPT ![r] = to]
Gets(r, status) == client' = [client EXCEPT ![r] = status]

ReleaseSlot(r) == free' = [free EXCEPT ![key[r]] = @ + 1]

(* verify_api_key; then the wait for a slot of that key. *)
Send(r) ==
  /\ \/ key[r] = NoKey /\ Goes(r, {"idle"}, "over") /\ Gets(r, "unauthorized")
     \/ key[r] \in Keys /\ Goes(r, {"idle"}, "waiting") /\ UNCHANGED client
  /\ UNCHANGED <<key, free>>

AcquireSlot(r) ==
  /\ Goes(r, {"waiting"}, "lookup")
  /\ free[key[r]] > 0
  /\ free' = [free EXCEPT ![key[r]] = @ - 1]
  /\ UNCHANGED <<key, client>>

(* Mutant: a request waits for its slot as long as it takes. *)
AcquireNever(r) == FALSE /\ UNCHANGED vars

(* Ten seconds without a slot. *)
AcquireTimeout(r) ==
  /\ Goes(r, {"waiting"}, "over")
  /\ Gets(r, "too_many_requests")
  /\ UNCHANGED <<key, free>>

(* The server shuts down, or the connection's task is cancelled. *)
CancelWait(r) ==
  /\ Goes(r, {"waiting"}, "over")
  /\ Gets(r, "gone")
  /\ UNCHANGED <<key, free>>

(* Preset and plugins, or the whitelist. *)
LookUp(r) ==
  /\ Goes(r, {"lookup"}, IF r \in Direct THEN "single" ELSE "fusion")
  /\ UNCHANGED <<key, client, free>>

(* A single model's stream is set up; its first chunk is read before the   *)
(* handler returns, outside the wall timeout (chat.py:128-144).            *)
SetUp(r) ==
  /\ Goes(r, {"single"}, "first_chunk")
  /\ UNCHANGED <<key, client, free>>

(* The finally block: the slot goes back, unless a stream owns it. *)
Leave(r, from, status) ==
  /\ Goes(r, from, "over")
  /\ Gets(r, status)
  /\ ReleaseSlot(r)
  /\ UNCHANGED key

Reject(r) == Leave(r, {"lookup"}, "rejected")
Answer(r) == Leave(r, {"fusion", "single"}, "answered")
Raise(r) == Leave(r, Handling, "failed")
WallTimeout(r) == Leave(r, {"fusion", "single"}, "wall_timeout")
Cancel(r) == Leave(r, Handling, "gone")

(* Mutant: the handler's finally block forgets that a stream owns the slot. *)
HandOverTwice(r) ==
  /\ Goes(r, {"fusion", "first_chunk"}, "unstarted")
  /\ Gets(r, "streaming")
  /\ ReleaseSlot(r)
  /\ UNCHANGED key

(* _defer_slot_release_to_stream *)
HandOver(r) ==
  /\ Goes(r, {"fusion", "first_chunk"}, "unstarted")
  /\ Gets(r, "streaming")
  /\ UNCHANGED <<key, free>>
-----------------------------------------------------------------------------
(* _release_after_stream, alone or read by response_stream.  The finally   *)
(* block of a generator that was never asked for an item does not run.     *)
BodyStarts(r) ==
  /\ Goes(r, {"unstarted"}, "reading")
  /\ UNCHANGED <<key, client, free>>

BodyIgnored(r) ==
  /\ Goes(r, {"unstarted"}, "ignored")
  /\ Gets(r, "gone")
  /\ UNCHANGED <<key, free>>

Chunk(r) ==
  /\ Goes(r, {"reading"}, "yielding")
  /\ UNCHANGED <<key, client, free>>

Resume(r) ==
  /\ Goes(r, {"yielding"}, "reading")
  /\ UNCHANGED <<key, client, free>>

Exhausted(r) == Leave(r, {"reading"}, "complete")

(* The stream breaks, or its reader is cancelled at a read. *)
Breaks(r) == Leave(r, {"reading"}, "gone")

(* The reader goes away, or response_stream fails, at a yield: nobody      *)
(* closes the generator, which waits for the collector.                    *)
Dropped(r) ==
  /\ Goes(r, {"yielding"}, "orphaned")
  /\ Gets(r, "gone")
  /\ UNCHANGED <<key, free>>

Collected(r) == Leave(r, {"orphaned"}, "gone")

(* What goes on by itself once a request has been sent. *)
Handle(r) ==
  \/ AcquireSlot(r) \/ AcquireTimeout(r) \/ LookUp(r) \/ Reject(r)
  \/ Answer(r) \/ SetUp(r) \/ Raise(r) \/ WallTimeout(r) \/ HandOver(r)
  \/ BodyStarts(r) \/ BodyIgnored(r) \/ Chunk(r) \/ Resume(r)
  \/ Exhausted(r) \/ Breaks(r) \/ Dropped(r) \/ Collected(r)

Next ==
  \E r \in Requests : Send(r) \/ CancelWait(r) \/ Cancel(r) \/ Handle(r)

Spec == Init /\ [][Next]_vars

(* A direct stream waits for its first chunk or its next one. *)
Unbounded(r) ==
  pc[r] = "first_chunk" \/ (r \in Direct /\ pc[r] = "reading")

(* The wait for a slot is bounded by the ten seconds, the handler of a     *)
(* preset and the set-up of a direct stream by the wall timeout, the reads *)
(* of a preset's stream by the deadline of a chunk; a reader that has got  *)
(* a chunk asks for the next one or goes away, and a preset's stream does  *)
(* not go on for ever.  A direct stream is read without a deadline         *)
(* (chat.py:111-126 passes no timeout): a read of it may never end.        *)
Fairness ==
  /\ \A r \in Requests : WF_vars(~Unbounded(r) /\ Handle(r))
  /\ \A r \in Requests \ Direct : SF_vars(Exhausted(r) \/ Breaks(r) \/ Dropped(r))

FairSpec == Spec /\ Fairness
-----------------------------------------------------------------------------
(* Who is at work with a slot of key k: a request that is being handled    *)
(* and a stream until its body is over.  A body that nobody ever asked for *)
(* an item has lost the slot that was handed to it (chat.py:70-77).        *)
Holders(k) == {r \in Requests : key[r] = k /\ pc[r] \in Handling \cup Body}
Lost(k) == {r \in Requests : key[r] = k /\ pc[r] = "ignored"}
Taken(k) == Holders(k) \cup Lost(k)

(* A slot that is missing is that of a request or stream at work or was    *)
(* lost with a body that never started: errors, timeouts, cancellation and *)
(* dropped streams lose none, and none is given back twice.  So no key has *)
(* more than Limit requests at work (chat.py:35-37).                       *)
SlotsConserved ==
  /\ TypeOK
  /\ \A k \in Keys : free[k] + Cardinality(Holders(k)) + Cardinality(Lost(k)) = Limit

(* The slots of the keys keep the contract of Semaphores, from acquire to  *)
(* the finally block or to the end of the body a slot was handed to; a     *)
(* lost slot is held for good.                                             *)
KeySlots ==
  INSTANCE Semaphores WITH Pool <- Keys, Users <- Requests, Cap <- Limit,
                           holders <- [k \in Keys |-> Taken(k)]

ImplementsSemaphores == KeySlots!Spec

(* Where a request comes to rest: one of a preset is answered and, if      *)
(* streamed, finished or given up; a direct one may be left with its       *)
(* stream.                                                                 *)
Settled(r) ==
  pc[r] \in {"idle"} \cup Ended \cup (IF r \in Direct THEN {"first_chunk"} \cup Body ELSE {})

(* Every request that is sent gets there, even if all the slots of its key *)
(* are lost or with silent streams.  (Each request is sent once, so in the *)
(* end none is anywhere else.)                                             *)
EveryRequestEnds == <>[](\A r \in Requests : Settled(r))

(* What the hand-over promises: to "hold the concurrency slot until the    *)
(* stream body is fully consumed (or aborted)" (chat.py:55-57), that is,   *)
(* that the slots which are missing are with requests and streams at work. *)
(* The slot of a body that is given up before its first item is not.       *)
SlotsAtWork == \A k \in Keys : free[k] + Cardinality(Holders(k)) = Limit
=============================================================================
