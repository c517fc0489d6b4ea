---------------------------- MODULE FusionStages ----------------------------
(***************************************************************************)
(* What the strategies share: the state of one run of execute_strategy     *)
(* under the wall timeout of api/chat.py, and the stages that more than    *)
(* one of them goes through: the web stage, run_judge, run_synthesis, the  *)
(* trace and the body of a stream.                                         *)
(*                                                                         *)
(* Every provider call goes through BudgetedExecutor: it answers, it       *)
(* fails (billed or not: the settlement itself may fail after the answer), *)
(* or it is refused with BudgetExceededError.  What the ledger does with   *)
(* it is the subject of BudgetedCalls, so a refusal is a choice here, and  *)
(* a call costs 1.                                                         *)
(***************************************************************************)
EXTENDS Integers, FiniteSets

CONSTANTS
  Panelists,  \* the models that select_panel_models returns
  NoTrace,    \* no row in the table runs
  Nobody,     \* no panelist
  MaxRepairs, \* settings.omnifusion_conductor_max_repairs
  MaxChunks   \* bound: chunks of the synthesis stream after the first

ASSUME PanelAssumption == IsFiniteSet(Panelists) /\ Panelists # {}
ASSUME NobodyAssumption == Nobody \notin Panelists
ASSUME RepairsAssumption == MaxRepairs \in Nat
ASSUME ChunksAssumption == MaxChunks \in Nat

VARIABLES
  preset,   \* what request and preset ask for
  pc,       \* where the run is
  panel,    \* what became of each panelist's call
  results,  \* the panelists whose results have been gathered
  judge,    \* judge_analysis
  draft,    \* the FusionTrace being saved
  failure,  \* the exception that ends the run
  trace,    \* the row of this run in the table runs
  client,   \* what the client has got
  chunks,   \* chunks read after the first
  billed,   \* history: what the calls of the run have cost
  own,      \* the cost that a strategy has added up for calls of its own
  proposing, \* tool step: panelists whose proposal is a tool call
  chosen,    \* tool step: the proposal that is returned
  repair     \* conductor: verifier's wish, repairs made, one that failed

stageVars == <<preset, pc, panel, results, judge, draft, failure, trace, client,
               chunks, billed>>
strategyVars == <<own, proposing, chosen, repair>>
vars == <<stageVars, strategyVars>>

(* "none", or the kinds of error the client tells apart by their status.   *)
Failures == {"none", "budget_exceeded", "insufficient_panel", "invalid_request",
             "server_error"}

(* complete: the whole answer of the last stage; panel: the best panel     *)
(* answer; partial: what had been streamed; tool: the chosen tool calls.   *)
Trace == [answer: {"none", "complete", "panel", "partial", "tool"},
          degraded: BOOLEAN,
          cost: 0..(Cardinality(Panelists) + 3 + 2 * MaxRepairs)]

ASSUME NoTraceAssumption == NoTrace \notin Trace

Presets == [strategy: {"B", "conductor"}, tools: BOOLEAN, stream: BOOLEAN,
            best_panel: BOOLEAN, store: BOOLEAN, web: BOOLEAN,
            min_success: 1..Cardinality(Panelists)]

(* A conductor has neither web stage nor fallback; a tool step no fallback *)
(* and no quorum: what the preset says of them does not matter.            *)
Init ==
  /\ preset \in {p \in Presets :
       /\ p.tools => p.strategy = "B" /\ ~p.best_panel /\ p.min_success = 1
       /\ p.strategy = "conductor" => ~p.best_panel /\ ~p.web}
  /\ pc = "open"
  /\ panel = [m \in Panelists |-> "idle"]
  /\ results = {}
  /\ judge = "none"
  /\ draft = NoTrace
  /\ failure = "none"
  /\ trace = NoTrace
  /\ client = "none"
  /\ chunks = 0
  /\ billed = 0
  /\ own = 0
  /\ proposing = {}
  /\ chosen = Nobody
  /\ repair = [wanted |-> FALSE, done |-> 0, failed |-> FALSE]
-----------------------------------------------------------------------------
(* StrategyRegistry.execute: tools in the request win over the preset.     *)
Strategy == IF preset.tools THEN "_tool_step" ELSE preset.strategy

Goto(from, to) == pc \in from /\ pc' = to

Answered == {m \in Panelists : panel[m] = "ok"}
Refused == \E m \in Panelists : panel[m] = "refused"
Gathered == \A m \in Panelists : panel[m] # "calling"
Quorum == Cardinality(Answered) >= preset.min_success

(* The sums of the trace: only results that were gathered with status ok,  *)
(* and an analysis, carry a cost.                                          *)
PanelCost == Cardinality(results \cap Answered)
JudgeCost == IF judge \in {"sound", "degraded"} THEN 1 ELSE 0

Record(answer, deg, lastCost) ==
  [answer |-> answer, degraded |-> deg,
   cost |-> PanelCost + JudgeCost + own + lastCost]

(* Classic: "degraded" or "failed" in the consensus of the analysis.       *)
(* Conductor: repair_degraded.  A tool step is never degraded.             *)
Degraded ==
  \/ Strategy = "B" /\ judge # "sound"
  \/ Strategy = "conductor" /\ repair.failed

(* Mutant: a failing run forgets to save its trace. *)
FailUnsaved(from, kind) ==
  /\ Goto(from, "over")
  /\ failure' = kind
  /\ client' = kind
  /\ UNCHANGED draft

(* except Exception as outer_err, which only the classic run has: the      *)
(* trace of a failed run is saved before the exception goes on.            *)
Fail(from, kind) ==
  /\ failure' = kind
  /\ \/ /\ Strategy = "B"
        /\ Goto(from, "save_error")
        /\ draft' = Record("none", TRUE, 0)
        /\ UNCHANGED client
     \/ /\ Strategy # "B"
        /\ Goto(from, "over")
        /\ client' = kind
        /\ UNCHANGED draft
-----------------------------------------------------------------------------
CallPanel == panel' = [m \in Panelists |-> "calling"]

(* initialize_request_budget, then the web stage or the panel.             *)
Open ==
  /\ Strategy # "conductor"
  /\ \/ preset.web /\ Goto({"open"}, "web") /\ UNCHANGED panel
     \/ ~preset.web /\ Goto({"open"}, "panel") /\ CallPanel
  /\ UNCHANGED <<preset, results, judge, draft, failure, trace, client, chunks,
                 billed, strategyVars>>

OpenFails ==
  /\ Goto({"open"}, "over")
  /\ client' = "server_error"
  /\ UNCHANGED <<preset, panel, results, judge, draft, failure, trace, chunks,
                 billed, strategyVars>>

(* gather_web_context swallows every exception, refusals included, and its *)
(* calls are settled at 0.                                                 *)
Ground ==
  /\ Goto({"web"}, "panel")
  /\ CallPanel
  /\ UNCHANGED <<preset, results, judge, draft, failure, trace, client, chunks,
                 billed, strategyVars>>

(* One call of the panel under asyncio.gather: run_panelist, run_worker,   *)
(* or one of _panel_propose, whose answer may hold tool calls.             *)
Panelist(m, status, cost, tool) ==
  /\ pc = "panel"
  /\ panel[m] = "calling"
  /\ panel' = [panel EXCEPT ![m] = status]
  /\ proposing' = IF tool THEN proposing \cup {m} ELSE proposing
  /\ billed' = billed + cost
  /\ UNCHANGED <<preset, pc, results, judge, draft, failure, trace, client,
                 chunks, own, chosen, repair>>

PanelistReports(m) ==
  \/ Panelist(m, "ok", 1, FALSE)
  \/ Strategy = "_tool_step" /\ Panelist(m, "ok", 1, TRUE)
  \/ \E cost \in {0, 1} : Panelist(m, "failed", cost, FALSE)
  \/ Panelist(m, "refused", 0, FALSE)
-----------------------------------------------------------------------------
(* run_judge: an analysis, sound or not; or an answer without choices,     *)
(* which makes it a failed one at once.                                    *)
JudgeAnswers(verdict) ==
  /\ Goto({"judge", "rejudge"}, "synth")
  /\ judge' = verdict
  /\ billed' = billed + 1
  /\ UNCHANGED <<preset, panel, results, draft, failure, trace, client, chunks,
                 strategyVars>>

(* Mutant: the judge is asked until it answers. *)
JudgeFailsAgain(cost) ==
  /\ Goto({"judge"}, "rejudge") \/ Goto({"rejudge"}, "judge")
  /\ billed' = IF billed = Cardinality(Answered) THEN billed + cost ELSE billed
  /\ UNCHANGED <<preset, panel, results, judge, draft, failure, trace, client,
                 chunks, strategyVars>>

(* A call that raises, for whatever reason, is made once more without      *)
(* response_format; then the judge has failed, which is swallowed.         *)
JudgeFails(cost) ==
  /\ \/ Goto({"judge"}, "rejudge") /\ UNCHANGED judge
     \/ Goto({"rejudge"}, "synth") /\ judge' = "failed"
  /\ billed' = billed + cost
  /\ UNCHANGED <<preset, panel, results, draft, failure, trace, client, chunks,
                 strategyVars>>

(* run_synthesis: the answer, which is traced before it is returned; an    *)
(* answer without choices; or the stream, which is returned after its      *)
(* first chunk.                                                            *)
SynthAnswers ==
  /\ ~preset.stream
  /\ Goto({"synth"}, "save")
  /\ draft' = Record("complete", Degraded, 1)
  /\ billed' = billed + 1
  /\ UNCHANGED <<preset, panel, results, judge, failure, trace, client, chunks,
                 strategyVars>>

SynthUnusable ==
  /\ ~preset.stream
  /\ Fail({"synth"}, "server_error")
  /\ billed' = billed + 1
  /\ UNCHANGED <<preset, panel, results, judge, trace, chunks, strategyVars>>

SynthStreams ==
  /\ preset.stream
  /\ Goto({"synth"}, "first")
  /\ UNCHANGED <<preset, panel, results, judge, draft, failure, trace, client,
                 chunks, billed, strategyVars>>

(* Mutant: the fallback answer is passed off as the synthesis. *)
FallBackSilently ==
  /\ Goto({"synth"}, "save")
  /\ draft' = Record("panel", Degraded, 0)
  /\ UNCHANGED <<failure, client>>

FallBack ==
  /\ Goto({"synth"}, "save")
  /\ draft' = Record("panel", TRUE, 0)
  /\ UNCHANGED <<failure, client>>

(* The synthesis fails or is refused: the best panel answer, if a classic  *)
(* preset says so and nothing is to be streamed.                           *)
SynthFails(kind, cost) ==
  /\ IF Strategy = "B" /\ preset.best_panel /\ ~preset.stream
     THEN FallBack
     ELSE Fail({"synth"}, kind)
  /\ billed' = billed + cost
  /\ UNCHANGED <<preset, panel, results, judge, trace, chunks, strategyVars>>

FirstChunk ==
  /\ Goto({"first"}, "unstarted")
  /\ client' = "streaming"
  /\ billed' = billed + 1
  /\ UNCHANGED <<preset, panel, results, judge, draft, failure, trace, chunks,
                 strategyVars>>

FirstFails(cost) ==
  /\ Fail({"first"}, "server_error")
  /\ billed' = billed + cost
  /\ UNCHANGED <<preset, panel, results, judge, trace, chunks, strategyVars>>
-----------------------------------------------------------------------------
(* save_trace, which honours store: false; the database may be locked.     *)
Saved == IF preset.store THEN draft ELSE NoTrace

Save ==
  /\ Goto({"save", "save_error"}, "saved")
  /\ trace' = Saved
  /\ UNCHANGED <<preset, panel, results, judge, draft, failure, client, chunks,
                 billed, strategyVars>>

(* A failed save of an answer fails the run; of a failed run, the          *)
(* database's exception takes the place of the run's own.                  *)
SaveFails ==
  /\ preset.store
  /\ \/ Fail({"save"}, "server_error")
     \/ /\ Goto({"save_error"}, "over")
        /\ client' = "server_error"
        /\ UNCHANGED <<draft, failure>>
  /\ UNCHANGED <<preset, panel, results, judge, trace, chunks, billed, strategyVars>>

(* return, or raise outer_err *)
Return ==
  /\ Goto({"saved"}, "over")
  /\ client' = IF failure = "none" THEN "answered" ELSE failure
  /\ UNCHANGED <<preset, panel, results, judge, draft, failure, trace, chunks,
                 billed, strategyVars>>
-----------------------------------------------------------------------------
(* The body of a stream.  A generator that is never asked for its first    *)
(* item has no finally block to run.                                       *)
BodyStarts ==
  /\ Goto({"unstarted"}, "yielding")
  /\ UNCHANGED <<preset, panel, results, judge, draft, failure, trace, client,
                 chunks, billed, strategyVars>>

BodyIgnored ==
  /\ Goto({"unstarted"}, "over")
  /\ client' = "aborted"
  /\ UNCHANGED <<preset, panel, results, judge, draft, failure, trace, chunks,
                 billed, strategyVars>>

Read ==
  /\ Goto({"yielding"}, "reading")
  /\ UNCHANGED <<preset, panel, results, judge, draft, failure, trace, client,
                 chunks, billed, strategyVars>>

Chunk ==
  /\ chunks < MaxChunks
  /\ Goto({"reading"}, "yielding")
  /\ chunks' = chunks + 1
  /\ UNCHANGED <<preset, panel, results, judge, draft, failure, trace, client,
                 billed, strategyVars>>

(* The synthesis stream is exhausted, so BudgetedStream settles; [DONE].   *)
Exhausted ==
  /\ Goto({"reading"}, "done")
  /\ UNCHANGED <<preset, panel, results, judge, draft, failure, trace, client,
                 chunks, billed, strategyVars>>

(* Mutant: a stream that broke is traced like one that was closed. *)
BodyDegradedNever(broken) == Degraded

(* stream_error is only set by an Exception. *)
BodyDegraded(broken) == Degraded \/ broken

(* A chunk fails (broken) or its reader is cancelled. *)
Breaks(broken) ==
  /\ Goto({"reading"}, "body_save")
  /\ draft' = Record("partial", BodyDegraded(broken), 1)
  /\ failure' = IF broken THEN "server_error" ELSE failure
  /\ client' = "aborted"
  /\ UNCHANGED <<preset, panel, results, judge, trace, chunks, billed, strategyVars>>

(* The generator is closed at a yield: nothing settles the stream, so the  *)
(* trace is told of no cost.                                               *)
Closed ==
  /\ Goto({"yielding"}, "body_save")
  /\ draft' = Record("partial", BodyDegraded(FALSE), 0)
  /\ client' = "aborted"
  /\ UNCHANGED <<preset, panel, results, judge, failure, trace, chunks, billed,
                 strategyVars>>

(* After the last chunk, with the client still there or gone. *)
Finished(got) ==
  /\ Goto({"done"}, "body_save")
  /\ draft' = Record("complete", BodyDegraded(FALSE), 1)
  /\ client' = got
  /\ UNCHANGED <<preset, panel, results, judge, failure, trace, chunks, billed,
                 strategyVars>>

(* The save of the finally block, which may fail or be cancelled too. *)
BodySaved(row) ==
  /\ Goto({"body_save"}, "over")
  /\ trace' = row
  /\ UNCHANGED <<preset, panel, results, judge, draft, failure, client, chunks,
                 billed, strategyVars>>

StageStep ==
  \/ Open \/ OpenFails \/ Ground
  \/ \E m \in Panelists : PanelistReports(m)
  \/ \E verdict \in {"sound", "degraded", "failed"} : JudgeAnswers(verdict)
  \/ \E cost \in {0, 1} : JudgeFails(cost)
  \/ SynthAnswers \/ SynthUnusable \/ SynthStreams
  \/ \E cost \in {0, 1} : SynthFails("server_error", cost)
  \/ SynthFails("budget_exceeded", 0)
  \/ FirstChunk
  \/ \E cost \in {0, 1} : FirstFails(cost)
  \/ Save \/ SaveFails \/ Return

BodyStep ==
  \/ BodyStarts \/ BodyIgnored \/ Read \/ Chunk \/ Exhausted
  \/ \E broken \in BOOLEAN : Breaks(broken)
  \/ Closed
  \/ \E got \in {"complete", "aborted"} : Finished(got)
  \/ \E row \in {Saved, NoTrace} : BodySaved(row)
=============================================================================
