------------------------------ MODULE FusionRun ------------------------------
(***************************************************************************)
(* One run of execute_strategy: the registry picks the strategy; classic   *)
(* (run_fusion_classic of fusion/orchestrator.py with run_panel) is here,  *)
(* the other two are ToolStep and Conductor.  A trace is saved before the  *)
(* answer is returned, or after the body of a stream has ended.            *)
(***************************************************************************)
EXTENDS ToolStep, Conductor

Handler == {"open", "web", "panel", "judge", "rejudge", "synth", "first",
            "save", "save_error", "saved"} \cup ToolPlaces \cup ConductorPlaces
Body == {"unstarted", "yielding", "reading", "done", "body_save"}

TypeOK ==
  /\ preset \in Presets
  /\ pc \in Handler \cup Body \cup {"over"}
  /\ panel \in [Panelists -> {"idle", "calling", "ok", "failed", "refused"}]
  /\ results \subseteq Panelists
  /\ judge \in {"none", "sound", "degraded", "failed"}
  /\ draft \in Trace \cup {NoTrace}
  /\ failure \in Failures
  /\ trace \in Trace \cup {NoTrace}
  /\ client \in Failures \cup {"answered", "streaming", "complete", "aborted", "timeout"}
  /\ chunks \in 0..MaxChunks
  /\ billed \in Nat
  /\ own \in Nat /\ (own <= 1 \/ own <= 2 * MaxRepairs)
  /\ proposing \subseteq Answered
  /\ chosen \in Panelists \cup {Nobody}
  /\ repair \in [wanted: BOOLEAN, done: 0..MaxRepairs, failed: BOOLEAN]
-----------------------------------------------------------------------------
(* Mutant: a refused panelist counts as a failed one. *)
PanelDowngraded ==
  /\ Strategy = "B"
  /\ pc = "panel" /\ Gathered
  /\ \/ ~Quorum /\ Fail({"panel"}, "insufficient_panel") /\ UNCHANGED results
     \/ /\ Quorum
        /\ Goto({"panel"}, "judge")
        /\ results' = Panelists
        /\ UNCHANGED <<draft, failure, client>>
  /\ UNCHANGED <<preset, panel, judge, trace, chunks, billed, strategyVars>>

(* Mutant: the quorum counts the calls that were made. *)
PanelCounted ==
  /\ Strategy = "B"
  /\ pc = "panel" /\ Gathered
  /\ \/ Refused /\ Fail({"panel"}, "budget_exceeded") /\ UNCHANGED results
     \/ /\ ~Refused
        /\ Goto({"panel"}, "judge")
        /\ results' = Panelists
        /\ UNCHANGED <<draft, failure, client>>
  /\ UNCHANGED <<preset, panel, judge, trace, chunks, billed, strategyVars>>

(* The end of run_panel: a refusal goes first, then the quorum. *)
PanelReturns ==
  /\ Strategy = "B"
  /\ pc = "panel" /\ Gathered
  /\ \/ Refused /\ Fail({"panel"}, "budget_exceeded") /\ UNCHANGED results
     \/ ~Refused /\ ~Quorum /\ Fail({"panel"}, "insufficient_panel") /\ UNCHANGED results
     \/ /\ ~Refused /\ Quorum
        /\ Goto({"panel"}, "judge")
        /\ results' = Panelists
        /\ UNCHANGED <<draft, failure, client>>
  /\ UNCHANGED <<preset, panel, judge, trace, chunks, billed, strategyVars>>

(* asyncio.wait_for cancels the run at an await: CancelledError is no      *)
(* Exception, so nothing more is saved.  What becomes of the call that is  *)
(* cancelled is the subject of BudgetedCalls.                              *)
WallTimeout ==
  /\ Goto(Handler, "over")
  /\ client' = "timeout"
  /\ UNCHANGED <<preset, panel, results, judge, draft, failure, trace, chunks,
                 billed, strategyVars>>

RunStep == StageStep \/ PanelReturns \/ ToolStep \/ ConductorStep

Over == pc = "over" /\ UNCHANGED vars

Next ==
  \/ RunStep
  \/ BodyStep
  \/ WallTimeout
  \/ Over

Spec == Init /\ [][Next]_vars

(* Every call ends: its stage timeout bounds it.  So does a read of the    *)
(* stream, and a client reads on or goes away.  Nothing is assumed of the  *)
(* wall timeout.                                                           *)
FairSpec == Spec /\ WF_vars(RunStep) /\ WF_vars(BodyStep)
-----------------------------------------------------------------------------
(* "Budget failures return ... a budget-specific status instead of         *)
(* silently downgrading to a generic panel failure"                        *)
(* (docs/budgeting-tracing.md:15-16): what run_panel, the panel of the     *)
(* classic strategy, does when one panelist is refused.  The tool step and *)
(* the conductor take a refused panelist for a failed one.                 *)
RefusalSurfaces ==
  Strategy = "B" /\ Refused =>
    client \notin {"answered", "streaming", "complete", "insufficient_panel"}

(* Nothing is answered before the panel is through, from less than the     *)
(* preset's quorum, or from no answer at all.                              *)
QuorumBehindAnswer ==
  client \in {"answered", "streaming", "complete"} =>
    /\ results = Panelists /\ Answered # {}
    /\ Strategy # "_tool_step" => Quorum

(* An answer has its trace when the client gets it, and the trace says     *)
(* what it is: an answer of the panel, or after a judge that failed, is    *)
(* marked degraded.                                                        *)
AnswerIsTraced ==
  client = "answered" /\ preset.store =>
    /\ trace # NoTrace
    /\ trace.answer \in {"complete", "panel", "tool"}
    /\ Strategy = "B" /\ (trace.answer = "panel" \/ judge # "sound") => trace.degraded

(* An error of a classic run with a status of its own has a trace without  *)
(* an answer.                                                              *)
ErrorIsTraced ==
  Strategy = "B" /\ preset.store /\ client \in {"budget_exceeded", "insufficient_panel"} =>
    /\ trace # NoTrace
    /\ trace.answer = "none" /\ trace.degraded

(* A trace never claims more than happened: it costs no more than was      *)
(* billed, and one that is not degraded belongs to a run that was not      *)
(* broken off by an exception ("We record the failure in the trace",       *)
(* orchestrator.py:214), had its quorum and, if classic, a sound judge.    *)
TraceIsHonest ==
  trace # NoTrace =>
    /\ trace.cost <= billed
    /\ ~trace.degraded =>
         /\ failure = "none"
         /\ Strategy = "B" => judge = "sound"
         /\ Strategy # "_tool_step" => Quorum

(* The tool calls that a client gets are those of a panelist that has      *)
(* answered with some, whatever index the coordinating judge names         *)
(* ("Validate index and that the chosen proposal actually has a tool       *)
(* call", tool_orchestrator.py:256).                                       *)
ToolCallsExist ==
  client = "answered" /\ trace # NoTrace /\ trace.answer = "tool" =>
    chosen \in proposing \cap Answered

(* A merge that skipped a repair the verifier wanted is marked degraded    *)
(* ("Degrade cleanly: keep the prior (unrepaired) draft", conductor.py:284) *)
(* unless repairs are switched off; and no merge has more repairs than are *)
(* allowed (the type of repair).                                           *)
SkippedRepairsShow == TypeOK /\
  (Strategy = "conductor" /\ trace # NoTrace /\ repair.wanted =>
     trace.degraded \/ MaxRepairs = 0)

(* Every run ends, without help of the wall timeout.                       *)
RunEnds == <>(pc = "over")
=============================================================================
