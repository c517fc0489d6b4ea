------------------------------ MODULE ToolStep ------------------------------
(***************************************************************************)
(* The strategy _tool_step (fusion/tool_orchestrator.py): a request with   *)
(* tools.  Every panelist proposes its next action, a tool call or a text; *)
(* a coordinating judge chooses; the client gets the chosen tool calls, or *)
(* the texts go through judge and synthesis.  A failed panelist, refused   *)
(* or not, is left out, and a failed run leaves no trace.                  *)
(***************************************************************************)
EXTENDS FusionStages

(* The proposals that the judge's index may name: an index out of range,   *)
(* here Nobody, names the first one, which may be any since the order of   *)
(* the panel is left out.                                                  *)
Indexed(pick) == IF pick = Nobody THEN Answered ELSE {pick}

(* Mutant: it is not checked that the proposal has a tool call. *)
MeantUnchecked(decision, pick) ==
  IF decision = "final" THEN {Nobody} ELSE Indexed(pick)

(* Whose action the judge's answer means.  A decision "tool" for a         *)
(* proposal without a tool call means the first one that has some.         *)
Meant(decision, pick) ==
  IF decision = "final" THEN {Nobody}
  ELSE (Indexed(pick) \cap proposing)
         \cup (IF Indexed(pick) \subseteq proposing THEN {} ELSE proposing)

(* Tool calls are traced and returned; without, the texts go on.  counted  *)
(* is what is added up, paid what the judge's call has cost.               *)
Decide(from, m, counted, paid) ==
  /\ chosen' = m
  /\ own' = own + counted
  /\ billed' = billed + paid
  /\ IF m = Nobody
     THEN Goto(from, "judge") /\ UNCHANGED draft
     ELSE Goto(from, "save") /\ draft' = Record("tool", FALSE, counted)
  /\ UNCHANGED <<preset, panel, results, judge, failure, trace, client, chunks,
                 proposing, repair>>

(* _panel_propose has returned: somebody must have answered; the judge is  *)
(* only asked if there is a tool call among the proposals.                 *)
Proposed ==
  /\ Strategy = "_tool_step"
  /\ pc = "panel" /\ Gathered
  /\ \/ Answered = {} /\ Fail({"panel"}, "insufficient_panel") /\ UNCHANGED results
     \/ /\ Answered # {}
        /\ Goto({"panel"}, IF proposing = {} THEN "judge" ELSE "decide")
        /\ results' = Panelists
        /\ UNCHANGED <<draft, failure, client>>
  /\ UNCHANGED <<preset, panel, judge, trace, chunks, billed, strategyVars>>

(* The coordinating judge answers; what cannot be parsed means the first   *)
(* tool call, like a judge that fails.                                     *)
JudgeDecides ==
  \E decision \in {"tool", "final"}, pick \in Answered \cup {Nobody} :
    \E m \in Meant(decision, pick) : Decide({"decide", "redecide"}, m, 1, 1)

(* It is asked once more without response_format.                          *)
JudgeAskedAgain(cost) ==
  /\ Goto({"decide"}, "redecide")
  /\ billed' = billed + cost
  /\ UNCHANGED <<preset, panel, results, judge, draft, failure, trace, client,
                 chunks, strategyVars>>

(* The second call fails: nothing is added up for either of them.          *)
JudgeGivesUp(cost) ==
  \E m \in proposing : Decide({"redecide"}, m, 0, cost)

ToolPlaces == {"decide", "redecide"}

ToolStep ==
  \/ Proposed
  \/ JudgeDecides
  \/ \E cost \in {0, 1} : JudgeAskedAgain(cost) \/ JudgeGivesUp(cost)
=============================================================================
