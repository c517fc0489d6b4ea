--------------------------- MODULE FusionRunProofs ---------------------------
(***************************************************************************)
(* Proofs about FusionRun for any panel, any number of repairs and chunks  *)
(* and every preset: its types and all its safety invariants.  They follow *)
(* from one inductive invariant, which says what is known at each place of *)
(* a run: which strategy can be there, whether the panel is through, what  *)
(* has been billed, and what the trace that is being saved may claim.      *)
(***************************************************************************)
EXTENDS FusionRun, FiniteSetTheorems, TLAPS

(* The panel is through, with the quorum its strategy asks for.            *)
Good ==
  /\ results = Panelists
  /\ Answered # {}
  /\ Strategy # "_tool_step" => Quorum
  /\ Strategy = "B" => ~Refused

AfterPanel == {"judge", "rejudge", "synth", "first", "save", "verify", "repair",
               "reverify", "merge"} \cup ToolPlaces \cup Body

(* The places of each strategy. *)
Routes ==
  /\ pc \in {"web", "judge", "rejudge", "synth", "first"} \cup Body => Strategy # "conductor"
  /\ pc \in ToolPlaces => Strategy = "_tool_step"
  /\ pc \in ConductorPlaces => Strategy = "conductor"
  /\ pc = "save_error" => Strategy = "B"
  /\ pc = "saved" /\ failure # "none" => Strategy = "B"

(* The client gets nothing, and nothing is saved or has failed, until ...  *)
Silent ==
  /\ pc \in Handler => client = "none"
  /\ pc \in Body \ {"body_save"} => client = "streaming"
  /\ pc \in (Handler \cup Body) \ {"save_error", "saved", "body_save"} => failure = "none"
  /\ pc = "save_error" => failure # "none"
  /\ pc \notin {"saved", "over"} => trace = NoTrace

(* What the panel must have done for a place to be reached.                *)
PanelBehind ==
  /\ pc \in AfterPanel => Good
  /\ pc = "saved" /\ failure = "none" => Good
  /\ client \in {"answered", "streaming", "complete"} => Good
  /\ Strategy = "B" /\ "insufficient_panel" \in {failure, client} => ~Refused
  /\ pc \in {"open", "web", "plan"} => proposing = {}

(* What a strategy adds up for itself, and the loop over the repairs.      *)
Loops ==
  /\ pc \in {"open", "web", "plan"} \cup ToolPlaces => own = 0
  /\ pc = "panel" => own = (IF Strategy = "conductor" THEN 1 ELSE 0)
  /\ Strategy # "conductor" => own <= 1
  /\ pc = "verify" => own = 1
  /\ pc = "repair" => own = 2 * repair.done + 1
  /\ pc = "reverify" => own = 2 * repair.done
  /\ pc \in {"open", "web", "plan", "panel", "verify"} => repair.done = 0
  /\ pc \in {"repair", "reverify"} => repair.done < MaxRepairs
  /\ pc = "merge" /\ repair.wanted => repair.failed \/ MaxRepairs = 0

(* Every cost that a trace may add up has been billed.                     *)
InBody == IF pc \in Body THEN 1 ELSE 0
Paid == Cardinality(Answered) + JudgeCost + own + InBody

Billed ==
  /\ Paid <= billed
  /\ pc \in {"save", "save_error", "body_save"} => draft \in Trace /\ draft.cost <= billed
  /\ trace # NoTrace => trace.cost <= billed

(* The trace of an answer, of an error, and of the body of a stream.       *)
AnswerTrace(d) ==
  /\ d \in Trace
  /\ d.answer \in {"complete", "panel", "tool"}
  /\ Strategy = "B" /\ (d.answer = "panel" \/ judge # "sound") => d.degraded
  /\ d.answer = "tool" => chosen \in proposing
  /\ Strategy = "conductor" /\ repair.wanted => d.degraded \/ MaxRepairs = 0

ErrorTrace(d) == d \in Trace /\ d.answer = "none" /\ d.degraded

BodyTrace(d) ==
  /\ d \in Trace
  /\ ~d.degraded => failure = "none" /\ (Strategy = "B" => judge = "sound")

Drafts ==
  /\ pc = "save" => AnswerTrace(draft)
  /\ pc = "save_error" => ErrorTrace(draft)
  /\ pc = "body_save" => BodyTrace(draft)

Traces ==
  /\ trace # NoTrace =>
       \/ AnswerTrace(trace) /\ failure = "none" /\ Good
       \/ ErrorTrace(trace)
       \/ BodyTrace(trace) /\ Good /\ Strategy # "conductor"
  /\ (pc = "saved" /\ failure = "none") \/ client = "answered" =>
       IF preset.store THEN AnswerTrace(trace) ELSE trace = NoTrace
  /\ preset.store /\ Strategy = "B" =>
       /\ pc = "saved" /\ failure # "none" => ErrorTrace(trace)
       /\ client \in {"budget_exceeded", "insufficient_panel"} => ErrorTrace(trace)

IInv ==
  TypeOK /\ Routes /\ Silent /\ PanelBehind /\ Loops /\ Billed /\ Drafts /\ Traces

-----------------------------------------------------------------------------
(* What a run keeps of its preset and, once the panel is through, of it.   *)
PanelFixed == UNCHANGED <<preset, panel, results, proposing>>

LEMMA Fixed ==
  ASSUME PanelFixed
  PROVE  /\ Strategy' = Strategy
         /\ Answered' = Answered
         /\ Quorum' <=> Quorum
         /\ Refused' <=> Refused
         /\ Good' <=> Good
BY DEF PanelFixed, Strategy, Answered, Quorum, Refused, Good

(* The preset of a run is fixed. *)
LEMMA PresetFixed == ASSUME [Next]_vars PROVE preset' = preset
<1>1. CASE StageStep
  BY <1>1 DEF StageStep, Open, OpenFails, Ground, PanelistReports, Panelist,
    JudgeAnswers, JudgeFails, SynthAnswers, SynthUnusable, SynthStreams,
    SynthFails, FirstChunk, FirstFails, Save, SaveFails, Return
<1>2. CASE BodyStep
  BY <1>2 DEF BodyStep, BodyStarts, BodyIgnored, Read, Chunk, Exhausted, Breaks,
    Closed, Finished, BodySaved
<1>3. CASE ToolStep
  BY <1>3 DEF ToolStep, Proposed, JudgeDecides, JudgeAskedAgain, JudgeGivesUp, Decide
<1>4. CASE ConductorStep
  BY <1>4 DEF ConductorStep, StreamRefused, Begin, Planned, Worked, Verified,
    Reverified, Repaired, RepairFails, ConductorFails, Merged
<1>5. CASE PanelReturns \/ WallTimeout \/ Over \/ UNCHANGED vars
  BY <1>5 DEF PanelReturns, WallTimeout, Over, vars, stageVars
<1>6. QED BY <1>1, <1>2, <1>3, <1>4, <1>5 DEF Next, RunStep

(* Every step stays on the route of its strategy. *)
LEMMA KeepsRoutes ==
  ASSUME IInv, [Next]_vars PROVE Routes'
<1>1. Strategy' = Strategy
  BY PresetFixed DEF Strategy
<1> USE <1>1 DEF IInv, Routes, Silent, Handler, Body, ToolPlaces, ConductorPlaces,
                 Goto, Fail, FallBack
<1>2. CASE StageStep
  BY <1>2 DEF StageStep, Open, OpenFails, Ground, PanelistReports, Panelist,
    JudgeAnswers, JudgeFails, SynthAnswers, SynthUnusable, SynthStreams, SynthFails,
    FirstChunk, FirstFails, Save, SaveFails, Return
<1>3. CASE BodyStep
  BY <1>3 DEF BodyStep, BodyStarts, BodyIgnored, Read, Chunk, Exhausted, Breaks,
    Closed, Finished, BodySaved
<1>4. CASE ToolStep
  BY <1>4 DEF ToolStep, JudgeDecides, JudgeAskedAgain, JudgeGivesUp, Decide, Proposed
<1>5. CASE ConductorStep
  BY <1>5 DEF ConductorStep, StreamRefused, Begin, Verified, Reverified, Repaired,
    RepairFails, ConductorFails, Merged, Planned, Worked, LoopPlace
<1>6. CASE WallTimeout \/ Over \/ UNCHANGED vars \/ PanelReturns
  BY <1>6 DEF WallTimeout, Over, vars, stageVars, PanelReturns
<1>7. QED BY <1>2, <1>3, <1>4, <1>5, <1>6 DEF Next, RunStep

(* Nothing is told or saved before its place. *)
LEMMA KeepsSilent ==
  ASSUME IInv, [Next]_vars PROVE Silent'
<1> USE DEF IInv, Silent, ToolPlaces, ConductorPlaces, Handler, Body, Goto, Fail, FallBack
<1>1. CASE StageStep
  BY <1>1 DEF StageStep, Open, OpenFails, Ground, PanelistReports, Panelist,
    JudgeAnswers, JudgeFails, SynthAnswers, SynthUnusable, SynthStreams, SynthFails,
    FirstChunk, FirstFails, Save, SaveFails, Return
<1>2. CASE BodyStep
  BY <1>2 DEF BodyStep, BodyStarts, BodyIgnored, Read, Chunk, Exhausted, Breaks,
    Closed, Finished, BodySaved
<1>3. CASE ToolStep
  BY <1>3 DEF ToolStep, JudgeDecides, JudgeAskedAgain, JudgeGivesUp, Decide, Proposed
<1>4. CASE ConductorStep
  BY <1>4 DEF ConductorStep, StreamRefused, Begin, Verified, Reverified, Repaired,
    RepairFails, ConductorFails, Merged, Planned, Worked, LoopPlace
<1>5. CASE WallTimeout \/ Over \/ UNCHANGED vars \/ PanelReturns
  BY <1>5 DEF WallTimeout, Over, vars, stageVars, PanelReturns
<1>6. QED BY <1>1, <1>2, <1>3, <1>4, <1>5 DEF Next, RunStep

(* The fields of the conductor's loop. *)
LEMMA RepairType ==
  ASSUME IInv
  PROVE  /\ repair \in [wanted: BOOLEAN, done: 0..MaxRepairs, failed: BOOLEAN]
         /\ repair.done \in 0..MaxRepairs
         /\ repair.wanted \in BOOLEAN /\ repair.failed \in BOOLEAN
BY DEF IInv, TypeOK

(* The loop over the repairs counts two calls for each. *)
LEMMA KeepsLoops ==
  ASSUME IInv, [Next]_vars PROVE Loops'
<1>1. Strategy' = Strategy /\ Loops /\ Routes
  BY PresetFixed DEF Strategy, IInv
<1>2. own \in Int /\ repair.done \in Int /\ MaxRepairs \in Nat
  BY RepairsAssumption DEF IInv, TypeOK
<1> DEFINE Counting == {"open", "web", "plan", "panel"} \cup ToolPlaces \cup ConductorPlaces
<1>3. ASSUME own' = own, repair' = repair, pc' \notin Counting \/ pc' = pc
      PROVE  Loops'
  BY <1>1, <1>2, <1>3 DEF Loops, ToolPlaces, ConductorPlaces
<1> USE DEF Goto, Fail, FallBack, strategyVars, ToolPlaces, ConductorPlaces
<1>4. CASE Open \/ Ground
  <2>1. /\ pc \in {"open", "web"} /\ pc' \in {"web", "panel"}
        /\ own' = own /\ repair' = repair
        /\ Strategy # "conductor" /\ own = 0
    BY <1>1, <1>4 DEF Open, Ground, Loops, Routes
  <2>2. QED BY <1>1, <1>2, <2>1 DEF Loops
<1>5. CASE StageStep /\ ~Open /\ ~Ground
  <2>1. own' = own /\ repair' = repair /\ (pc' \notin Counting \/ pc' = pc)
    BY <1>5 DEF StageStep, OpenFails, PanelistReports, Panelist,
      JudgeAnswers, JudgeFails, SynthAnswers, SynthUnusable, SynthStreams,
      SynthFails, FirstChunk, FirstFails, Save, SaveFails, Return
  <2>2. QED BY <1>3, <2>1
<1>6. CASE BodyStep
  <2>1. own' = own /\ repair' = repair /\ pc' \notin Counting
    BY <1>6 DEF BodyStep, BodyStarts, BodyIgnored, Read, Chunk, Exhausted, Breaks,
      Closed, Finished, BodySaved
  <2>2. QED BY <1>3, <2>1
<1>7. CASE PanelReturns \/ WallTimeout \/ Over \/ UNCHANGED vars
  <2>1. own' = own /\ repair' = repair /\ (pc' \notin Counting \/ pc' = pc)
    BY <1>7 DEF PanelReturns, WallTimeout, Over, vars, stageVars
  <2>2. QED BY <1>3, <2>1
<1>8. CASE Proposed
  <2>1. /\ pc = "panel" /\ Strategy = "_tool_step" /\ own' = own /\ repair' = repair
        /\ pc' \in {"over", "judge", "decide"}
    BY <1>8 DEF Proposed
  <2>2. QED BY <1>1, <1>2, <2>1 DEF Loops
<1>9. ASSUME NEW cost \in {0, 1}, JudgeAskedAgain(cost) PROVE Loops'
  <2>1. pc = "decide" /\ own' = own /\ repair' = repair /\ pc' = "redecide"
    BY <1>9 DEF JudgeAskedAgain
  <2>2. QED BY <1>1, <1>2, <2>1 DEF Loops
<1>10. ASSUME NEW m, NEW from \in {{"decide", "redecide"}, {"redecide"}},
              NEW counted \in {0, 1}, NEW paid, Decide(from, m, counted, paid)
       PROVE  Loops'
  <2>1. /\ pc \in ToolPlaces /\ own' = own + counted /\ repair' = repair
        /\ pc' \in {"judge", "save"}
    BY <1>10 DEF Decide
  <2>2. own = 0 /\ Strategy = "_tool_step"
    BY <1>1, <2>1 DEF Loops, Routes
  <2>3. QED BY <1>1, <1>2, <2>1, <2>2 DEF Loops
<1>11. CASE JudgeDecides \/ \E cost \in {0, 1} : JudgeGivesUp(cost)
  BY <1>10, <1>11 DEF JudgeDecides, JudgeGivesUp
<1>12. CASE StreamRefused \/ Begin
  <2>1. pc = "open" /\ own' = own /\ repair' = repair /\ pc' \in {"over", "plan"}
    BY <1>12 DEF StreamRefused, Begin
  <2>2. QED BY <1>1, <1>2, <2>1 DEF Loops
<1>13. CASE Planned
  <2>1. pc = "plan" /\ pc' = "panel" /\ own' = own + 1 /\ repair' = repair
    BY <1>13 DEF Planned
  <2>2. QED BY <1>1, <1>2, <2>1 DEF Loops, Routes
<1>14. CASE Worked
  <2>1. /\ pc = "panel" /\ pc' \in {"verify", "over"} /\ own' = own
        /\ repair' = repair /\ Strategy = "conductor"
    BY <1>14 DEF Worked
  <2>2. QED BY <1>1, <1>2, <2>1 DEF Loops
<1>15. ASSUME NEW wanted \in BOOLEAN, Verified(wanted) PROVE Loops'
  <2>1. /\ pc = "verify" /\ own' = own
        /\ repair'.wanted = wanted /\ repair'.done = repair.done
        /\ pc' = IF wanted /\ repair.done < MaxRepairs THEN "repair" ELSE "merge"
    BY <1>2, <1>15, RepairType DEF Verified, LoopPlace
  <2>2. QED BY <1>1, <1>2, <2>1 DEF Loops, Routes
<1>16. ASSUME NEW wanted \in BOOLEAN, Reverified(wanted) PROVE Loops'
  <2>1. /\ pc = "reverify" /\ own' = own + 1
        /\ repair'.wanted = wanted /\ repair'.done = repair.done
        /\ pc' = IF wanted /\ repair.done < MaxRepairs THEN "repair" ELSE "merge"
    BY <1>2, <1>16, RepairType DEF Reverified, LoopPlace
  <2>2. QED BY <1>1, <1>2, <2>1 DEF Loops, Routes
<1>17. CASE Repaired
  <2>1. /\ pc = "repair" /\ own' = own + 1 /\ repair'.done = repair.done + 1
        /\ \/ pc' = "reverify" /\ repair.done + 1 < MaxRepairs
           \/ pc' = "merge" /\ repair'.wanted = FALSE
    BY <1>2, <1>17, RepairType DEF Repaired
  <2>2. Strategy = "conductor" /\ own = 2 * repair.done + 1
    BY <1>1, <2>1 DEF Loops, Routes
  <2>3. own' = 2 * repair'.done
    BY <1>2, <2>1, <2>2
  <2>4. QED BY <1>1, <2>1, <2>2, <2>3 DEF Loops
<1>18. ASSUME NEW cost \in {0, 1}, RepairFails(cost) PROVE Loops'
  <2>1. pc = "repair" /\ pc' = "merge" /\ own' = own /\ repair'.failed = TRUE
    BY <1>18, RepairType DEF RepairFails
  <2>2. QED BY <1>1, <1>2, <2>1 DEF Loops, Routes
<1>19. ASSUME NEW cost \in {0, 1}, NEW kind, ConductorFails(kind, cost) PROVE Loops'
  <2>1. own' = own /\ repair' = repair /\ pc' \notin Counting
    BY <1>19 DEF ConductorFails
  <2>2. QED BY <1>3, <2>1
<1>20. CASE Merged
  <2>1. own' = own /\ repair' = repair /\ pc' \notin Counting
    BY <1>20 DEF Merged
  <2>2. QED BY <1>3, <2>1
<1>21. QED
  BY <1>4, <1>5, <1>6, <1>7, <1>8, <1>9, <1>11, <1>12, <1>13, <1>14, <1>15,
     <1>16, <1>17, <1>18, <1>19, <1>20
  DEF Next, RunStep, ToolStep, ConductorStep

(* A quorum is at least one answer. *)
LEMMA QuorumAnswers ==
  ASSUME TypeOK, Quorum PROVE Answered # {}
<1>1. preset.min_success \in 1..Cardinality(Panelists)
  BY DEF TypeOK, Presets
<1>2. Cardinality(Answered) >= preset.min_success /\ Cardinality(Panelists) \in Nat
  BY PanelAssumption, FS_CardinalityType DEF Quorum
<1>3. Cardinality(Answered) # 0
  BY <1>1, <1>2
<1>4. QED BY <1>3, FS_EmptySet

(* A step that leaves the panel alone, seen from the panel. *)
Later ==
  /\ PanelFixed
  /\ pc' \in AfterPanel => pc \in AfterPanel
  /\ pc' = "saved" /\ failure' = "none" =>
       pc \in AfterPanel \/ (pc = "saved" /\ failure = "none")
  /\ client' \in {"answered", "streaming", "complete"} =>
       \/ client \in {"answered", "streaming", "complete"}
       \/ pc \in AfterPanel \/ (pc = "saved" /\ failure = "none")
  /\ "insufficient_panel" \in {failure', client'} =>
       "insufficient_panel" \in {failure, client}
  /\ pc' \in {"open", "web", "plan"} => pc \in {"open", "web", "plan"}

(* All steps but those that start the panel or gather its results.         *)
LEMMA LaterSteps ==
  ASSUME IInv, [Next]_vars
  PROVE  \/ Later
         \/ Open \/ Ground \/ Planned
         \/ \E m \in Panelists : PanelistReports(m)
         \/ PanelReturns \/ Proposed \/ Worked
<1> USE DEF Later, PanelFixed, stageVars, strategyVars, vars, Fail, FallBack, Goto,
            AfterPanel, ToolPlaces, Body
<1>0. Silent /\ failure \in Failures
  BY DEF IInv, TypeOK
<1>1. CASE StageStep
  <2>1. CASE Save \/ SaveFails \/ Return
    BY <1>0, <2>1 DEF Save, SaveFails, Return, Silent, Failures
  <2>2. CASE SynthAnswers \/ SynthUnusable \/ SynthStreams \/ FirstChunk
    BY <2>2 DEF SynthAnswers, SynthUnusable, SynthStreams, FirstChunk
  <2>3. ASSUME NEW cost \in {0, 1}, JudgeFails(cost) \/ FirstFails(cost) PROVE Later
    BY <2>3 DEF JudgeFails, FirstFails
  <2>4. ASSUME NEW kind \in {"server_error", "budget_exceeded"}, NEW cost,
               SynthFails(kind, cost)
        PROVE  Later
    BY <2>4 DEF SynthFails
  <2>5. ASSUME NEW verdict, JudgeAnswers(verdict) PROVE Later
    BY <2>5 DEF JudgeAnswers
  <2>6. CASE OpenFails
    BY <2>6 DEF OpenFails
  <2>7. QED BY <1>1, <2>1, <2>2, <2>3, <2>4, <2>5, <2>6 DEF StageStep
<1>2. CASE BodyStep
  BY <1>2 DEF BodyStep, BodyStarts, BodyIgnored, Read, Chunk, Exhausted, Breaks,
    Closed, Finished, BodySaved
<1>3. CASE ToolStep
  BY <1>3 DEF ToolStep, JudgeDecides, JudgeAskedAgain, JudgeGivesUp, Decide
<1>4. CASE ConductorStep
  BY <1>4 DEF ConductorStep, StreamRefused, Begin, Verified, Reverified, Repaired,
    RepairFails, ConductorFails, Merged, LoopPlace
<1>5. CASE WallTimeout \/ Over \/ UNCHANGED vars
  BY <1>5 DEF WallTimeout, Over
<1>6. QED BY <1>1, <1>2, <1>3, <1>4, <1>5 DEF Next, RunStep

(* Whatever is reached only after a panel has a good one behind it.        *)
LEMMA KeepsPanelBehind ==
  ASSUME IInv, [Next]_vars PROVE PanelBehind'
<1>1. Strategy' = Strategy /\ Routes /\ Silent /\ PanelBehind
  BY PresetFixed DEF Strategy, IInv
<1>2. CASE Open \/ Ground \/ Planned
  <2>1. /\ pc \in {"open", "web", "plan"} /\ pc' \in {"web", "panel"}
        /\ client' = client /\ failure' = failure /\ proposing' = proposing
    BY <1>2 DEF Open, Ground, Planned, Goto, strategyVars
  <2>2. client = "none" /\ failure = "none" /\ proposing = {}
    BY <1>1, <2>1 DEF PanelBehind, Silent, Handler, Body, ConductorPlaces
  <2>3. QED BY <2>1, <2>2 DEF PanelBehind, AfterPanel, ToolPlaces, Body
<1>3. ASSUME NEW m \in Panelists, PanelistReports(m) PROVE PanelBehind'
  <2>1. pc = "panel" /\ pc' = pc /\ client' = client /\ failure' = failure
    BY <1>3 DEF PanelistReports, Panelist
  <2>2. client = "none" /\ failure = "none"
    BY <1>1, <2>1 DEF Silent, Handler, Body
  <2>3. QED BY <2>1, <2>2 DEF PanelBehind, AfterPanel, ToolPlaces, Body
<1>4. CASE PanelReturns \/ Proposed \/ Worked
  <2>1. /\ Answered' = Answered /\ (Quorum' <=> Quorum) /\ (Refused' <=> Refused)
        /\ Quorum => Answered # {}
    BY <1>4, PresetFixed, QuorumAnswers
    DEF PanelReturns, Proposed, Worked, Answered, Quorum, Refused, IInv
  <2>2. pc = "panel" /\ client = "none" /\ failure = "none"
    BY <1>1, <1>4 DEF PanelReturns, Proposed, Worked, Silent, Handler, Body
  <2>3. \/ /\ pc' \in {"save_error", "over"} /\ client' \in {"none", failure'}
           /\ failure' \in {"budget_exceeded", "insufficient_panel"}
           /\ Strategy = "B" /\ failure' = "insufficient_panel" => ~Refused
        \/ /\ pc' \in {"judge", "decide", "verify"} /\ results' = Panelists
           /\ client' = client /\ failure' = failure
           /\ Answered # {}
           /\ Strategy # "_tool_step" => Quorum
           /\ Strategy = "B" => ~Refused
    BY <1>4, <2>1, <2>2 DEF PanelReturns, Proposed, Worked, Goto, Fail
  <2>4. QED BY <1>1, <2>1, <2>2, <2>3 DEF PanelBehind, Good, AfterPanel, ToolPlaces, Body
<1>5. CASE Later
  <2>1. (Good' <=> Good) /\ (Refused' <=> Refused) /\ proposing' = proposing
    BY <1>5, Fixed DEF Later, PanelFixed
  <2>2. QED BY <1>1, <1>5, <2>1 DEF PanelBehind, Later
<1>6. QED BY <1>2, <1>3, <1>4, <1>5, LaterSteps

-----------------------------------------------------------------------------
(* What the parts of a trace's cost are bounded by. *)
LEMMA Costs ==
  ASSUME TypeOK
  PROVE  /\ Cardinality(Answered) \in 0..Cardinality(Panelists)
         /\ PanelCost \in 0..Cardinality(Answered)
         /\ Cardinality(Panelists) \in Nat
         /\ JudgeCost \in {0, 1}
<1>1. IsFiniteSet(Answered) /\ Cardinality(Answered) <= Cardinality(Panelists)
  BY PanelAssumption, FS_Subset DEF Answered
<1>2. /\ IsFiniteSet(results \cap Answered)
      /\ Cardinality(results \cap Answered) <= Cardinality(Answered)
  BY <1>1, FS_Subset
<1>3. /\ Cardinality(Panelists) \in Nat /\ Cardinality(Answered) \in Nat
      /\ Cardinality(results \cap Answered) \in Nat
  BY <1>1, <1>2, PanelAssumption, FS_CardinalityType
<1>4. QED BY <1>1, <1>2, <1>3 DEF PanelCost, JudgeCost

(* A record that a strategy writes is a trace, and what it says. *)
LEMMA RecordFits ==
  ASSUME TypeOK, NEW answer \in {"none", "complete", "panel", "partial", "tool"},
         NEW deg \in BOOLEAN, NEW n \in {0, 1}
  PROVE  /\ Record(answer, deg, n) \in Trace
         /\ Record(answer, deg, n).answer = answer
         /\ Record(answer, deg, n).degraded = deg
         /\ Record(answer, deg, n).cost <= Cardinality(Answered) + JudgeCost + own + n
<1>1. /\ own \in Nat /\ (own <= 1 \/ own <= 2 * MaxRepairs) /\ MaxRepairs \in Nat
  BY RepairsAssumption DEF TypeOK
<1>2. PanelCost + JudgeCost + own + n \in 0..(Cardinality(Panelists) + 3 + 2 * MaxRepairs)
  BY <1>1, Costs
<1>3. PanelCost + JudgeCost + own + n <= Cardinality(Answered) + JudgeCost + own + n
  BY <1>1, Costs
<1>4. QED BY <1>2, <1>3 DEF Record, Trace

(* A step that prepares a trace: what it records, that it is paid for, and *)
(* what the place it goes to demands.                                      *)
Saves(answer, deg, n) ==
  /\ draft' = Record(answer, deg, n)
  /\ billed' + InBody >= billed + n
  /\ pc' = "save" =>
       /\ answer \in {"complete", "panel", "tool"}
       /\ Strategy = "B" /\ (answer = "panel" \/ judge # "sound") => deg
       /\ answer = "tool" => chosen' \in proposing
       /\ Strategy = "conductor" /\ repair.wanted => deg \/ MaxRepairs = 0
  /\ pc' = "save_error" => answer = "none" /\ deg
  /\ pc' = "body_save" =>
       /\ answer # "none"
       /\ ~deg => failure' = "none" /\ (Strategy = "B" => judge = "sound")
  /\ UNCHANGED <<preset, judge, panel, results, proposing, repair>>

SavePlaces == {"save", "save_error", "body_save"}

Saving ==
  \/ \E answer \in {"none", "complete", "panel", "partial", "tool"},
        deg \in BOOLEAN, n \in {0, 1} : Saves(answer, deg, n)
  \/ draft' = draft /\ (pc' \in SavePlaces => UNCHANGED vars)

(* The exception handler of a run that has nothing to show. *)
LEMMA FailSaves ==
  ASSUME IInv, NEW from, NEW kind, Fail(from, kind), billed' \in Nat, billed' >= billed,
         UNCHANGED <<preset, panel, results, judge, proposing, repair>>
  PROVE  Saving
<1>1. billed \in Nat /\ InBody \in {0, 1}
  BY DEF IInv, TypeOK, InBody
<1>2. CASE Strategy = "B" /\ pc' = "save_error" /\ draft' = Record("none", TRUE, 0)
  <2>1. billed' + InBody >= billed + 0
    <3> DEFINE b == InBody
    <3>1. b = 0 \/ b = 1
      BY <1>1
    <3> HIDE DEF b
    <3>2. billed' + b >= billed + 0
      BY <1>1, <3>1
    <3>3. QED BY <3>2 DEF b
  <2>2. Saves("none", TRUE, 0)
    BY <1>2, <2>1 DEF Saves
  <2>3. QED BY <2>2 DEF Saving
<1>3. CASE pc' = "over" /\ draft' = draft
  BY <1>3 DEF Saving, SavePlaces
<1>4. QED BY <1>2, <1>3 DEF Fail, Goto

(* Every step either prepares a trace or leaves the prepared one alone.    *)
LEMMA SavingSteps ==
  ASSUME IInv, [Next]_vars PROVE Saving
<1>1. /\ billed \in Nat /\ InBody \in {0, 1} /\ Silent /\ Routes /\ Loops
      /\ proposing \in SUBSET Panelists
      /\ Degraded \in BOOLEAN
  BY DEF IInv, TypeOK, InBody, Answered, Degraded
<1>2. CASE StageStep
  <2>1. CASE SynthAnswers
    <3>1. /\ pc = "synth" /\ pc' = "save" /\ billed' = billed + 1
          /\ draft' = Record("complete", Degraded, 1)
          /\ UNCHANGED <<preset, panel, results, judge, proposing, repair>>
      BY <2>1 DEF SynthAnswers, Goto, strategyVars
    <3>2. Strategy # "conductor" /\ (Strategy = "B" /\ judge # "sound" => Degraded)
      BY <1>1, <3>1 DEF Routes, Degraded
    <3>3. Saves("complete", Degraded, 1)
      BY <1>1, <3>1, <3>2 DEF Saves
    <3>4. QED BY <1>1, <3>3 DEF Saving
  <2>2. ASSUME NEW kind, NEW cost \in {0, 1}, SynthFails(kind, cost) PROVE Saving
    <3>1. /\ billed' = billed + cost
          /\ UNCHANGED <<preset, panel, results, judge, proposing, repair>>
      BY <2>2 DEF SynthFails, strategyVars
    <3>2. CASE Fail({"synth"}, kind)
      BY <1>1, <3>1, <3>2, FailSaves
    <3>3. CASE FallBack
      <4>1. pc = "synth" /\ pc' = "save" /\ draft' = Record("panel", TRUE, 0)
        BY <3>3 DEF FallBack, Goto
      <4>2. Saves("panel", TRUE, 0)
        BY <1>1, <3>1, <4>1 DEF Saves
      <4>3. QED BY <4>2 DEF Saving
    <3>4. QED BY <2>2, <3>2, <3>3 DEF SynthFails
  <2>3. CASE SynthUnusable
    BY <1>1, <2>3, FailSaves DEF SynthUnusable, strategyVars
  <2>4. ASSUME NEW cost \in {0, 1}, FirstFails(cost) PROVE Saving
    BY <1>1, <2>4, FailSaves DEF FirstFails, strategyVars
  <2>5. CASE SaveFails
    <3>1. UNCHANGED <<preset, panel, results, judge, billed, proposing, repair>>
      BY <2>5 DEF SaveFails, strategyVars
    <3>2. CASE Fail({"save"}, "server_error")
      BY <1>1, <3>1, <3>2, FailSaves
    <3>3. CASE pc' = "over" /\ draft' = draft
      BY <3>3 DEF Saving, SavePlaces
    <3>4. QED BY <2>5, <3>2, <3>3 DEF SaveFails, Goto
  <2>6. CASE Open \/ OpenFails \/ Ground \/ SynthStreams \/ FirstChunk \/ Save \/ Return
    BY <2>6 DEF Open, OpenFails, Ground, SynthStreams, FirstChunk, Save, Return,
                Goto, Saving, SavePlaces
  <2>7. ASSUME NEW m \in Panelists, PanelistReports(m) PROVE Saving
    BY <2>7 DEF PanelistReports, Panelist, Saving, SavePlaces
  <2>8. ASSUME NEW verdict, JudgeAnswers(verdict) PROVE Saving
    BY <2>8 DEF JudgeAnswers, Goto, Saving, SavePlaces
  <2>9. ASSUME NEW cost, JudgeFails(cost) PROVE Saving
    BY <2>9 DEF JudgeFails, Goto, Saving, SavePlaces
  <2>10. QED BY <1>2, <2>1, <2>2, <2>3, <2>4, <2>5, <2>6, <2>7, <2>8, <2>9 DEF StageStep
<1>3. CASE BodyStep
  <2>1. ASSUME NEW broken \in BOOLEAN, Breaks(broken) PROVE Saving
    <3>1. /\ pc = "reading" /\ pc' = "body_save" /\ billed' = billed
          /\ draft' = Record("partial", Degraded \/ broken, 1)
          /\ failure' = IF broken THEN "server_error" ELSE failure
          /\ UNCHANGED <<preset, panel, results, judge, proposing, repair>>
      BY <2>1 DEF Breaks, BodyDegraded, Goto, strategyVars
    <3>2. failure = "none" /\ InBody = 1
      BY <1>1, <3>1 DEF Silent, Body, InBody
    <3>3. ~(Degraded \/ broken) => failure' = "none" /\ (Strategy = "B" => judge = "sound")
      BY <3>1, <3>2 DEF Degraded
    <3>4. Saves("partial", Degraded \/ broken, 1)
      BY <1>1, <3>1, <3>2, <3>3 DEF Saves
    <3>5. QED BY <3>4 DEF Saving
  <2>2. CASE Closed
    <3>1. /\ pc = "yielding" /\ pc' = "body_save" /\ billed' = billed
          /\ draft' = Record("partial", Degraded, 0) /\ failure' = failure
          /\ UNCHANGED <<preset, panel, results, judge, proposing, repair>>
      BY <1>1, <2>2 DEF Closed, BodyDegraded, Goto, strategyVars
    <3>2. failure = "none" /\ (~Degraded /\ Strategy = "B" => judge = "sound")
      BY <1>1, <3>1 DEF Silent, Body, Degraded
    <3>3. Saves("partial", Degraded, 0)
      BY <1>1, <3>1, <3>2 DEF Saves
    <3>4. QED BY <1>1, <3>3 DEF Saving
  <2>3. ASSUME NEW got, Finished(got) PROVE Saving
    <3>1. /\ pc = "done" /\ pc' = "body_save" /\ billed' = billed
          /\ draft' = Record("complete", Degraded, 1) /\ failure' = failure
          /\ UNCHANGED <<preset, panel, results, judge, proposing, repair>>
      BY <1>1, <2>3 DEF Finished, BodyDegraded, Goto, strategyVars
    <3>2. /\ failure = "none" /\ (~Degraded /\ Strategy = "B" => judge = "sound")
          /\ InBody = 1
      BY <1>1, <3>1 DEF Silent, Body, InBody, Degraded
    <3>3. Saves("complete", Degraded, 1)
      BY <1>1, <3>1, <3>2 DEF Saves
    <3>4. QED BY <1>1, <3>3 DEF Saving
  <2>4. CASE BodyStarts \/ BodyIgnored \/ Read \/ Chunk \/ Exhausted
    BY <2>4 DEF BodyStarts, BodyIgnored, Read, Chunk, Exhausted, Goto, Saving, SavePlaces
  <2>5. ASSUME NEW row, BodySaved(row) PROVE Saving
    BY <2>5 DEF BodySaved, Goto, Saving, SavePlaces
  <2>6. QED BY <1>3, <2>1, <2>2, <2>3, <2>4, <2>5 DEF BodyStep
<1>4. CASE ToolStep
  <2>1. CASE Proposed
    <3>1. CASE Fail({"panel"}, "insufficient_panel") /\ results' = results
      <4>1. /\ billed' = billed
            /\ UNCHANGED <<preset, panel, results, judge, proposing, repair>>
        BY <2>1, <3>1 DEF Proposed, strategyVars
      <4>2. billed' \in Nat /\ billed' >= billed
        BY <1>1, <4>1
      <4>3. QED BY <3>1, <4>1, <4>2, FailSaves
    <3>2. CASE pc' \in {"judge", "decide"} /\ draft' = draft
      BY <3>2 DEF Saving, SavePlaces
    <3>3. QED BY <2>1, <3>1, <3>2 DEF Proposed, Goto
  <2>2. ASSUME NEW from \in {{"decide", "redecide"}, {"redecide"}},
               NEW m \in proposing \cup {Nobody}, NEW counted \in {0, 1},
               NEW paid \in {0, 1}, counted <= paid, Decide(from, m, counted, paid)
        PROVE  Saving
    <3>1. CASE m = Nobody
      BY <2>2, <3>1 DEF Decide, Goto, Saving, SavePlaces
    <3>2. CASE m # Nobody
      <4>1. /\ pc \in {"decide", "redecide"} /\ pc' = "save" /\ chosen' = m
            /\ billed' = billed + paid
            /\ draft' = Record("tool", FALSE, counted)
            /\ UNCHANGED <<preset, panel, results, judge, proposing, repair>>
        BY <2>2, <3>2 DEF Decide, Goto
      <4>2. Strategy = "_tool_step"
        BY <1>1, <4>1 DEF Routes, ToolPlaces
      <4>3. Saves("tool", FALSE, counted)
        BY <1>1, <2>2, <3>2, <4>1, <4>2 DEF Saves
      <4>4. QED BY <4>3 DEF Saving
    <3>3. QED BY <3>1, <3>2
  <2>3. CASE JudgeDecides
    BY <2>2, <2>3 DEF JudgeDecides, Meant
  <2>4. ASSUME NEW cost \in {0, 1}, JudgeGivesUp(cost) PROVE Saving
    BY <2>2, <2>4 DEF JudgeGivesUp
  <2>5. ASSUME NEW cost, JudgeAskedAgain(cost) PROVE Saving
    BY <2>5 DEF JudgeAskedAgain, Goto, Saving, SavePlaces
  <2>6. QED BY <1>4, <2>1, <2>3, <2>4, <2>5 DEF ToolStep
<1>5. CASE ConductorStep
  <2>1. CASE Worked
    <3>1. CASE Fail({"panel"}, "insufficient_panel") /\ results' = results
      <4>1. /\ billed' = billed
            /\ UNCHANGED <<preset, panel, results, judge, proposing, repair>>
        BY <2>1, <3>1 DEF Worked, strategyVars
      <4>2. billed' \in Nat /\ billed' >= billed
        BY <1>1, <4>1
      <4>3. QED BY <3>1, <4>1, <4>2, FailSaves
    <3>2. CASE pc' = "verify" /\ draft' = draft
      BY <3>2 DEF Saving, SavePlaces
    <3>3. QED BY <2>1, <3>1, <3>2 DEF Worked, Goto
  <2>2. ASSUME NEW kind, NEW cost \in {0, 1}, ConductorFails(kind, cost) PROVE Saving
    BY <1>1, <2>2, FailSaves DEF ConductorFails, strategyVars
  <2>3. CASE Merged
    <3>1. /\ pc = "merge" /\ pc' = "save" /\ billed' = billed + 1
          /\ draft' = Record("complete", Degraded, 1)
          /\ UNCHANGED <<preset, panel, results, judge, proposing, repair>>
      BY <2>3 DEF Merged, Goto, strategyVars
    <3>2. /\ Strategy = "conductor"
          /\ repair.wanted => Degraded \/ MaxRepairs = 0
      BY <1>1, <3>1 DEF Routes, ConductorPlaces, Loops, Degraded
    <3>3. Saves("complete", Degraded, 1)
      BY <1>1, <3>1, <3>2 DEF Saves
    <3>4. QED BY <1>1, <3>3 DEF Saving
  <2>4. CASE StreamRefused \/ Begin \/ Planned \/ Repaired
    BY <2>4 DEF StreamRefused, Begin, Planned, Repaired, Goto, Saving, SavePlaces
  <2>5. ASSUME NEW wanted, Verified(wanted) \/ Reverified(wanted) PROVE Saving
    BY <2>5 DEF Verified, Reverified, LoopPlace, Goto, Saving, SavePlaces
  <2>6. ASSUME NEW cost, RepairFails(cost) PROVE Saving
    BY <2>6 DEF RepairFails, Goto, Saving, SavePlaces
  <2>7. QED BY <1>5, <2>1, <2>2, <2>3, <2>4, <2>5, <2>6 DEF ConductorStep
<1>6. CASE PanelReturns
  <2>1. ASSUME NEW kind, Fail({"panel"}, kind), results' = results PROVE Saving
    <3>1. /\ billed' = billed
          /\ UNCHANGED <<preset, panel, results, judge, proposing, repair>>
      BY <1>6, <2>1 DEF PanelReturns, strategyVars
    <3>2. billed' \in Nat /\ billed' >= billed
      BY <1>1, <3>1
    <3>3. QED BY <2>1, <3>1, <3>2, FailSaves
  <2>2. CASE pc' = "judge" /\ draft' = draft
    BY <2>2 DEF Saving, SavePlaces
  <2>3. QED BY <1>6, <2>1, <2>2 DEF PanelReturns, Goto
<1>7. CASE WallTimeout \/ Over \/ UNCHANGED vars
  BY <1>7 DEF WallTimeout, Over, Goto, vars, stageVars, Saving, SavePlaces
<1>8. QED BY <1>2, <1>3, <1>4, <1>5, <1>6, <1>7 DEF Next, RunStep

(* A prepared trace is what its place demands.                             *)
LEMMA KeepsDrafts ==
  ASSUME IInv, [Next]_vars
  PROVE  Drafts' /\ draft' \in Trace \cup {NoTrace}
<1>1. TypeOK /\ Drafts /\ draft \in Trace \cup {NoTrace}
  BY DEF IInv, TypeOK
<1>2. ASSUME NEW answer \in {"none", "complete", "panel", "partial", "tool"},
             NEW deg \in BOOLEAN, NEW n \in {0, 1}, Saves(answer, deg, n)
      PROVE  Drafts' /\ draft' \in Trace
  <2>1. draft' \in Trace /\ draft'.answer = answer /\ draft'.degraded = deg
    BY <1>1, <1>2, RecordFits DEF Saves
  <2>2. Strategy' = Strategy
    BY <1>2 DEF Saves, Strategy
  <2>3. QED
    BY <1>2, <2>1, <2>2 DEF Saves, Drafts, AnswerTrace, ErrorTrace, BodyTrace
<1>3. ASSUME draft' = draft, pc' \in SavePlaces => UNCHANGED vars PROVE Drafts'
  <2>1. CASE pc' \in SavePlaces
    BY <1>1, <1>3, <2>1
    DEF vars, stageVars, strategyVars, Drafts, AnswerTrace, ErrorTrace, BodyTrace, Strategy
  <2>2. CASE pc' \notin SavePlaces
    BY <2>2 DEF Drafts, SavePlaces
  <2>3. QED BY <2>1, <2>2
<1>4. QED BY <1>1, <1>2, <1>3, SavingSteps DEF Saving

-----------------------------------------------------------------------------
(* What a step adds to the sums and to the bill. *)
Pays ==
  \/ /\ own' = own /\ judge' \in {judge, "failed"} /\ billed' \in {billed, billed + 1}
     /\ pc' \in Body => pc \in Body
  \/ /\ own' = own + 1 /\ judge' = judge /\ billed' = billed + 1 /\ pc' \notin Body
     /\ own' <= 1 \/ own' <= 2 * MaxRepairs
  \/ /\ own' = own /\ billed' = billed + 1
     /\ \/ pc' \notin Body /\ judge' \in {"sound", "degraded", "failed"}
        \/ judge' = judge

(* A sum grows by no more than the bill does, in every step. *)
LEMMA PaysSteps ==
  ASSUME IInv, [Next]_vars PROVE Pays
<1>1. /\ own \in Nat /\ billed \in Nat /\ MaxRepairs \in Nat
      /\ repair.done \in 0..MaxRepairs /\ Loops /\ Routes
  BY RepairsAssumption, RepairType DEF IInv, TypeOK
<1>2. ASSUME own' = own, judge' \in {judge, "failed"}, billed' \in {billed, billed + 1},
             pc' \in Body => pc \in Body
      PROVE  Pays
  BY <1>2 DEF Pays
<1>3. ASSUME NEW cost \in {0, 1}, billed' = billed + cost
      PROVE  billed' \in {billed, billed + 1}
  BY <1>1, <1>3
<1> USE DEF Body, Goto, Fail, FallBack, strategyVars, stageVars, vars, LoopPlace
<1>4. CASE Open \/ OpenFails \/ Ground \/ SynthStreams \/ Save \/ SaveFails \/ Return
           \/ BodyStep \/ PanelReturns \/ Proposed \/ StreamRefused \/ Begin \/ Worked
           \/ WallTimeout \/ Over \/ UNCHANGED vars
  <2>1. own' = own /\ judge' = judge /\ billed' = billed /\ (pc' \in Body => pc \in Body)
    BY <1>4 DEF Open, OpenFails, Ground, SynthStreams, Save, SaveFails, Return, BodyStep,
      BodyStarts, BodyIgnored, Read, Chunk, Exhausted, Breaks, Closed, Finished,
      BodySaved, PanelReturns, Proposed, StreamRefused, Begin, Worked, WallTimeout, Over
  <2>2. QED BY <1>2, <2>1
<1>5. CASE SynthAnswers \/ SynthUnusable \/ Merged
  <2>1. own' = own /\ judge' = judge /\ billed' = billed + 1 /\ pc' \notin Body
    BY <1>5 DEF SynthAnswers, SynthUnusable, Merged
  <2>2. QED BY <2>1 DEF Pays
<1>6. CASE FirstChunk
  BY <1>6 DEF FirstChunk, Pays
<1>7. ASSUME NEW m \in Panelists, PanelistReports(m) PROVE Pays
  <2>1. ASSUME NEW status, NEW cost \in {0, 1}, NEW tool, Panelist(m, status, cost, tool)
        PROVE  Pays
    <3>1. own' = own /\ judge' = judge /\ billed' = billed + cost /\ pc' = pc
      BY <2>1 DEF Panelist
    <3>2. QED BY <1>2, <1>3, <3>1
  <2>2. QED BY <1>7, <2>1 DEF PanelistReports
<1>8. ASSUME NEW cost \in {0, 1}, NEW kind,
             JudgeFails(cost) \/ SynthFails(kind, cost) \/ FirstFails(cost)
             \/ JudgeAskedAgain(cost) \/ RepairFails(cost) \/ ConductorFails(kind, cost)
      PROVE  Pays
  <2>1. /\ own' = own /\ judge' \in {judge, "failed"} /\ billed' = billed + cost
        /\ pc' \notin Body
    BY <1>8 DEF JudgeFails, SynthFails, FirstFails, JudgeAskedAgain, RepairFails,
      ConductorFails
  <2>2. QED BY <1>2, <1>3, <2>1
<1>9. ASSUME NEW verdict \in {"sound", "degraded", "failed"}, JudgeAnswers(verdict) PROVE Pays
  BY <1>9 DEF JudgeAnswers, Pays
<1>10. ASSUME NEW wanted, Verified(wanted) PROVE Pays
  BY <1>10 DEF Verified, Pays
<1>11. ASSUME NEW from \in {{"decide", "redecide"}, {"redecide"}},
              NEW m, NEW counted \in {0, 1}, NEW paid \in {0, 1}, counted <= paid,
              Decide(from, m, counted, paid)
       PROVE  Pays
  <2>1. /\ pc \in ToolPlaces /\ own' = own + counted /\ billed' = billed + paid
        /\ judge' = judge /\ pc' \notin Body
    BY <1>11 DEF Decide, ToolPlaces
  <2>2. own = 0
    BY <1>1, <2>1 DEF Loops
  <2>3. CASE counted = 1
    BY <1>1, <1>11, <2>1, <2>2, <2>3 DEF Pays
  <2>4. CASE counted = 0
    BY <1>1, <1>2, <1>3, <2>1, <2>2, <2>4
  <2>5. QED BY <2>3, <2>4
<1>12. CASE JudgeDecides \/ \E cost \in {0, 1} : JudgeGivesUp(cost)
  BY <1>11, <1>12 DEF JudgeDecides, JudgeGivesUp
<1>13. CASE Planned
  <2>1. /\ pc = "plan" /\ own' = own + 1 /\ billed' = billed + 1 /\ judge' = judge
        /\ pc' \notin Body
    BY <1>13 DEF Planned
  <2>2. own = 0
    BY <1>1, <2>1 DEF Loops
  <2>3. QED BY <2>1, <2>2 DEF Pays
<1>14. ASSUME NEW wanted \in BOOLEAN, Repaired \/ Reverified(wanted) PROVE Pays
  <2>1. /\ pc \in {"repair", "reverify"} /\ own' = own + 1 /\ billed' = billed + 1
        /\ judge' = judge /\ pc' \notin Body
    BY <1>14 DEF Repaired, Reverified
  <2>2. own <= 2 * repair.done + 1 /\ repair.done < MaxRepairs
    BY <1>1, <2>1 DEF Loops
  <2>3. own' <= 2 * MaxRepairs
    BY <1>1, <2>1, <2>2
  <2>4. QED BY <2>1, <2>3 DEF Pays
<1>15. QED
  BY <1>4, <1>5, <1>6, <1>7, <1>8, <1>9, <1>10, <1>12, <1>13, <1>14
  DEF Next, RunStep, StageStep, ToolStep, ConductorStep

(* How the set of answers grows: by one that is billed.                    *)
LEMMA AnswerSteps ==
  ASSUME IInv, [Next]_vars
  PROVE  \/ Answered' = Answered
         \/ Answered' = {}
         \/ /\ \E m \in Panelists : Answered' = Answered \cup {m}
            /\ UNCHANGED <<own, judge, pc>> /\ billed' = billed + 1
<1>1. CASE Open \/ Ground \/ Planned
  BY <1>1 DEF Open, Ground, Planned, CallPanel, Answered
<1>2. ASSUME NEW m \in Panelists, PanelistReports(m)
      PROVE  \/ Answered' = Answered
             \/ /\ Answered' = Answered \cup {m}
                /\ UNCHANGED <<own, judge, pc>> /\ billed' = billed + 1
  <2>1. panel \in [Panelists -> {"idle", "calling", "ok", "failed", "refused"}]
    BY DEF IInv, TypeOK
  <2>2. ASSUME NEW tool, Panelist(m, "ok", 1, tool)
        PROVE  /\ Answered' = Answered \cup {m}
               /\ UNCHANGED <<own, judge, pc>> /\ billed' = billed + 1
    BY <2>1, <2>2 DEF Panelist, Answered
  <2>3. ASSUME NEW cost, NEW status \in {"failed", "refused"},
               Panelist(m, status, cost, FALSE)
        PROVE  Answered' = Answered
    BY <2>1, <2>3 DEF Panelist, Answered
  <2>4. QED BY <1>2, <2>2, <2>3 DEF PanelistReports
<1>3. CASE PanelReturns \/ Proposed \/ Worked
  BY <1>3 DEF PanelReturns, Proposed, Worked, Answered
<1>4. CASE Later
  BY <1>4, Fixed DEF Later
<1>5. QED BY <1>1, <1>2, <1>3, <1>4, LaterSteps

-----------------------------------------------------------------------------
(* A step that ends a run: the trace is written, then the client told.     *)
Ending ==
  /\ UNCHANGED <<preset, panel, results, judge, failure, proposing, chosen, repair>>
  /\ \/ /\ pc \in {"save", "save_error"} /\ pc' = "saved"
        /\ trace' = Saved /\ client' = client
     \/ /\ pc = "body_save" /\ pc' = "over"
        /\ trace' \in {Saved, NoTrace} /\ client' = client
     \/ /\ pc = "saved" /\ pc' = "over" /\ trace' = trace
        /\ client' \in {"timeout", IF failure = "none" THEN "answered" ELSE failure}
     \/ UNCHANGED vars

(* Every other one: no trace is written, and no client has been told of    *)
(* what ends with one.                                                     *)
Running ==
  /\ trace = NoTrace /\ trace' = NoTrace
  /\ pc' # "saved" /\ client' # "answered"
  /\ Strategy = "B" => client' \notin {"budget_exceeded", "insufficient_panel"}

(* Each step is of one kind or the other. *)
LEMMA EndingSteps ==
  ASSUME IInv, [Next]_vars PROVE Ending \/ Running
<1>1. Silent
  BY DEF IInv
<1> USE DEF Goto, Fail, FallBack, strategyVars, stageVars, vars, ToolPlaces, ConductorPlaces
<1>2. CASE Save \/ Return \/ Over \/ UNCHANGED vars
  BY <1>2 DEF Save, Return, Over, Ending
<1>3. ASSUME NEW row \in {Saved, NoTrace}, BodySaved(row) PROVE Ending
  BY <1>3 DEF BodySaved, Ending
<1>4. CASE WallTimeout
  <2>1. CASE pc = "saved"
    BY <1>4, <2>1 DEF WallTimeout, Ending
  <2>2. CASE pc # "saved"
    BY <1>1, <1>4, <2>2 DEF WallTimeout, Running, Silent, Handler
  <2>3. QED BY <2>1, <2>2
<1>5. ASSUME pc \in (Handler \cup Body) \ {"saved", "body_save"},
             trace' = trace, pc' # "saved",
             \/ client' \in {client, "server_error", "aborted", "complete", "streaming",
                             "invalid_request"}
             \/ Strategy # "B" /\ client' \in {"budget_exceeded", "insufficient_panel"}
      PROVE  Running
  BY <1>1, <1>5 DEF Running, Silent, Handler, Body
<1>6. CASE StageStep /\ ~Save /\ ~Return
  <2>1. ASSUME NEW kind \in {"server_error", "budget_exceeded"}, NEW cost,
               SynthFails(kind, cost)
        PROVE  Running
    BY <1>5, <2>1 DEF SynthFails, Handler
  <2>2. ASSUME NEW cost, FirstFails(cost) \/ JudgeFails(cost) PROVE Running
    BY <1>5, <2>2 DEF FirstFails, JudgeFails, Handler
  <2>3. CASE SynthUnusable \/ SaveFails \/ SynthAnswers \/ SynthStreams \/ FirstChunk
    BY <1>5, <2>3 DEF SynthUnusable, SaveFails, SynthAnswers, SynthStreams, FirstChunk, Handler
  <2>4. CASE Open \/ OpenFails \/ Ground
    BY <1>5, <2>4 DEF Open, OpenFails, Ground, Handler
  <2>5. ASSUME NEW m, PanelistReports(m) PROVE Running
    BY <1>5, <2>5 DEF PanelistReports, Panelist, Handler
  <2>6. ASSUME NEW verdict, JudgeAnswers(verdict) PROVE Running
    BY <1>5, <2>6 DEF JudgeAnswers, Handler
  <2>7. QED BY <1>6, <2>1, <2>2, <2>3, <2>4, <2>5, <2>6 DEF StageStep
<1>7. CASE BodyStep /\ ~ \E row \in {Saved, NoTrace} : BodySaved(row)
  <2>1. CASE BodyStarts \/ BodyIgnored \/ Read \/ Chunk \/ Exhausted \/ Closed
    BY <1>5, <2>1 DEF BodyStarts, BodyIgnored, Read, Chunk, Exhausted, Closed, Body
  <2>2. ASSUME NEW broken, Breaks(broken) PROVE Running
    BY <1>5, <2>2 DEF Breaks, Body
  <2>3. ASSUME NEW got \in {"complete", "aborted"}, Finished(got) PROVE Running
    BY <1>5, <2>3 DEF Finished, Body
  <2>4. QED BY <1>7, <2>1, <2>2, <2>3 DEF BodyStep
<1>8. CASE PanelReturns \/ Proposed \/ Worked
  BY <1>5, <1>8 DEF PanelReturns, Proposed, Worked, Handler
<1>9. CASE ToolStep /\ ~Proposed
  BY <1>5, <1>9 DEF ToolStep, JudgeDecides, JudgeAskedAgain, JudgeGivesUp, Decide, Handler
<1>10. CASE ConductorStep /\ ~Worked
  <2>1. CASE StreamRefused \/ Begin \/ Planned \/ Repaired \/ Merged
    BY <1>5, <2>1 DEF StreamRefused, Begin, Planned, Repaired, Merged, Handler
  <2>2. ASSUME NEW wanted, Verified(wanted) \/ Reverified(wanted) PROVE Running
    BY <1>5, <2>2 DEF Verified, Reverified, LoopPlace, Handler
  <2>3. ASSUME NEW cost, NEW kind \in {"server_error", "budget_exceeded"},
               RepairFails(cost) \/ ConductorFails(kind, cost)
        PROVE  Running
    BY <1>5, <2>3 DEF RepairFails, ConductorFails, Handler
  <2>4. QED BY <1>10, <2>1, <2>2, <2>3 DEF ConductorStep
<1>11. QED
  BY <1>2, <1>3, <1>4, <1>6, <1>7, <1>8, <1>9, <1>10 DEF Next, RunStep

(* Arithmetic of the sums: a for the answers, j the judge's call, o the    *)
(* calls a strategy counts itself, i the one of the stream, b the bill.    *)
LEMMA SumsGrow ==
  ASSUME NEW j \in Int, NEW o \in Int, NEW i \in Int, NEW b \in Int,
         NEW j1 \in Int, NEW i1 \in Int, NEW b1 \in Int,
         j1 <= j, i1 <= i, b <= b1
  PROVE  j1 + o + i1 + b <= j + o + i + b1
OBVIOUS

LEMMA SumsPaid ==
  ASSUME NEW a \in Int, NEW j \in Int, NEW o \in Int, NEW i \in Int, NEW b \in Int,
         NEW a1 \in Int, NEW j1 \in Int, NEW o1 \in Int, NEW i1 \in Int, NEW b1 \in Int,
         a + j + o + i <= b,
         j1 + o1 + i1 + b <= j + o + i + b1,
         a1 <= a
  PROVE  a1 + j1 + o1 + i1 <= b1
OBVIOUS

LEMMA CostPaid ==
  ASSUME NEW a \in Int, NEW j \in Int, NEW o \in Int, NEW i \in Int, NEW b \in Int,
         NEW b1 \in Int, NEW n \in Int, NEW cost \in Int,
         a + j + o + i <= b,
         cost <= a + j + o + n,
         b1 + i >= b + n
  PROVE  cost <= b1
OBVIOUS

(* Whatever is added up has been billed. *)
LEMMA KeepsBilled ==
  ASSUME IInv, [Next]_vars PROVE Billed' /\ billed' \in Nat
<1> DEFINE a == Cardinality(Answered)
           j == JudgeCost
           i == InBody
           a1 == Cardinality(Answered')
           j1 == JudgeCost'
           i1 == InBody'
<1>1. /\ own \in Nat /\ billed \in Nat /\ a \in Nat /\ j \in {0, 1} /\ i \in {0, 1}
      /\ a + j + own + i <= billed
  BY Costs DEF IInv, TypeOK, Billed, InBody, Paid
<1>2. /\ j1 \in {0, 1} /\ i1 \in {0, 1}
      /\ judge' \in {judge, "failed"} => j1 <= j
      /\ (pc' \in Body => pc \in Body) => i1 <= i
      /\ pc' \notin Body => i1 = 0
  BY DEF JudgeCost, InBody
<1> HIDE DEF a, j, i, a1, j1, i1
<1>3. /\ own \in Int /\ billed \in Int /\ a \in Int /\ j \in Int /\ i \in Int
      /\ j1 \in Int /\ i1 \in Int /\ i >= 0 /\ j1 <= j + 1
      /\ own >= 0 /\ billed >= 0
  BY <1>1, <1>2
<1>4. /\ own' \in Nat /\ billed' \in Nat /\ billed' >= billed
      /\ j1 + own' + i1 + billed <= j + own + i + billed'
  <2>1. CASE /\ own' = own /\ judge' \in {judge, "failed"} /\ billed' \in {billed, billed + 1}
             /\ pc' \in Body => pc \in Body
    <3>1. j1 <= j /\ i1 <= i
      BY <1>2, <2>1
    <3>2. /\ own' = own /\ own' \in Nat /\ billed' \in Nat /\ billed' \in Int
          /\ billed' >= billed /\ billed <= billed'
      BY <1>1, <2>1
    <3>3. j1 + own + i1 + billed <= j + own + i + billed'
      BY <1>3, <3>1, <3>2, SumsGrow
    <3>4. QED BY <3>2, <3>3
  <2>2. CASE /\ own' = own + 1 /\ judge' = judge /\ billed' = billed + 1 /\ pc' \notin Body
    <3>1. j1 <= j /\ i1 <= i
      BY <1>3, <1>2, <2>2
    <3>2. QED BY <1>3, <2>2, <3>1
  <2>3. CASE /\ own' = own /\ billed' = billed + 1
             /\ pc' \notin Body \/ judge' = judge
    <3>1. j1 + i1 <= j + i + 1
      BY <1>1, <1>2, <2>3
    <3>2. QED BY <1>3, <2>3, <3>1
  <2>4. QED BY <2>1, <2>2, <2>3, PaysSteps DEF Pays
<1>5. /\ a \in Int /\ j \in Int /\ own \in Int /\ i \in Int /\ billed \in Int
      /\ j1 \in Int /\ own' \in Int /\ i1 \in Int /\ billed' \in Int
      /\ a + j + own + i <= billed
  BY <1>3, <1>1, <1>4
<1>6. j1 + own' + i1 + billed <= j + own + i + billed'
  BY <1>4
<1>7. a1 + j1 + own' + i1 <= billed'
  <2>1. CASE Answered' = Answered
    <3>1. a1 = a
      BY <2>1 DEF a, a1
    <3>2. a1 <= a /\ a1 \in Int
      BY <1>3, <3>1
    <3>3. QED BY <1>5, <1>6, <3>2, SumsPaid, Zenon
  <2>2. CASE Answered' = {}
    <3>1. a1 = 0
      BY <2>2, FS_EmptySet DEF a1
    <3>2. a1 <= a /\ a1 \in Int
      BY <1>1, <3>1
    <3>3. QED BY <1>5, <1>6, <3>2, SumsPaid, Zenon
  <2>3. ASSUME NEW m \in Panelists, Answered' = Answered \cup {m},
               UNCHANGED <<own, judge, pc>>, billed' = billed + 1
        PROVE  a1 + j1 + own' + i1 <= billed'
    <3>1. IsFiniteSet(Answered)
      BY PanelAssumption, FS_Subset DEF Answered
    <3>2. a1 \in {a, a + 1} /\ j1 = j /\ i1 = i
      BY <2>3, <3>1, FS_AddElement DEF JudgeCost, InBody, a, a1, j, j1, i, i1
    <3>3. QED BY <1>3, <1>1, <2>3, <3>2
  <2>4. QED BY <2>1, <2>2, <2>3, AnswerSteps
<1>8. pc' \in {"save", "save_error", "body_save"} => draft' \in Trace /\ draft'.cost <= billed'
  <2>1. ASSUME NEW answer \in {"none", "complete", "panel", "partial", "tool"},
               NEW deg \in BOOLEAN, NEW n \in {0, 1}, Saves(answer, deg, n)
        PROVE  draft' \in Trace /\ draft'.cost <= billed'
    <3>1. /\ draft' \in Trace
          /\ draft'.cost <= a + j + own + n
      BY <2>1, RecordFits DEF Saves, IInv, a, j
    <3>2. billed' + i >= billed + n
      BY <2>1 DEF Saves, i
    <3>3. draft'.cost \in Int
      BY <3>1 DEF Trace
    <3>4. billed' \in Int /\ n \in Int
      BY <1>4
    <3>5. QED BY <1>5, <3>1, <3>2, <3>3, <3>4, CostPaid, Zenon
  <2>2. ASSUME draft' = draft, pc' \in SavePlaces => UNCHANGED vars
        PROVE  pc' \in SavePlaces => draft' \in Trace /\ draft'.cost <= billed'
    BY <2>2 DEF IInv, Billed, SavePlaces, vars, stageVars
  <2>3. QED BY <2>1, <2>2, SavingSteps DEF Saving, SavePlaces
<1>9. trace' # NoTrace => trace'.cost <= billed'
  <2>1. CASE UNCHANGED vars
    BY <2>1 DEF IInv, Billed, vars, stageVars
  <2>2. CASE pc \in {"save", "save_error", "body_save"} /\ trace' \in {Saved, NoTrace}
    <3>1. draft.cost <= billed /\ draft.cost \in Int
      BY <2>2 DEF IInv, Billed, Trace
    <3>2. trace' # NoTrace => trace' = draft
      BY <2>2 DEF Saved
    <3>3. QED BY <1>1, <1>4, <3>1, <3>2
  <2>3. CASE trace' = trace
    <3>1. trace # NoTrace => trace.cost \in Int /\ trace.cost <= billed
      BY DEF IInv, TypeOK, Billed, Trace
    <3>2. QED BY <1>1, <1>4, <2>3, <3>1
  <2>4. QED BY <2>1, <2>2, <2>3, EndingSteps DEF Ending, Running
<1>10. QED BY <1>4, <1>7, <1>8, <1>9 DEF Billed, Paid, a1, j1, i1

(* What a trace claims is so when it is written, and ever after.           *)
LEMMA KeepsTraces ==
  ASSUME IInv, [Next]_vars PROVE Traces'
<1> DEFINE Same == UNCHANGED <<preset, panel, results, judge, failure, proposing,
                               chosen, repair>>
<1>1. Silent /\ Routes /\ PanelBehind /\ Drafts /\ Traces
  BY DEF IInv
<1>2. CASE Running
  <2>1. preset' = preset /\ Strategy' = Strategy
    BY PresetFixed DEF Strategy
  <2>2. QED BY <1>2, <2>1 DEF Running, Traces
<1>3. ASSUME Same
      PROVE  /\ Strategy' = Strategy /\ preset' = preset /\ failure' = failure
             /\ Good' <=> Good
  BY <1>3 DEF Strategy, Good, Answered, Quorum, Refused
<1>4. ASSUME Same, NEW d, trace' = d
      PROVE  /\ AnswerTrace(trace)' <=> AnswerTrace(d)
             /\ ErrorTrace(trace)' <=> ErrorTrace(d)
             /\ BodyTrace(trace)' <=> BodyTrace(d)
  BY <1>3, <1>4 DEF AnswerTrace, ErrorTrace, BodyTrace
<1>5. ASSUME Same, trace' = Saved, client' = client, pc = "save", pc' = "saved"
      PROVE  Traces'
  <2>1. /\ client = "none" /\ failure = "none" /\ AnswerTrace(draft) /\ Good
    BY <1>1, <1>5 DEF Silent, Handler, Drafts, PanelBehind, AfterPanel
  <2>2. Saved = IF preset.store THEN draft ELSE NoTrace
    BY DEF Saved
  <2>3. preset.store => AnswerTrace(trace)'
    BY <1>4, <1>5, <2>1, <2>2
  <2>4. QED BY <1>3, <1>5, <2>1, <2>2, <2>3 DEF Traces
<1>6. ASSUME Same, trace' = Saved, client' = client, pc = "save_error", pc' = "saved"
      PROVE  Traces'
  <2>1. /\ client = "none" /\ failure # "none" /\ ErrorTrace(draft)
    BY <1>1, <1>6 DEF Silent, Handler, Drafts
  <2>2. Saved = IF preset.store THEN draft ELSE NoTrace
    BY DEF Saved
  <2>3. preset.store => ErrorTrace(trace)'
    BY <1>4, <1>6, <2>1, <2>2
  <2>4. QED BY <1>3, <1>6, <2>1, <2>2, <2>3 DEF Traces
<1>7. ASSUME Same, trace' \in {Saved, NoTrace}, client' = client,
             pc = "body_save", pc' = "over"
      PROVE  Traces'
  <2>1. /\ trace = NoTrace /\ BodyTrace(draft) /\ Good /\ Strategy # "conductor"
    BY <1>1, <1>7 DEF Silent, Body, Drafts, PanelBehind, AfterPanel, Routes
  <2>2. Saved = IF preset.store THEN draft ELSE NoTrace
    BY DEF Saved
  <2>3. trace' # NoTrace => preset.store /\ BodyTrace(trace)'
    BY <1>4, <1>7, <2>1, <2>2
  <2>4. ~AnswerTrace(trace) /\ ~ErrorTrace(trace)
    BY <2>1, NoTraceAssumption DEF AnswerTrace, ErrorTrace
  <2>5. /\ client = "answered" => ~preset.store
        /\ preset.store /\ Strategy = "B" =>
             client \notin {"budget_exceeded", "insufficient_panel"}
    BY <1>1, <2>4 DEF Traces
  <2>6. QED BY <1>3, <1>7, <2>1, <2>3, <2>5 DEF Traces
<1>8. ASSUME Same, trace' = trace, pc = "saved", pc' = "over",
             client' \in {"timeout", IF failure = "none" THEN "answered" ELSE failure}
      PROVE  Traces'
  <2>1. /\ AnswerTrace(trace)' <=> AnswerTrace(trace)
        /\ ErrorTrace(trace)' <=> ErrorTrace(trace)
        /\ BodyTrace(trace)' <=> BodyTrace(trace)
    BY <1>4, <1>8
  <2>2. client' = "answered" => failure = "none" \/ failure = "answered"
    BY <1>8
  <2>3. failure # "answered"
    BY DEF IInv, TypeOK, Failures
  <2>4. client' \in {"budget_exceeded", "insufficient_panel"} => failure # "none"
    BY <1>8
  <2>5. QED BY <1>1, <1>3, <1>8, <2>1, <2>2, <2>3, <2>4 DEF Traces
<1>9. CASE UNCHANGED vars
  <2>1. Same /\ trace' = trace /\ pc' = pc /\ client' = client
    BY <1>9 DEF vars, stageVars, strategyVars
  <2>2. /\ AnswerTrace(trace)' <=> AnswerTrace(trace)
        /\ ErrorTrace(trace)' <=> ErrorTrace(trace)
        /\ BodyTrace(trace)' <=> BodyTrace(trace)
    BY <1>4, <2>1
  <2>3. QED BY <1>1, <1>3, <2>1, <2>2 DEF Traces
<1>10. QED BY <1>2, <1>5, <1>6, <1>7, <1>8, <1>9, EndingSteps DEF Ending

-----------------------------------------------------------------------------
(* The parts of the state that have no lemma of their own. *)
RestTypes ==
  /\ pc \in Handler \cup Body \cup {"over"}
  /\ panel \in [Panelists -> {"idle", "calling", "ok", "failed", "refused"}]
  /\ results \subseteq Panelists
  /\ judge \in {"none", "sound", "degraded", "failed"}
  /\ failure \in Failures
  /\ client \in Failures \cup {"answered", "streaming", "complete", "aborted", "timeout"}
  /\ chunks \in 0..MaxChunks
  /\ proposing \subseteq Answered
  /\ chosen \in Panelists \cup {Nobody}
  /\ repair \in [wanted: BOOLEAN, done: 0..MaxRepairs, failed: BOOLEAN]

(* Their types, step by step. *)
LEMMA KeepsRestTypes ==
  ASSUME IInv, [Next]_vars PROVE RestTypes'
<1>1. RestTypes /\ PanelBehind /\ Loops
  BY DEF IInv, TypeOK, RestTypes
<1>2. MaxChunks \in Nat /\ MaxRepairs \in Nat /\ repair.done \in 0..MaxRepairs
  BY RepairsAssumption, ChunksAssumption, RepairType
<1> USE DEF RestTypes, Failures, Goto, Fail, FallBack, strategyVars, stageVars, vars,
            Handler, Body, ToolPlaces, ConductorPlaces
<1>3. panel' = panel => Answered' = Answered
  BY DEF Answered
<1>4. ASSUME UNCHANGED <<panel, proposing, chunks, repair>>,
              pc' \in Handler \cup Body \cup {"over"},
              results' \in {results, Panelists},
              judge' \in {judge, "failed"},
              failure' \in Failures,
              client' = client \/ client' \in Failures \cup {"answered", "streaming"},
              chosen' \in Panelists \cup {Nobody}
       PROVE  RestTypes'
  BY <1>1, <1>3, <1>4
<1>5. CASE SynthAnswers \/ SynthUnusable \/ SynthStreams \/ FirstChunk \/ Save \/ SaveFails
           \/ Return \/ OpenFails
  <2>1. CASE SynthAnswers \/ SynthStreams \/ FirstChunk \/ Save \/ Return \/ OpenFails
    BY <1>1, <1>4, <2>1
    DEF SynthAnswers, SynthStreams, FirstChunk, Save, Return, OpenFails
  <2>2. CASE SynthUnusable \/ SaveFails
    BY <1>1, <1>4, <2>2 DEF SynthUnusable, SaveFails
  <2>3. QED BY <1>5, <2>1, <2>2
<1>6. ASSUME NEW cost, NEW kind \in {"server_error", "budget_exceeded"},
             JudgeFails(cost) \/ SynthFails(kind, cost) \/ FirstFails(cost)
             \/ ConductorFails(kind, cost) \/ JudgeAskedAgain(cost)
      PROVE  RestTypes'
  BY <1>1, <1>4, <1>6 DEF JudgeFails, SynthFails, FirstFails, ConductorFails, JudgeAskedAgain
<1>7. ASSUME NEW verdict \in {"sound", "degraded", "failed"}, JudgeAnswers(verdict)
      PROVE  RestTypes'
  BY <1>1, <1>3, <1>7 DEF JudgeAnswers
<1>8. CASE Open \/ Ground \/ Planned
  <2>1. proposing = {} /\ proposing' = {}
    BY <1>1, <1>8 DEF Open, Ground, Planned, PanelBehind
  <2>2. panel' \in [Panelists -> {"idle", "calling", "ok", "failed", "refused"}]
    BY <1>1, <1>8 DEF Open, Ground, Planned, CallPanel
  <2>3. QED BY <1>1, <1>8, <2>1, <2>2 DEF Open, Ground, Planned
<1>9. ASSUME NEW m \in Panelists, PanelistReports(m) PROVE RestTypes'
  <2>1. ASSUME NEW status \in {"ok", "failed", "refused"}, NEW cost, NEW tool,
               tool => status = "ok", Panelist(m, status, cost, tool)
        PROVE  RestTypes'
    <3>1. /\ panel' \in [Panelists -> {"idle", "calling", "ok", "failed", "refused"}]
          /\ panel[m] = "calling" /\ panel' = [panel EXCEPT ![m] = status]
          /\ proposing' \in {proposing, proposing \cup {m}}
          /\ proposing' # proposing => status = "ok"
      BY <1>1, <2>1 DEF Panelist
    <3>2. Answered \subseteq Answered' /\ (status = "ok" => m \in Answered')
      BY <1>1, <3>1 DEF Answered
    <3>3. proposing' \subseteq Answered'
      BY <1>1, <3>1, <3>2
    <3>4. QED BY <1>1, <2>1, <3>1, <3>3 DEF Panelist
  <2>2. QED BY <1>9, <2>1 DEF PanelistReports
<1>10. CASE BodyStep
  <2>1. CASE Chunk
    <3>1. chunks' \in 0..MaxChunks
      BY <1>1, <1>2, <2>1 DEF Chunk
    <3>2. QED BY <1>1, <1>3, <2>1, <3>1 DEF Chunk
  <2>2. CASE BodyStarts \/ BodyIgnored \/ Read \/ Exhausted \/ Closed
    <3>1. /\ UNCHANGED <<panel, proposing, chunks, repair, results, judge, failure, chosen>>
          /\ client' \in {client, "aborted"}
          /\ pc' \in Body \cup {"over"}
      BY <2>2 DEF BodyStarts, BodyIgnored, Read, Exhausted, Closed
    <3>2. QED BY <1>1, <1>3, <3>1
  <2>3. ASSUME NEW broken, Breaks(broken) PROVE RestTypes'
    BY <1>1, <1>3, <2>3 DEF Breaks
  <2>4. ASSUME NEW got \in {"complete", "aborted"}, Finished(got) PROVE RestTypes'
    BY <1>1, <1>3, <2>4 DEF Finished
  <2>5. ASSUME NEW row, BodySaved(row) PROVE RestTypes'
    BY <1>1, <1>3, <2>5 DEF BodySaved
  <2>6. QED BY <1>10, <2>1, <2>2, <2>3, <2>4, <2>5 DEF BodyStep
<1>11. CASE PanelReturns \/ Proposed \/ Worked
  BY <1>1, <1>4, <1>11 DEF PanelReturns, Proposed, Worked
<1>12. ASSUME NEW from \in {{"decide", "redecide"}, {"redecide"}},
              NEW m \in proposing \cup {Nobody}, NEW counted, NEW paid,
              Decide(from, m, counted, paid)
       PROVE  RestTypes'
  <2>1. m \in Panelists \cup {Nobody}
    BY <1>1 DEF Answered
  <2>2. QED BY <1>1, <1>4, <1>12, <2>1 DEF Decide
<1>13. CASE JudgeDecides
  BY <1>12, <1>13 DEF JudgeDecides, Meant
<1>14. ASSUME NEW cost, JudgeGivesUp(cost) PROVE RestTypes'
  BY <1>12, <1>14 DEF JudgeGivesUp
<1>15. ASSUME NEW wanted \in BOOLEAN, Verified(wanted) \/ Reverified(wanted) PROVE RestTypes'
  <2>1. repair' = [repair EXCEPT !.wanted = wanted]
    BY <1>15 DEF Verified, Reverified
  <2>2. repair' \in [wanted: BOOLEAN, done: 0..MaxRepairs, failed: BOOLEAN]
    BY <1>1, <2>1
  <2>3. QED BY <1>1, <1>3, <1>15, <2>2 DEF Verified, Reverified, LoopPlace
<1>16. CASE Repaired
  <2>1. repair.done < MaxRepairs
    BY <1>1, <1>16 DEF Repaired, Loops
  <2>2. repair.done + 1 \in 0..MaxRepairs
    BY <1>2, <2>1
  <2>3. \/ repair' = [repair EXCEPT !.done = repair.done + 1]
        \/ repair' = [repair EXCEPT !.done = repair.done + 1, !.wanted = FALSE]
    BY <1>16 DEF Repaired
  <2>4. repair' \in [wanted: BOOLEAN, done: 0..MaxRepairs, failed: BOOLEAN]
    BY <1>1, <2>2, <2>3
  <2>5. QED BY <1>1, <1>3, <1>16, <2>4 DEF Repaired
<1>17. ASSUME NEW cost, RepairFails(cost) PROVE RestTypes'
  <2>1. repair' = [repair EXCEPT !.failed = TRUE]
    BY <1>17 DEF RepairFails
  <2>2. repair' \in [wanted: BOOLEAN, done: 0..MaxRepairs, failed: BOOLEAN]
    BY <1>1, <2>1
  <2>3. QED BY <1>1, <1>3, <1>17, <2>2 DEF RepairFails
<1>18. CASE StreamRefused \/ Begin \/ Merged \/ WallTimeout \/ Over \/ UNCHANGED vars
  BY <1>1, <1>3, <1>18 DEF StreamRefused, Begin, Merged, WallTimeout, Over
<1>19. QED
  BY <1>5, <1>6, <1>7, <1>8, <1>9, <1>10, <1>11, <1>13, <1>14, <1>15, <1>16, <1>17, <1>18
  DEF Next, RunStep, StageStep, ToolStep, ConductorStep

(* The types of all the state; those of draft, bill and trace rest on the  *)
(* lemmas above.                                                           *)
LEMMA KeepsTypes ==
  ASSUME IInv, [Next]_vars PROVE TypeOK'
<1>1. TypeOK
  BY DEF IInv
<1>2. preset' \in Presets
  BY <1>1, PresetFixed DEF TypeOK
<1>3. draft' \in Trace \cup {NoTrace} /\ billed' \in Nat
  BY KeepsDrafts, KeepsBilled
<1>4. trace' \in Trace \cup {NoTrace}
  BY <1>1, EndingSteps DEF TypeOK, Ending, Running, Saved, vars, stageVars
<1>5. own' \in Nat /\ (own' <= 1 \/ own' <= 2 * MaxRepairs)
  BY <1>1, PaysSteps DEF TypeOK, Pays
<1>6. QED BY <1>2, <1>3, <1>4, <1>5, KeepsRestTypes DEF TypeOK, RestTypes

-----------------------------------------------------------------------------
(* A run starts in the invariant. *)
LEMMA Starts == ASSUME Init PROVE IInv
<1>1. /\ pc = "open" /\ results = {} /\ judge = "none" /\ draft = NoTrace /\ failure = "none"
      /\ trace = NoTrace /\ client = "none" /\ chunks = 0 /\ billed = 0 /\ own = 0
      /\ proposing = {} /\ chosen = Nobody
      /\ repair = [wanted |-> FALSE, done |-> 0, failed |-> FALSE]
      /\ preset \in Presets /\ panel = [m \in Panelists |-> "idle"]
  BY DEF Init
<1>2. MaxRepairs \in Nat /\ MaxChunks \in Nat
  BY RepairsAssumption, ChunksAssumption
<1>3. TypeOK
  BY <1>1, <1>2 DEF TypeOK, Handler, Failures
<1>4. Answered = {} /\ Cardinality(Answered) = 0
  BY <1>1, FS_EmptySet DEF Answered
<1>5. Routes /\ Silent /\ PanelBehind /\ Loops
  BY <1>1 DEF Routes, Silent, PanelBehind, Loops, ToolPlaces, ConductorPlaces, Body,
    Handler, AfterPanel
<1>6. Billed
  BY <1>1, <1>4 DEF Billed, Paid, JudgeCost, InBody, Body
<1>7. Drafts /\ Traces
  BY <1>1 DEF Drafts, Traces
<1>8. QED BY <1>3, <1>5, <1>6, <1>7 DEF IInv

(* The inductive invariant of a run: at each place, what has been done,    *)
(* billed and recorded before it, whichever strategy runs and whatever     *)
(* fails.                                                                  *)
THEOREM Invariance == Spec => []IInv
<1>1. Init => IInv
  BY Starts
<1>2. IInv /\ [Next]_vars => IInv'
  BY KeepsTypes, KeepsRoutes, KeepsSilent, KeepsPanelBehind, KeepsLoops, KeepsBilled,
     KeepsDrafts, KeepsTraces
  DEF IInv
<1>3. QED BY <1>1, <1>2, PTL DEF Spec

(* The state of a run has the types that FusionRun gives it.               *)
THEOREM TypeCorrect == Spec => []TypeOK
<1>1. IInv => TypeOK
  BY DEF IInv
<1>2. QED BY <1>1, Invariance, PTL

(* run_panel: a classic run with a refused panelist never ends as an       *)
(* answer, nor as a generic failure of the panel.                          *)
THEOREM RefusalsSurface == Spec => []RefusalSurfaces
<1>1. IInv => RefusalSurfaces
  BY DEF IInv, PanelBehind, Good, RefusalSurfaces
<1>2. QED BY <1>1, Invariance, PTL

(* No strategy answers before its panel is through or without its quorum.  *)
THEOREM AnswersHaveQuorum == Spec => []QuorumBehindAnswer
<1>1. IInv => QuorumBehindAnswer
  BY DEF IInv, PanelBehind, Good, QuorumBehindAnswer
<1>2. QED BY <1>1, Invariance, PTL

(* An answer that is to be stored has its trace when the client gets it,   *)
(* marked degraded if it is not the whole work of a sound run.             *)
THEOREM AnswersAreTraced == Spec => []AnswerIsTraced
<1>1. IInv => AnswerIsTraced
  BY NoTraceAssumption DEF IInv, Traces, AnswerTrace, AnswerIsTraced
<1>2. QED BY <1>1, Invariance, PTL

(* The error of a classic run that has a status of its own has its trace.  *)
THEOREM ErrorsAreTraced == Spec => []ErrorIsTraced
<1>1. IInv => ErrorIsTraced
  BY NoTraceAssumption DEF IInv, Traces, ErrorTrace, ErrorIsTraced
<1>2. QED BY <1>1, Invariance, PTL

(* A trace costs no more than was billed, and one that is not degraded is  *)
(* that of a sound run with its quorum.                                    *)
THEOREM TracesAreHonest == Spec => []TraceIsHonest
<1>1. ASSUME IInv, trace # NoTrace PROVE trace.cost <= billed
  BY <1>1 DEF IInv, Billed
<1>2. ASSUME IInv, trace # NoTrace, ~trace.degraded
      PROVE  /\ failure = "none"
             /\ Strategy = "B" => judge = "sound"
             /\ Strategy # "_tool_step" => Quorum
  BY <1>2 DEF IInv, Traces, AnswerTrace, ErrorTrace, BodyTrace, Good
<1>3. IInv => TraceIsHonest
  BY <1>1, <1>2 DEF TraceIsHonest
<1>4. QED BY <1>3, Invariance, PTL

(* The tool calls returned to a client are those of a panelist that has    *)
(* proposed some, whatever index the judge names.                          *)
THEOREM ToolCallsAreProposed == Spec => []ToolCallsExist
<1>1. ASSUME IInv, client = "answered", trace # NoTrace, trace.answer = "tool"
      PROVE  chosen \in proposing \cap Answered
  BY <1>1 DEF IInv, TypeOK, Traces, AnswerTrace
<1>2. IInv => ToolCallsExist
  BY <1>1 DEF ToolCallsExist
<1>3. QED BY <1>2, Invariance, PTL

(* A merge that skipped a repair the verifier wanted is marked degraded.   *)
THEOREM SkippedRepairsAreShown == Spec => []SkippedRepairsShow
<1>1. IInv => SkippedRepairsShow
  BY DEF IInv, Traces, AnswerTrace, ErrorTrace, BodyTrace, SkippedRepairsShow
<1>2. QED BY <1>1, Invariance, PTL
=============================================================================
