------------------------------ MODULE Conductor ------------------------------
(***************************************************************************)
(* The strategy conductor (fusion/strategies/conductor.py): a plan,        *)
(* workers, a verifier, repairs while the verifier wants them, and a       *)
(* merge.  A worker that fails or is refused is left out; a repair that    *)
(* fails or is refused leaves the draft as it is; any other failure ends   *)
(* the run without a trace.                                                *)
(***************************************************************************)
EXTENDS FusionStages

(* A stream is refused before the run has a budget. *)
StreamRefused ==
  /\ Strategy = "conductor" /\ preset.stream
  /\ Goto({"open"}, "over")
  /\ client' = "invalid_request"
  /\ UNCHANGED <<preset, panel, results, judge, draft, failure, trace, chunks,
                 billed, strategyVars>>

Begin ==
  /\ Strategy = "conductor" /\ ~preset.stream
  /\ Goto({"open"}, "plan")
  /\ UNCHANGED <<preset, panel, results, judge, draft, failure, trace, client,
                 chunks, billed, strategyVars>>

(* call_stage adds up what the answers cost. *)
Planned ==
  /\ Goto({"plan"}, "panel")
  /\ CallPanel
  /\ own' = own + 1
  /\ billed' = billed + 1
  /\ UNCHANGED <<preset, results, judge, draft, failure, trace, client, chunks,
                 proposing, chosen, repair>>

(* The workers' quorum. *)
Worked ==
  /\ Strategy = "conductor"
  /\ pc = "panel" /\ Gathered
  /\ \/ ~Quorum /\ Fail({"panel"}, "insufficient_panel") /\ UNCHANGED results
     \/ /\ Quorum
        /\ Goto({"panel"}, "verify")
        /\ results' = Panelists
        /\ UNCHANGED <<draft, failure, client>>
  /\ UNCHANGED <<preset, panel, judge, trace, chunks, billed, strategyVars>>

(* Where the loop over the repairs goes with the state r. *)
LoopPlace(r) == IF r.wanted /\ r.done < MaxRepairs THEN "repair" ELSE "merge"

(* The analysis is the first verifier's; its cost is in the sum. *)
Verified(wanted) ==
  /\ Goto({"verify"}, LoopPlace([repair EXCEPT !.wanted = wanted]))
  /\ judge' = "sound"
  /\ repair' = [repair EXCEPT !.wanted = wanted]
  /\ billed' = billed + 1
  /\ UNCHANGED <<preset, panel, results, draft, failure, trace, client, chunks,
                 own, proposing, chosen>>

(* Mutant: the last repair is verified like the others. *)
RepairedAgain ==
  /\ Goto({"repair"}, "reverify")
  /\ repair' = [repair EXCEPT !.done = @ + 1]
  /\ own' = own + 1
  /\ billed' = billed + 1
  /\ UNCHANGED <<preset, panel, results, judge, draft, failure, trace, client,
                 chunks, proposing, chosen>>

(* The verifier looks at it again unless it was the last one allowed.      *)
Repaired ==
  /\ IF repair.done + 1 < MaxRepairs
     THEN /\ Goto({"repair"}, "reverify")
          /\ repair' = [repair EXCEPT !.done = @ + 1]
     ELSE /\ Goto({"repair"}, "merge")
          /\ repair' = [repair EXCEPT !.done = @ + 1, !.wanted = FALSE]
  /\ own' = own + 1
  /\ billed' = billed + 1
  /\ UNCHANGED <<preset, panel, results, judge, draft, failure, trace, client,
                 chunks, proposing, chosen>>

(* Mutant: a repair that fails is taken for one that was not needed. *)
RepairSkipped(cost) ==
  /\ Goto({"repair"}, "merge")
  /\ billed' = billed + cost
  /\ UNCHANGED <<preset, panel, results, judge, draft, failure, trace, client,
                 chunks, strategyVars>>

(* Any exception, a budget refusal included. *)
RepairFails(cost) ==
  /\ Goto({"repair"}, "merge")
  /\ repair' = [repair EXCEPT !.failed = TRUE]
  /\ billed' = billed + cost
  /\ UNCHANGED <<preset, panel, results, judge, draft, failure, trace, client,
                 chunks, own, proposing, chosen>>

Reverified(wanted) ==
  /\ Goto({"reverify"}, LoopPlace([repair EXCEPT !.wanted = wanted]))
  /\ repair' = [repair EXCEPT !.wanted = wanted]
  /\ own' = own + 1
  /\ billed' = billed + 1
  /\ UNCHANGED <<preset, panel, results, judge, draft, failure, trace, client,
                 chunks, proposing, chosen>>

Merged ==
  /\ Goto({"merge"}, "save")
  /\ draft' = Record("complete", Degraded, 1)
  /\ billed' = billed + 1
  /\ UNCHANGED <<preset, panel, results, judge, failure, trace, client, chunks,
                 strategyVars>>

(* A call outside panel and repairs raises, or the verifier's JSON is none *)
(* that JudgeAnalysis accepts.                                             *)
ConductorFails(kind, cost) ==
  /\ Fail({"plan", "verify", "reverify", "merge"}, kind)
  /\ billed' = billed + cost
  /\ UNCHANGED <<preset, panel, results, judge, trace, chunks, strategyVars>>

ConductorPlaces == {"plan", "verify", "repair", "reverify", "merge"}

ConductorStep ==
  \/ StreamRefused \/ Begin \/ Planned \/ Worked
  \/ \E wanted \in BOOLEAN : Verified(wanted) \/ Reverified(wanted)
  \/ Repaired
  \/ \E cost \in {0, 1} : RepairFails(cost) \/ ConductorFails("server_error", cost)
  \/ ConductorFails("budget_exceeded", 0)
  \/ Merged
=============================================================================
