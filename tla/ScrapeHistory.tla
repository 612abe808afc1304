---------------------------- MODULE ScrapeHistory ----------------------------
(***************************************************************************)
(* ScrapeReceipts with a history variable, for what the documents say of a *)
(* run that was closed.                                                    *)
(***************************************************************************)
EXTENDS ScrapeReceipts

VARIABLE finished   \* the runs whose client was told scrape:finished

HistoryVars == <<vars, finished>>

HistoryInit == Init /\ finished = {}

FinishAnswered ==
  \E p \in Ports, r \in Runs, state \in {"aborted", "completed", "failed"} :
    /\ FinishRun(p, r, state)
    /\ finished' = finished \union {r}

(* Every other step, and an answer that did not reach its client. *)
OtherStep == Next /\ UNCHANGED finished

HistoryNext == FinishAnswered \/ OtherStep

HistorySpec == HistoryInit /\ [][HistoryNext]_HistoryVars

-----------------------------------------------------------------------------
(* A run that its client closed does not run again:                        *)
(* docs/2026-08-06-scrape-job-receipts-plan.md:53, "The scroller closes    *)
(* the xTap run with a terminal state."  finishRun keeps stopReason, so a  *)
(* run whose tab was closed stays one that beginRun recovers although its  *)
(* client closed it as aborted, and so does a run that lost its lease and  *)
(* that its client closed as failed.                                       *)
FinishedIsFinal == finished \intersect Running = {}
=============================================================================
