--------------------------- MODULE MCEnrichmentRun --------------------------
(* A small instance of EnrichmentRun.                                      *)
EXTENDS EnrichmentRun

FirstRun == {"u"}

Faults == kills + stops + deployed.revision

(* Posts arrive while calls are out and before a successor is planned; the *)
(* first run meets two faults, a later one the first of all.               *)
Bound ==
  /\ (raw' # raw /\ job' = job) => job.pc \in {"wave", "published"}
  /\ Faults' > Faults => Faults' <= IF Len(active) = 1 THEN 2 ELSE 1
=============================================================================
