-------------------------- MODULE MCEnrichmentJobs --------------------------
(* Two updates, one run of doctor, and jobs that the Hub may start in pairs. *)
EXTENDS EnrichmentJobs

(* All three commands are explored while no request has failed.            *)
Bound == updates + doctors = MaxUpdates + MaxDoctors => failures = 0
=============================================================================
