-------------------------- MODULE MCScrapeReceipts --------------------------
(* A small instance of ScrapeReceipts. *)
EXTENDS ScrapeReceipts, TLC

BothPosts == {<<"x", "y">>}

(* Clients name cursors of the first response; a second response in a run, *)
(* and a cutover after leases have run out, are explored while no other    *)
(* run has begun.                                                          *)
OneRun == Cardinality({r \in Runs : runs[r].state # "none"}) = 1
Bound ==
  /\ \A p \in Ports : ports[p].from <= 2
  /\ OneRun \/ \A r \in Runs : runs[r].lastCursor <= 2
  /\ OneRun \/ (cutover => now = 0)

Symmetry == Permutations(Runs) \union Permutations(Tabs) \union Permutations(Lists)
=============================================================================
