-------------------------- MODULE MCDurableIndex ----------------------------
(* A small instance of DurableIndex: the segment that is captured later    *)
(* comes before the first one in key order.                                *)
EXTENDS DurableIndex

SecondOnly == {2}

(* While the index command prepares, the others upload two databases only. *)
Bound ==
  At("command", "idle") \/ Publishing("command") \/ Len(databases) < MaxUploads
=============================================================================
