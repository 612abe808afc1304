---------------------------- MODULE BatchHandoff ----------------------------
(***************************************************************************)
(* What the hand-off promises, whatever happens to the worker: admitted    *)
(* observations reach the outbox in their order, in batches without gaps   *)
(* or overlaps, each batch once.  Only an observation that can never fit   *)
(* a batch is dropped instead, when it comes to the front.                 *)
(***************************************************************************)
EXTENDS Naturals, Sequences

CONSTANTS Tweets, Oversized, MaxBatch

VARIABLES pending,   \* admitted, not yet in the outbox
          delivered  \* the batches delivered so far

vars == <<pending, delivered>>

Init == pending = <<>> /\ delivered = <<>>

Admit ==
  /\ pending' \in Seq(Tweets)
  /\ Len(pending') > Len(pending)
  /\ SubSeq(pending', 1, Len(pending)) = pending
  /\ UNCHANGED delivered

Drop ==
  \E n \in 1 .. Len(pending) :
    /\ \A i \in 1 .. n : pending[i] \in Oversized
    /\ pending' = SubSeq(pending, n + 1, Len(pending))
    /\ UNCHANGED delivered

Deliver ==
  \E n \in 1 .. Len(pending) :
    /\ n <= MaxBatch
    /\ delivered' = Append(delivered, SubSeq(pending, 1, n))
    /\ pending' = SubSeq(pending, n + 1, Len(pending))

Next == Admit \/ Drop \/ Deliver

Spec == Init /\ [][Next]_vars
=============================================================================
