--------------------------- MODULE MCPoolDelivery ---------------------------
(* One response of up to three observations, one of them not acceptable    *)
(* for the raw Bucket.                                                     *)
EXTENDS PoolDelivery, Sampling

p0 == [id |-> "p", content |-> "a", metrics |-> 0, time |-> 0]
pb == [id |-> "p", content |-> "b", metrics |-> 0, time |-> 1]
bad == [id |-> "q", content |-> "a", metrics |-> 0, time |-> 0]

MCTweets == {p0, pb, bad}
OnePayload == {<<p0, bad, pb>>}
MCInvalid == {bad}

MCSampleStates ==
  UNION {[ids -> [time : {0, 1}, content : {"a", "b"}]] : ids \in SUBSET {"p", "q"}}
=============================================================================
