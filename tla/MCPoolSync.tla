----------------------------- MODULE MCPoolSync -----------------------------
EXTENDS PoolSync, Sampling

(* Post p is captured twice with different texts; a response can come      *)
(* twice.  The line of "big" never fits a batch.                           *)
p0 == [id |-> "p", content |-> "a", metrics |-> 0, time |-> 0]
pb == [id |-> "p", content |-> "b", metrics |-> 0, time |-> 1]
q0 == [id |-> "q", content |-> "a", metrics |-> 0, time |-> 0]
big == [id |-> "r", content |-> "a", metrics |-> 0, time |-> 0]

MCTweets == {p0, pb, q0, big}
MCPayloads == {<<p0, q0>>, <<big, pb>>}
MCOversized == {big}

MCSampleStates ==
  UNION {[ids -> [time : {0, 1}, content : {"a", "b"}]] : ids \in SUBSET {"p", "q", "r"}}
=============================================================================
