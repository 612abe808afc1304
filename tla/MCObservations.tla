--------------------------- MODULE MCObservations ---------------------------
(* Three posts, and room for two samples.  The first post changes its text *)
(* and its metrics, and is captured in three intervals of two time units.  *)
EXTENDS Observations

P(content, metrics, time) ==
  [id |-> "p", content |-> content, metrics |-> metrics, time |-> time]
R(time) == [id |-> "r", content |-> "a", metrics |-> 0, time |-> time]
Q(time) == [id |-> "q", content |-> "a", metrics |-> 0, time |-> time]

MCTweets ==
  {P("a", 0, 0), P("a", 1, 1), P("a", 1, 2), P("b", 1, 3), P("a", 0, 5), Q(1), Q(4), R(2)}

(* Every response with one tweet, some with two, one of them a repetition. *)
MCPayloads ==
  {<<t>> : t \in MCTweets} \union
  {<<P("a", 0, 0), Q(1)>>, <<P("a", 1, 2), P("b", 1, 3)>>, <<Q(4), Q(4)>>}
=============================================================================
