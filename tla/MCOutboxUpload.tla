--------------------------- MODULE MCOutboxUpload ---------------------------
(* One file holds nothing acceptable at first: an observation that never   *)
(* is, and one captured while the clock of the browser was ahead.  The     *)
(* other can be accepted in part at any time.  The file of the retries     *)
(* holds all three.                                                        *)
EXTENDS OutboxUpload

ok == [id |-> "p", time |-> 0]
bad == [id |-> "bad", time |-> 0]
ahead == [id |-> "q", time |-> 3]  \* captured while the clock was ahead

MCTweets == {ok, bad, ahead}
MCInvalid == {bad}
MCFiles ==
  {[name |-> <<1, 1>>, content |-> <<bad, ahead>>],
   [name |-> <<2, 2>>, content |-> <<ok, bad>>]}
RetryFiles == {[name |-> <<1, 1>>, content |-> <<ok, bad, ahead>>]}
=============================================================================
