----------------------------- MODULE MCCapture -----------------------------
(* A post with a photo and one that fits no request; then the article of the *)
(* first and a third post. Two tweets do not fit into one request.           *)
EXTENDS Capture

Tweet(post, photo, size) == [post |-> post, article |-> FALSE, photo |-> photo, size |-> size]
Article(post) == [post |-> post, article |-> TRUE, photo |-> FALSE, size |-> 1]

TwoResponses ==
  <<<<Tweet("a", TRUE, 1), Tweet("huge", FALSE, 2)>>,
    <<Article("a"), Tweet("b", FALSE, 1)>>>>
=============================================================================
