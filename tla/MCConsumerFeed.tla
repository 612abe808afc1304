--------------------------- MODULE MCConsumerFeed ---------------------------
(* A small instance of ConsumerFeed. *)
EXTENDS ConsumerFeed

Post(p, u, text, open, late) ==
  [kind |-> "post", post |-> p, unit |-> u, text |-> text, open |-> open, late |-> late]

(* Post 1 is edited into another unit, restricted by a new or by a late    *)
(* capture, and opened again; post 2 joins and leaves nothing.             *)
SomeWrites ==
  {Post(1, 1, 1, TRUE, FALSE), Post(1, 2, 2, TRUE, FALSE), Post(1, 1, 1, FALSE, FALSE),
   Post(1, 1, 1, FALSE, TRUE), Post(2, 2, 1, TRUE, FALSE), Post(2, 2, 1, FALSE, FALSE)}
    \union {[kind |-> "result", unit |-> u] : u \in Units}
    \union {[kind |-> "registry", approved |-> b] : b \in BOOLEAN}

Seen(p, u, at) ==
  [kind |-> "post", post |-> p, unit |-> u, content |-> [text |-> 1, open |-> TRUE], at |-> at]

TwoUnits ==
  <<Seen(1, 1, 0), Seen(2, 2, 1)>>
    \o [u \in 1..2 |-> [kind |-> "result", unit |-> u,
                        covers |-> [p \in {u} |-> [text |-> 1, open |-> TRUE]]]]
=============================================================================
