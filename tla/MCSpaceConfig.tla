--------------------------- MODULE MCSpaceConfig ---------------------------
(* A pool file and a registry that may each be readable or malformed, one    *)
(* user, one account and its keys.                                           *)
EXTENDS SpaceConfig

AdaAndBo == [members |-> {"bo"}, admins |-> {"ada"}, org |-> NoOrg]
OneAccount == [known |-> {"reader"}, active |-> {"reader"}, keys |-> {<<"reader", 0>>}]

ReadableOrNot ==
  {[pool |-> pool, accounts |-> OneAccount] : pool \in {AdaAndBo, Malformed}}
    \cup {[pool |-> AdaAndBo, accounts |-> Malformed]}
=============================================================================
