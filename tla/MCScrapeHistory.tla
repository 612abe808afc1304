-------------------------- MODULE MCScrapeHistory --------------------------
(* Small instances of ScrapeHistory. *)
EXTENDS ScrapeHistory

OnePost == {<<"x">>}
=============================================================================
