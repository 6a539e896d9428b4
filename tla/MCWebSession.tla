--------------------------- MODULE MCWebSession ---------------------------
(* WebSession with the bounds of its cfg. *)
EXTENDS WebSession
=============================================================================
