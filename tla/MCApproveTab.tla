--------------------------- MODULE MCApproveTab ---------------------------
(* Small instances of ApproveTab. *)
EXTENDS ApproveTab, TLC

CONSTANTS r1, r2, c1

MCRequests == {r1, r2}
MCColumns == {c1}
MCHits == c1 :> {r1}
=============================================================================
