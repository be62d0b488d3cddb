--------------------------- MODULE MCRouterConfig ---------------------------
(***************************************************************************)
(* Small instances of RouterConfig for TLC.                                *)
(***************************************************************************)
EXTENDS RouterConfig, TLC

CONSTANTS p1, p2, p3, r1

\* Two policies of one sequence and a later one.
SplitThenLater == p1 :> 1 @@ p2 :> 1 @@ p3 :> 2
Single == p1 :> 1
=============================================================================
