-------------------------------- MODULE Lists --------------------------------
(***************************************************************************)
(* A filter of sequences, as a fold: the proofs of the modules that use it *)
(* are by induction over the fold.                                         *)
(***************************************************************************)
EXTENDS Sequences, SequencesExt

\* The values of s that are in T, in their order.
Only(s, T) ==
    FoldLeft(LAMBDA kept, v : IF v \in T THEN Append(kept, v) ELSE kept, <<>>, s)
=============================================================================
