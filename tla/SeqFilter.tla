----------------------------- MODULE SeqFilter ------------------------------
(***************************************************************************)
(* Iterator::filter and filter_map of the standard library, as utils.rs    *)
(* uses them: what is not in S is skipped, the rest keeps its order.       *)
(* A recursive function, and a set in the place of a predicate, so that    *)
(* theorems can be stated about it.                                        *)
(***************************************************************************)
EXTENDS Naturals, Sequences

Keep(s, S) ==
  LET kept[n \in 0..Len(s)] ==
        IF n = 0 THEN <<>>
        ELSE IF s[n] \in S THEN Append(kept[n - 1], s[n])
        ELSE kept[n - 1]
  IN  kept[Len(s)]
=============================================================================
