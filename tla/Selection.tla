------------------------------- MODULE Selection -------------------------------
(***************************************************************************)
(* filter() of a list, written as a recursive function, about which more   *)
(* can be proved than about the folds SelectSeq stands for.                *)
(***************************************************************************)
EXTENDS Naturals, Sequences

\* list.filter(): those that are wanted, in their order.
Only(list, wanted) ==
  LET kept[n \in 0..Len(list)] ==
        IF n = 0 THEN <<>>
        ELSE IF list[n] \in wanted THEN Append(kept[n - 1], list[n]) ELSE kept[n - 1]
  IN  kept[Len(list)]
=============================================================================
