------------------------------- MODULE MCGuard -------------------------------
(* Guarded returns for TLC.                                                *)
EXTENDS Guard

Return(truth, wires) ==
  [cond_width |-> Len(truth), out_num |-> wires,
   ground_truth |-> [c \in 0 .. (Len(truth) - 1) |-> truth[c + 1]]]

(* One predicate and two wires; two predicates, the second one of an else  *)
(* branch, and one wire.                                                   *)
Narrow == {Return(<<TRUE>>, 2), Return(<<TRUE, FALSE>>, 1)}

(* Two predicates and two wires.                                           *)
Wide == {Return(<<TRUE, TRUE>>, 2)}
=============================================================================
