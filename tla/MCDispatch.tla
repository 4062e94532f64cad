------------------------------ MODULE MCDispatch ------------------------------
(* Dispatch for TLC: the tasks that serve connections are interchangeable. *)
EXTENDS Dispatch, TLC

Symmetry == Permutations(Workers)
=============================================================================
