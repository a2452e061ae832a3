------------------------------ MODULE MCOperator ------------------------------
(* Instances of Operator: the processes are interchangeable. *)
EXTENDS Operator, TLC

CONSTANTS p1, p2, raise

Symmetry == Permutations({p1, p2})
=============================================================================
