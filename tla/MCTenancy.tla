------------------------------ MODULE MCTenancy ------------------------------
(* Instances of Tenancy for model checking.                                *)
EXTENDS Tenancy, TLC

\* IDs are interchangeable; keys are not, since one of them is the first.
IDSymmetry == Permutations(RowIDs)
=============================================================================
