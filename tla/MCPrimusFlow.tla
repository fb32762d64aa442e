------------------------------ MODULE MCPrimusFlow ------------------------------
(***************************************************************************)
(* PrimusFlow for TLC: submissions are interchangeable.                    *)
(***************************************************************************)
EXTENDS PrimusFlow, TLC

Symmetry == Permutations(Sub)
=============================================================================
