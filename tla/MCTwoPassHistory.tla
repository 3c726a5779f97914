-------------------------- MODULE MCTwoPassHistory --------------------------
(* The programs of MCTwoPass, with the history of their first pass.        *)
EXTENDS MCTwoPass, TwoPassHistory
=============================================================================
