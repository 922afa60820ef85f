----------------------------- MODULE MCWorkspace -----------------------------
(* Two workbooks of one worksheet each, or one workbook of two.            *)
EXTENDS Workspace, TLC

OneSheet == [d \in Inputs |-> d]
OneBook == [d \in Inputs |-> CHOOSE f \in Inputs : TRUE]
\* With one worksheet per workbook the collections are interchangeable too.
Symmetry == Permutations(Users) \cup Permutations(Inputs)
===============================================================================
