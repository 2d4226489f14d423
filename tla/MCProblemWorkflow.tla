------------------------- MODULE MCProblemWorkflow -------------------------
(* Model checking of ProblemWorkflow: the slots are interchangeable, which  *)
(* is sound as no property of the run that uses it is a liveness property.  *)
EXTENDS ProblemWorkflow, TLC

SlotSymmetry == Permutations(Slots)
=============================================================================
