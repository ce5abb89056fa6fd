------------------------------ MODULE MCBudget ------------------------------
(* Instance of Budget for TLC: bodies with and without the category list,  *)
(* and one with the wage alone.                                            *)
EXTENDS Budget

MCPatches ==
    {[f \in {"monthlyBudget"} |-> 1],
     [f \in {"monthlyBudget", "categoryBudgets"} |-> 2],
     [f \in {"categoryBudgets"} |-> 1],
     [f \in {"hourlyWage"} |-> 1]}
=============================================================================
