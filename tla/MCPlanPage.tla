----------------------------- MODULE MCPlanPage -----------------------------
(* A son's plan, in a browser where somebody else may connect as well.     *)
EXTENDS PlanPage

CONSTANTS son, guest, f1, t1
=============================================================================
