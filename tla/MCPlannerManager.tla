-------------------------- MODULE MCPlannerManager --------------------------
(***************************************************************************)
(* A small instance of PlannerManager: the modules of the shipped          *)
(* scene_module_manager.param.yaml that may be approved together, and one  *)
(* that must be executed alone, with the shipped priorities.               *)
(***************************************************************************)
EXTENDS PlannerManager

MCPriority ==
    [side_shift |-> 2, avoidance |-> 4, lane_change_left |-> 5, lane_change_right |-> 5]
=============================================================================
