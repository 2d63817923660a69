------------------------------- MODULE Routing -------------------------------
(***************************************************************************)
(* How a goal becomes a route: the adaptor that turns the goal topics of   *)
(* rviz into API calls (ad_api_adaptors/src/routing_adaptor.cpp), the      *)
(* routing node of the API that forwards them (default_ad_api/src/         *)
(* routing.cpp with the relay of component_interface_utils) and the        *)
(* mission planner with its arrival checker.                               *)
(*                                                                         *)
(* The API node runs in a multi-threaded container.  Its callbacks are in  *)
(* two mutually exclusive groups: the node's default group holds the       *)
(* subscriptions, the clear service and the clients of the relayed calls;  *)
(* the other, group_cli_, holds the relayed services and the client of the *)
(* clear call.  A handler waits for the planner's answer inside its own    *)
(* group, and the answer is only taken when the client's group is free.    *)
(*                                                                         *)
(* Goals are numbered in the order they are given.  A route and its uuid   *)
(* are one number.  State reports travel over two topics of depth 3.       *)
(***************************************************************************)
EXTENDS Naturals, Sequences

CONSTANTS
  MaxGoals,     \* bound: goals given by the user
  MaxWaypoints, \* bound: waypoints added to one goal
  MaxReroutes,  \* bound: reroute requests of the user
  MaxRoutes     \* bound: routes the planner makes

ASSUME RoutingAssumption ==
  /\ {MaxGoals, MaxRoutes} \subseteq Nat \ {0}
  /\ {MaxWaypoints, MaxReroutes} \subseteq Nat

VARIABLES
  adaptor,  \* goal, waypoints, request_timing_control_ and state_ of the adaptor
  call,     \* the adaptor's call in progress: operation, request, how far it is
  reroutes, \* calls of change_route_points: sent, handled, the one being handled
  api,      \* is_auto_mode of the routing node and its STOP request under way
  planner,  \* odometry_ known, state_, the last route, the goal of the checker;
            \* history: the request served last, and what became of it
  reports,  \* route states under way: planner to API node, API node to adaptor
  mode      \* operation mode of the vehicle: "stop" or "auto" (external)

vars == <<adaptor, call, reroutes, api, planner, reports, mode>>

RouteStates == {"unset", "set", "arrived"}
NoRequest == [goal |-> 0, waypoints |-> 0]
NoCall == [op |-> "none", request |-> NoRequest, at |-> "none"]
NoGoal == [uuid |-> 0, from |-> 0]

\* What becomes of a request for a route: nothing yet, refused because there is a
\* route, refused because the planner is not ready or finds no route, or planned.
Outcomes == {"none", "route_exists", "not_planned", "planned"}

\* A topic of depth 3 keeps the last three reports.
Published(queue, state) ==
  LET all == Append(queue, state) IN
  IF Len(all) > 3 THEN Tail(all) ELSE all

Init ==
  /\ adaptor = [goal |-> 0, waypoints |-> 0, control |-> 0, state |-> "unknown"]
  /\ call = NoCall
  /\ reroutes = [sent |-> 0, handled |-> 0, handling |-> "none"]
  /\ api = [auto |-> FALSE, stopping |-> FALSE]
  /\ planner = [ready |-> FALSE, state |-> "unset", routes |-> 0, goal |-> NoGoal,
                served |-> NoRequest, outcome |-> "none"]
  /\ reports = [planner |-> <<"unset">>, api |-> <<>>]
  /\ mode = "stop"

-----------------------------------------------------------------------------
(* The adaptor.                                                            *)

Request == [goal |-> adaptor.goal, waypoints |-> adaptor.waypoints]

\* on_fixed_goal and on_rough_goal: a goal starts a new request.
OnGoal ==
  /\ adaptor.goal < MaxGoals
  /\ adaptor' = [adaptor EXCEPT !.goal = @ + 1, !.waypoints = 0, !.control = 1]
  /\ UNCHANGED <<call, reroutes, api, planner, reports, mode>>

\* on_waypoint: refused before the first goal, whose frame it must share.
OnWaypoint ==
  /\ adaptor.goal > 0 /\ adaptor.waypoints < MaxWaypoints
  /\ adaptor' = [adaptor EXCEPT !.waypoints = @ + 1, !.control = 1]
  /\ UNCHANGED <<call, reroutes, api, planner, reports, mode>>

\* on_reroute: sent at once, whatever call is in progress.
OnReroute ==
  /\ reroutes.sent < MaxReroutes
  /\ reroutes' = [reroutes EXCEPT !.sent = @ + 1]
  /\ UNCHANGED <<adaptor, call, api, planner, reports, mode>>

Merged(control) == IF control \in 1 .. 2 THEN control + 1 ELSE control

\* Faulty variant: the request is forgotten when the clear call is sent.
SendForgetting(control) ==
  /\ call.at = "none"
  /\ call' = [op |-> IF adaptor.state = "unset" THEN "set" ELSE "clear",
              request |-> Request, at |-> "sent"]
  /\ adaptor' = [adaptor EXCEPT !.control = 0]

\* The request is sent once the earlier call is answered: the clear call first,
\* as long as a route is reported, and the request itself after that.
Send(control) ==
  /\ call.at = "none"
  /\ IF adaptor.state = "unset"
     THEN /\ call' = [op |-> "set", request |-> Request, at |-> "sent"]
          /\ adaptor' = [adaptor EXCEPT !.control = 0]
     ELSE /\ call' = [op |-> "clear", request |-> NoRequest, at |-> "sent"]
          /\ adaptor' = [adaptor EXCEPT !.control = control]

OnTimer ==
  /\ adaptor.control > 0
  /\ LET control == Merged(adaptor.control) IN
     \/ /\ control = 3 /\ Send(control)
     \/ /\ control < 3 \/ call.at # "none"
        /\ adaptor' = [adaptor EXCEPT !.control = control]
        /\ UNCHANGED call
  /\ UNCHANGED <<reroutes, api, planner, reports, mode>>

\* Any answer ends the call: a refusal is not looked at.
OnAnswer ==
  /\ call.at = "answered"
  /\ call' = NoCall
  /\ UNCHANGED <<adaptor, reroutes, api, planner, reports, mode>>

AdaptorHearsState ==
  /\ reports.api # <<>>
  /\ adaptor' = [adaptor EXCEPT !.state = Head(reports.api)]
  /\ reports' = [reports EXCEPT !.api = Tail(@)]
  /\ UNCHANGED <<call, reroutes, api, planner, mode>>

-----------------------------------------------------------------------------
(* The routing node of the API.                                            *)

InHandler == {"forwarded", "served"}

DefaultGroupBusy == call.op = "clear" /\ call.at \in InHandler
ClientGroupBusy == \/ call.op = "set" /\ call.at \in InHandler
                   \/ reroutes.handling \in InHandler

\* Both groups wait for an answer that only the other one could take.
GroupsWait == DefaultGroupBusy /\ ClientGroupBusy

\* Faulty variant: the STOP is requested when the vehicle is not driving.
ChangeStopModeInverted == api' = [api EXCEPT !.stopping = @ \/ ~api.auto]

\* change_stop_mode: asynchronous, its answer is not awaited.
ChangeStopMode == api' = [api EXCEPT !.stopping = @ \/ api.auto]

OnClearRoute ==
  /\ call.op = "clear" /\ call.at = "sent"
  /\ ~DefaultGroupBusy
  /\ ChangeStopMode
  /\ call' = [call EXCEPT !.at = "forwarded"]
  /\ UNCHANGED <<adaptor, reroutes, planner, reports, mode>>

\* The relayed services only forward the request and wait.
RelaySetRoutePoints ==
  /\ call.op = "set" /\ call.at = "sent"
  /\ ~ClientGroupBusy
  /\ call' = [call EXCEPT !.at = "forwarded"]
  /\ UNCHANGED <<adaptor, reroutes, api, planner, reports, mode>>

RelayChangeRoutePoints ==
  /\ reroutes.handled < reroutes.sent
  /\ ~ClientGroupBusy
  /\ reroutes' = [reroutes EXCEPT !.handled = @ + 1, !.handling = "forwarded"]
  /\ UNCHANGED <<adaptor, call, api, planner, reports, mode>>

\* The planner's answer is taken in the group of the client, which must be free;
\* the handler then answers its own caller.
TakeAnswerOfCall ==
  /\ call.at = "served"
  /\ IF call.op = "clear" THEN ~ClientGroupBusy ELSE ~DefaultGroupBusy
  /\ call' = [call EXCEPT !.at = "answered"]
  /\ UNCHANGED <<adaptor, reroutes, api, planner, reports, mode>>

\* The adaptor does not look at this answer.
TakeAnswerOfReroute ==
  /\ reroutes.handling = "served"
  /\ ~DefaultGroupBusy
  /\ reroutes' = [reroutes EXCEPT !.handling = "none"]
  /\ UNCHANGED <<adaptor, call, api, planner, reports, mode>>

OnState ==
  /\ reports.planner # <<>>
  /\ ~DefaultGroupBusy
  /\ LET state == Head(reports.planner) IN
     /\ reports' = [planner |-> Tail(reports.planner),
                    api |-> Published(reports.api, state)]
     /\ IF state = "arrived" THEN ChangeStopMode ELSE UNCHANGED api
  /\ UNCHANGED <<adaptor, call, reroutes, planner, mode>>

\* on_operation_mode.
OnOperationMode ==
  /\ api.auto # (mode = "auto")
  /\ ~DefaultGroupBusy
  /\ api' = [api EXCEPT !.auto = (mode = "auto")]
  /\ UNCHANGED <<adaptor, call, reroutes, planner, reports, mode>>

\* The operation mode as the routing node uses it: the user engages, and a STOP
\* request is always granted.
Engage ==
  /\ mode = "stop" /\ mode' = "auto"
  /\ UNCHANGED <<adaptor, call, reroutes, api, planner, reports>>

Stop ==
  /\ api.stopping /\ mode' = "stop"
  /\ api' = [api EXCEPT !.stopping = FALSE]
  /\ UNCHANGED <<adaptor, call, reroutes, planner, reports>>

-----------------------------------------------------------------------------
(* The mission planner.                                                    *)

ChangeState(state) ==
  reports' = [reports EXCEPT !.planner = Published(@, state)]

PlannerClearsRoute ==
  /\ call.op = "clear" /\ call.at = "forwarded"
  /\ planner' = [planner EXCEPT !.state = "unset", !.goal = NoGoal]
  /\ ChangeState("unset")
  /\ call' = [call EXCEPT !.at = "served"]
  /\ UNCHANGED <<adaptor, reroutes, api, mode>>

\* change_route(route): a new uuid, and the goal of the route in the checker.
ChangeRoute(p) ==
  LET uuid == p.routes + 1 IN
  [p EXCEPT !.state = "set", !.routes = uuid, !.goal = [uuid |-> uuid, from |-> uuid]]

\* on_set_route_points: refused while there is a route; without one the planner may
\* not be ready, or find no route.
PlannerSetsRoute ==
  /\ call.op = "set" /\ call.at = "forwarded"
  /\ call' = [call EXCEPT !.at = "served"]
  /\ \/ /\ planner.state # "unset"
        /\ planner' = [planner EXCEPT !.served = call.request, !.outcome = "route_exists"]
        /\ UNCHANGED reports
     \/ /\ planner.state = "unset"
        /\ planner' = [planner EXCEPT !.served = call.request, !.outcome = "not_planned"]
        /\ UNCHANGED reports
     \/ /\ planner.state = "unset" /\ planner.ready /\ planner.routes < MaxRoutes
        /\ planner' = [ChangeRoute(planner) EXCEPT !.served = call.request,
                                                   !.outcome = "planned"]
        /\ ChangeState("set")
  /\ UNCHANGED <<adaptor, reroutes, api, mode>>

\* on_change_route_points does nothing yet.
PlannerChangesRoute ==
  /\ reroutes.handling = "forwarded"
  /\ reroutes' = [reroutes EXCEPT !.handling = "served"]
  /\ UNCHANGED <<adaptor, call, api, planner, reports, mode>>

\* on_odometry away from the goal only makes the planner ready.
OnFirstOdometry ==
  /\ ~planner.ready
  /\ planner' = [planner EXCEPT !.ready = TRUE]
  /\ UNCHANGED <<adaptor, call, reroutes, api, reports, mode>>

\* on_odometry at the goal, where the vehicle has stopped.
OnOdometryAtGoal ==
  /\ planner.ready /\ planner.state = "set" /\ planner.goal # NoGoal
  /\ planner' = [planner EXCEPT !.state = "arrived"]
  /\ ChangeState("arrived")
  /\ UNCHANGED <<adaptor, call, reroutes, api, mode>>

\* Faulty variant: any goal the checker has is replaced.
ModifyGoalOfAnyRoute(goal, uuid) ==
  IF goal = NoGoal THEN goal ELSE [uuid |-> goal.uuid, from |-> uuid]

\* modify_goal: no goal, or one of another route, is left as it is.
ModifyGoal(goal, uuid) ==
  IF goal = NoGoal \/ goal.uuid # uuid THEN goal ELSE [uuid |-> uuid, from |-> uuid]

\* The behavior planner moves the goal of the route it held when it sent the
\* message: any route up to the present one.
OnModifiedGoal ==
  /\ \E uuid \in 1 .. planner.routes :
       planner' = [planner EXCEPT !.goal = ModifyGoal(@, uuid)]
  /\ UNCHANGED <<adaptor, call, reroutes, api, reports, mode>>

-----------------------------------------------------------------------------
AdaptorStep == OnTimer \/ OnAnswer \/ AdaptorHearsState

ApiStep ==
  \/ OnClearRoute \/ RelaySetRoutePoints \/ RelayChangeRoutePoints
  \/ TakeAnswerOfCall \/ TakeAnswerOfReroute
  \/ OnState \/ OnOperationMode \/ Stop

PlannerStep ==
  \/ PlannerClearsRoute \/ PlannerSetsRoute \/ PlannerChangesRoute
  \/ OnFirstOdometry \/ OnOdometryAtGoal \/ OnModifiedGoal

User == OnGoal \/ OnWaypoint \/ OnReroute \/ Engage

Next == AdaptorStep \/ ApiStep \/ PlannerStep \/ User

Spec == Init /\ [][Next]_vars

\* Every callback that is ready runs in the end.  Those of the default group may
\* find it taken again and again by the clear service; the executor still takes
\* a subscription before a service when the group is free.
FairSpec ==
  /\ Spec
  /\ WF_vars(OnTimer) /\ WF_vars(OnAnswer) /\ WF_vars(AdaptorHearsState)
  /\ WF_vars(OnClearRoute) /\ WF_vars(RelaySetRoutePoints)
  /\ WF_vars(RelayChangeRoutePoints)
  /\ WF_vars(TakeAnswerOfCall) /\ WF_vars(TakeAnswerOfReroute)
  /\ SF_vars(OnState) /\ SF_vars(OnOperationMode) /\ WF_vars(Stop)
  /\ WF_vars(PlannerClearsRoute) /\ WF_vars(PlannerSetsRoute)
  /\ WF_vars(PlannerChangesRoute)

-----------------------------------------------------------------------------
(* Properties.                                                             *)

Requests == [goal : 0 .. MaxGoals, waypoints : 0 .. MaxWaypoints]

\* Types of the state, and the depth of the two topics.
TypeOK ==
  /\ adaptor \in [goal : 0 .. MaxGoals, waypoints : 0 .. MaxWaypoints,
                  control : 0 .. 3, state : RouteStates \cup {"unknown"}]
  /\ call \in [op : {"none", "clear", "set"}, request : Requests,
               at : {"none", "sent", "forwarded", "served", "answered"}]
  /\ reroutes \in [sent : 0 .. MaxReroutes, handled : 0 .. MaxReroutes,
                   handling : {"none"} \cup InHandler]
  /\ api \in [auto : BOOLEAN, stopping : BOOLEAN]
  /\ planner \in [ready : BOOLEAN, state : RouteStates, routes : 0 .. MaxRoutes,
                  goal : [uuid : 0 .. MaxRoutes, from : 0 .. MaxRoutes],
                  served : Requests, outcome : Outcomes]
  /\ reports \in [planner : Seq(RouteStates), api : Seq(RouteStates)]
  /\ Len(reports.planner) <= 3 /\ Len(reports.api) <= 3
  /\ mode \in {"stop", "auto"}

\* The arrival checker never compares the vehicle with the goal of a route that
\* was cleared or replaced, however late a modified goal of that route comes:
\* while there is a route its goal is that route's, and otherwise there is none
\* (change_route and modify_goal).
ArrivalGoalBelongsToRoute ==
  planner.goal = IF planner.state = "unset" THEN NoGoal
                 ELSE [uuid |-> planner.routes, from |-> planner.routes]

\* Goals and waypoints may come while an earlier request is cleared or planned:
\* once the user stops changing them the planner serves exactly the last goal with
\* its waypoints (on_timer), unless the two callback groups of the routing node
\* wait for each other.  That the last request is not refused for a route that was
\* not cleared is a premise; an earlier refusal does no harm.  It happens: the adaptor
\* decides with the state it has heard last, which may be the one before the answer
\* to its own call, looks at no answer, and the goal is lost.
LatestRequestReachesPlanner ==
  (/\ <>[][~(OnGoal \/ OnWaypoint)]_vars
   /\ []~GroupsWait
   /\ <>[](planner.outcome # "route_exists"))
    => <>[](planner.served = Request)

\* An arrival that is reported while the routing node knows that the vehicle
\* drives in AUTONOMOUS stops it (on_state), whatever calls are being relayed and
\* however the reports of the route and of the mode interleave, unless the
\* callback groups of the node wait for each other or the route is cleared first.
ArrivalStopsDriving ==
  []~GroupsWait =>
    ((planner.state = "arrived" /\ reports.planner # <<>> /\ api.auto)
       ~> (mode = "stop" \/ planner.state # "arrived"))

\* The separate callback group is there to avoid deadlocks
\* (component_interface_utils, README.md:100): a relayed call that is being
\* handled returns.
RelayedCallReturns == (reroutes.handling # "none") ~> (reroutes.handling = "none")
=============================================================================
