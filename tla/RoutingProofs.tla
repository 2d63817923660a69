---------------------------- MODULE RoutingProofs ----------------------------
(***************************************************************************)
(* For any number of goals, waypoints, routes and reroutes: the arrival    *)
(* checker holds the goal of the present route and no other, and callback  *)
(* groups of the routing node that wait for each other do so for ever.     *)
(***************************************************************************)
EXTENDS Routing, SequenceTheorems, TLAPS

LEMMA Bounds ==
  MaxGoals \in Nat /\ MaxRoutes \in Nat /\ MaxWaypoints \in Nat /\ MaxReroutes \in Nat
<1> QED
  BY RoutingAssumption

\* Publishing on a topic keeps its type and its depth.
LEMMA PublishedType ==
  ASSUME NEW queue \in Seq(RouteStates), Len(queue) <= 3, NEW state \in RouteStates
  PROVE  Published(queue, state) \in Seq(RouteStates) /\ Len(Published(queue, state)) <= 3
<1> DEFINE all == Append(queue, state)
<1>1. all \in Seq(RouteStates) /\ Len(all) = Len(queue) + 1 /\ Len(queue) \in Nat
  BY AppendProperties, LenProperties
<1>2. CASE Len(all) > 3
  <2>1. all # << >>
    BY <1>2, EmptySeq
  <2>2. Tail(all) \in Seq(RouteStates) /\ Len(Tail(all)) = Len(all) - 1
    BY <1>1, <2>1, HeadTailProperties
  <2> QED
    BY <1>1, <1>2, <2>2 DEF Published
<1>3. CASE ~(Len(all) > 3)
  BY <1>1, <1>3 DEF Published
<1> QED
  BY <1>2, <1>3

\* Taking a report from a topic does, too, and the report is a route state.
LEMMA TakenType ==
  ASSUME NEW queue \in Seq(RouteStates), Len(queue) <= 3, queue # << >>
  PROVE  /\ Head(queue) \in RouteStates
         /\ Tail(queue) \in Seq(RouteStates) /\ Len(Tail(queue)) <= 3
<1> QED
  BY HeadTailProperties, LenProperties

LEMMA TypeInit == Init => TypeOK
<1> SUFFICES ASSUME Init PROVE TypeOK
  OBVIOUS
<1>1. <<"unset">> \in Seq(RouteStates) /\ Len(<<"unset">>) = 1
  BY DEF RouteStates
<1>2. << >> \in Seq(RouteStates) /\ Len(<< >>) = 0
  BY EmptySeq
<1>3. reports \in [planner : Seq(RouteStates), api : Seq(RouteStates)]
  BY <1>1, <1>2 DEF Init
<1>4. Len(reports.planner) <= 3 /\ Len(reports.api) <= 3
  BY <1>1, <1>2 DEF Init
<1> QED
  BY <1>3, <1>4, Bounds
  DEF Init, TypeOK, NoCall, NoRequest, NoGoal, Requests, RouteStates, Outcomes

-----------------------------------------------------------------------------
LEMMA UserTypes == TypeOK /\ User => TypeOK'
<1> SUFFICES ASSUME TypeOK, User PROVE TypeOK'
  OBVIOUS
<1> USE Bounds DEF TypeOK
<1> DEFINE Adaptors == [goal : 0 .. MaxGoals, waypoints : 0 .. MaxWaypoints,
                       control : 0 .. 3, state : RouteStates \cup {"unknown"}]
<1>1. CASE OnGoal
  <2>1. adaptor.goal + 1 \in 0 .. MaxGoals
    BY <1>1 DEF OnGoal
  <2>2. 0 \in 0 .. MaxWaypoints /\ 1 \in 0 .. 3
    OBVIOUS
  <2>3. adaptor' = [goal |-> adaptor.goal + 1, waypoints |-> 0, control |-> 1,
                    state |-> adaptor.state]
    BY <1>1 DEF OnGoal
  <2>4. adaptor' \in Adaptors
    BY <2>1, <2>2, <2>3
  <2> QED
    BY <1>1, <2>4 DEF OnGoal
<1>2. CASE OnWaypoint
  <2>1. adaptor.waypoints + 1 \in 0 .. MaxWaypoints
    BY <1>2 DEF OnWaypoint
  <2>2. 1 \in 0 .. 3
    OBVIOUS
  <2>3. adaptor' = [goal |-> adaptor.goal, waypoints |-> adaptor.waypoints + 1,
                    control |-> 1, state |-> adaptor.state]
    BY <1>2 DEF OnWaypoint
  <2>4. adaptor' \in Adaptors
    BY <2>1, <2>2, <2>3
  <2> QED
    BY <1>2, <2>4 DEF OnWaypoint
<1>3. CASE OnReroute
  <2>1. reroutes.sent + 1 \in 0 .. MaxReroutes
    BY <1>3 DEF OnReroute
  <2> QED
    BY <1>3, <2>1 DEF OnReroute
<1>4. CASE Engage
  BY <1>4 DEF Engage
<1> QED
  BY <1>1, <1>2, <1>3, <1>4 DEF User

LEMMA AdaptorTypes == TypeOK /\ AdaptorStep => TypeOK'
<1> SUFFICES ASSUME TypeOK, AdaptorStep PROVE TypeOK'
  OBVIOUS
<1> USE Bounds DEF TypeOK
<1>1. CASE OnTimer
  <2>1. Merged(adaptor.control) \in 0 .. 3
    BY DEF Merged
  <2>2. Request \in Requests /\ NoRequest \in Requests
    BY DEF Request, NoRequest, Requests
  <2>3. call' \in [op : {"none", "clear", "set"}, request : Requests,
                   at : {"none", "sent", "forwarded", "served", "answered"}]
    BY <1>1, <2>2 DEF OnTimer, Send
  <2>4. adaptor' \in [goal : 0 .. MaxGoals, waypoints : 0 .. MaxWaypoints,
                      control : 0 .. 3, state : RouteStates \cup {"unknown"}]
    <3>1. PICK control \in 0 .. 3 : adaptor' = [adaptor EXCEPT !.control = control]
      BY <1>1, <2>1 DEF OnTimer, Send
    <3> QED
      BY <3>1
  <2> QED
    BY <1>1, <2>3, <2>4 DEF OnTimer
<1>2. CASE OnAnswer
  BY <1>2 DEF OnAnswer, NoCall, NoRequest, Requests
<1>3. CASE AdaptorHearsState
  <2>1. /\ Head(reports.api) \in RouteStates
        /\ Tail(reports.api) \in Seq(RouteStates) /\ Len(Tail(reports.api)) <= 3
    BY <1>3, TakenType DEF AdaptorHearsState
  <2> QED
    BY <1>3, <2>1 DEF AdaptorHearsState
<1> QED
  BY <1>1, <1>2, <1>3 DEF AdaptorStep

LEMMA ApiTypes == TypeOK /\ ApiStep => TypeOK'
<1> SUFFICES ASSUME TypeOK, ApiStep PROVE TypeOK'
  OBVIOUS
<1> USE Bounds DEF TypeOK, InHandler
<1>1. CASE OnClearRoute
  BY <1>1 DEF OnClearRoute, ChangeStopMode
<1>2. CASE RelaySetRoutePoints
  BY <1>2 DEF RelaySetRoutePoints
<1>3. CASE RelayChangeRoutePoints
  <2>1. reroutes.handled + 1 \in 0 .. MaxReroutes
    BY <1>3 DEF RelayChangeRoutePoints
  <2> QED
    BY <1>3, <2>1 DEF RelayChangeRoutePoints
<1>4. CASE TakeAnswerOfCall
  BY <1>4 DEF TakeAnswerOfCall
<1>5. CASE TakeAnswerOfReroute
  BY <1>5 DEF TakeAnswerOfReroute
<1>6. CASE OnState
  <2>1. /\ Head(reports.planner) \in RouteStates
        /\ Tail(reports.planner) \in Seq(RouteStates) /\ Len(Tail(reports.planner)) <= 3
    BY <1>6, TakenType DEF OnState
  <2>2. /\ Published(reports.api, Head(reports.planner)) \in Seq(RouteStates)
        /\ Len(Published(reports.api, Head(reports.planner))) <= 3
    BY <2>1, PublishedType
  <2>3. api' \in [auto : BOOLEAN, stopping : BOOLEAN]
    BY <1>6 DEF OnState, ChangeStopMode
  <2> QED
    BY <1>6, <2>1, <2>2, <2>3 DEF OnState
<1>7. CASE OnOperationMode
  BY <1>7 DEF OnOperationMode
<1>8. CASE Stop
  BY <1>8 DEF Stop
<1> QED
  BY <1>1, <1>2, <1>3, <1>4, <1>5, <1>6, <1>7, <1>8 DEF ApiStep

\* Any change of state the planner reports has the type of a report.
LEMMA ChangeStateType ==
  ASSUME TypeOK, NEW state \in RouteStates, ChangeState(state)
  PROVE  /\ reports' \in [planner : Seq(RouteStates), api : Seq(RouteStates)]
         /\ Len(reports.planner') <= 3 /\ Len(reports.api') <= 3
<1>1. /\ Published(reports.planner, state) \in Seq(RouteStates)
      /\ Len(Published(reports.planner, state)) <= 3
  BY PublishedType DEF TypeOK
<1> QED
  BY <1>1 DEF TypeOK, ChangeState

LEMMA PlannerTypes == TypeOK /\ PlannerStep => TypeOK'
<1> SUFFICES ASSUME TypeOK, PlannerStep PROVE TypeOK'
  OBVIOUS
<1>0. "unset" \in RouteStates /\ "set" \in RouteStates /\ "arrived" \in RouteStates
  BY DEF RouteStates
<1> USE Bounds
<1> DEFINE Planners == [ready : BOOLEAN, state : RouteStates, routes : 0 .. MaxRoutes,
                        goal : [uuid : 0 .. MaxRoutes, from : 0 .. MaxRoutes],
                        served : Requests, outcome : Outcomes]
           Calls == [op : {"none", "clear", "set"}, request : Requests,
                     at : {"none", "sent", "forwarded", "served", "answered"}]
           Reports == [planner : Seq(RouteStates), api : Seq(RouteStates)]
<1>1. CASE PlannerClearsRoute
  <2>1. /\ reports' \in Reports
        /\ Len(reports.planner') <= 3 /\ Len(reports.api') <= 3
    BY <1>0, <1>1, ChangeStateType DEF PlannerClearsRoute
  <2>2. planner' \in Planners
    <3>1. planner' = [planner EXCEPT !.state = "unset", !.goal = NoGoal]
      BY <1>1 DEF PlannerClearsRoute
    <3>2. NoGoal \in [uuid : 0 .. MaxRoutes, from : 0 .. MaxRoutes]
      BY DEF NoGoal
    <3>3. planner \in Planners
      BY DEF TypeOK
    <3> QED
      BY <1>0, <3>1, <3>2, <3>3
  <2>3. call' \in Calls
    BY <1>1 DEF PlannerClearsRoute, TypeOK
  <2> QED
    BY <1>1, <2>1, <2>2, <2>3 DEF PlannerClearsRoute, TypeOK
<1>2. CASE PlannerSetsRoute
  <2>1. call' \in Calls /\ call.request \in Requests
    BY <1>2 DEF PlannerSetsRoute, TypeOK
  <2>2. ASSUME UNCHANGED reports, NEW o \in Outcomes,
               planner' = [planner EXCEPT !.served = call.request, !.outcome = o]
        PROVE  TypeOK'
    <3>1. planner' \in Planners
      BY <2>1, <2>2 DEF TypeOK
    <3> QED
      BY <1>2, <2>1, <2>2, <3>1 DEF PlannerSetsRoute, TypeOK
  <2>3. CASE /\ ChangeState("set") /\ planner.routes < MaxRoutes
             /\ planner' = [ChangeRoute(planner) EXCEPT !.served = call.request,
                                                        !.outcome = "planned"]
    <3>1. /\ reports' \in Reports
          /\ Len(reports.planner') <= 3 /\ Len(reports.api') <= 3
      BY <1>0, <2>3, ChangeStateType
    <3>2. planner.routes + 1 \in 0 .. MaxRoutes
      BY <2>3 DEF TypeOK
    <3>3. ChangeRoute(planner) \in Planners
      BY <1>0, <3>2 DEF TypeOK, ChangeRoute
    <3>4. planner' \in Planners
      BY <2>1, <2>3, <3>3 DEF Outcomes
    <3> QED
      BY <1>2, <2>1, <3>1, <3>4 DEF PlannerSetsRoute, TypeOK
  <2>4. "route_exists" \in Outcomes /\ "not_planned" \in Outcomes
    BY DEF Outcomes
  <2> QED
    BY <1>2, <2>2, <2>3, <2>4 DEF PlannerSetsRoute
<1>3. CASE PlannerChangesRoute
  BY <1>3 DEF PlannerChangesRoute, TypeOK, InHandler
<1>4. CASE OnFirstOdometry
  BY <1>4 DEF OnFirstOdometry, TypeOK
<1>5. CASE OnOdometryAtGoal
  <2>1. /\ reports' \in [planner : Seq(RouteStates), api : Seq(RouteStates)]
        /\ Len(reports.planner') <= 3 /\ Len(reports.api') <= 3
    BY <1>0, <1>5, ChangeStateType DEF OnOdometryAtGoal
  <2> QED
    BY <1>0, <1>5, <2>1 DEF OnOdometryAtGoal, TypeOK
<1>6. CASE OnModifiedGoal
  <2>1. PICK uuid \in 1 .. planner.routes :
          planner' = [planner EXCEPT !.goal = ModifyGoal(@, uuid)]
    BY <1>6 DEF OnModifiedGoal
  <2>2. uuid \in 0 .. MaxRoutes
    BY DEF TypeOK
  <2>3. ModifyGoal(planner.goal, uuid) \in [uuid : 0 .. MaxRoutes, from : 0 .. MaxRoutes]
    BY <2>2 DEF ModifyGoal, TypeOK
  <2>4. planner \in Planners
    BY DEF TypeOK
  <2>5. planner' \in Planners
    BY <2>1, <2>3, <2>4
  <2> QED
    BY <1>6, <2>5 DEF OnModifiedGoal, TypeOK
<1> QED
  BY <1>1, <1>2, <1>3, <1>4, <1>5, <1>6 DEF PlannerStep

LEMMA TypeNext == TypeOK /\ [Next]_vars => TypeOK'
<1>1. TypeOK /\ UNCHANGED vars => TypeOK'
  BY DEF TypeOK, vars
<1> QED
  BY <1>1, UserTypes, AdaptorTypes, ApiTypes, PlannerTypes DEF Next

\* Every variable of the three nodes keeps its type, the topics their depth.
THEOREM TypeCorrect == Spec => []TypeOK
<1> QED
  BY TypeInit, TypeNext, PTL DEF Spec

-----------------------------------------------------------------------------
LEMMA GoalInit == Init => ArrivalGoalBelongsToRoute
<1> QED
  BY DEF Init, ArrivalGoalBelongsToRoute, NoGoal

LEMMA GoalNext ==
  TypeOK /\ ArrivalGoalBelongsToRoute /\ [Next]_vars => ArrivalGoalBelongsToRoute'
<1> SUFFICES ASSUME TypeOK, ArrivalGoalBelongsToRoute, [Next]_vars
             PROVE  ArrivalGoalBelongsToRoute'
  OBVIOUS
<1> USE DEF ArrivalGoalBelongsToRoute
<1>1. CASE PlannerClearsRoute
  BY <1>1 DEF PlannerClearsRoute, TypeOK
<1>2. CASE PlannerSetsRoute
  <2>1. CASE UNCHANGED <<planner.state, planner.routes, planner.goal>>
    BY <2>1
  <2>2. CASE planner' = [ChangeRoute(planner) EXCEPT !.served = call.request,
                                                     !.outcome = "planned"]
    <3> DEFINE uuid == planner.routes + 1
    <3>1. planner' = [planner EXCEPT !.state = "set", !.routes = uuid,
                        !.goal = [uuid |-> uuid, from |-> uuid], !.served = call.request,
                        !.outcome = "planned"]
      BY <2>2 DEF TypeOK, ChangeRoute
    <3> HIDE DEF uuid
    <3>2. /\ planner'.state = "set" /\ planner'.routes = uuid
          /\ planner'.goal = [uuid |-> uuid, from |-> uuid]
      BY <3>1 DEF TypeOK
    <3> QED
      BY <3>2
  <2> QED
    BY <1>2, <2>1, <2>2 DEF PlannerSetsRoute, TypeOK
<1>3. CASE OnFirstOdometry
  BY <1>3 DEF OnFirstOdometry, TypeOK
<1>4. CASE OnOdometryAtGoal
  BY <1>4 DEF OnOdometryAtGoal, TypeOK
<1>5. CASE OnModifiedGoal
  <2>1. PICK uuid \in 1 .. planner.routes :
          planner' = [planner EXCEPT !.goal = ModifyGoal(@, uuid)]
    BY <1>5 DEF OnModifiedGoal
  <2>2. ModifyGoal(planner.goal, uuid) = planner.goal
    BY DEF ModifyGoal, NoGoal
  <2> QED
    BY <2>1, <2>2 DEF TypeOK
<1>6. CASE UNCHANGED planner
  BY <1>6
<1> QED
  BY <1>1, <1>2, <1>3, <1>4, <1>5, <1>6
  DEF Next, AdaptorStep, ApiStep, PlannerStep, User, vars, PlannerChangesRoute,
      OnTimer, OnAnswer, AdaptorHearsState, OnClearRoute, RelaySetRoutePoints,
      RelayChangeRoutePoints, TakeAnswerOfCall, TakeAnswerOfReroute, OnState,
      OnOperationMode, Stop, OnGoal, OnWaypoint, OnReroute, Engage

\* A modified goal of another route never reaches the arrival check.
THEOREM ArrivalChecksPresentGoal == Spec => []ArrivalGoalBelongsToRoute
<1> QED
  BY TypeInit, TypeNext, GoalInit, GoalNext, PTL DEF Spec

-----------------------------------------------------------------------------
LEMMA WaitNext == TypeOK /\ GroupsWait /\ [Next]_vars => GroupsWait'
<1> SUFFICES ASSUME TypeOK, GroupsWait, [Next]_vars PROVE GroupsWait'
  OBVIOUS
<1>1. call.op = "clear" /\ call.at \in InHandler /\ reroutes.handling \in InHandler
  BY DEF GroupsWait, DefaultGroupBusy, ClientGroupBusy
<1>2. call.at # "none" /\ call.at # "sent" /\ call.at # "answered" /\ call.op # "set"
  BY <1>1 DEF InHandler
<1>3. CASE PlannerClearsRoute
  BY <1>1, <1>3 DEF PlannerClearsRoute, TypeOK, GroupsWait, DefaultGroupBusy,
                    ClientGroupBusy, InHandler
<1>4. CASE PlannerChangesRoute
  BY <1>1, <1>4 DEF PlannerChangesRoute, TypeOK, GroupsWait, DefaultGroupBusy,
                    ClientGroupBusy, InHandler
<1>5. CASE UNCHANGED call /\ reroutes'.handling = reroutes.handling
  BY <1>1, <1>5 DEF GroupsWait, DefaultGroupBusy, ClientGroupBusy
<1>6. ASSUME AdaptorStep PROVE UNCHANGED <<call, reroutes>>
  BY <1>2, <1>6 DEF AdaptorStep, OnTimer, Send, OnAnswer, AdaptorHearsState
<1>7. ASSUME User PROVE UNCHANGED call /\ reroutes'.handling = reroutes.handling
  BY <1>7 DEF User, OnGoal, OnWaypoint, OnReroute, Engage, TypeOK
<1>8. ASSUME ApiStep PROVE UNCHANGED <<call, reroutes>>
  BY <1>1, <1>2, <1>8
  DEF ApiStep, OnClearRoute, RelaySetRoutePoints, RelayChangeRoutePoints,
      TakeAnswerOfCall, TakeAnswerOfReroute, OnState, OnOperationMode, Stop,
      GroupsWait, DefaultGroupBusy, ClientGroupBusy
<1>9. ASSUME PlannerStep, ~PlannerClearsRoute, ~PlannerChangesRoute
      PROVE  UNCHANGED <<call, reroutes>>
  BY <1>2, <1>1, <1>9 DEF PlannerStep, PlannerSetsRoute, OnFirstOdometry,
                     OnOdometryAtGoal, OnModifiedGoal
<1> QED
  BY <1>3, <1>4, <1>5, <1>6, <1>7, <1>8, <1>9 DEF Next, vars

\* Once both callback groups of the routing node wait, no step of any node ends
\* it: neither handler has a timeout, and the answers stay where they are.
THEOREM GroupsWaitForEver == Spec => [][GroupsWait => GroupsWait']_vars
<1>1. TypeOK /\ [Next]_vars => (GroupsWait => GroupsWait')
  BY WaitNext
<1> QED
  BY <1>1, TypeInit, TypeNext, PTL DEF Spec
=============================================================================
