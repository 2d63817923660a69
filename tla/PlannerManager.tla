--------------------------- MODULE PlannerManager ---------------------------
(***************************************************************************)
(* The planner manager of behavior_path_planner (planner_manager.cpp), with *)
(* the scene module managers and the approval logic of its scene modules.   *)
(*                                                                         *)
(* In every planning cycle the manager runs the modules approved so far,   *)
(* then launches or continues candidates; a candidate that no longer waits *)
(* for approval joins the approved ones and the loop starts again, in the  *)
(* same cycle, until nothing is left to launch or a candidate waits.       *)
(*                                                                         *)
(* A module manager reuses one instance and admits max_module_size = 1 of  *)
(* it (scene_module_manager.param.yaml), so that module, manager and name  *)
(* are the same thing here.  The run of a module is one step: commands of  *)
(* the operator are locked out of it (RtcInterface models that lock, here  *)
(* auto mode is off); between two runs the operator may answer at any time. *)
(* The plans a module registers are reduced to the one it would ask about; *)
(* what the planner finds in a cycle's data is chosen when it starts.      *)
(***************************************************************************)
EXTENDS Naturals, Sequences

CONSTANTS
    LaneChanges,        \* modules that wait for approval from their entry on
    Avoidances,         \* modules that ask for approval of every new shift line
    Others,             \* modules that need no approval (side shift)
    Priority,           \* priority of each: the smaller, the higher
    SimultaneousApproved,   \* enable_simultaneous_execution_as_approved_module
    SimultaneousCandidate,  \* enable_simultaneous_execution_as_candidate_module
    Demands             \* what a cycle's data may hold for an avoidance: "none"
                        \*   nothing to avoid, "kept" nothing new, "yield" no
                        \*   safe path, "ahead" a safe new shift line in front of
                        \*   the ego, "at_ego" one starting 1 to 10 mm behind it

Modules == LaneChanges \cup Avoidances \cup Others

ASSUME PlannerAssumption ==
    /\ Priority \in [Modules -> Nat]
    /\ {"none", "kept"} \subseteq Demands
    /\ Demands \subseteq {"none", "kept", "yield", "ahead", "at_ego"}

VARIABLES
    state,       \* current_state_ of each module
    waiting,     \* is_waiting_approval_ of each module
    launchLock,  \* is_locked_new_module_launch_ of each module
    rtc,         \* the status of the plan a module asks about: "none",
                 \*   "registered" or "activated"
    demand,      \* what this cycle's data hold for the modules that ask for no
                 \*   approval of their launch
    registered,  \* the modules in registered_modules_ of their manager
    approved,    \* approved_module_ptrs_
    candidates,  \* candidate_module_ptrs_, always sorted by priority
    executable,  \* executable_modules of runRequestModules, sorted by priority
    phase,       \* where the cycle is
    queue,       \* the modules it still has to run in this phase
    granted,     \* history: the modules activated since their entry
    leftBehind   \* history: the modules that left the approved ones, still
                 \*   registered, because one before them waits again

moduleVars == <<state, waiting, launchLock, rtc, demand>>
vars == <<moduleVars, registered, approved, candidates, executable, phase, queue, granted,
          leftBehind>>

Approved == {approved[i] : i \in DOMAIN approved}

TypeOK ==
    /\ state \in [Modules -> {"RUNNING", "SUCCESS", "FAILURE"}]
    /\ waiting \in [Modules -> BOOLEAN]
    /\ launchLock \in [Modules -> BOOLEAN]
    /\ rtc \in [Modules -> {"none", "registered", "activated"}]
    /\ demand \in [Avoidances \cup Others -> Demands]
    /\ registered \subseteq Modules /\ granted \subseteq Modules /\ leftBehind \subseteq Modules
    /\ approved \in Seq(Modules)
    /\ \A i, j \in DOMAIN approved : approved[i] = approved[j] => i = j
    /\ candidates \subseteq Modules /\ executable \subseteq Modules /\ queue \subseteq Modules
    /\ phase \in {"idle", "approved", "request", "candidates"}
    /\ \A m \in Modules \ registered : rtc[m] = "none" /\ state[m] = "SUCCESS"

Init ==
    /\ state = [m \in Modules |-> "SUCCESS"]
    /\ waiting = [m \in Modules |-> FALSE]
    /\ launchLock = [m \in Modules |-> FALSE]
    /\ rtc = [m \in Modules |-> "none"]
    /\ demand = [m \in Avoidances \cup Others |-> "none"]
    /\ registered = {}
    /\ approved = <<>>
    /\ candidates = {} /\ executable = {} /\ queue = {}
    /\ phase = "idle"
    /\ granted = {} /\ leftBehind = {}

-----------------------------------------------------------------------------
(* Scene modules. *)

\* deleteModules of the managers of the modules ms: onExit of each, which also
\* clears its statuses, and its removal from registered_modules_.
Exit(ms) ==
    /\ state' = [m \in Modules |-> IF m \in ms THEN "SUCCESS" ELSE state[m]]
    /\ waiting' = [m \in Modules |-> waiting[m] /\ m \notin ms]
    /\ launchLock' = [m \in Modules |-> launchLock[m] /\ m \notin ms]
    /\ rtc' = [m \in Modules |-> IF m \in ms THEN "none" ELSE rtc[m]]
    /\ registered' = registered \ ms
    /\ granted' = granted \ ms

\* isActivated, in run and in addShiftLineIfApproved.
IsActivated(m) == rtc[m] = "activated"

\* One run of a module yields one of a set of results.
Result(st, wait, lock, status, rest) ==
    [state |-> st, waiting |-> wait, launchLock |-> lock, rtc |-> status, demand |-> rest]

\* A lane change plans when it is approved and thereby stops waiting, unless its
\* path is not valid any more; an abort discards the status first.  While it
\* waits it registers the plan.
LaneChangeRuns(m, wait) ==
    LET ended == {"RUNNING", "SUCCESS", "FAILURE"}
        invalid == Result("FAILURE", wait, FALSE, rtc[m], "none")
    IN IF ~wait \/ IsActivated(m)
       THEN {invalid} \cup {Result(st, FALSE, FALSE, rtc[m], "none") : st \in ended}
                      \cup {Result(st, FALSE, FALSE, "none", "none") : st \in ended}
       ELSE {invalid} \cup {Result(st, TRUE, FALSE, "registered", "none") : st \in ended}

\* An avoidance whose data hold a safe new shift line adds it when activated, with
\* a new uuid for the next one, and waits otherwise; without one it stops waiting.
\* A yield cancels everything.  While it waits it registers the shift line and
\* keeps waiting, if that line starts less than 1 mm behind the ego.  It ends when
\* no target is left, which new shift lines and a yield do not exclude, and then
\* asks for no execution in the rest of the cycle.
AvoidanceRuns(m, wait) ==
    LET need == demand[m]
        ends == IF need = "none" THEN {"SUCCESS"} ELSE {"RUNNING", "SUCCESS"}
        Ran(w, lock, status, rest) ==
            {Result(st, w, lock, status, IF st = "SUCCESS" THEN "none" ELSE rest) : st \in ends}
    IN IF need = "yield" THEN Ran(FALSE, FALSE, "none", need)
       ELSE IF need \in {"none", "kept"}
            THEN Ran(FALSE, launchLock[m], IF wait THEN "none" ELSE rtc[m], need)
       ELSE IF IsActivated(m) THEN Ran(wait, TRUE, "none", "kept")
       ELSE IF ~wait THEN Ran(TRUE, launchLock[m], rtc[m], need)
       ELSE IF need = "ahead" THEN Ran(TRUE, launchLock[m], "registered", need)
       ELSE Ran(FALSE, launchLock[m], "none", need)

\* A side shift needs no approval.
OtherRuns(m, wait) ==
    {Result(IF demand[m] = "none" THEN "SUCCESS" ELSE "RUNNING", wait, FALSE, rtc[m], demand[m])}

Runs(m, wait) ==
    IF m \in LaneChanges THEN LaneChangeRuns(m, wait)
    ELSE IF m \in Avoidances THEN AvoidanceRuns(m, wait)
    ELSE OtherRuns(m, wait)

\* PlannerManager::run of one module that starts with the flag wait.
RunModule(m, wait) ==
    /\ \E r \in Runs(m, wait) :
        /\ state' = [state EXCEPT ![m] = r.state]
        /\ waiting' = [waiting EXCEPT ![m] = r.waiting]
        /\ launchLock' = [launchLock EXCEPT ![m] = r.launchLock]
        /\ rtc' = [rtc EXCEPT ![m] = r.rtc]
        /\ demand' = [a \in DOMAIN demand |-> IF a = m THEN r.demand ELSE demand[a]]
    /\ granted' = IF IsActivated(m) THEN granted \cup {m} ELSE granted

\* The operator answers a registered plan, or takes the answer back.
Answer(m) ==
    /\ rtc[m] # "none"
    /\ rtc' = [rtc EXCEPT ![m] = IF @ = "activated" THEN "registered" ELSE "activated"]
    /\ UNCHANGED <<state, waiting, launchLock, demand, registered, approved, candidates,
                   executable, phase, queue, granted, leftBehind>>

-----------------------------------------------------------------------------
(* PlannerManager::run. *)

\* A cycle begins: the data are new.
StartCycle ==
    /\ phase = "idle"
    /\ phase' = "approved"
    /\ queue' = Approved
    /\ \E new \in [Avoidances \cup Others -> Demands] :
        /\ \A m \in Others : new[m] \in {"none", "kept"}
        /\ demand' = new
    /\ UNCHANGED <<state, waiting, launchLock, rtc, registered, approved, candidates,
                   executable, granted, leftBehind>>

\* reset, before a cycle: a new route has arrived, or the vehicle is driven by
\* hand in another lane and nothing is approved or under way.
Reset ==
    /\ phase = "idle"
    /\ Exit(Modules)
    /\ approved' = <<>> /\ candidates' = {} /\ leftBehind' = {}
    /\ UNCHANGED <<demand, executable, phase, queue>>

\* runApprovedModules, its loop over the approved modules in their order.
RunApproved ==
    /\ phase = "approved"
    /\ \E i \in DOMAIN approved :
        /\ approved[i] \in queue
        /\ \A j \in 1 .. i - 1 : approved[j] \notin queue
        /\ RunModule(approved[i], waiting[approved[i]])
        /\ queue' = queue \ {approved[i]}
    /\ UNCHANGED <<registered, approved, candidates, executable, phase, leftBehind>>

Failed(m) == state[m] = "FAILURE"
IsWaiting(m) == waiting[m]

\* Of the first max approved modules, n come before the first one that satisfies Stop.
StopsAt(n, max, Stop(_)) ==
    /\ \A i \in 1 .. n : ~Stop(approved[i])
    /\ n < max => Stop(approved[n + 1])

\* Faulty variant: a waiting module stays approved.
KeptBeforeWaitingNone(n) == n = Len(approved)

\* How many stay approved when a module waits again: those before it.
KeptBeforeWaiting(n) == StopsAt(n, Len(approved), IsWaiting)

\* Of the first max approved modules, those after the n-th have succeeded.
Succeeded(n, max) ==
    /\ \A i \in n + 1 .. max : state[approved[i]] = "SUCCESS"
    /\ n > 0 => state[approved[n]] # "SUCCESS"

\* Of the first kept approved modules the last ones expire and left of them stay; the
\* module after the kept ones becomes the only candidate, unless something expires.
\* Those behind it leave the list and nothing else: they stay registered.
Leave(kept, left) ==
    LET again == {approved[i] : i \in {kept + 1} \cap DOMAIN approved}
        expired == {approved[i] : i \in left + 1 .. kept}
        discarded == IF expired # {} THEN again ELSE {}
        cleared == IF expired \cup again # {} THEN candidates ELSE {}
    IN /\ Exit(expired \cup discarded \cup cleared)
       /\ approved' = SubSeq(approved, 1, left)
       /\ candidates' = (candidates \ cleared) \cup (again \ discarded)
       /\ leftBehind' = leftBehind \cup {approved[i] : i \in kept + 2 .. Len(approved)}

\* The rest of runApprovedModules.  The first module that waits again becomes a
\* candidate and those after it leave the approved modules; then modules leave from
\* the first failed one on; then the succeeded ones at the end, which with a lane
\* change among them happens only when all have succeeded.
SettleApproved ==
    /\ phase = "approved" /\ queue = {}
    /\ \E kept \in 0 .. Len(approved) : \E alive \in 0 .. kept : \E last \in 0 .. alive :
        /\ KeptBeforeWaiting(kept)
        /\ StopsAt(alive, kept, Failed)
        /\ Succeeded(last, alive)
        /\ Leave(kept, IF last > 0 /\ \E i \in last + 1 .. alive : approved[i] \in LaneChanges
                       THEN alive ELSE last)
    /\ phase' = "request"
    /\ UNCHANGED <<demand, executable, queue>>

\* Faulty variant: an approved module does not block the launch of others.
BlockedNever == FALSE

\* No module joins an approved one that must be executed alone.
Blocked == ~(Approved \subseteq SimultaneousApproved)

CanLaunchNewModule(m) == m \notin registered

\* isExecutionRequested: the answers it may give; a lane change that is not
\* running searches for a path.
IsExecutionRequested(m) ==
    IF state[m] = "RUNNING" THEN {TRUE}
    ELSE IF m \in LaneChanges THEN BOOLEAN ELSE {demand[m] # "none"}

\* getRequestModules, with the modules that request execution: a candidate that
\* locks the launch of others is the only one.
RequestModules(requesting) ==
    LET eligible == {m \in Modules : approved = <<>> \/ m \in SimultaneousApproved}
        running == eligible \cap candidates
        locking == {m \in running : launchLock[m]}
        new == {m \in (eligible \cap requesting) \ running : CanLaunchNewModule(m)}
    IN IF Blocked THEN {{}}
       ELSE IF locking # {} THEN {{m} : m \in locking}
       ELSE {running \cup new}

\* The modules runRequestModules may run: by priority, up to the first one that
\* must not be a candidate together with others.  Modules of the same priority
\* are sorted in any order.
ExecutableModules(requests) ==
    {run \in SUBSET requests :
        /\ \A m \in run, n \in requests : Priority[n] < Priority[m] => n \in SimultaneousCandidate
        /\ \A m, n \in run \ SimultaneousCandidate : m = n
        /\ \A m \in requests \ run :
                \E n \in run \ SimultaneousCandidate : Priority[n] <= Priority[m]}

\* STEP2 and STEP3 of run: the cycle ends when nothing asks to be run.
FindRequests ==
    /\ phase = "request"
    /\ \E requesting \in SUBSET Modules :
        /\ \A m \in Modules : (m \in requesting) \in IsExecutionRequested(m)
        /\ \E requests \in RequestModules(requesting) :
                executable' \in ExecutableModules(requests)
    /\ queue' = executable'
    /\ phase' = IF executable' = {} THEN "idle" ELSE "candidates"
    /\ UNCHANGED <<moduleVars, registered, approved, candidates, granted, leftBehind>>

\* A module of the highest priority among ms.
Highest(m, ms) == m \in ms /\ \A n \in ms : Priority[m] <= Priority[n]

\* Faulty variant: a lane change does not wait at its entry.
WaitingAtEntryNever(m) == waiting[m]

\* onEntry: a module that was not registered starts idle, a lane change waiting.
WaitingAtEntry(m) == waiting[m] \/ (m \notin registered /\ m \in LaneChanges)

\* The loop of runRequestModules, with registerNewModule for a new candidate.
RunCandidate ==
    /\ phase = "candidates"
    /\ \E m \in queue :
        /\ Highest(m, queue)
        /\ RunModule(m, WaitingAtEntry(m))
        /\ registered' = registered \cup {m}
        /\ queue' = queue \ {m}
    /\ UNCHANGED <<approved, candidates, executable, phase, leftBehind>>

\* The executed modules that have not ended.
Alive == {m \in executable : state[m] = "RUNNING"}

\* Faulty variant: STEP5 is forgotten.
ApprovableEvenWaiting == Alive

\* The candidates that need not wait: STEP5 lets only them pass.
Approvable == {m \in Alive : ~waiting[m]}

\* The rest of runRequestModules with updateCandidateModules, STEP4 and STEP5 of
\* run: the ended modules go, the others become the candidates; none of them may
\* pass, and the cycle ends.
SettleWaiting ==
    /\ phase = "candidates" /\ queue = {}
    /\ Approvable = {}
    /\ Exit((executable \cup candidates) \ Alive)
    /\ candidates' = Alive
    /\ executable' = {}
    /\ phase' = "idle"
    /\ UNCHANGED <<demand, approved, queue, leftBehind>>

\* The same with STEP6: the highest of those that need not wait is approved, the
\* other candidates go and the loop starts again.
SettleApprovable ==
    /\ phase = "candidates" /\ queue = {}
    /\ \E m \in Approvable :
        /\ Highest(m, Approvable)
        /\ Exit((executable \cup candidates) \ {m})
        /\ approved' = Append(approved, m)
        /\ queue' = Approved \cup {m}
    /\ candidates' = {}
    /\ executable' = {}
    /\ phase' = "approved"
    /\ UNCHANGED <<demand, leftBehind>>

SettleCandidates == SettleWaiting \/ SettleApprovable

CycleStep == RunApproved \/ SettleApproved \/ FindRequests \/ RunCandidate \/ SettleCandidates

Next == StartCycle \/ Reset \/ CycleStep \/ \E m \in Modules : Answer(m)

Spec == Init /\ [][Next]_vars

\* The planning thread does not stop in the middle of a cycle.
FairSpec == Spec /\ WF_vars(CycleStep)

-----------------------------------------------------------------------------
(* Properties. *)

\* Between two cycles the lists of the manager and the records of the module
\* managers agree.  No module is in both lists, or in one and left behind; no
\* approved module waits (those that wait again are taken out) and every candidate
\* does.  A module is registered, and so cannot be launched again, exactly when it
\* is in a list or was left behind an approved one that waited again: deleting
\* and clearing modules loses no other registration, whatever ends together.
ListsAgree ==
    phase = "idle" =>
        /\ Approved \cap candidates = {}
        /\ leftBehind \cap (Approved \cup candidates) = {}
        /\ registered = Approved \cup candidates \cup leftBehind
        /\ \A m \in Approved : ~waiting[m]
        /\ \A m \in candidates : waiting[m]

\* A lane change is approved only after its own plan has been activated since its
\* entry: neither an earlier life of the reused instance nor the approval of
\* another module lets it through, in whatever order modules come and go.
LaneChangeIsAuthorised ==
    Approved \cap LaneChanges \subseteq granted

\* Modules are approved together, and asked for approval together, only when each
\* of them may be executed with others.
ApprovedTogether ==
    Len(approved) > 1 => Approved \subseteq SimultaneousApproved

CandidatesTogether ==
    \A m, n \in candidates : m # n => m \in SimultaneousCandidate

CompatibleModulesTogether == ApprovedTogether /\ CandidatesTogether

\* Every cycle ends, although an approval sends the manager back to its start,
\* unless it meets a new shift line that starts 1 to 10 mm behind the ego: the
\* avoidance then waits when it is run as approved and not when it is run as a
\* candidate, and the manager goes round for ever.
CycleEnds ==
    (phase # "idle") ~> (phase = "idle" \/ \E a \in Avoidances : demand[a] = "at_ego")
=============================================================================
