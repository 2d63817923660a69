---------------------------- MODULE RtcInterface ----------------------------
(***************************************************************************)
(* The request-to-cooperate interface of one planning module:              *)
(* planning/rtc_interface and planning/rtc_auto_mode_manager.              *)
(*                                                                         *)
(* Two threads share an RTCInterface.  The planning thread registers the   *)
(* plans it wants to carry out (one status for each uuid), asks whether    *)
(* they are activated and, while it runs one planning cycle of a scene     *)
(* module, keeps the commands out with lockCommandUpdate and               *)
(* unlockCommandUpdate.  The services run in a callback group of their     *)
(* own.  Their handlers and the calls that read or write the statuses hold *)
(* mutex_; lockCommandUpdate and unlockCommandUpdate do not.  Hence the    *)
(* command service is two steps here, the test of is_locked_ and the use   *)
(* of the commands, and unlockCommandUpdate, which walks through a vector  *)
(* that the service may replace meanwhile, is one step for each element.   *)
(*                                                                         *)
(* The auto mode manager answers a request at once and passes it on to the *)
(* interface over a service whose requests arrive in order; the queue of   *)
(* that service keeps the last ones.                                       *)
(***************************************************************************)
EXTENDS Naturals, Sequences

CONSTANTS
    Uuids,          \* the plans a scene module may register
    OtherUuids,     \* uuids a request may name that no plan of the module has
    SafeInputs,     \* what a scene module may say of the safety of a plan
    MaxCommands,    \* bound: commands in one request
    DefaultEnable,  \* the module is in the default_enable_list
    RelayDepth      \* depth of the interface's queue of auto mode requests

ASSUME RtcAssumption == /\ SafeInputs \subseteq BOOLEAN
                        /\ MaxCommands \in Nat
                        /\ DefaultEnable \in BOOLEAN
                        /\ RelayDepth \in Nat \ {0}

Commands == {"ACTIVATE", "DEACTIVATE"}

\* CooperateCommand (which command a uuid of no plan gets does not matter), and the
\* requests: a request may name a plan twice.
CooperateCommands == [uuid : Uuids, command : Commands]
                        \cup [uuid : OtherUuids, command : {"DEACTIVATE"}]
Requests == UNION {[1 .. n -> CooperateCommands] : n \in 1 .. MaxCommands}

None == [registered |-> FALSE]    \* no status of a uuid
Idle == [busy |-> FALSE]          \* no command service under way
NoWalk == [commands |-> << >>, next |-> 1, replaced |-> FALSE]

VARIABLES
    status,     \* registered_status_: for each uuid None or its status
    stored,     \* stored_commands_
    locked,     \* is_locked_
    autoInit,   \* is_auto_mode_init_
    service,    \* the command service call under way, holding mutex_
    thread,     \* where the planning thread is: "inside" a locked cycle or
                \*   "outside" of it; in between, in unlockCommandUpdate, the
                \*   lock is taken away ("unlocked") and the stored commands are
                \*   being taken over ("applying")
    walk,       \* the loop over the stored commands in unlockCommandUpdate: the
                \*   vector as it was at its begin, the next element, and
                \*   whether the service has replaced the vector since
    seen,       \* history: for each uuid the command isActivated has read
                \*   in this locked cycle
    last,       \* history: for each uuid the last command received since its
                \*   status was removed, "refused" when the answer was a failure
    doubled,    \* history: the plans that some request has named twice since
                \*   clearCooperateStatus was called last
    applied,    \* history: an unlock has taken over the stored commands, and they
                \*   are stored still
    autoMode,   \* auto_mode_status_ of the auto mode manager
    relay       \* the manager's requests under way to the interface

vars == <<status, stored, locked, autoInit, service, thread, walk, seen, last, doubled,
          applied, autoMode, relay>>

Statuses == [registered : {TRUE}, safe : BOOLEAN, command : Commands, auto_mode : BOOLEAN]
NoCommands == [u \in Uuids |-> "none"]
Registered(u) == status[u].registered

TypeOK ==
    /\ status \in [Uuids -> Statuses \cup {None}]
    /\ stored \in Seq(CooperateCommands)
    /\ locked \in BOOLEAN /\ autoInit \in BOOLEAN /\ autoMode \in BOOLEAN
    /\ service \in {Idle} \cup [busy : {TRUE}, sawLock : BOOLEAN,
                                 commands : Seq(CooperateCommands)]
    /\ thread \in {"outside", "inside", "unlocked", "applying"}
    /\ walk \in [commands : Seq(CooperateCommands), next : Nat, replaced : BOOLEAN]
    /\ thread = "applying" => walk.next \in 1 .. Len(walk.commands)
    /\ seen \in [Uuids -> Commands \cup {"none"}]
    /\ last \in [Uuids -> Commands \cup {"none", "refused"}]
    /\ doubled \subseteq Uuids /\ applied \in BOOLEAN
    /\ relay \in Seq(BOOLEAN) /\ Len(relay) <= RelayDepth
    /\ locked <=> thread = "inside"

Init ==
    /\ status = [u \in Uuids |-> None]
    /\ stored = << >>
    /\ locked = FALSE
    /\ autoInit = FALSE
    /\ service = Idle
    /\ thread = "outside" /\ walk = NoWalk
    /\ seen = NoCommands
    /\ last = NoCommands
    /\ doubled = {} /\ applied = FALSE
    /\ autoMode = DefaultEnable
    /\ relay = IF DefaultEnable THEN <<TRUE>> ELSE <<>>

-----------------------------------------------------------------------------
(* The services. *)

\* The positions at which a sequence of commands names a plan, and the command it
\* leaves that plan with when it is taken over from front to back.
Naming(commands, u) == {i \in DOMAIN commands : commands[i].uuid = u}
CommandFor(commands, u) ==
    IF Naming(commands, u) = {} THEN "none"
    ELSE commands[CHOOSE i \in Naming(commands, u) :
                      \A j \in Naming(commands, u) : j <= i].command

NamedTwice(commands) ==
    {u \in Uuids : \E i, j \in Naming(commands, u) : i # j}

\* updateCooperateCommandStatus: a command of a registered plan is taken over
\* and ends its auto mode.
UpdateCooperateCommandStatus(commands) ==
    [u \in Uuids |->
        IF Registered(u) /\ CommandFor(commands, u) # "none"
        THEN [status[u] EXCEPT !.command = CommandFor(commands, u), !.auto_mode = FALSE]
        ELSE status[u]]

\* What the histories make of a request.
Received(commands) ==
    /\ last' = [u \in Uuids |->
                    IF Naming(commands, u) = {} THEN last[u]
                    ELSE IF Registered(u) THEN CommandFor(commands, u) ELSE "refused"]
    /\ doubled' = doubled \cup NamedTwice(commands)

\* Faulty variant: the service does not look at the lock.
OnCooperateCommandServiceWithoutLock(commands) ==
    /\ ~service.busy
    /\ service' = [busy |-> TRUE, sawLock |-> FALSE, commands |-> commands]
    /\ Received(commands)
    /\ UNCHANGED <<status, stored, locked, autoInit, thread, walk, seen, applied, autoMode, relay>>

\* onCooperateCommandService up to its test of is_locked_: the answer says
\* whether the plan of each command is registered.
OnCooperateCommandService(commands) ==
    /\ ~service.busy
    /\ service' = [busy |-> TRUE, sawLock |-> locked, commands |-> commands]
    /\ Received(commands)
    /\ UNCHANGED <<status, stored, locked, autoInit, thread, walk, seen, applied, autoMode, relay>>

\* The rest of it: the commands replace the stored ones, or are taken over.
FinishCommandService ==
    /\ service.busy
    /\ service' = Idle
    /\ IF service.sawLock
       THEN /\ stored' = service.commands /\ applied' = FALSE
            /\ walk' = IF thread = "applying" THEN [walk EXCEPT !.replaced = TRUE] ELSE walk
            /\ UNCHANGED status
       ELSE /\ status' = UpdateCooperateCommandStatus(service.commands)
            /\ UNCHANGED <<stored, walk, applied>>
    /\ UNCHANGED <<locked, autoInit, thread, seen, last, doubled, autoMode, relay>>

\* onAutoModeService, which does not look at the lock.
OnAutoModeService ==
    /\ ~service.busy /\ relay # <<>>
    /\ relay' = Tail(relay)
    /\ autoInit' = Head(relay)
    /\ status' = [u \in Uuids |-> IF Registered(u) THEN [status[u] EXCEPT !.auto_mode = Head(relay)]
                                  ELSE None]
    /\ UNCHANGED <<stored, locked, service, thread, walk, seen, last, doubled, applied, autoMode>>

\* Faulty variant: a request that meets a full queue is lost itself.
RelayedUnlessFull(enable) ==
    IF Len(relay) = RelayDepth THEN relay ELSE Append(relay, enable)

\* A request reaches the queue of the interface, of which the oldest is lost when
\* it is full (KEEP_LAST).
Relayed(enable) ==
    Append(IF Len(relay) = RelayDepth THEN Tail(relay) ELSE relay, enable)

\* onEnableService of the auto mode manager.
OnEnableService(enable) ==
    /\ autoMode' = enable
    /\ relay' = Relayed(enable)
    /\ UNCHANGED <<status, stored, locked, autoInit, service, thread, walk, seen, last,
                   doubled, applied>>

-----------------------------------------------------------------------------
(* The planning thread: PlannerManager::run of a scene module. *)

LockCommandUpdate ==
    /\ thread = "outside"
    /\ thread' = "inside"
    /\ locked' = TRUE
    /\ UNCHANGED <<status, stored, autoInit, service, walk, seen, last, doubled, applied,
                   autoMode, relay>>

\* updateCooperateStatus, called from plan and planWaitingApproval.
UpdateCooperateStatus(u, safe) ==
    /\ thread = "inside" /\ ~service.busy
    /\ status' = [status EXCEPT ![u] =
                    IF Registered(u) THEN [@ EXCEPT !.safe = safe]
                    ELSE [registered |-> TRUE, safe |-> safe, command |-> "DEACTIVATE",
                          auto_mode |-> autoInit]]
    /\ UNCHANGED <<stored, locked, autoInit, service, thread, walk,
                   seen, last, doubled, applied, autoMode, relay>>

IsActivated(u) ==
    /\ Registered(u)
    /\ IF status[u].auto_mode THEN status[u].safe ELSE status[u].command = "ACTIVATE"

\* isActivated, called from run and plan: the answer decides between plan and
\* planWaitingApproval.  What matters here is the command it was based on.
AskIsActivated(u) ==
    /\ thread = "inside" /\ ~service.busy
    /\ Registered(u) /\ seen[u] = "none"
    /\ seen' = [seen EXCEPT ![u] = status[u].command]
    /\ UNCHANGED <<status, stored, locked, autoInit, service, thread, walk,
                   last, doubled, applied, autoMode, relay>>

\* Faulty variant: the command stored for a removed plan is kept.
RemoveStoredCommandNever(u) == stored

\* removeStoredCommand: the first of the stored commands that names the plan is
\* erased, and no other.
RemoveStoredCommand(u) ==
    IF Naming(stored, u) = {} THEN stored
    ELSE LET first == CHOOSE i \in Naming(stored, u) : \A j \in Naming(stored, u) : i <= j
         IN  [i \in 1 .. Len(stored) - 1 |-> IF i < first THEN stored[i] ELSE stored[i + 1]]

\* removeCooperateStatus, when the shift of a plan is passed or gone.
RemoveCooperateStatus(u) ==
    /\ thread = "inside" /\ ~service.busy
    /\ status' = [status EXCEPT ![u] = None]
    /\ stored' = RemoveStoredCommand(u)
    /\ seen' = [seen EXCEPT ![u] = "none"]
    /\ last' = [last EXCEPT ![u] = "none"]
    /\ UNCHANGED <<locked, autoInit, service, thread, walk, doubled, applied, autoMode, relay>>

\* clearCooperateStatus, at the exit of the scene module or inside of the cycle
\* of an aborted plan.
ClearCooperateStatus ==
    /\ thread \in {"outside", "inside"} /\ ~service.busy
    /\ status' = [u \in Uuids |-> None]
    /\ stored' = << >>
    /\ seen' = NoCommands
    /\ last' = NoCommands
    /\ doubled' = {} /\ applied' = FALSE
    /\ UNCHANGED <<locked, autoInit, service, thread, walk, autoMode, relay>>

\* Faulty variant: the lock stays.
UnlockCommandUpdateKeepingLock ==
    /\ thread = "inside"
    /\ thread' = "unlocked"
    /\ seen' = NoCommands
    /\ UNCHANGED <<status, stored, locked, autoInit, service, walk, last, doubled,
                   applied, autoMode, relay>>

\* unlockCommandUpdate: first the lock is taken away ...
UnlockCommandUpdate ==
    /\ thread = "inside"
    /\ thread' = "unlocked"
    /\ locked' = FALSE
    /\ seen' = NoCommands
    /\ UNCHANGED <<status, stored, autoInit, service, walk, last, doubled, applied,
                   autoMode, relay>>

\* ... then the loop over the stored commands begins ...
ReadStoredCommands ==
    /\ thread = "unlocked"
    /\ IF stored = << >>
       THEN thread' = "outside" /\ UNCHANGED walk
       ELSE thread' = "applying" /\ walk' = [NoWalk EXCEPT !.commands = stored]
    /\ UNCHANGED <<status, stored, locked, autoInit, service, seen, last, doubled,
                   applied, autoMode, relay>>

\* What the loop may find at its next position.  A service that tested the lock
\* before may have replaced the vector: in place, so that each field is the old or
\* the new one, or by another one, of which the loop sees nothing and what is left
\* of the old elements need not be a command any more (no plan has that uuid).
Found ==
    LET old == walk.commands[walk.next]
    IN  IF ~walk.replaced THEN {<<old>>}
        ELSE {<<old>>, << >>} \cup
             IF walk.next \notin DOMAIN stored THEN {}
             ELSE LET new == stored[walk.next]
                  IN  {<<new>>, <<[old EXCEPT !.uuid = new.uuid]>>,
                       <<[old EXCEPT !.command = new.command]>>}

\* The loop goes on to the next element, or ends.
Advance ==
    IF walk.next = Len(walk.commands)
    THEN thread' = "outside" /\ walk' = NoWalk /\ applied' = (applied \/ ~walk.replaced)
    ELSE walk' = [walk EXCEPT !.next = @ + 1] /\ UNCHANGED <<thread, applied>>

\* Faulty variant: the stored commands are forgotten.
ApplyStoredCommandNever(found) ==
    /\ thread = "applying"
    /\ Advance
    /\ UNCHANGED <<status, stored, locked, autoInit, service, seen, last, doubled,
                   autoMode, relay>>

\* ... and takes them over one by one.  They stay stored.
ApplyStoredCommand(found) ==
    /\ thread = "applying"
    /\ status' = UpdateCooperateCommandStatus(found)
    /\ Advance
    /\ UNCHANGED <<stored, locked, autoInit, service, seen, last, doubled, autoMode, relay>>

ApplyStoredCommands ==
    \/ ReadStoredCommands
    \/ thread = "applying" /\ \E found \in Found : ApplyStoredCommand(found)

-----------------------------------------------------------------------------
Operator ==
    \/ \E commands \in Requests : OnCooperateCommandService(commands)
    \/ \E enable \in BOOLEAN : OnEnableService(enable)

Planner ==
    \/ LockCommandUpdate
    \/ \E u \in Uuids, safe \in SafeInputs : UpdateCooperateStatus(u, safe)
    \/ \E u \in Uuids : AskIsActivated(u)
    \/ \E u \in Uuids : RemoveCooperateStatus(u)
    \/ ClearCooperateStatus
    \/ UnlockCommandUpdate
    \/ ApplyStoredCommands

Next ==
    \/ Operator
    \/ FinishCommandService
    \/ OnAutoModeService
    \/ Planner

Spec == Init /\ [][Next]_vars

\* The planner runs cycle after cycle, each of them ends, and a service that was
\* called is served.
Fairness ==
    /\ WF_vars(LockCommandUpdate)
    /\ WF_vars(UnlockCommandUpdate)
    /\ WF_vars(ApplyStoredCommands)
    /\ WF_vars(FinishCommandService)
    /\ SF_vars(OnAutoModeService)

FairSpec == Spec /\ Fairness

-----------------------------------------------------------------------------
(* Properties. *)

\* Within one locked cycle isActivated never rests on two different commands
\* for one plan, though the service tests is_locked_ and the planner sets it
\* without a common lock: what the operator says meanwhile waits for the end of
\* the cycle.
CycleSeesOneCommand ==
    \A u \in Uuids : seen[u] # "none" => status[u].command = seen[u]

\* A plan whose status was removed starts again from nothing: as long as no command
\* arrives for it, no stored or registered command of its earlier life activates
\* it.  Not so for a plan that one request named twice: removeStoredCommand erases
\* only the first of its commands, and the next unlock takes over the other.
NoCommandOutlivesItsPlan ==
    \A u \in Uuids \ doubled : last[u] = "none" =>
        /\ Naming(stored, u) = {}
        /\ Registered(u) => status[u].command = "DEACTIVATE"

\* A command that had to wait for the end of the cycle reaches its plan, at
\* the latest at the end of the next one when the lock was tested too early,
\* unless the plan goes or another request comes and takes its place.
StoredCommandIsApplied ==
    \A u \in Uuids : \A c \in Commands :
        (CommandFor(stored, u) = c /\ Registered(u)) ~>
            \/ ~Registered(u) \/ service.busy
            \/ CommandFor(stored, u) # c \/ status[u].command = c

\* Once nobody changes the auto mode any more, the plans registered from then
\* on start in the mode the auto mode manager publishes, also when its requests
\* came faster than the interface took them and some were lost.
AutoModeSettles ==
    <>[][~\E enable \in BOOLEAN : OnEnableService(enable)]_vars => <>[](autoInit = autoMode)

\* A plan that follows the last command received for it, one answered with success,
\* goes on following it at the end of a cycle ("Return received command status",
\* README of rtc_interface on isActivated): what an earlier unlock has taken over
\* already does not overrule what was received since.  The stored commands, which
\* no unlock erases, break it: the same vector is taken over again.
UnlockKeepsReceivedCommand ==
    [][UnlockCommandUpdate /\ ~service.busy /\ applied =>
        \A u \in Uuids :
            Registered(u) /\ ~status[u].auto_mode /\ status[u].command = last[u]
                => CommandFor(stored, u) \in {"none", last[u]}]_vars
=============================================================================
