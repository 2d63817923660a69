-------------------------- MODULE RtcInterfaceProofs --------------------------
(***************************************************************************)
(* For any set of plans and requests of any length: a locked cycle rests   *)
(* on one command for each plan, and a plan that is registered again       *)
(* starts from nothing, unless one request has named it twice.             *)
(***************************************************************************)
EXTENDS RtcInterface, SequenceTheorems, WellFoundedInduction, TLAPS

\* What the loop of unlockCommandUpdate may find, torn elements included.
AnyCommands == [uuid : Uuids \cup OtherUuids, command : Commands]

-----------------------------------------------------------------------------
(* Sequences of commands.                                                  *)

\* Positions have a first and a last one.
LEMMA Least ==
  ASSUME NEW T \in SUBSET Nat, T # {}
  PROVE  \E x \in T : \A y \in T : x <= y
<1> DEFINE R == {ss \in Nat \X Nat : ss[1] < ss[2]}
<1>1. IsWellFoundedOn(R, Nat)
  BY NatLessThanWellFounded DEF OpToRel
<1>2. \E x \in T : \A y \in T : ~ (<<y, x>> \in R)
  <2> HIDE DEF R
  <2> QED
    BY <1>1, WFMin
<1>3. PICK x \in T : \A y \in T : ~ (<<y, x>> \in R)
  BY <1>2
<1>4. ASSUME NEW y \in T PROVE x <= y
  <2>1. x \in Nat /\ y \in Nat
    OBVIOUS
  <2>2. ~ (<<y, x>> \in R)
    BY <1>3
  <2>3. ~ (y < x)
    BY <2>1, <2>2
  <2> QED
    BY <2>1, <2>3
<1> QED
  BY <1>4

LEMMA Greatest ==
  ASSUME NEW n \in Nat, NEW T \in SUBSET (1 .. n), T # {}
  PROVE  \E x \in T : \A y \in T : y <= x
<1> DEFINE S == {n - i : i \in T}
<1>1. S \in SUBSET Nat
  <2>1. ASSUME NEW i \in 1 .. n PROVE n - i \in Nat
    OBVIOUS
  <2> QED
    BY <2>1
<1>2. S # {}
  OBVIOUS
<1>3. PICK m \in S : \A k \in S : m <= k
  <2> HIDE DEF S
  <2> QED
    BY <1>1, <1>2, Least
<1>4. PICK x \in T : m = n - x
  OBVIOUS
<1>5. ASSUME NEW y \in T PROVE y <= x
  <2>1. n - y \in S
    OBVIOUS
  <2>2. m <= n - y
    BY <1>3, <2>1
  <2> QED
    BY <1>4, <2>2
<1> QED
  BY <1>5

\* The command that a sequence leaves a plan with is one of its commands, and
\* there is one just if the sequence names the plan.
LEMMA CommandForType ==
  ASSUME NEW commands \in Seq(AnyCommands), NEW u
  PROVE  /\ CommandFor(commands, u) \in Commands \cup {"none"}
         /\ CommandFor(commands, u) = "none" <=> Naming(commands, u) = {}
<1>1. CASE Naming(commands, u) = {}
  BY <1>1 DEF CommandFor
<1>2. CASE Naming(commands, u) # {}
  <2>1. Naming(commands, u) \in SUBSET (1 .. Len(commands)) /\ Len(commands) \in Nat
    BY DEF Naming
  <2>2. \E i \in Naming(commands, u) : \A j \in Naming(commands, u) : j <= i
    BY <1>2, <2>1, Greatest
  <2> DEFINE final == CHOOSE i \in Naming(commands, u) : \A j \in Naming(commands, u) : j <= i
  <2>3. final \in Naming(commands, u)
    BY <2>2
  <2>4. final \in 1 .. Len(commands)
    BY <2>1, <2>3
  <2>5. commands[final] \in AnyCommands
    BY <2>4
  <2>6. commands[final].command \in Commands
    BY <2>5 DEF AnyCommands
  <2>7. CommandFor(commands, u) = commands[final].command
    BY <1>2 DEF CommandFor
  <2>8. "none" \notin Commands
    BY DEF Commands
  <2> QED
    BY <1>2, <2>6, <2>7, <2>8
<1> QED
  BY <1>1, <1>2

\* Requests and stored commands are sequences of commands.
LEMMA RequestsAreCommands ==
  /\ \A commands \in Requests : commands \in Seq(CooperateCommands)
  /\ \A commands \in Seq(CooperateCommands) : commands \in Seq(AnyCommands)
<1>1. CooperateCommands \subseteq AnyCommands
  BY DEF CooperateCommands, AnyCommands, Commands
<1>2. ASSUME NEW commands \in Requests
      PROVE  commands \in Seq(CooperateCommands)
  <2>1. PICK n \in 1 .. MaxCommands : commands \in [1 .. n -> CooperateCommands]
    BY DEF Requests
  <2>2. n \in Nat
    BY RtcAssumption
  <2> QED
    BY <2>1, <2>2
<1>3. ASSUME NEW commands \in Seq(CooperateCommands)
      PROVE  commands \in Seq(AnyCommands)
  <2>1. ASSUME NEW i \in 1 .. Len(commands) PROVE commands[i] \in AnyCommands
    BY <1>1
  <2>2. commands \in [1 .. Len(commands) -> AnyCommands] /\ Len(commands) \in Nat
    BY <2>1
  <2> QED
    BY <2>2
<1> QED
  BY <1>2, <1>3

\* removeStoredCommand names no plan that was not named before, and not the removed
\* one any more if that was named once only.
LEMMA RemovalOfStored ==
  ASSUME stored \in Seq(CooperateCommands), NEW u
  PROVE  /\ RemoveStoredCommand(u) \in Seq(CooperateCommands)
         /\ \A v : Naming(stored, v) = {} => Naming(RemoveStoredCommand(u), v) = {}
         /\ \A v : (\A i, j \in Naming(stored, v) : i = j)
                     => \A i, j \in Naming(RemoveStoredCommand(u), v) : i = j
         /\ (\A i, j \in Naming(stored, u) : i = j)
                => Naming(RemoveStoredCommand(u), u) = {}
<1>1. CASE Naming(stored, u) = {}
  BY <1>1 DEF RemoveStoredCommand
<1>2. CASE Naming(stored, u) # {}
  <2> DEFINE first == CHOOSE i \in Naming(stored, u) : \A j \in Naming(stored, u) : i <= j
             rest == [i \in 1 .. Len(stored) - 1 |-> IF i < first THEN stored[i] ELSE stored[i + 1]]
  <2>1. Naming(stored, u) \in SUBSET (1 .. Len(stored)) /\ Len(stored) \in Nat
    BY DEF Naming
  <2>2. Naming(stored, u) \in SUBSET Nat
    BY <2>1
  <2>3. \E i \in Naming(stored, u) : \A j \in Naming(stored, u) : i <= j
    BY <1>2, <2>2, Least
  <2>4. first \in Naming(stored, u) /\ first \in 1 .. Len(stored)
    BY <2>1, <2>3
  <2>5. RemoveStoredCommand(u) = rest
    BY <1>2 DEF RemoveStoredCommand
  <2> HIDE DEF first
  <2>6. \A i \in 1 .. Len(stored) - 1 : i \in 1 .. Len(stored) /\ i + 1 \in 1 .. Len(stored)
    BY <2>1
  <2>7. rest \in [1 .. Len(stored) - 1 -> CooperateCommands]
    BY <2>1, <2>6
  <2>8. Len(stored) - 1 \in Nat
    BY <2>1, <2>4
  <2>9. rest \in Seq(CooperateCommands)
    BY <2>7, <2>8
  \* Where an element that is left stood before.
  <2> DEFINE old(i) == IF i < first THEN i ELSE i + 1
  <2>10. ASSUME NEW v, NEW i \in Naming(rest, v)
         PROVE  old(i) \in Naming(stored, v) /\ old(i) # first /\ i \in Nat
    <3>1. i \in 1 .. Len(stored) - 1 /\ rest[i].uuid = v
      BY <2>10 DEF Naming
    <3>2. rest[i] = stored[old(i)]
      BY <3>1
    <3>3. old(i) \in 1 .. Len(stored) /\ old(i) # first
      BY <2>1, <2>4, <2>6, <3>1
    <3> QED
      BY <2>1, <3>1, <3>2, <3>3 DEF Naming
  <2>11. \A v : Naming(stored, v) = {} => Naming(rest, v) = {}
    BY <2>10
  <2>12. ASSUME NEW v, \A i, j \in Naming(stored, v) : i = j,
                NEW i \in Naming(rest, v), NEW j \in Naming(rest, v)
         PROVE  i = j
    <3>1. old(i) = old(j) /\ i \in Nat /\ j \in Nat /\ first \in Nat
      BY <2>1, <2>4, <2>10, <2>12
    <3> QED
      BY <3>1
  <2>13. (\A i, j \in Naming(stored, u) : i = j) => Naming(rest, u) = {}
    BY <2>4, <2>10
  <2> QED
    BY <2>5, <2>9, <2>11, <2>12, <2>13
<1> QED
  BY <1>1, <1>2

\* What commands leave of the statuses has the type of statuses, keeps every
\* registration, and changes no plan they do not name.
LEMMA UpdateOfStatus ==
  ASSUME status \in [Uuids -> Statuses \cup {None}],
         NEW commands \in Seq(AnyCommands)
  PROVE  /\ UpdateCooperateCommandStatus(commands) \in [Uuids -> Statuses \cup {None}]
         /\ \A u \in Uuids :
              /\ UpdateCooperateCommandStatus(commands)[u].registered = Registered(u)
              /\ Naming(commands, u) = {}
                   => UpdateCooperateCommandStatus(commands)[u] = status[u]
<1>1. ASSUME NEW u \in Uuids
      PROVE  /\ UpdateCooperateCommandStatus(commands)[u] \in Statuses \cup {None}
             /\ UpdateCooperateCommandStatus(commands)[u].registered = Registered(u)
             /\ Naming(commands, u) = {}
                  => UpdateCooperateCommandStatus(commands)[u] = status[u]
  <2>1. CASE Registered(u) /\ CommandFor(commands, u) # "none"
    <3>1. status[u] \in Statuses
      BY <2>1 DEF Registered, None
    <3>2. CommandFor(commands, u) \in Commands /\ Naming(commands, u) # {}
      BY <2>1, CommandForType
    <3>3. UpdateCooperateCommandStatus(commands)[u]
            = [status[u] EXCEPT !.command = CommandFor(commands, u), !.auto_mode = FALSE]
      BY <2>1 DEF UpdateCooperateCommandStatus
    <3> QED
      BY <2>1, <3>1, <3>2, <3>3 DEF Statuses, Registered
  <2>2. CASE ~(Registered(u) /\ CommandFor(commands, u) # "none")
    BY <2>2 DEF UpdateCooperateCommandStatus, Registered
  <2> QED
    BY <2>1, <2>2
<1>2. UpdateCooperateCommandStatus(commands) =
        [u \in Uuids |-> UpdateCooperateCommandStatus(commands)[u]]
  BY DEF UpdateCooperateCommandStatus
<1> QED
  BY <1>1, <1>2

\* What the loop finds at its position is at most one command, for a plan that the
\* loop or the stored commands name.
LEMMA FoundIsCommand ==
  ASSUME TypeOK, thread = "applying", NEW found \in Found
  PROVE  /\ found \in Seq(AnyCommands)
         /\ \A u : Naming(found, u) # {}
                => Naming(walk.commands, u) # {} \/ Naming(stored, u) # {}
<1> DEFINE n == walk.next
           old == walk.commands[n]
<1>1. n \in 1 .. Len(walk.commands) /\ walk.commands \in Seq(CooperateCommands)
  BY DEF TypeOK
<1>2. old \in CooperateCommands /\ n \in DOMAIN walk.commands
  BY <1>1
<1>3. ASSUME n \in DOMAIN stored PROVE stored[n] \in CooperateCommands
  BY <1>3 DEF TypeOK
<1>4. CASE found = << >>
  BY <1>4 DEF Naming
<1>5. CASE found # << >>
  <2> DEFINE new == stored[n]
  <2>1. CooperateCommands \subseteq AnyCommands
    BY DEF CooperateCommands, AnyCommands, Commands
  <2>2. old \in AnyCommands
    BY <1>2, <2>1
  <2>3. \E c \in AnyCommands : /\ found = <<c>>
                                /\ \/ c.uuid = old.uuid
                                   \/ n \in DOMAIN stored /\ c.uuid = new.uuid
    <3>1. CASE found = <<old>>
      BY <2>2, <3>1
    <3>2. CASE found # <<old>>
      <4>1. n \in DOMAIN stored
        BY <1>5, <3>2, Zenon DEF Found
      <4>2. new \in AnyCommands
        BY <1>3, <2>1, <4>1
      <4>3. found \in {<<new>>, <<[old EXCEPT !.uuid = new.uuid]>>,
                       <<[old EXCEPT !.command = new.command]>>}
        <5>1. found \in {<<old>>} \/ found \in {<<old>>, << >>} \cup
                                   {<<new>>, <<[old EXCEPT !.uuid = new.uuid]>>,
                                    <<[old EXCEPT !.command = new.command]>>}
          BY <4>1, Zenon DEF Found
        <5> QED
          BY <1>5, <3>2, <5>1, Zenon
      <4>4. CASE found = <<new>>
        BY <4>1, <4>2, <4>4
      <4>5. CASE found = <<[old EXCEPT !.uuid = new.uuid]>>
        <5>1. [old EXCEPT !.uuid = new.uuid] \in AnyCommands
          BY <2>2, <4>2 DEF AnyCommands
        <5>2. [old EXCEPT !.uuid = new.uuid].uuid = new.uuid
          BY <2>2 DEF AnyCommands
        <5> QED
          BY <4>1, <4>5, <5>1, <5>2
      <4>6. CASE found = <<[old EXCEPT !.command = new.command]>>
        <5>1. [old EXCEPT !.command = new.command] \in AnyCommands
          BY <2>2, <4>2 DEF AnyCommands
        <5>2. [old EXCEPT !.command = new.command].uuid = old.uuid
          BY <2>2 DEF AnyCommands
        <5> QED
          BY <4>6, <5>1, <5>2
      <4> QED
        BY <4>3, <4>4, <4>5, <4>6
    <3> QED
      BY <3>1, <3>2
  <2>4. PICK c \in AnyCommands : /\ found = <<c>>
                                 /\ \/ c.uuid = old.uuid
                                    \/ n \in DOMAIN stored /\ c.uuid = new.uuid
    BY <2>3
  <2>5. found \in Seq(AnyCommands)
    BY <2>4
  <2>6. ASSUME NEW u, Naming(found, u) # {} PROVE c.uuid = u
    BY <2>4, <2>6 DEF Naming
  <2>7. ASSUME NEW u, c.uuid = u
        PROVE  n \in Naming(walk.commands, u) \/ n \in Naming(stored, u)
    BY <1>2, <2>4, <2>7 DEF Naming
  <2> QED
    BY <2>5, <2>6, <2>7
<1> QED
  BY <1>4, <1>5

-----------------------------------------------------------------------------
(* Types.                                                                  *)

LEMMA TypeInit == Init => TypeOK
<1> SUFFICES ASSUME Init PROVE TypeOK
  OBVIOUS
<1>1. relay \in Seq(BOOLEAN) /\ Len(relay) <= RelayDepth
  <2>1. CASE DefaultEnable
    <3>1. relay = <<TRUE>>
      BY <2>1 DEF Init
    <3>2. <<TRUE>> \in Seq(BOOLEAN) /\ Len(<<TRUE>>) = 1
      OBVIOUS
    <3> QED
      BY <3>1, <3>2, RtcAssumption
  <2>2. CASE ~DefaultEnable
    <3>1. relay = << >>
      BY <2>2 DEF Init
    <3>2. << >> \in Seq(BOOLEAN) /\ Len(<< >>) = 0
      BY EmptySeq
    <3> QED
      BY <3>1, <3>2, RtcAssumption
  <2> QED
    BY <2>1, <2>2
<1>2. stored \in Seq(CooperateCommands)
  BY EmptySeq DEF Init
<1>3. walk \in [commands : Seq(CooperateCommands), next : Nat, replaced : BOOLEAN]
  BY EmptySeq DEF Init, NoWalk
<1> QED
  BY <1>1, <1>2, <1>3, RtcAssumption DEF Init, TypeOK, NoCommands, Commands

\* The commands of a service under way.
LEMMA ServiceCommands ==
  TypeOK /\ service.busy => service.commands \in Seq(CooperateCommands)
<1> SUFFICES ASSUME TypeOK, service.busy PROVE service.commands \in Seq(CooperateCommands)
  OBVIOUS
<1>1. Idle.busy = FALSE
  BY DEF Idle
<1>2. service # Idle
  BY <1>1, Zenon
<1>3. service \in [busy : {TRUE}, sawLock : BOOLEAN, commands : Seq(CooperateCommands)]
  BY <1>2 DEF TypeOK
<1> QED
  BY <1>3

\* What the queue of the interface holds after a request.
LEMMA RelayedType ==
  ASSUME TypeOK, NEW enable \in BOOLEAN
  PROVE  Relayed(enable) \in Seq(BOOLEAN) /\ Len(Relayed(enable)) <= RelayDepth
<1> DEFINE kept == IF Len(relay) = RelayDepth THEN Tail(relay) ELSE relay
<1>1. relay \in Seq(BOOLEAN) /\ Len(relay) \in Nat /\ Len(relay) <= RelayDepth
  BY DEF TypeOK
<1>2. kept \in Seq(BOOLEAN) /\ Len(kept) + 1 <= RelayDepth
  <2>1. CASE Len(relay) = RelayDepth
    <3>1. relay # << >>
      BY <1>1, <2>1, RtcAssumption
    <3>2. Tail(relay) \in Seq(BOOLEAN) /\ Len(Tail(relay)) = Len(relay) - 1
      BY <1>1, <3>1, HeadTailProperties
    <3> QED
      BY <1>1, <2>1, <3>2, RtcAssumption
  <2>2. CASE Len(relay) # RelayDepth
    BY <1>1, <2>2, RtcAssumption
  <2> QED
    BY <2>1, <2>2
<1>3. Relayed(enable) = Append(kept, enable)
  BY DEF Relayed
<1> HIDE DEF kept
<1>4. Append(kept, enable) \in Seq(BOOLEAN) /\ Len(Append(kept, enable)) = Len(kept) + 1
  BY <1>2, AppendProperties
<1> QED
  BY <1>2, <1>3, <1>4

\* A loop that goes on to its next element is as before but for that.
LEMMA NextElement ==
  ASSUME NEW S, NEW w \in [commands : S, next : Nat, replaced : BOOLEAN], NEW n,
         n + 1 \in 1 .. Len(w.commands), w.next = n, NEW v,
         v = [w EXCEPT !.next = n + 1]
  PROVE  /\ v \in [commands : S, next : Nat, replaced : BOOLEAN]
         /\ v.next = n + 1 /\ v.commands = w.commands
<1>1. n + 1 \in Nat
  OBVIOUS
<1>2. v.next = n + 1 /\ v.commands = w.commands /\ v.replaced = w.replaced
  OBVIOUS
<1> QED
  BY <1>1

LEMMA TypeNext == TypeOK /\ [Next]_vars => TypeOK'
<1> SUFFICES ASSUME TypeOK, [Next]_vars PROVE TypeOK'
  OBVIOUS
<1> USE DEF TypeOK
<1>1. ASSUME NEW commands \in Requests, OnCooperateCommandService(commands)
      PROVE  TypeOK'
  <2>1. commands \in Seq(CooperateCommands) /\ commands \in Seq(AnyCommands)
    BY RequestsAreCommands
  <2>2. last' \in [Uuids -> Commands \cup {"none", "refused"}]
    <3>1. \A u \in Uuids : CommandFor(commands, u) \in Commands \cup {"none"}
      BY <2>1, CommandForType
    <3> QED
      BY <1>1, <3>1 DEF OnCooperateCommandService, Received
  <2>3. doubled' \subseteq Uuids
    BY <1>1 DEF OnCooperateCommandService, Received, NamedTwice
  <2>4. service' \in [busy : {TRUE}, sawLock : BOOLEAN, commands : Seq(CooperateCommands)]
    BY <1>1, <2>1 DEF OnCooperateCommandService
  <2>5. UNCHANGED <<status, stored, locked, autoInit, thread, walk, seen, applied,
                    autoMode, relay>>
    BY <1>1 DEF OnCooperateCommandService
  <2> QED
    BY <2>2, <2>3, <2>4, <2>5
<1>2. ASSUME NEW enable \in BOOLEAN, OnEnableService(enable)
      PROVE  TypeOK'
  <2>1. relay' \in Seq(BOOLEAN) /\ Len(relay') <= RelayDepth
    BY <1>2, RelayedType DEF OnEnableService
  <2> QED
    BY <1>2, <2>1 DEF OnEnableService
<1>3. CASE FinishCommandService
  <2>1. service.commands \in Seq(CooperateCommands) /\ service.commands \in Seq(AnyCommands)
    BY <1>3, ServiceCommands, RequestsAreCommands DEF FinishCommandService
  <2>2. status' \in [Uuids -> Statuses \cup {None}]
    BY <1>3, <2>1, UpdateOfStatus DEF FinishCommandService
  <2>3. stored' \in Seq(CooperateCommands) /\ applied' \in BOOLEAN
    BY <1>3, <2>1 DEF FinishCommandService
  <2>4. /\ walk' \in [commands : Seq(CooperateCommands), next : Nat, replaced : BOOLEAN]
        /\ walk'.next = walk.next /\ walk'.commands = walk.commands
    <3>1. walk' = walk \/ walk' = [walk EXCEPT !.replaced = TRUE]
      BY <1>3 DEF FinishCommandService
    <3>2. walk \in [commands : Seq(CooperateCommands), next : Nat, replaced : BOOLEAN]
      OBVIOUS
    <3> QED
      BY <3>1, <3>2
  <2>5. service' = Idle /\ UNCHANGED <<locked, autoInit, thread, seen, last, doubled, autoMode,
                                      relay>>
    BY <1>3 DEF FinishCommandService
  <2> QED
    BY <2>2, <2>3, <2>4, <2>5
<1>4. CASE OnAutoModeService
  <2>1. relay' \in Seq(BOOLEAN) /\ Len(relay') <= RelayDepth /\ Head(relay) \in BOOLEAN
    BY <1>4, RtcAssumption, HeadTailProperties DEF OnAutoModeService
  <2>2. ASSUME NEW u \in Uuids
        PROVE  (IF Registered(u) THEN [status[u] EXCEPT !.auto_mode = Head(relay)]
                                 ELSE None) \in Statuses \cup {None}
    <3>1. CASE Registered(u)
      <4>1. status[u] \in Statuses
        BY <3>1 DEF Registered, None
      <4> QED
        BY <2>1, <3>1, <4>1 DEF Statuses
    <3> QED
      BY <3>1
  <2> QED
    BY <1>4, <2>1, <2>2 DEF OnAutoModeService
<1>5. CASE LockCommandUpdate
  BY <1>5 DEF LockCommandUpdate
<1>6. ASSUME NEW u \in Uuids, NEW safe \in SafeInputs, UpdateCooperateStatus(u, safe)
      PROVE  TypeOK'
  <2>0. safe \in BOOLEAN
    BY RtcAssumption
  <2>1. (IF Registered(u) THEN [status[u] EXCEPT !.safe = safe]
         ELSE [registered |-> TRUE, safe |-> safe, command |-> "DEACTIVATE",
               auto_mode |-> autoInit]) \in Statuses
    <3>1. CASE Registered(u)
      <4>1. status[u] \in Statuses
        BY <3>1 DEF Registered, None
      <4> QED
        BY <2>0, <3>1, <4>1 DEF Statuses
    <3>2. CASE ~Registered(u)
      BY <2>0, <3>2 DEF Statuses, Commands
    <3> QED
      BY <3>1, <3>2
  <2> QED
    BY <1>6, <2>1 DEF UpdateCooperateStatus
<1>7. ASSUME NEW u \in Uuids, AskIsActivated(u)
      PROVE  TypeOK'
  <2>1. Registered(u)
    BY <1>7 DEF AskIsActivated
  <2>2. status[u] \in Statuses
    BY <2>1 DEF Registered, None
  <2>3. status[u].command \in Commands
    BY <2>2 DEF Statuses
  <2> QED
    BY <1>7, <2>3 DEF AskIsActivated
<1>8. ASSUME NEW u \in Uuids, RemoveCooperateStatus(u)
      PROVE  TypeOK'
  <2>1. stored' \in Seq(CooperateCommands)
    BY <1>8, RemovalOfStored DEF RemoveCooperateStatus
  <2>2. status' \in [Uuids -> Statuses \cup {None}]
    BY <1>8 DEF RemoveCooperateStatus
  <2> QED
    BY <1>8, <2>1, <2>2 DEF RemoveCooperateStatus
<1>9. CASE ClearCooperateStatus
  <2>1. stored' \in Seq(CooperateCommands)
    BY <1>9, EmptySeq DEF ClearCooperateStatus
  <2> QED
    BY <1>9, <2>1 DEF ClearCooperateStatus, NoCommands
<1>10. CASE UnlockCommandUpdate
  BY <1>10 DEF UnlockCommandUpdate, NoCommands
<1>11. CASE ReadStoredCommands
  <2>1. /\ walk' \in [commands : Seq(CooperateCommands), next : Nat, replaced : BOOLEAN]
        /\ thread' \in {"outside", "applying"} /\ thread = "unlocked"
        /\ thread' = "applying" => walk'.next \in 1 .. Len(walk'.commands)
    <3>1. CASE stored = << >>
      BY <1>11, <3>1 DEF ReadStoredCommands
    <3>2. CASE stored # << >>
      <4>1. walk' = [commands |-> stored, next |-> 1, replaced |-> FALSE]
        BY <1>11, <3>2 DEF ReadStoredCommands, NoWalk
      <4>2. Len(stored) \in Nat \ {0}
        BY <3>2, EmptySeq
      <4> QED
        BY <1>11, <3>2, <4>1, <4>2 DEF ReadStoredCommands
    <3> QED
      BY <3>1, <3>2
  <2> QED
    BY <1>11, <2>1 DEF ReadStoredCommands
<1>12. ASSUME NEW found \in Found, ApplyStoredCommand(found)
       PROVE  TypeOK'
  <2>1. thread = "applying"
    BY <1>12 DEF ApplyStoredCommand
  <2>2. status' \in [Uuids -> Statuses \cup {None}]
    BY <1>12, <2>1, FoundIsCommand, UpdateOfStatus DEF ApplyStoredCommand
  <2>3. /\ walk' \in [commands : Seq(CooperateCommands), next : Nat, replaced : BOOLEAN]
        /\ thread' \in {"outside", "applying"} /\ applied' \in BOOLEAN
        /\ thread' = "applying" => walk'.next \in 1 .. Len(walk'.commands)
    <3>1. CASE walk.next = Len(walk.commands)
      <4>1. walk' = NoWalk /\ thread' = "outside" /\ applied' = (applied \/ ~walk.replaced)
        BY <1>12, <3>1 DEF ApplyStoredCommand, Advance
      <4> QED
        BY <4>1, EmptySeq DEF NoWalk
    <3>2. CASE walk.next # Len(walk.commands)
      <4>1. /\ walk' = [walk EXCEPT !.next = walk.next + 1]
            /\ thread' = thread /\ applied' = applied
        BY <1>12, <3>2 DEF ApplyStoredCommand, Advance
      <4>2. walk.next \in 1 .. Len(walk.commands) /\ Len(walk.commands) \in Nat
        BY <2>1
      <4>3. walk \in [commands : Seq(CooperateCommands), next : Nat, replaced : BOOLEAN]
        OBVIOUS
      <4>4. walk.next + 1 \in 1 .. Len(walk.commands)
        BY <3>2, <4>2
      <4>5. /\ walk' \in [commands : Seq(CooperateCommands), next : Nat, replaced : BOOLEAN]
            /\ walk'.next = walk.next + 1 /\ walk'.commands = walk.commands
        BY ONLY <4>1, <4>3, <4>4, NextElement
      <4>6. walk'.next \in 1 .. Len(walk'.commands)
        BY <4>4, <4>5
      <4>7. thread' \in {"outside", "applying"}
        BY <2>1, <4>1
      <4>8. applied' \in BOOLEAN
        BY <4>1, Zenon
      <4>9. walk' \in [commands : Seq(CooperateCommands), next : Nat, replaced : BOOLEAN]
        BY <4>5
      <4>10. thread' = "applying" => walk'.next \in 1 .. Len(walk'.commands)
        BY <4>6
      <4> QED
        BY ONLY <4>7, <4>8, <4>9, <4>10, Zenon
    <3> QED
      BY <3>1, <3>2, Zenon
  <2> QED
    BY <1>12, <2>1, <2>2, <2>3 DEF ApplyStoredCommand
<1>13. CASE UNCHANGED vars
  BY <1>13 DEF vars
<1> HIDE DEF TypeOK
<1> QED
  BY <1>1, <1>2, <1>3, <1>4, <1>5, <1>6, <1>7, <1>8, <1>9, <1>10, <1>11, <1>12, <1>13
  DEF Next, Operator, Planner, ApplyStoredCommands

\* Every variable of the interface keeps its type, and the lock is set exactly
\* while the planner is inside of a cycle.
THEOREM TypeCorrect == Spec => []TypeOK
<1> QED
  BY TypeInit, TypeNext, PTL DEF Spec

-----------------------------------------------------------------------------
(* One command in each cycle.                                              *)

\* What makes CycleSeesOneCommand inductive: only a cycle has read anything, and
\* only of registered plans; and a service that missed the lock still holds the
\* mutex, so that the cycle it runs in has not read anything yet.  The loop of
\* unlockCommandUpdate runs in no cycle.
CycleInv ==
  /\ CycleSeesOneCommand
  /\ thread # "inside" => seen = NoCommands
  /\ service.busy /\ ~service.sawLock => seen = NoCommands
  /\ \A u \in Uuids : seen[u] # "none" => Registered(u)

LEMMA CycleInit == Init => CycleInv
<1> SUFFICES ASSUME Init PROVE CycleInv
  OBVIOUS
<1> QED
  BY DEF Init, CycleInv, CycleSeesOneCommand, NoCommands, Idle

LEMMA CycleNext == TypeOK /\ CycleInv /\ [Next]_vars => CycleInv'
<1> SUFFICES ASSUME TypeOK, CycleInv, [Next]_vars PROVE CycleInv'
  OBVIOUS
<1> USE DEF CycleInv, CycleSeesOneCommand, Registered
<1>1. ASSUME NEW commands \in Requests, OnCooperateCommandService(commands)
      PROVE  CycleInv'
  <2>1. ~locked => seen = NoCommands
    BY DEF TypeOK
  <2>2. service'.sawLock = locked /\ service'.busy
    BY <1>1 DEF OnCooperateCommandService
  <2> QED
    BY <1>1, <2>1, <2>2 DEF OnCooperateCommandService
<1>2. ASSUME NEW enable \in BOOLEAN, OnEnableService(enable)
      PROVE  CycleInv'
  BY <1>2 DEF OnEnableService
<1>3. CASE FinishCommandService
  <2>1. service'.busy = FALSE
    BY <1>3 DEF FinishCommandService, Idle
  <2>2. CASE service.sawLock
    BY <1>3, <2>1, <2>2 DEF FinishCommandService
  <2>3. CASE ~service.sawLock
    <3>1. seen = NoCommands /\ seen' = seen
      BY <1>3, <2>3 DEF FinishCommandService
    <3>2. UNCHANGED thread
      BY <1>3 DEF FinishCommandService
    <3> QED
      BY <2>1, <3>1, <3>2 DEF NoCommands
  <2> QED
    BY <2>2, <2>3
<1>4. CASE OnAutoModeService
  <2>1. ASSUME NEW u \in Uuids, Registered(u)
        PROVE  status'[u].registered /\ status'[u].command = status[u].command
    <3>1. status[u] \in Statuses
      BY <2>1 DEF TypeOK, None
    <3>2. status'[u] = [status[u] EXCEPT !.auto_mode = Head(relay)]
      BY <1>4, <2>1 DEF OnAutoModeService
    <3> QED
      BY <3>1, <3>2 DEF Statuses
  <2> QED
    BY <1>4, <2>1 DEF OnAutoModeService
<1>5. CASE LockCommandUpdate
  BY <1>5 DEF LockCommandUpdate
<1>6. ASSUME NEW u \in Uuids, NEW safe \in SafeInputs, UpdateCooperateStatus(u, safe)
      PROVE  CycleInv'
  <2>1. ASSUME NEW v \in Uuids, Registered(v)
        PROVE  status'[v].registered /\ status'[v].command = status[v].command
    <3>1. status[v] \in Statuses
      BY <2>1 DEF TypeOK, None
    <3>2. status'[v] = IF u = v THEN [status[v] EXCEPT !.safe = safe] ELSE status[v]
      BY <1>6, <2>1 DEF UpdateCooperateStatus, TypeOK
    <3> QED
      BY <3>1, <3>2 DEF Statuses
  <2> QED
    BY <1>6, <2>1 DEF UpdateCooperateStatus
<1>7. ASSUME NEW u \in Uuids, AskIsActivated(u)
      PROVE  CycleInv'
  BY <1>7 DEF AskIsActivated, TypeOK
<1>8. ASSUME NEW u \in Uuids, RemoveCooperateStatus(u)
      PROVE  CycleInv'
  <2>1. ASSUME NEW v \in Uuids, seen'[v] # "none"
        PROVE  u # v /\ status'[v] = status[v] /\ seen'[v] = seen[v]
    BY <1>8, <2>1 DEF RemoveCooperateStatus, TypeOK
  <2>2. seen = NoCommands => seen' = NoCommands
    BY <1>8 DEF RemoveCooperateStatus, NoCommands
  <2>3. UNCHANGED <<thread, service>>
    BY <1>8 DEF RemoveCooperateStatus
  <2> QED
    BY <2>1, <2>2, <2>3
<1>9. CASE ClearCooperateStatus
  BY <1>9 DEF ClearCooperateStatus, NoCommands
<1>10. CASE UnlockCommandUpdate
  BY <1>10 DEF UnlockCommandUpdate, NoCommands
<1>11. CASE ReadStoredCommands
  BY <1>11 DEF ReadStoredCommands
<1>12. ASSUME NEW found \in Found, ApplyStoredCommand(found)
       PROVE  CycleInv'
  <2>1. thread = "applying" /\ thread' \in {"applying", "outside"}
    BY <1>12 DEF ApplyStoredCommand, Advance
  <2>2. seen = NoCommands /\ seen' = seen /\ service' = service
    BY <1>12, <2>1 DEF ApplyStoredCommand
  <2> QED
    BY <2>1, <2>2 DEF NoCommands
<1>13. CASE UNCHANGED vars
  BY <1>13 DEF vars
<1> HIDE DEF CycleInv
<1> QED
  BY <1>1, <1>2, <1>3, <1>4, <1>5, <1>6, <1>7, <1>8, <1>9, <1>10, <1>11, <1>12, <1>13
  DEF Next, Operator, Planner, ApplyStoredCommands

\* Whatever the services and the planner interleave, isActivated rests on one
\* command for each plan within a cycle.
THEOREM OneCommandInEachCycle == Spec => []CycleSeesOneCommand
<1>1. CycleInv => CycleSeesOneCommand
  BY DEF CycleInv
<1> QED
  BY <1>1, TypeInit, TypeNext, CycleInit, CycleNext, PTL DEF Spec

-----------------------------------------------------------------------------
(* Nothing of an earlier life.                                             *)

\* A plan that no request has named twice is named once at most by the stored
\* commands, so that its removal erases the one there is.  What a service under
\* way or the loop of unlockCommandUpdate holds was received in this life: a status
\* is removed neither while the service holds the mutex nor inside of the loop.
LifeInv ==
  /\ NoCommandOutlivesItsPlan
  /\ \A u \in Uuids \ doubled :
        /\ \A i, j \in Naming(stored, u) : i = j
        /\ service.busy =>
              /\ Naming(service.commands, u) # {} => last[u] # "none"
              /\ \A i, j \in Naming(service.commands, u) : i = j
        /\ thread = "applying" =>
              (Naming(walk.commands, u) # {} => last[u] # "none")

LEMMA LifeInit == Init => LifeInv
<1> SUFFICES ASSUME Init PROVE LifeInv
  OBVIOUS
<1>0. stored = << >> /\ DOMAIN stored = {}
  BY DEF Init
<1>1. \A u : Naming(stored, u) = {}
  BY <1>0 DEF Naming
<1> QED
  BY <1>1 DEF Init, LifeInv, NoCommandOutlivesItsPlan, NoCommands, Idle, Registered, None

\* Commands none of which is younger than the last life of its plan leave a plan
\* of which nothing was heard as it is.
LEMMA UnheardIsUntouched ==
  ASSUME TypeOK, NEW commands \in Seq(AnyCommands),
         \A u \in Uuids \ doubled : Naming(commands, u) # {} => last[u] # "none",
         NEW u \in Uuids \ doubled, last[u] = "none"
  PROVE  UpdateCooperateCommandStatus(commands)[u] = status[u]
<1> QED
  BY UpdateOfStatus DEF TypeOK

\* A request leaves nothing heard of the plans it does not name, and remembers the
\* ones it names twice.
LEMMA ReceivedIsHeard ==
  ASSUME TypeOK, NEW commands \in Requests, Received(commands)
  PROVE  \A u \in Uuids :
           /\ Naming(commands, u) = {} => last'[u] = last[u]
           /\ Naming(commands, u) # {} => last'[u] # "none"
           /\ last'[u] = "none" => last[u] = "none"
           /\ u \notin doubled' => u \notin doubled /\ \A i, j \in Naming(commands, u) : i = j
<1>1. commands \in Seq(AnyCommands)
  BY RequestsAreCommands
<1>2. ASSUME NEW u \in Uuids
      PROVE  /\ Naming(commands, u) = {} => last'[u] = last[u]
             /\ Naming(commands, u) # {} => last'[u] # "none"
  <2>1. last'[u] = IF Naming(commands, u) = {} THEN last[u]
                   ELSE IF Registered(u) THEN CommandFor(commands, u) ELSE "refused"
    BY DEF Received
  <2>2. Naming(commands, u) # {} => CommandFor(commands, u) # "none"
    BY <1>1, CommandForType
  <2> QED
    BY <2>1, <2>2
<1>3. ASSUME NEW u \in Uuids, u \notin doubled'
      PROVE  u \notin doubled /\ \A i, j \in Naming(commands, u) : i = j
  BY <1>3 DEF Received, NamedTwice
<1> QED
  BY <1>2, <1>3

LEMMA LifeNext == TypeOK /\ LifeInv /\ [Next]_vars => LifeInv'
<1> SUFFICES ASSUME TypeOK, LifeInv, [Next]_vars PROVE LifeInv'
  OBVIOUS
<1> USE DEF LifeInv, NoCommandOutlivesItsPlan, Registered
<1>1. ASSUME NEW commands \in Requests, OnCooperateCommandService(commands)
      PROVE  LifeInv'
  <2>1. \A u \in Uuids :
           /\ Naming(commands, u) = {} => last'[u] = last[u]
           /\ Naming(commands, u) # {} => last'[u] # "none"
           /\ last'[u] = "none" => last[u] = "none"
           /\ u \notin doubled' => u \notin doubled /\ \A i, j \in Naming(commands, u) : i = j
    BY <1>1, ReceivedIsHeard DEF OnCooperateCommandService
  <2>2. service'.commands = commands /\ UNCHANGED <<status, stored, thread, walk>>
    BY <1>1 DEF OnCooperateCommandService
  <2>3. ASSUME NEW u \in Uuids \ doubled'
        PROVE  /\ last'[u] = "none" =>
                    /\ Naming(stored', u) = {}
                    /\ status'[u].registered => status'[u].command = "DEACTIVATE"
               /\ \A i, j \in Naming(stored', u) : i = j
    BY <2>1, <2>2
  <2>4. ASSUME NEW u \in Uuids \ doubled'
        PROVE  /\ Naming(service'.commands, u) # {} => last'[u] # "none"
               /\ \A i, j \in Naming(service'.commands, u) : i = j
    BY <2>1, <2>2
  <2>5. ASSUME NEW u \in Uuids \ doubled', thread' = "applying",
               Naming(walk'.commands, u) # {}
        PROVE  last'[u] # "none"
    BY <2>1, <2>2, <2>5
  <2>6. \A u : Naming(stored, u)' = Naming(stored', u)
               /\ Naming(service.commands, u)' = Naming(service'.commands, u)
               /\ Naming(walk.commands, u)' = Naming(walk'.commands, u)
    BY DEF Naming
  <2> QED
    BY <2>3, <2>4, <2>5, <2>6
<1>2. ASSUME NEW enable \in BOOLEAN, OnEnableService(enable)
      PROVE  LifeInv'
  BY <1>2 DEF OnEnableService, Naming
<1>3. CASE FinishCommandService
  <2>1. service'.busy = FALSE /\ UNCHANGED <<last, doubled, thread>>
    BY <1>3 DEF FinishCommandService, Idle
  <2>2. walk'.commands = walk.commands
    <3>1. walk' = walk \/ walk' = [walk EXCEPT !.replaced = TRUE]
      BY <1>3 DEF FinishCommandService
    <3>2. walk \in [commands : Seq(CooperateCommands), next : Nat, replaced : BOOLEAN]
      BY DEF TypeOK
    <3> QED
      BY <3>1, <3>2
  <2>3. CASE service.sawLock
    <3>1. stored' = service.commands /\ status' = status /\ service.busy
      BY <1>3, <2>3 DEF FinishCommandService
    <3> QED
      BY <2>1, <2>2, <3>1 DEF Naming
  <2>4. CASE ~service.sawLock
    <3>1. /\ status' = UpdateCooperateCommandStatus(service.commands)
          /\ stored' = stored /\ service.busy
      BY <1>3, <2>4 DEF FinishCommandService
    <3>2. service.commands \in Seq(AnyCommands)
      BY <3>1, ServiceCommands, RequestsAreCommands
    <3>3. \A u \in Uuids \ doubled : last[u] = "none" => status'[u] = status[u]
      BY <3>1, <3>2, UnheardIsUntouched
    <3> QED
      BY <2>1, <2>2, <3>1, <3>3 DEF Naming
  <2> QED
    BY <2>3, <2>4
<1>4. CASE OnAutoModeService
  <2>1. ASSUME NEW u \in Uuids, status'[u].registered
        PROVE  Registered(u) /\ status'[u].command = status[u].command
    <3>1. status'[u] = IF Registered(u) THEN [status[u] EXCEPT !.auto_mode = Head(relay)]
                                        ELSE None
      BY <1>4 DEF OnAutoModeService
    <3>2. Registered(u)
      BY <2>1, <3>1 DEF None
    <3>3. status[u] \in Statuses
      BY <3>2 DEF TypeOK, None
    <3> QED
      BY <3>1, <3>2, <3>3 DEF Statuses
  <2>2. UNCHANGED <<stored, service, thread, walk, last, doubled>>
    BY <1>4 DEF OnAutoModeService
  <2> QED
    BY <2>1, <2>2 DEF Naming
<1>5. CASE LockCommandUpdate
  BY <1>5 DEF LockCommandUpdate, Naming
<1>6. ASSUME NEW u \in Uuids, NEW safe \in SafeInputs, UpdateCooperateStatus(u, safe)
      PROVE  LifeInv'
  <2>1. ASSUME NEW v \in Uuids
        PROVE  \/ Registered(v) /\ status'[v].command = status[v].command
               \/ status'[v] = status[v]
               \/ status'[v].command = "DEACTIVATE"
    <3>1. CASE u # v
      BY <1>6, <3>1 DEF UpdateCooperateStatus, TypeOK
    <3>2. CASE u = v /\ Registered(v)
      <4>1. status[v] \in Statuses
        BY <3>2 DEF TypeOK, None
      <4>2. status'[v] = [status[v] EXCEPT !.safe = safe]
        BY <1>6, <3>2 DEF UpdateCooperateStatus, TypeOK
      <4> QED
        BY <3>2, <4>1, <4>2 DEF Statuses
    <3>3. CASE u = v /\ ~Registered(v)
      <4>1. status'[v] = [registered |-> TRUE, safe |-> safe, command |-> "DEACTIVATE",
                          auto_mode |-> autoInit]
        BY <1>6, <3>3 DEF UpdateCooperateStatus, TypeOK
      <4> QED
        BY <4>1
    <3> QED
      BY <3>1, <3>2, <3>3
  <2>2. UNCHANGED <<stored, service, thread, walk, last, doubled>>
    BY <1>6 DEF UpdateCooperateStatus
  <2> QED
    BY <2>1, <2>2 DEF Naming
<1>7. ASSUME NEW u \in Uuids, AskIsActivated(u)
      PROVE  LifeInv'
  BY <1>7 DEF AskIsActivated, Naming
<1>8. ASSUME NEW u \in Uuids, RemoveCooperateStatus(u)
      PROVE  LifeInv'
  <2>1. ~service.busy /\ service' = service /\ thread' = "inside" /\ doubled' = doubled
    BY <1>8 DEF RemoveCooperateStatus
  <2>2. stored' = RemoveStoredCommand(u)
    BY <1>8 DEF RemoveCooperateStatus
  <2>3. ASSUME NEW v \in Uuids \ doubled
        PROVE  /\ \A i, j \in Naming(stored', v) : i = j
               /\ Naming(stored, v) = {} => Naming(stored', v) = {}
               /\ v = u => Naming(stored', v) = {}
    BY <2>2, RemovalOfStored DEF TypeOK
  <2>4. ASSUME NEW v \in Uuids
        PROVE  /\ v = u => status'[v] = None
               /\ v # u => status'[v] = status[v] /\ last'[v] = last[v]
    BY <1>8 DEF RemoveCooperateStatus, TypeOK
  <2>5. None.registered = FALSE
    BY DEF None
  <2>6. ASSUME NEW v \in Uuids \ doubled, last'[v] = "none"
        PROVE  /\ Naming(stored', v) = {}
               /\ status'[v].registered => status'[v].command = "DEACTIVATE"
    BY <2>3, <2>4, <2>5, <2>6
  <2>7. \A v : Naming(stored, v)' = Naming(stored', v)
    BY DEF Naming
  <2> QED
    BY <2>1, <2>3, <2>6, <2>7
<1>9. CASE ClearCooperateStatus
  <2>1. /\ ~service.busy /\ service' = service /\ thread' # "applying" /\ stored' = << >>
        /\ status' = [u \in Uuids |-> None]
    BY <1>9 DEF ClearCooperateStatus
  <2>2. \A u : Naming(stored, u)' = {}
    BY <2>1 DEF Naming
  <2>3. None.registered = FALSE
    BY DEF None
  <2> QED
    BY <2>1, <2>2, <2>3
<1>10. CASE UnlockCommandUpdate
  BY <1>10 DEF UnlockCommandUpdate, Naming
<1>11. CASE ReadStoredCommands
  <2>1. UNCHANGED <<status, stored, service, last, doubled>>
    BY <1>11 DEF ReadStoredCommands
  <2>2. thread' = "applying" => walk'.commands = stored
    BY <1>11 DEF ReadStoredCommands, NoWalk
  <2> QED
    BY <2>1, <2>2 DEF Naming
<1>12. ASSUME NEW found \in Found, ApplyStoredCommand(found)
       PROVE  LifeInv'
  <2>1. /\ thread = "applying" /\ UNCHANGED <<stored, service, last, doubled>>
        /\ status' = UpdateCooperateCommandStatus(found)
    BY <1>12 DEF ApplyStoredCommand
  <2>2. found \in Seq(AnyCommands)
    BY <2>1, FoundIsCommand
  <2>3. \A u \in Uuids \ doubled : Naming(found, u) # {} => last[u] # "none"
    BY <2>1, FoundIsCommand
  <2>4. \A u \in Uuids \ doubled : last[u] = "none" => status'[u] = status[u]
    BY <2>1, <2>2, <2>3, UnheardIsUntouched
  <2>5. thread' = "applying" => walk'.commands = walk.commands
    <3>1. walk \in [commands : Seq(CooperateCommands), next : Nat, replaced : BOOLEAN]
      BY DEF TypeOK
    <3> QED
      BY <1>12, <3>1 DEF ApplyStoredCommand, Advance
  <2> QED
    BY <2>1, <2>4, <2>5 DEF Naming
<1>13. CASE UNCHANGED vars
  BY <1>13 DEF vars, Naming
<1> HIDE DEF LifeInv
<1> QED
  BY <1>1, <1>2, <1>3, <1>4, <1>5, <1>6, <1>7, <1>8, <1>9, <1>10, <1>11, <1>12, <1>13
  DEF Next, Operator, Planner, ApplyStoredCommands

\* A plan that is registered again is not activated by what was said before it
\* was removed, if no request has named it twice.
THEOREM NothingOutlivesAPlan == Spec => []NoCommandOutlivesItsPlan
<1>1. LifeInv => NoCommandOutlivesItsPlan
  BY DEF LifeInv
<1> QED
  BY <1>1, TypeInit, TypeNext, LifeInit, LifeNext, PTL DEF Spec
=============================================================================
