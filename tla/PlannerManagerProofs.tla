------------------------- MODULE PlannerManagerProofs -------------------------
(***************************************************************************)
(* For every set of modules, every priority and every choice of the two    *)
(* flags of simultaneous execution: between two cycles the lists of the    *)
(* manager agree with its records, no lane change is approved before its   *)
(* own plan was activated, and modules are only approved together when     *)
(* each of them may be.                                                    *)
(***************************************************************************)
EXTENDS PlannerManager, SequenceTheorems, TLAPS

States   == {"RUNNING", "SUCCESS", "FAILURE"}
Statuses == {"none", "registered", "activated"}

\* The part of TypeOK that the run of a module and its end are about.
RecordsTyped ==
    /\ state \in [Modules -> States]
    /\ waiting \in [Modules -> BOOLEAN]
    /\ launchLock \in [Modules -> BOOLEAN]
    /\ rtc \in [Modules -> Statuses]
    /\ demand \in [Avoidances \cup Others -> Demands]
    /\ granted \subseteq Modules

\* The lists, and that a module nobody has registered is at rest.
ListsTyped ==
    /\ registered \subseteq Modules
    /\ approved \in Seq(Modules)
    /\ \A i, j \in DOMAIN approved : approved[i] = approved[j] => i = j
    /\ candidates \subseteq Modules /\ executable \subseteq Modules /\ queue \subseteq Modules
    /\ leftBehind \subseteq Modules
    /\ phase \in {"idle", "approved", "request", "candidates"}

AtRest == \A m \in Modules \ registered : rtc[m] = "none" /\ state[m] = "SUCCESS"

\* The candidates this cycle has run so far.
RunCandidates == IF phase = "candidates" THEN executable \ queue ELSE {}

\* The two lists, the modules left behind and the records of the module managers.
ListsDisjoint ==
    /\ Approved \cap candidates = {}
    /\ leftBehind \cap (Approved \cup candidates) = {}
    /\ registered = Approved \cup candidates \cup leftBehind \cup RunCandidates

\* What each phase of a cycle knows: the approved modules may only wait while they
\* are run, the candidates wait until they are run, and the modules to run are none
\* of the approved ones.
PhaseInv ==
    /\ phase = "approved" => queue \subseteq Approved
    /\ phase # "approved" => \A m \in Approved : ~waiting[m]
    /\ phase # "candidates" => \A m \in candidates : waiting[m]
    /\ phase = "candidates" =>
        /\ executable \cap (Approved \cup leftBehind) = {}
        /\ queue \subseteq executable

\* A lane change that is registered waits until its own plan is activated.
Authorised ==
    \A m \in LaneChanges :
        /\ m \in registered => waiting[m] \/ m \in granted
        /\ m \in Approved => m \in granted

\* What is run to join approved modules may join them.
Joining ==
    phase = "candidates" /\ approved # <<>>
        => Approved \cup executable \subseteq SimultaneousApproved

\* The inductive invariant of the manager.
ManagerInv ==
    /\ RecordsTyped /\ ListsTyped /\ AtRest
    /\ ListsDisjoint /\ PhaseInv /\ Authorised
    /\ ApprovedTogether /\ Joining

-----------------------------------------------------------------------------
(* The records of one module. *)

LEMMA TypesSplit == TypeOK <=> RecordsTyped /\ ListsTyped /\ AtRest
<1> QED
  BY Zenon DEF TypeOK, RecordsTyped, ListsTyped, AtRest, States, Statuses

\* A run of a module only yields values of the types, and a lane change that
\* does not start activated goes on waiting.
LEMMA RunsTyped ==
  ASSUME RecordsTyped, NEW m \in Modules, NEW wait \in BOOLEAN, NEW r \in Runs(m, wait)
  PROVE  /\ r.state \in States /\ r.waiting \in BOOLEAN /\ r.launchLock \in BOOLEAN
         /\ r.rtc \in Statuses
         /\ m \in Avoidances \cup Others => r.demand \in Demands
         /\ m \in LaneChanges /\ wait /\ ~IsActivated(m) => r.waiting
<1>1. /\ rtc[m] \in Statuses /\ launchLock[m] \in BOOLEAN /\ "none" \in Statuses
      /\ "registered" \in Statuses /\ "kept" \in Demands /\ "none" \in Demands
  BY PlannerAssumption DEF RecordsTyped, Statuses
<1>2. ASSUME NEW st \in States, NEW w \in BOOLEAN, NEW lock \in BOOLEAN,
             NEW status \in Statuses, NEW rest, r = Result(st, w, lock, status, rest)
      PROVE  /\ r.state \in States /\ r.waiting \in BOOLEAN /\ r.launchLock \in BOOLEAN
             /\ r.rtc \in Statuses /\ r.waiting = w /\ r.demand = rest
  BY <1>2 DEF Result
<1>3. CASE m \in LaneChanges
  <2>1. r \in LaneChangeRuns(m, wait)
    BY <1>3 DEF Runs
  <2>2. CASE r = Result("FAILURE", wait, FALSE, rtc[m], "none")
    BY <1>1, <1>2, <2>2 DEF States
  <2>3. CASE /\ ~wait \/ IsActivated(m)
             /\ r # Result("FAILURE", wait, FALSE, rtc[m], "none")
    <3>1. \E st \in States, status \in {rtc[m], "none"} :
            r = Result(st, FALSE, FALSE, status, "none")
      <4>1. LaneChangeRuns(m, wait)
              = {Result("FAILURE", wait, FALSE, rtc[m], "none")}
                \cup {Result(st, FALSE, FALSE, rtc[m], "none") : st \in States}
                \cup {Result(st, FALSE, FALSE, "none", "none") : st \in States}
        BY <2>3 DEF LaneChangeRuns, States
      <4> QED
        BY <2>1, <2>3, <4>1
    <3> QED
      BY <1>1, <1>2, <2>3, <3>1
  <2>4. CASE /\ ~(~wait \/ IsActivated(m))
             /\ r # Result("FAILURE", wait, FALSE, rtc[m], "none")
    <3>1. \E st \in States : r = Result(st, TRUE, FALSE, "registered", "none")
      <4>1. LaneChangeRuns(m, wait)
              = {Result("FAILURE", wait, FALSE, rtc[m], "none")} \cup
                {Result(st, TRUE, FALSE, "registered", "none") : st \in States}
        BY <2>4 DEF LaneChangeRuns, States
      <4> QED
        BY <2>1, <2>4, <4>1
    <3> QED
      BY <1>1, <1>2, <3>1
  <2> QED
    BY <2>2, <2>3, <2>4
<1>4. CASE m \notin LaneChanges /\ m \in Avoidances
  <2>1. demand[m] \in Demands
    BY <1>4 DEF RecordsTyped
  <2>2. r \in AvoidanceRuns(m, wait)
    BY <1>4 DEF Runs
  <2>3. \E w \in BOOLEAN, lock \in BOOLEAN, st \in Statuses, rest \in Demands, end \in States :
          r = Result(end, w, lock, st, IF end = "SUCCESS" THEN "none" ELSE rest)
    <3> DEFINE ends == IF demand[m] = "none" THEN {"SUCCESS"} ELSE {"RUNNING", "SUCCESS"}
               Ran(w, lock, status, rest) ==
                 {Result(st, w, lock, status, IF st = "SUCCESS" THEN "none" ELSE rest)
                    : st \in ends}
    <3>1. \E w \in BOOLEAN, lock \in BOOLEAN, st \in Statuses, rest \in Demands :
            r \in Ran(w, lock, st, rest)
      <4> HIDE DEF ends
      <4> DEFINE need == demand[m]
      <4>1. AvoidanceRuns(m, wait) =
              IF need = "yield" THEN Ran(FALSE, FALSE, "none", need)
              ELSE IF need \in {"none", "kept"}
                   THEN Ran(FALSE, launchLock[m], IF wait THEN "none" ELSE rtc[m], need)
              ELSE IF IsActivated(m) THEN Ran(wait, TRUE, "none", "kept")
              ELSE IF ~wait THEN Ran(TRUE, launchLock[m], rtc[m], need)
              ELSE IF need = "ahead" THEN Ran(TRUE, launchLock[m], "registered", need)
              ELSE Ran(FALSE, launchLock[m], "none", need)
        BY Zenon DEF AvoidanceRuns, ends
      <4> HIDE DEF Ran
      <4> QED
        BY <1>1, <2>1, <2>2, <4>1
    <3>2. ends \subseteq States
      BY DEF States
    <3> HIDE DEF ends
    <3> QED
      BY <3>1, <3>2
  <2> QED
    BY <1>1, <1>2, <1>4, <2>3
<1>5. CASE m \notin LaneChanges /\ m \notin Avoidances
  <2>1. demand[m] \in Demands
    BY <1>5 DEF RecordsTyped, Modules
  <2>2. r = Result(IF demand[m] = "none" THEN "SUCCESS" ELSE "RUNNING", wait, FALSE,
                   rtc[m], demand[m])
    BY <1>5 DEF Runs, OtherRuns
  <2> QED
    BY <1>1, <1>2, <1>5, <2>1, <2>2 DEF States
<1> QED
  BY <1>3, <1>4, <1>5

\* A run changes the records of its module only, takes no activation back, and a
\* lane change that was waiting still waits or was activated.
LEMMA RunChanges ==
  ASSUME RecordsTyped, NEW m \in Modules, NEW wait \in BOOLEAN, RunModule(m, wait)
  PROVE  /\ RecordsTyped'
         /\ \A n \in Modules \ {m} :
                state'[n] = state[n] /\ waiting'[n] = waiting[n] /\ rtc'[n] = rtc[n]
         /\ granted \subseteq granted'
         /\ m \in LaneChanges /\ wait => waiting'[m] \/ m \in granted'
<1>1. PICK r \in Runs(m, wait) :
        /\ state' = [state EXCEPT ![m] = r.state]
        /\ waiting' = [waiting EXCEPT ![m] = r.waiting]
        /\ launchLock' = [launchLock EXCEPT ![m] = r.launchLock]
        /\ rtc' = [rtc EXCEPT ![m] = r.rtc]
        /\ demand' = [a \in DOMAIN demand |-> IF a = m THEN r.demand ELSE demand[a]]
  BY DEF RunModule
<1>2. granted' = IF IsActivated(m) THEN granted \cup {m} ELSE granted
  BY DEF RunModule
<1>3. /\ r.state \in States /\ r.waiting \in BOOLEAN /\ r.launchLock \in BOOLEAN
      /\ r.rtc \in Statuses
      /\ m \in Avoidances \cup Others => r.demand \in Demands
      /\ m \in LaneChanges /\ wait /\ ~IsActivated(m) => r.waiting
  BY RunsTyped
<1>4. RecordsTyped'
  <2>1. state' \in [Modules -> States] /\ rtc' \in [Modules -> Statuses]
    BY <1>1, <1>3 DEF RecordsTyped
  <2>2. waiting' \in [Modules -> BOOLEAN] /\ launchLock' \in [Modules -> BOOLEAN]
    BY <1>1, <1>3 DEF RecordsTyped
  <2>3. demand' \in [Avoidances \cup Others -> Demands]
    BY <1>1, <1>3 DEF RecordsTyped
  <2>4. granted' \subseteq Modules
    BY <1>2 DEF RecordsTyped
  <2> QED
    BY <2>1, <2>2, <2>3, <2>4 DEF RecordsTyped
<1>5. \A n \in Modules \ {m} :
        state'[n] = state[n] /\ waiting'[n] = waiting[n] /\ rtc'[n] = rtc[n]
  BY <1>1 DEF RecordsTyped
<1>6. m \in LaneChanges /\ wait => waiting'[m] \/ m \in granted'
  <2>1. waiting'[m] = r.waiting
    BY <1>1 DEF RecordsTyped
  <2> QED
    BY <1>2, <1>3, <2>1
<1> QED
  BY <1>2, <1>4, <1>5, <1>6

\* What the end of the modules ms leaves.
LEMMA ExitChanges ==
  ASSUME RecordsTyped, AtRest, NEW ms, Exit(ms), UNCHANGED demand
  PROVE  /\ RecordsTyped' /\ AtRest'
         /\ registered' = registered \ ms /\ granted' = granted \ ms
         /\ \A n \in Modules : waiting'[n] <=> waiting[n] /\ n \notin ms
<1>1. \A n \in Modules : /\ state'[n] = IF n \in ms THEN "SUCCESS" ELSE state[n]
                         /\ rtc'[n] = IF n \in ms THEN "none" ELSE rtc[n]
                         /\ waiting'[n] <=> waiting[n] /\ n \notin ms
  BY DEF Exit
<1>2. RecordsTyped'
  BY DEF Exit, RecordsTyped, States, Statuses
<1>3. AtRest'
  BY <1>1 DEF Exit, AtRest
<1> QED
  BY <1>1, <1>2, <1>3 DEF Exit

-----------------------------------------------------------------------------
(* The steps around the cycle. *)

LEMMA ApprovedFacts ==
  ASSUME ListsTyped
  PROVE  /\ Len(approved) \in Nat /\ DOMAIN approved = 1 .. Len(approved)
         /\ Approved \subseteq Modules
         /\ \A i \in 1 .. Len(approved) : approved[i] \in Approved
         /\ \A m \in Approved : \E i \in 1 .. Len(approved) : m = approved[i]
         /\ approved = <<>> <=> Len(approved) = 0
<1>1. approved \in Seq(Modules)
  BY DEF ListsTyped
<1>2. Len(approved) \in Nat /\ DOMAIN approved = 1 .. Len(approved)
  BY <1>1, LenProperties
<1>3. \A i \in 1 .. Len(approved) : approved[i] \in Modules
  BY <1>1, ElementOfSeq
<1>4. approved = <<>> <=> Len(approved) = 0
  BY <1>1, EmptySeq
<1> QED
  BY <1>2, <1>3, <1>4 DEF Approved

LEMMA ManagerInit == Init => ManagerInv
<1> SUFFICES ASSUME Init PROVE ManagerInv
  OBVIOUS
<1>1. Approved = {} /\ Len(approved) = 0 /\ approved \in Seq(Modules) /\ DOMAIN approved = {}
  BY EmptySeq DEF Init, Approved
<1>2. RecordsTyped
  BY PlannerAssumption DEF Init, RecordsTyped, States, Statuses
<1>3. ListsTyped /\ AtRest
  BY <1>1 DEF Init, ListsTyped, AtRest
<1>4. ListsDisjoint /\ PhaseInv /\ Authorised
  BY <1>1 DEF Init, ListsDisjoint, RunCandidates, PhaseInv, Authorised
<1>5. ApprovedTogether /\ Joining
  BY <1>1 DEF Init, ApprovedTogether, Joining
<1> QED
  BY <1>2, <1>3, <1>4, <1>5 DEF ManagerInv

LEMMA ManagerUnchanged == ManagerInv /\ UNCHANGED vars => ManagerInv'
<1> QED
  BY DEF vars, moduleVars, ManagerInv, RecordsTyped, ListsTyped, AtRest, ListsDisjoint,
     RunCandidates, PhaseInv, Authorised, ApprovedTogether, Joining, Approved

LEMMA StartCycleKeeps ==
  ASSUME ManagerInv, StartCycle
  PROVE  ManagerInv'
<1>1. /\ phase = "idle" /\ phase' = "approved" /\ queue' = Approved
      /\ demand' \in [Avoidances \cup Others -> Demands]
      /\ UNCHANGED <<state, waiting, launchLock, rtc, registered, approved, candidates,
                     executable, granted, leftBehind>>
  BY DEF StartCycle
<1>2. Approved' = Approved /\ Approved \subseteq Modules
  BY <1>1, ApprovedFacts DEF Approved, ManagerInv
<1>3. RecordsTyped' /\ ListsTyped' /\ AtRest'
  BY <1>1, <1>2 DEF ManagerInv, RecordsTyped, ListsTyped, AtRest
<1>4. ListsDisjoint' /\ PhaseInv' /\ Authorised' /\ ApprovedTogether' /\ Joining'
  BY <1>1, <1>2 DEF ManagerInv, ListsDisjoint, RunCandidates, PhaseInv, Authorised,
     ApprovedTogether, Joining
<1> QED
  BY <1>3, <1>4 DEF ManagerInv

LEMMA ResetKeeps ==
  ASSUME ManagerInv, Reset
  PROVE  ManagerInv'
<1>1. /\ phase = "idle" /\ Exit(Modules) /\ approved' = <<>> /\ candidates' = {}
      /\ leftBehind' = {}
      /\ UNCHANGED <<demand, executable, phase, queue>>
  BY DEF Reset
<1>2. RecordsTyped' /\ AtRest' /\ registered' = {} /\ granted' = {}
  BY <1>1, ExitChanges DEF ManagerInv, RecordsTyped, ListsTyped
<1>3. Approved' = {} /\ Len(approved') = 0 /\ approved' \in Seq(Modules) /\ DOMAIN approved' = {}
  BY <1>1, EmptySeq DEF Approved
<1>4. ListsTyped'
  BY <1>1, <1>2, <1>3 DEF ManagerInv, ListsTyped
<1>5. ListsDisjoint' /\ PhaseInv' /\ Authorised' /\ ApprovedTogether' /\ Joining'
  BY <1>1, <1>2, <1>3 DEF ListsDisjoint, RunCandidates, PhaseInv, Authorised,
     ApprovedTogether, Joining
<1> QED
  BY <1>2, <1>4, <1>5 DEF ManagerInv

\* Only a plan that was registered can be answered, and no list reads the answer.
LEMMA AnswerKeeps ==
  ASSUME ManagerInv, NEW m \in Modules, Answer(m)
  PROVE  ManagerInv'
<1>1. /\ rtc[m] # "none"
      /\ rtc' = [rtc EXCEPT ![m] = IF @ = "activated" THEN "registered" ELSE "activated"]
      /\ UNCHANGED <<state, waiting, launchLock, demand, registered, approved, candidates,
                     executable, phase, queue, granted, leftBehind>>
  BY DEF Answer
<1>2. rtc' \in [Modules -> Statuses] /\ \A n \in Modules \ {m} : rtc'[n] = rtc[n]
  BY <1>1 DEF ManagerInv, RecordsTyped, Statuses
<1>3. RecordsTyped' /\ ListsTyped'
  BY <1>1, <1>2 DEF ManagerInv, RecordsTyped, ListsTyped
<1>4. AtRest'
  BY <1>1, <1>2 DEF ManagerInv, AtRest
<1>5. Approved' = Approved
  BY <1>1 DEF Approved
<1>6. ListsDisjoint' /\ PhaseInv' /\ Authorised' /\ ApprovedTogether' /\ Joining'
  BY <1>1, <1>5 DEF ManagerInv, ListsDisjoint, RunCandidates, PhaseInv, Authorised,
     ApprovedTogether, Joining
<1> QED
  BY <1>3, <1>4, <1>6 DEF ManagerInv

-----------------------------------------------------------------------------
(* The steps of a cycle. *)

LEMMA RunApprovedKeeps ==
  ASSUME ManagerInv, RunApproved
  PROVE  ManagerInv'
<1>1. PICK i \in DOMAIN approved :
        /\ approved[i] \in queue
        /\ RunModule(approved[i], waiting[approved[i]])
        /\ queue' = queue \ {approved[i]}
  BY DEF RunApproved
<1>2. /\ phase = "approved"
      /\ UNCHANGED <<registered, approved, candidates, executable, phase, leftBehind>>
  BY DEF RunApproved
<1> DEFINE m == approved[i]
<1>3. m \in Approved /\ m \in Modules /\ m \in registered /\ m \notin candidates
  BY <1>1, ApprovedFacts DEF ManagerInv, ListsDisjoint, RunCandidates
<1>4. waiting[m] \in BOOLEAN
  BY <1>3 DEF ManagerInv, RecordsTyped
<1>5. RunModule(m, waiting[m]) /\ queue' = queue \ {m}
  BY <1>1
<1> HIDE DEF m
<1>6. /\ RecordsTyped'
      /\ \A n \in Modules \ {m} :
           state'[n] = state[n] /\ waiting'[n] = waiting[n] /\ rtc'[n] = rtc[n]
      /\ granted \subseteq granted'
      /\ m \in LaneChanges /\ waiting[m] => waiting'[m] \/ m \in granted'
  BY <1>3, <1>4, <1>5, RunChanges DEF ManagerInv
<1>7. Approved' = Approved /\ Approved \subseteq Modules
  BY <1>2, ApprovedFacts DEF Approved, ManagerInv
<1>8. ListsTyped' /\ AtRest'
  BY <1>2, <1>3, <1>5, <1>6 DEF ManagerInv, ListsTyped, AtRest
<1>9. ListsDisjoint' /\ PhaseInv'
  BY <1>2, <1>3, <1>5, <1>6, <1>7 DEF ManagerInv, ListsTyped, ListsDisjoint, RunCandidates, PhaseInv
<1>10. Authorised'
  BY <1>2, <1>3, <1>6, <1>7 DEF ManagerInv, Authorised, Modules
<1>11. ApprovedTogether' /\ Joining'
  BY <1>2, <1>7 DEF ManagerInv, ApprovedTogether, Joining
<1> QED
  BY <1>6, <1>8, <1>9, <1>10, <1>11 DEF ManagerInv

\* The first n approved modules.
LEMMA PrefixFacts ==
  ASSUME ListsTyped, NEW n \in 0 .. Len(approved), approved' = SubSeq(approved, 1, n)
  PROVE  /\ approved' \in Seq(Modules) /\ Len(approved') = n /\ DOMAIN approved' = 1 .. n
         /\ \A i \in 1 .. n : approved'[i] = approved[i]
         /\ Approved' = {approved[i] : i \in 1 .. n}
<1>1. n \in Nat /\ \A i \in 1 .. n : approved[i] \in Modules
  BY ApprovedFacts
<1>2. /\ approved' \in Seq(Modules)
      /\ Len(approved') = IF 1 <= n THEN n - 1 + 1 ELSE 0
      /\ \A i \in 1 .. n - 1 + 1 : approved'[i] = approved[1 + i - 1]
  BY <1>1, SubSeqProperties
<1>3. Len(approved') = n /\ \A i \in 1 .. n : approved'[i] = approved[i]
  BY <1>1, <1>2
<1>4. DOMAIN approved' = 1 .. n
  BY <1>2, <1>3, LenProperties
<1> QED
  BY <1>2, <1>3, <1>4 DEF Approved

LEMMA SettleApprovedKeeps ==
  ASSUME ManagerInv, SettleApproved
  PROVE  ManagerInv'
<1>1. PICK kept \in 0 .. Len(approved), left \in 0 .. Len(approved) :
        left <= kept /\ KeptBeforeWaiting(kept) /\ Leave(kept, left)
  <2>1. PICK kept \in 0 .. Len(approved) :
          \E alive \in 0 .. kept : \E last \in 0 .. alive :
            /\ KeptBeforeWaiting(kept)
            /\ \E left \in {alive, last} : Leave(kept, left)
    BY Zenon DEF SettleApproved
  <2> QED
    BY <2>1, ApprovedFacts DEF ManagerInv
<1> DEFINE again == {approved[i] : i \in {kept + 1} \cap DOMAIN approved}
           behind == {approved[i] : i \in kept + 2 .. Len(approved)}
           expired == {approved[i] : i \in left + 1 .. kept}
           discarded == IF expired # {} THEN again ELSE {}
           cleared == IF expired \cup again # {} THEN candidates ELSE {}
           gone == expired \cup discarded \cup cleared
<1>2. /\ Len(approved) \in Nat /\ DOMAIN approved = 1 .. Len(approved)
      /\ Approved \subseteq Modules
      /\ \A i \in 1 .. Len(approved) : approved[i] \in Approved
      /\ \A i, j \in 1 .. Len(approved) : approved[i] = approved[j] => i = j
  BY ApprovedFacts DEF ManagerInv, ListsTyped
<1>3. left \in 0 .. kept /\ left \in 0 .. Len(approved)
  BY <1>1, <1>2
<1>4. /\ phase = "approved" /\ queue = {} /\ phase' = "request"
      /\ Exit(gone) /\ approved' = SubSeq(approved, 1, left)
      /\ candidates' = (candidates \ cleared) \cup (again \ discarded)
      /\ leftBehind' = leftBehind \cup behind
      /\ UNCHANGED <<demand, executable, queue>>
  BY <1>1 DEF SettleApproved, Leave
<1>5. /\ \A i \in 1 .. kept : ~waiting[approved[i]]
      /\ kept < Len(approved) => waiting[approved[kept + 1]]
  BY <1>1 DEF KeptBeforeWaiting, StopsAt, IsWaiting
<1>6. /\ approved' \in Seq(Modules) /\ Len(approved') = left /\ DOMAIN approved' = 1 .. left
      /\ \A i \in 1 .. left : approved'[i] = approved[i]
      /\ Approved' = {approved[i] : i \in 1 .. left}
  BY <1>3, <1>4, PrefixFacts DEF ManagerInv
<1>7. Approved = Approved' \cup expired \cup again \cup behind
  <2>1. \A i \in 1 .. Len(approved) : \/ i \in 1 .. left \/ i \in left + 1 .. kept
                                       \/ i \in {kept + 1} \/ i \in kept + 2 .. Len(approved)
    BY <1>2, <1>3
  <2>2. /\ 1 .. left \subseteq DOMAIN approved /\ left + 1 .. kept \subseteq DOMAIN approved
        /\ kept + 2 .. Len(approved) \subseteq DOMAIN approved
    BY <1>2, <1>3
  <2>3. /\ \A i \in 1 .. left : approved[i] \in Approved'
        /\ \A i \in left + 1 .. kept : approved[i] \in expired
        /\ \A i \in {kept + 1} : i \in DOMAIN approved => approved[i] \in again
        /\ \A i \in kept + 2 .. Len(approved) : approved[i] \in behind
    BY <1>6
  <2>4. Approved \subseteq Approved' \cup expired \cup again \cup behind
    BY <1>2, <2>1, <2>3 DEF Approved
  <2>5. /\ Approved' \subseteq Approved /\ expired \subseteq Approved
        /\ again \subseteq Approved /\ behind \subseteq Approved
    BY <1>2, <1>6, <2>2
  <2> QED
    BY <2>4, <2>5
<1>8. /\ Approved' \cap again = {} /\ Approved' \cap expired = {} /\ Approved' \cap behind = {}
      /\ behind \cap again = {} /\ behind \cap expired = {}
  BY <1>2, <1>3, <1>6
<1>9. (\A m \in again : waiting[m]) /\ (\A m \in Approved' : ~waiting[m])
  BY <1>2, <1>3, <1>5, <1>6
<1> HIDE DEF again, expired, behind
<1>10. /\ Approved \cap candidates = {} /\ leftBehind \cap (Approved \cup candidates) = {}
       /\ registered = Approved \cup candidates \cup leftBehind
       /\ candidates \subseteq Modules /\ leftBehind \subseteq Modules
  BY <1>4 DEF ManagerInv, ListsTyped, ListsDisjoint, RunCandidates
<1>11. /\ Approved' \cap gone = {} /\ Approved' \cap candidates' = {} /\ candidates' \cap gone = {}
       /\ leftBehind' \cap (Approved' \cup candidates') = {}
  BY <1>4, <1>7, <1>8, <1>10
<1>12. /\ candidates' \subseteq candidates \cup again
       /\ registered \ gone = Approved' \cup candidates' \cup leftBehind'
  BY <1>4, <1>7, <1>8, <1>10
<1> HIDE DEF gone, discarded, cleared
<1>13. /\ RecordsTyped' /\ AtRest'
       /\ registered' = registered \ gone /\ granted' = granted \ gone
       /\ \A n \in Modules : waiting'[n] <=> waiting[n] /\ n \notin gone
  BY <1>4, ExitChanges DEF ManagerInv
<1>14. ListsTyped'
  <2>1. \A i, j \in DOMAIN approved' : approved'[i] = approved'[j] => i = j
    BY <1>2, <1>3, <1>6
  <2> QED
    BY <1>2, <1>4, <1>6, <1>7, <1>10, <1>12, <1>13, <2>1 DEF ManagerInv, ListsTyped
<1>15. ListsDisjoint'
  BY <1>4, <1>11, <1>12, <1>13 DEF ListsDisjoint, RunCandidates
<1>16. PhaseInv'
  <2>1. \A m \in candidates : waiting[m]
    BY <1>4 DEF ManagerInv, PhaseInv
  <2>2. (\A m \in Approved' : ~waiting'[m]) /\ (\A m \in candidates' : waiting'[m])
    BY <1>2, <1>7, <1>9, <1>10, <1>11, <1>12, <1>13, <2>1
  <2> QED
    BY <1>4, <2>2 DEF PhaseInv
<1>17. Authorised'
  BY <1>7, <1>11, <1>13 DEF ManagerInv, Authorised, Modules
<1>18. ApprovedTogether' /\ Joining'
  BY <1>2, <1>3, <1>4, <1>6, <1>7 DEF ManagerInv, ApprovedTogether, Joining
<1> QED
  BY <1>13, <1>14, <1>15, <1>16, <1>17, <1>18 DEF ManagerInv

\* Whatever is requested is no approved module, and may join the approved ones.
LEMMA RequestsMayJoin ==
  ASSUME ManagerInv, NEW requesting \in SUBSET Modules,
         NEW requests \in RequestModules(requesting)
  PROVE  /\ requests \subseteq Modules /\ requests \cap (Approved \cup leftBehind) = {}
         /\ approved # <<>> /\ requests # {}
              => Approved \cup requests \subseteq SimultaneousApproved
<1> DEFINE eligible == {m \in Modules : approved = <<>> \/ m \in SimultaneousApproved}
           running == eligible \cap candidates
           new == {m \in (eligible \cap requesting) \ running : CanLaunchNewModule(m)}
<1>1. requests = {} \/ (~Blocked /\ requests \subseteq running \cup new)
  BY DEF RequestModules
<1>2. running \cap (Approved \cup leftBehind) = {} /\ new \cap (Approved \cup leftBehind) = {}
  BY DEF ManagerInv, ListsDisjoint, RunCandidates, CanLaunchNewModule
<1> QED
  BY <1>1, <1>2 DEF Blocked

LEMMA FindRequestsKeeps ==
  ASSUME ManagerInv, FindRequests
  PROVE  ManagerInv'
<1>1. PICK requesting \in SUBSET Modules :
        \E requests \in RequestModules(requesting) : executable' \in ExecutableModules(requests)
  BY DEF FindRequests
<1>2. PICK requests \in RequestModules(requesting) : executable' \subseteq requests
  BY <1>1 DEF ExecutableModules
<1>3. /\ phase = "request" /\ queue' = executable'
      /\ phase' = IF executable' = {} THEN "idle" ELSE "candidates"
      /\ UNCHANGED <<moduleVars, registered, approved, candidates, granted, leftBehind>>
  BY DEF FindRequests
<1>4. /\ executable' \subseteq Modules /\ executable' \cap (Approved \cup leftBehind) = {}
      /\ approved # <<>> /\ executable' # {}
           => Approved \cup executable' \subseteq SimultaneousApproved
  BY <1>2, RequestsMayJoin
<1>5. Approved' = Approved
  BY <1>3 DEF Approved
<1>6. RecordsTyped' /\ ListsTyped' /\ AtRest'
  BY <1>3, <1>4 DEF moduleVars, ManagerInv, RecordsTyped, ListsTyped, AtRest
<1>7. ListsDisjoint' /\ PhaseInv' /\ Authorised'
  BY <1>3, <1>4, <1>5 DEF moduleVars, ManagerInv, ListsDisjoint, RunCandidates, PhaseInv, Authorised
<1>8. ApprovedTogether' /\ Joining'
  BY <1>3, <1>4, <1>5 DEF ManagerInv, ApprovedTogether, Joining
<1> QED
  BY <1>6, <1>7, <1>8 DEF ManagerInv

LEMMA RunCandidateKeeps ==
  ASSUME ManagerInv, RunCandidate
  PROVE  ManagerInv'
<1>1. PICK m \in queue : /\ RunModule(m, WaitingAtEntry(m))
                         /\ registered' = registered \cup {m}
                         /\ queue' = queue \ {m}
  BY DEF RunCandidate
<1>2. phase = "candidates" /\ UNCHANGED <<approved, candidates, executable, phase, leftBehind>>
  BY DEF RunCandidate
<1>3. m \in Modules /\ m \in executable /\ m \notin Approved
  BY <1>1, <1>2 DEF ManagerInv, ListsTyped, PhaseInv
<1>4. /\ WaitingAtEntry(m) \in BOOLEAN
      /\ waiting[m] => WaitingAtEntry(m)
      /\ m \in LaneChanges \ registered => WaitingAtEntry(m)
  BY <1>3 DEF ManagerInv, RecordsTyped, WaitingAtEntry
<1>5. /\ RecordsTyped'
      /\ \A n \in Modules \ {m} :
           state'[n] = state[n] /\ waiting'[n] = waiting[n] /\ rtc'[n] = rtc[n]
      /\ granted \subseteq granted'
      /\ m \in LaneChanges /\ WaitingAtEntry(m) => waiting'[m] \/ m \in granted'
  BY <1>1, <1>3, <1>4, RunChanges DEF ManagerInv
<1>6. Approved' = Approved /\ Approved \subseteq Modules
  BY <1>2, ApprovedFacts DEF Approved, ManagerInv
<1>7. ListsTyped' /\ AtRest'
  BY <1>1, <1>2, <1>3, <1>5 DEF ManagerInv, ListsTyped, AtRest
<1>8. ListsDisjoint' /\ PhaseInv'
  BY <1>1, <1>2, <1>3, <1>5, <1>6 DEF ManagerInv, ListsTyped, ListsDisjoint, RunCandidates, PhaseInv
<1>9. Authorised'
  BY <1>1, <1>3, <1>4, <1>5, <1>6 DEF ManagerInv, Authorised, Modules
<1>10. ApprovedTogether' /\ Joining'
  BY <1>2, <1>6 DEF ManagerInv, ApprovedTogether, Joining
<1> QED
  BY <1>5, <1>7, <1>8, <1>9, <1>10 DEF ManagerInv

LEMMA SettleWaitingKeeps ==
  ASSUME ManagerInv, SettleWaiting
  PROVE  ManagerInv'
<1> DEFINE gone == (executable \cup candidates) \ Alive
<1>1. /\ phase = "candidates" /\ queue = {} /\ Approvable = {} /\ Exit(gone)
      /\ candidates' = Alive /\ executable' = {} /\ phase' = "idle"
      /\ UNCHANGED <<demand, approved, queue, leftBehind>>
  BY DEF SettleWaiting
<1>2. /\ RecordsTyped' /\ AtRest'
      /\ registered' = registered \ gone /\ granted' = granted \ gone
      /\ \A n \in Modules : waiting'[n] <=> waiting[n] /\ n \notin gone
  BY <1>1, ExitChanges DEF ManagerInv
<1>3. Approved' = Approved /\ Approved \subseteq Modules
  BY <1>1, ApprovedFacts DEF Approved, ManagerInv
<1>4. /\ Approved \cap gone = {} /\ Alive \cap gone = {} /\ Alive \cap Approved = {}
      /\ Alive \subseteq registered /\ Alive \subseteq Modules
      /\ \A m \in Alive : waiting[m]
  BY <1>1 DEF ManagerInv, ListsTyped, ListsDisjoint, RunCandidates, PhaseInv, Alive, Approvable
<1>5. registered \ gone = Approved \cup Alive \cup leftBehind /\ leftBehind \cap Alive = {}
      /\ leftBehind \cap Approved = {}
  <2>1. Alive \subseteq executable
    BY DEF Alive
  <2>2. /\ registered = Approved \cup candidates \cup leftBehind \cup executable
        /\ leftBehind \cap (Approved \cup candidates \cup executable) = {}
    BY <1>1 DEF ManagerInv, ListsDisjoint, RunCandidates, PhaseInv
  <2> QED
    BY <1>4, <2>1, <2>2
<1> HIDE DEF gone
<1>6. ListsTyped'
  BY <1>1, <1>2, <1>4 DEF ManagerInv, ListsTyped
<1>7. ListsDisjoint' /\ PhaseInv'
  <2>1. ListsDisjoint'
    BY <1>1, <1>2, <1>3, <1>4, <1>5 DEF ListsDisjoint, RunCandidates
  <2>2. \A m \in Approved : ~waiting[m]
    BY <1>1 DEF ManagerInv, PhaseInv
  <2>3. PhaseInv'
    BY <1>1, <1>2, <1>3, <1>4, <2>2 DEF PhaseInv
  <2> QED
    BY <2>1, <2>3
<1>8. Authorised' /\ ApprovedTogether' /\ Joining'
  BY <1>1, <1>2, <1>3, <1>4 DEF ManagerInv, Authorised, ApprovedTogether, Joining, Modules
<1> QED
  BY <1>2, <1>6, <1>7, <1>8 DEF ManagerInv

\* One more approved module.
LEMMA LongerFacts ==
  ASSUME ListsTyped, NEW m \in Modules, m \notin Approved, approved' = Append(approved, m)
  PROVE  /\ approved' \in Seq(Modules) /\ Len(approved') = Len(approved) + 1
         /\ \A i, j \in DOMAIN approved' : approved'[i] = approved'[j] => i = j
         /\ Approved' = Approved \cup {m}
<1>1. /\ Len(approved) \in Nat /\ DOMAIN approved = 1 .. Len(approved)
      /\ \A i \in 1 .. Len(approved) : approved[i] \in Approved
      /\ \A i, j \in 1 .. Len(approved) : approved[i] = approved[j] => i = j
      /\ approved \in Seq(Modules)
  BY ApprovedFacts DEF ListsTyped
<1>2. /\ approved' \in Seq(Modules) /\ Len(approved') = Len(approved) + 1
      /\ \A i \in 1 .. Len(approved) : approved'[i] = approved[i]
      /\ approved'[Len(approved) + 1] = m
  BY <1>1, AppendProperties
<1>3. DOMAIN approved' = 1 .. Len(approved) + 1
  BY <1>2, LenProperties
<1>4. \A i, j \in DOMAIN approved' : approved'[i] = approved'[j] => i = j
  BY <1>1, <1>2, <1>3
<1>5. Approved' = Approved \cup {m}
  BY <1>1, <1>2, <1>3 DEF Approved
<1> QED
  BY <1>2, <1>4, <1>5

LEMMA SettleApprovableKeeps ==
  ASSUME ManagerInv, SettleApprovable
  PROVE  ManagerInv'
<1>1. PICK m \in Approvable : /\ Exit((executable \cup candidates) \ {m})
                              /\ approved' = Append(approved, m)
                              /\ queue' = Approved \cup {m}
  BY DEF SettleApprovable
<1> DEFINE gone == (executable \cup candidates) \ {m}
<1>2. /\ phase = "candidates" /\ queue = {} /\ phase' = "approved"
      /\ candidates' = {} /\ executable' = {} /\ UNCHANGED <<demand, leftBehind>>
  BY DEF SettleApprovable
<1>3. /\ RecordsTyped' /\ AtRest'
      /\ registered' = registered \ gone /\ granted' = granted \ gone
      /\ \A n \in Modules : waiting'[n] <=> waiting[n] /\ n \notin gone
  BY <1>1, <1>2, ExitChanges DEF ManagerInv
<1>4. m \in executable /\ m \in Modules /\ m \in registered /\ m \notin Approved /\ ~waiting[m]
  <2>1. m \in executable /\ ~waiting[m]
    BY DEF Approvable, Alive
  <2>2. executable \subseteq registered
    BY <1>2 DEF ManagerInv, ListsDisjoint, RunCandidates
  <2> QED
    BY <1>2, <2>1, <2>2 DEF ManagerInv, ListsTyped, PhaseInv
<1>5. Approved \cap gone = {} /\ m \notin gone
  BY <1>2 DEF ManagerInv, ListsDisjoint, PhaseInv
<1>6. registered \ gone = Approved \cup {m} \cup leftBehind /\ m \notin leftBehind
       /\ leftBehind \cap Approved = {}
  <2>1. /\ registered = Approved \cup candidates \cup leftBehind \cup executable
        /\ leftBehind \cap (Approved \cup candidates \cup executable) = {}
    BY <1>2 DEF ManagerInv, ListsDisjoint, RunCandidates, PhaseInv
  <2> QED
    BY <1>4, <1>5, <2>1
<1> HIDE DEF gone
<1>7. /\ approved' \in Seq(Modules) /\ Len(approved') = Len(approved) + 1
      /\ \A i, j \in DOMAIN approved' : approved'[i] = approved'[j] => i = j
      /\ Approved' = Approved \cup {m}
  BY <1>1, <1>4, LongerFacts DEF ManagerInv
<1>8. Approved \subseteq Modules /\ (approved = <<>> <=> Len(approved) = 0) /\ Len(approved) \in Nat
  BY ApprovedFacts DEF ManagerInv
<1>9. ListsTyped'
  BY <1>1, <1>2, <1>3, <1>4, <1>7, <1>8 DEF ManagerInv, ListsTyped
<1>10. ListsDisjoint' /\ PhaseInv'
  <2>1. ListsDisjoint'
    BY <1>2, <1>3, <1>7, <1>6 DEF ListsDisjoint, RunCandidates
  <2>2. PhaseInv'
    BY <1>1, <1>2, <1>7 DEF PhaseInv
  <2> QED
    BY <2>1, <2>2
<1>11. Authorised'
  BY <1>3, <1>4, <1>5, <1>7 DEF ManagerInv, Authorised, Modules
<1>12. ApprovedTogether' /\ Joining'
  BY <1>2, <1>4, <1>7, <1>8 DEF ManagerInv, Joining, ApprovedTogether
<1> QED
  BY <1>3, <1>9, <1>10, <1>11, <1>12 DEF ManagerInv

-----------------------------------------------------------------------------
(* The theorems. *)

LEMMA ManagerNext == ManagerInv /\ [Next]_vars => ManagerInv'
<1> SUFFICES ASSUME ManagerInv, [Next]_vars PROVE ManagerInv'
  OBVIOUS
<1>1. CASE StartCycle \/ Reset
  BY <1>1, StartCycleKeeps, ResetKeeps
<1>2. CASE RunApproved \/ SettleApproved
  BY <1>2, RunApprovedKeeps, SettleApprovedKeeps
<1>3. CASE FindRequests \/ RunCandidate
  BY <1>3, FindRequestsKeeps, RunCandidateKeeps
<1>4. CASE SettleCandidates
  BY <1>4, SettleWaitingKeeps, SettleApprovableKeeps DEF SettleCandidates
<1>5. CASE \E m \in Modules : Answer(m)
  BY <1>5, AnswerKeeps
<1>6. CASE UNCHANGED vars
  BY <1>6, ManagerUnchanged
<1> QED
  BY <1>1, <1>2, <1>3, <1>4, <1>5, <1>6 DEF Next, CycleStep

THEOREM ManagerInvHolds == Spec => []ManagerInv
<1> QED
  BY ManagerInit, ManagerNext, PTL DEF Spec

\* The lists of the manager and the records of its module managers agree between
\* two cycles, whatever the modules do and whenever the operator answers: a module
\* is registered exactly when it is in one of the lists or was behind an approved
\* module that waited again, which keeps it from being launched until a reset.
THEOREM ListsAndRecordsAgree == Spec => []ListsAgree
<1>1. ManagerInv => ListsAgree
  BY DEF ManagerInv, ListsDisjoint, RunCandidates, PhaseInv, ListsAgree
<1> QED
  BY <1>1, ManagerInvHolds, PTL

\* No lane change runs as approved before its own plan was activated.
THEOREM LaneChangesAreAuthorised == Spec => []LaneChangeIsAuthorised
<1>1. ManagerInv => LaneChangeIsAuthorised
  BY DEF ManagerInv, Authorised, LaneChangeIsAuthorised
<1> QED
  BY <1>1, ManagerInvHolds, PTL

\* The manager only holds values of its types: no list names a module twice, and a
\* module nobody has registered is at rest.
THEOREM TypeCorrect == Spec => []TypeOK
<1>1. ManagerInv => TypeOK
  BY TypesSplit DEF ManagerInv
<1> QED
  BY <1>1, ManagerInvHolds, PTL

\* An approved module that must be executed alone is the only one, for every
\* priority.
THEOREM ApprovedAreCompatible == Spec => []ApprovedTogether
<1>1. ManagerInv => ApprovedTogether
  BY DEF ManagerInv
<1> QED
  BY <1>1, ManagerInvHolds, PTL

-----------------------------------------------------------------------------
(* Candidates. *)

\* The modules that must be alone as a candidate have the higher priorities, as in
\* the shipped parameters.  Otherwise the manager lets one of them join candidates
\* of a higher priority.
AloneFirst ==
    \A m \in Modules \ SimultaneousCandidate, n \in Modules \cap SimultaneousCandidate :
        Priority[m] < Priority[n]

Together(ms) == \A m, n \in ms : m # n => m \in SimultaneousCandidate

\* The modules to run come from one selection, and the candidates from the last one.
CandidatesInv ==
    /\ candidates \subseteq Modules /\ Together(candidates)
    /\ phase = "candidates" => Together(executable)

LEMMA ExecutableTogether ==
  ASSUME AloneFirst, NEW requests \in SUBSET Modules, NEW run \in ExecutableModules(requests)
  PROVE  Together(run)
<1> SUFFICES ASSUME NEW m \in run, NEW n \in run, m # n, m \notin SimultaneousCandidate
             PROVE  FALSE
  BY DEF Together
<1>1. /\ run \subseteq requests
      /\ \A k \in run, l \in requests : Priority[l] < Priority[k] => l \in SimultaneousCandidate
      /\ \A k, l \in run \ SimultaneousCandidate : k = l
  BY DEF ExecutableModules
<1>2. n \in SimultaneousCandidate
  BY <1>1
<1>3. Priority[m] < Priority[n]
  BY <1>1, <1>2 DEF AloneFirst
<1> QED
  BY <1>1, <1>3

LEMMA CandidatesStep ==
  ASSUME AloneFirst, ManagerInv, CandidatesInv, [Next]_vars
  PROVE  CandidatesInv'
<1>1. CASE FindRequests
  <2>1. PICK requesting \in SUBSET Modules :
          \E requests \in RequestModules(requesting) : executable' \in ExecutableModules(requests)
    BY <1>1 DEF FindRequests
  <2>2. PICK requests \in RequestModules(requesting) : executable' \in ExecutableModules(requests)
    BY <2>1
  <2>3. Together(executable')
    BY <2>2, RequestsMayJoin, ExecutableTogether
  <2> QED
    BY <1>1, <2>3 DEF FindRequests, CandidatesInv, Together
<1>2. CASE SettleApproved
  <2>1. PICK kept \in 0 .. Len(approved) : \E left : Leave(kept, left)
    BY <1>2, Zenon DEF SettleApproved
  <2> DEFINE again == {approved[i] : i \in {kept + 1} \cap DOMAIN approved}
  <2>2. candidates' \subseteq candidates \/ candidates' \subseteq again
    BY <2>1 DEF Leave
  <2>3. Together(again) /\ again \subseteq Modules
    BY ApprovedFacts DEF Together, ManagerInv
  <2> HIDE DEF again
  <2> QED
    BY <1>2, <2>2, <2>3 DEF SettleApproved, CandidatesInv, Together
<1>3. CASE SettleWaiting
  BY <1>3 DEF SettleWaiting, Alive, ManagerInv, ListsTyped, CandidatesInv, Together
<1>4. CASE SettleApprovable \/ Reset
  BY <1>4 DEF SettleApprovable, Reset, CandidatesInv, Together
<1>5. CASE UNCHANGED candidates /\ (phase' # "candidates" \/ UNCHANGED <<phase, executable>>)
  BY <1>5 DEF CandidatesInv, Together
<1> QED
  BY <1>1, <1>2, <1>3, <1>4, <1>5 DEF Next, CycleStep, SettleCandidates, StartCycle,
     RunApproved, RunCandidate, Answer, vars

\* With the modules that must be alone first, they are alone among the candidates
\* as well as among the approved modules.
THEOREM CompatibleModules ==
  ASSUME AloneFirst
  PROVE  Spec => []CompatibleModulesTogether
<1>1. Init => CandidatesInv
  BY DEF Init, CandidatesInv, Together
<1>2. ManagerInv /\ CandidatesInv /\ [Next]_vars => CandidatesInv'
  BY CandidatesStep
<1>3. ManagerInv /\ CandidatesInv => CompatibleModulesTogether
  BY DEF ManagerInv, CandidatesInv, CompatibleModulesTogether, CandidatesTogether, Together
<1> QED
  BY <1>1, <1>2, <1>3, ManagerInvHolds, PTL DEF Spec
=============================================================================
