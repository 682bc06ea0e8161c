----------------------------- MODULE OfficeProofs -----------------------------
(***************************************************************************)
(* What is proved of the machines beside the publishing ones: first of the *)
(* controls, for any people and agents, and of the backlog, for any        *)
(* settings, any times people schedule at and whatever becomes of a piece; *)
(* then of all the machines of MCOffice together.                          *)
(***************************************************************************)
EXTENDS MCOffice, AdaptersProofs, AccountsProofs, SpendingProofs, LearningProofs

-----------------------------------------------------------------------------
(* The controls.                                                           *)

\* Every field of the row, and the row that a change has read, keep their types.
LEMMA ControlsTypeInductive ==
  ControlsTypeOK /\ [ControlsNext]_controlsVars => ControlsTypeOK'
<1> SUFFICES ASSUME ControlsTypeOK, [ControlsNext]_controlsVars PROVE ControlsTypeOK'
  OBVIOUS
<1> USE ControlsAssumption DEF ControlsTypeOK
<1>1. ASSUME NEW s \in Switches, SetSwitch(s) PROVE ControlsTypeOK'
  BY <1>1 DEF SetSwitch
<1>2. ASSUME NEW a \in Admins, WriteFlags(a) PROVE ControlsTypeOK'
  <2>1. change[a].key \in AgentKeys /\ change[a].enabled \in BOOLEAN
    BY <1>2 DEF WriteFlags
  <2>2. flags' \in [AgentKeys -> BOOLEAN]
    BY <1>2, <2>1 DEF WriteFlags
  <2>3. change' \in [Admins -> [key : AgentKeys \cup {Nobody}, enabled : BOOLEAN,
                              seen : [AgentKeys -> BOOLEAN]]]
    BY <1>2 DEF WriteFlags, Done, NoChange, DEFAULT_AGENT_FLAGS
  <2>4. asked' \in [AgentKeys -> BOOLEAN] /\ clean' \subseteq AgentKeys
    BY <1>2, <2>1 DEF WriteFlags, Done
  <2>. QED BY <1>2, <2>2, <2>3, <2>4 DEF WriteFlags
<1>3. ASSUME NEW a \in Admins, NEW key \in AgentKeys, ReadFlags(a, key)
      PROVE ControlsTypeOK'
  BY <1>3 DEF ReadFlags
<1>4. CASE UNCHANGED controlsVars
  BY <1>4 DEF controlsVars
<1>. QED BY <1>1, <1>2, <1>3, <1>4 DEF ControlsNext

\* The controls stay within their types: a flag is never lost from the JSON field.
THEOREM ControlsTypeCorrect == ControlsSpec => []ControlsTypeOK
<1>1. ControlsInit => ControlsTypeOK
  BY DEF ControlsInit, ControlsTypeOK, NoChange, DEFAULT_AGENT_FLAGS
<1>. QED BY <1>1, ControlsTypeInductive, PTL DEF ControlsSpec

\* What makes ControlsStand inductive: of the agents whose last change nobody
\* overlapped, whoever is between its read and its write has read the flag that
\* stands.  The agent of a write that anyone overlaps is none of them any more, and of
\* every other one the write puts back the flag it has read, which is the one that stands.
ReadersAreCurrent ==
  \A a \in Admins :
    change[a].key # Nobody => \A key \in clean : change[a].seen[key] = flags[key]

ControlsInv == ControlsStand /\ ReadersAreCurrent

\* A write keeps the flags of other agents that stand, for it has read them.
LEMMA ControlsInductive ==
  ControlsTypeOK /\ ControlsInv /\ [ControlsNext]_controlsVars => ControlsInv'
<1> SUFFICES ASSUME ControlsTypeOK, ControlsInv, [ControlsNext]_controlsVars
             PROVE ControlsInv'
  OBVIOUS
<1> USE ControlsAssumption DEF ControlsTypeOK, ControlsInv, ControlsStand, ReadersAreCurrent
<1>1. ASSUME NEW s \in Switches, SetSwitch(s) PROVE ControlsInv'
  BY <1>1 DEF SetSwitch
<1>2. ASSUME NEW a \in Admins, WriteFlags(a) PROVE ControlsInv'
  <2> DEFINE key == change[a].key
  <2>1. key \in AgentKeys /\ change[a].enabled \in BOOLEAN
    BY <1>2 DEF WriteFlags
  <2>2. flags' = [k \in AgentKeys |-> IF k = key THEN change[a].enabled ELSE change[a].seen[k]]
    BY <1>2, <2>1 DEF WriteFlags
  <2>3. asked' = [k \in AgentKeys |-> IF k = key THEN change[a].enabled ELSE asked[k]]
    BY <1>2, <2>1 DEF WriteFlags, Done
  <2>4. clean' \subseteq clean \cup {key}
    BY <1>2 DEF WriteFlags, Done
  <2>5. \A k \in clean : change[a].seen[k] = flags[k]
    BY <1>2 DEF WriteFlags
  <2>6. \A k \in clean' : flags'[k] = asked'[k]
    BY <2>1, <2>2, <2>3, <2>4, <2>5
  <2>7. CASE \A other \in Admins \ {a} : change[other].key = Nobody
    BY <1>2, <2>6, <2>7 DEF WriteFlags, Done, NoChange
  <2>8. CASE ~ \A other \in Admins \ {a} : change[other].key = Nobody
    <3>1. clean' = clean \ {key}
      BY <1>2, <2>8 DEF WriteFlags, Done
    <3>2. \A k \in clean' : flags'[k] = flags[k]
      BY <2>2, <2>5, <3>1
    <3>3. ASSUME NEW b \in Admins, change'[b].key # Nobody, NEW k \in clean'
          PROVE change'[b].seen[k] = flags'[k]
      <4>1. change'[b] = change[b]
        BY <1>2, <3>3 DEF WriteFlags, Done, NoChange
      <4>2. k \in clean /\ change[b].key # Nobody
        BY <3>1, <3>3, <4>1
      <4>3. change[b].seen[k] = flags[k]
        BY <4>2
      <4>. QED BY <3>2, <4>1, <4>3
    <3>. QED BY <2>6, <3>3
  <2>. QED BY <2>7, <2>8
<1>3. ASSUME NEW a \in Admins, NEW key \in AgentKeys, ReadFlags(a, key)
      PROVE ControlsInv'
  BY <1>3 DEF ReadFlags
<1>4. CASE UNCHANGED controlsVars
  BY <1>4 DEF controlsVars
<1>. QED BY <1>1, <1>2, <1>3, <1>4 DEF ControlsNext

\* A change of an agent's flag that was written while no other was under way stands,
\* however many people change however many other agents after it, overlapping or not.
THEOREM ControlsAreKept == ControlsSpec => []ControlsStand
<1>1. ASSUME ControlsInit PROVE ControlsInv
  <2>1. flags = asked
    BY <1>1 DEF ControlsInit
  <2>2. \A a \in Admins : change[a].key = Nobody
    BY <1>1 DEF ControlsInit, NoChange
  <2>. QED BY <2>1, <2>2 DEF ControlsInv, ControlsStand, ReadersAreCurrent
<1>2. ControlsInv => ControlsStand
  BY DEF ControlsInv
<1>. QED BY <1>1, <1>2, ControlsInductive, ControlsTypeCorrect, PTL DEF ControlsSpec

-----------------------------------------------------------------------------
(* The backlog and the loop that fills it.                                 *)

\* A piece the loop schedules waits for a whole number of units.
LEMMA LoopWaitsType ==
  ASSUME time \in 0..(Day - 1), NEW wait \in LoopWaits
  PROVE  wait \in Int
<1>1. PICK slots \in distributePostTimes(1, <<>>) :
        wait = ((time + Hour) \div Day) * Day + Max(slots) - time
  BY DEF LoopWaits
<1>2. PICK jitter \in [0..0 -> Jitters] :
        slots = {Slot(i, <<>>) + jitter[i] : i \in 0..0}
  BY <1>1 DEF distributePostTimes
<1>3. slots = {Slot(0, <<>>) + jitter[0]}
  BY <1>2
<1>4. Slot(0, <<>>) \in Int
  <2>1. Slot(0, <<>>) = (0 \div 4) * Day + DefaultHours[(0 % 4) + 1] * Hour
    BY DEF Slot, DefaultHours
  <2>. QED BY <2>1 DEF DefaultHours, Day, Hour
<1>5. Slot(0, <<>>) + jitter[0] \in Int
  BY <1>2, <1>4 DEF Jitters
<1>6. Max(slots) = Slot(0, <<>>) + jitter[0]
  BY <1>3, <1>5 DEF Max
<1>7. ((time + Hour) \div Day) * Day - time \in Int
  BY DEF Day, Hour
<1>. QED BY <1>1, <1>5, <1>6, <1>7 DEF Day, Hour

\* What makes FullQueueGetsOneTick inductive: pieces beyond the target are counted only
\* while the backlog is at its target, where no tick assesses it as short, and together
\* with those the tick has still to make they are at most one tick's.
OneTickBeyond ==
  /\ extra > 0 => AtTarget(backlog)
  /\ extra + wanted <= 3

BacklogInv == BacklogTypeOK /\ OneTickBeyond

\* The settings have whole numbers of hours and posts.
LEMMA SettingsType ==
  ASSUME BacklogTypeOK
  PROVE  settings.target \in 1..720 /\ settings.posts \in 1..50
BY BacklogAssumption DEF BacklogTypeOK

\* No step of the loop, of people or of time puts more into a full backlog than the
\* pieces one tick had begun with.
LEMMA BacklogInductive == BacklogInv /\ [BacklogNext]_backlogVars => BacklogInv'
<1> SUFFICES ASSUME BacklogInv, [BacklogNext]_backlogVars PROVE BacklogInv'
  OBVIOUS
<1>0. /\ BacklogTypeOK /\ OneTickBeyond
      /\ settings.target \in 1..720 /\ settings.posts \in 1..50
  BY SettingsType DEF BacklogInv
<1>1. CASE Assess
  <2>1. ~AtTarget(backlog)
    BY <1>0, <1>1 DEF Assess, shouldGenerate, AtTarget, BacklogTypeOK, Hour
  <2>2. extra = 0
    BY <1>0, <2>1 DEF OneTickBeyond, BacklogTypeOK
  <2>3. postsNeeded(backlog, settings) \in Int
    <3> DEFINE missing == (settings.target * Hour - backlog) * settings.posts + Day - 1
    <3>1. settings.target * Hour - backlog \in Int
      BY <1>0 DEF BacklogTypeOK, Hour
    <3>2. (settings.target * Hour - backlog) * settings.posts \in Int
      BY <1>0, <3>1
    <3>3. missing \in Int
      BY <3>2 DEF Day, Hour
    <3>4. postsNeeded(backlog, settings) = missing \div Day
      BY <1>1 DEF Assess, postsNeeded
    <3> HIDE DEF missing
    <3>. QED BY <3>3, <3>4 DEF Day, Hour
  <2>4. wanted' \in 0..3
    BY <1>1, <2>3 DEF Assess, Least, Greatest
  <2>. QED BY <1>0, <1>1, <2>2, <2>4
       DEF Assess, BacklogInv, BacklogTypeOK, OneTickBeyond
<1>2. CASE Generate
  <2>1. PICK generated \in GenerationResults :
          \/ /\ generated = "APPROVED"
             /\ \E wait \in LoopWaits : backlog' = Greatest(backlog, wait)
             /\ extra' = IF AtTarget(backlog) THEN extra + 1 ELSE extra
          \/ /\ generated # "APPROVED"
             /\ UNCHANGED <<backlog, extra>>
    BY <1>2 DEF Generate
  <2>2. wanted > 0 /\ wanted' = wanted - 1 /\ time' = time /\ settings' = settings
    BY <1>2 DEF Generate
  <2>3. CASE UNCHANGED <<backlog, extra>>
    BY <1>0, <2>2, <2>3 DEF BacklogInv, BacklogTypeOK, OneTickBeyond, AtTarget
  <2>4. ASSUME NEW wait \in LoopWaits, backlog' = Greatest(backlog, wait),
               extra' = IF AtTarget(backlog) THEN extra + 1 ELSE extra
        PROVE  BacklogInv'
    <3>1. wait \in Int
      BY <1>0, LoopWaitsType DEF BacklogTypeOK
    <3>2. backlog' \in Nat /\ backlog' >= backlog
      BY <1>0, <2>4, <3>1 DEF Greatest, BacklogTypeOK
    <3>3. AtTarget(backlog) => AtTarget(backlog)'
      BY <1>0, <2>2, <3>2 DEF AtTarget, BacklogTypeOK, Hour
    <3>. QED BY <1>0, <2>2, <2>4, <3>2, <3>3 DEF BacklogInv, BacklogTypeOK, OneTickBeyond
  <2>. QED BY <2>1, <2>3, <2>4
<1>3. CASE ScheduleByHand
  <2>1. PICK hours \in HandTimes : backlog' = Greatest(backlog, hours * Hour)
    BY <1>3 DEF ScheduleByHand
  <2>2. backlog' \in Nat /\ backlog' >= backlog
    BY <1>0, <2>1, BacklogAssumption DEF Greatest, BacklogTypeOK, Hour
  <2>3. AtTarget(backlog) => AtTarget(backlog)'
    BY <1>0, <1>3, <2>2 DEF ScheduleByHand, AtTarget, BacklogTypeOK, Hour
  <2>. QED BY <1>0, <1>3, <2>2, <2>3
       DEF ScheduleByHand, BacklogInv, BacklogTypeOK, OneTickBeyond
<1>4. CASE ClearQueue
  BY <1>0, <1>4 DEF ClearQueue, BacklogInv, BacklogTypeOK, OneTickBeyond
<1>5. CASE Configure
  BY <1>0, <1>5 DEF Configure, BacklogInv, BacklogTypeOK, OneTickBeyond
<1>6. CASE TimePasses
  <2>1. time' \in 0..(Day - 1) /\ backlog' \in Nat
    BY <1>0, <1>6 DEF TimePasses, BacklogTypeOK, Greatest, Day, Hour
  <2>2. extra' \in Nat /\ extra' <= extra /\ (extra' > 0 => AtTarget(backlog)')
    BY <1>0, <1>6 DEF TimePasses, BacklogTypeOK, AtTarget
  <2>. QED BY <1>0, <1>6, <2>1, <2>2
       DEF TimePasses, BacklogInv, BacklogTypeOK, OneTickBeyond
<1>7. CASE UNCHANGED backlogVars
  BY <1>0, <1>7 DEF backlogVars, BacklogInv, BacklogTypeOK, OneTickBeyond, AtTarget
<1>. QED BY <1>1, <1>2, <1>3, <1>4, <1>5, <1>6, <1>7 DEF BacklogNext

\* The backlog starts empty, and no tick has begun.
LEMMA BacklogStarts == BacklogInit => BacklogInv
BY BacklogAssumption DEF BacklogInit, BacklogInv, BacklogTypeOK, OneTickBeyond, Day, Hour

\* Although the queue is assessed before the pieces are made, a backlog that reaches its
\* target meanwhile gets no more than the pieces of one tick, for any settings.
THEOREM FullQueueGetsAtMostOneTick == BacklogSpec => []FullQueueGetsOneTick
<1>1. BacklogInv => FullQueueGetsOneTick
  BY DEF BacklogInv, BacklogTypeOK, OneTickBeyond, FullQueueGetsOneTick
<1>. QED BY <1>1, BacklogStarts, BacklogInductive, PTL DEF BacklogSpec

-----------------------------------------------------------------------------
(* The machines together.                                                  *)

\* A step of the office is a step of the machine that moves, and no other machine's.
LEMMA OfficeSteps ==
  [OfficeNext]_officeVars =>
    /\ [AdaptersNext]_adapterVars
    /\ [AccountsNext]_accountVars
    /\ [SpendingNext]_spendingVars
    /\ [ControlsNext]_controlsVars
    /\ [BacklogNext]_backlogVars
    /\ [Learn]_learningVars
    /\ [DeskNext]_deskVars
    /\ [Collect]_records
    /\ UNCHANGED part
<1>1. CASE OfficeNext
  BY <1>1 DEF OfficeNext
<1>2. CASE UNCHANGED officeVars
  BY <1>2 DEF officeVars
<1>. QED BY <1>1, <1>2

\* Each machine starts as it does alone.
LEMMA OfficeStarts ==
  OfficeInit =>
    /\ part \in Parts
    /\ AdaptersInit /\ AccountsInit /\ SpendingInit /\ ControlsInit /\ BacklogInit
    /\ LearningInit /\ DeskInit /\ MetricsInit
BY DEF OfficeInit

\* The machines do not disturb one another: each that promises no progress behaves in the
\* office as it does alone, and so has all the properties it has alone.
THEOREM OfficeRunsTheMachines ==
  OfficeSpec => SpendingSpec /\ ControlsSpec /\ LearningSpec /\ DeskSpec /\ MetricsSpec
BY OfficeStarts, OfficeSteps, PTL
DEF OfficeSpec, SpendingSpec, ControlsSpec, LearningSpec, DeskSpec, MetricsSpec

\* Spending is of its types because it is within its bounds.
LEMMA SpendingTypeCorrect == SpendingSpec => []SpendingTypeOK
<1>1. SpendingInv => SpendingTypeOK
  BY DEF SpendingInv
<1>. QED BY <1>1, SpendingInitial, SpendingInductive, PTL DEF SpendingSpec

\* The adapters, the accounts and the backlog keep their invariants in the office too, with
\* or without the progress they promise alone.
LEMMA OfficeKeepsInvariants ==
  OfficeSpec =>
    /\ []AdaptersInv
    /\ []AccountsTypeOK /\ []AccountsInv /\ []CredentialsInv /\ []BacklogInv
<1>1. OfficeSpec => []AccountsTypeOK
  BY OfficeStarts, OfficeSteps, AccountsTypeStarts, AccountsTypeInductive, PTL DEF OfficeSpec
<1>2. OfficeSpec => []AccountsInv
  BY <1>1, OfficeStarts, OfficeSteps, AccountsStart, AccountsInductive, PTL DEF OfficeSpec
<1>3. OfficeSpec => []CredentialsInv
  BY <1>1, OfficeStarts, OfficeSteps, CredentialsStart, CredentialsInductive, PTL
  DEF OfficeSpec
<1>4. OfficeSpec => []BacklogInv
  BY OfficeStarts, OfficeSteps, BacklogStarts, BacklogInductive, PTL DEF OfficeSpec
<1>5. OfficeSpec => []AdaptersInv
  BY OfficeStarts, OfficeSteps, AdaptersStart, AdaptersInductive, PTL DEF OfficeSpec
<1>. QED BY <1>1, <1>2, <1>3, <1>4, <1>5, PTL

\* Whatever machine moves, all stay within their types: no job, callback or query leaves a
\* state that its successor does not know, and what is counted stays within its bounds.
THEOREM OfficeTypesCorrect == OfficeSpec => []OfficeTypeOK
<1>1. OfficeSpec => [](part \in Parts)
  <2>1. part \in Parts /\ [OfficeNext]_officeVars => (part \in Parts)'
    BY OfficeSteps
  <2>. QED BY <2>1, OfficeStarts, PTL DEF OfficeSpec
<1>2. BacklogInv => BacklogTypeOK
  BY DEF BacklogInv
<1>3. OfficeSpec => []SpendingTypeOK
  BY OfficeRunsTheMachines, SpendingTypeCorrect, PTL
<1>4. OfficeSpec => []ControlsTypeOK
  BY OfficeRunsTheMachines, ControlsTypeCorrect, PTL
<1>5. OfficeSpec => []LearningTypeOK
  BY OfficeRunsTheMachines, LearningTypeCorrect, PTL
<1>6. OfficeSpec => []DeskTypeOK
  BY OfficeRunsTheMachines, DeskTypeCorrect, PTL
<1>7. OfficeSpec => []MetricsTypeOK
  BY OfficeRunsTheMachines, MetricsTypeCorrect, PTL
<1>8. OfficeSpec => []AdaptersTypeOK /\ []AccountsTypeOK /\ []BacklogTypeOK
  <2>1. AdaptersInv => AdaptersTypeOK
    BY DEF AdaptersInv
  <2>. QED BY <1>2, <2>1, OfficeKeepsInvariants, PTL
<1>. QED BY <1>1, <1>3, <1>4, <1>5, <1>6, <1>7, <1>8, PTL DEF OfficeTypeOK

\* What is promised of each machine alone holds of them all together.
THEOREM OfficeIsSafe ==
  OfficeSpec =>
    /\ [](PostsAreComplete /\ NeverPublicEarly) /\ KeepsCallPromise
    /\ [](DisconnectIsFinal /\ ConnectedHasCredentials /\ StoredCredentialsWork)
    /\ [](SpendStaysNearLimits /\ ControlsStand /\ FullQueueGetsOneTick)
    /\ [](NothingIsRepeated /\ ClaimsAreTraceable /\ PieceFitsItsPlatforms)
    /\ [](WeightsStayADistribution /\ SummaryShowsNoInventedNumber)
    /\ StepsAreSmall
<1>1. AccountsInv /\ CredentialsInv
        => DisconnectIsFinal /\ ConnectedHasCredentials /\ StoredCredentialsWork
  BY DEF AccountsInv, CredentialsInv
<1>2. BacklogInv => FullQueueGetsOneTick
  BY DEF BacklogInv, BacklogTypeOK, OneTickBeyond, FullQueueGetsOneTick
<1>3. OfficeSpec => [](DisconnectIsFinal /\ ConnectedHasCredentials /\ StoredCredentialsWork)
  BY <1>1, OfficeKeepsInvariants, PTL
<1>4. OfficeSpec => [](SpendStaysNearLimits /\ ControlsStand /\ FullQueueGetsOneTick)
  BY <1>2, OfficeKeepsInvariants, OfficeRunsTheMachines, SpendIsBounded, ControlsAreKept, PTL
<1>5. OfficeSpec => [](NothingIsRepeated /\ ClaimsAreTraceable /\ PieceFitsItsPlatforms)
  BY OfficeRunsTheMachines, TheDeskRepeatsNothing, WritersGetTraceableClaims,
     PiecesFitTheirPlatforms, PTL
<1>6. OfficeSpec => /\ [](WeightsStayADistribution /\ SummaryShowsNoInventedNumber)
                    /\ StepsAreSmall
  BY OfficeRunsTheMachines, DistributionsCorrect, TheSummaryInventsNothing, SmallStepsCorrect,
     PTL
<1>7. OfficeSpec => [](PostsAreComplete /\ NeverPublicEarly)
  <2>1. AdaptersInv => PostsAreComplete /\ NeverPublicEarly
    BY DEF AdaptersInv, PostsAreComplete, NeverPublicEarly, ItemOK
  <2>. QED BY <2>1, OfficeKeepsInvariants, PTL
<1>8. OfficeSpec => KeepsCallPromise
  BY OfficeStarts, OfficeSteps, OfficeKeepsInvariants, PromiseStarts, StepsKeepThePromise, PTL
  DEF OfficeSpec, KeepsCallPromise, PC!CallSpec
<1>. QED BY <1>3, <1>4, <1>5, <1>6, <1>7, <1>8
=============================================================================
