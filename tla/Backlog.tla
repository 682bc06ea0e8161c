------------------------------- MODULE Backlog -------------------------------
(***************************************************************************)
(* The backlog of scheduled posts: how its health is assessed, how posting *)
(* times are laid out, and what the autonomous loop, which assesses first  *)
(* and schedules what it has generated some time later, makes of both.     *)
(*                                                                         *)
(* Time is in units of 20 minutes, the jitter of a slot.  The health of    *)
(* the queue reads only how far ahead the last row is, so that is all the  *)
(* model keeps of the rows.                                                *)
(***************************************************************************)
EXTENDS Integers, Sequences, FiniteSetsExt

CONSTANTS
  QueueConfigs,      \* settings: [min, target, max (hours), posts (a day)]
  HandTimes,         \* hours ahead at which people schedule
  GenerationResults  \* what becomes of a generated piece: {"APPROVED", "FLAGGED"}

Hour == 3
Day  == 24 * Hour

ASSUME BacklogAssumption ==
  /\ QueueConfigs \subseteq [min : 1..720, target : 1..720, max : 1..720, posts : 1..50]
  /\ HandTimes \subseteq Nat \ {0}
  /\ GenerationResults \subseteq {"APPROVED", "FLAGGED"}

-----------------------------------------------------------------------------
(* scheduling.ts                                                           *)

DefaultHours == <<8, 12, 17, 20>>

\* The i-th slot (from 0) from the midnight before the date, without its jitter.
Slot(i, preferred) ==
  LET hours == IF Len(preferred) >= 2 THEN preferred ELSE DefaultHours
  IN (i \div Len(hours)) * Day + hours[(i % Len(hours)) + 1] * Hour

Jitters == {-1, 0, 1}

\* The sets of times distributePostTimes may return, in no order: it sorts them.
distributePostTimes(count, preferred) ==
  {{Slot(i, preferred) + jitter[i] : i \in 0..(count - 1)} :
     jitter \in [0..(count - 1) -> Jitters]}

\* assessQueueHealth, of the time the last of the rows has still to wait.
queueStatus(content, config) ==
  IF 2 * content < config.min * Hour THEN "CRITICAL"
  ELSE IF content < config.min * Hour THEN "LOW"
  ELSE IF content >= config.max * Hour THEN "FULL" ELSE "HEALTHY"

\* Fault seeded for the mutation check: the loop fills up to the maximum.
shouldGenerateToMax(content, config) == content < config.max * Hour

shouldGenerate(content, config) ==
  content < config.target * Hour /\ queueStatus(content, config) # "FULL"

postsNeeded(content, config) ==
  IF shouldGenerate(content, config)
  THEN ((config.target * Hour - content) * config.posts + Day - 1) \div Day
  ELSE 0

-----------------------------------------------------------------------------

VARIABLES
  time,      \* of the day
  backlog,   \* how long the last of the rows still to come has to wait, or 0
  settings,  \* of the organization
  wanted,    \* pieces the current tick of the loop has still to make
  extra      \* history: pieces the loop put into a backlog already at its target

backlogVars == <<time, backlog, settings, wanted, extra>>

BacklogTypeOK ==
  /\ time \in 0..(Day - 1)
  /\ backlog \in Nat
  /\ settings \in QueueConfigs
  /\ wanted \in 0..3
  /\ extra \in Nat

AtTarget(content) == content >= settings.target * Hour

Least(a, b)    == IF a < b THEN a ELSE b
Greatest(a, b) == IF a < b THEN b ELSE a

\* Fault seeded for the mutation check: a tick makes all that is missing.
AssessUncapped ==
  /\ wanted = 0
  /\ shouldGenerate(backlog, settings)
  /\ wanted' = Greatest(1, postsNeeded(backlog, settings))
  /\ UNCHANGED <<time, backlog, settings, extra>>

\* The loop's tick assesses the queue once, for one to three pieces.
Assess ==
  /\ wanted = 0
  /\ shouldGenerate(backlog, settings)
  /\ wanted' = Least(3, Greatest(1, postsNeeded(backlog, settings)))
  /\ UNCHANGED <<time, backlog, settings, extra>>

\* How long a piece scheduled by the loop now may have to wait: until the first
\* slot of the day it will be in an hour.  A slot that is past is posted at once.
LoopWaits ==
  {((time + Hour) \div Day) * Day + Max(slots) - time : slots \in distributePostTimes(1, <<>>)}

\* A piece is generated, which takes its time; only an approved one is scheduled.
Generate ==
  /\ wanted > 0
  /\ wanted' = wanted - 1
  /\ \E result \in GenerationResults :
       \/ /\ result = "APPROVED"
          /\ \E wait \in LoopWaits : backlog' = Greatest(backlog, wait)
          /\ extra' = IF AtTarget(backlog) THEN extra + 1 ELSE extra
       \/ /\ result # "APPROVED"
          /\ UNCHANGED <<backlog, extra>>
  /\ UNCHANGED <<time, settings>>

\* People schedule approved pieces for any time.
ScheduleByHand ==
  /\ \E hours \in HandTimes : backlog' = Greatest(backlog, hours * Hour)
  /\ backlog' # backlog
  /\ UNCHANGED <<time, settings, wanted, extra>>

\* An administrator clears the queue.
ClearQueue ==
  /\ backlog > 0
  /\ backlog' = 0
  /\ extra' = 0
  /\ UNCHANGED <<time, settings, wanted>>

\* An administrator changes the settings; the three bounds are not compared.
Configure ==
  /\ settings' \in QueueConfigs \ {settings}
  /\ extra' = 0
  /\ UNCHANGED <<time, backlog, wanted>>

\* Rows that are due drop out of the backlog by themselves.
TimePasses ==
  /\ time' = (time + 1) % Day
  /\ backlog' = Greatest(0, backlog - 1)
  /\ extra' = IF AtTarget(backlog') THEN extra ELSE 0
  /\ UNCHANGED <<settings, wanted>>

BacklogInit ==
  /\ time = 0 /\ backlog = 0 /\ wanted = 0 /\ extra = 0
  /\ settings \in QueueConfigs

BacklogNext ==
  Assess \/ Generate \/ ScheduleByHand \/ ClearQueue \/ Configure \/ TimePasses

\* The loop ticks every quarter of an hour, and its stages end.
BacklogFairness ==
  WF_backlogVars(TimePasses) /\ WF_backlogVars(Assess) /\ WF_backlogVars(Generate)

BacklogSpec == BacklogInit /\ [][BacklogNext]_backlogVars /\ BacklogFairness

-----------------------------------------------------------------------------
(* Properties.                                                             *)

\* The queue is assessed before the pieces are made: a backlog that reaches its
\* target meanwhile still gets the pieces of that one tick, and no more.
FullQueueGetsOneTick == extra <= 3

\* "maintains a healthy backlog": with every piece approved, the loop brings the
\* backlog to its minimum.
BacklogIsBuilt == <>(queueStatus(backlog, settings) \in {"HEALTHY", "FULL"})
=============================================================================
