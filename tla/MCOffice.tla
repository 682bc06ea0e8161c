------------------------------ MODULE MCOffice ------------------------------
(***************************************************************************)
(* The machines that share no state with one another, for TLC: adapters,   *)
(* accounts, model spend, controls, backlog, learning, desk and metrics.   *)
(* A behaviour picks one of them and moves that one alone; the others stay *)
(* in one of their initial states, so nothing is claimed of their product. *)
(***************************************************************************)
EXTENDS MCAdapters, Accounts, Spending, Controls, MCBacklog, MCLearning, MCDesk, Metrics

VARIABLE part   \* the machine that moves

Parts == {"adapters", "accounts", "spending", "controls", "backlog", "learning", "desk",
          "metrics"}

officeVars == <<part, adapterVars, accountVars, spendingVars, controlsVars, backlogVars,
                learningVars, deskVars, records>>

\* The job of adapters that do not move.
AnInput ==
  LET p == CHOOSE q \in PostInputs : TRUE
  IN /\ platform = p.platform /\ local
     /\ input = buildPostInput(p.piece, p.scheduledAt,
                               decideSchedule(p.platform, p.scheduledAt, 0))

OfficeInit ==
  /\ part \in Parts
  /\ AdaptersInit
  /\ part # "adapters" => AnInput
  /\ AccountsInit /\ SpendingInit /\ ControlsInit /\ BacklogInit /\ LearningInit
  /\ DeskInit /\ MetricsInit
  /\ part # "accounts" => rotates
  /\ part # "backlog"  => settings = CHOOSE s \in QueueConfigs : TRUE
  /\ part # "learning" => weights = DefaultWeights

OfficeNext ==
  /\ UNCHANGED part
  /\ \/ part = "adapters" /\ AdaptersNext
     \/ part # "adapters" /\ UNCHANGED adapterVars
  /\ \/ part = "accounts" /\ AccountsNext
     \/ part # "accounts" /\ UNCHANGED accountVars
  /\ \/ part = "spending" /\ SpendingNext
     \/ part # "spending" /\ UNCHANGED spendingVars
  /\ \/ part = "controls" /\ ControlsNext
     \/ part # "controls" /\ UNCHANGED controlsVars
  /\ \/ part = "backlog" /\ BacklogNext
     \/ part # "backlog" /\ UNCHANGED backlogVars
  /\ \/ part = "learning" /\ Learn
     \/ part # "learning" /\ UNCHANGED learningVars
  /\ \/ part = "desk" /\ DeskNext
     \/ part # "desk" /\ UNCHANGED deskVars
  /\ \/ part = "metrics" /\ Collect
     \/ part # "metrics" /\ UNCHANGED records

\* Of the machines checked here the adapters and the accounts promise progress.
OfficeFairness ==
  /\ WF_adapterVars(part = "adapters" /\ CallStep)
  /\ WF_accountVars(part = "accounts" /\ RefreshPass)

OfficeSpec == OfficeInit /\ [][OfficeNext]_officeVars /\ OfficeFairness

-----------------------------------------------------------------------------

\* Every machine stays within its types: bounded counts stay bounded, and no job,
\* callback or query leaves a state that its successor does not know.
OfficeTypeOK ==
  /\ part \in Parts
  /\ AdaptersTypeOK /\ AccountsTypeOK /\ SpendingTypeOK /\ ControlsTypeOK
  /\ BacklogTypeOK /\ LearningTypeOK /\ DeskTypeOK /\ MetricsTypeOK
=============================================================================
