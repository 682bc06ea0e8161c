----------------------------- MODULE MCPipeline -----------------------------
(***************************************************************************)
(* Two small instances of Pipeline for TLC.  A behaviour is of one of      *)
(* them: two topics and no editor, or two editors and one topic with all   *)
(* agents enabled; their product is too large to check.                    *)
(***************************************************************************)
EXTENDS Pipeline, TLC

Found(sure, unverified, contradicted) ==
  [NoClaims EXCEPT !["sure"] = sure, !["unverified"] = unverified,
                   !["contradicted"] = contradicted]

\* Nothing to check; just half verified; verified, but for a contradiction; verified
\* without the confidence that the gate asks for in autonomous mode.
MCFindings ==
  {NoClaims, Found(1, 1, 0), Found(1, 0, 1), [NoClaims EXCEPT !["shaky"] = 1]}

VARIABLE instance

Instances == {"topics", "edits"}

InstanceInit == Init /\ instance \in Instances

InstanceNext ==
  /\ Next
  /\ UNCHANGED instance
  /\ instance = "topics" => UNCHANGED edit
  /\ instance = "edits" =>
       /\ UNCHANGED disabled
       /\ \A s, t \in Topics : topic'[s] # NoTopic /\ topic'[t] # NoTopic => s = t
       /\ loop'.wanted # 1

InstanceSpec == InstanceInit /\ [][InstanceNext]_<<vars, instance>>

Symmetry ==
  Permutations(Topics) \cup Permutations(Pieces) \cup Permutations(Editors)
=============================================================================
