-------------------------------- MODULE Gates --------------------------------
(***************************************************************************)
(* The gates between research and publishing, as pure operators: the fact  *)
(* checker's verdict on a topic, the fact gate before writing, and the     *)
(* decision taken after review.                                            *)
(***************************************************************************)
EXTENDS Naturals

\* What the gates tell apart of a checked claim: VERIFIED with a confidence of
\* 0.7 or more, VERIFIED below that, PARTIALLY_VERIFIED or UNVERIFIED, CONTRADICTED.
ClaimKinds == {"sure", "shaky", "unverified", "contradicted"}

\* The claims of a topic, counted by kind.
ClaimCounts == [ClaimKinds -> Nat]
NoClaims    == [k \in ClaimKinds |-> 0]

Verified(c) == c["sure"] + c["shaky"]
Total(c)    == Verified(c) + c["unverified"] + c["contradicted"]

\* Fault seeded for the mutation check: only the share of verified claims counts.
RequiresHumanReviewByShare(c) == 2 * Verified(c) < Total(c)

\* FactCheckerAgent.execute: one contradiction, or less than half verified.
RequiresHumanReview(c) ==
  \/ c["contradicted"] > 0
  \/ 2 * Verified(c) < Total(c)

\* applyFactGate: may a piece be written, and from which claims.
FactGateAllows(c, review, autonomous) ==
  /\ ~review
  /\ autonomous /\ Total(c) > 0 => c["sure"] > 0

UsableKinds(c, autonomous) ==
  {k \in ClaimKinds \ {"contradicted"} : c[k] > 0 /\ (autonomous => k = "sure")}

-----------------------------------------------------------------------------

SafetyVerdicts == {"PASS", "NOTES", "HIGH", "FAIL"}
BrandVerdicts  == {"PASS", "WARN", "FAIL"}

GateInputs == [safety : SafetyVerdicts, brand : BrandVerdicts, platformFails : BOOLEAN,
               rights : BOOLEAN, factGate : BOOLEAN, autonomous : BOOLEAN]

MustFlag(in) ==
  \/ in.safety = "HIGH"
  \/ ~in.factGate
  \/ ~in.rights
  \/ in.platformFails
  \/ in.brand = "FAIL"
  \/ in.brand = "WARN" /\ in.autonomous

\* decidePublish
DecidePublish(in) ==
  CASE in.safety = "FAIL"                 -> "REJECT"
    [] in.safety # "FAIL" /\ MustFlag(in) -> "FLAG"
    [] OTHER                              -> "APPROVE"
===============================================================================
