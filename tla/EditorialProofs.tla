---------------------------- MODULE EditorialProofs ----------------------------
(***************************************************************************)
(* What is proved of the editorial desk, for any stories, hooks, claims,   *)
(* verdicts and scripts, and of the metrics that come back, for any        *)
(* numbers.  Both add up their data, so they share the lemmas on sums.     *)
(***************************************************************************)
EXTENDS Desk, Metrics, FiniteSetTheorems, TLAPS

(***************************************************************************)
(* SumsOf.  The library's induction theorems take an operator; these take a  *)
(* set, so that they can be cited.                                         *)
(***************************************************************************)

\* Induction over the numbers in a set.
LEMMA NumbersInduction ==
  ASSUME NEW H, 0 \in H, \A n \in Nat : n \in H => n + 1 \in H
  PROVE  \A n \in Nat : n \in H
<1> DEFINE T == Nat \ H
           R == OpToRel(<, Nat)
<1>1. SUFFICES ASSUME T # {} PROVE FALSE
  OBVIOUS
<1>2. IsWellFoundedOn(R, Nat)
  BY NatLessThanWellFounded
<1>3. T \subseteq Nat
  OBVIOUS
<1> HIDE DEF T, R
<1>4. PICK n \in T : \A m \in T : ~(<<m, n>> \in R)
  BY <1>1, <1>2, <1>3, WFMin
<1>5. n \in Nat \ {0} /\ n - 1 \in Nat
  BY <1>4 DEF T
<1>6. <<n - 1, n>> \in R
  BY <1>5 DEF R, OpToRel
<1>7. n - 1 \in H
  BY <1>4, <1>5, <1>6 DEF T
<1>8. n - 1 + 1 \in H /\ n - 1 + 1 = n
  BY <1>5, <1>7
<1>. QED BY <1>4, <1>8 DEF T

\* The element the library's folds take next.
pick(s) == CHOOSE x \in s : TRUE

\* What is picked of a set is in it.
LEMMA PickIsElement ==
  ASSUME NEW s, s # {}
  PROVE  pick(s) \in s
BY DEF pick

\* Induction over the subsets of a finite set.
LEMMA SubsetsInduction ==
  ASSUME NEW S, IsFiniteSet(S), NEW H, {} \in H,
         \A s \in SUBSET S : s # {} /\ s \ {pick(s)} \in H => s \in H
  PROVE  \A s \in SUBSET S : s \in H
<1> DEFINE N == {n \in Nat : \A s \in SUBSET S : Cardinality(s) = n => s \in H}
<1>1. 0 \in N
  BY FS_Subset, FS_EmptySet
<1>2. ASSUME NEW n \in Nat, n \in N
      PROVE  n + 1 \in N
  <2>1. SUFFICES ASSUME NEW s \in SUBSET S, Cardinality(s) = n + 1
                 PROVE  s \in H
    OBVIOUS
  <2>2. IsFiniteSet(s) /\ s # {}
    BY <2>1, FS_Subset, FS_EmptySet
  <2>3. Cardinality(s \ {pick(s)}) = n
    <3>1. pick(s) \in s
      BY <2>2, PickIsElement
    <3>2. Cardinality(s \ {pick(s)}) = Cardinality(s) - 1
      BY <2>2, <3>1, FS_RemoveElement
    <3>. QED BY <2>1, <3>2
  <2>4. s \ {pick(s)} \in H
    BY <1>2, <2>3
  <2>. QED BY <2>2, <2>4
<1> HIDE DEF N
<1>3. \A n \in Nat : n \in N
  BY <1>1, <1>2, NumbersInduction
<1>4. ASSUME NEW s \in SUBSET S
      PROVE  s \in H
  <2>1. Cardinality(s) \in Nat
    BY FS_Subset, FS_CardinalityType
  <2>. QED BY <1>3, <2>1 DEF N
<1>. QED BY <1>4

\* One step of the fold: the sum over s, from the sums over smaller sets.
Fold(f, g, s) == IF s = {} THEN 0 ELSE f[pick(s)] + g[s \ {pick(s)}]

AreSums(f, g, T) == g = [s \in T |-> Fold(f, g, s)]

SumsOf(f, S) == CHOOSE g : AreSums(f, g, SUBSET S)

\* There are such sums.
LEMMA SumsExist ==
  ASSUME NEW S, IsFiniteSet(S), NEW f
  PROVE  AreSums(f, SumsOf(f, S), SUBSET S)
<1> DEFINE T(n) == {s \in SUBSET S : Cardinality(s) <= n}
           N == {n \in Nat : \E g : AreSums(f, g, T(n))}
<1>1. 0 \in N
  <2>1. T(0) = {{}}
    <3>1. \A s \in SUBSET S : Cardinality(s) \in Nat /\ (Cardinality(s) = 0 <=> s = {})
      BY FS_Subset, FS_EmptySet, FS_CardinalityType
    <3>. QED BY <3>1
  <2> DEFINE g == [s \in T(0) |-> 0]
  <2>2. \A s \in T(0) : g[s] = Fold(f, g, s)
    BY <2>1 DEF Fold
  <2>3. AreSums(f, g, T(0))
    BY <2>2 DEF AreSums
  <2>. QED BY <2>3
<1>2. ASSUME NEW n \in Nat, n \in N
      PROVE  n + 1 \in N
  <2>1. PICK g : AreSums(f, g, T(n))
    BY <1>2
  <2> DEFINE h == [s \in T(n + 1) |-> Fold(f, g, s)]
  <2>2. ASSUME NEW s \in T(n + 1)
        PROVE  Fold(f, g, s) = Fold(f, h, s)
    <3>1. CASE s = {}
      BY <3>1 DEF Fold
    <3>2. CASE s # {}
      <4> DEFINE r == s \ {pick(s)}
      <4>1. IsFiniteSet(s) /\ Cardinality(s) \in Nat
        BY FS_Subset, FS_CardinalityType
      <4>2. pick(s) \in s
        BY <3>2, PickIsElement
      <4>3. r \in SUBSET S /\ Cardinality(r) = Cardinality(s) - 1
        BY <4>1, <4>2, FS_RemoveElement
      <4>4. r \in T(n) /\ r \in T(n + 1)
        BY <4>1, <4>3
      <4>5. g[r] = Fold(f, g, r)
        BY <2>1, <4>4 DEF AreSums
      <4>6. h[r] = g[r]
        BY <4>4, <4>5
      <4>. QED BY <3>2, <4>6 DEF Fold
    <3>. QED BY <3>1, <3>2
  <2>3. AreSums(f, h, T(n + 1))
    BY <2>2 DEF AreSums
  <2> HIDE DEF h, T
  <2>. QED BY <2>3
<1>3. \A n \in Nat : n \in N
  <2> HIDE DEF N
  <2>. QED BY <1>1, <1>2, NumbersInduction
<1>4. Cardinality(S) \in Nat
  BY FS_CardinalityType
<1>5. T(Cardinality(S)) = SUBSET S
  BY FS_Subset
<1>6. \E g : AreSums(f, g, SUBSET S)
  BY <1>3, <1>4, <1>5
<1>. QED BY <1>6 DEF SumsOf

\* A sum is made of one element and the sum of the rest.
LEMMA SumUnfolds ==
  ASSUME NEW S, IsFiniteSet(S), NEW f
  PROVE  /\ SumsOf(f, S)[{}] = 0
         /\ \A s \in SUBSET S :
              s # {} => SumsOf(f, S)[s] = f[pick(s)] + SumsOf(f, S)[s \ {pick(s)}]
<1> DEFINE g == SumsOf(f, S)
<1>1. g = [s \in SUBSET S |-> Fold(f, g, s)]
  BY SumsExist DEF AreSums
<1> HIDE DEF g
<1>2. \A s \in SUBSET S : g[s] = Fold(f, g, s)
  BY <1>1
<1>. QED BY <1>2 DEF Fold, g

\* SumsOf of numbers are numbers.
LEMMA SumIsANumber ==
  ASSUME NEW S, IsFiniteSet(S), NEW f, \A x \in S : f[x] \in Int
  PROVE  \A s \in SUBSET S : SumsOf(f, S)[s] \in Int
<1> DEFINE H == {s \in SUBSET S : SumsOf(f, S)[s] \in Int}
<1>1. {} \in H
  BY SumUnfolds
<1>2. ASSUME NEW s \in SUBSET S, s # {}, s \ {pick(s)} \in H
      PROVE  s \in H
  BY <1>2, SumUnfolds, PickIsElement
<1> HIDE DEF H
<1>3. \A s \in SUBSET S : s \in H
  BY <1>1, <1>2, SubsetsInduction
<1>. QED BY <1>3 DEF H

\* a times each value of f is b times that of g at most, up to c.
Bounded(f, g, S, a, b, c) ==
  \A x \in S : f[x] \in Int /\ g[x] \in Int /\ a * f[x] <= b * g[x] + c

\* What bounds each value bounds the sum.
LEMMA SumIsBounded ==
  ASSUME NEW S, IsFiniteSet(S), NEW f, NEW g, NEW a \in Int, NEW b \in Int, NEW c \in Int,
         Bounded(f, g, S, a, b, c)
  PROVE  a * SumsOf(f, S)[S] <= b * SumsOf(g, S)[S] + c * Cardinality(S)
<1> DEFINE F(s) == SumsOf(f, S)[s]
           G(s) == SumsOf(g, S)[s]
           H == {s \in SUBSET S : a * F(s) <= b * G(s) + c * Cardinality(s)}
<1>1. \A s \in SUBSET S : F(s) \in Int /\ G(s) \in Int
  BY SumIsANumber DEF Bounded
<1>2. F({}) = 0 /\ G({}) = 0
  BY SumUnfolds
<1>3. \A s \in SUBSET S : s # {} => /\ F(s) = f[pick(s)] + F(s \ {pick(s)})
                                   /\ G(s) = g[pick(s)] + G(s \ {pick(s)})
  BY SumUnfolds
<1> HIDE DEF F, G
<1>4. {} \in H
  BY <1>2, FS_EmptySet
<1>5. ASSUME NEW s \in SUBSET S, s # {}, s \ {pick(s)} \in H
      PROVE  s \in H
  <2> DEFINE r == s \ {pick(s)}
             x == pick(s)
  <2>1. /\ x \in S /\ r \in SUBSET S
        /\ F(s) = f[x] + F(r) /\ G(s) = g[x] + G(r)
    BY <1>3, <1>5, PickIsElement
  <2>2. Cardinality(s) = Cardinality(r) + 1 /\ Cardinality(r) \in Nat
    <3>1. x \in s /\ IsFiniteSet(s)
      BY <1>5, PickIsElement, FS_Subset
    <3>2. /\ Cardinality(s) \in Nat /\ Cardinality(r) \in Nat
          /\ Cardinality(r) = Cardinality(s) - 1
      BY <3>1, FS_RemoveElement, FS_CardinalityType
    <3>. QED BY <3>2
  <2>3. a * F(r) <= b * G(r) + c * Cardinality(r)
    BY <1>5
  <2>4. /\ f[x] \in Int /\ g[x] \in Int /\ F(r) \in Int /\ G(r) \in Int
        /\ a * f[x] <= b * g[x] + c
    BY <1>1, <2>1 DEF Bounded
  <2> HIDE DEF r, x
  <2>5. \A d, u, v \in Int : d * (u + v) = d * u + d * v
    OBVIOUS
  <2>6. a * F(s) = a * f[x] + a * F(r) /\ b * G(s) = b * g[x] + b * G(r)
    BY <2>1, <2>4, <2>5
  <2>7. c * Cardinality(s) = c * Cardinality(r) + c
    BY <2>2
  <2>8. /\ a * f[x] \in Int /\ a * F(r) \in Int /\ b * g[x] \in Int /\ b * G(r) \in Int
        /\ c * Cardinality(r) \in Int
    BY <2>2, <2>4
  <2>9. a * F(s) <= b * G(s) + c * Cardinality(s)
    BY <2>3, <2>4, <2>6, <2>7, <2>8
  <2>. QED BY <2>9
<1> HIDE DEF H
<1>6. S \in H
  BY <1>4, <1>5, SubsetsInduction
<1>. QED BY <1>6 DEF H, F, G

(***************************************************************************)
(* Stories and hooks.                                                      *)
(***************************************************************************)

\* A query that is not at its limit reads every row.
LEMMA QueryReadsAll ==
  ASSUME NEW rows, IsFiniteSet(rows), Cardinality(rows) <= Recall,
         NEW read \in Recalled(rows)
  PROVE  read = rows
<1>1. Cardinality(rows) \in Nat /\ Recall \in Nat
  BY FS_CardinalityType, DeskAssumption
<1>2. CASE read \in SUBSET rows /\ Cardinality(read) = Recall
  <2>1. Cardinality(read) <= Cardinality(rows)
    BY <1>2, FS_Subset
  <2>2. Cardinality(read) = Cardinality(rows)
    BY <1>1, <1>2, <2>1
  <2>. QED BY <1>2, <2>2, FS_Subset
<1>. QED BY <1>2 DEF Recalled

\* A hook offered to the engine is taken only at the floor or above.
TextsOK ==
  \A text \in used : \E h \in Hooks : h.text = text /\ h.truthfulness >= TRUTHFULNESS_FLOOR

StoriesOK == "stories" \notin overlooked => AllUnlike(known)
HooksOK   == "hooks" \notin overlooked => AllUnlike(used)

\* A scan that reads all there is keeps only stories unlike it and one another.
LEMMA ScanKeeps ==
  ASSUME DeskTypeOK, StoriesOK, Scan
  PROVE  StoriesOK' /\ known' \subseteq Stories /\ overlooked' \subseteq {"stories", "hooks"}
<1>1. PICK found \in SUBSET Stories, existing \in Recalled(known) :
        \E kept \in NewStories(found, existing) : kept # {} /\ known' = known \cup kept
  BY DEF Scan
<1>2. PICK kept \in NewStories(found, existing) : known' = known \cup kept
  BY <1>1
<1>3. /\ kept \subseteq found
      /\ \A s \in kept : ~isDuplicate(s, existing \cup (kept \ {s}))
  BY DEF NewStories
<1>4. /\ Cardinality(known) > Recall => "stories" \in overlooked'
      /\ overlooked \subseteq overlooked'
      /\ overlooked' \subseteq overlooked \cup {"stories"}
  BY DEF Scan, Overlook
<1>5. ASSUME "stories" \notin overlooked'
      PROVE  AllUnlike(known')
  <2>1. existing = known
    <3>1. IsFiniteSet(known)
      BY DeskAssumption, FS_Subset DEF DeskTypeOK
    <3>2. Cardinality(known) <= Recall
      BY <1>4, <1>5, <3>1, FS_CardinalityType, DeskAssumption
    <3>. QED BY <3>1, <3>2, QueryReadsAll
  <2>2. AllUnlike(known)
    BY <1>4, <1>5 DEF StoriesOK
  <2>3. \A s \in kept : \A b \in known \cup (kept \ {s}) : ~Similar(s, b)
    BY <1>3, <2>1 DEF isDuplicate
  <2>4. \A a, b : Similar(a, b) => Similar(b, a)
    <3>1. \A a, b : {a, b} = {b, a}
      OBVIOUS
    <3>. QED BY <3>1 DEF Similar
  <2>. QED BY <1>2, <2>2, <2>3, <2>4 DEF AllUnlike
<1>6. StoriesOK'
  BY <1>5 DEF StoriesOK
<1>. QED BY <1>2, <1>3, <1>4, <1>6 DEF DeskTypeOK

\* So does the hook engine, and what it takes is at the floor or above.
LEMMA PickHookKeeps ==
  ASSUME DeskTypeOK, HooksOK, TextsOK, PickHook
  PROVE  /\ HooksOK' /\ TextsOK' /\ used' \subseteq {h.text : h \in Hooks}
         /\ overlooked' \subseteq {"stories", "hooks"}
<1>1. PICK offered \in SUBSET Hooks, previous \in Recalled(used) :
        \E hook \in Selected(Evaluated(offered, previous)) : used' = used \cup {hook.text}
  BY DEF PickHook
<1>2. PICK hook \in Selected(Evaluated(offered, previous)) : used' = used \cup {hook.text}
  BY <1>1
<1>3. /\ hook \in Hooks /\ hook.truthfulness >= TRUTHFULNESS_FLOOR
      /\ ~isDuplicate(hook.text, previous)
  BY DEF Selected, Evaluated
<1>4. /\ Cardinality(used) > Recall => "hooks" \in overlooked'
      /\ overlooked \subseteq overlooked'
      /\ overlooked' \subseteq overlooked \cup {"hooks"}
  BY DEF PickHook, Overlook
<1>5. ASSUME "hooks" \notin overlooked'
      PROVE  AllUnlike(used')
  <2>1. previous = used
    <3>1. IsFiniteSet({h.text : h \in Hooks})
      <4> DEFINE texts == {h.text : h \in Hooks}
                 text == [h \in Hooks |-> h.text]
      <4>1. text \in Surjection(Hooks, texts)
        BY DEF Surjection
      <4> HIDE DEF text, texts
      <4>2. IsFiniteSet(texts)
        BY <4>1, DeskAssumption, FS_Surjection
      <4>. QED BY <4>2 DEF texts
    <3>2. IsFiniteSet(used)
      BY <3>1, FS_Subset DEF DeskTypeOK
    <3>3. Cardinality(used) <= Recall
      BY <1>4, <1>5, <3>2, FS_CardinalityType, DeskAssumption
    <3>. QED BY <3>2, <3>3, QueryReadsAll
  <2>2. AllUnlike(used)
    BY <1>4, <1>5 DEF HooksOK
  <2>3. \A b \in used : ~Similar(hook.text, b)
    BY <1>3, <2>1 DEF isDuplicate
  <2>4. \A a, b : Similar(a, b) => Similar(b, a)
    <3>1. \A a, b : {a, b} = {b, a}
      OBVIOUS
    <3>. QED BY <3>1 DEF Similar
  <2>. QED BY <1>2, <2>2, <2>3, <2>4 DEF AllUnlike
<1>6. HooksOK'
  BY <1>5 DEF HooksOK
<1>7. TextsOK'
  BY <1>2, <1>3 DEF TextsOK
<1>. QED BY <1>2, <1>3, <1>4, <1>6, <1>7 DEF DeskTypeOK

(***************************************************************************)
(* Claims.                                                                 *)
(***************************************************************************)

VerdictsOK(some) ==
  \A c \in some : /\ c.excerpt \in {"quoted", "opening"}
                  /\ c.verdict \in Verdicts \cup {Unanswered}

ClaimsOK ==
  /\ VerdictsOK(claims) /\ VerdictsOK(given)
  /\ \A c \in given : IF autonomous THEN Publishable(c)
                      ELSE c.verdict.verification # "CONTRADICTED"

\* What the researcher keeps begins in a source, and nobody has judged it yet.
LEMMA ResearchKeeps ==
  ASSUME ClaimsOK, Research
  PROVE  ClaimsOK'
<1>1. PICK drafts \in SUBSET Drafts :
        claims' = {[text |-> d.text, excerpt |-> d.excerpt, verdict |-> Unanswered] :
                     d \in Traceable(drafts)}
  BY DEF Research
<1>2. VerdictsOK(claims')
  BY <1>1 DEF VerdictsOK, Traceable
<1>. QED BY <1>2 DEF Research, ClaimsOK, VerdictsOK, Publishable

\* The fact checker replaces verdicts and nothing else, or the story is dropped.
LEMMA CheckKeeps ==
  ASSUME ClaimsOK, Check
  PROVE  ClaimsOK'
<1>1. PICK results \in [{c.text : c \in claims} -> Verdicts \cup {Unanswered}] :
        \/ NothingInHand
        \/ claims' = Checked(claims, results) /\ UNCHANGED <<autonomous, given, piece>>
  BY DEF Check
<1>2. CASE NothingInHand
  BY <1>2 DEF NothingInHand, ClaimsOK, VerdictsOK
<1>3. CASE claims' = Checked(claims, results) /\ UNCHANGED <<autonomous, given, piece>>
  <2>1. \A c \in claims : results[c.text] \in Verdicts \cup {Unanswered}
    OBVIOUS
  <2>2. VerdictsOK(claims')
    BY <1>3, <2>1 DEF ClaimsOK, VerdictsOK, Checked
  <2>. QED BY <1>3, <2>2 DEF ClaimsOK, VerdictsOK, Publishable
<1>. QED BY <1>1, <1>2, <1>3

\* The gate hands on what its mode admits.
LEMMA PassGateKeeps ==
  ASSUME ClaimsOK, PassGate
  PROVE  ClaimsOK'
<1>1. given' = Usable(claims, autonomous') /\ claims' = {}
  BY DEF PassGate
<1>2. CASE autonomous'
  BY <1>1, <1>2 DEF ClaimsOK, VerdictsOK, Usable, Publishable
<1>3. CASE ~autonomous'
  BY <1>1, <1>3 DEF ClaimsOK, VerdictsOK, Usable, HasVerdict
<1>. QED BY <1>2, <1>3

\* A verdict that is VERIFIED and sure is that verdict.
LEMMA VerdictsAreRecords ==
  ASSUME NEW v \in Verdicts \cup {Unanswered}, v.verification = "VERIFIED", v.sure
  PROVE  v = [verification |-> "VERIFIED", sure |-> TRUE]
<1>1. v \in [verification : Verifications, sure : BOOLEAN]
  BY DeskAssumption DEF Unanswered, Verifications
<1>2. v.sure = TRUE
  BY <1>1
<1>. QED BY <1>1, <1>2

(***************************************************************************)
(* Scripts.                                                                *)
(***************************************************************************)

\* The three platforms all carry carousels, of four to ten slides, and reels, of the
\* ninety seconds that Instagram takes.
LEMMA EveryPlatformTakesThem ==
  ASSUME NEW p \in Platforms
  PROVE  /\ Carries(p, "CAROUSEL") /\ Carries(p, "REEL")
         /\ 4..10 \subseteq getCapabilities(p).carousel[1]..getCapabilities(p).carousel[2]
         /\ getCapabilities(p).video.maxSeconds \in Nat
         /\ getCapabilities(p).video.maxSeconds >= 90
BY DEF Platforms, Carries, getCapabilities, INSTAGRAM_CAPABILITIES, TIKTOK_CAPABILITIES,
       FACEBOOK_CAPABILITIES, Limits

\* A reel of ninety seconds, in 1/100 s.
LEMMA NinetySeconds ==
  ReelLimit = 9000
BY DEF ReelLimit, getCapabilities, INSTAGRAM_CAPABILITIES, Limits

\* The strategist's targets are connected platforms.
LEMMA TargetsAreConnected ==
  ASSUME NEW available \in Connected, NEW requested, NEW format
  PROVE  TargetPlatforms(requested, format, available) \subseteq Platforms
BY DeskAssumption DEF TargetPlatforms

\* The length of a reel: the library's fold over its beats, written as a sum.
Length(beats) == SumsOf(beats, DOMAIN beats)[DOMAIN beats]

Scaled(beats, total) ==
  IF total <= 9000 THEN beats
  ELSE [i \in DOMAIN beats |-> (2 * beats[i] * 9000 + total) \div (2 * total)]

\* The fold of the library is the sum the lemmas above are about.
LEMMA LengthIsFolded ==
  ASSUME NEW beats
  PROVE  FoldFunction(+, 0, beats) = Length(beats)
BY DEF FoldFunction, FoldFunctionOnSet, MapThenFoldSet, Length, SumsOf, AreSums, Fold, pick

\* The model scales a reel to its limit by that sum.
LEMMA BeatsAreScaled ==
  ASSUME NEW beats
  PROVE  ScaledBeats(beats, ReelLimit) = Scaled(beats, Length(beats))
<1> DEFINE Scale(total, limit) ==
        IF total <= limit THEN beats
        ELSE [i \in DOMAIN beats |-> (2 * beats[i] * limit + total) \div (2 * total)]
<1>1. ScaledBeats(beats, ReelLimit) = Scale(Length(beats), ReelLimit)
  BY DEF ScaledBeats, FoldFunction, FoldFunctionOnSet, MapThenFoldSet, Length, SumsOf, AreSums,
         Fold, pick
<1>. QED BY <1>1, NinetySeconds DEF Scaled

\* A scaled reel is as long as the limit, up to half of a hundredth for every beat.
LEMMA ScaledBeatsFit ==
  ASSUME NEW beats \in Reels
  PROVE  LET scaled == ScaledBeats(beats, ReelLimit) IN
           scaled \in Seq(Nat) /\ 2 * Length(scaled) <= 18000 + Len(scaled)
<1> DEFINE n == Len(beats)
           S == 1..n
           total == Length(beats)
           scaled == Scaled(beats, total)
<1>1. /\ beats \in Seq(Nat) /\ n \in Nat
      /\ DOMAIN beats = S
      /\ \A i \in S : beats[i] \in Nat
  <2>1. beats \in Seq(Nat)
    BY DeskAssumption
  <2>. QED BY <2>1
<1>2. IsFiniteSet(S) /\ Cardinality(S) = n
  BY <1>1, FS_Interval
<1>3. total = SumsOf(beats, S)[S]
  BY <1>1 DEF Length
<1>4. total \in Int
  <2>1. \A x \in S : beats[x] \in Int
    BY <1>1
  <2>2. \A s \in SUBSET S : SumsOf(beats, S)[s] \in Int
    BY <1>2, <2>1, SumIsANumber
  <2>. QED BY <1>3, <2>2
<1> HIDE DEF total
<1>5. scaled \in Seq(Nat) /\ 2 * Length(scaled) <= 18000 + Len(scaled)
  <2>1. CASE total <= 9000
    <3>1. scaled = beats
      BY <2>1 DEF Scaled
    <3>. QED BY <1>1, <1>4, <2>1, <3>1 DEF total
  <2>2. CASE ~(total <= 9000)
    <3>1. total \in Nat /\ total > 9000
      BY <1>4, <2>2
    <3>2. scaled = [i \in S |-> (2 * beats[i] * 9000 + total) \div (2 * total)]
      BY <1>1, <2>2 DEF Scaled
    <3>3. ASSUME NEW i \in S
          PROVE  /\ scaled[i] \in Nat
                 /\ (2 * total) * scaled[i] <= 18000 * beats[i] + total
      <4>1. beats[i] \in Nat
        BY <1>1
      <4>2. scaled[i] = (2 * beats[i] * 9000 + total) \div (2 * total)
        BY <3>2
      <4>3. /\ 2 * beats[i] * 9000 + total = 18000 * beats[i] + total
            /\ 18000 * beats[i] + total \in Nat /\ 2 * total \in Nat \ {0}
        BY <3>1, <4>1
      <4>4. \A a \in Nat, b \in Nat \ {0} : a \div b \in Nat /\ b * (a \div b) <= a
        OBVIOUS
      <4>. QED BY <4>2, <4>3, <4>4
    <3>4. Len(scaled) = n /\ DOMAIN scaled = S /\ scaled \in Seq(Nat)
      <4>1. scaled \in [S -> Nat]
        BY <3>2, <3>3
      <4>. QED BY <1>1, <4>1
    <3> DEFINE sum == SumsOf(scaled, S)[S]
    <3>5. Length(scaled) = sum
      BY <3>4 DEF Length
    <3> HIDE DEF scaled
    <3>6. sum \in Int
      <4>1. \A x \in S : scaled[x] \in Int
        BY <3>3
      <4>2. \A s \in SUBSET S : SumsOf(scaled, S)[s] \in Int
        BY <1>2, <4>1, SumIsANumber
      <4>. QED BY <4>2
    <3>7. (2 * total) * sum <= 18000 * total + total * n
      <4>1. \A x \in S : /\ scaled[x] \in Int /\ beats[x] \in Int
                         /\ (2 * total) * scaled[x] <= 18000 * beats[x] + total
        <5>1. \A x \in Nat : x \in Int
          OBVIOUS
        <5>. QED BY <1>1, <3>3, <5>1
      <4>2. 2 * total \in Int /\ 18000 \in Int /\ total \in Int
        BY <1>4
      <4> DEFINE a == 2 * total
                 b == 18000
      <4>3. a * SumsOf(scaled, S)[S] <= b * SumsOf(beats, S)[S] + total * Cardinality(S)
        <5>1. Bounded(scaled, beats, S, a, b, total)
          BY <4>1 DEF Bounded
        <5>2. a \in Int /\ b \in Int
          BY <4>2
        <5> HIDE DEF a, b, S
        <5>. QED BY <1>2, <4>2, <5>1, <5>2, SumIsBounded
      <4>. QED BY <1>2, <1>3, <4>3
    <3> HIDE DEF sum
    <3>8. 2 * sum <= 18000 + n
      <4>1. total * (2 * sum) <= total * (18000 + n)
        <5>1. total * (2 * sum) = (2 * total) * sum
          BY <1>4, <3>6
        <5>2. total * (18000 + n) = 18000 * total + total * n
          BY <1>1, <1>4
        <5>. QED BY <3>7, <5>1, <5>2
      <4>2. ASSUME NEW t \in Nat \ {0}, NEW x \in Int, NEW y \in Int, t * x <= t * y
            PROVE  x <= y
        <5>1. ASSUME x > y PROVE FALSE
          <6>1. x - y >= 1 /\ t >= 1
            BY <5>1
          <6>2. t * (x - y) >= 1
            BY <6>1
          <6>3. t * (x - y) = t * x - t * y
            OBVIOUS
          <6>. QED BY <4>2, <6>2, <6>3
        <5>. QED BY <5>1
      <4>. QED BY <1>1, <3>1, <3>6, <4>1, <4>2
    <3>. QED BY <3>4, <3>5, <3>8
  <2>. QED BY <2>1, <2>2
<1>. QED BY <1>5, BeatsAreScaled DEF total

Slide == [role : SLIDE_ROLES, cover : BOOLEAN, inverted : BOOLEAN, page : Nat]

\* A carousel keeps the number of its slides, and opens and closes as it should.
LEMMA CarouselsAreDesigned ==
  ASSUME NEW roles \in Carousels
  PROVE  LET slides == designCarousel(CarouselRoles(roles)) IN
           /\ slides \in Seq(Slide) /\ Len(slides) \in 4..10
           /\ slides[1].role = "HOOK" /\ slides[Len(slides)].role = "CTA"
<1> DEFINE n == Len(roles)
           set == CarouselRoles(roles)
           slides == designCarousel(set)
<1>1. roles \in Seq(SLIDE_ROLES) /\ n \in 4..10
  BY DeskAssumption
<1>2. 1 \in 1..n /\ n \in 1..n /\ 1 # n
  <2>1. \A k \in 4..10 : 1 \in 1..k /\ k \in 1..k /\ 1 # k
    OBVIOUS
  <2>. QED BY <1>1, <2>1
<1>3. set \in Seq(SLIDE_ROLES) /\ Len(set) = n /\ set[1] = "HOOK" /\ set[n] = "CTA"
  <2>1. roles \in [1..n -> SLIDE_ROLES] /\ 1 \in 1..n /\ n \in 1..n /\ 1 # n
    BY <1>1, <1>2
  <2>2. set = [roles EXCEPT ![1] = "HOOK", ![n] = "CTA"]
    BY DEF CarouselRoles
  <2>3. set \in [1..n -> SLIDE_ROLES] /\ set[1] = "HOOK" /\ set[n] = "CTA"
    <3>1. "HOOK" \in SLIDE_ROLES /\ "CTA" \in SLIDE_ROLES
      BY DEF SLIDE_ROLES
    <3> HIDE DEF n, set
    <3>. QED BY <2>1, <2>2, <3>1
  <2>. QED BY <1>1, <2>3
<1> HIDE DEF set
<1>4. slides = [i \in 1..n |-> [role |-> set[i], cover |-> i = 1,
                                inverted |-> i = 1 \/ set[i] = "CTA", page |-> i]]
  BY <1>3 DEF designCarousel
<1> HIDE DEF slides
<1>5. \A i \in 1..n : slides[i].role = set[i] /\ slides[i] \in Slide
  <2>1. SUFFICES ASSUME NEW i \in 1..n
                 PROVE  slides[i].role = set[i] /\ slides[i] \in Slide
    OBVIOUS
  <2>2. set[i] \in SLIDE_ROLES /\ i \in Nat
    BY <1>1, <1>3
  <2>3. (i = 1) \in BOOLEAN /\ (i = 1 \/ set[i] = "CTA") \in BOOLEAN
    OBVIOUS
  <2>. QED BY <1>4, <2>2, <2>3 DEF Slide
<1>6. slides \in [1..n -> Slide] /\ n \in Nat
  BY <1>1, <1>4, <1>5
<1>7. slides \in Seq(Slide) /\ Len(slides) = n
  BY <1>6
<1>. QED BY <1>1, <1>3, <1>5, <1>7, <1>2 DEF slides, set

\* The piece in hand, with the length of a reel written as a sum.
PieceOK ==
  piece # NoPiece =>
    \A p \in piece.targets :
      LET caps == getCapabilities(p) IN
        /\ Carries(p, piece.format)
        /\ piece.format = "CAROUSEL" =>
             /\ Len(piece.content) \in caps.carousel[1]..caps.carousel[2]
             /\ piece.content[1].role = "HOOK"
             /\ piece.content[Len(piece.content)].role = "CTA"
        /\ piece.format = "REEL" =>
             2 * Length(piece.content) <= 200 * caps.video.maxSeconds + Len(piece.content)

\* The property says with a fold what PieceOK says with a sum.
LEMMA PieceOKFits ==
  PieceOK => PieceFitsItsPlatforms
BY DEF PieceOK, PieceFitsItsPlatforms, FoldFunction, FoldFunctionOnSet, MapThenFoldSet,
       Length, SumsOf, AreSums, Fold, pick

\* Whatever the strategist asked for, what is written fits where it goes.
LEMMA WriteKeeps ==
  ASSUME Write
  PROVE  PieceOK' /\ piece' # NoPiece
<1>1. PICK available \in Connected, requested \in SUBSET Platforms,
           format \in {"CAROUSEL", "REEL", "SINGLE_IMAGE", "STORY", "SERIES"} :
        LET targets == TargetPlatforms(requested, format, available) IN
          \/ \E beats \in Reels :
               piece' = [format |-> "REEL", targets |-> targets,
                         content |-> ScaledBeats(beats, ReelLimit)]
          \/ \E roles \in Carousels :
               piece' = [format |-> "CAROUSEL", targets |-> targets,
                         content |-> designCarousel(CarouselRoles(roles))]
  BY DEF Write
<1> DEFINE targets == TargetPlatforms(requested, format, available)
           Pieces == [format  : {"CAROUSEL", "REEL"}, targets : SUBSET Platforms,
                      content : Seq(Nat) \cup Seq(Slide)]
<1>2. targets \subseteq Platforms
  BY TargetsAreConnected
<1>3. NoPiece \notin Pieces
  BY DeskAssumption DEF Slide
<1> HIDE DEF targets, Pieces
<1>4. CASE \E beats \in Reels : piece' = [format |-> "REEL", targets |-> targets,
                                        content |-> ScaledBeats(beats, ReelLimit)]
  <2>1. PICK beats \in Reels : piece' = [format |-> "REEL", targets |-> targets,
                                         content |-> ScaledBeats(beats, ReelLimit)]
    BY <1>4
  <2> DEFINE scaled == ScaledBeats(beats, ReelLimit)
  <2>2. scaled \in Seq(Nat) /\ 2 * Length(scaled) <= 18000 + Len(scaled)
    BY ScaledBeatsFit
  <2>3. Length(scaled) \in Int
    <3>1. IsFiniteSet(DOMAIN scaled) /\ \A x \in DOMAIN scaled : scaled[x] \in Int
      <4>1. IsFiniteSet(1..Len(scaled))
        BY <2>2, FS_Interval
      <4>. QED BY <2>2, <4>1
    <3>2. \A s \in SUBSET (DOMAIN scaled) : SumsOf(scaled, DOMAIN scaled)[s] \in Int
      BY <3>1, SumIsANumber
    <3>. QED BY <3>2 DEF Length
  <2> HIDE DEF scaled
  <2>4. piece'.format = "REEL" /\ piece'.targets = targets /\ piece'.content = scaled
    BY <2>1 DEF scaled
  <2>5. piece' \in Pieces
    BY <1>2, <2>1, <2>2 DEF Pieces, scaled
  <2>6. ASSUME NEW p \in targets
        PROVE  /\ Carries(p, "REEL")
               /\ 2 * Length(scaled) <= 200 * getCapabilities(p).video.maxSeconds + Len(scaled)
    <3>1. /\ Carries(p, "REEL")
          /\ getCapabilities(p).video.maxSeconds \in Nat
          /\ getCapabilities(p).video.maxSeconds >= 90
      BY <1>2, EveryPlatformTakesThem
    <3>. QED BY <2>2, <2>3, <3>1
  <2>. QED BY <1>3, <2>4, <2>5, <2>6 DEF PieceOK
<1>5. CASE \E roles \in Carousels : piece' = [format |-> "CAROUSEL", targets |-> targets,
                                            content |-> designCarousel(CarouselRoles(roles))]
  <2>1. PICK roles \in Carousels : piece' = [format |-> "CAROUSEL", targets |-> targets,
                                             content |-> designCarousel(CarouselRoles(roles))]
    BY <1>5
  <2> DEFINE slides == designCarousel(CarouselRoles(roles))
  <2>2. /\ slides \in Seq(Slide) /\ Len(slides) \in 4..10
        /\ slides[1].role = "HOOK" /\ slides[Len(slides)].role = "CTA"
    BY CarouselsAreDesigned
  <2> HIDE DEF slides
  <2>3. piece'.format = "CAROUSEL" /\ piece'.targets = targets /\ piece'.content = slides
    BY <2>1 DEF slides
  <2>4. piece' \in Pieces
    BY <1>2, <2>1, <2>2 DEF Pieces, slides
  <2>5. \A p \in targets : /\ Carries(p, "CAROUSEL")
                           /\ Len(slides) \in getCapabilities(p).carousel[1]
                                                ..getCapabilities(p).carousel[2]
    BY <1>2, <2>2, EveryPlatformTakesThem
  <2>. QED BY <1>3, <2>2, <2>3, <2>4, <2>5 DEF PieceOK
<1>. QED BY <1>1, <1>4, <1>5 DEF targets

(***************************************************************************)
(* The invariant, and what follows from it.                                *)
(***************************************************************************)

DeskInv ==
  /\ DeskTypeOK
  /\ StoriesOK /\ HooksOK /\ TextsOK
  /\ ClaimsOK
  /\ PieceOK

\* The desk begins with nothing known and nothing in hand.
LEMMA DeskStarts ==
  DeskInit => DeskInv
BY DEF DeskInit, DeskInv, DeskTypeOK, StoriesOK, HooksOK, TextsOK, AllUnlike, ClaimsOK,
       VerdictsOK, PieceOK

\* Every step of an agent keeps what was said.
LEMMA DeskInductive ==
  DeskInv /\ [DeskNext]_deskVars => DeskInv'
<1> SUFFICES ASSUME DeskInv, [DeskNext]_deskVars PROVE DeskInv'
  OBVIOUS
<1> DEFINE Shelf == <<known, used, overlooked>>
<1>. USE DEF InHand
<1>1. UNCHANGED Shelf => StoriesOK' /\ HooksOK' /\ TextsOK'
  BY DEF DeskInv, StoriesOK, HooksOK, TextsOK
<1>2. UNCHANGED <<claims, autonomous, given>> => ClaimsOK'
  BY DEF DeskInv, ClaimsOK
<1>3. UNCHANGED piece => PieceOK'
  BY DEF DeskInv, PieceOK
<1>4. NothingInHand => ClaimsOK' /\ PieceOK'
  BY DEF NothingInHand, ClaimsOK, VerdictsOK, PieceOK
<1>5. ClaimsOK' => \A c \in claims' \cup given' : c.verdict \in Verdicts \cup {Unanswered}
  BY DEF ClaimsOK, VerdictsOK
<1>6. CASE Scan
  <2>1. StoriesOK' /\ known' \subseteq Stories /\ overlooked' \subseteq {"stories", "hooks"}
    BY <1>6, ScanKeeps DEF DeskInv
  <2>2. HooksOK'
    BY <1>6 DEF Scan, Overlook, DeskInv, HooksOK
  <2>. QED BY <1>2, <1>3, <1>6, <2>1, <2>2 DEF Scan, DeskInv, DeskTypeOK, TextsOK
<1>7. CASE Select
  BY <1>1, <1>2, <1>3, <1>7 DEF Select, DeskInv, DeskTypeOK
<1>8. CASE Research
  <2>1. ClaimsOK'
    BY <1>8, ResearchKeeps DEF DeskInv
  <2>. QED BY <1>1, <1>3, <1>5, <1>8, <2>1 DEF Research, DeskInv, DeskTypeOK
<1>9. CASE Check
  <2>1. ClaimsOK'
    BY <1>9, CheckKeeps DEF DeskInv
  <2>2. PieceOK'
    BY <1>3, <1>4, <1>9 DEF Check
  <2>. QED BY <1>1, <1>5, <1>9, <2>1, <2>2 DEF Check, NothingInHand, DeskInv, DeskTypeOK
<1>10. CASE PassGate
  <2>1. ClaimsOK'
    BY <1>10, PassGateKeeps DEF DeskInv
  <2>. QED BY <1>1, <1>3, <1>5, <1>10, <2>1 DEF PassGate, DeskInv, DeskTypeOK
<1>11. CASE PickHook
  <2>1. /\ HooksOK' /\ TextsOK' /\ used' \subseteq {h.text : h \in Hooks}
        /\ overlooked' \subseteq {"stories", "hooks"}
    BY <1>11, PickHookKeeps DEF DeskInv
  <2>2. StoriesOK'
    BY <1>11 DEF PickHook, Overlook, DeskInv, StoriesOK
  <2>3. ClaimsOK'
    BY <1>11 DEF PickHook, DeskInv, ClaimsOK, VerdictsOK
  <2>. QED BY <1>3, <1>5, <1>11, <2>1, <2>2, <2>3 DEF PickHook, DeskInv, DeskTypeOK
<1>12. CASE Write
  <2>1. PieceOK' /\ piece' # NoPiece
    BY <1>12, WriteKeeps
  <2>. QED BY <1>1, <1>2, <1>12, <2>1 DEF Write, DeskInv, DeskTypeOK
<1>13. CASE PutAway
  BY <1>1, <1>4, <1>5, <1>13 DEF PutAway, NothingInHand, DeskInv, DeskTypeOK
<1>14. CASE UNCHANGED deskVars
  BY <1>1, <1>2, <1>3, <1>14 DEF deskVars, DeskInv, DeskTypeOK
<1>. QED BY <1>6, <1>7, <1>8, <1>9, <1>10, <1>11, <1>12, <1>13, <1>14 DEF DeskNext

\* So it holds throughout.
LEMMA DeskAlways ==
  DeskSpec => []DeskInv
BY DeskStarts, DeskInductive, PTL DEF DeskSpec

\* The desk keeps its shape: a piece is in hand exactly when it is written, and every
\* claim has a verdict its schema admits.
THEOREM DeskTypeCorrect ==
  DeskSpec => []DeskTypeOK
<1>1. DeskInv => DeskTypeOK
  BY DEF DeskInv
<1>. QED BY <1>1, DeskAlways, PTL

\* However many scans and pieces there have been, no two stories and no two hooks are
\* alike until a query for recent ones has been cut off, and no hook was rated too low.
THEOREM TheDeskRepeatsNothing ==
  DeskSpec => []NothingIsRepeated
<1>1. DeskInv => NothingIsRepeated
  BY DEF DeskInv, NothingIsRepeated, StoriesOK, HooksOK, TextsOK
<1>. QED BY <1>1, DeskAlways, PTL

\* Whatever the models extract and however they judge, a writer is given only claims
\* that begin in a source and that its mode admits.
THEOREM WritersGetTraceableClaims ==
  DeskSpec => []ClaimsAreTraceable
<1>1. DeskInv => ClaimsAreTraceable
  <2>1. SUFFICES ASSUME DeskInv, NEW c \in given
                 PROVE  /\ c.excerpt \in {"quoted", "opening"}
                        /\ IF autonomous
                           THEN c.verdict = [verification |-> "VERIFIED", sure |-> TRUE]
                           ELSE c.verdict.verification # "CONTRADICTED"
    BY DEF ClaimsAreTraceable
  <2>2. c.excerpt \in {"quoted", "opening"} /\ c.verdict \in Verdicts \cup {Unanswered}
    BY <2>1 DEF DeskInv, ClaimsOK, VerdictsOK
  <2>3. ASSUME autonomous
        PROVE  c.verdict = [verification |-> "VERIFIED", sure |-> TRUE]
    BY <2>1, <2>2, <2>3, VerdictsAreRecords DEF DeskInv, ClaimsOK, Publishable
  <2>4. ASSUME ~autonomous
        PROVE  c.verdict.verification # "CONTRADICTED"
    BY <2>1, <2>4 DEF DeskInv, ClaimsOK
  <2>. QED BY <2>2, <2>3, <2>4
<1>. QED BY <1>1, DeskAlways, PTL

\* Whatever a script holds within its schema, the carousel or reel made of it can be
\* posted on every platform it is made for: the slides are in number, and the scaled
\* beats add up to no more than the platform plays, but for their rounding.
THEOREM PiecesFitTheirPlatforms ==
  DeskSpec => []PieceFitsItsPlatforms
<1>1. DeskInv => PieceFitsItsPlatforms
  BY PieceOKFits DEF DeskInv
<1>. QED BY <1>1, DeskAlways, PTL

(***************************************************************************)
(* The metrics.                                                            *)
(***************************************************************************)

\* No record has a number for what its platform cannot report.
RecordsOK ==
  /\ MetricsTypeOK
  /\ \A i \in DOMAIN records : \A k \in unavailableMetrics(records[i].platform) :
       records[i].metrics[k] = Unknown

\* A number or nothing, of what was reported.
LEMMA ValuesAreReported ==
  ASSUME NEW platform \in Networks, NEW answer \in Reports(platform), NEW name
  PROVE  Value(answer, name) \in Numbers \cup {Unknown}
BY DEF Reports, Value

\* The one form of an answer, and what stays unknown in it.
LEMMA ReportsAreNormal ==
  ASSUME NEW platform \in Networks, NEW answer \in Reports(platform)
  PROVE  /\ getAnalytics(platform, answer) \in [Keys -> Numbers \cup {Unknown}]
         /\ \A k \in unavailableMetrics(platform) : getAnalytics(platform, answer)[k] = Unknown
<1> DEFINE Known == Numbers \cup {Unknown}
           V(name) == Value(answer, name)
<1>1. /\ \A name : V(name) \in Known
      /\ Unknown \in Known
  BY ValuesAreReported
<1>2. CASE platform = "INSTAGRAM"
  <2>1. getAnalytics(platform, answer) = FromInstagram(answer)
    BY <1>2 DEF getAnalytics
  <2>2. FromInstagram(answer) =
             Normal(V("views"), V("reach"), V("likes"), V("comments"), V("shares"),
                    V("saved"))
    BY DEF FromInstagram
  <2>3. FromInstagram(answer) \in [Keys -> Known]
    <3> HIDE DEF V, Known
    <3>. QED BY <1>1, <2>2 DEF Normal, Keys
  <2>4. \A k \in unavailableMetrics(platform) : FromInstagram(answer)[k] = Unknown
    BY <1>2, <2>2 DEF unavailableMetrics
  <2>. QED BY <2>1, <2>3, <2>4
<1>3. CASE platform = "TIKTOK"
  <2>1. getAnalytics(platform, answer) = FromTikTok(answer)
    BY <1>3 DEF getAnalytics
  <2>2. FromTikTok(answer) =
             Normal(V("view_count"), Unknown, V("like_count"), V("comment_count"),
                    V("share_count"), Unknown)
    BY DEF FromTikTok
  <2>3. FromTikTok(answer) \in [Keys -> Known]
    <3> HIDE DEF V, Known
    <3>. QED BY <1>1, <2>2 DEF Normal, Keys
  <2>4. \A k \in unavailableMetrics(platform) : FromTikTok(answer)[k] = Unknown
    BY <1>3, <2>2 DEF unavailableMetrics, Normal
  <2>. QED BY <2>1, <2>3, <2>4
<1>4. CASE platform = "FACEBOOK"
  <2>1. getAnalytics(platform, answer) = FromFacebook(answer)
    BY <1>4 DEF getAnalytics
  <2>2. FromFacebook(answer) =
             Normal(V("post_impressions"), V("post_impressions_unique"),
                    V("post_reactions_by_type_total"), Unknown, Unknown, Unknown)
    BY DEF FromFacebook
  <2>3. FromFacebook(answer) \in [Keys -> Known]
    <3> HIDE DEF V, Known
    <3>. QED BY <1>1, <2>2 DEF Normal, Keys
  <2>4. \A k \in unavailableMetrics(platform) : FromFacebook(answer)[k] = Unknown
    BY <1>4, <2>2 DEF unavailableMetrics, Normal
  <2>. QED BY <2>1, <2>3, <2>4
<1>. QED BY <1>2, <1>3, <1>4 DEF Networks

\* Nothing is collected at first; and every answer is kept in the one form.
LEMMA RecordsAreKept ==
  /\ MetricsInit => RecordsOK
  /\ RecordsOK /\ [Collect]_records => RecordsOK'
<1> DEFINE Record == [platform : Networks, metrics : [Keys -> Numbers \cup {Unknown}]]
<1>1. MetricsInit => RecordsOK
  BY DEF MetricsInit, RecordsOK, MetricsTypeOK
<1>2. ASSUME RecordsOK, Collect
      PROVE  RecordsOK'
  <2>1. PICK platform \in Networks : \E answer \in Reports(platform) :
               records' = Append(records, [platform |-> platform,
                                           metrics  |-> getAnalytics(platform, answer)])
    BY <1>2 DEF Collect
  <2>2. PICK answer \in Reports(platform) :
               records' = Append(records, [platform |-> platform,
                                           metrics  |-> getAnalytics(platform, answer)])
    BY <2>1
  <2> DEFINE m == getAnalytics(platform, answer)
             new == [platform |-> platform, metrics |-> m]
  <2>3. /\ m \in [Keys -> Numbers \cup {Unknown}]
        /\ \A k \in unavailableMetrics(platform) : m[k] = Unknown
    BY ReportsAreNormal
  <2> HIDE DEF m
  <2>4. new \in Record /\ new.platform = platform /\ new.metrics = m
    BY <2>3
  <2>5. records' = Append(records, new)
    BY <2>2 DEF m
  <2> HIDE DEF new, Record
  <2>6. records \in Seq(Record)
    BY <1>2 DEF RecordsOK, MetricsTypeOK, Record
  <2>7. /\ records' \in Seq(Record)
        /\ \A i \in DOMAIN records' :
             \/ i \in DOMAIN records /\ records'[i] = records[i]
             \/ records'[i] = new
    BY <2>4, <2>5, <2>6
  <2>8. \A i \in DOMAIN records' : \A k \in unavailableMetrics(records'[i].platform) :
          records'[i].metrics[k] = Unknown
    BY <1>2, <2>3, <2>4, <2>7 DEF RecordsOK
  <2>. QED BY <2>7, <2>8 DEF RecordsOK, MetricsTypeOK, Record
<1>3. ASSUME RecordsOK, UNCHANGED records
      PROVE  RecordsOK'
  BY <1>3 DEF RecordsOK, MetricsTypeOK
<1>. QED BY <1>1, <1>2, <1>3

\* A sum over records is a sum, or unknown when none has a number.
LEMMA SumIsOverPresent ==
  ASSUME NEW key, NEW rows
  PROVE  LET present == {i \in rows : records[i].metrics[key] # Unknown}
             value   == [i \in present |-> records[i].metrics[key]]
         IN  Sum(key, rows) = IF present = {} THEN Unknown ELSE SumsOf(value, present)[present]
BY DEF Sum, SumFunction, SumFunctionOnSet, FoldFunctionOnSet, MapThenFoldSet, SumsOf, AreSums,
       Fold, pick

\* What is known to nobody adds up to nothing.
LEMMA NothingIsInvented ==
  ASSUME NEW key, NEW rows, \A i \in rows : records[i].metrics[key] = Unknown
  PROVE  Sum(key, rows) = Unknown
BY SumIsOverPresent

\* Numbers that are not zero add up to something.
LEMMA ZerosAreReported ==
  ASSUME RecordsOK, 0 \notin Numbers, NEW key \in Keys
  PROVE  Sum(key, DOMAIN records) # 0
<1> DEFINE present == {i \in DOMAIN records : records[i].metrics[key] # Unknown}
           value   == [i \in present |-> records[i].metrics[key]]
<1>1. Sum(key, DOMAIN records) =
        IF present = {} THEN Unknown ELSE SumsOf(value, present)[present]
  BY SumIsOverPresent
<1>2. Unknown # 0
  BY DEF Unknown
<1>3. IsFiniteSet(present) /\ Cardinality(present) \in Nat
  <2>1. DOMAIN records = 1..Len(records) /\ Len(records) \in Nat
    BY DEF RecordsOK, MetricsTypeOK
  <2>2. IsFiniteSet(DOMAIN records)
    BY <2>1, FS_Interval
  <2>3. IsFiniteSet(present)
    BY <2>2, FS_Subset
  <2>. QED BY <2>3, FS_CardinalityType
<1>4. \A i \in present : value[i] \in Nat \ {0}
  <2>1. \A i \in DOMAIN records : records[i].metrics[key] \in Numbers \cup {Unknown}
    <3> DEFINE Record == [platform : Networks, metrics : [Keys -> Numbers \cup {Unknown}]]
    <3>1. \A r \in Record : r.metrics[key] \in Numbers \cup {Unknown}
      OBVIOUS
    <3>2. records \in Seq(Record)
      BY DEF RecordsOK, MetricsTypeOK
    <3> HIDE DEF Record
    <3>3. \A i \in DOMAIN records : records[i] \in Record
      BY <3>2
    <3>. QED BY <3>1, <3>3
  <2>. QED BY <2>1, MetricsAssumption
<1> DEFINE a == 0
           b == 1
           c == -1
<1>5. Bounded(value, value, present, a, b, c)
  BY <1>4 DEF Bounded
<1>6. a \in Int /\ b \in Int /\ c \in Int
  OBVIOUS
<1>7. \A s \in SUBSET present : SumsOf(value, present)[s] \in Int
  <2>1. \A i \in present : value[i] \in Int
    BY <1>4
  <2> HIDE DEF value, present
  <2>. QED BY <1>3, <2>1, SumIsANumber
<1> DEFINE sum == SumsOf(value, present)[present]
<1> HIDE DEF a, b, c, value, present
<1>8. a * sum <= b * sum + c * Cardinality(present)
  BY <1>3, <1>5, <1>6, SumIsBounded
<1>9. sum \in Int
  BY <1>7
<1> HIDE DEF sum
<1>10. present # {} => sum # 0
  <2>1. SUFFICES ASSUME present # {} PROVE sum # 0
    OBVIOUS
  <2>2. Cardinality(present) # 0
    BY <1>3, <2>1, FS_EmptySet
  <2>3. 0 <= sum - Cardinality(present)
    BY <1>3, <1>8, <1>9 DEF a, b, c
  <2>. QED BY <1>3, <1>9, <2>2, <2>3
<1>. QED BY <1>1, <1>2, <1>10 DEF sum

\* The records keep their shape whatever the platforms answer.
THEOREM MetricsTypeCorrect ==
  MetricsSpec => []MetricsTypeOK
<1>1. RecordsOK => MetricsTypeOK
  BY DEF RecordsOK
<1>. QED BY <1>1, RecordsAreKept, PTL DEF MetricsSpec

\* Whatever is collected, the summary shows no number that no platform could report, and
\* no zero that none reported.
THEOREM TheSummaryInventsNothing ==
  MetricsSpec => []SummaryShowsNoInventedNumber
<1>1. RecordsOK => SummaryShowsNoInventedNumber
  <2> SUFFICES ASSUME RecordsOK PROVE SummaryShowsNoInventedNumber
    OBVIOUS
  <2>1. ASSUME NEW k \in Keys, \A p \in Measured : k \in unavailableMetrics(p)
        PROVE  totals[k] = Unknown
    <3>1. \A i \in DOMAIN records : records[i].metrics[k] = Unknown
      BY <2>1 DEF Measured, RecordsOK
    <3>. QED BY <3>1, NothingIsInvented DEF totals
  <2>2. ASSUME NEW p \in Measured, NEW k \in {"views", "reach"}, k \in unavailableMetrics(p)
        PROVE  byPlatform[p][k] = Unknown
    <3> DEFINE rows == {i \in DOMAIN records : records[i].platform = p}
    <3>1. \A i \in rows : records[i].metrics[k] = Unknown
      BY <2>2 DEF RecordsOK
    <3>2. byPlatform[p][k] = Sum(k, rows)
      BY DEF byPlatform
    <3> HIDE DEF rows
    <3>. QED BY <3>1, <3>2, NothingIsInvented
  <2>3. ASSUME 0 \notin Numbers, NEW k \in Keys
        PROVE  totals[k] # 0
    BY <2>3, ZerosAreReported DEF totals
  <2>. QED BY <2>1, <2>2, <2>3 DEF SummaryShowsNoInventedNumber
<1>. QED BY <1>1, RecordsAreKept, PTL DEF MetricsSpec
=============================================================================
