------------------------------- MODULE Learning -------------------------------
(***************************************************************************)
(* The learning engine and the content mix: how measured posts become      *)
(* insights, and how cycles of insights move the topic-scoring weights and *)
(* the mix of categories.                                                  *)
(*                                                                         *)
(* Weights are in 1/10000 and lifts in 1/1000, the digits the code rounds  *)
(* to; a score is a whole number per 1000 reached, and a mix is in 1/100   *)
(* of a percent.  The floating point in between is exact here.             *)
(***************************************************************************)
EXTENDS Integers, FiniteSetsExt, Functions

CONSTANTS
  Weightings,  \* scoring weights a brand may start with
  Histories,   \* posts measured in a cycle: sets of groups, see Group
  Mixes,       \* content mixes a brand may start with
  MaxCycles    \* cycles of learning

Dimensions == {"CURRENT_INTEREST", "AUDIENCE_FIT", "CURIOSITY", "SHAREABILITY", "SAVEABILITY",
               "COMMENT_POTENTIAL", "VISUAL_POTENTIAL", "EMOTIONAL_IMPACT", "NOVELTY",
               "TIMELINESS", "FOLLOW_POTENTIAL", "BRAND_FIT"}

RoundDiv(a, b) == (2 * a + b) \div (2 * b)
Lesser(a, b)   == IF a < b THEN a ELSE b
Larger(a, b)   == IF a < b THEN b ELSE a
SumOver(f)     == SumFunction(f)

-----------------------------------------------------------------------------
(* engine.ts: posts, insights.                                             *)

Null == -1
OrZero(n) == IF n = Null THEN 0 ELSE n

\* The value of a post per 1000 reached: views stand in for an unknown reach.
performanceScore(p) ==
  LET reach    == IF p.reach = Null THEN p.views ELSE p.reach
      weighted == OrZero(p.saves) * 3 + OrZero(p.shares) * 3 + OrZero(p.follows) * 5
                  + OrZero(p.comments) * 2 + OrZero(p.likes)
  IN IF reach <= 0 THEN Null ELSE RoundDiv(weighted * 1000, reach)

MIN_SAMPLE_SIZE == 5

\* 1 - exp(-n/15), of the sample sizes in use: 5, 20 and 60 posts.
confidenceFor(n) == CASE n < MIN_SAMPLE_SIZE -> 0
                      [] n \in 5..19         -> 283
                      [] n \in 20..59        -> 736
                      [] OTHER               -> 950

\* The posts of one category in one format, all measured alike.  Posts that nobody
\* was reached by have no score.
Group(category, format, size, post) ==
  [category |-> category, format |-> format, size |-> size, score |-> performanceScore(post)]

WithScore(history) == {g \in history : g.score # Null}

Posts(history)  == SumOver([g \in history |-> g.size])
Scored(history) == SumOver([g \in history |-> g.size * g.score])

\* Posts are measured in finite groups.  The API takes a mix of percentages that total 100,
\* give or take a half (routes/misc.ts), and there are eleven categories to mix.
ASSUME LearningAssumption ==
  /\ MaxCycles \in Nat
  /\ Weightings \subseteq [Dimensions -> Nat]
  /\ \A history \in Histories :
       /\ IsFiniteSet(history)
       /\ \A g \in history : g.size \in Nat \ {0} /\ g.score \in Nat \cup {Null}
  /\ \A target \in Mixes :
       /\ target \in [DOMAIN target -> Nat]
       /\ IsFiniteSet(DOMAIN target) /\ Cardinality(DOMAIN target) <= 11
       /\ SumOver(target) \in 9950..10050

\* computeInsights, for one dimension of the groups: the keys with their sample size and their
\* lift over the baseline, in no order.
Insights(history, dimension) ==
  LET all   == WithScore(history)
      Of(k) == {g \in all : g[dimension] = k}
  IN IF all = {} \/ Scored(all) = 0 THEN {}
     ELSE {[key  |-> k,
            size |-> Posts(Of(k)),
            lift |-> RoundDiv(1000 * Scored(Of(k)) * Posts(all), Posts(Of(k)) * Scored(all))] :
             k \in {g[dimension] : g \in all}}

\* Fault seeded for the mutation check: any sample is large enough.
LargeAnySample(insights) == insights

Large(insights) == {i \in insights : i.size >= MIN_SAMPLE_SIZE}

-----------------------------------------------------------------------------
(* engine.ts: adjusting the weights.                                       *)

maxStep == 200

Raised(weight, step) == Lesser(3000, weight + step)

Lifts(insights) == {i.lift : i \in insights}

\* Category choice matters: three categories or more, more than 0.5 apart.
SpreadIsWide(categories) ==
  Cardinality(categories) >= 3 /\ Max(Lifts(categories)) - Min(Lifts(categories)) > 500

\* The formats the sort may have put first, if they outperform the baseline.
BestFormats(formats) == {i \in formats : i.lift = Max(Lifts(formats)) /\ i.lift > 1250}

\* The weights before normalization: best is the format found best, if any.
Raise(weights, wide, best) ==
  [d \in DOMAIN weights |->
     CASE d \in {"AUDIENCE_FIT", "BRAND_FIT"} /\ wide -> Raised(weights[d], maxStep)
       [] d \in {"SAVEABILITY", "SHAREABILITY"} /\ best # {} ->
            LET sure == confidenceFor((CHOOSE b \in best : TRUE).size)
            IN Raised(weights[d], RoundDiv(maxStep * sure, 1000))
       [] OTHER -> weights[d]]

\* Fault seeded for the mutation check: raised weights stay as they are.
NotNormalized(weights) == weights

Normalized(weights) ==
  LET sum == SumOver(weights)
  IN IF sum > 0 THEN [d \in DOMAIN weights |-> RoundDiv(weights[d] * 10000, sum)] ELSE weights

\* The results adjustScoringWeights may have: equal formats may be sorted either way.
adjustScoringWeights(weights, history) ==
  LET categories == Large(Insights(history, "category"))
      best       == BestFormats(Large(Insights(history, "format")))
  IN {Normalized(Raise(weights, SpreadIsWide(categories), b)) :
        b \in IF best = {} THEN {{}} ELSE {{i} : i \in best}}

-----------------------------------------------------------------------------
(* mix.ts                                                                  *)

Clamped(low, n, high) == Larger(low, Lesser(high, n))

\* Five percentage points for a lift of 2 or more, down to minus five for none.
Shift(lift) == Clamped(-500, ((lift - 1000) * 500) \div 1000, 500)

adjustMixByPerformance(target, lifts) ==
  LET adjusted == [c \in DOMAIN target |->
                     IF c \in DOMAIN lifts THEN Larger(0, target[c] + Shift(lifts[c]))
                                           ELSE target[c]]
      sum == SumOver(adjusted)
  IN IF sum = 0 THEN target
     ELSE [c \in DOMAIN target |-> RoundDiv(adjusted[c] * 10000, sum)]

-----------------------------------------------------------------------------

VARIABLES
  weights,  \* the brand's scoring weights
  mix,      \* the brand's content mix
  cycle,    \* cycles of learning done
  measured  \* the posts of the last cycle

learningVars == <<weights, mix, cycle, measured>>

LearningTypeOK ==
  /\ weights \in [Dimensions -> Nat]
  /\ \A c \in DOMAIN mix : mix[c] \in Nat
  /\ cycle \in 0..MaxCycles
  /\ measured \in Histories \cup {{}}

LearningInit == weights \in Weightings /\ mix \in Mixes /\ cycle = 0 /\ measured = {}

\* One cycle over the posts measured in it.
Learn ==
  /\ cycle < MaxCycles
  /\ cycle' = cycle + 1
  /\ measured' \in Histories
  /\ weights' \in adjustScoringWeights(weights, measured')
  /\ LET insights == Insights(measured', "category")
     IN mix' = adjustMixByPerformance(mix,
                 [c \in {i.key : i \in insights} |-> (CHOOSE i \in insights : i.key = c).lift])

LearningSpec == LearningInit /\ [][Learn]_learningVars

-----------------------------------------------------------------------------
(* Properties.                                                             *)

Distance(a, b) == Larger(a - b, b - a)

\* Shares add up to one, up to the rounding of each.
SumToOne(shares) == 2 * Distance(SumOver(shares), 10000) <= Cardinality(DOMAIN shares)

\* However many cycles have passed, the mix still sums to one, and so do the weights,
\* unless all of them are zero and there is nothing to scale.
WeightsStayADistribution ==
  cycle > 0 => /\ SumOver(weights) > 0 => SumToOne(weights)
               /\ SumToOne(mix)

\* No group of the posts reaches the sample size.
Underpowered(history) ==
  \A i \in Insights(history, "category") \cup Insights(history, "format") :
    i.size < MIN_SAMPLE_SIZE

\* From weights that sum to one, a cycle lifts none past the ceiling of 0.3 by more than
\* what rounding lifts it: raises stop there, and normalization undoes more of them than it
\* adds.  If they are not far above the ceiling, it moves none by 0.03 or more, the margin the
\* tests allow above the step, whether by a raise or by the normalization after the raises
\* of others; and a few lucky posts move nothing but the rounding.
StepsAreSmall ==
  [][SumToOne(weights) =>
       /\ (\A d \in Dimensions : weights[d] <= 3000) =>
            \A d \in Dimensions : weights'[d] <= 3002
       /\ (\A d \in Dimensions : weights[d] <= 3050) =>
            \A d \in Dimensions :
              Distance(weights'[d], weights[d])
                <= IF Underpowered(measured') THEN 2 ELSE 299]_learningVars
=============================================================================
