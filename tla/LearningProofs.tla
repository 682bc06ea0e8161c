----------------------------- MODULE LearningProofs -----------------------------
(***************************************************************************)
(* What is proved of the learning engine and the content mix: for any      *)
(* weights, mixes and measured posts, and however many cycles, both stay   *)
(* distributions, and one cycle moves the weights little.                  *)
(***************************************************************************)
EXTENDS Learning, EditorialProofs

(***************************************************************************)
(* More on sums, which EditorialProofs begins with.                        *)
(***************************************************************************)

\* The sum of a function is the sum over its domain that the lemmas are about.
LEMMA SumIsLength ==
  ASSUME NEW f
  PROVE  SumOver(f) = Length(f)
BY DEF SumOver, SumFunction, SumFunctionOnSet, FoldFunctionOnSet, MapThenFoldSet, Length,
       SumsOf, AreSums, Fold, pick

TakesOut(f, S) ==
  \A s \in SUBSET S : \A x \in s : SumsOf(f, S)[s] = f[x] + SumsOf(f, S)[s \ {x}]

\* Any element may be taken out of a sum, not only the one the fold would take.
LEMMA SumTakesOut ==
  ASSUME NEW S, IsFiniteSet(S), NEW f, \A x \in S : f[x] \in Int
  PROVE  TakesOut(f, S)
<1> DEFINE F(s) == SumsOf(f, S)[s]
           N == {n \in Nat : \A s \in SUBSET S : \A x \in s :
                               Cardinality(s) = n => F(s) = f[x] + F(s \ {x})}
<1>1. \A s \in SUBSET S : F(s) \in Int
  BY SumIsANumber
<1>2. \A s \in SUBSET S : s # {} => F(s) = f[pick(s)] + F(s \ {pick(s)})
  BY SumUnfolds
<1> HIDE DEF F
<1>3. 0 \in N
  <2>1. \A s \in SUBSET S : Cardinality(s) = 0 => s = {}
    BY FS_Subset, FS_EmptySet
  <2>. QED BY <2>1
<1>4. ASSUME NEW n \in Nat, n \in N
      PROVE  n + 1 \in N
  <2>1. SUFFICES ASSUME NEW s \in SUBSET S, NEW x \in s, Cardinality(s) = n + 1
                 PROVE  F(s) = f[x] + F(s \ {x})
    OBVIOUS
  <2> DEFINE p == pick(s)
             r == s \ {p}
             t == s \ {x}
  <2>2. p \in s /\ F(s) = f[p] + F(r)
    BY <1>2, PickIsElement
  <2> HIDE DEF p
  <2>3. CASE x = p
    BY <2>2, <2>3
  <2>4. CASE x # p
    <3>1. IsFiniteSet(s)
      BY FS_Subset
    <3>2. Cardinality(r) = n /\ Cardinality(t) = n
      <4>1. Cardinality(r) = Cardinality(s) - 1 /\ Cardinality(t) = Cardinality(s) - 1
        BY <2>2, <3>1, FS_RemoveElement
      <4>. QED BY <2>1, <4>1
    <3>3. r \in SUBSET S /\ t \in SUBSET S /\ x \in r /\ p \in t
      BY <2>2, <2>4
    <3>4. F(r) = f[x] + F(r \ {x}) /\ F(t) = f[p] + F(t \ {p})
      BY <1>4, <3>2, <3>3
    <3>5. r \ {x} = t \ {p}
      OBVIOUS
    <3>6. f[x] \in Int /\ f[p] \in Int /\ F(r \ {x}) \in Int
      BY <1>1, <2>2, <3>3
    <3>7. F(t) = f[p] + F(r \ {x})
      BY <3>4, <3>5
    <3>8. F(s) = f[p] + (f[x] + F(r \ {x}))
      BY <2>2, <3>4
    <3> HIDE DEF r, t
    <3>9. F(s) = f[x] + F(t)
      BY <3>6, <3>7, <3>8
    <3>. QED BY <3>9 DEF t
  <2>. QED BY <2>3, <2>4
<1> HIDE DEF N
<1>5. \A n \in Nat : n \in N
  BY <1>3, <1>4, NumbersInduction
<1>6. ASSUME NEW s \in SUBSET S, NEW x \in s
      PROVE  F(s) = f[x] + F(s \ {x})
  <2>1. Cardinality(s) \in Nat
    BY FS_Subset, FS_CardinalityType
  <2>2. Cardinality(s) \in N
    BY <1>5, <2>1
  <2>. QED BY <2>2 DEF N
<1>. QED BY <1>6 DEF F, TakesOut

\* Functions that agree have the same sum.
LEMMA SumsAgree ==
  ASSUME NEW S, IsFiniteSet(S), NEW f, NEW g, NEW T \in SUBSET S, \A x \in T : f[x] = g[x]
  PROVE  SumsOf(f, S)[T] = SumsOf(g, S)[T]
<1> DEFINE H == {s \in SUBSET S : s \subseteq T => SumsOf(f, S)[s] = SumsOf(g, S)[s]}
<1>1. {} \in H
  BY SumUnfolds
<1>2. ASSUME NEW s \in SUBSET S, s # {}, s \ {pick(s)} \in H
      PROVE  s \in H
  BY <1>2, SumUnfolds, PickIsElement
<1> HIDE DEF H
<1>3. \A s \in SUBSET S : s \in H
  BY <1>1, <1>2, SubsetsInduction
<1>. QED BY <1>3 DEF H

\* A share, in whole hundredths of a percent, is what its value is of the sum, up to a half.
LEMMA SharesAreRounded ==
  ASSUME NEW a \in Nat, NEW sum \in Nat \ {0}
  PROVE  /\ RoundDiv(a * 10000, sum) \in Nat
         /\ (2 * sum) * RoundDiv(a * 10000, sum) <= 20000 * a + sum
         /\ 20000 * a <= (2 * sum) * RoundDiv(a * 10000, sum) + sum
<1> DEFINE n == 20000 * a + sum
           m == 2 * sum
<1>1. n \in Nat /\ m \in Nat \ {0}
  OBVIOUS
<1>2. RoundDiv(a * 10000, sum) = n \div m
  <2>1. 2 * (a * 10000) + sum = n
    OBVIOUS
  <2>. QED BY <2>1 DEF RoundDiv
<1>3. \A k \in Nat, d \in Nat \ {0} :
        k \div d \in Nat /\ d * (k \div d) <= k /\ k < d * (k \div d) + d
  OBVIOUS
<1>4. n \div m \in Nat /\ m * (n \div m) <= n /\ n < m * (n \div m) + m
  <2> HIDE DEF n, m
  <2>. QED BY <1>1, <1>3
<1> DEFINE q == n \div m
<1>5. q \in Nat /\ m * q \in Nat /\ m * q <= n /\ n < m * q + m
  <2>1. \A x, y \in Nat : x * y \in Nat
    OBVIOUS
  <2> HIDE DEF n, m
  <2>. QED BY <1>1, <1>4, <2>1
<1> HIDE DEF q
<1>6. RoundDiv(a * 10000, sum) = q
  BY <1>2 DEF q
<1> DEFINE mq == m * q
<1>7. mq \in Nat /\ mq <= 20000 * a + sum /\ 20000 * a + sum < mq + 2 * sum
  BY <1>5
<1> HIDE DEF mq
<1>8. mq <= 20000 * a + sum /\ 20000 * a <= mq + sum
  BY <1>7
<1>. QED BY <1>5, <1>6, <1>8 DEF mq, m

\* The lengths that are functions of numbers are numbers.
LEMMA LengthIsANumber ==
  ASSUME NEW f, IsFiniteSet(DOMAIN f), \A x \in DOMAIN f : f[x] \in Nat
  PROVE  Length(f) \in Nat
<1> DEFINE S == DOMAIN f
<1>1. SumsOf(f, S)[S] \in Int
  <2>1. \A x \in S : f[x] \in Int
    OBVIOUS
  <2>. QED BY <2>1, SumIsANumber
<1>2. 0 * SumsOf(f, S)[S] <= 1 * SumsOf(f, S)[S] + 0 * Cardinality(S)
  <2>1. Bounded(f, f, S, 0, 1, 0)
    BY DEF Bounded
  <2>2. IsFiniteSet(S) /\ 0 \in Int /\ 1 \in Int
    OBVIOUS
  <2> HIDE DEF S
  <2>. QED BY <2>1, <2>2, SumIsBounded
<1>3. Cardinality(S) \in Nat
  BY FS_CardinalityType
<1>. QED BY <1>1, <1>2, <1>3 DEF Length

\* Shares of any values that are not all zero sum to one.
LEMMA SharesSumToOne ==
  ASSUME NEW f, IsFiniteSet(DOMAIN f), \A x \in DOMAIN f : f[x] \in Nat, Length(f) > 0,
         NEW g, g = [x \in DOMAIN f |-> RoundDiv(f[x] * 10000, Length(f))]
  PROVE  /\ g \in [DOMAIN f -> Nat]
         /\ SumToOne(g)
<1> DEFINE S == DOMAIN f
           sum == Length(f)
           all == Length(g)
           n == Cardinality(S)
<1>1. sum \in Nat \ {0}
  BY LengthIsANumber
<1>2. DOMAIN g = S /\ sum = SumsOf(f, S)[S] /\ all = SumsOf(g, S)[S]
  BY DEF Length
<1> HIDE DEF sum
<1>3. ASSUME NEW x \in S
      PROVE  /\ g[x] \in Nat /\ f[x] \in Nat
             /\ (2 * sum) * g[x] <= 20000 * f[x] + sum
             /\ 20000 * f[x] <= (2 * sum) * g[x] + sum
  BY <1>1, SharesAreRounded DEF sum
<1>4. all \in Nat
  BY <1>2, <1>3, LengthIsANumber
<1>5. n \in Nat
  BY FS_CardinalityType
<1>6. (2 * sum) * all <= 20000 * sum + sum * n
  <2>1. Bounded(g, f, S, 2 * sum, 20000, sum)
    BY <1>3 DEF Bounded
  <2>2. 2 * sum \in Int /\ sum \in Int
    BY <1>1
  <2>. QED BY <1>2, <2>1, <2>2, SumIsBounded
<1>7. 20000 * sum <= (2 * sum) * all + sum * n
  <2>1. Bounded(f, g, S, 20000, 2 * sum, sum)
    BY <1>3 DEF Bounded
  <2>2. 2 * sum \in Int /\ sum \in Int
    BY <1>1
  <2>. QED BY <1>2, <2>1, <2>2, SumIsBounded
<1> HIDE DEF all, n
<1>8. 2 * all <= 20000 + n /\ 20000 <= 2 * all + n
  <2>1. \A s \in Nat \ {0}, u, v \in Nat : s * u <= s * v => u <= v
    OBVIOUS
  <2>2. /\ (2 * sum) * all = sum * (2 * all)
        /\ 20000 * sum + sum * n = sum * (20000 + n)
        /\ 20000 * sum = sum * 20000
        /\ (2 * sum) * all + sum * n = sum * (2 * all + n)
    BY <1>1, <1>4, <1>5
  <2>3. /\ sum * (2 * all) <= sum * (20000 + n)
        /\ sum * 20000 <= sum * (2 * all + n)
    BY <1>6, <1>7, <2>2
  <2>. QED BY <1>1, <1>4, <1>5, <2>1, <2>3
<1>9. 2 * Distance(all, 10000) <= n
  BY <1>4, <1>5, <1>8 DEF Distance, Larger
<1>. QED BY <1>2, <1>3, <1>9, SumIsLength DEF SumToOne, all, n

(***************************************************************************)
(* Insights.                                                               *)
(***************************************************************************)

\* Groups have posts, as many as they have together, and values that are no less than none.
LEMMA GroupsAddUp ==
  ASSUME NEW T, IsFiniteSet(T),
         \A g \in T : g.size \in Nat \ {0} /\ g.score \in Nat
  PROVE  /\ Posts(T) \in Nat /\ Scored(T) \in Nat
         /\ T # {} => Posts(T) > 0
<1> DEFINE sizes  == [g \in T |-> g.size]
           values == [g \in T |-> g.size * g.score]
           ones   == [g \in T |-> 1]
<1>1. Posts(T) = Length(sizes) /\ Scored(T) = Length(values)
  BY SumIsLength DEF Posts, Scored
<1>2. Length(sizes) \in Nat
  <2>1. \A g \in T : sizes[g] \in Nat
    OBVIOUS
  <2> HIDE DEF sizes
  <2>2. DOMAIN sizes = T
    BY DEF sizes
  <2>. QED BY <2>1, <2>2, LengthIsANumber
<1>3. Length(values) \in Nat
  <2>1. \A m, n \in Nat : m * n \in Nat
    OBVIOUS
  <2>2. \A g \in T : values[g] \in Nat
    BY <2>1
  <2>3. DOMAIN values = T
    OBVIOUS
  <2> HIDE DEF values
  <2>. QED BY <2>2, <2>3, LengthIsANumber
<1>4. ASSUME T # {}
      PROVE  Length(sizes) > 0
  <2>1. Bounded(sizes, sizes, T, 0, 1, -1)
    BY DEF Bounded
  <2>2. 0 \in Int /\ 1 \in Int /\ -1 \in Int
    OBVIOUS
  <2>3. DOMAIN sizes = T
    OBVIOUS
  <2> HIDE DEF sizes
  <2>4. 0 * SumsOf(sizes, T)[T] <= 1 * SumsOf(sizes, T)[T] + (-1) * Cardinality(T)
    BY <2>1, <2>2, SumIsBounded
  <2>5. Cardinality(T) \in Nat \ {0}
    BY <1>4, FS_EmptySet, FS_CardinalityType
  <2>. QED BY <1>2, <2>3, <2>4, <2>5 DEF Length
<1>. QED BY <1>1, <1>2, <1>3, <1>4

\* An insight is about a number of posts, and its lift is a number.
LEMMA InsightsAreNumbers ==
  ASSUME NEW history \in Histories, NEW dimension, NEW i \in Insights(history, dimension)
  PROVE  i.size \in Nat /\ i.lift \in Nat
<1> DEFINE all   == WithScore(history)
           Of(k) == {g \in all : g[dimension] = k}
<1>1. /\ IsFiniteSet(all)
      /\ \A g \in all : g.size \in Nat \ {0} /\ g.score \in Nat
  <2>1. IsFiniteSet(history)
    BY LearningAssumption
  <2>2. all \subseteq history
    BY DEF WithScore
  <2>3. IsFiniteSet(all)
    BY <2>1, <2>2, FS_Subset
  <2>4. \A g \in history : g.size \in Nat \ {0} /\ g.score \in Nat \cup {Null}
    BY LearningAssumption
  <2>. QED BY <2>2, <2>3, <2>4 DEF WithScore
<1>2. all # {} /\ Scored(all) # 0
  BY DEF Insights
<1> DEFINE Insight(k) ==
        [key  |-> k,
         size |-> Posts(Of(k)),
         lift |-> RoundDiv(1000 * Scored(Of(k)) * Posts(all), Posts(Of(k)) * Scored(all))]
<1>3. PICK g \in all : i = Insight(g[dimension])
  <2>1. Insights(history, dimension) = {Insight(k) : k \in {g[dimension] : g \in all}}
    BY <1>2 DEF Insights
  <2> HIDE DEF Insight, all
  <2>. QED BY <2>1
<1> DEFINE T == Of(g[dimension])
<1>4. IsFiniteSet(T) /\ T # {} /\ (\A h \in T : h.size \in Nat \ {0} /\ h.score \in Nat)
  <2>1. T \subseteq all /\ g \in T
    OBVIOUS
  <2>. QED BY <1>1, <2>1, FS_Subset
<1> HIDE DEF all
<1>5. Posts(all) \in Nat /\ Scored(all) \in Nat \ {0}
  BY <1>1, <1>2, GroupsAddUp
<1>6. i.size = Posts(T) /\ i.lift = RoundDiv(1000 * Scored(T) * Posts(all),
                                             Posts(T) * Scored(all))
  BY <1>3
<1> HIDE DEF T
<1>7. Posts(T) \in Nat \ {0} /\ Scored(T) \in Nat
  BY <1>4, GroupsAddUp
<1>8. \A a, b, c \in Nat, p, q \in Nat \ {0} :
        1000 * b * c \in Nat /\ p * q \in Nat \ {0}
  OBVIOUS
<1>9. \A a \in Nat, b \in Nat \ {0} : RoundDiv(a, b) \in Nat
  BY DEF RoundDiv
<1>10. 1000 * Scored(T) * Posts(all) \in Nat /\ Posts(T) * Scored(all) \in Nat \ {0}
  BY <1>5, <1>7, <1>8
<1>. QED BY <1>6, <1>7, <1>9, <1>10

(***************************************************************************)
(* The weights.                                                            *)
(***************************************************************************)

Raisable == {"AUDIENCE_FIT", "BRAND_FIT", "SAVEABILITY", "SHAREABILITY"}

\* What a cycle raises, before it normalizes: four weights, and none by more than a step.
RaisedFrom(raised, old) ==
  \A d \in Dimensions :
    \/ raised[d] = old[d]
    \/ d \in Raisable /\ \E k \in 0..200 : raised[d] = Raised(old[d], k)

\* The best format moves a weight by a part of the step, by how sure it is.
LEMMA StepIsDamped ==
  ASSUME NEW n \in Nat
  PROVE  RoundDiv(maxStep * confidenceFor(n), 1000) \in 0..200
<1>1. confidenceFor(n) \in {0, 283, 736, 950}
  BY DEF confidenceFor, MIN_SAMPLE_SIZE
<1>2. \A c \in {0, 283, 736, 950} : RoundDiv(200 * c, 1000) \in 0..200
  BY DEF RoundDiv
<1>. QED BY <1>1, <1>2 DEF maxStep

\* A cycle normalizes what it raised, and raises nothing for a few posts.
LEMMA WeightsAreRaised ==
  ASSUME NEW old \in [Dimensions -> Nat], NEW history \in Histories,
         NEW new \in adjustScoringWeights(old, history)
  PROVE  \E raised \in [Dimensions -> Nat] :
           /\ RaisedFrom(raised, old)
           /\ Underpowered(history) => raised = old
           /\ new = Normalized(raised)
<1> DEFINE categories == Large(Insights(history, "category"))
           formats    == Large(Insights(history, "format"))
           wide       == SpreadIsWide(categories)
<1>1. PICK best : /\ best = {} \/ \E i \in BestFormats(formats) : best = {i}
                  /\ new = Normalized(Raise(old, wide, best))
  BY DEF adjustScoringWeights
<1> DEFINE raised == Raise(old, wide, best)
           step   == RoundDiv(maxStep * confidenceFor((CHOOSE b \in best : TRUE).size), 1000)
<1>2. best # {} => step \in 0..200
  <2>1. SUFFICES ASSUME best # {} PROVE step \in 0..200
    OBVIOUS
  <2>2. PICK i \in BestFormats(formats) : best = {i}
    BY <1>1, <2>1
  <2>3. i \in Insights(history, "format")
    BY DEF BestFormats, Large
  <2>4. (CHOOSE b \in best : TRUE) = i
    BY <2>2
  <2>. QED BY <2>3, <2>4, InsightsAreNumbers, StepIsDamped
<1> HIDE DEF step
<1>3. ASSUME NEW d \in Dimensions
      PROVE  /\ raised[d] \in Nat
             /\ raised[d] = old[d] \/ (d \in Raisable /\ \E k \in 0..200 :
                                         raised[d] = Raised(old[d], k))
  <2>1. raised[d] = CASE d \in {"AUDIENCE_FIT", "BRAND_FIT"} /\ wide -> Raised(old[d], 200)
                      [] d \in {"SAVEABILITY", "SHAREABILITY"} /\ best # {} ->
                           Raised(old[d], step)
                      [] OTHER -> old[d]
    BY DEF Raise, maxStep, step
  <2>2. \A k \in 0..200 : Raised(old[d], k) \in Nat
    BY DEF Raised, Lesser
  <2> HIDE DEF raised, wide
  <2>3. CASE d \in {"AUDIENCE_FIT", "BRAND_FIT"} /\ wide
    <3>1. raised[d] = Raised(old[d], 200)
      BY <2>1, <2>3
    <3>. QED BY <2>2, <2>3, <3>1 DEF Raisable
  <2>4. CASE d \in {"SAVEABILITY", "SHAREABILITY"} /\ best # {}
    <3>1. raised[d] = Raised(old[d], step)
      BY <2>1, <2>4
    <3>. QED BY <1>2, <2>2, <2>4, <3>1 DEF Raisable
  <2>5. CASE /\ ~(d \in {"AUDIENCE_FIT", "BRAND_FIT"} /\ wide)
             /\ ~(d \in {"SAVEABILITY", "SHAREABILITY"} /\ best # {})
    BY <2>1, <2>5
  <2>. QED BY <2>3, <2>4, <2>5
<1>4. ASSUME Underpowered(history)
      PROVE  raised = old
  <2>1. categories = {} /\ formats = {}
    <3>1. \A i \in Insights(history, "category") \cup Insights(history, "format") :
            i.size \in Nat /\ i.size < MIN_SAMPLE_SIZE
      BY <1>4, InsightsAreNumbers DEF Underpowered
    <3>. QED BY <3>1 DEF Large, MIN_SAMPLE_SIZE
  <2>2. ~wide
    BY <2>1, FS_EmptySet DEF SpreadIsWide
  <2>3. best = {}
    BY <1>1, <2>1 DEF BestFormats
  <2>4. DOMAIN old = Dimensions
    OBVIOUS
  <2>. QED BY <2>2, <2>3, <2>4 DEF Raise
<1>5. raised \in [Dimensions -> Nat]
  BY <1>3 DEF Raise
<1>6. RaisedFrom(raised, old)
  BY <1>3 DEF RaisedFrom
<1>. QED BY <1>1, <1>4, <1>5, <1>6

\* There are twelve dimensions at most.
LEMMA TwelveDimensions ==
  IsFiniteSet(Dimensions) /\ Cardinality(Dimensions) \in 0..12
<1> DEFINE Names == <<"CURRENT_INTEREST", "AUDIENCE_FIT", "CURIOSITY", "SHAREABILITY",
                      "SAVEABILITY", "COMMENT_POTENTIAL", "VISUAL_POTENTIAL",
                      "EMOTIONAL_IMPACT", "NOVELTY", "TIMELINESS", "FOLLOW_POTENTIAL",
                      "BRAND_FIT">>
<1>1. Dimensions = {Names[i] : i \in 1..12}
  <2>1. 1..12 = {1, 2, 3, 4, 5, 6, 7, 8, 9, 10, 11, 12}
    OBVIOUS
  <2>. QED BY <2>1 DEF Dimensions
<1> HIDE DEF Names
<1>2. IsFiniteSet(1..12) /\ Cardinality(1..12) = 12
  <2>1. 1 \in Int /\ 12 \in Int
    OBVIOUS
  <2>2. IsFiniteSet(1..12) /\ Cardinality(1..12) = IF 1 > 12 THEN 0 ELSE 12 - 1 + 1
    BY ONLY <2>1, FS_Interval
  <2>. QED BY <2>2
<1> DEFINE f == [i \in 1..12 |-> Names[i]]
<1>3. f \in Surjection(1..12, Dimensions)
  BY <1>1 DEF Surjection
<1>. QED BY <1>2, <1>3, FS_Surjection, FS_CardinalityType

Rest(w) == SumsOf(w, Dimensions)[Dimensions \ Raisable]

AddsUp(w) ==
  /\ Rest(w) \in Int
  /\ Length(w) = w["AUDIENCE_FIT"] + w["BRAND_FIT"] + w["SAVEABILITY"] + w["SHAREABILITY"]
                   + Rest(w)

\* The four weights that may be raised, and the others, make up the sum.
LEMMA SumOfWeights ==
  ASSUME NEW w, DOMAIN w = Dimensions, \A d \in Dimensions : w[d] \in Nat
  PROVE  AddsUp(w)
<1> DEFINE D  == Dimensions
           F(s) == SumsOf(w, D)[s]
           D1 == D \ {"AUDIENCE_FIT"}
           D2 == D1 \ {"BRAND_FIT"}
           D3 == D2 \ {"SAVEABILITY"}
           D4 == D3 \ {"SHAREABILITY"}
           G(s, x) == F(s) = w[x] + F(s \ {x})
<1>1. IsFiniteSet(D)
  BY TwelveDimensions
<1>2. \A x \in D : w[x] \in Int
  OBVIOUS
<1>3. /\ D \in SUBSET D /\ D1 \in SUBSET D /\ D2 \in SUBSET D
      /\ D3 \in SUBSET D /\ D4 \in SUBSET D
      /\ "AUDIENCE_FIT" \in D /\ "BRAND_FIT" \in D1 /\ "SAVEABILITY" \in D2
      /\ "SHAREABILITY" \in D3
      /\ D4 = D \ Raisable
  BY DEF Dimensions, Raisable
<1>4. \A s \in SUBSET D : \A x \in s : G(s, x)
  <2> HIDE DEF D
  <2>1. TakesOut(w, D)
    BY <1>1, <1>2, SumTakesOut
  <2>. QED BY <2>1 DEF TakesOut
<1>5. \A s \in SUBSET D : F(s) \in Int
  <2> HIDE DEF D
  <2>. QED BY <1>1, <1>2, SumIsANumber
<1> HIDE DEF F
<1>6. /\ F(D) = w["AUDIENCE_FIT"] + F(D1) /\ F(D1) = w["BRAND_FIT"] + F(D2)
      /\ F(D2) = w["SAVEABILITY"] + F(D3) /\ F(D3) = w["SHAREABILITY"] + F(D4)
  <2> HIDE DEF G
  <2>1. /\ G(D, "AUDIENCE_FIT") /\ G(D1, "BRAND_FIT") /\ G(D2, "SAVEABILITY")
        /\ G(D3, "SHAREABILITY")
    BY <1>3, <1>4
  <2>. QED BY <2>1 DEF G
<1>7. /\ F(D) \in Int /\ F(D1) \in Int /\ F(D2) \in Int /\ F(D3) \in Int /\ F(D4) \in Int
      /\ w["AUDIENCE_FIT"] \in Int /\ w["BRAND_FIT"] \in Int /\ w["SAVEABILITY"] \in Int
      /\ w["SHAREABILITY"] \in Int
  BY <1>2, <1>3, <1>5
<1>8. F(D) = w["AUDIENCE_FIT"] + w["BRAND_FIT"] + w["SAVEABILITY"] + w["SHAREABILITY"] + F(D4)
  <2> HIDE DEF D1, D2, D3, D4
  <2>. QED BY <1>6, <1>7
<1>9. F(D4) = F(D \ Raisable)
  BY <1>3
<1>. QED BY <1>7, <1>8, <1>9 DEF F, Length, AddsUp, Rest

\* No weight is raised by more than a step, nor cut by more than what it was above the ceiling.
LEMMA WeightMovesByAStep ==
  ASSUME NEW old \in [Dimensions -> Nat], NEW raised \in [Dimensions -> Nat],
         RaisedFrom(raised, old), NEW excess \in Nat,
         \A d \in Dimensions : old[d] <= 3000 + excess,
         NEW d \in Dimensions
  PROVE  /\ old[d] \in Nat /\ raised[d] \in Nat
         /\ raised[d] <= old[d] + 200
         /\ old[d] <= raised[d] + excess
         /\ raised[d] <= 3000 + excess
         /\ d \notin Raisable => raised[d] = old[d]
<1>1. old[d] \in Nat /\ raised[d] \in Nat /\ old[d] <= 3000 + excess
  OBVIOUS
<1>2. CASE raised[d] = old[d]
  BY <1>1, <1>2
<1>3. CASE d \in Raisable /\ \E k \in 0..200 : raised[d] = Raised(old[d], k)
  <2>1. PICK k \in 0..200 : raised[d] = Raised(old[d], k)
    BY <1>3
  <2> DEFINE o == old[d]
             r == raised[d]
  <2>2. o \in Nat /\ r \in Nat /\ o <= 3000 + excess /\ r = IF 3000 < o + k THEN 3000 ELSE o + k
    BY <1>1, <2>1 DEF Raised, Lesser
  <2> HIDE DEF o, r
  <2>3. o \in Nat /\ r \in Nat /\ r <= o + 200 /\ o <= r + excess /\ r <= 3000 + excess
    BY <2>2
  <2>. QED BY <1>3, <2>3 DEF o, r
<1>. QED BY <1>2, <1>3 DEF RaisedFrom

\* So the sum of the weights moves by four of them.
LEMMA SumMovesByFourSteps ==
  ASSUME NEW old \in [Dimensions -> Nat], NEW raised \in [Dimensions -> Nat],
         RaisedFrom(raised, old), NEW excess \in Nat,
         \A d \in Dimensions : old[d] <= 3000 + excess
  PROVE  /\ Length(old) \in Nat /\ Length(raised) \in Nat
         /\ Length(raised) <= Length(old) + 800
         /\ Length(old) <= Length(raised) + 4 * excess
<1>1. IsFiniteSet(Dimensions)
  BY TwelveDimensions
<1>2. DOMAIN old = Dimensions /\ DOMAIN raised = Dimensions
  OBVIOUS
<1>3. /\ \A d \in Dimensions : old[d] \in Nat
      /\ \A d \in Dimensions : raised[d] \in Nat
  OBVIOUS
<1>4. Length(old) \in Nat /\ Length(raised) \in Nat
  BY <1>1, <1>2, <1>3, LengthIsANumber
<1>5. Rest(raised) = Rest(old)
  <2>1. \A d \in Dimensions \ Raisable : raised[d] = old[d]
    BY WeightMovesByAStep
  <2>2. Dimensions \ Raisable \in SUBSET Dimensions
    OBVIOUS
  <2>. QED BY <1>1, <2>1, <2>2, SumsAgree DEF Rest
<1>6. AddsUp(old) /\ AddsUp(raised)
  BY <1>2, <1>3, SumOfWeights
<1>7. Rest(old) \in Int
  BY <1>6 DEF AddsUp
<1>8. \A d \in Raisable : /\ old[d] \in Nat /\ raised[d] \in Nat
                          /\ raised[d] <= old[d] + 200
                          /\ old[d] <= raised[d] + excess
  <2>1. Raisable \subseteq Dimensions
    BY DEF Raisable, Dimensions
  <2>. QED BY <2>1, WeightMovesByAStep
<1> DEFINE a(w) == w["AUDIENCE_FIT"]
           b(w) == w["BRAND_FIT"]
           c(w) == w["SAVEABILITY"]
           e(w) == w["SHAREABILITY"]
           Moves(m, n) == m \in Nat /\ n \in Nat /\ n <= m + 200 /\ m <= n + excess
<1>9. /\ Moves(a(old), a(raised)) /\ Moves(b(old), b(raised))
      /\ Moves(c(old), c(raised)) /\ Moves(e(old), e(raised))
  BY <1>8 DEF Raisable
<1>10. /\ Length(old) = a(old) + b(old) + c(old) + e(old) + Rest(old)
       /\ Length(raised) = a(raised) + b(raised) + c(raised) + e(raised) + Rest(old)
  BY <1>5, <1>6 DEF AddsUp
<1> HIDE DEF a, b, c, e
<1>. QED BY <1>4, <1>7, <1>9, <1>10

\* Adjusted weights sum to one, unless there is nothing to scale.
LEMMA WeightsAreNormalized ==
  ASSUME NEW raised \in [Dimensions -> Nat]
  PROVE  /\ Length(raised) \in Nat
         /\ Normalized(raised) \in [Dimensions -> Nat]
         /\ SumOver(Normalized(raised)) > 0 =>
              /\ Length(raised) > 0
              /\ SumToOne(Normalized(raised))
<1> DEFINE new == [d \in Dimensions |-> RoundDiv(raised[d] * 10000, Length(raised))]
<1>1. IsFiniteSet(Dimensions)
  BY TwelveDimensions
<1>2. DOMAIN raised = Dimensions /\ \A d \in Dimensions : raised[d] \in Nat
  OBVIOUS
<1>3. Length(raised) \in Nat
  BY <1>1, <1>2, LengthIsANumber
<1>4. CASE Length(raised) > 0
  <2>1. Normalized(raised) = new
    BY <1>2, <1>4, SumIsLength DEF Normalized
  <2>2. new \in [Dimensions -> Nat] /\ SumToOne(new)
    <3>1. new = [d \in DOMAIN raised |-> RoundDiv(raised[d] * 10000, Length(raised))]
      BY <1>2
    <3> HIDE DEF new
    <3>. QED BY <1>1, <1>2, <1>4, <3>1, SharesSumToOne
  <2>. QED BY <1>3, <1>4, <2>1, <2>2
<1>5. CASE ~(Length(raised) > 0)
  <2>1. Normalized(raised) = raised
    BY <1>5, SumIsLength DEF Normalized
  <2>2. ~(SumOver(raised) > 0)
    BY <1>5, SumIsLength
  <2>. QED BY <1>3, <2>1, <2>2
<1>. QED BY <1>4, <1>5

(***************************************************************************)
(* The mix.                                                                *)
(***************************************************************************)

IsMix(shares) ==
  /\ shares \in [DOMAIN shares -> Nat]
  /\ IsFiniteSet(DOMAIN shares) /\ Cardinality(DOMAIN shares) <= 11
  /\ SumOver(shares) \in 9950..10050

\* Eleven categories cannot lose all they have in one cycle, so there is a mix to scale, and
\* what is scaled is a mix again.
LEMMA MixIsAdjusted ==
  ASSUME NEW target, IsMix(target), NEW lifts, \A c \in DOMAIN lifts : lifts[c] \in Nat
  PROVE  /\ IsMix(adjustMixByPerformance(target, lifts))
         /\ SumToOne(adjustMixByPerformance(target, lifts))
<1> DEFINE C        == DOMAIN target
           adjusted == [c \in C |->
                          IF c \in DOMAIN lifts THEN Larger(0, target[c] + Shift(lifts[c]))
                                                ELSE target[c]]
           new == [c \in C |-> RoundDiv(adjusted[c] * 10000, Length(adjusted))]
           n   == Cardinality(C)
<1>1. IsFiniteSet(C) /\ n \in Nat /\ n <= 11
  BY FS_CardinalityType DEF IsMix
<1>2. ASSUME NEW c \in C
      PROVE  target[c] \in Nat /\ adjusted[c] \in Nat /\ target[c] <= adjusted[c] + 500
  <2>1. target[c] \in Nat
    BY DEF IsMix
  <2>2. \A lift \in Nat : Shift(lift) \in -500..500
    BY DEF Shift, Clamped, Larger, Lesser
  <2>3. \A t \in Nat, s \in -500..500 : /\ Larger(0, t + s) \in Nat
                                        /\ t <= Larger(0, t + s) + 500
    BY DEF Larger
  <2>4. CASE c \in DOMAIN lifts
    <3>1. Shift(lifts[c]) \in -500..500
      BY <2>2, <2>4
    <3>2. adjusted[c] = Larger(0, target[c] + Shift(lifts[c]))
      BY <2>4
    <3> DEFINE t == target[c]
               s == Shift(lifts[c])
               a == adjusted[c]
    <3>3. t \in Nat /\ s \in -500..500 /\ a = Larger(0, t + s)
      BY <2>1, <3>1, <3>2
    <3> HIDE DEF t, s, a
    <3>4. t \in Nat /\ a \in Nat /\ t <= a + 500
      BY <2>3, <3>3
    <3>. QED BY <3>4 DEF t, a
  <2>5. CASE c \notin DOMAIN lifts
    BY <2>1, <2>5
  <2>. QED BY <2>4, <2>5
<1>3. DOMAIN adjusted = C /\ Length(target) = SumsOf(target, C)[C]
      /\ Length(adjusted) = SumsOf(adjusted, C)[C]
  BY DEF Length
<1>4. adjustMixByPerformance(target, lifts) = IF Length(adjusted) = 0 THEN target ELSE new
  BY SumIsLength DEF adjustMixByPerformance
<1> HIDE DEF C, adjusted
<1>5. Length(adjusted) \in Nat /\ Length(target) \in Nat
  BY <1>1, <1>2, <1>3, LengthIsANumber DEF C
<1>6. Length(adjusted) > 0
  <2>1. Bounded(target, adjusted, C, 1, 1, 500)
    BY <1>2 DEF Bounded
  <2>2. 1 \in Int /\ 500 \in Int
    OBVIOUS
  <2>3. 1 * Length(target) <= 1 * Length(adjusted) + 500 * n
    BY <1>1, <1>2, <1>3, <2>1, <2>2, SumIsBounded
  <2>4. Length(target) \in 9950..10050
    BY SumIsLength DEF IsMix
  <2> HIDE DEF n
  <2>. QED BY <1>1, <1>5, <2>3, <2>4
<1>7. new \in [C -> Nat] /\ SumToOne(new)
  <2>1. new = [c \in DOMAIN adjusted |-> RoundDiv(adjusted[c] * 10000, Length(adjusted))]
    BY <1>3
  <2>2. /\ IsFiniteSet(DOMAIN adjusted)
        /\ \A c \in DOMAIN adjusted : adjusted[c] \in Nat
    BY <1>1, <1>2, <1>3
  <2> HIDE DEF new
  <2>. QED BY <1>3, <1>6, <2>1, <2>2, SharesSumToOne
<1>8. IsMix(new)
  <2>1. DOMAIN new = C
    OBVIOUS
  <2>2. 2 * Distance(SumOver(new), 10000) <= n
    BY <1>7, <2>1 DEF SumToOne
  <2>3. SumOver(new) \in Nat
    BY <1>1, <1>7, <2>1, SumIsLength, LengthIsANumber
  <2> HIDE DEF new, n
  <2>4. SumOver(new) \in 9950..10050
    BY <1>1, <2>2, <2>3 DEF Distance, Larger
  <2>. QED BY <1>1, <1>7, <2>1, <2>4 DEF IsMix, n
<1>. QED BY <1>4, <1>5, <1>6, <1>7, <1>8

\* The lifts the mix is adjusted by.
CategoryLifts(insights) ==
  [c \in {i.key : i \in insights} |-> (CHOOSE i \in insights : i.key = c).lift]

\* A category's lift is that of one of the insights.
LEMMA LiftsAreNumbers ==
  ASSUME NEW history \in Histories
  PROVE  LET lifts == CategoryLifts(Insights(history, "category"))
         IN \A c \in DOMAIN lifts : lifts[c] \in Nat
<1> DEFINE insights == Insights(history, "category")
           lifts    == CategoryLifts(insights)
<1>1. \A i \in insights : i.lift \in Nat
  BY InsightsAreNumbers
<1> HIDE DEF insights
<1>2. DOMAIN lifts = {i.key : i \in insights}
  BY DEF CategoryLifts
<1>3. ASSUME NEW c \in DOMAIN lifts
      PROVE  lifts[c] \in Nat
  <2>1. \E i \in insights : i.key = c
    BY <1>2
  <2>2. (CHOOSE i \in insights : i.key = c) \in insights
    BY <2>1
  <2>3. lifts[c] = (CHOOSE i \in insights : i.key = c).lift
    BY <1>2 DEF CategoryLifts
  <2>. QED BY <1>1, <2>2, <2>3
<1>. QED BY <1>3 DEF insights

(***************************************************************************)
(* Any number of cycles.                                                   *)
(***************************************************************************)

\* A mix can always be scaled, because it is one: a mix that summed to little could lose all
\* its categories to a bad cycle.
LearningInv == LearningTypeOK /\ IsMix(mix) /\ WeightsStayADistribution

\* What a brand starts with.
LEMMA LearningInvStarts ==
  LearningInit => LearningInv
BY LearningAssumption
DEF LearningInit, LearningInv, LearningTypeOK, IsMix, WeightsStayADistribution

\* A cycle of learning leaves two distributions.
LEMMA LearningInvIsKept ==
  LearningInv /\ [Learn]_learningVars => LearningInv'
<1> SUFFICES ASSUME LearningInv, [Learn]_learningVars
             PROVE  LearningInv'
  OBVIOUS
<1>1. ASSUME Learn
      PROVE  LearningInv'
  <2>1. weights \in [Dimensions -> Nat] /\ cycle \in 0..MaxCycles /\ MaxCycles \in Nat
        /\ IsMix(mix) /\ measured' \in Histories
    BY <1>1, LearningAssumption DEF LearningInv, LearningTypeOK, Learn
  <2>2. PICK raised \in [Dimensions -> Nat] : weights' = Normalized(raised)
    <3>1. weights' \in adjustScoringWeights(weights, measured')
      BY <1>1 DEF Learn
    <3>. QED BY <2>1, <3>1, WeightsAreRaised
  <2>3. weights' \in [Dimensions -> Nat] /\ (SumOver(weights') > 0 => SumToOne(weights'))
    BY <2>2, WeightsAreNormalized
  <2> DEFINE lifts == CategoryLifts(Insights(measured', "category"))
  <2>4. mix' = adjustMixByPerformance(mix, lifts)
    BY <1>1 DEF Learn, CategoryLifts
  <2>5. IsMix(mix') /\ SumToOne(mix')
    <3>1. \A c \in DOMAIN lifts : lifts[c] \in Nat
      BY <2>1, LiftsAreNumbers
    <3> HIDE DEF lifts
    <3>. QED BY <2>1, <2>4, <3>1, MixIsAdjusted
  <2>6. LearningTypeOK'
    <3>1. cycle' \in 0..MaxCycles
      BY <1>1, <2>1 DEF Learn
    <3>2. \A c \in DOMAIN mix' : mix'[c] \in Nat
      BY <2>5 DEF IsMix
    <3>. QED BY <2>1, <2>3, <3>1, <3>2 DEF LearningTypeOK
  <2>. QED BY <2>3, <2>5, <2>6 DEF LearningInv, WeightsStayADistribution
<1>2. CASE UNCHANGED learningVars
  BY <1>2 DEF LearningInv, LearningTypeOK, WeightsStayADistribution, learningVars
<1>. QED BY <1>1, <1>2

\* The weights and the mix are numbers, and the posts of a cycle are those measured in it.
THEOREM LearningTypeCorrect ==
  LearningSpec => []LearningTypeOK
<1>1. LearningInv => LearningTypeOK
  BY DEF LearningInv
<1>. QED BY <1>1, LearningInvStarts, LearningInvIsKept, PTL DEF LearningSpec

\* However many cycles have passed, the weights a brand scores topics with, unless all are
\* zero, and its content mix still sum to one, up to rounding: engine.ts normalizes what it
\* raises, and mix.ts what it shifts.
THEOREM DistributionsCorrect ==
  LearningSpec => []WeightsStayADistribution
<1>1. LearningInv => WeightsStayADistribution
  BY DEF LearningInv
<1>. QED BY <1>1, LearningInvStarts, LearningInvIsKept, PTL DEF LearningSpec

(***************************************************************************)
(* One cycle.                                                              *)
(***************************************************************************)

\* Weights that sum to one are off by half a digit for each dimension at most.
LEMMA WeightsAreNearlyOne ==
  ASSUME NEW w \in [Dimensions -> Nat], SumToOne(w)
  PROVE  Length(w) \in 9994..10006
<1>1. IsFiniteSet(Dimensions) /\ Cardinality(Dimensions) \in 0..12
  BY TwelveDimensions
<1>2. DOMAIN w = Dimensions /\ \A d \in Dimensions : w[d] \in Nat
  OBVIOUS
<1> DEFINE n   == Cardinality(Dimensions)
           sum == Length(w)
<1>3. sum \in Nat
  BY <1>1, <1>2, LengthIsANumber
<1>4. 2 * Distance(sum, 10000) <= n
  BY <1>2, SumIsLength DEF SumToOne
<1> HIDE DEF n, sum
<1>5. n \in 0..12
  BY <1>1 DEF n
<1>6. sum \in 9994..10006
  BY <1>3, <1>4, <1>5 DEF Distance, Larger
<1>. QED BY <1>6 DEF sum

\* A normalized weight is the share of the raised one.
LEMMA WeightIsAShare ==
  ASSUME NEW raised \in [Dimensions -> Nat], Length(raised) \in Nat \ {0}, NEW d \in Dimensions
  PROVE  LET sum == Length(raised)
             new == Normalized(raised)[d]
         IN /\ new \in Nat
            /\ 2 * (sum * new) <= 20000 * raised[d] + sum
            /\ 20000 * raised[d] <= 2 * (sum * new) + sum
<1> DEFINE sum == Length(raised)
           r   == raised[d]
           new == RoundDiv(r * 10000, sum)
<1>1. r \in Nat /\ sum \in Nat \ {0}
  OBVIOUS
<1>2. Normalized(raised)[d] = new
  BY SumIsLength DEF Normalized
<1> HIDE DEF r, sum
<1>3. new \in Nat /\ (2 * sum) * new <= 20000 * r + sum /\ 20000 * r <= (2 * sum) * new + sum
  BY <1>1, SharesAreRounded
<1> HIDE DEF new
<1>4. (2 * sum) * new = 2 * (sum * new)
  BY <1>1, <1>3
<1>. QED BY <1>2, <1>3, <1>4 DEF r, sum

\* A weight under the ceiling stays there: raised, the weights sum to no less than before.
LEMMA CycleKeepsCeiling ==
  ASSUME LearningInv, Learn, SumToOne(weights), \A d \in Dimensions : weights[d] <= 3000,
         NEW d \in Dimensions
  PROVE  weights'[d] <= 3002
<1>1. weights \in [Dimensions -> Nat] /\ measured' \in Histories
  BY DEF LearningInv, LearningTypeOK, Learn
<1>2. PICK raised \in [Dimensions -> Nat] : /\ RaisedFrom(raised, weights)
                                            /\ weights' = Normalized(raised)
  <2>1. weights' \in adjustScoringWeights(weights, measured')
    BY DEF Learn
  <2>. QED BY <1>1, <2>1, WeightsAreRaised
<1> DEFINE old == Length(weights)
           sum == Length(raised)
           r   == raised[d]
           new == weights'[d]
<1>3. old \in 9994..10006
  BY <1>1, WeightsAreNearlyOne
<1>4. 0 \in Nat /\ \A e \in Dimensions : weights[e] <= 3000 + 0
  BY <1>1
<1>5. sum \in Nat /\ old <= sum + 4 * 0
  BY <1>1, <1>2, <1>4, SumMovesByFourSteps
<1>6. r \in Nat /\ r <= 3000 + 0
  BY <1>1, <1>2, <1>4, WeightMovesByAStep
<1> HIDE DEF old
<1>7. sum \in Nat \ {0} /\ sum >= 9994
  BY <1>3, <1>5
<1>8. new \in Nat /\ 2 * (sum * new) <= 20000 * r + sum
  BY <1>2, <1>7, WeightIsAShare
<1> HIDE DEF sum, r, new
<1>9. SUFFICES ASSUME new >= 3003
               PROVE  FALSE
  BY <1>8 DEF new
<1>10. sum * 3003 <= sum * new
  BY <1>7, <1>8, <1>9
<1>11. \A p \in Nat : sum * 3003 <= p /\ 2 * p <= 20000 * r + sum => FALSE
  BY <1>6, <1>7
<1>12. sum * new \in Nat
  BY <1>7, <1>8
<1>. QED BY <1>8, <1>10, <1>11, <1>12

\* A weight near the ceiling moves by a step and what the raises of the others scale it by,
\* and by rounding alone if nothing is raised.
LEMMA CycleTakesASmallStep ==
  ASSUME LearningInv, Learn, SumToOne(weights), \A d \in Dimensions : weights[d] <= 3050,
         NEW d \in Dimensions
  PROVE  Distance(weights'[d], weights[d]) <= IF Underpowered(measured') THEN 2 ELSE 299
<1>1. weights \in [Dimensions -> Nat] /\ measured' \in Histories
  BY DEF LearningInv, LearningTypeOK, Learn
<1>2. PICK raised \in [Dimensions -> Nat] : /\ RaisedFrom(raised, weights)
                                            /\ Underpowered(measured') => raised = weights
                                            /\ weights' = Normalized(raised)
  <2>1. weights' \in adjustScoringWeights(weights, measured')
    BY DEF Learn
  <2>. QED BY <1>1, <2>1, WeightsAreRaised
<1> DEFINE old == Length(weights)
           sum == Length(raised)
           w   == weights[d]
           r   == raised[d]
           new == weights'[d]
           prd == sum * new
<1>3. old \in 9994..10006
  BY <1>1, WeightsAreNearlyOne
<1>4. 50 \in Nat /\ \A e \in Dimensions : weights[e] <= 3000 + 50
  BY <1>1
<1>5. sum \in Nat /\ sum <= old + 800 /\ old <= sum + 4 * 50
  BY <1>1, <1>2, <1>4, SumMovesByFourSteps
<1>6. /\ w \in Nat /\ r \in Nat /\ w <= 3050
      /\ r <= w + 200 /\ w <= r + 50
  BY <1>1, <1>2, <1>4, WeightMovesByAStep
<1>7. Underpowered(measured') => sum = old /\ r = w
  BY <1>2
<1> HIDE DEF old
<1>8. sum \in 9794..10806 /\ (Underpowered(measured') => sum \in 9994..10006)
  BY <1>3, <1>5, <1>7
<1> HIDE DEF w
<1>9. /\ new \in Nat
      /\ 2 * prd <= 20000 * r + sum
      /\ 20000 * r <= 2 * prd + sum
  <2>1. sum \in Nat \ {0}
    BY <1>8
  <2>. QED BY <1>2, <2>1, WeightIsAShare
<1> HIDE DEF sum, r, new, prd
<1>10. \A n \in Nat : /\ n <= new => sum * n <= prd
                      /\ new <= n => prd <= sum * n
  BY <1>8, <1>9 DEF prd
<1>11. prd \in Nat
  BY <1>8, <1>9 DEF prd
<1>12. ASSUME Underpowered(measured')
       PROVE  Distance(new, w) <= 2
  <2>1. sum \in 9994..10006 /\ r = w
    BY <1>7, <1>8, <1>12
  <2>2. ASSUME new >= w + 3
        PROVE  FALSE
    <3>1. sum * (w + 3) <= prd
      BY <1>6, <1>10, <2>2
    <3>2. 9994 * (w + 3) <= sum * (w + 3)
      BY <1>6, <2>1
    <3>3. sum * (w + 3) \in Nat
      BY <1>6, <2>1
    <3>. QED BY <1>6, <1>9, <1>11, <2>1, <3>1, <3>2, <3>3
  <2>3. ASSUME w >= new + 3
        PROVE  FALSE
    <3>1. new <= w - 3 /\ w - 3 \in Nat
      BY <1>6, <1>9, <2>3
    <3>2. prd <= sum * (w - 3)
      BY <1>10, <3>1
    <3>3. sum * (w - 3) <= 10006 * (w - 3) /\ sum * (w - 3) \in Nat
      BY <2>1, <3>1
    <3>. QED BY <1>6, <1>9, <1>11, <2>1, <3>1, <3>2, <3>3
  <2>. QED BY <1>6, <1>9, <2>2, <2>3 DEF Distance, Larger
<1>13. Distance(new, w) <= 299
  <2>1. ASSUME new >= w + 300
        PROVE  FALSE
    <3>1. sum * (w + 300) <= prd
      BY <1>6, <1>10, <2>1
    <3>2. 9794 * (w + 300) <= sum * (w + 300)
      BY <1>6, <1>8
    <3>3. sum * (w + 300) \in Nat
      BY <1>6, <1>8
    <3>4. sum <= 10806 /\ 2 * prd - sum >= 2 * (sum * (w + 300)) - sum
      BY <1>8, <1>11, <3>1, <3>3
    <3>5. 2 * (sum * (w + 300)) - sum = sum * (2 * w + 599)
      BY <1>6, <1>8
    <3>6. 9794 * (2 * w + 599) <= sum * (2 * w + 599) /\ sum * (2 * w + 599) \in Nat
      BY <1>6, <1>8
    <3>. QED BY <1>6, <1>8, <1>9, <1>11, <3>4, <3>5, <3>6
  <2>2. ASSUME w >= new + 300
        PROVE  FALSE
    <3>1. new <= w - 300 /\ w - 300 \in Nat
      BY <1>6, <1>9, <2>2
    <3>2. prd <= sum * (w - 300)
      BY <1>10, <3>1
    <3>3. sum * (w - 300) <= 10806 * (w - 300) /\ sum * (w - 300) \in Nat
      BY <1>8, <3>1
    <3>. QED BY <1>6, <1>8, <1>9, <1>11, <3>1, <3>2, <3>3
  <2>. QED BY <1>6, <1>9, <2>1, <2>2 DEF Distance, Larger
<1>. QED BY <1>12, <1>13 DEF new, w

\* From weights that sum to one, a cycle leaves none above the ceiling of 0.3 that was not
\* above it, but for rounding: the clamp of engine.ts stops the raises there, and what they add
\* to the sum can only make the normalized weights smaller.  It moves no weight by 0.03 or more,
\* if they are not far above the ceiling; and insights below the sample size move none by more
\* than rounding.
THEOREM SmallStepsCorrect ==
  LearningSpec => StepsAreSmall
<1>1. LearningInv /\ [Learn]_learningVars
        => [SumToOne(weights) =>
              /\ (\A d \in Dimensions : weights[d] <= 3000) =>
                   \A d \in Dimensions : weights'[d] <= 3002
              /\ (\A d \in Dimensions : weights[d] <= 3050) =>
                   \A d \in Dimensions :
                     Distance(weights'[d], weights[d])
                       <= IF Underpowered(measured') THEN 2 ELSE 299]_learningVars
  BY CycleKeepsCeiling, CycleTakesASmallStep
<1>. QED BY <1>1, LearningInvStarts, LearningInvIsKept, PTL DEF LearningSpec, StepsAreSmall
=============================================================================
