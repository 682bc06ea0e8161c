---------------------------- MODULE SpendingProofs ----------------------------
(***************************************************************************)
(* What is proved of the budget gate and the meter, for any callers,       *)
(* limits and costs.                                                       *)
(***************************************************************************)
EXTENDS Spending, FiniteSetTheorems, TLAPS

(***************************************************************************)
(* Sums over the callers.  A sum of costs is the number of units of cost   *)
(* there are, which makes it a cardinality.                                *)
(***************************************************************************)
Costs    == [Callers -> 0..MaxCost]
Units(f) == {u \in Callers \X (1..MaxCost) : u[2] <= f[u[1]]}
Total(f) == Cardinality(Units(f))

\* One call of every caller.
Overrun == Cardinality(Callers) * MaxCost

\* What callers cost together is at most one most expensive call of each.
LEMMA TotalIsBounded ==
  ASSUME NEW f \in Costs
  PROVE  /\ IsFiniteSet(Units(f))
         /\ Total(f) \in Nat /\ Overrun \in Nat
         /\ Total(f) <= Overrun
<1>1. IsFiniteSet(1..MaxCost) /\ Cardinality(1..MaxCost) = MaxCost
  BY FS_Interval, SpendingAssumption
<1>2. /\ IsFiniteSet(Callers \X (1..MaxCost))
      /\ Cardinality(Callers \X (1..MaxCost)) = Overrun
  BY <1>1, FS_Product, SpendingAssumption DEF Overrun
<1>3. Units(f) \in SUBSET (Callers \X (1..MaxCost))
  BY DEF Units
<1>4. IsFiniteSet(Units(f)) /\ Total(f) <= Overrun
  BY <1>2, <1>3, FS_Subset DEF Total
<1>. QED BY <1>2, <1>4, FS_CardinalityType DEF Total

\* When the cost of one caller changes, the sum changes by as much.
LEMMA TotalFollowsOne ==
  ASSUME NEW f \in Costs, NEW g \in Costs, NEW c \in Callers,
         \A other \in Callers \ {c} : g[other] = f[other]
  PROVE  Total(g) = Total(f) + g[c] - f[c]
<1> DEFINE Mine(n) == {c} \X (1..n)
           Rest    == Units(f) \ Mine(f[c])
<1>1. ASSUME NEW n \in Nat
      PROVE  IsFiniteSet(Mine(n)) /\ Cardinality(Mine(n)) = n
  <2>1. IsFiniteSet(1..n) /\ Cardinality(1..n) = n
    BY FS_Interval
  <2>2. IsFiniteSet({c}) /\ Cardinality({c}) = 1
    BY FS_Singleton
  <2>3. /\ IsFiniteSet({c} \X (1..n))
        /\ Cardinality({c} \X (1..n)) = Cardinality({c}) * Cardinality(1..n)
    BY ONLY <2>1, <2>2, FS_Product
  <2>. QED BY <2>1, <2>2, <2>3
<1>2. f[c] \in Nat /\ g[c] \in Nat /\ f[c] <= MaxCost /\ g[c] <= MaxCost
  BY SpendingAssumption DEF Costs
<1>3. IsFiniteSet(Units(f)) /\ Total(f) \in Nat
  BY TotalIsBounded
<1>4. Units(f) \cap Mine(f[c]) = Mine(f[c])
  BY <1>2, SpendingAssumption DEF Units
<1>5. IsFiniteSet(Rest) /\ Cardinality(Rest) = Total(f) - f[c]
  <2>1. /\ IsFiniteSet(Units(f) \ Mine(f[c]))
        /\ Cardinality(Units(f) \ Mine(f[c]))
             = Cardinality(Units(f)) - Cardinality(Units(f) \cap Mine(f[c]))
    <3> HIDE DEF Mine
    <3>. QED BY <1>3, FS_Difference
  <2>. QED BY <1>1, <1>2, <1>4, <2>1 DEF Total
<1>6. Units(g) = Rest \cup Mine(g[c])
  <2>1. ASSUME NEW u \in Callers \X (1..MaxCost)
        PROVE  u \in Units(g) <=> u \in Rest \cup Mine(g[c])
    <3>1. CASE u[1] = c
      BY <3>1, <1>2 DEF Units
    <3>2. CASE u[1] # c
      BY <3>2, <1>2 DEF Units
    <3>. QED BY <3>1, <3>2
  <2>2. Units(g) \subseteq Callers \X (1..MaxCost)
    BY DEF Units
  <2>3. Rest \cup Mine(g[c]) \subseteq Callers \X (1..MaxCost)
    BY <1>2, SpendingAssumption DEF Units
  <2>. QED BY <2>1, <2>2, <2>3
<1>7. Rest \cap Mine(g[c]) = {}
  BY <1>2, SpendingAssumption DEF Units
<1>8. Cardinality(Rest \cup Mine(g[c])) = Total(f) - f[c] + g[c]
  <2>1. IsFiniteSet(Mine(g[c])) /\ Cardinality(Mine(g[c])) = g[c]
    BY <1>1, <1>2
  <2>2. Cardinality({}) = 0
    BY FS_EmptySet
  <2>3. Cardinality(Rest \cup Mine(g[c]))
          = Cardinality(Rest) + Cardinality(Mine(g[c])) - Cardinality({})
    BY <1>5, <1>7, <2>1, FS_Union
  <2>. QED BY <1>2, <1>3, <1>5, <2>1, <2>2, <2>3
<1>. QED BY <1>2, <1>3, <1>6, <1>8 DEF Total

-----------------------------------------------------------------------------

\* What callers have been charged and not yet recorded.
Owed == [c \in Callers |-> IF agent[c].pc \in {"parse", "meter"} THEN agent[c].cost ELSE 0]

\* What callers that have passed the gate on a sum may still add to it.
Due(sum) ==
  [c \in Callers |-> IF agent[c].pc \in {"parse", "meter"} THEN agent[c].cost
                     ELSE IF sum \in agent[c].seen THEN MaxCost ELSE 0]

\* Whoever sends a request has passed the gate on both sums.
SendersHaveSeen ==
  \A c \in Callers : agent[c].pc \in {"send", "parse", "meter"} => agent[c].seen = Sums

\* What is charged is recorded, lost or owed.
ChargesAreAccounted == paid = day + lost + Total(Owed)

\* What makes SpendStaysNearLimits inductive: a sum stays near its limit together with
\* all that may still be added to it.
SumsStayNear ==
  /\ day   + Total(Due("day"))   < DailyLimit + Overrun
  /\ month + Total(Due("month")) < MonthlyLimit + Overrun

SpendingInv == SpendingTypeOK /\ SendersHaveSeen /\ ChargesAreAccounted /\ SumsStayNear

\* A step of one caller moves each of the three sums by what that caller's part does.
LEMMA SumsFollowOne ==
  ASSUME SpendingTypeOK, SpendingTypeOK', NEW c \in Callers,
         \A other \in Callers \ {c} : agent'[other] = agent[other]
  PROVE  /\ Total(Owed) \in Nat /\ Total(Owed)' \in Nat
         /\ Total(Owed)' = Total(Owed) + Owed'[c] - Owed[c]
         /\ \A sum \in Sums :
              /\ Total(Due(sum)) \in Nat /\ Total(Due(sum))' \in Nat
              /\ Total(Due(sum))' = Total(Due(sum)) + Due(sum)'[c] - Due(sum)[c]
              /\ Total(Due(sum))' <= Overrun
         /\ Overrun \in Nat
<1> USE SpendingAssumption
<1>1. Owed \in Costs /\ Owed' \in Costs
  BY DEF Owed, Costs, SpendingTypeOK
<1>2. \A other \in Callers \ {c} : Owed'[other] = Owed[other]
  BY DEF Owed
<1>3. Total(Owed)' = Total(Owed')
  BY DEF Total, Units
<1>4. ASSUME NEW sum \in Sums
      PROVE  /\ Total(Due(sum)) \in Nat /\ Total(Due(sum))' \in Nat
             /\ Total(Due(sum))' = Total(Due(sum)) + Due(sum)'[c] - Due(sum)[c]
             /\ Total(Due(sum))' <= Overrun
  <2>1. Due(sum) \in Costs /\ Due(sum)' \in Costs
    BY DEF Due, Costs, SpendingTypeOK
  <2>2. \A other \in Callers \ {c} : Due(sum)'[other] = Due(sum)[other]
    BY DEF Due
  <2>3. Total(Due(sum))' = Total(Due(sum)')
    BY DEF Total, Units
  <2>4. /\ Total(Due(sum)) \in Nat /\ Total(Due(sum)') \in Nat
        /\ Total(Due(sum)') <= Overrun
    BY <2>1, TotalIsBounded
  <2>5. Total(Due(sum)') = Total(Due(sum)) + Due(sum)'[c] - Due(sum)[c]
    BY <2>1, <2>2, TotalFollowsOne
  <2>. QED BY <2>3, <2>4, <2>5
<1>5. Total(Owed) \in Nat /\ Total(Owed') \in Nat /\ Overrun \in Nat
  BY <1>1, TotalIsBounded
<1>6. Total(Owed') = Total(Owed) + Owed'[c] - Owed[c]
  BY <1>1, <1>2, TotalFollowsOne
<1>. QED BY <1>3, <1>4, <1>5, <1>6

\* No caller's step takes a sum out of reach of its limit: the gate lets a caller claim
\* a most expensive call only below the limit, the answer claims no more than that, and
\* the meter records what was claimed.
LEMMA SpendingInductive == SpendingInv /\ [SpendingNext]_spendingVars => SpendingInv'
<1> SUFFICES ASSUME SpendingInv, [SpendingNext]_spendingVars PROVE SpendingInv'
  OBVIOUS
<1> USE SpendingAssumption
<1>0. /\ SpendingTypeOK /\ SendersHaveSeen /\ ChargesAreAccounted /\ SumsStayNear
      /\ "day" \in Sums /\ "month" \in Sums
  BY DEF SpendingInv, Sums
<1> DEFINE Own   == Total(Owed)
           OwnN  == Total(Owed)'
           Day   == Total(Due("day"))
           DayN  == Total(Due("day"))'
           Month == Total(Due("month"))
           MonthN == Total(Due("month"))'
           SumFacts(c) ==
             /\ Own \in Nat /\ OwnN \in Nat /\ Day \in Nat /\ DayN \in Nat
             /\ Month \in Nat /\ MonthN \in Nat /\ Overrun \in Nat
             /\ OwnN = Own + Owed'[c] - Owed[c]
             /\ DayN = Day + Due("day")'[c] - Due("day")[c] /\ DayN <= Overrun
             /\ MonthN = Month + Due("month")'[c] - Due("month")[c] /\ MonthN <= Overrun
<1>1. ASSUME NEW c \in Callers, SpendingTypeOK',
             \A other \in Callers \ {c} : agent'[other] = agent[other]
      PROVE  SumFacts(c)
  BY <1>0, <1>1, SumsFollowOne
<1>2. /\ paid = day + lost + Own
      /\ day + Day < DailyLimit + Overrun /\ month + Month < MonthlyLimit + Overrun
  BY <1>0 DEF ChargesAreAccounted, SumsStayNear
<1> HIDE DEF Own, OwnN, Day, DayN, Month, MonthN
<1>3. ASSUME SendersHaveSeen', SpendingTypeOK', paid' = day' + lost' + OwnN,
             day' + DayN < DailyLimit + Overrun, month' + MonthN < MonthlyLimit + Overrun
      PROVE  SpendingInv'
  <2>1. Overrun' = Overrun
    BY DEF Overrun
  <2>. QED
    BY <1>3, <2>1
    DEF SpendingInv, ChargesAreAccounted, SumsStayNear, OwnN, DayN, MonthN
<1>4. ASSUME NEW c \in Callers, Call(c) PROVE SpendingInv'
  <2>1. SpendingTypeOK' /\ SendersHaveSeen'
    BY <1>0, <1>4 DEF Call, Set, NotCalling, SpendingTypeOK, SendersHaveSeen, Sums
  <2>2. SumFacts(c)
    BY <1>0, <1>1, <1>4, <2>1 DEF Call, Set, SpendingTypeOK
  <2>3. Owed[c] = 0 /\ Due("day")[c] \in Nat /\ Due("month")[c] \in Nat
    BY <1>0, <1>4 DEF Call, SpendingTypeOK, SendersHaveSeen, Owed, Due
  <2>4. Owed'[c] = 0 /\ Due("day")'[c] = 0 /\ Due("month")'[c] = 0
    BY <1>0, <1>4 DEF Call, Set, NotCalling, SpendingTypeOK, SendersHaveSeen, Owed, Due
  <2>. QED
    BY <1>0, <1>2, <1>3, <1>4, <2>1, <2>2, <2>3, <2>4 DEF Call, SpendingTypeOK
<1>5. ASSUME NEW c \in Callers, Gate(c) PROVE SpendingInv'
  <2>1. PICK sum \in Sums \ agent[c].seen :
          IF ~Within(sum) THEN Set(c, NotCalling)
          ELSE Set(c, [agent[c] EXCEPT
                         !.seen = agent[c].seen \cup {sum},
                         !.pc = IF agent[c].seen \cup {sum} = Sums THEN "send" ELSE "gate"])
    BY <1>5 DEF Gate
  <2>2. agent[c].pc = "gate" /\ UNCHANGED <<day, month, paid, lost>>
    BY <1>5 DEF Gate
  <2>3. CASE ~Within(sum)
    <3>1. Set(c, NotCalling)
      BY <2>1, <2>3
    <3>2. SpendingTypeOK' /\ SendersHaveSeen'
      BY <1>0, <2>2, <3>1 DEF Set, NotCalling, SpendingTypeOK, SendersHaveSeen
    <3>3. SumFacts(c)
      BY <1>0, <1>1, <3>1, <3>2 DEF Set, SpendingTypeOK
    <3>4. /\ Owed[c] = 0 /\ Due("day")[c] \in Nat /\ Due("month")[c] \in Nat
          /\ Owed'[c] = 0 /\ Due("day")'[c] = 0 /\ Due("month")'[c] = 0
      BY <1>0, <2>2, <3>1 DEF Set, NotCalling, SpendingTypeOK, Owed, Due
    <3>. QED BY <1>0, <1>2, <1>3, <2>2, <3>2, <3>3, <3>4 DEF SpendingTypeOK
  <2>4. CASE Within(sum)
    <3> DEFINE now == [agent[c] EXCEPT
                         !.seen = agent[c].seen \cup {sum},
                         !.pc = IF agent[c].seen \cup {sum} = Sums THEN "send" ELSE "gate"]
    <3>1. Set(c, now)
      BY <2>1, <2>4
    <3>2. SpendingTypeOK' /\ SendersHaveSeen'
      <4>1. now \in [pc : {"idle", "gate", "send", "parse", "meter"}, seen : SUBSET Sums,
                     attempt : 0..MaxAttempts, cost : 0..MaxCost]
        BY <1>0 DEF SpendingTypeOK
      <4>2. now.pc \in {"send", "parse", "meter"} => now.seen = Sums
        BY <1>0, <2>2 DEF SpendingTypeOK
      <4> HIDE DEF now
      <4>3. SpendingTypeOK'
        BY <1>0, <2>2, <3>1, <4>1 DEF Set, SpendingTypeOK
      <4>4. \A b \in Callers : agent'[b] = IF b = c THEN now ELSE agent[b]
        BY <1>0, <3>1 DEF Set, SpendingTypeOK
      <4>. QED BY <1>0, <4>2, <4>3, <4>4 DEF SendersHaveSeen
    <3>3. SumFacts(c)
      BY <1>0, <1>1, <3>1, <3>2 DEF Set, SpendingTypeOK
    <3>4. /\ Owed[c] = 0 /\ Owed'[c] = 0
          /\ sum # "day"   => Due("day")'[c] = Due("day")[c]
          /\ sum # "month" => Due("month")'[c] = Due("month")[c]
          /\ Due("day")[c] \in Nat /\ Due("month")[c] \in Nat
      BY <1>0, <2>2, <3>1 DEF Set, SpendingTypeOK, Owed, Due
    <3>5. CASE sum = "day"
      BY <1>0, <1>2, <1>3, <2>2, <2>4, <3>2, <3>3, <3>4, <3>5 DEF Within, SpendingTypeOK
    <3>6. CASE sum = "month"
      BY <1>0, <1>2, <1>3, <2>2, <2>4, <3>2, <3>3, <3>4, <3>6 DEF Within, SpendingTypeOK
    <3>. QED BY <3>5, <3>6 DEF Sums
  <2>. QED BY <2>3, <2>4
<1>6. ASSUME NEW c \in Callers, SendRefused(c) PROVE SpendingInv'
  <2>1. SpendingTypeOK' /\ SendersHaveSeen'
    BY <1>0, <1>6 DEF SendRefused, Set, NotCalling, SpendingTypeOK, SendersHaveSeen, Sums
  <2>2. SumFacts(c)
    BY <1>0, <1>1, <1>6, <2>1 DEF SendRefused, Set, SpendingTypeOK
  <2>3. Owed[c] = 0 /\ Due("day")[c] = MaxCost /\ Due("month")[c] = MaxCost
    BY <1>0, <1>6 DEF SendRefused, SpendingTypeOK, SendersHaveSeen, Owed, Due
  <2>4. /\ Owed'[c] = 0
        /\ Due("day")'[c] \in 0..MaxCost /\ Due("month")'[c] \in 0..MaxCost
    BY <1>0, <1>6 DEF SendRefused, Set, NotCalling, SpendingTypeOK, SendersHaveSeen, Owed, Due
  <2>. QED
    BY <1>0, <1>2, <1>3, <1>6, <2>1, <2>2, <2>3, <2>4 DEF SendRefused, SpendingTypeOK
<1>7. ASSUME NEW c \in Callers, SendAnswered(c) PROVE SpendingInv'
  <2>1. PICK cost \in 1..MaxCost :
          /\ paid' = paid + cost
          /\ Set(c, [agent[c] EXCEPT !.pc = "parse", !.cost = cost])
    BY <1>7 DEF SendAnswered
  <2>2. agent[c].pc = "send" /\ UNCHANGED <<day, month, lost>>
    BY <1>7 DEF SendAnswered
  <2>3. SpendingTypeOK' /\ SendersHaveSeen'
    <3>1. agent[c].seen = Sums
      BY <1>0, <2>2 DEF SendersHaveSeen
    <3>2. paid' \in Nat
      BY <1>0, <2>1 DEF SpendingTypeOK
    <3>3. SpendingTypeOK'
      <4>1. cost \in 0..MaxCost
        OBVIOUS
      <4>2. agent' = [agent EXCEPT ![c] = [agent[c] EXCEPT !.pc = "parse", !.cost = cost]]
        BY <2>1 DEF Set
      <4>. QED BY <1>0, <2>2, <3>2, <4>1, <4>2 DEF SpendingTypeOK
    <3>4. SendersHaveSeen'
      BY <1>0, <2>1, <3>1 DEF Set, SpendingTypeOK, SendersHaveSeen
    <3>. QED BY <3>3, <3>4
  <2>4. SumFacts(c)
    BY <1>0, <1>1, <2>1, <2>3 DEF Set, SpendingTypeOK
  <2>5. Owed[c] = 0 /\ Due("day")[c] = MaxCost /\ Due("month")[c] = MaxCost
    BY <1>0, <2>2 DEF SpendingTypeOK, SendersHaveSeen, Owed, Due
  <2>6. Owed'[c] = cost /\ Due("day")'[c] = cost /\ Due("month")'[c] = cost
    BY <1>0, <2>1, <2>2 DEF Set, SpendingTypeOK, Owed, Due
  <2>. QED
    BY <1>0, <1>2, <1>3, <2>1, <2>2, <2>3, <2>4, <2>5, <2>6 DEF SpendingTypeOK
<1>8. ASSUME NEW c \in Callers, ParseAccepts(c) PROVE SpendingInv'
  <2>1. SpendingTypeOK' /\ SendersHaveSeen'
    BY <1>0, <1>8 DEF ParseAccepts, Set, NotCalling, SpendingTypeOK, SendersHaveSeen, Sums
  <2>2. SumFacts(c)
    BY <1>0, <1>1, <1>8, <2>1 DEF ParseAccepts, Set, SpendingTypeOK
  <2>3. /\ agent[c].cost \in Nat
        /\ Owed[c] = agent[c].cost
        /\ Due("day")[c] = agent[c].cost /\ Due("month")[c] = agent[c].cost
    BY <1>0, <1>8 DEF ParseAccepts, SpendingTypeOK, SendersHaveSeen, Owed, Due
  <2>4. Owed'[c] = agent[c].cost /\ Due("day")'[c] = agent[c].cost
        /\ Due("month")'[c] = agent[c].cost
    BY <1>0, <1>8 DEF ParseAccepts, Set, NotCalling, SpendingTypeOK, SendersHaveSeen, Owed, Due
  <2>. QED
    BY <1>0, <1>2, <1>3, <1>8, <2>1, <2>2, <2>3, <2>4 DEF ParseAccepts, SpendingTypeOK
<1>9. ASSUME NEW c \in Callers, ParseRejects(c) PROVE SpendingInv'
  <2>1. SpendingTypeOK' /\ SendersHaveSeen'
    BY <1>0, <1>9 DEF ParseRejects, Set, NotCalling, SpendingTypeOK, SendersHaveSeen, Sums
  <2>2. SumFacts(c)
    BY <1>0, <1>1, <1>9, <2>1 DEF ParseRejects, Set, SpendingTypeOK
  <2>3. /\ agent[c].cost \in Nat
        /\ Owed[c] = agent[c].cost
        /\ Due("day")[c] = agent[c].cost /\ Due("month")[c] = agent[c].cost
    BY <1>0, <1>9 DEF ParseRejects, SpendingTypeOK, SendersHaveSeen, Owed, Due
  <2>4. Owed'[c] = 0 /\ Due("day")'[c] = 0 /\ Due("month")'[c] = 0
    BY <1>0, <1>9 DEF ParseRejects, Set, NotCalling, SpendingTypeOK, SendersHaveSeen, Owed, Due
  <2>. QED
    BY <1>0, <1>2, <1>3, <1>9, <2>1, <2>2, <2>3, <2>4 DEF ParseRejects, SpendingTypeOK
<1>10. ASSUME NEW c \in Callers, MeterFails(c) PROVE SpendingInv'
  <2>1. SpendingTypeOK' /\ SendersHaveSeen'
    BY <1>0, <1>10 DEF MeterFails, Set, NotCalling, SpendingTypeOK, SendersHaveSeen, Sums
  <2>2. SumFacts(c)
    BY <1>0, <1>1, <1>10, <2>1 DEF MeterFails, Set, SpendingTypeOK
  <2>3. /\ agent[c].cost \in Nat
        /\ Owed[c] = agent[c].cost
        /\ Due("day")[c] = agent[c].cost /\ Due("month")[c] = agent[c].cost
    BY <1>0, <1>10 DEF MeterFails, SpendingTypeOK, SendersHaveSeen, Owed, Due
  <2>4. Owed'[c] = 0 /\ Due("day")'[c] = 0 /\ Due("month")'[c] = 0
    BY <1>0, <1>10 DEF MeterFails, Set, NotCalling, SpendingTypeOK, SendersHaveSeen, Owed, Due
  <2>. QED
    BY <1>0, <1>2, <1>3, <1>10, <2>1, <2>2, <2>3, <2>4 DEF MeterFails, SpendingTypeOK
<1>11. ASSUME NEW c \in Callers, Meter(c) PROVE SpendingInv'
  <2>1. SpendingTypeOK' /\ SendersHaveSeen'
    BY <1>0, <1>11 DEF Meter, Set, NotCalling, SpendingTypeOK, SendersHaveSeen, Sums
  <2>2. SumFacts(c)
    BY <1>0, <1>1, <1>11, <2>1 DEF Meter, Set, SpendingTypeOK
  <2>3. /\ agent[c].cost \in Nat
        /\ Owed[c] = agent[c].cost
        /\ Due("day")[c] = agent[c].cost /\ Due("month")[c] = agent[c].cost
    BY <1>0, <1>11 DEF Meter, SpendingTypeOK, SendersHaveSeen, Owed, Due
  <2>4. Owed'[c] = 0 /\ Due("day")'[c] = 0 /\ Due("month")'[c] = 0
    BY <1>0, <1>11 DEF Meter, Set, NotCalling, SpendingTypeOK, SendersHaveSeen, Owed, Due
  <2>. QED
    BY <1>0, <1>2, <1>3, <1>11, <2>1, <2>2, <2>3, <2>4 DEF Meter, SpendingTypeOK
<1>12. CASE Midnight
  <2>1. UNCHANGED <<Owed, Due("day"), Due("month"), agent>>
    BY <1>12 DEF Midnight, Owed, Due
  <2>2. OwnN = Own /\ DayN = Day /\ MonthN = Month
    BY <2>1 DEF OwnN, Own, DayN, Day, MonthN, Month, Total, Units
  <2>3. /\ Own \in Nat /\ Day \in Nat /\ Month \in Nat /\ Overrun \in Nat
        /\ Day <= Overrun /\ Month <= Overrun
    <3>1. Owed \in Costs /\ Due("day") \in Costs /\ Due("month") \in Costs
      BY <1>0 DEF Owed, Due, Costs, SpendingTypeOK
    <3>. QED BY <3>1, TotalIsBounded DEF Own, Day, Month
  <2>4. paid' = Own /\ day' = 0 /\ lost' = 0 /\ month' \in {0, month}
    BY <1>0, <1>2, <1>12, <2>3 DEF Midnight, SpendingTypeOK
  <2>5. SpendingTypeOK' /\ SendersHaveSeen'
    BY <1>0, <2>1, <2>3, <2>4 DEF SpendingTypeOK, SendersHaveSeen
  <2>6. paid' = day' + lost' + OwnN
    BY <2>2, <2>3, <2>4
  <2>7. day' + DayN < DailyLimit + Overrun
    BY <2>2, <2>3, <2>4
  <2>8. month' + MonthN < MonthlyLimit + Overrun
    <3>1. month \in Nat
      BY <1>0 DEF SpendingTypeOK
    <3>2. CASE month' = 0
      BY <2>2, <2>3, <3>2
    <3>3. CASE month' = month
      BY <1>2, <2>2, <3>1, <3>3
    <3>. QED BY <2>4, <3>2, <3>3
  <2>. QED BY <1>3, <2>5, <2>6, <2>7, <2>8
<1>13. CASE UNCHANGED spendingVars
  BY <1>13
  DEF spendingVars, SpendingInv, SpendingTypeOK, SendersHaveSeen, ChargesAreAccounted,
      SumsStayNear, Total, Units, Owed, Due, Overrun
<1>. QED
  BY <1>4, <1>5, <1>6, <1>7, <1>8, <1>9, <1>10, <1>11, <1>12, <1>13 DEF SpendingNext

\* Nothing is recorded, charged or owed at first.
LEMMA SpendingInitial == SpendingInit => SpendingInv
<1> SUFFICES ASSUME SpendingInit PROVE SpendingInv
  OBVIOUS
<1> USE SpendingAssumption
<1>1. SpendingTypeOK /\ SendersHaveSeen
  BY DEF SpendingInit, SpendingTypeOK, SendersHaveSeen, NotCalling
<1>2. /\ Owed \in Costs /\ Due("day") \in Costs /\ Due("month") \in Costs
      /\ \A c \in Callers : Owed[c] = 0 /\ Due("day")[c] = 0 /\ Due("month")[c] = 0
  BY DEF SpendingInit, NotCalling, Owed, Due, Costs
<1>3. Units(Owed) = {} /\ Units(Due("day")) = {} /\ Units(Due("month")) = {}
  BY <1>2 DEF Units
<1>4. Total(Owed) = 0 /\ Total(Due("day")) = 0 /\ Total(Due("month")) = 0
  BY <1>3, FS_EmptySet DEF Total
<1>5. Overrun \in Nat
  BY <1>2, TotalIsBounded
<1>. QED BY <1>1, <1>4, <1>5
     DEF SpendingInit, SpendingInv, ChargesAreAccounted, SumsStayNear

\* What is recorded of a day or a month stays below its limit plus one call of every
\* caller, and what a day is charged below that plus what was lost, for any number of
\* callers and whatever their calls cost.
THEOREM SpendIsBounded == SpendingSpec => []SpendStaysNearLimits
<1>1. SpendingInv => SpendStaysNearLimits
  <2> SUFFICES ASSUME SpendingInv PROVE SpendStaysNearLimits
    OBVIOUS
  <2>1. Owed \in Costs /\ Due("day") \in Costs /\ Due("month") \in Costs
    BY SpendingAssumption DEF SpendingInv, SpendingTypeOK, Owed, Due, Costs
  <2>2. \A c \in Callers : Owed[c] <= Due("day")[c]
    BY SpendingAssumption DEF SpendingInv, SpendingTypeOK, Owed, Due
  <2>3. Units(Owed) \in SUBSET Units(Due("day"))
    BY <2>1, <2>2, SpendingAssumption DEF Units, Costs
  <2>4. /\ Total(Owed) \in Nat /\ Total(Due("day")) \in Nat
        /\ Total(Due("month")) \in Nat /\ Overrun \in Nat
        /\ IsFiniteSet(Units(Due("day")))
    BY <2>1, TotalIsBounded
  <2>5. Total(Owed) <= Total(Due("day"))
    BY <2>3, <2>4, FS_Subset DEF Total
  <2>. QED BY <2>4, <2>5, SpendingAssumption
       DEF SpendingInv, SpendingTypeOK, ChargesAreAccounted, SumsStayNear,
           SpendStaysNearLimits, Overrun
<1>. QED BY <1>1, SpendingInitial, SpendingInductive, PTL DEF SpendingSpec
===============================================================================
