------------------------------ MODULE Spending ------------------------------
(***************************************************************************)
(* The budget gate of AiOrchestrator and the meter behind it: agents of    *)
(* the worker's jobs call the model, each through its own orchestrator,    *)
(* and share only the rows of CostEntry.  The gate reads what is recorded, *)
(* the call is paid, and the cost is recorded afterwards, unless the       *)
(* answer turns out to be unusable or the worker dies first.               *)
(***************************************************************************)
EXTENDS Integers, FiniteSets

CONSTANTS
  Callers,        \* jobs that call the model at the same time
  DailyLimit, MonthlyLimit,
  MaxCost,        \* bound on the cost of a call
  MaxAttempts,    \* withRetry's maxAttempts of a provider
  MaxLost         \* bound on what a day pays and never records

ASSUME SpendingAssumption ==
  /\ IsFiniteSet(Callers)
  /\ DailyLimit \in Nat \ {0} /\ MonthlyLimit \in Nat \ {0}
  /\ MaxCost \in Nat \ {0} /\ MaxAttempts \in Nat \ {0} /\ MaxLost \in Nat

VARIABLES
  day,         \* recorded since the start of the UTC day
  month,       \* recorded since the start of the month
  paid,        \* what the provider has charged for calls that count on this day
  lost,        \* of that, what will never be recorded
  agent        \* caller -> [pc, seen, attempt, cost]

spendingVars == <<day, month, paid, lost, agent>>

Sums == {"day", "month"}
NotCalling == [pc |-> "idle", seen |-> {}, attempt |-> 0, cost |-> 0]

SpendingTypeOK ==
  /\ day \in Nat /\ month \in Nat /\ paid \in Nat
  /\ lost \in 0..MaxLost
  /\ agent \in [Callers -> [pc : {"idle", "gate", "send", "parse", "meter"},
                            seen : SUBSET Sums,
                            attempt : 0..MaxAttempts,
                            cost : 0..MaxCost]]

Set(c, fields) == agent' = [agent EXCEPT ![c] = fields]

-----------------------------------------------------------------------------

\* complete or completeStructured is called.
Call(c) ==
  /\ agent[c].pc = "idle"
  /\ Set(c, [NotCalling EXCEPT !.pc = "gate"])
  /\ UNCHANGED <<day, month, paid, lost>>

\* Fault seeded for the mutation check: only the month is looked at.
WithinMonth(sum) == IF sum = "day" THEN TRUE ELSE month < MonthlyLimit

\* assertWithinBudget compares each of the two sums with its limit.
Within(sum) == IF sum = "day" THEN day < DailyLimit ELSE month < MonthlyLimit

\* The two sums are queried at the same time and come back in either order.
Gate(c) ==
  /\ agent[c].pc = "gate"
  /\ \E sum \in Sums \ agent[c].seen :
       LET seen == agent[c].seen \cup {sum} IN
         IF ~Within(sum) THEN Set(c, NotCalling)
         ELSE Set(c, [agent[c] EXCEPT !.seen = seen,
                                      !.pc = IF seen = Sums THEN "send" ELSE "gate"])
  /\ UNCHANGED <<day, month, paid, lost>>

\* A request that is refused costs nothing.  withRetry repeats it while the
\* refusal is retryable (429 or 5xx) and attempts are left.
SendRefused(c) ==
  /\ agent[c].pc = "send"
  /\ \E retryable \in BOOLEAN :
       IF retryable /\ agent[c].attempt + 1 < MaxAttempts
       THEN Set(c, [agent[c] EXCEPT !.attempt = @ + 1])
       ELSE Set(c, NotCalling)
  /\ UNCHANGED <<day, month, paid, lost>>

\* The model answers, and the provider charges for it.
SendAnswered(c) ==
  /\ agent[c].pc = "send"
  /\ \E cost \in 1..MaxCost :
       /\ paid' = paid + cost
       /\ Set(c, [agent[c] EXCEPT !.pc = "parse", !.cost = cost])
  /\ UNCHANGED <<day, month, lost>>

\* The answer is the JSON object asked for, and passes its schema.
ParseAccepts(c) ==
  /\ agent[c].pc = "parse"
  /\ Set(c, [agent[c] EXCEPT !.pc = "meter"])
  /\ UNCHANGED <<day, month, paid, lost>>

\* Its body is cut, it holds no JSON or another object: the provider throws, and
\* with the error the usage is lost.
ParseRejects(c) ==
  /\ agent[c].pc = "parse" /\ lost + agent[c].cost <= MaxLost
  /\ lost' = lost + agent[c].cost
  /\ Set(c, NotCalling)
  /\ UNCHANGED <<day, month, paid>>

\* The worker dies, or the row cannot be written: the cost is not recorded.
MeterFails(c) ==
  /\ agent[c].pc = "meter" /\ lost + agent[c].cost <= MaxLost
  /\ lost' = lost + agent[c].cost
  /\ Set(c, NotCalling)
  /\ UNCHANGED <<day, month, paid>>

Meter(c) ==
  /\ agent[c].pc = "meter"
  /\ day' = day + agent[c].cost
  /\ month' = month + agent[c].cost
  /\ Set(c, NotCalling)
  /\ UNCHANGED <<paid, lost>>

\* Midnight UTC, and perhaps the end of the month.  A call that is not recorded
\* yet will count on the new day.
Midnight ==
  /\ day > 0
  /\ day' = 0 /\ lost' = 0
  /\ paid' = paid - day - lost
  /\ month' \in {0, month}
  /\ UNCHANGED agent

SpendingInit ==
  /\ day = 0 /\ month = 0 /\ paid = 0 /\ lost = 0
  /\ agent = [c \in Callers |-> NotCalling]

SpendingNext ==
  \/ \E c \in Callers :
       \/ Call(c) \/ Gate(c)
       \/ SendRefused(c) \/ SendAnswered(c)
       \/ ParseAccepts(c) \/ ParseRejects(c) \/ MeterFails(c) \/ Meter(c)
  \/ Midnight

SpendingSpec == SpendingInit /\ [][SpendingNext]_spendingVars

-----------------------------------------------------------------------------
(* Properties.                                                             *)

\* The gate is read before a call and the meter written after it, so every caller
\* may pass on the same sum: what is recorded stays below each limit plus one call
\* of every caller.  What a day is really charged may exceed that by what was lost
\* with unusable answers, which the gate never sees, and by no more.  That is less than the
\* documents say (no overrun: docs/TROUBLESHOOTING.md:12-13; no call that escapes the
\* meter: cost.ts:4-6): it is what the code keeps of it.
SpendStaysNearLimits ==
  LET overrun == Cardinality(Callers) * MaxCost IN
    /\ day   < DailyLimit + overrun
    /\ month < MonthlyLimit + overrun
    /\ paid  < DailyLimit + overrun + lost
=============================================================================
