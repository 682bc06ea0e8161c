------------------------------ MODULE Pipeline ------------------------------
(***************************************************************************)
(* The autonomous loop of the worker: a tick scans for topics, scores,     *)
(* researches and fact-checks them, generates a piece from each topic that *)
(* survives, and schedules what its gates approve.  Around it editors      *)
(* approve and archive pieces and operators move the automation controls.  *)
(*                                                                         *)
(* The loop worker has concurrency 1 and nothing else writes topics, so a  *)
(* loop of statements over topics is one step that may stop anywhere in    *)
(* it.  Steps end where the code reads a control, reads or writes a piece, *)
(* or waits for a model between two writes.                                *)
(***************************************************************************)
EXTENDS Lifecycle, Gates, FiniteSets

CONSTANTS
  Topics,
  Pieces,
  Findings,     \* what research may find: ClaimCounts of a topic
  Demands,      \* how many topics a tick may be asked for; 0 with a long queue
  Agents,       \* agent flags an operator may clear
  Editors,      \* callers of the approve and archive routes
  Faults,       \* faults the environment may inject: "crash", "database"
  MaxFaults,    \* bound on injected faults
  None

ASSUME FindingsAssumption == Findings \subseteq ClaimCounts
ASSUME BoundsAssumption == Demands \subseteq 0..3 /\ MaxFaults \in Nat
ASSUME AgentsAssumption ==
  Agents \subseteq {"trendHunter", "topicScorer", "researcher", "strategist"}
ASSUME FaultsAssumption == Faults \subseteq {"crash", "database"}
ASSUME NonesAssumption == None \notin Topics /\ None \notin Pieces

VARIABLES
  topic,       \* Topic rows and the claims of each
  piece,       \* ContentPiece rows
  loop,        \* the tick in progress
  killSwitch, autonomousMode, disabled,   \* AutomationState
  edit,        \* approve and archive calls between their read and their write
  (* history *)
  relaxed,     \* autonomous mode was switched off during this tick
  leak,        \* pieces the loop began, and scheduled, under the present kill switch
  quiet,       \* pieces archived while neither the loop nor another call had them
  faults

controls == <<killSwitch, autonomousMode, disabled>>
vars == <<topic, piece, loop, killSwitch, autonomousMode, disabled, edit,
          relaxed, leak, quiet, faults>>

TopicStatus == {"DISCOVERED", "SCORED", "SELECTED", "RESEARCHING", "RESEARCHED",
                "USED", "REJECTED"}

NoTopic == [status |-> "ABSENT", claims |-> NoClaims]
NoPiece == [status |-> "ABSENT", topic |-> None, forHuman |-> FALSE, scheduled |-> FALSE]
Asleep  == [pc |-> "asleep", wanted |-> 0, todo |-> {}, topic |-> None, piece |-> None,
            autonomous |-> FALSE, accounts |-> FALSE, approved |-> FALSE]
NoEdit  == [op |-> "none"]

PC == {"asleep", "scan", "score", "pick", "research", "researching", "generate",
       "strategy", "write", "render", "review", "use", "schedule", "enqueue", "mark"}

LoopType ==
  [pc : PC, wanted : Demands \cup {0}, todo : SUBSET Topics, topic : Topics \cup {None},
   piece : Pieces \cup {None}, autonomous : BOOLEAN, accounts : BOOLEAN,
   approved : BOOLEAN]

\* forHuman: it was let through on the assumption that a human reviews it;
\* scheduled: the loop has made its publishing rows.
PieceType ==
  [status : ContentStatus \cup {"ABSENT"}, topic : Topics \cup {None},
   forHuman : BOOLEAN, scheduled : BOOLEAN]

\* Rows, the tick and the calls have the shape the schema and the handlers give
\* them; the loop has a topic, and a piece, in hand exactly where the code has.
TypeOK ==
  /\ topic \in [Topics -> [status : TopicStatus \cup {"ABSENT"},
                           claims : Findings \cup {NoClaims}]]
  /\ piece \in [Pieces -> PieceType]
  /\ loop \in LoopType
  /\ loop.pc \in {"researching", "strategy", "write", "render", "review", "use",
                  "schedule", "enqueue", "mark"} => loop.topic \in Topics
  /\ loop.pc \in {"write", "render", "review", "use", "schedule", "enqueue", "mark"}
       => loop.piece \in Pieces
  /\ killSwitch \in BOOLEAN /\ autonomousMode \in BOOLEAN /\ disabled \subseteq Agents
  /\ edit \in [Editors -> {NoEdit} \cup [op : {"approve", "archive"}, piece : Pieces]]
  /\ relaxed \in BOOLEAN
  /\ leak \in [begun : Nat, scheduled : Nat]
  /\ quiet \subseteq Pieces
  /\ faults \in Nat

Init ==
  /\ topic = [t \in Topics |-> NoTopic]
  /\ piece = [p \in Pieces |-> NoPiece]
  /\ loop = Asleep
  /\ killSwitch = FALSE /\ autonomousMode \in BOOLEAN /\ disabled = {}
  /\ edit = [e \in Editors |-> NoEdit]
  /\ relaxed = FALSE
  /\ leak = [begun |-> 0, scheduled |-> 0]
  /\ quiet = {}
  /\ faults = 0

-----------------------------------------------------------------------------
(* A tick: scan, score, research *)

\* AutomationService.assertMayRun(organization, agent), where it does not throw.
MayRun(agent) == ~killSwitch /\ agent \notin disabled

With(status) == {t \in Topics : topic[t].status = status}

\* `take: wanted`, of topics ordered by a score nothing here depends on.
Batches(from, wanted) ==
  {b \in SUBSET from : Cardinality(b) = IF Cardinality(from) < wanted
                                        THEN Cardinality(from) ELSE wanted}

SetStatus(ts, status) ==
  topic' = [t \in Topics |-> IF t \in ts THEN [topic[t] EXCEPT !.status = status]
                             ELSE topic[t]]

\* Fault seeded for the mutation check: a tick does not ask for autonomous mode.
TickStartAnyMode(wanted) ==
  /\ loop.pc = "asleep"
  /\ ~killSwitch
  /\ loop' = [Asleep EXCEPT !.pc = "scan", !.wanted = wanted]
  /\ relaxed' = FALSE
  /\ UNCHANGED <<topic, piece, controls, edit, leak, quiet, faults>>

\* A tick goes ahead in autonomous mode only.  assessQueueHealth says how many
\* topics to take; none when the queue is long enough.
TickStart(wanted) ==
  /\ loop.pc = "asleep"
  /\ ~killSwitch /\ autonomousMode
  /\ loop' = [Asleep EXCEPT !.pc = "scan", !.wanted = wanted]
  /\ relaxed' = FALSE
  /\ UNCHANGED <<topic, piece, controls, edit, leak, quiet, faults>>

\* runTrendScan: once an hour; a scan that fails keeps the topics it has created.
Scan(found) ==
  /\ loop.pc = "scan"
  /\ found \subseteq With("ABSENT")
  /\ found # {} => MayRun("trendHunter")
  /\ SetStatus(found, "DISCOVERED")
  /\ loop' = [loop EXCEPT !.pc = "score"]
  /\ UNCHANGED <<piece, controls, edit, relaxed, leak, quiet, faults>>

\* runTopicScoring: the scorer skips topics it cannot score; 60 and more is strong.
ScoreTopics(strong, weak) ==
  /\ loop.pc = "score"
  /\ strong \cup weak \subseteq With("DISCOVERED")
  /\ strong \cap weak = {}
  /\ strong \cup weak # {} => MayRun("topicScorer")
  /\ topic' = [t \in Topics |->
                 [topic[t] EXCEPT !.status = IF t \in strong THEN "SELECTED"
                                             ELSE IF t \in weak THEN "SCORED" ELSE @]]
  /\ loop' = [loop EXCEPT !.pc = "pick"]
  /\ UNCHANGED <<piece, controls, edit, relaxed, leak, quiet, faults>>

PickSelected(batch) ==
  /\ loop.pc = "pick"
  /\ batch \in Batches(With("SELECTED"), loop.wanted)
  /\ loop' = IF loop.wanted = 0 THEN Asleep
             ELSE [loop EXCEPT !.pc = "research", !.todo = batch]
  /\ UNCHANGED <<topic, piece, controls, edit, relaxed, leak, quiet, faults>>

\* runResearch up to its first write.  A stop or a disabled researcher makes it
\* throw, and the tick rejects the topic as it does for any other error.
StartResearch(t) ==
  /\ loop.pc = "research" /\ t \in loop.todo
  /\ IF MayRun("researcher")
     THEN /\ SetStatus({t}, "RESEARCHING")
          /\ loop' = [loop EXCEPT !.pc = "researching", !.topic = t, !.todo = @ \ {t}]
     ELSE /\ SetStatus({t}, "REJECTED")
          /\ loop' = [loop EXCEPT !.todo = @ \ {t}]
  /\ UNCHANGED <<piece, controls, edit, relaxed, leak, quiet, faults>>

\* The research is stored, fact-checked and judged.
FinishResearch(claims) ==
  /\ loop.pc = "researching"
  /\ topic' = [topic EXCEPT ![loop.topic] =
                 [status |-> IF RequiresHumanReview(claims) THEN "REJECTED" ELSE "RESEARCHED",
                  claims |-> claims]]
  /\ loop' = [loop EXCEPT !.pc = "research", !.topic = None]
  /\ UNCHANGED <<piece, controls, edit, relaxed, leak, quiet, faults>>

\* Fault seeded for the mutation check: a failed topic is only logged.
FailResearchLogged ==
  /\ loop.pc = "researching"
  /\ loop' = [loop EXCEPT !.pc = "research", !.topic = None]
  /\ UNCHANGED <<topic, piece, controls, edit, relaxed, leak, quiet, faults>>

-----------------------------------------------------------------------------
(* A tick: generate, review, schedule *)

\* A search, a model or a store fails: the tick rejects the topic and goes on.
FailResearch ==
  /\ loop.pc = "researching"
  /\ SetStatus({loop.topic}, "REJECTED")
  /\ loop' = [loop EXCEPT !.pc = "research", !.topic = None]
  /\ UNCHANGED <<piece, controls, edit, relaxed, leak, quiet, faults>>

\* The topics that survived, and whether some account was connected then.
ListResearched(batch, accounts) ==
  /\ loop.pc = "research" /\ loop.todo = {}
  /\ batch \in Batches(With("RESEARCHED"), loop.wanted)
  /\ loop' = [loop EXCEPT !.pc = "generate", !.todo = batch, !.accounts = accounts]
  /\ UNCHANGED <<topic, piece, controls, edit, relaxed, leak, quiet, faults>>

\* On to the next topic; whatever piece was in hand stays as it is.
Onward(l) == [l EXCEPT !.pc = "generate", !.topic = None, !.piece = None,
                      !.autonomous = FALSE, !.approved = FALSE]

\* Fault seeded for the mutation check: nothing is asked before writing.
StartGenerationUnasked(t) ==
  /\ loop.pc = "generate" /\ t \in loop.todo
  /\ loop' = [loop EXCEPT !.pc = "strategy", !.todo = @ \ {t}, !.topic = t,
                          !.autonomous = autonomousMode]
  /\ UNCHANGED <<topic, piece, controls, edit, relaxed, leak, quiet, faults>>

\* generateFromTopic up to its first wait.  It reads the mode for itself, and a
\* stop or a closed fact gate makes it throw: the topic stays RESEARCHED.
StartGeneration(t) ==
  /\ loop.pc = "generate" /\ t \in loop.todo
  /\ loop' =
       IF MayRun("strategist") /\ FactGateAllows(topic[t].claims, FALSE, autonomousMode)
       THEN [loop EXCEPT !.pc = "strategy", !.todo = @ \ {t}, !.topic = t,
                         !.autonomous = autonomousMode]
       ELSE [loop EXCEPT !.todo = @ \ {t}]
  /\ UNCHANGED <<topic, piece, controls, edit, relaxed, leak, quiet, faults>>

\* Strategy and hook are there: the piece is created, for the claims of the gate.
CreatePiece(p) ==
  LET usable == UsableKinds(topic[loop.topic].claims, loop.autonomous)
  IN
  /\ loop.pc = "strategy"
  /\ piece[p] = NoPiece
  /\ piece' = [piece EXCEPT ![p] =
                 [NoPiece EXCEPT !.status = "WRITING", !.topic = loop.topic,
                                 !.forHuman = ~(usable \subseteq {"sure"})]]
  /\ loop' = [loop EXCEPT !.pc = "write", !.piece = p]
  /\ leak' = IF killSwitch THEN [leak EXCEPT !.begun = @ + 1] ELSE leak
  /\ UNCHANGED <<topic, controls, edit, relaxed, quiet, faults>>

SetPiece(p, status) == piece' = [piece EXCEPT ![p].status = status]

\* A carousel is written and designed; a reel goes straight to review.
DesignPiece ==
  /\ loop.pc = "write"
  /\ SetPiece(loop.piece, "DESIGNING")
  /\ loop' = [loop EXCEPT !.pc = "render"]
  /\ UNCHANGED <<topic, controls, edit, relaxed, leak, quiet, faults>>

SubmitPiece ==
  /\ loop.pc \in {"write", "render"}
  /\ SetPiece(loop.piece, "QA")
  /\ loop' = [loop EXCEPT !.pc = "review"]
  /\ UNCHANGED <<topic, controls, edit, relaxed, leak, quiet, faults>>

\* A model, the renderer or the store fails; the tick logs it and goes on.
FailGeneration ==
  /\ loop.pc \in {"strategy", "write", "render", "review"}
  /\ loop' = Onward(loop)
  /\ UNCHANGED <<topic, piece, controls, edit, relaxed, leak, quiet, faults>>

\* The verdicts are in.  Every asset is the renderer's own, so its rights are clear,
\* and the fact gate has let the piece through.
JudgePiece(safety, brand, platformFails, duplicate) ==
  LET decision == DecidePublish([safety |-> safety, brand |-> brand,
                                 platformFails |-> platformFails, rights |-> TRUE,
                                 factGate |-> TRUE, autonomous |-> loop.autonomous])
      approved == decision = "APPROVE" /\ ~duplicate
  IN /\ loop.pc = "review"
     /\ piece' = [piece EXCEPT
          ![loop.piece].status = IF approved THEN "APPROVED" ELSE "FLAGGED",
          ![loop.piece].forHuman = approved /\ (@ \/ brand = "WARN")]
     /\ loop' = [loop EXCEPT !.pc = "use", !.approved = approved]
     /\ UNCHANGED <<topic, controls, edit, relaxed, leak, quiet, faults>>

\* Fault seeded for the mutation check: the topic stays where it was.
UseTopicUnmarked ==
  /\ loop.pc = "use"
  /\ loop' = IF loop.approved /\ loop.accounts THEN [loop EXCEPT !.pc = "schedule"]
             ELSE Onward(loop)
  /\ UNCHANGED <<topic, piece, controls, edit, relaxed, leak, quiet, faults>>

\* Fault seeded for the mutation check: the piece is let go before it is scheduled.
UseTopicForgets ==
  /\ loop.pc = "use"
  /\ SetStatus({loop.topic}, "USED")
  /\ loop' = IF loop.approved /\ loop.accounts THEN [Onward(loop) EXCEPT !.pc = "schedule"]
             ELSE Onward(loop)
  /\ UNCHANGED <<piece, controls, edit, relaxed, leak, quiet, faults>>

UseTopic ==
  /\ loop.pc = "use"
  /\ SetStatus({loop.topic}, "USED")
  /\ loop' = IF loop.approved /\ loop.accounts THEN [loop EXCEPT !.pc = "schedule"]
             ELSE Onward(loop)
  /\ UNCHANGED <<piece, controls, edit, relaxed, leak, quiet, faults>>

\* Fault seeded for the mutation check: scheduling asks for autonomous mode again.
ReadForScheduleAsks ==
  /\ loop.pc = "schedule"
  /\ loop' = IF autonomousMode /\ IsPublishable(piece[loop.piece].status)
             THEN [loop EXCEPT !.pc = "enqueue"] ELSE Onward(loop)
  /\ UNCHANGED <<topic, piece, controls, edit, relaxed, leak, quiet, faults>>

\* PublishingService.schedule reads the piece: no control is asked.
ReadForSchedule ==
  /\ loop.pc = "schedule"
  /\ loop' = IF IsPublishable(piece[loop.piece].status) THEN [loop EXCEPT !.pc = "enqueue"]
             ELSE Onward(loop)
  /\ UNCHANGED <<topic, piece, controls, edit, relaxed, leak, quiet, faults>>

\* The rows of its accounts are created ...
CreateRows ==
  /\ loop.pc = "enqueue"
  /\ piece' = [piece EXCEPT ![loop.piece].scheduled = TRUE]
  /\ loop' = [loop EXCEPT !.pc = "mark"]
  /\ leak' = IF killSwitch THEN [leak EXCEPT !.scheduled = @ + 1] ELSE leak
  /\ UNCHANGED <<topic, controls, edit, relaxed, quiet, faults>>

\* ... and the piece is SCHEDULED, whatever it has become since it was read.
MarkScheduled ==
  /\ loop.pc = "mark"
  /\ SetPiece(loop.piece, "SCHEDULED")
  /\ loop' = Onward(loop)
  /\ UNCHANGED <<topic, controls, edit, relaxed, leak, quiet, faults>>

TickEnd ==
  /\ loop.pc = "generate" /\ loop.todo = {}
  /\ loop' = Asleep
  /\ UNCHANGED <<topic, piece, controls, edit, relaxed, leak, quiet, faults>>

-----------------------------------------------------------------------------
(* Operators and editors *)

\* setKillSwitch
SetKillSwitch ==
  /\ killSwitch' = ~killSwitch
  /\ leak' = [begun |-> 0, scheduled |-> 0]
  /\ UNCHANGED <<topic, piece, loop, autonomousMode, disabled, edit, relaxed, quiet, faults>>

\* setAutonomousMode
SetAutonomousMode ==
  /\ autonomousMode' = ~autonomousMode
  /\ relaxed' = (relaxed \/ autonomousMode)
  /\ UNCHANGED <<topic, piece, loop, killSwitch, disabled, edit, leak, quiet, faults>>

\* setAgentEnabled
SetAgent(agent) ==
  /\ disabled' = IF agent \in disabled THEN disabled \ {agent} ELSE disabled \cup {agent}
  /\ UNCHANGED <<topic, piece, loop, killSwitch, autonomousMode, edit, relaxed, leak, quiet,
                 faults>>

Target(op) == IF op = "approve" THEN "APPROVED" ELSE "ARCHIVED"

\* Fault seeded for the mutation check: the move is not checked.
BeginEditUnchecked(e, op, p) ==
  /\ edit[e] = NoEdit
  /\ piece[p].status # "ABSENT"
  /\ edit' = [edit EXCEPT ![e] = [op |-> op, piece |-> p]]
  /\ UNCHANGED <<topic, piece, loop, controls, relaxed, leak, quiet, faults>>

\* POST /content/:id/approve and /archive read the piece and check the move ...
BeginEdit(e, op, p) ==
  /\ edit[e] = NoEdit
  /\ piece[p].status # "ABSENT"
  /\ CanTransition(piece[p].status, Target(op))
  /\ edit' = [edit EXCEPT ![e] = [op |-> op, piece |-> p]]
  /\ UNCHANGED <<topic, piece, loop, controls, relaxed, leak, quiet, faults>>

InHand(p, e) ==
  \/ loop.piece = p
  \/ \E d \in Editors \ {e} : edit[d] # NoEdit /\ edit[d].piece = p

\* ... and then write the status, whatever it has become since.
FinishEdit(e) ==
  LET p == edit[e].piece
  IN
  /\ edit[e] # NoEdit
  /\ SetPiece(p, Target(edit[e].op))
  /\ quiet' = IF edit[e].op = "archive" /\ ~InHand(p, e) THEN quiet \cup {p} ELSE quiet
  /\ edit' = [edit EXCEPT ![e] = NoEdit]
  /\ UNCHANGED <<topic, loop, controls, relaxed, leak, faults>>

-----------------------------------------------------------------------------
(* Faults *)

Fault(kind) == kind \in Faults /\ faults < MaxFaults /\ faults' = faults + 1

\* The worker dies; or a query of autonomousTick itself fails, which ends the tick.
Interrupt ==
  /\ \/ Fault("crash") /\ loop.pc # "asleep"
     \/ Fault("database") /\ (loop.pc = "pick" \/ (loop.pc = "research" /\ loop.todo = {}))
  /\ loop' = Asleep
  /\ UNCHANGED <<topic, piece, controls, edit, relaxed, leak, quiet>>

\* Research fails, and so does the write that rejects the topic: it is swallowed.
LoseRejection ==
  /\ loop.pc = "researching"
  /\ Fault("database")
  /\ loop' = [loop EXCEPT !.pc = "research", !.topic = None]
  /\ UNCHANGED <<topic, piece, controls, edit, relaxed, leak, quiet>>

\* A write fails after the piece was judged: the tick logs it and goes on.
LoseTail ==
  /\ loop.pc \in {"use", "schedule", "enqueue", "mark"}
  /\ Fault("database")
  /\ loop' = Onward(loop)
  /\ UNCHANGED <<topic, piece, controls, edit, relaxed, leak, quiet>>

-----------------------------------------------------------------------------

Tick ==
  \/ \E n \in Demands : TickStart(n)
  \/ \E found \in SUBSET Topics : Scan(found)
  \/ \E strong, weak \in SUBSET Topics : ScoreTopics(strong, weak)
  \/ \E b \in SUBSET Topics : PickSelected(b)
  \/ \E t \in Topics : StartResearch(t) \/ StartGeneration(t)
  \/ \E claims \in Findings : FinishResearch(claims)
  \/ FailResearch
  \/ \E b \in SUBSET Topics, accounts \in BOOLEAN : ListResearched(b, accounts)
  \/ \E p \in Pieces : CreatePiece(p)
  \/ DesignPiece \/ SubmitPiece \/ FailGeneration
  \/ \E safety \in SafetyVerdicts, brand \in BrandVerdicts, fails, dup \in BOOLEAN :
       JudgePiece(safety, brand, fails, dup)
  \/ UseTopic \/ ReadForSchedule \/ CreateRows \/ MarkScheduled \/ TickEnd

Controls ==
  \/ SetKillSwitch \/ SetAutonomousMode
  \/ \E agent \in Agents : SetAgent(agent)

Editing ==
  \E e \in Editors :
    \/ \E op \in {"approve", "archive"}, p \in Pieces : BeginEdit(e, op, p)
    \/ FinishEdit(e)

Failing == Interrupt \/ LoseRejection \/ LoseTail

Next == Tick \/ Controls \/ Editing \/ Failing

Spec == Init /\ [][Next]_vars

-----------------------------------------------------------------------------
(* Properties *)

PiecesOf(t) == {p \in Pieces : piece[p].topic = t}

\* A piece is only ever written from a topic whose research stood: nothing
\* contradicted and at least half of its claims verified (fact-checker.ts:124-134).
\* Crashes and failures between research and generation do not get around it.
WrittenOnStandingResearch ==
  \A p \in Pieces : piece[p].status # "ABSENT" =>
    LET c == topic[piece[p].topic].claims
    IN c["contradicted"] = 0 /\ 2 * Verified(c) >= Total(c)

\* However often generation is tried again, the loop schedules one piece of a
\* topic at most: USED is written before the rows are.
OneScheduledPiecePerTopic ==
  \A t \in Topics : \A p, q \in PiecesOf(t) :
    piece[p].scheduled /\ piece[q].scheduled => p = q

\* A kill switch lets the stage in hand finish and no more: one piece begun and
\* one piece scheduled after it is engaged, at most.
StopLetsOneStageFinish ==
  killSwitch => leak.begun <= 1 /\ leak.scheduled <= 1

\* Each error of a topic's research is answered: only a crash or a failed write
\* leaves a topic RESEARCHING with nobody at work on it.
ResearchIsAnswered ==
  Cardinality(With("RESEARCHING") \ {loop.topic}) <= faults

\* A piece archived while nobody had it in hand stays archived: only a call or a
\* stage of generation that has read it before can bring it back.
QuietArchiveIsFinal ==
  \A p \in quiet : piece[p].status = "ARCHIVED"

\* Unattended, only sure claims and clean brand verdicts are scheduled; content for
\* a human's eyes goes out by itself only when the mode is switched off mid-tick.
UnattendedIsStrict ==
  [][\A p \in Pieces :
       piece'[p].scheduled /\ ~piece[p].scheduled /\ ~relaxed
         => ~piece[p].forHuman]_vars

\* The loop does not leave behind a piece it approved and could schedule: its topic
\* is USED and nothing comes back to it.  A failed write or a crash may.
ApprovedIsNotLeftBehind ==
  [][loop.approved /\ loop.accounts /\ loop'.piece # loop.piece
       /\ IsPublishable(piece'[loop.piece].status)
     => piece'[loop.piece].scheduled \/ faults' > faults]_vars
===============================================================================
