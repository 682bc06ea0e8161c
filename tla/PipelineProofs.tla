--------------------------- MODULE PipelineProofs ---------------------------
EXTENDS Pipeline, FiniteSetTheorems, TLAPS

Written  == {"write", "render", "review", "use", "schedule", "enqueue", "mark"}
Working  == {"strategy", "write", "render", "review", "use"}
Ending   == {"schedule", "enqueue", "mark"}

\* Research that generation may rely on.
Stands(c) == c["contradicted"] = 0 /\ 2 * Verified(c) >= Total(c)

\* Where the topics of a tick are: SELECTED until their research starts, RESEARCHED
\* until they are used, USED before any row is made.
TickInv ==
  /\ loop.pc \in {"research", "researching"} =>
       \A t \in loop.todo : topic[t].status = "SELECTED"
  /\ loop.pc = "researching" => topic[loop.topic].status = "RESEARCHING"
  /\ loop.pc \in {"generate"} \cup Working \cup Ending =>
       \A t \in loop.todo : topic[t].status = "RESEARCHED"
  /\ loop.pc \in Working =>
       topic[loop.topic].status = "RESEARCHED" /\ loop.topic \notin loop.todo
  /\ loop.pc \in Ending => topic[loop.topic].status = "USED"
  /\ loop.pc \in Written => piece[loop.piece].topic = loop.topic
  /\ loop.pc \in {"schedule", "enqueue"} =>
       \A p \in Pieces : piece[p].topic = loop.topic => ~piece[p].scheduled

\* Where the topics of pieces are, and whose research stood.
TopicInv ==
  /\ \A t \in Topics : topic[t].status \in {"RESEARCHED", "USED"} => Stands(topic[t].claims)
  /\ \A p \in Pieces : piece[p].status # "ABSENT" => piece[p].topic \in Topics
  /\ \A p \in Pieces : piece[p].topic \in Topics =>
       topic[piece[p].topic].status \in {"RESEARCHED", "USED"}
  /\ \A p \in Pieces : piece[p].scheduled =>
       piece[p].topic \in Topics /\ topic[piece[p].topic].status = "USED"
  /\ \A e \in Editors : edit[e] # NoEdit => piece[edit[e].piece].topic \in Topics

PipeInv == TypeOK /\ TickInv /\ TopicInv /\ OneScheduledPiecePerTopic

USE NonesAssumption

-----------------------------------------------------------------------------

\* Moving some topics to a status keeps the shape of the rows.
LEMMA SetStatusType ==
  ASSUME TypeOK, NEW ts \in SUBSET Topics, NEW status \in TopicStatus, SetStatus(ts, status)
  PROVE  /\ topic' \in [Topics -> [status : TopicStatus \cup {"ABSENT"},
                                   claims : Findings \cup {NoClaims}]]
         /\ \A t \in Topics : /\ topic'[t].claims = topic[t].claims
                              /\ topic'[t].status = IF t \in ts THEN status ELSE topic[t].status
BY DEF TypeOK, SetStatus

\* Writing a status to a piece changes nothing else of it.
LEMMA SetPieceType ==
  ASSUME TypeOK, NEW p \in Pieces, NEW status \in ContentStatus, SetPiece(p, status)
  PROVE  /\ piece' \in [Pieces -> PieceType]
         /\ \A q \in Pieces : /\ piece'[q].topic = piece[q].topic
                              /\ piece'[q].scheduled = piece[q].scheduled
                              /\ piece'[q].forHuman = piece[q].forHuman
                              /\ piece'[q].status = IF q = p THEN status ELSE piece[q].status
BY DEF TypeOK, SetPiece, PieceType

\* Going on to the next topic keeps what is still to do.
LEMMA OnwardType ==
  ASSUME TypeOK
  PROVE  /\ Onward(loop) \in LoopType
         /\ Onward(loop).pc = "generate" /\ Onward(loop).todo = loop.todo
BY DEF TypeOK, LoopType, Onward, PC

\* A sleeping loop has its shape and nothing to do.
LEMMA AsleepType == Asleep \in LoopType /\ Asleep.pc = "asleep"
BY DEF Asleep, LoopType, PC

\* Every row, tick and call keeps its shape.
LEMMA TypeStep == TypeOK /\ [Next]_vars => TypeOK'
<1> SUFFICES ASSUME TypeOK, [Next]_vars PROVE TypeOK'
  OBVIOUS
<1> USE DEF controls
<1>1. ASSUME NEW n \in Demands, TickStart(n) PROVE TypeOK'
  BY <1>1 DEF TypeOK, TickStart, Asleep, LoopType, PC
<1>2. ASSUME NEW found \in SUBSET Topics, Scan(found) PROVE TypeOK'
  <2>1. topic' \in [Topics -> [status : TopicStatus \cup {"ABSENT"},
                               claims : Findings \cup {NoClaims}]]
    BY <1>2, SetStatusType DEF Scan, TopicStatus
  <2> QED
    BY <1>2, <2>1 DEF TypeOK, Scan, LoopType, PC
<1>3. ASSUME NEW strong \in SUBSET Topics, NEW weak \in SUBSET Topics,
             ScoreTopics(strong, weak)
      PROVE TypeOK'
  <2>1. topic' \in [Topics -> [status : TopicStatus \cup {"ABSENT"},
                               claims : Findings \cup {NoClaims}]]
    BY <1>3 DEF TypeOK, ScoreTopics, TopicStatus
  <2> QED
    BY <1>3, <2>1 DEF TypeOK, ScoreTopics, LoopType, PC
<1>4. ASSUME NEW b \in SUBSET Topics, PickSelected(b) PROVE TypeOK'
  BY <1>4, AsleepType DEF TypeOK, PickSelected, LoopType, PC
<1>5. ASSUME NEW t \in Topics, StartResearch(t) PROVE TypeOK'
  <2>1. topic' \in [Topics -> [status : TopicStatus \cup {"ABSENT"},
                               claims : Findings \cup {NoClaims}]]
    BY <1>5, SetStatusType DEF StartResearch, TopicStatus
  <2>2. /\ loop' \in LoopType
        /\ loop'.pc = "researching" => loop'.topic \in Topics
        /\ loop'.pc \in {"research", "researching"}
    <3>1. CASE MayRun("researcher")
      <4>1. loop' = [loop EXCEPT !.pc = "researching", !.topic = t, !.todo = @ \ {t}]
        BY <1>5, <3>1 DEF StartResearch
      <4>2. loop \in LoopType
        BY DEF TypeOK
      <4> QED
        BY <4>1, <4>2 DEF LoopType, PC
    <3>2. CASE ~MayRun("researcher")
      BY <1>5, <3>2 DEF TypeOK, StartResearch, LoopType, PC
    <3> QED
      BY <3>1, <3>2
  <2> QED
    BY <1>5, <2>1, <2>2 DEF TypeOK, StartResearch
<1>6. ASSUME NEW claims \in Findings, FinishResearch(claims) PROVE TypeOK'
  BY <1>6 DEF TypeOK, FinishResearch, LoopType, PC, TopicStatus
<1>7. CASE FailResearch
  <2>1. topic' \in [Topics -> [status : TopicStatus \cup {"ABSENT"},
                               claims : Findings \cup {NoClaims}]]
    <3>1. loop.topic \in Topics
      BY <1>7 DEF TypeOK, FailResearch
    <3> QED
      BY <1>7, <3>1, SetStatusType DEF FailResearch, TopicStatus
  <2> QED
    BY <1>7, <2>1 DEF TypeOK, FailResearch, LoopType, PC
<1>8. ASSUME NEW b \in SUBSET Topics, NEW accounts \in BOOLEAN, ListResearched(b, accounts)
      PROVE TypeOK'
  BY <1>8 DEF TypeOK, ListResearched, LoopType, PC
<1>9. ASSUME NEW t \in Topics, StartGeneration(t) PROVE TypeOK'
  BY <1>9 DEF TypeOK, StartGeneration, LoopType, PC
<1>10. ASSUME NEW p \in Pieces, CreatePiece(p) PROVE TypeOK'
  <2>1. piece' \in [Pieces -> PieceType]
    BY <1>10 DEF TypeOK, CreatePiece, NoPiece, PieceType, ContentStatus
  <2>2. leak' \in [begun : Nat, scheduled : Nat]
    BY <1>10 DEF TypeOK, CreatePiece
  <2> QED
    BY <1>10, <2>1, <2>2 DEF TypeOK, CreatePiece, LoopType, PC
<1>11. CASE DesignPiece
  <2>1. piece' \in [Pieces -> PieceType]
    BY <1>11, SetPieceType DEF TypeOK, DesignPiece, ContentStatus
  <2> QED
    BY <1>11, <2>1 DEF TypeOK, DesignPiece, LoopType, PC
<1>12. CASE SubmitPiece
  <2>1. piece' \in [Pieces -> PieceType]
    BY <1>12, SetPieceType DEF TypeOK, SubmitPiece, ContentStatus
  <2> QED
    BY <1>12, <2>1 DEF TypeOK, SubmitPiece, LoopType, PC
<1>13. CASE FailGeneration
  BY <1>13, OnwardType DEF TypeOK, FailGeneration
<1>14. ASSUME NEW safety \in SafetyVerdicts, NEW brand \in BrandVerdicts,
              NEW fails \in BOOLEAN, NEW dup \in BOOLEAN,
              JudgePiece(safety, brand, fails, dup)
       PROVE TypeOK'
  <2>1. piece' \in [Pieces -> PieceType]
    <3>1. piece \in [Pieces -> PieceType] /\ loop.piece \in Pieces
      BY <1>14 DEF TypeOK, JudgePiece
    <3>2. PICK approved \in BOOLEAN :
            piece' = [piece EXCEPT
                        ![loop.piece].status = IF approved THEN "APPROVED" ELSE "FLAGGED",
                        ![loop.piece].forHuman = approved /\ (@ \/ brand = "WARN")]
      BY <1>14 DEF JudgePiece
    <3> QED
      BY <3>1, <3>2 DEF PieceType, ContentStatus
  <2> QED
    BY <1>14, <2>1 DEF TypeOK, JudgePiece, LoopType, PC
<1>15. CASE UseTopic
  <2>1. topic' \in [Topics -> [status : TopicStatus \cup {"ABSENT"},
                               claims : Findings \cup {NoClaims}]]
    <3>1. loop.topic \in Topics
      BY <1>15 DEF TypeOK, UseTopic
    <3> QED
      BY <1>15, <3>1, SetStatusType DEF UseTopic, TopicStatus
  <2> QED
    BY <1>15, <2>1, OnwardType DEF TypeOK, UseTopic, LoopType, PC
<1>16. CASE ReadForSchedule
  BY <1>16, OnwardType DEF TypeOK, ReadForSchedule, LoopType, PC
<1>17. CASE CreateRows
  <2>1. piece' \in [Pieces -> PieceType]
    BY <1>17 DEF TypeOK, CreateRows, PieceType
  <2>2. leak' \in [begun : Nat, scheduled : Nat]
    BY <1>17 DEF TypeOK, CreateRows
  <2> QED
    BY <1>17, <2>1, <2>2 DEF TypeOK, CreateRows, LoopType, PC
<1>18. CASE MarkScheduled
  <2>1. piece' \in [Pieces -> PieceType]
    BY <1>18, SetPieceType DEF TypeOK, MarkScheduled, ContentStatus
  <2> QED
    BY <1>18, <2>1, OnwardType DEF TypeOK, MarkScheduled
<1>19. CASE TickEnd
  BY <1>19, AsleepType DEF TypeOK, TickEnd
<1>20. CASE SetKillSwitch \/ SetAutonomousMode
  <2>1. CASE SetKillSwitch
    BY <2>1 DEF TypeOK, SetKillSwitch
  <2>2. CASE SetAutonomousMode
    <3>1. autonomousMode' \in BOOLEAN /\ relaxed' \in BOOLEAN
      BY <2>2, Zenon DEF SetAutonomousMode
    <3> QED
      BY <2>2, <3>1 DEF TypeOK, SetAutonomousMode
  <2> QED
    BY <1>20, <2>1, <2>2
<1>21. ASSUME NEW agent \in Agents, SetAgent(agent) PROVE TypeOK'
  BY <1>21 DEF TypeOK, SetAgent
<1>22. ASSUME NEW e \in Editors, NEW op \in {"approve", "archive"}, NEW p \in Pieces,
              BeginEdit(e, op, p)
       PROVE TypeOK'
  BY <1>22 DEF TypeOK, BeginEdit
<1>23. ASSUME NEW e \in Editors, FinishEdit(e) PROVE TypeOK'
  <2>1. edit[e].piece \in Pieces
    BY <1>23 DEF TypeOK, FinishEdit
  <2>2. Target(edit[e].op) \in ContentStatus
    BY DEF Target, ContentStatus
  <2>3. piece' \in [Pieces -> PieceType]
    BY <1>23, <2>1, <2>2, SetPieceType DEF FinishEdit
  <2> QED
    BY <1>23, <2>1, <2>3 DEF TypeOK, FinishEdit, NoEdit
<1>24. CASE Interrupt
  BY <1>24, AsleepType DEF TypeOK, Interrupt, Fault
<1>25. CASE LoseRejection
  <2>1. loop' \in LoopType /\ loop'.pc = "research"
    BY <1>25 DEF TypeOK, LoseRejection, LoopType, PC
  <2>2. faults' \in Nat
    BY <1>25 DEF TypeOK, LoseRejection, Fault
  <2> QED
    BY <1>25, <2>1, <2>2 DEF TypeOK, LoseRejection
<1>26. CASE LoseTail
  BY <1>26, OnwardType DEF TypeOK, LoseTail, Fault
<1>27. CASE UNCHANGED vars
  BY <1>27 DEF TypeOK, vars
<1> QED
  BY <1>1, <1>2, <1>3, <1>4, <1>5, <1>6, <1>7, <1>8, <1>9, <1>10, <1>11, <1>12, <1>13,
     <1>14, <1>15, <1>16, <1>17, <1>18, <1>19, <1>20, <1>21, <1>22, <1>23, <1>24, <1>25,
     <1>26, <1>27
     DEF Next, Tick, Controls, Editing, Failing

\* The properties follow from the invariant.
LEMMA PipeInvSafe == PipeInv => OneScheduledPiecePerTopic /\ WrittenOnStandingResearch
BY DEF PipeInv, TopicInv, WrittenOnStandingResearch, Stands

\* A step that moves no topic, and no piece to another topic or into the queue, keeps
\* what is known of topics and pieces as long as no piece without a topic gets a status.
LEMMA QuietTopics ==
  ASSUME PipeInv, topic' = topic,
         \A p \in Pieces : /\ piece'[p].topic = piece[p].topic
                           /\ piece'[p].scheduled = piece[p].scheduled
                           /\ piece'[p].status # "ABSENT" => piece[p].topic \in Topics,
         \A e \in Editors : edit'[e] # NoEdit =>
           edit'[e].piece \in Pieces /\ piece[edit'[e].piece].topic \in Topics
  PROVE  TopicInv' /\ OneScheduledPiecePerTopic'
BY DEF PipeInv, TopicInv, OneScheduledPiecePerTopic, PiecesOf

\* The same for a step that moves topics other than those of pieces.
LEMMA QuietPieces ==
  ASSUME PipeInv, TypeOK', piece' = piece, edit' = edit,
         \A t \in Topics :
           /\ topic[t].status = "USED" => topic'[t] = topic[t]
           /\ topic[t].status = "RESEARCHED" => topic'[t].status \in {"RESEARCHED", "USED"}
           /\ topic'[t].status \in {"RESEARCHED", "USED"} => Stands(topic'[t].claims)
  PROVE  TopicInv' /\ OneScheduledPiecePerTopic'
BY DEF PipeInv, TypeOK, TopicInv, OneScheduledPiecePerTopic, PiecesOf

\* A tick that stops working, or is over, has nothing to answer for.
LEMMA AsleepTick == loop.pc \in {"asleep", "scan", "score", "pick"} => TickInv
BY DEF TickInv, Working, Ending, Written

\* Each step of the loop, of an editor, of an operator or of a fault keeps the invariant.
LEMMA PipeStep == PipeInv /\ [Next]_vars => PipeInv'
<1> SUFFICES ASSUME PipeInv, [Next]_vars PROVE TickInv' /\ TopicInv' /\ OneScheduledPiecePerTopic'
  BY TypeStep DEF PipeInv
<1>0. TypeOK /\ TypeOK'
  BY TypeStep DEF PipeInv
<1> DEFINE Good == TickInv' /\ TopicInv' /\ OneScheduledPiecePerTopic'
<1> USE DEF controls
<1>a. \A e \in Editors : edit[e] # NoEdit =>
        edit[e].piece \in Pieces /\ piece[edit[e].piece].topic \in Topics
  BY <1>0 DEF TypeOK, PipeInv, TopicInv
<1>b. \A p \in Pieces : piece[p].status # "ABSENT" => piece[p].topic \in Topics
  BY DEF PipeInv, TopicInv
<1>k. ASSUME topic' = topic, piece' = piece, edit' = edit
      PROVE  TopicInv' /\ OneScheduledPiecePerTopic'
  BY <1>a, <1>b, <1>k, QuietTopics
<1>1. ASSUME NEW n \in Demands, TickStart(n) PROVE Good
  <2>1. loop'.pc = "scan"
    BY <1>1 DEF TickStart, Asleep
  <2> QED
    BY <1>1, <1>k, <2>1, AsleepTick DEF TickStart, TickInv, Working, Ending, Written
<1>2. ASSUME NEW found \in SUBSET Topics, Scan(found) PROVE Good
  <2>1. \A t \in Topics :
          \/ topic'[t] = topic[t]
          \/ topic[t].status = "ABSENT" /\ topic'[t].status = "DISCOVERED"
    BY <1>0, <1>2, SetStatusType DEF Scan, SetStatus, With, TypeOK, TopicStatus
  <2>2. TopicInv' /\ OneScheduledPiecePerTopic'
    BY <1>0, <1>2, <2>1, QuietPieces DEF Scan, PipeInv, TopicInv
  <2>3. loop'.pc = "score"
    BY <1>0, <1>2 DEF Scan, TypeOK, LoopType
  <2> QED
    BY <2>2, <2>3 DEF TickInv, Working, Ending, Written
<1>3. ASSUME NEW strong \in SUBSET Topics, NEW weak \in SUBSET Topics,
             ScoreTopics(strong, weak)
      PROVE Good
  <2>1. \A t \in Topics :
          \/ topic'[t] = topic[t]
          \/ topic[t].status = "DISCOVERED" /\ topic'[t].status \in {"SELECTED", "SCORED"}
    BY <1>0, <1>3 DEF ScoreTopics, With, TypeOK
  <2>2. TopicInv' /\ OneScheduledPiecePerTopic'
    BY <1>0, <1>3, <2>1, QuietPieces DEF ScoreTopics, PipeInv, TopicInv
  <2>3. loop'.pc = "pick"
    BY <1>0, <1>3 DEF ScoreTopics, TypeOK, LoopType
  <2> QED
    BY <2>2, <2>3 DEF TickInv, Working, Ending, Written
<1>4. ASSUME NEW b \in SUBSET Topics, PickSelected(b) PROVE Good
  <2>1. \/ loop'.pc = "asleep"
        \/ (loop'.pc = "research" /\ \A t \in loop'.todo : topic[t].status = "SELECTED")
    BY <1>0, <1>4 DEF PickSelected, Batches, With, Asleep, TypeOK, LoopType
  <2> QED
    BY <1>4, <1>k, <2>1 DEF PickSelected, TickInv, Working, Ending, Written
<1>5. ASSUME NEW t \in Topics, StartResearch(t) PROVE Good
  <2>1. topic[t].status = "SELECTED" /\ loop.pc = "research" /\ t \in loop.todo
    BY <1>5 DEF StartResearch, PipeInv, TickInv
  <2>2. \A u \in Topics :
          \/ topic'[u] = topic[u]
          \/ u = t /\ topic'[u].status \in {"RESEARCHING", "REJECTED"}
    BY <1>0, <1>5 DEF StartResearch, SetStatus, TypeOK
  <2>3. TopicInv' /\ OneScheduledPiecePerTopic'
    BY <1>0, <1>5, <2>1, <2>2, QuietPieces DEF StartResearch, PipeInv, TopicInv
  <2>4. CASE MayRun("researcher")
    <3>1. loop' = [loop EXCEPT !.pc = "researching", !.topic = t, !.todo = @ \ {t}]
      BY <1>5, <2>4 DEF StartResearch
    <3>2. loop'.pc = "researching" /\ loop'.topic = t /\ loop'.todo = loop.todo \ {t}
      BY <1>0, <3>1 DEF TypeOK, LoopType
    <3>3. topic'[t].status = "RESEARCHING"
      BY <1>0, <1>5, <2>4 DEF StartResearch, SetStatus, TypeOK
    <3> QED
      BY <1>0, <2>1, <2>2, <2>3, <3>2, <3>3
         DEF PipeInv, TickInv, Working, Ending, Written, TypeOK, LoopType
  <2>5. CASE ~MayRun("researcher")
    <3>1. loop'.pc = "research" /\ loop'.todo = loop.todo \ {t}
      BY <1>0, <1>5, <2>5 DEF StartResearch, TypeOK, LoopType
    <3> QED
      BY <1>0, <2>1, <2>2, <2>3, <3>1
         DEF PipeInv, TickInv, Working, Ending, Written, TypeOK, LoopType
  <2> QED
    BY <2>4, <2>5
<1>6. ASSUME NEW claims \in Findings, FinishResearch(claims) PROVE Good
  <2>1. /\ loop.pc = "researching" /\ loop.topic \in Topics
        /\ topic[loop.topic].status = "RESEARCHING"
    BY <1>0, <1>6 DEF FinishResearch, PipeInv, TickInv, TypeOK
  <2>2. \A u \in Topics : u # loop.topic => topic'[u] = topic[u]
    BY <1>0, <1>6 DEF FinishResearch, TypeOK
  <2>3. /\ topic'[loop.topic].claims = claims
        /\ topic'[loop.topic].status = "RESEARCHED" => ~RequiresHumanReview(claims)
        /\ topic'[loop.topic].status \in {"RESEARCHED", "REJECTED"}
    BY <1>0, <1>6, <2>1 DEF FinishResearch, TypeOK
  <2>4. ~RequiresHumanReview(claims) => Stands(claims)
    BY FindingsAssumption
       DEF RequiresHumanReview, Stands, ClaimCounts, ClaimKinds, Verified, Total
  <2>5. TopicInv' /\ OneScheduledPiecePerTopic'
    BY <1>0, <1>6, <2>1, <2>2, <2>3, <2>4, QuietPieces DEF FinishResearch, PipeInv, TopicInv
  <2>6. loop'.pc = "research" /\ loop'.todo = loop.todo
    BY <1>0, <1>6 DEF FinishResearch, TypeOK, LoopType
  <2> QED
    BY <1>0, <2>1, <2>2, <2>5, <2>6
       DEF PipeInv, TickInv, Working, Ending, Written, TypeOK, LoopType
<1>7. CASE FailResearch
  <2>1. /\ loop.pc = "researching" /\ loop.topic \in Topics
        /\ topic[loop.topic].status = "RESEARCHING"
    BY <1>0, <1>7 DEF FailResearch, PipeInv, TickInv, TypeOK
  <2>2. \A u \in Topics : topic'[u] = topic[u] \/ (u = loop.topic /\ topic'[u].status = "REJECTED")
    BY <1>0, <1>7 DEF FailResearch, SetStatus, TypeOK
  <2>3. TopicInv' /\ OneScheduledPiecePerTopic'
    BY <1>0, <1>7, <2>1, <2>2, QuietPieces DEF FailResearch, PipeInv, TopicInv
  <2>4. loop'.pc = "research" /\ loop'.todo = loop.todo
    BY <1>0, <1>7 DEF FailResearch, TypeOK, LoopType
  <2> QED
    BY <1>0, <2>1, <2>2, <2>3, <2>4
       DEF PipeInv, TickInv, Working, Ending, Written, TypeOK, LoopType
<1>8. ASSUME NEW b \in SUBSET Topics, NEW accounts \in BOOLEAN, ListResearched(b, accounts)
      PROVE Good
  <2>1. loop'.pc = "generate" /\ \A t \in loop'.todo : topic[t].status = "RESEARCHED"
    BY <1>0, <1>8 DEF ListResearched, Batches, With, TypeOK, LoopType
  <2> QED
    BY <1>8, <1>k, <2>1 DEF ListResearched, TickInv, Working, Ending, Written
<1>9. ASSUME NEW t \in Topics, StartGeneration(t) PROVE Good
  <2>1. topic[t].status = "RESEARCHED" /\ t \in loop.todo
        /\ \A u \in loop.todo : topic[u].status = "RESEARCHED"
    BY <1>9 DEF StartGeneration, PipeInv, TickInv
  <2>2. loop'.todo = loop.todo \ {t}
        /\ (loop'.pc = "generate" \/ (loop'.pc = "strategy" /\ loop'.topic = t))
    <3>1. loop \in LoopType /\ loop.pc = "generate"
      BY <1>0, <1>9 DEF TypeOK, StartGeneration
    <3>2. \/ loop' = [loop EXCEPT !.todo = @ \ {t}]
          \/ loop' = [loop EXCEPT !.pc = "strategy", !.todo = @ \ {t}, !.topic = t,
                                  !.autonomous = autonomousMode]
      BY <1>9 DEF StartGeneration
    <3> QED
      BY <3>1, <3>2 DEF LoopType
  <2> QED
    BY <1>9, <1>k, <2>1, <2>2 DEF StartGeneration, TickInv, Working, Ending, Written
<1>10. ASSUME NEW p \in Pieces, CreatePiece(p) PROVE Good
  <2>1. /\ loop.pc = "strategy" /\ loop.topic \in Topics
        /\ topic[loop.topic].status = "RESEARCHED" /\ loop.topic \notin loop.todo
        /\ \A t \in loop.todo : topic[t].status = "RESEARCHED"
    BY <1>0, <1>10 DEF CreatePiece, PipeInv, TickInv, Working, TypeOK
  <2>2. /\ \A q \in Pieces : q # p => piece'[q] = piece[q]
        /\ piece'[p].topic = loop.topic /\ piece'[p].scheduled = FALSE
    BY <1>0, <1>10 DEF CreatePiece, NoPiece, TypeOK, PieceType
  <2>3. TopicInv' /\ OneScheduledPiecePerTopic'
    BY <1>0, <1>10, <1>a, <2>1, <2>2
       DEF CreatePiece, PipeInv, TopicInv, OneScheduledPiecePerTopic, PiecesOf
  <2>4. loop'.pc = "write" /\ loop'.piece = p /\ loop'.topic = loop.topic /\ loop'.todo = loop.todo
    BY <1>0, <1>10 DEF CreatePiece, TypeOK, LoopType
  <2> QED
    BY <1>10, <2>1, <2>2, <2>3, <2>4 DEF CreatePiece, TickInv, Working, Ending, Written
<1>11. CASE DesignPiece \/ SubmitPiece
  <2>1. /\ loop.pc \in {"write", "render"} /\ loop.piece \in Pieces /\ loop.topic \in Topics
        /\ topic[loop.topic].status = "RESEARCHED" /\ loop.topic \notin loop.todo
        /\ \A t \in loop.todo : topic[t].status = "RESEARCHED"
        /\ piece[loop.piece].topic = loop.topic
    BY <1>0, <1>11 DEF DesignPiece, SubmitPiece, PipeInv, TickInv, Working, Written, TypeOK
  <2>2. PICK status \in ContentStatus : SetPiece(loop.piece, status)
    BY <1>11 DEF DesignPiece, SubmitPiece, ContentStatus
  <2>3. \A q \in Pieces : /\ piece'[q].topic = piece[q].topic
                          /\ piece'[q].scheduled = piece[q].scheduled
                          /\ piece'[q].status # "ABSENT" => piece[q].topic \in Topics
    BY <1>0, <1>b, <2>1, <2>2, SetPieceType
  <2>4. TopicInv' /\ OneScheduledPiecePerTopic'
    BY <1>11, <1>a, <2>3, QuietTopics DEF DesignPiece, SubmitPiece
  <2>5. loop'.pc \in {"render", "review"} /\ loop'.piece = loop.piece
        /\ loop'.topic = loop.topic /\ loop'.todo = loop.todo
    BY <1>0, <1>11 DEF DesignPiece, SubmitPiece, TypeOK, LoopType
  <2> QED
    BY <1>11, <2>1, <2>3, <2>4, <2>5
       DEF DesignPiece, SubmitPiece, TickInv, Working, Ending, Written
<1>13. CASE FailGeneration \/ LoseTail
  <2>1. loop'.pc = "generate" /\ loop'.todo = loop.todo
    BY <1>0, <1>13, OnwardType DEF FailGeneration, LoseTail
  <2>2. \A t \in loop.todo : topic[t].status = "RESEARCHED"
    BY <1>13 DEF FailGeneration, LoseTail, PipeInv, TickInv, Working, Ending
  <2> QED
    BY <1>13, <1>k, <2>1, <2>2 DEF FailGeneration, LoseTail, TickInv, Working, Ending, Written
<1>14. ASSUME NEW safety \in SafetyVerdicts, NEW brand \in BrandVerdicts,
              NEW fails \in BOOLEAN, NEW dup \in BOOLEAN,
              JudgePiece(safety, brand, fails, dup)
       PROVE Good
  <2>1. /\ loop.pc = "review" /\ loop.piece \in Pieces /\ loop.topic \in Topics
        /\ topic[loop.topic].status = "RESEARCHED" /\ loop.topic \notin loop.todo
        /\ \A t \in loop.todo : topic[t].status = "RESEARCHED"
        /\ piece[loop.piece].topic = loop.topic
    BY <1>0, <1>14 DEF JudgePiece, PipeInv, TickInv, Working, Written, TypeOK
  <2>3. \A q \in Pieces : /\ piece'[q].topic = piece[q].topic
                          /\ piece'[q].scheduled = piece[q].scheduled
                          /\ piece'[q].status # "ABSENT" => piece[q].topic \in Topics
    BY <1>0, <1>14, <1>b, <2>1 DEF JudgePiece, TypeOK, PieceType
  <2>4. TopicInv' /\ OneScheduledPiecePerTopic'
    BY <1>14, <1>a, <2>3, QuietTopics DEF JudgePiece
  <2>5. loop'.pc = "use" /\ loop'.piece = loop.piece
        /\ loop'.topic = loop.topic /\ loop'.todo = loop.todo
    BY <1>0, <1>14 DEF JudgePiece, TypeOK, LoopType
  <2> QED
    BY <1>14, <2>1, <2>3, <2>4, <2>5 DEF JudgePiece, TickInv, Working, Ending, Written
<1>15. CASE UseTopic
  <2>1. /\ loop.pc = "use" /\ loop.piece \in Pieces /\ loop.topic \in Topics
        /\ topic[loop.topic].status = "RESEARCHED" /\ loop.topic \notin loop.todo
        /\ \A t \in loop.todo : topic[t].status = "RESEARCHED"
        /\ piece[loop.piece].topic = loop.topic
    BY <1>0, <1>15 DEF UseTopic, PipeInv, TickInv, Working, Written, TypeOK
  <2>2. \A u \in Topics : /\ topic'[u].claims = topic[u].claims
                          /\ topic'[u].status = IF u = loop.topic THEN "USED" ELSE topic[u].status
    BY <1>0, <1>15, <2>1, SetStatusType DEF UseTopic, TopicStatus
  <2>3. \A u \in Topics : topic[u].status = "USED" => topic'[u] = topic[u]
    BY <1>0, <1>15, <2>1 DEF UseTopic, SetStatus, TypeOK
  <2>4. TopicInv' /\ OneScheduledPiecePerTopic'
    BY <1>0, <1>15, <2>1, <2>2, <2>3, QuietPieces DEF UseTopic, PipeInv, TopicInv
  <2>5. \A p \in Pieces : piece[p].topic = loop.topic => ~piece[p].scheduled
    BY <2>1 DEF PipeInv, TopicInv
  <2>6. /\ loop'.todo = loop.todo
        /\ \/ loop'.pc = "generate"
           \/ (loop'.pc = "schedule" /\ loop'.topic = loop.topic /\ loop'.piece = loop.piece)
    BY <1>0, <1>15, OnwardType DEF UseTopic, TypeOK, LoopType
  <2>7. \A t \in loop.todo : t \in Topics
    BY <1>0 DEF TypeOK, LoopType
  <2> QED
    BY <1>15, <2>1, <2>2, <2>4, <2>5, <2>6, <2>7
       DEF UseTopic, TickInv, Working, Ending, Written
<1>16. CASE ReadForSchedule
  <2>1. /\ loop.pc = "schedule" /\ loop.piece \in Pieces /\ loop.topic \in Topics
        /\ topic[loop.topic].status = "USED"
        /\ \A t \in loop.todo : topic[t].status = "RESEARCHED"
        /\ piece[loop.piece].topic = loop.topic
        /\ \A p \in Pieces : piece[p].topic = loop.topic => ~piece[p].scheduled
    BY <1>0, <1>16 DEF ReadForSchedule, PipeInv, TickInv, Ending, Written, TypeOK
  <2>2. /\ loop'.todo = loop.todo
        /\ \/ loop'.pc = "generate"
           \/ (loop'.pc = "enqueue" /\ loop'.topic = loop.topic /\ loop'.piece = loop.piece)
    BY <1>0, <1>16, OnwardType DEF ReadForSchedule, TypeOK, LoopType
  <2> QED
    BY <1>16, <1>k, <2>1, <2>2 DEF ReadForSchedule, TickInv, Working, Ending, Written
<1>17. CASE CreateRows
  <2>1. /\ loop.pc = "enqueue" /\ loop.piece \in Pieces /\ loop.topic \in Topics
        /\ topic[loop.topic].status = "USED"
        /\ \A t \in loop.todo : topic[t].status = "RESEARCHED"
        /\ piece[loop.piece].topic = loop.topic
        /\ \A p \in Pieces : piece[p].topic = loop.topic => ~piece[p].scheduled
    BY <1>0, <1>17 DEF CreateRows, PipeInv, TickInv, Ending, Written, TypeOK
  <2>2. \A q \in Pieces : /\ piece'[q].topic = piece[q].topic
                          /\ piece'[q].status = piece[q].status
                          /\ piece'[q].scheduled => piece[q].scheduled \/ q = loop.piece
    BY <1>0, <1>17, <2>1 DEF CreateRows, TypeOK, PieceType
  <2>3. TopicInv'
    BY <1>0, <1>17, <1>a, <2>1, <2>2 DEF CreateRows, PipeInv, TopicInv
  <2>4. OneScheduledPiecePerTopic'
    BY <2>1, <2>2 DEF PipeInv, OneScheduledPiecePerTopic, PiecesOf
  <2>5. loop'.pc = "mark" /\ loop'.piece = loop.piece
        /\ loop'.topic = loop.topic /\ loop'.todo = loop.todo
    BY <1>0, <1>17 DEF CreateRows, TypeOK, LoopType
  <2> QED
    BY <1>17, <2>1, <2>2, <2>3, <2>4, <2>5 DEF CreateRows, TickInv, Working, Ending, Written
<1>18. CASE MarkScheduled
  <2>1. /\ loop.piece \in Pieces /\ loop.topic \in Topics
        /\ \A t \in loop.todo : topic[t].status = "RESEARCHED"
        /\ piece[loop.piece].topic = loop.topic
    BY <1>0, <1>18 DEF MarkScheduled, PipeInv, TickInv, Ending, Written, TypeOK
  <2>2. \A q \in Pieces : /\ piece'[q].topic = piece[q].topic
                          /\ piece'[q].scheduled = piece[q].scheduled
                          /\ piece'[q].status # "ABSENT" => piece[q].topic \in Topics
    BY <1>0, <1>18, <1>b, <2>1, SetPieceType DEF MarkScheduled, ContentStatus
  <2>3. TopicInv' /\ OneScheduledPiecePerTopic'
    BY <1>18, <1>a, <2>2, QuietTopics DEF MarkScheduled
  <2>4. loop'.pc = "generate" /\ loop'.todo = loop.todo
    BY <1>0, <1>18, OnwardType DEF MarkScheduled
  <2> QED
    BY <1>18, <2>1, <2>3, <2>4 DEF MarkScheduled, TickInv, Working, Ending, Written
<1>19. CASE TickEnd \/ Interrupt
  <2>1. loop'.pc = "asleep"
    BY <1>19, AsleepType DEF TickEnd, Interrupt
  <2> QED
    BY <1>19, <1>k, <2>1 DEF TickEnd, Interrupt, TickInv, Working, Ending, Written
<1>20. CASE Controls
  BY <1>20, <1>k
     DEF Controls, SetKillSwitch, SetAutonomousMode, SetAgent, PipeInv, TickInv, Working,
         Ending, Written
<1>22. ASSUME NEW e \in Editors, NEW op \in {"approve", "archive"}, NEW p \in Pieces,
              BeginEdit(e, op, p)
       PROVE Good
  <2>1. \A d \in Editors : edit'[d] # NoEdit =>
          edit'[d].piece \in Pieces /\ piece[edit'[d].piece].topic \in Topics
    BY <1>0, <1>22, <1>a, <1>b DEF BeginEdit, TypeOK
  <2>2. TopicInv' /\ OneScheduledPiecePerTopic'
    BY <1>22, <1>b, <2>1, QuietTopics DEF BeginEdit
  <2> QED
    BY <1>22, <2>2 DEF BeginEdit, PipeInv, TickInv, Working, Ending, Written
<1>23. ASSUME NEW e \in Editors, FinishEdit(e) PROVE Good
  <2>1. edit[e].piece \in Pieces /\ piece[edit[e].piece].topic \in Topics
    BY <1>23, <1>a DEF FinishEdit
  <2>2. Target(edit[e].op) \in ContentStatus
    BY DEF Target, ContentStatus
  <2>3. \A q \in Pieces : /\ piece'[q].topic = piece[q].topic
                          /\ piece'[q].scheduled = piece[q].scheduled
                          /\ piece'[q].status # "ABSENT" => piece[q].topic \in Topics
    BY <1>0, <1>23, <1>b, <2>1, <2>2, SetPieceType DEF FinishEdit
  <2>4. \A d \in Editors : edit'[d] # NoEdit =>
          edit'[d].piece \in Pieces /\ piece[edit'[d].piece].topic \in Topics
    BY <1>0, <1>23, <1>a DEF FinishEdit, TypeOK
  <2>5. TopicInv' /\ OneScheduledPiecePerTopic'
    BY <1>23, <2>3, <2>4, QuietTopics DEF FinishEdit
  <2> QED
    BY <1>0, <1>23, <2>3, <2>5 DEF FinishEdit, PipeInv, TypeOK, TickInv, Working, Ending, Written
<1>25. CASE LoseRejection
  <2>1. loop'.pc = "research" /\ loop'.todo = loop.todo
    BY <1>0, <1>25 DEF LoseRejection, TypeOK, LoopType
  <2> QED
    BY <1>25, <1>k, <2>1 DEF LoseRejection, PipeInv, TickInv, Working, Ending, Written
<1>27. CASE UNCHANGED vars
  BY <1>27, <1>k DEF vars, PipeInv, TickInv, Working, Ending, Written
<1> QED
  BY <1>1, <1>2, <1>3, <1>4, <1>5, <1>6, <1>7, <1>8, <1>9, <1>10, <1>11, <1>13, <1>14,
     <1>15, <1>16, <1>17, <1>18, <1>19, <1>20, <1>22, <1>23, <1>25, <1>27
     DEF Next, Tick, Editing, Failing

\* No topic, piece or tick exists at first.
LEMMA PipeInit == Init => PipeInv
<1> SUFFICES ASSUME Init PROVE PipeInv
  OBVIOUS
<1>1. TypeOK
  <2>1. 0 \in Nat /\ {} \subseteq Agents /\ {} \subseteq Pieces
    OBVIOUS
  <2> QED
    BY <2>1, AsleepType DEF Init, TypeOK, NoTopic, NoPiece, PieceType, Asleep
<1>2. TickInv /\ TopicInv /\ OneScheduledPiecePerTopic
  BY DEF Init, TickInv, TopicInv, OneScheduledPiecePerTopic, PiecesOf, NoTopic, NoPiece,
         Asleep, Working, Ending, Written
<1> QED
  BY <1>1, <1>2 DEF PipeInv

\* It holds from the start, and each step keeps it.
LEMMA PipeAlways == Spec => []PipeInv
BY PipeInit, PipeStep, PTL DEF Spec

\* Topics, pieces, ticks and calls keep their shape in every run of the pipeline.
THEOREM PipelineTypeCorrect == Spec => []TypeOK
<1>1. PipeInv => TypeOK
  BY DEF PipeInv
<1> QED
  BY <1>1, PipeAlways, PTL

\* Whatever fails, crashes or is tried again, the loop schedules a topic once.
THEOREM TopicsAreScheduledOnce == Spec => []OneScheduledPiecePerTopic
BY PipeInvSafe, PipeAlways, PTL

\* Whatever fails, crashes or is tried again, a piece is written from research that
\* the fact checker let stand.
THEOREM PiecesRestOnResearch == Spec => []WrittenOnStandingResearch
BY PipeInvSafe, PipeAlways, PTL

-----------------------------------------------------------------------------

\* What the loop has in hand: nothing between topics, an approved piece only once it is
\* judged, a piece whose rows are made when it comes to be marked.
HandInv ==
  /\ loop.pc \notin {"researching"} \cup Working \cup Ending => loop.topic = None
  /\ loop.pc \notin Written => loop.piece = None
  /\ loop.approved => loop.pc \in {"use"} \cup Ending
  /\ loop.pc = "mark" => piece[loop.piece].scheduled

\* The mode a tick goes by: the one it started in, unless that was switched off since;
\* and what it writes in autonomous mode is not for a human's eyes.
ModeInv ==
  /\ loop.pc # "asleep" /\ ~relaxed => autonomousMode
  /\ loop.pc \in Working \cup Ending /\ ~relaxed => loop.autonomous
  /\ loop.pc \in Written /\ loop.autonomous => ~piece[loop.piece].forHuman

\* The pieces that the stage in hand may still begin, and schedule, count as if it had.
ToBegin    == IF loop.pc = "strategy" THEN 1 ELSE 0
ToSchedule == IF loop.pc \in Working \cup {"schedule", "enqueue"} THEN 1 ELSE 0

\* Under a kill switch, what was begun and scheduled and what still may be make one each.
LeakInv ==
  killSwitch => leak.begun + ToBegin <= 1 /\ leak.scheduled + ToSchedule <= 1

LoopInv == HandInv /\ ModeInv /\ LeakInv

\* A tick that goes on to the next topic, or sleeps, has nothing in hand.
LEMMA OnwardHand ==
  ASSUME TypeOK, LoopInv, loop' \in {Asleep, Onward(loop)},
         UNCHANGED <<killSwitch, autonomousMode, relaxed, leak>>,
         loop.pc # "asleep" \/ loop' = Asleep
  PROVE  LoopInv'
<1>1. /\ loop'.pc = "asleep" \/ (loop'.pc = "generate" /\ loop.pc # "asleep")
      /\ loop'.topic = None /\ loop'.piece = None /\ loop'.approved = FALSE
  <2>1. CASE loop' = Asleep
    BY <2>1 DEF Asleep
  <2>2. CASE loop' = Onward(loop) /\ loop.pc # "asleep"
    BY <2>2 DEF Onward, TypeOK, LoopType
  <2>. QED BY <2>1, <2>2
<1>2. ToBegin' = 0 /\ ToSchedule' = 0 /\ ToBegin \in 0..1 /\ ToSchedule \in 0..1
  BY <1>1 DEF ToBegin, ToSchedule, Working
<1>. QED
  BY <1>1, <1>2
  DEF LoopInv, HandInv, ModeInv, LeakInv, Working, Ending, Written, TypeOK

\* What the loop does not do leaves it as it was.
LEMMA LoopRests ==
  ASSUME TypeOK, LoopInv, loop' = loop, leak' = leak, killSwitch' = killSwitch,
         relaxed' = relaxed, autonomousMode' = autonomousMode,
         \A p \in Pieces : /\ piece'[p].scheduled = piece[p].scheduled
                           /\ piece'[p].forHuman = piece[p].forHuman
  PROVE  LoopInv'
<1>1. loop.pc \in Written => loop.piece \in Pieces
  BY DEF TypeOK, Written
<1>. QED
  BY <1>1
  DEF LoopInv, HandInv, ModeInv, LeakInv, ToBegin, ToSchedule, Working, Ending, Written

\* Each step of the loop and around it keeps what it has in hand, its mode, and what may
\* still get out under a kill switch.
LEMMA LoopInductive == TypeOK /\ LoopInv /\ [Next]_vars => LoopInv'
<1> SUFFICES ASSUME TypeOK, LoopInv, [Next]_vars PROVE LoopInv'
  OBVIOUS
<1>0. TypeOK'
  BY TypeStep
<1> USE DEF controls, Working, Ending, Written
<1> DEFINE Inv == LoopInv'
<1>t. /\ loop \in LoopType /\ leak \in [begun : Nat, scheduled : Nat]
      /\ loop.pc \in Written => loop.piece \in Pieces
      /\ loop.pc \in {"researching"} \cup Working \cup Ending => loop.topic \in Topics
      /\ piece \in [Pieces -> PieceType] /\ relaxed \in BOOLEAN
      /\ killSwitch \in BOOLEAN /\ autonomousMode \in BOOLEAN
  BY DEF TypeOK
\* Steps before a topic is in hand.
<1>1. ASSUME loop'.pc \in {"scan", "score", "pick", "research", "researching", "generate"},
             loop'.piece = None, loop'.approved = FALSE,
             loop'.pc = "researching" \/ loop'.topic = None,
             loop.pc # "asleep" \/ (autonomousMode /\ relaxed' = FALSE),
             leak' = leak, killSwitch' = killSwitch, autonomousMode' = autonomousMode,
             relaxed' \in {relaxed, FALSE}, loop.pc = "asleep" \/ relaxed' = relaxed
      PROVE  LoopInv'
  BY <1>t, <1>1 DEF LoopInv, HandInv, ModeInv, LeakInv, ToBegin, ToSchedule
<1>2. ASSUME NEW n \in Demands, TickStart(n) PROVE LoopInv'
  BY <1>1, <1>2 DEF TickStart, Asleep
<1>3. ASSUME NEW found \in SUBSET Topics, Scan(found) PROVE LoopInv'
  BY <1>1, <1>3, <1>t DEF Scan, LoopType, LoopInv, HandInv
<1>4. ASSUME NEW strong \in SUBSET Topics, NEW weak \in SUBSET Topics,
             ScoreTopics(strong, weak)
      PROVE LoopInv'
  BY <1>1, <1>4, <1>t DEF ScoreTopics, LoopType, LoopInv, HandInv
<1>5. ASSUME NEW b \in SUBSET Topics, PickSelected(b) PROVE LoopInv'
  <2>1. CASE loop' = Asleep
    BY <1>5, <2>1, OnwardHand DEF PickSelected
  <2>2. CASE loop' = [loop EXCEPT !.pc = "research", !.todo = b]
    BY <1>1, <1>5, <1>t, <2>2 DEF PickSelected, LoopType, LoopInv, HandInv
  <2>. QED BY <1>5, <2>1, <2>2 DEF PickSelected
<1>6. ASSUME NEW t \in Topics, StartResearch(t) PROVE LoopInv'
  <2>1. /\ loop'.pc \in {"research", "researching"} /\ loop.pc = "research"
        /\ loop'.piece = loop.piece /\ loop'.approved = loop.approved
        /\ loop'.pc = "researching" \/ loop'.topic = loop.topic
    <3>1. CASE MayRun("researcher")
      <4>1. loop' = [loop EXCEPT !.pc = "researching", !.topic = t, !.todo = @ \ {t}]
        BY <1>6, <3>1 DEF StartResearch
      <4>. QED BY <1>6, <1>t, <4>1 DEF StartResearch, LoopType
    <3>2. CASE ~MayRun("researcher")
      BY <1>6, <1>t, <3>2 DEF StartResearch, LoopType
    <3>. QED BY <3>1, <3>2
  <2>. QED BY <1>1, <1>6, <1>t, <2>1 DEF StartResearch, LoopType, LoopInv, HandInv
<1>7. ASSUME NEW claims \in Findings, FinishResearch(claims) PROVE LoopInv'
  BY <1>1, <1>7, <1>t DEF FinishResearch, LoopType, LoopInv, HandInv
<1>8. CASE FailResearch
  BY <1>1, <1>8, <1>t DEF FailResearch, LoopType, LoopInv, HandInv
<1>9. ASSUME NEW b \in SUBSET Topics, NEW accounts \in BOOLEAN, ListResearched(b, accounts)
      PROVE LoopInv'
  BY <1>1, <1>9, <1>t DEF ListResearched, LoopType, LoopInv, HandInv
\* The controls are asked before a topic is taken up.
<1>10. ASSUME NEW t \in Topics, StartGeneration(t) PROVE LoopInv'
  <2>1. CASE loop' = [loop EXCEPT !.todo = @ \ {t}]
    BY <1>1, <1>10, <1>t, <2>1 DEF StartGeneration, LoopType, LoopInv, HandInv
  <2>2. CASE /\ ~killSwitch
             /\ loop' = [loop EXCEPT !.pc = "strategy", !.todo = @ \ {t}, !.topic = t,
                                     !.autonomous = autonomousMode]
    <3>1. /\ loop.pc = "generate" /\ loop'.pc = "strategy" /\ loop'.piece = loop.piece
          /\ loop'.approved = loop.approved /\ loop'.autonomous = autonomousMode
      BY <1>10, <1>t, <2>2 DEF StartGeneration, LoopType
    <3>. QED
      BY <1>10, <1>t, <2>2, <3>1
      DEF StartGeneration, LoopInv, HandInv, ModeInv, LeakInv
  <2>. QED BY <1>10, <2>1, <2>2 DEF StartGeneration, MayRun
<1>11. ASSUME NEW p \in Pieces, CreatePiece(p) PROVE LoopInv'
  <2>1. /\ loop.pc = "strategy" /\ loop'.pc = "write" /\ loop'.piece = p
        /\ loop'.topic = loop.topic
        /\ loop'.approved = loop.approved /\ loop'.autonomous = loop.autonomous
    BY <1>11, <1>t DEF CreatePiece, LoopType
  <2>2. loop.autonomous => piece'[p].forHuman = FALSE
    <3>1. loop.autonomous => UsableKinds(topic[loop.topic].claims, loop.autonomous) \subseteq {"sure"}
      BY DEF UsableKinds
    <3>. QED BY <1>11, <1>t, <3>1 DEF CreatePiece, NoPiece, PieceType
  <2>3. leak'.scheduled = leak.scheduled /\ (killSwitch => leak'.begun = leak.begun + 1)
    BY <1>11, <1>t DEF CreatePiece
  <2>4. ToBegin = 1 /\ ToBegin' = 0 /\ ToSchedule = 1 /\ ToSchedule' = 1
    BY <2>1 DEF ToBegin, ToSchedule
  <2>5. LeakInv'
    BY <1>t, <1>11, <2>3, <2>4 DEF CreatePiece, LoopInv, LeakInv
  <2>6. HandInv' /\ ModeInv'
    BY <1>11, <1>t, <2>1, <2>2 DEF CreatePiece, LoopInv, HandInv, ModeInv
  <2>. QED BY <2>5, <2>6 DEF LoopInv
\* From one stage of a piece to the next.
<1>12. ASSUME loop.pc \in {"write", "render", "review", "use", "schedule"},
              loop'.pc \in {"render", "review", "use", "schedule", "enqueue"},
              loop'.piece = loop.piece, loop'.autonomous = loop.autonomous,
              loop'.approved => loop'.pc \in {"use"} \cup Ending,
              loop.autonomous /\ ~piece[loop.piece].forHuman
                => ~piece'[loop.piece].forHuman,
              leak' = leak, killSwitch' = killSwitch, autonomousMode' = autonomousMode,
              relaxed' = relaxed
       PROVE  LoopInv'
  <2>1. LeakInv'
    BY <1>12, <1>t DEF LoopInv, LeakInv, ToBegin, ToSchedule
  <2>2. HandInv' /\ ModeInv'
    BY <1>12, <1>t DEF LoopInv, HandInv, ModeInv
  <2>. QED BY <2>1, <2>2 DEF LoopInv
<1>13. CASE DesignPiece \/ SubmitPiece
  <2>1. /\ loop.pc \in {"write", "render"} /\ loop'.pc \in {"render", "review"}
        /\ loop'.piece = loop.piece /\ loop'.autonomous = loop.autonomous
        /\ loop'.approved = loop.approved
    BY <1>13, <1>t DEF DesignPiece, SubmitPiece, LoopType
  <2>2. piece'[loop.piece].forHuman = piece[loop.piece].forHuman
    BY <1>13, <1>t, <2>1 DEF DesignPiece, SubmitPiece, SetPiece, PieceType
  <2>. QED
    BY <1>12, <1>13, <2>1, <2>2 DEF DesignPiece, SubmitPiece, LoopInv, HandInv
<1>14. CASE FailGeneration \/ LoseTail \/ MarkScheduled \/ TickEnd \/ Interrupt
  <2>1. /\ \/ loop' \in {Asleep, Onward(loop)} /\ loop.pc # "asleep"
           \/ loop' = Asleep
        /\ UNCHANGED <<killSwitch, autonomousMode, relaxed, leak>>
    BY <1>14 DEF FailGeneration, LoseTail, MarkScheduled, TickEnd, Interrupt
  <2>. QED BY <2>1, OnwardHand
<1>15. ASSUME NEW safety \in SafetyVerdicts, NEW brand \in BrandVerdicts,
              NEW fails \in BOOLEAN, NEW dup \in BOOLEAN,
              JudgePiece(safety, brand, fails, dup)
       PROVE LoopInv'
  <2> DEFINE in == [safety |-> safety, brand |-> brand, platformFails |-> fails,
                    rights |-> TRUE, factGate |-> TRUE, autonomous |-> loop.autonomous]
             ok == DecidePublish(in) = "APPROVE" /\ ~dup
  <2>1. loop.autonomous /\ ok => brand # "WARN"
    BY DEF DecidePublish, MustFlag
  <2>2. /\ piece' = [piece EXCEPT
             ![loop.piece].status = IF ok THEN "APPROVED" ELSE "FLAGGED",
             ![loop.piece].forHuman = ok /\ (@ \/ brand = "WARN")]
        /\ loop' = [loop EXCEPT !.pc = "use", !.approved = ok]
        /\ loop.pc = "review"
    BY <1>15 DEF JudgePiece
  <2> HIDE DEF ok
  <2>3. /\ loop'.pc = "use" /\ loop'.piece = loop.piece
        /\ loop'.autonomous = loop.autonomous
    BY <1>t, <2>2 DEF LoopType
  <2>4. piece'[loop.piece].forHuman = (ok /\ (piece[loop.piece].forHuman \/ brand = "WARN"))
    BY <1>t, <2>2, Zenon DEF PieceType
  <2>. QED BY <1>12, <1>15, <2>1, <2>2, <2>3, <2>4 DEF JudgePiece
<1>16. CASE UseTopic
  <2>1. CASE loop' = [loop EXCEPT !.pc = "schedule"]
    BY <1>12, <1>16, <1>t, <2>1 DEF UseTopic, LoopType
  <2>2. CASE loop' = Onward(loop)
    BY <1>16, <2>2, OnwardHand DEF UseTopic
  <2>. QED BY <1>16, <2>1, <2>2 DEF UseTopic
<1>17. CASE ReadForSchedule
  <2>1. CASE loop' = [loop EXCEPT !.pc = "enqueue"]
    BY <1>12, <1>17, <1>t, <2>1 DEF ReadForSchedule, LoopType
  <2>2. CASE loop' = Onward(loop)
    BY <1>17, <2>2, OnwardHand DEF ReadForSchedule
  <2>. QED BY <1>17, <2>1, <2>2 DEF ReadForSchedule
<1>18. CASE CreateRows
  <2>1. /\ loop.pc = "enqueue" /\ loop'.pc = "mark" /\ loop'.piece = loop.piece
        /\ loop'.autonomous = loop.autonomous /\ loop.piece \in Pieces
    BY <1>18, <1>t DEF CreateRows, LoopType
  <2>2. /\ piece'[loop.piece].scheduled
        /\ piece'[loop.piece].forHuman = piece[loop.piece].forHuman
    BY <1>18, <1>t, <2>1 DEF CreateRows, PieceType
  <2>3. leak'.begun = leak.begun /\ (killSwitch => leak'.scheduled = leak.scheduled + 1)
    BY <1>18, <1>t DEF CreateRows
  <2>4. ToBegin = 0 /\ ToBegin' = 0 /\ ToSchedule = 1 /\ ToSchedule' = 0
    BY <2>1 DEF ToBegin, ToSchedule
  <2>5. LeakInv'
    BY <1>18, <1>t, <2>3, <2>4 DEF CreateRows, LoopInv, LeakInv
  <2>6. HandInv' /\ ModeInv'
    BY <1>18, <1>t, <2>1, <2>2 DEF CreateRows, LoopInv, HandInv, ModeInv
  <2>. QED BY <2>5, <2>6 DEF LoopInv
<1>19. CASE LoseRejection
  BY <1>1, <1>19, <1>t DEF LoseRejection, LoopType, LoopInv, HandInv
\* A kill switch that is engaged finds one stage in hand, at most.
<1>20. CASE SetKillSwitch
  <2>1. leak'.begun = 0 /\ leak'.scheduled = 0 /\ ToBegin' \in {0, 1} /\ ToSchedule' \in {0, 1}
    BY <1>20 DEF SetKillSwitch, ToBegin, ToSchedule
  <2>2. LeakInv'
    <3>1. leak'.begun + ToBegin' <= 1 /\ leak'.scheduled + ToSchedule' <= 1
      BY <2>1 DEF ToBegin, ToSchedule
    <3>. QED BY <3>1 DEF LeakInv
  <2>3. HandInv' /\ ModeInv'
    BY <1>20 DEF SetKillSwitch, LoopInv, HandInv, ModeInv
  <2>. QED BY <2>2, <2>3 DEF LoopInv
<1>21. CASE SetAutonomousMode
  <2>1. (relaxed' <=> relaxed \/ autonomousMode) /\ (autonomousMode' <=> ~autonomousMode)
    BY <1>21, Zenon DEF SetAutonomousMode
  <2>2. HandInv' /\ ModeInv'
    BY <1>21, <2>1, Zenon DEF SetAutonomousMode, LoopInv, HandInv, ModeInv
  <2>3. LeakInv'
    BY <1>21 DEF SetAutonomousMode, LoopInv, LeakInv, ToBegin, ToSchedule
  <2>. QED BY <2>2, <2>3 DEF LoopInv
<1>22. ASSUME NEW agent \in Agents, SetAgent(agent) PROVE LoopInv'
  BY <1>22, LoopRests DEF SetAgent
<1>23. ASSUME NEW e \in Editors PROVE
         /\ (\E op \in {"approve", "archive"}, p \in Pieces : BeginEdit(e, op, p)) => LoopInv'
         /\ FinishEdit(e) => LoopInv'
  <2>1. ASSUME NEW op \in {"approve", "archive"}, NEW p \in Pieces, BeginEdit(e, op, p)
        PROVE LoopInv'
    BY <2>1, LoopRests DEF BeginEdit
  <2>2. ASSUME FinishEdit(e) PROVE LoopInv'
    <3>1. \A p \in Pieces : /\ piece'[p].scheduled = piece[p].scheduled
                            /\ piece'[p].forHuman = piece[p].forHuman
      BY <1>t, <2>2 DEF FinishEdit, SetPiece, PieceType
    <3>. QED BY <2>2, <3>1, LoopRests DEF FinishEdit
  <2>. QED BY <2>1, <2>2
<1>24. CASE UNCHANGED vars
  BY <1>24, LoopRests DEF vars
<1>. QED
  BY <1>2, <1>3, <1>4, <1>5, <1>6, <1>7, <1>8, <1>9, <1>10, <1>11, <1>13, <1>14, <1>15,
     <1>16, <1>17, <1>18, <1>19, <1>20, <1>21, <1>22, <1>23, <1>24
  DEF Next, Tick, Controls, Editing, Failing

\* The loop's invariant holds in every run.
LEMMA LoopAlways == Spec => []LoopInv
<1>1. Init => LoopInv
  BY DEF Init, LoopInv, HandInv, ModeInv, LeakInv, ToBegin, ToSchedule, Asleep, Working,
         Ending, Written
<1>. QED BY <1>1, LoopInductive, PipelineTypeCorrect, PTL DEF Spec

\* However a kill switch is timed, one piece may be begun and one scheduled under it: the
\* stage in hand, and no more.
THEOREM KillSwitchEndsTheTick == Spec => []StopLetsOneStageFinish
<1>1. TypeOK /\ LoopInv => StopLetsOneStageFinish
  BY DEF TypeOK, LoopInv, LeakInv, ToBegin, ToSchedule, StopLetsOneStageFinish
<1>. QED BY <1>1, LoopAlways, PipelineTypeCorrect, PTL

\* Nothing but the step that makes its rows puts a piece into the queue.
LEMMA RowsAreMade ==
  ASSUME TypeOK, [Next]_vars, NEW p \in Pieces, piece'[p].scheduled, ~piece[p].scheduled
  PROVE  CreateRows /\ p = loop.piece
<1>t. /\ piece \in [Pieces -> PieceType]
      /\ loop.pc \in Written => loop.piece \in Pieces
  BY DEF TypeOK, Written
<1>1. CASE piece' = piece
  BY <1>1
<1>2. ASSUME NEW q \in Pieces, CreatePiece(q) PROVE FALSE
  BY <1>2, <1>t DEF CreatePiece, NoPiece
<1>3. ASSUME NEW q \in Pieces, NEW status, SetPiece(q, status) PROVE FALSE
  BY <1>3, <1>t DEF SetPiece, PieceType
<1>4. ASSUME NEW safety \in SafetyVerdicts, NEW brand \in BrandVerdicts,
             NEW fails \in BOOLEAN, NEW dup \in BOOLEAN,
             JudgePiece(safety, brand, fails, dup)
      PROVE  FALSE
  <2>1. PICK s, h : piece' = [piece EXCEPT ![loop.piece].status = s, ![loop.piece].forHuman = h]
    BY <1>4, Zenon DEF JudgePiece
  <2>. QED BY <1>t, <2>1 DEF PieceType
<1>5. CASE CreateRows
  BY <1>5, <1>t DEF CreateRows, PieceType
<1>6. ASSUME NEW e \in Editors, FinishEdit(e) PROVE FALSE
  <2>1. edit[e].piece \in Pieces
    BY <1>6 DEF FinishEdit, TypeOK
  <2>. QED BY <1>3, <1>6, <2>1 DEF FinishEdit
<1>7. CASE DesignPiece \/ SubmitPiece \/ MarkScheduled
  <2>1. loop.piece \in Pieces
    BY <1>7, <1>t DEF DesignPiece, SubmitPiece, MarkScheduled, Written
  <2>. QED BY <1>3, <1>7, <2>1 DEF DesignPiece, SubmitPiece, MarkScheduled
<1>. QED
  BY <1>1, <1>2, <1>4, <1>5, <1>6, <1>7
  DEF Next, Tick, Controls, Editing, Failing, TickStart, Scan, ScoreTopics, PickSelected,
      StartResearch, FinishResearch, FailResearch, ListResearched, StartGeneration,
      FailGeneration, UseTopic, ReadForSchedule, TickEnd, SetKillSwitch, SetAutonomousMode,
      SetAgent, BeginEdit, Interrupt, LoseRejection, LoseTail, vars

\* Content for a human's eyes goes out by itself only if the mode was switched off during
\* the tick, whatever claims, verdicts, editors and crashes come in between.
THEOREM UnattendedGoesOutSure == Spec => UnattendedIsStrict
<1>1. TypeOK /\ LoopInv /\ [Next]_vars
        => \A p \in Pieces : piece'[p].scheduled /\ ~piece[p].scheduled /\ ~relaxed
                               => ~piece[p].forHuman
  BY RowsAreMade DEF CreateRows, LoopInv, ModeInv, Working, Ending, Written
<1>. QED BY <1>1, LoopAlways, PipelineTypeCorrect, PTL DEF Spec, UnattendedIsStrict

\* The loop lets go of an approved piece that it could schedule when its rows are made, or
\* by a fault.
THEOREM NoApprovedPieceIsForgotten == Spec => ApprovedIsNotLeftBehind
<1> DEFINE Kept == loop.approved /\ loop.accounts /\ loop'.piece # loop.piece
                     /\ IsPublishable(piece'[loop.piece].status)
                   => piece'[loop.piece].scheduled \/ faults' > faults
<1>1. ASSUME TypeOK, LoopInv, [Next]_vars PROVE Kept
  <2> SUFFICES ASSUME loop.approved, loop.accounts, loop'.piece # loop.piece,
                      IsPublishable(piece'[loop.piece].status), ~(faults' > faults)
               PROVE  piece'[loop.piece].scheduled
    OBVIOUS
  <2>1. /\ loop.pc \in {"use", "schedule", "enqueue", "mark"}
        /\ loop.pc = "mark" => piece[loop.piece].scheduled
        /\ loop \in LoopType /\ faults \in Nat
        /\ loop.piece \in Pieces /\ piece \in [Pieces -> PieceType]
    <3>1. loop.pc \in {"use", "schedule", "enqueue", "mark"}
      BY <1>1 DEF LoopInv, HandInv, Ending
    <3>. QED BY <1>1, <3>1 DEF LoopInv, HandInv, TypeOK
  <2>2. CASE UseTopic
    BY <2>1, <2>2 DEF UseTopic, LoopType
  <2>3. CASE ReadForSchedule
    BY <2>1, <2>3 DEF ReadForSchedule, LoopType
  <2>4. CASE CreateRows
    BY <2>1, <2>4 DEF CreateRows, LoopType
  <2>5. CASE MarkScheduled
    BY <2>1, <2>5 DEF MarkScheduled, SetPiece, PieceType
  <2>6. CASE Failing
    BY <2>1, <2>6 DEF Failing, Interrupt, LoseRejection, LoseTail, Fault
  <2>7. CASE Controls \/ Editing \/ UNCHANGED vars
    BY <2>7
    DEF Controls, Editing, SetKillSwitch, SetAutonomousMode, SetAgent, BeginEdit,
        FinishEdit, vars
\* The other steps of a tick come before the piece is judged, or after.
  <2>8. ASSUME NEW safety \in SafetyVerdicts, NEW brand \in BrandVerdicts,
               NEW fails \in BOOLEAN, NEW dup \in BOOLEAN,
               JudgePiece(safety, brand, fails, dup)
        PROVE  FALSE
    BY <2>1, <2>8 DEF JudgePiece
  <2>9. ASSUME NEW t \in Topics, StartResearch(t) \/ StartGeneration(t) PROVE FALSE
    BY <2>1, <2>9 DEF StartResearch, StartGeneration
  <2>10. ASSUME NEW p \in Pieces, CreatePiece(p) PROVE FALSE
    BY <2>1, <2>10 DEF CreatePiece
  <2>11. CASE \/ \E n \in Demands : TickStart(n)
              \/ \E found \in SUBSET Topics : Scan(found)
              \/ \E strong, weak \in SUBSET Topics : ScoreTopics(strong, weak)
              \/ \E b \in SUBSET Topics : PickSelected(b)
              \/ \E claims \in Findings : FinishResearch(claims)
              \/ FailResearch
              \/ \E b \in SUBSET Topics, accounts \in BOOLEAN : ListResearched(b, accounts)
              \/ DesignPiece \/ SubmitPiece \/ FailGeneration \/ TickEnd
    BY <2>1, <2>11
    DEF TickStart, Scan, ScoreTopics, PickSelected, FinishResearch, FailResearch,
        ListResearched, DesignPiece, SubmitPiece, FailGeneration, TickEnd
  <2>. QED
    BY <1>1, <2>2, <2>3, <2>4, <2>5, <2>6, <2>7, <2>8, <2>9, <2>10, <2>11 DEF Next, Tick
<1>. QED BY <1>1, LoopAlways, PipelineTypeCorrect, PTL DEF Spec, ApprovedIsNotLeftBehind

-----------------------------------------------------------------------------

\* A piece archived with nobody at it stays out of everybody's hands.
QuietInv ==
  \A p \in quiet :
    /\ piece[p].status = "ARCHIVED" /\ loop.piece # p
    /\ \A e \in Editors : edit[e] # NoEdit => edit[e].piece # p

\* Nobody takes up an archived piece: it has no legal move, and the loop writes new ones.
LEMMA QuietInductive == TypeOK /\ QuietInv /\ LoopInv /\ [Next]_vars => QuietInv'
<1> SUFFICES ASSUME TypeOK, QuietInv, LoopInv, [Next]_vars PROVE QuietInv'
  OBVIOUS
<1> USE DEF controls
<1>t. /\ piece \in [Pieces -> PieceType] /\ quiet \subseteq Pieces
      /\ loop \in LoopType
      /\ loop.pc \in Written => loop.piece \in Pieces
      /\ edit \in [Editors -> {NoEdit} \cup [op : {"approve", "archive"}, piece : Pieces]]
  BY DEF TypeOK, Written
\* The loop writes only the piece in hand, and takes up none but new ones.
<1>1. ASSUME edit' = edit, quiet' = quiet, loop'.piece \in {loop.piece, None},
             \A p \in Pieces \ {loop.piece} : piece'[p] = piece[p]
      PROVE  QuietInv'
  BY <1>1, <1>t DEF QuietInv
<1>2. ASSUME NEW p \in Pieces, CreatePiece(p) PROVE QuietInv'
  <2>1. p \notin quiet
    BY <1>2 DEF CreatePiece, NoPiece, QuietInv
  <2>2. loop'.piece = p
    BY <1>2, <1>t DEF CreatePiece, LoopType
  <2>. QED BY <1>2, <1>t, <2>1, <2>2 DEF CreatePiece, QuietInv
<1>3. CASE loop' = loop /\ piece' = piece /\ edit' = edit /\ quiet' = quiet
  BY <1>3 DEF QuietInv
<1>4. ASSUME NEW e \in Editors, NEW op \in {"approve", "archive"}, NEW p \in Pieces,
             BeginEdit(e, op, p)
      PROVE  QuietInv'
  <2>1. p \notin quiet
    BY <1>4 DEF BeginEdit, QuietInv, CanTransition, Transitions
  <2>2. \A d \in Editors : edit'[d] = edit[d] \/ edit'[d].piece = p
    BY <1>4, <1>t DEF BeginEdit
  <2>. QED BY <1>4, <2>1, <2>2 DEF BeginEdit, QuietInv
<1>5. ASSUME NEW e \in Editors, FinishEdit(e) PROVE QuietInv'
  <2> DEFINE p == edit[e].piece
  <2>1. p \in Pieces /\ edit[e] # NoEdit /\ p \notin quiet
    BY <1>5, <1>t DEF FinishEdit, QuietInv
  <2>2. /\ \A q \in Pieces \ {p} : piece'[q] = piece[q]
        /\ edit[e].op = "archive" => piece'[p].status = "ARCHIVED"
    BY <1>5, <1>t, <2>1 DEF FinishEdit, SetPiece, PieceType, Target
  <2>3. edit'[e] = NoEdit /\ \A d \in Editors \ {e} : edit'[d] = edit[d]
    BY <1>5, <1>t DEF FinishEdit
  <2>4. quiet' = IF edit[e].op = "archive" /\ ~InHand(p, e) THEN quiet \cup {p} ELSE quiet
    BY <1>5 DEF FinishEdit
  <2>5. loop' = loop
    BY <1>5 DEF FinishEdit
  <2> HIDE DEF p
  <2>6. \A q \in quiet : /\ piece'[q].status = "ARCHIVED" /\ loop'.piece # q
                         /\ \A d \in Editors : edit'[d] # NoEdit => edit'[d].piece # q
    BY <1>t, <2>1, <2>2, <2>3, <2>5 DEF QuietInv
  <2>7. edit[e].op = "archive" /\ ~InHand(p, e) =>
          /\ piece'[p].status = "ARCHIVED" /\ loop'.piece # p
          /\ \A d \in Editors : edit'[d] # NoEdit => edit'[d].piece # p
    BY <2>2, <2>3, <2>5 DEF InHand
  <2>. QED BY <2>4, <2>6, <2>7 DEF QuietInv
<1>6. CASE DesignPiece \/ SubmitPiece \/ CreateRows \/ MarkScheduled
  <2>1. loop'.piece \in {loop.piece, None}
    BY <1>6, <1>t DEF DesignPiece, SubmitPiece, CreateRows, MarkScheduled, Onward, LoopType
  <2>2. \A p \in Pieces \ {loop.piece} : piece'[p] = piece[p]
    BY <1>6, <1>t DEF DesignPiece, SubmitPiece, CreateRows, MarkScheduled, SetPiece
  <2>. QED BY <1>1, <1>6, <2>1, <2>2 DEF DesignPiece, SubmitPiece, CreateRows, MarkScheduled
<1>7. ASSUME NEW safety \in SafetyVerdicts, NEW brand \in BrandVerdicts,
             NEW fails \in BOOLEAN, NEW dup \in BOOLEAN,
             JudgePiece(safety, brand, fails, dup)
      PROVE  QuietInv'
  <2>1. PICK a, s, h : /\ loop' = [loop EXCEPT !.pc = "use", !.approved = a]
                       /\ piece' = [piece EXCEPT ![loop.piece].status = s,
                                                 ![loop.piece].forHuman = h]
    BY <1>7, Zenon DEF JudgePiece
  <2>. QED BY <1>1, <1>7, <1>t, <2>1 DEF JudgePiece, LoopType
<1>8. ASSUME piece' = piece, edit' = edit, quiet' = quiet, loop'.piece \in {loop.piece, None}
      PROVE  QuietInv'
  BY <1>1, <1>8
<1>n. Onward(loop).piece = None /\ Asleep.piece = None
  BY <1>t DEF Onward, Asleep, LoopType
<1>9. CASE FailGeneration \/ LoseTail \/ TickEnd \/ Interrupt
  BY <1>8, <1>9, <1>n DEF FailGeneration, LoseTail, TickEnd, Interrupt
<1>10. CASE UseTopic \/ ReadForSchedule
  BY <1>8, <1>10, <1>t DEF UseTopic, ReadForSchedule, Onward, LoopType
<1>11. CASE (\E n \in Demands : TickStart(n)) \/ (\E b \in SUBSET Topics : PickSelected(b))
  <2>1. ASSUME NEW n \in Demands, TickStart(n) PROVE QuietInv'
    BY <1>8, <2>1 DEF TickStart, Asleep
  <2>2. ASSUME NEW b \in SUBSET Topics, PickSelected(b) PROVE QuietInv'
    <3>1. loop'.piece \in {loop.piece, None}
      BY <1>n, <1>t, <2>2 DEF PickSelected, LoopType
    <3>. QED BY <1>8, <2>2, <3>1 DEF PickSelected
  <2>. QED BY <1>11, <2>1, <2>2
<1>12. CASE \/ \E found \in SUBSET Topics : Scan(found)
            \/ \E strong, weak \in SUBSET Topics : ScoreTopics(strong, weak)
            \/ \E claims \in Findings : FinishResearch(claims)
            \/ FailResearch \/ LoseRejection
            \/ \E b \in SUBSET Topics, accounts \in BOOLEAN : ListResearched(b, accounts)
  BY <1>8, <1>12, <1>t
  DEF Scan, ScoreTopics, FinishResearch, FailResearch, LoseRejection, ListResearched, LoopType
<1>13. ASSUME NEW t \in Topics, StartResearch(t) \/ StartGeneration(t) PROVE QuietInv'
  <2>1. loop'.piece = loop.piece
    BY <1>13, <1>t DEF StartResearch, StartGeneration, LoopType
  <2>. QED BY <1>8, <1>13, <2>1 DEF StartResearch, StartGeneration
<1>14. CASE Controls
  BY <1>3, <1>14 DEF Controls, SetKillSwitch, SetAutonomousMode, SetAgent
<1>15. CASE UNCHANGED vars
  BY <1>3, <1>15 DEF vars
<1>. QED
  BY <1>2, <1>4, <1>5, <1>6, <1>7, <1>9, <1>10, <1>11, <1>12, <1>13, <1>14, <1>15
  DEF Next, Tick, Editing, Failing

\* A piece archived while nobody had it in hand stays archived, whatever the loop and
\* other editors do.
THEOREM QuietArchivesStand == Spec => []QuietArchiveIsFinal
<1>1. Init => QuietInv
  BY DEF Init, QuietInv
<1>2. QuietInv => QuietArchiveIsFinal
  BY DEF QuietInv, QuietArchiveIsFinal
<1>. QED BY <1>1, <1>2, QuietInductive, LoopAlways, PipelineTypeCorrect, PTL DEF Spec

-----------------------------------------------------------------------------

\* The topics that are RESEARCHING with nobody at work on them, each left so by a fault.
Orphans   == With("RESEARCHING") \ {loop.topic}
OrphanInv == IsFiniteSet(Orphans) /\ Cardinality(Orphans) <= faults

\* A step leaves no orphan if it moves nothing to RESEARCHING but the topic it takes up,
\* and lets go of none that is; a fault leaves one.
LEMMA OrphansStand ==
  ASSUME TypeOK, TypeOK', OrphanInv,
         \/ /\ faults' = faults
            /\ \A t \in Topics : topic'[t].status = "RESEARCHING" =>
                 \/ t = loop'.topic
                 \/ topic[t].status = "RESEARCHING" /\ t # loop.topic
         \/ faults' = faults + 1 /\ topic' = topic
  PROVE  OrphanInv'
<1>1. faults \in Nat /\ IsFiniteSet(Orphans) /\ Cardinality(Orphans) \in Nat
      /\ Cardinality(Orphans) <= faults
  BY FS_CardinalityType DEF TypeOK, OrphanInv
<1>2. CASE Orphans' \subseteq Orphans /\ faults' >= faults
  <2>1. IsFiniteSet(Orphans') /\ Cardinality(Orphans') <= Cardinality(Orphans)
    BY <1>1, <1>2, FS_Subset
  <2>2. Cardinality(Orphans') \in Nat /\ faults' \in Nat
    BY <2>1, FS_CardinalityType DEF TypeOK
  <2>. QED BY <1>1, <1>2, <2>1, <2>2 DEF OrphanInv
<1>3. CASE faults' = faults + 1 /\ topic' = topic
  <2>1. Orphans' \subseteq Orphans \cup {loop.topic}
    BY <1>3 DEF Orphans, With
  <2>2. /\ IsFiniteSet(Orphans \cup {loop.topic})
        /\ Cardinality(Orphans \cup {loop.topic}) <= Cardinality(Orphans) + 1
        /\ Cardinality(Orphans \cup {loop.topic}) \in Nat
    <3>1. loop.topic \notin Orphans
      BY DEF Orphans
    <3>2. Cardinality(Orphans \cup {loop.topic}) = Cardinality(Orphans) + 1
      BY <1>1, <3>1, FS_AddElement
    <3>. QED BY <1>1, <3>2, FS_AddElement
  <2>3. IsFiniteSet(Orphans') /\ Cardinality(Orphans') <= Cardinality(Orphans \cup {loop.topic})
    BY <2>1, <2>2, FS_Subset
  <2>4. Cardinality(Orphans') \in Nat
    BY <2>3, FS_CardinalityType
  <2>. QED BY <1>1, <1>3, <2>2, <2>3, <2>4 DEF OrphanInv
<1>4. CASE faults' = faults /\ ~(faults' = faults + 1 /\ topic' = topic)
  <2>1. Orphans' \subseteq Orphans
    BY <1>4, <1>1 DEF Orphans, With
  <2>. QED BY <1>1, <1>2, <1>4, <2>1
<1>. QED BY <1>1, <1>3, <1>4

\* Each step of the loop answers for the topic it lets go of.
LEMMA OrphansInductive ==
  PipeInv /\ TypeOK' /\ LoopInv /\ OrphanInv /\ [Next]_vars => OrphanInv'
<1> SUFFICES ASSUME PipeInv, TypeOK', LoopInv, OrphanInv, [Next]_vars PROVE OrphanInv'
  OBVIOUS
<1> USE DEF controls
<1>t. /\ TypeOK
      /\ topic \in [Topics -> [status : TopicStatus \cup {"ABSENT"},
                               claims : Findings \cup {NoClaims}]]
      /\ loop \in LoopType
  BY DEF PipeInv, TypeOK
<1>h. loop.pc \notin {"researching"} \cup Working \cup Ending => loop.topic = None
  BY DEF LoopInv, HandInv
<1>w. loop.pc \in Working \cup Ending =>
        loop.topic \in Topics /\ topic[loop.topic].status \in {"RESEARCHED", "USED"}
  BY DEF PipeInv, TickInv, TypeOK, Working, Ending
<1>r. loop.pc = "researching" =>
        loop.topic \in Topics /\ topic[loop.topic].status = "RESEARCHING"
  BY DEF PipeInv, TickInv, TypeOK
<1>n. Onward(loop).topic = None /\ Asleep.topic = None
  BY <1>t DEF Onward, Asleep, LoopType
\* Nothing in hand, or nothing let go of.
<1>1. ASSUME faults' = faults,
             \A t \in Topics : topic'[t].status = "RESEARCHING"
                                => topic[t].status = "RESEARCHING",
             loop'.topic = loop.topic \/ loop.pc # "researching"
      PROVE  OrphanInv'
  <2>1. ASSUME NEW t \in Topics, topic'[t].status = "RESEARCHING"
        PROVE  t = loop'.topic \/ (topic[t].status = "RESEARCHING" /\ t # loop.topic)
    BY <1>1, <1>h, <1>w, <2>1
  <2>. QED BY <1>1, <1>t, <2>1, OrphansStand
<1>2. ASSUME faults' = faults, topic' = topic,
             loop'.topic = loop.topic \/ loop.pc # "researching"
      PROVE  OrphanInv'
  BY <1>1, <1>2
\* The topic in research is stored, or rejected.
<1>3. CASE (\E claims \in Findings : FinishResearch(claims)) \/ FailResearch
  <2>1. \A t \in Topics : topic'[t].status = "RESEARCHING" =>
          topic[t].status = "RESEARCHING" /\ t # loop.topic
    <3>1. ASSUME NEW claims \in Findings, FinishResearch(claims)
          PROVE  /\ \A t \in Topics \ {loop.topic} : topic'[t] = topic[t]
                 /\ topic'[loop.topic].status \in {"REJECTED", "RESEARCHED"}
      BY <1>r, <1>t, <3>1 DEF FinishResearch
    <3>2. ASSUME FailResearch
          PROVE  /\ \A t \in Topics \ {loop.topic} : topic'[t] = topic[t]
                 /\ topic'[loop.topic].status = "REJECTED"
      BY <1>r, <1>t, <3>2 DEF FailResearch, SetStatus
    <3>. QED BY <1>3, <3>1, <3>2
  <2>2. faults' = faults
    BY <1>3 DEF FinishResearch, FailResearch
  <2>. QED BY <1>t, <2>1, <2>2, OrphansStand
<1>4. ASSUME NEW t \in Topics, StartResearch(t) PROVE OrphanInv'
  <2>1. CASE MayRun("researcher")
    <3>1. /\ loop' = [loop EXCEPT !.pc = "researching", !.topic = t, !.todo = @ \ {t}]
          /\ SetStatus({t}, "RESEARCHING") /\ faults' = faults /\ loop.pc = "research"
      BY <1>4, <2>1 DEF StartResearch
    <3>2. loop'.topic = t /\ loop.topic = None
      BY <1>t, <1>h, <3>1 DEF LoopType, Working, Ending
    <3>3. \A u \in Topics \ {t} : topic'[u] = topic[u]
      BY <1>t, <3>1 DEF SetStatus
    <3>. QED BY <1>t, <3>1, <3>2, <3>3, OrphansStand
  <2>2. CASE ~MayRun("researcher")
    <3>1. /\ loop' = [loop EXCEPT !.todo = @ \ {t}]
          /\ SetStatus({t}, "REJECTED") /\ faults' = faults
      BY <1>4, <2>2 DEF StartResearch
    <3>2. loop'.topic = loop.topic
      BY <1>t, <3>1 DEF LoopType
    <3>3. \A u \in Topics : topic'[u].status = "RESEARCHING" => topic[u].status = "RESEARCHING"
      BY <1>t, <3>1 DEF SetStatus
    <3>. QED BY <1>1, <3>1, <3>2, <3>3
  <2>. QED BY <2>1, <2>2
<1>5. ASSUME NEW found \in SUBSET Topics, Scan(found) PROVE OrphanInv'
  <2>1. \A u \in Topics : topic'[u].status = "RESEARCHING" => topic[u].status = "RESEARCHING"
    BY <1>5, <1>t DEF Scan, SetStatus
  <2>. QED BY <1>1, <1>5, <2>1 DEF Scan
<1>6. ASSUME NEW strong \in SUBSET Topics, NEW weak \in SUBSET Topics,
             ScoreTopics(strong, weak)
      PROVE OrphanInv'
  <2>1. \A u \in Topics : topic'[u].status = "RESEARCHING" => topic[u].status = "RESEARCHING"
    BY <1>6, <1>t DEF ScoreTopics
  <2>. QED BY <1>1, <1>6, <2>1 DEF ScoreTopics
<1>7. CASE UseTopic
  <2>1. \A u \in Topics : topic'[u].status = "RESEARCHING" => topic[u].status = "RESEARCHING"
    BY <1>7, <1>t DEF UseTopic, SetStatus
  <2>. QED BY <1>1, <1>7, <2>1 DEF UseTopic
<1>8. CASE Failing
  <2>1. faults' = faults + 1 /\ topic' = topic
    BY <1>8 DEF Failing, Interrupt, LoseRejection, LoseTail, Fault
  <2>. QED BY <1>t, <2>1, OrphansStand
<1>9. CASE \/ \E n \in Demands : TickStart(n)
           \/ \E b \in SUBSET Topics : PickSelected(b)
           \/ \E b \in SUBSET Topics, accounts \in BOOLEAN : ListResearched(b, accounts)
           \/ \E t \in Topics : StartGeneration(t)
           \/ \E p \in Pieces : CreatePiece(p)
           \/ DesignPiece \/ SubmitPiece \/ FailGeneration
           \/ ReadForSchedule \/ CreateRows \/ MarkScheduled \/ TickEnd
  BY <1>2, <1>9
  DEF TickStart, PickSelected, ListResearched, StartGeneration, CreatePiece, DesignPiece,
      SubmitPiece, FailGeneration, ReadForSchedule, CreateRows, MarkScheduled, TickEnd
<1>10. ASSUME NEW safety \in SafetyVerdicts, NEW brand \in BrandVerdicts,
              NEW fails \in BOOLEAN, NEW dup \in BOOLEAN,
              JudgePiece(safety, brand, fails, dup)
       PROVE OrphanInv'
  BY <1>2, <1>10 DEF JudgePiece
<1>11. CASE Controls \/ Editing \/ UNCHANGED vars
  BY <1>2, <1>11
  DEF Controls, Editing, SetKillSwitch, SetAutonomousMode, SetAgent, BeginEdit, FinishEdit,
      vars
<1>. QED
  BY <1>3, <1>4, <1>5, <1>6, <1>7, <1>8, <1>9, <1>10, <1>11 DEF Next, Tick

\* Each error of a topic's research is answered: there are never more topics left
\* RESEARCHING than there were faults, for any number of topics and ticks.
THEOREM ResearchErrorsAreAnswered == Spec => []ResearchIsAnswered
<1>1. Init => OrphanInv
  <2> SUFFICES ASSUME Init PROVE OrphanInv
    OBVIOUS
  <2>1. Orphans = {}
    BY DEF Init, Orphans, With, NoTopic
  <2>. QED BY <2>1, FS_EmptySet DEF Init, OrphanInv
<1>2. OrphanInv => ResearchIsAnswered
  BY DEF OrphanInv, Orphans, ResearchIsAnswered
<1>. QED
  BY <1>1, <1>2, OrphansInductive, PipeAlways, LoopAlways, PipelineTypeCorrect, PTL DEF Spec
=============================================================================
