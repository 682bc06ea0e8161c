-------------------------- MODULE PublishingProofs --------------------------
EXTENDS Publishing, FiniteSetTheorems, TLAPS

\* An executor that moves to another label of execute is still well formed.
LEMMA GotoType ==
  ASSUME ExecOK, NEW w \in Workers, NEW label \in PC, exec[w].pc # "idle",
         Goto(w, label)
  PROVE  ExecOK'
BY DEF ExecOK, Goto

\* An executor that throws inside the try is still well formed.
LEMMA ThrowType ==
  ASSUME ExecOK, NEW w \in Workers, exec[w].pc # "idle",
         NEW kind \in {"retryable", "permanent", "auth"}, Throw(w, kind)
  PROVE  ExecOK'
<1>1. exec' \in [Workers -> [pc : PC, job : Jobs \cup {None}, fit : BOOLEAN,
                             err : {"none", "retryable", "permanent", "auth"}]]
  <2>1. "catchJob" \in PC
    BY DEF PC
  <2>. QED BY <2>1 DEF ExecOK, Throw
<1>2. \A v \in Workers : /\ exec'[v].job = exec[v].job
                         /\ exec'[v].pc # "idle" => exec[v].pc # "idle"
  BY DEF ExecOK, Throw
<1> QED
  BY <1>1, <1>2 DEF ExecOK

\* An executor that is done is idle, and BullMQ's entry is as it was or the new one.
LEMMA FinishType ==
  ASSUME TypeOK, NEW w \in Workers, exec[w].pc # "idle", NEW entry \in TimerEntry,
         Finish(w, entry)
  PROVE  ExecOK' /\ timer' \in [Jobs -> TimerEntry]
<1>1. timer' \in [Jobs -> TimerEntry]
  BY DEF TypeOK, ExecOK, Finish
<1>2. ExecOK'
  BY DEF TypeOK, ExecOK, Finish, Idle, PC
<1> QED
  BY <1>1, <1>2

\* A set of executors with a job is a set of calls, finite as they are, and no larger.
LEMMA CallsAreFinite ==
  ASSUME TypeOK, NEW sent \in SUBSET Workers,
         \A w \in sent : exec[w].job \in Jobs
  PROVE  /\ {CallOf(w) : w \in sent} \subseteq Call
         /\ IsFiniteSet({CallOf(w) : w \in sent})
         /\ IsFiniteSet(sent)
         /\ Cardinality({CallOf(w) : w \in sent}) <= Cardinality(sent)
<1>1. IsFiniteSet(sent)
  BY WorkersAssumption, FS_Subset
<1>2. \A w \in sent : CallOf(w) \in Call
  BY DEF CallOf, Call, TypeOK
<1> DEFINE calls == {CallOf(w) : w \in sent}
<1>3. [w \in sent |-> CallOf(w)] \in Surjection(sent, calls)
  BY DEF Surjection
<1>4. IsFiniteSet(calls) /\ Cardinality(calls) <= Cardinality(sent)
  BY <1>1, <1>3, FS_Surjection
<1>. QED BY <1>1, <1>2, <1>4

\* Executors in flight can be counted.
LEMMA InFlightIsFinite ==
  IsFiniteSet(InFlight) /\ Cardinality(InFlight) \in Nat
<1>1. InFlight \subseteq Workers
  BY DEF InFlight
<1>. QED BY <1>1, WorkersAssumption, FS_Subset, FS_CardinalityType

\* Every step keeps the shape of the rows, timers, executors and calls.
LEMMA TypeCorrectStep == TypeOK /\ [Next]_vars => TypeOK'
<1> SUFFICES ASSUME TypeOK, [Next]_vars PROVE TypeOK'
  OBVIOUS
<1> USE NoneAssumption DEF TypeOK
<1>1. CASE Tick
  BY <1>1, BoundAssumption DEF Tick, Times, ExecOK
<1>2. ASSUME NEW c \in Clients, ApiCall(c) PROVE TypeOK'
  <2>1. ASSUME NEW p \in Pieces, NEW as \in SUBSET Accounts, NEW dated \in BOOLEAN,
               NEW when \in Times, ScheduleRead(c, p, as, dated, when)
        PROVE  TypeOK'
    BY <2>1 DEF ScheduleRead, ScheduleCall, ExecOK
  <2>2. ASSUME NEW a \in Accounts, ScheduleUpsert(c, a) PROVE TypeOK'
    <3> DEFINE call == req[c]
               j == <<call.piece, a, StampOf(call)>>
    <3>1. call \in ScheduleCall
      BY <2>2 DEF ScheduleUpsert, StatusCall, NoCall
    <3>2. j \in Jobs
      BY <3>1 DEF StampOf, ScheduleCall, Jobs
    <3>3. NewRow(call, a) \in [status : JobStatus \cup {"ABSENT"}, delegated : BOOLEAN,
                               attempts : Nat]
      BY <3>1 DEF NewRow, ScheduleCall, JobStatus
    <3>4. row' \in [Jobs -> [status : JobStatus \cup {"ABSENT"}, delegated : BOOLEAN,
                             attempts : Nat]]
      BY <2>2, <3>2, <3>3 DEF ScheduleUpsert
    <3>5. req' \in [Clients -> {NoCall} \cup ScheduleCall \cup StatusCall]
      <4>1. [call EXCEPT !.todo = @ \ {a}] \in ScheduleCall
        BY <3>1 DEF ScheduleCall
      <4> QED
        BY <2>2, <4>1 DEF ScheduleUpsert
    <3> QED
      BY <2>2, <3>4, <3>5 DEF ScheduleUpsert, ExecOK
  <2>3. CASE ScheduleFinish(c)
    BY <2>3 DEF ScheduleFinish, ScheduleCall, StatusCall, NoCall, ContentStatus, ExecOK
  <2>4. ASSUME NEW p \in Pieces, ApproveRead(c, p) \/ ArchiveRead(c, p) PROVE TypeOK'
    <3>1. PICK op \in {"approve", "archive"}, to \in {"APPROVED", "ARCHIVED"} :
                 StatusRead(c, p, op, to)
      BY <2>4 DEF ApproveRead, ArchiveRead
    <3>2. req' \in [Clients -> {NoCall} \cup ScheduleCall \cup StatusCall]
      BY <3>1 DEF StatusRead, StatusCall
    <3>. QED BY <3>1, <3>2 DEF StatusRead, ExecOK
  <2>5. CASE ApproveWrite(c)
    BY <2>5 DEF ApproveWrite, ScheduleCall, StatusCall, NoCall, ContentStatus, ExecOK
  <2>6. CASE ArchiveWrite(c)
    BY <2>6 DEF ArchiveWrite, ScheduleCall, StatusCall, NoCall, ContentStatus, ExecOK
  <2>7. CASE CallAborts(c)
    BY <2>7 DEF CallAborts, Fault, NoCall, ExecOK
  <2>8. CASE \E q \in Pieces, as \in SUBSET Accounts :
               \/ ScheduleRead(c, q, as, FALSE, 0)
               \/ \E when \in Times : ScheduleRead(c, q, as, TRUE, when)
    <3>1. 0 \in Times
      BY BoundAssumption DEF Times
    <3> QED
      BY <2>1, <2>8, <3>1
  <2> QED
    BY <1>2, <2>2, <2>3, <2>4, <2>5, <2>6, <2>7, <2>8 DEF ApiCall
<1>3. CASE ClearQueue
  BY <1>3 DEF ClearQueue, JobStatus, ExecOK
<1>4. ASSUME NEW s \in StopControls, Engage(s) \/ Release(s) PROVE TypeOK'
  <2>1. Cardinality(InFlight) + Cardinality(lost) \in Nat
    <3>1. Cardinality(lost) \in Nat
      BY FS_CardinalityType
    <3>. QED BY <3>1, InFlightIsFinite
  <2>2. CASE Engage(s)
    <3>1. owed' \in Nat
      BY <2>1, <2>2 DEF Engage
    <3>. QED BY <2>2, <3>1 DEF Engage, ExecOK
  <2>3. CASE Release(s)
    BY <2>3 DEF Release, ExecOK
  <2>. QED BY <1>4, <2>2, <2>3
<1>5. ASSUME NEW a \in Accounts, Reconnect(a) PROVE TypeOK'
  BY <1>5 DEF Reconnect, ExecOK
<1>6. CASE Redis
  <2>1. CASE ReconcileRead
    BY <2>1 DEF ReconcileRead, Armable, ExecOK
  <2>2. ASSUME NEW j \in Jobs, ReconcileAdd(j) PROVE TypeOK'
    BY <2>2 DEF ReconcileAdd, NoTimer, TimerEntry, ExecOK
  <2>3. ASSUME NEW j \in Jobs, HandBack(j), faults' \in Nat PROVE TypeOK'
    BY <2>3 DEF HandBack, TimerEntry
  <2>4. ASSUME NEW w \in Workers, NEW j \in Jobs, Take(w, j) PROVE TypeOK'
    <3>1. timer' \in [Jobs -> TimerEntry]
      BY <2>4 DEF Take, TimerEntry
    <3>2. ExecOK'
      BY <2>4 DEF Take, ExecOK, Idle, PC
    <3> QED
      BY <2>4, <3>1, <3>2 DEF Take
  <2>5. CASE RedisWipe
    BY <2>5 DEF RedisWipe, Fault, NoTimer, TimerEntry, ExecOK
  <2> QED
    BY <1>6, <2>1, <2>2, <2>3, <2>4, <2>5 DEF Redis, Stall, LockLost, Fault
<1>7. CASE Worker
  <2>1. CASE WorkerCrash
    <3>1. PICK sent \in SUBSET {w \in Workers : exec[w].pc = "send"} :
            lost' = lost \cup {CallOf(w) : w \in sent}
      BY <2>1 DEF WorkerCrash
    <3>2. lost' \subseteq Call /\ IsFiniteSet(lost')
      <4>1. sent \in SUBSET Workers /\ \A w \in sent : exec[w].job \in Jobs
        BY DEF ExecOK
      <4>. QED BY <3>1, <4>1, CallsAreFinite, FS_Union
    <3>3. ExecOK'
      BY <2>1 DEF WorkerCrash, ExecOK, Idle, PC
    <3>. QED BY <2>1, <3>2, <3>3 DEF WorkerCrash, Booted, Fault
  <2>2. CASE Restart
    BY <2>2 DEF Restart, Booted, ExecOK
  <2>. QED BY <1>7, <2>1, <2>2 DEF Worker
<1>8. ASSUME NEW w \in Workers, Execution(w) PROVE TypeOK'
  <2>0. exec[w].pc # "idle" /\ exec[w].job \in Jobs
    BY <1>8 DEF Execution, Step, Read, Gate, MarkJob, MarkPiece, Prepare,
                SendAccepted, SendAnswerLost, SendRejected, PostAppears, RecordJob,
                RecordPiece, Complete, CatchJob, CatchPiece, CatchAccount, Fail,
                DatabaseError, ExecOK
  <2>1. CASE Read(w)
    <3>1. CASE row[exec[w].job].status \in {"PUBLISHED", "CANCELLED"}
      BY <2>0, <2>1, <3>1, GotoType DEF Read, PC
    <3>2. CASE row[exec[w].job].status \notin {"PUBLISHED", "CANCELLED"}
      <4>0. PICK fit \in BOOLEAN : fit = IsPublishable(piece[PieceOf(exec[w].job)])
        BY DEF IsPublishable
      <4>1. exec' = [exec EXCEPT ![w] = [@ EXCEPT !.pc = "gate", !.fit = fit]]
        BY <2>1, <3>2, <4>0, Zenon DEF Read
      <4>2. ExecOK'
        <5> DEFINE R == [pc : PC, job : Jobs \cup {None}, fit : BOOLEAN,
                         err : {"none", "retryable", "permanent", "auth"}]
                   r == [exec[w] EXCEPT !.pc = "gate", !.fit = fit]
        <5>1. r \in R
          <6>1. exec[w] \in R /\ "gate" \in PC
            BY DEF ExecOK, PC
          <6>. QED BY <4>0, <6>1
        <5>2. r.job \in Jobs
          BY <2>0 DEF ExecOK
        <5>3. exec' = [exec EXCEPT ![w] = r]
          BY <4>1
        <5> HIDE DEF r
        <5>4. /\ exec' \in [Workers -> R]
              /\ \A v \in Workers : exec'[v] = IF v = w THEN r ELSE exec[v]
          BY <5>1, <5>3 DEF ExecOK
        <5> QED
          BY <5>2, <5>4 DEF ExecOK
      <4> QED
        BY <2>1, <4>2 DEF Read
    <3> QED
      BY <3>1, <3>2
  <2>2. CASE Gate(w)
    <3>1. ExecOK'
      BY <2>0, <2>2, GotoType DEF Gate, PC
    <3> QED
      BY <2>2, <3>1 DEF Gate
  <2>3. CASE MarkJob(w)
    BY <2>0, <2>3, GotoType DEF MarkJob, PC, JobStatus
  <2>4. CASE MarkPiece(w)
    BY <2>0, <2>4, GotoType DEF MarkPiece, SetPiece, PieceOf, Jobs, PC, ContentStatus
  <2>5. CASE Prepare(w)
    <3>1. ExecOK'
      BY <2>0, <2>5, GotoType, ThrowType, SubsetAssumption DEF Prepare, PC
    <3> QED
      BY <2>5, <3>1 DEF Prepare
  <2>6. CASE SendAccepted(w)
    <3>1. ExecOK'
      BY <2>0, <2>6, GotoType DEF SendAccepted, PC
    <3>. QED BY <2>0, <2>6, <3>1 DEF SendAccepted, PostAppears
  <2>7. CASE SendAnswerLost(w)
    <3>1. ExecOK'
      BY <2>0, <2>7, ThrowType DEF SendAnswerLost
    <3>2. lost' = lost \cup {CallOf(w)}
      BY <2>7 DEF SendAnswerLost
    <3>3. lost' \subseteq Call
      BY <2>0, <3>2 DEF CallOf, Call
    <3>4. IsFiniteSet(lost')
      BY <3>2, FS_AddElement
    <3>. QED BY <2>7, <3>1, <3>3, <3>4 DEF SendAnswerLost, Fault
  <2>8. CASE SendRejected(w)
    <3>1. ExecOK'
      BY <2>0, <2>8, ThrowType, SubsetAssumption DEF SendRejected
    <3> QED
      BY <2>8, <3>1 DEF SendRejected
  <2>9. CASE RecordJob(w)
    BY <2>0, <2>9, GotoType DEF RecordJob, SetStatus, PC, JobStatus
  <2>10. CASE RecordPiece(w)
    BY <2>0, <2>10, GotoType DEF RecordPiece, SetPiece, PieceOf, Jobs, PC, ContentStatus
  <2>11. CASE Complete(w)
    <3>1. [timer[exec[w].job] EXCEPT !.state = "completed", !.holder = None] \in TimerEntry
      BY <2>0 DEF TimerEntry
    <3>2. ExecOK' /\ timer' \in [Jobs -> TimerEntry]
      BY <2>0, <2>11, <3>1, FinishType DEF Complete
    <3> QED
      BY <2>11, <3>2 DEF Complete
  <2>12. CASE CatchJob(w)
    <3>1. ExecOK'
      BY <2>0, <2>12, GotoType DEF CatchJob, PC
    <3> QED
      BY <2>0, <2>12, <3>1 DEF CatchJob, SetStatus, JobStatus
  <2>13. CASE CatchPiece(w)
    <3>1. ExecOK'
      BY <2>0, <2>13, GotoType DEF CatchPiece, PC
    <3> QED
      BY <2>0, <2>13, <3>1 DEF CatchPiece, SetPiece, PieceOf, Jobs, ContentStatus
  <2>14. CASE CatchAccount(w)
    BY <2>0, <2>14, GotoType DEF CatchAccount, AccountOf, Jobs, PC
  <2>15. CASE Fail(w)
    <3> DEFINE t == timer[exec[w].job]
               entry == [state  |-> IF t.made + 1 < PublishAttempts
                                    THEN "waiting" ELSE "failed",
                         made   |-> t.made + 1,
                         stalls |-> t.stalls,
                         holder |-> None]
    <3>1. entry \in TimerEntry
      <4>1. t.made + 1 \in Nat /\ t.stalls \in Nat
        BY <2>0 DEF TimerEntry
      <4> QED
        BY <4>1 DEF TimerEntry
    <3>2. ExecOK' /\ timer' \in [Jobs -> TimerEntry]
      BY <2>0, <2>15, <3>1, FinishType DEF Fail
    <3> QED
      BY <2>15, <3>2 DEF Fail
  <2>16. CASE DatabaseError(w)
    <3>1. ExecOK' /\ faults' \in Nat
      BY <2>0, <2>16, GotoType, ThrowType DEF DatabaseError, Fault, PC
    <3> QED
      BY <2>16, <3>1 DEF DatabaseError
  <2> QED
    BY <1>8, <2>1, <2>2, <2>3, <2>4, <2>5, <2>6, <2>7, <2>8, <2>9, <2>10, <2>11,
       <2>12, <2>13, <2>14, <2>15, <2>16 DEF Execution, Step
<1>9. CASE Analytics
  <2>1. CASE CollectRead
    BY <2>1 DEF CollectRead, ExecOK
  <2>2. ASSUME NEW j \in Jobs, Collect(j) PROVE TypeOK'
    BY <2>2 DEF Collect, PieceOf, Jobs, ContentStatus, ExecOK
  <2>3. ASSUME NEW j \in Jobs, CollectFails(j) PROVE TypeOK'
    BY <2>3 DEF CollectFails, AccountOf, Jobs, ExecOK
  <2> QED
    BY <1>9, <2>1, <2>2, <2>3 DEF Analytics
<1>10. ASSUME NEW call \in lost, PostAppearsLate(call) PROVE TypeOK'
  <2>1. lost' \subseteq Call /\ IsFiniteSet(lost')
    BY <1>10, FS_RemoveElement DEF PostAppearsLate
  <2>2. posts' \in [Jobs -> Nat] /\ leak' \in Nat
    BY <1>10 DEF PostAppearsLate, PostAppears, Call
  <2>. QED BY <1>10, <2>1, <2>2 DEF PostAppearsLate, ExecOK
<1>11. CASE UNCHANGED vars
  BY <1>11 DEF vars, ExecOK
<1> QED
  BY <1>1, <1>2, <1>3, <1>4, <1>5, <1>6, <1>7, <1>8, <1>9, <1>10, <1>11 DEF Next, Platforms

\* The rows, timers, executors and calls keep their shape in every run of the system.
THEOREM TypeCorrect == Spec => []TypeOK
<1>1. Init => TypeOK
  BY NoneAssumption, BoundAssumption, FS_EmptySet
     DEF Init, TypeOK, ExecOK, TimerEntry, Times, Absent, NoTimer, Idle, NoCall,
         ContentStatus, PC
<1> QED
  BY <1>1, TypeCorrectStep, PTL DEF Spec

-----------------------------------------------------------------------------

\* A row that exists, or that BullMQ, the reconciler or a platform knows of.
Known(j) ==
  \/ row[j].status # "ABSENT"
  \/ j \in arming
  \/ timer[j].state # "none"
  \/ posts[j] > 0
  \/ \E call \in lost : call.job = j

\* Whatever leads to a post belongs to a piece that was approved.
ApprovalInv ==
  /\ \A p \in Pieces : IsPublishable(piece[p]) => p \in approved
  /\ \A c \in Clients : req[c].op = "schedule" => req[c].piece \in approved
  /\ \A j \in Jobs : Known(j) => PieceOf(j) \in approved
  /\ \A w \in Workers : exec[w].pc # "idle" => PieceOf(exec[w].job) \in approved

\* Moving to a label, or throwing, changes neither an executor's job nor another executor.
LEMMA Moves ==
  ASSUME TypeOK, NEW w \in Workers, NEW label, Goto(w, label) \/ Throw(w, label)
  PROVE  /\ Goto(w, label) => exec'[w].pc = label
         /\ Throw(w, label) => exec'[w].pc = "catchJob"
         /\ exec'[w].job = exec[w].job
         /\ \A v \in Workers \ {w} : exec'[v] = exec[v]
<1>1. exec \in [Workers -> [pc : PC, job : Jobs \cup {None}, fit : BOOLEAN,
                            err : {"none", "retryable", "permanent", "auth"}]]
  BY DEF TypeOK, ExecOK
<1>2. CASE Goto(w, label)
  BY <1>1, <1>2 DEF Goto, Throw
<1>3. CASE Throw(w, label)
  BY <1>1, <1>3 DEF Throw, Goto
<1> QED
  BY <1>2, <1>3

\* The first read leads to the stop check, or to the end for a row that is over.
LEMMA ReadLeads ==
  ASSUME TypeOK, NEW w \in Workers, Read(w)
  PROVE  /\ exec[w].pc = "read" /\ exec'[w].pc \in {"gate", "fail"}
         /\ row[exec[w].job].status \in {"PUBLISHED", "CANCELLED"} <=> exec'[w].pc = "fail"
         /\ exec'[w].job = exec[w].job
         /\ \A v \in Workers \ {w} : exec'[v] = exec[v]
<1>1. exec \in [Workers -> [pc : PC, job : Jobs \cup {None}, fit : BOOLEAN,
                            err : {"none", "retryable", "permanent", "auth"}]]
  BY DEF TypeOK, ExecOK
<1>2. exec[w].pc = "read"
  BY DEF Read
<1>3. CASE row[exec[w].job].status \in {"PUBLISHED", "CANCELLED"}
  <2>1. exec' = [exec EXCEPT ![w].pc = "fail"]
    BY <1>3 DEF Read, Goto
  <2> QED
    BY <1>1, <1>2, <1>3, <2>1
<1>4. CASE row[exec[w].job].status \notin {"PUBLISHED", "CANCELLED"}
  <2>1. PICK fit : fit = IsPublishable(piece[PieceOf(exec[w].job)])
    OBVIOUS
  <2>2. exec' = [exec EXCEPT ![w] = [@ EXCEPT !.pc = "gate", !.fit = fit]]
    BY <1>4, <2>1, Zenon DEF Read
  <2> QED
    BY <1>1, <1>2, <1>4, <2>2
<1> QED
  BY <1>3, <1>4

\* An executor keeps its job, and writes no row, timer or post but that job's and
\* no piece but that job's.
LEMMA ExecutionFrame ==
  ASSUME TypeOK, NEW w \in Workers, Execution(w)
  PROVE  /\ exec[w].pc # "idle"
         /\ exec[w].job \in Jobs
         /\ \A v \in Workers \ {w} : exec'[v] = exec[v]
         /\ exec'[w].pc # "idle" => exec'[w].job = exec[w].job
         /\ \A j \in Jobs \ {exec[w].job} :
              row'[j] = row[j] /\ timer'[j] = timer[j] /\ posts'[j] = posts[j]
         /\ \A p \in Pieces \ {PieceOf(exec[w].job)} : piece'[p] = piece[p]
         /\ lost \subseteq lost' /\ \A call \in lost' \ lost : call.job = exec[w].job
         /\ UNCHANGED <<now, arming, collecting, wakeups, stopped, req, approved, quiet>>
<1> USE DEF TypeOK, ExecOK
<1>1. CASE Read(w)
  <2>1. UNCHANGED <<now, piece, row, timer, arming, collecting, wakeups, posts, lost, stopped,
                    req, approved, quiet>>
    BY <1>1 DEF Read
  <2> QED
    BY <1>1, <2>1, ReadLeads
<1>2. CASE Gate(w)            BY <1>2 DEF Gate, Goto
<1>3. CASE MarkJob(w)         BY <1>3 DEF MarkJob, Goto
<1>4. CASE MarkPiece(w)       BY <1>4 DEF MarkPiece, Goto, SetPiece
<1>5. CASE Prepare(w)
  <2>1. /\ exec[w].pc = "prepare" /\ exec'[w].job = exec[w].job
        /\ \A v \in Workers \ {w} : exec'[v] = exec[v]
    BY <1>5, Moves DEF Prepare
  <2>2. UNCHANGED <<now, piece, row, timer, arming, collecting, wakeups, posts, lost, stopped,
                    req, approved, quiet>>
    BY <1>5 DEF Prepare
  <2> QED
    BY <2>1, <2>2
<1>6. CASE SendAccepted(w)    BY <1>6 DEF SendAccepted, PostAppears, Goto
<1>7. CASE SendAnswerLost(w)  BY <1>7 DEF SendAnswerLost, CallOf, Throw
<1>8. CASE SendRejected(w)    BY <1>8 DEF SendRejected, Throw
<1>9. CASE RecordJob(w)       BY <1>9 DEF RecordJob, Goto, SetStatus
<1>10. CASE RecordPiece(w)    BY <1>10 DEF RecordPiece, Goto, SetPiece
<1>11. CASE Complete(w)       BY <1>11 DEF Complete, Finish, Idle
<1>12. CASE CatchJob(w)       BY <1>12 DEF CatchJob, Goto, SetStatus
<1>13. CASE CatchPiece(w)     BY <1>13 DEF CatchPiece, Goto, SetPiece
<1>14. CASE CatchAccount(w)   BY <1>14 DEF CatchAccount, Goto
<1>15. CASE Fail(w)           BY <1>15 DEF Fail, Finish, Idle
<1>16. CASE DatabaseError(w)
  <2>1. exec[w].pc # "idle"
    BY <1>16 DEF DatabaseError
  <2>2. exec'[w].job = exec[w].job /\ \A v \in Workers \ {w} : exec'[v] = exec[v]
    BY <1>16, Moves DEF DatabaseError
  <2>3. UNCHANGED <<now, piece, row, timer, arming, collecting, wakeups, posts, lost, stopped,
                    req, approved, quiet>>
    BY <1>16 DEF DatabaseError
  <2> QED
    BY <2>1, <2>2, <2>3
<1> QED
  BY <1>1, <1>2, <1>3, <1>4, <1>5, <1>6, <1>7, <1>8, <1>9, <1>10, <1>11, <1>12,
     <1>13, <1>14, <1>15, <1>16 DEF Execution, Step

\* A row, timer, executor or call is entered only from what is approved already.
LEMMA ApprovalInductive == TypeOK /\ ApprovalInv /\ [Next]_vars => ApprovalInv'
<1> SUFFICES ASSUME TypeOK, ApprovalInv, [Next]_vars PROVE ApprovalInv'
  OBVIOUS
<1> USE DEF TypeOK, ExecOK, ApprovalInv, Known
<1>1. CASE Tick
  BY <1>1 DEF Tick
<1>2. ASSUME NEW c \in Clients, ApiCall(c) PROVE ApprovalInv'
  <2>1. ASSUME NEW p \in Pieces, NEW as \in SUBSET Accounts, NEW dated \in BOOLEAN,
               NEW when, ScheduleRead(c, p, as, dated, when)
        PROVE  ApprovalInv'
    BY <2>1 DEF ScheduleRead
  <2>2. ASSUME NEW a \in Accounts, ScheduleUpsert(c, a) PROVE ApprovalInv'
    <3> DEFINE j == <<req[c].piece, a, StampOf(req[c])>>
    <3>1. PieceOf(j) = req[c].piece /\ PieceOf(j) \in approved
      BY <2>2 DEF ScheduleUpsert, PieceOf
    <3>2. \A i \in Jobs : i # j => row'[i] = row[i]
      BY <2>2 DEF ScheduleUpsert
    <3>3. \A d \in Clients : req'[d].op = req[d].op /\ req'[d].piece = req[d].piece
      BY <2>2 DEF ScheduleUpsert, ScheduleCall, StatusCall, NoCall
    <3>4. UNCHANGED <<piece, approved, arming, timer, posts, lost, exec>>
      BY <2>2 DEF ScheduleUpsert
    <3>5. \A i \in Jobs : Known(i)' => PieceOf(i) \in approved
      <4>1. ASSUME NEW i \in Jobs, i # j, Known(i)' PROVE Known(i)
        BY <3>2, <3>4, <4>1
      <4> HIDE DEF j, Known
      <4> QED
        BY <3>1, <4>1
    <3> HIDE DEF Known
    <3> QED
      BY <3>3, <3>4, <3>5
  <2>3. CASE ScheduleFinish(c)
    BY <2>3 DEF ScheduleFinish, NoCall
  <2>4. ASSUME NEW p \in Pieces, ApproveRead(c, p) \/ ArchiveRead(c, p)
        PROVE  ApprovalInv'
    BY <2>4 DEF ApproveRead, ArchiveRead, StatusRead
  <2>5. CASE ApproveWrite(c)
    BY <2>5 DEF ApproveWrite, NoCall
  <2>6. CASE ArchiveWrite(c)
    BY <2>6 DEF ArchiveWrite, NoCall, IsPublishable, NonPublishable
  <2>7. CASE CallAborts(c)
    BY <2>7 DEF CallAborts, NoCall
  <2> QED
    BY <1>2, <2>1, <2>2, <2>3, <2>4, <2>5, <2>6, <2>7 DEF ApiCall
<1>3. CASE ClearQueue
  BY <1>3 DEF ClearQueue, Waiting
<1>4. ASSUME NEW s \in StopControls, Engage(s) \/ Release(s) PROVE ApprovalInv'
  BY <1>4 DEF Engage, Release
<1>5. ASSUME NEW a \in Accounts, Reconnect(a) PROVE ApprovalInv'
  BY <1>5 DEF Reconnect
<1>6. CASE Redis
  <2>1. CASE ReconcileRead
    BY <2>1 DEF ReconcileRead, Armable, Waiting
  <2>2. ASSUME NEW j \in Jobs, ReconcileAdd(j) PROVE ApprovalInv'
    BY <2>2 DEF ReconcileAdd
  <2>3. ASSUME NEW j \in Jobs, HandBack(j) PROVE ApprovalInv'
    BY <2>3 DEF HandBack
  <2>4. ASSUME NEW w \in Workers, NEW j \in Jobs, Take(w, j) PROVE ApprovalInv'
    BY <2>4 DEF Take, Idle
  <2>5. CASE RedisWipe
    BY <2>5 DEF RedisWipe, NoTimer
  <2> QED
    BY <1>6, <2>1, <2>2, <2>3, <2>4, <2>5 DEF Redis, Stall, LockLost
<1>7. CASE Worker
  <2>1. CASE WorkerCrash
    <3>1. \A call \in lost' \ lost :
            \E w \in Workers : exec[w].pc # "idle" /\ call.job = exec[w].job
      BY <2>1 DEF WorkerCrash, CallOf
    <3>2. ASSUME NEW j \in Jobs, Known(j)' PROVE PieceOf(j) \in approved
      BY <2>1, <3>1, <3>2 DEF WorkerCrash
    <3>3. \A w \in Workers : exec'[w].pc = "idle"
      BY <2>1 DEF WorkerCrash, Idle
    <3> HIDE DEF Known
    <3>. QED BY <2>1, <3>2, <3>3 DEF WorkerCrash
  <2>2. CASE Restart
    BY <2>2 DEF Restart
  <2>. QED BY <1>7, <2>1, <2>2 DEF Worker
<1>8. ASSUME NEW w \in Workers, Execution(w) PROVE ApprovalInv'
  <2>1. PieceOf(exec[w].job) \in approved
    BY <1>8, ExecutionFrame
  <2>2. \A p \in Pieces : IsPublishable(piece'[p]) => p \in approved
    BY <1>8, <2>1, ExecutionFrame
  <2>3. \A j \in Jobs : Known(j)' => PieceOf(j) \in approved
    <3>1. ASSUME NEW j \in Jobs, j # exec[w].job, Known(j)' PROVE Known(j)
      BY <1>8, <3>1, ExecutionFrame
    <3> HIDE DEF Known
    <3> QED
      BY <2>1, <3>1
  <2>4. \A v \in Workers : exec'[v].pc # "idle" => PieceOf(exec'[v].job) \in approved
    BY <1>8, <2>1, ExecutionFrame
  <2>5. approved' = approved /\ req' = req
    BY <1>8, ExecutionFrame
  <2> HIDE DEF Known
  <2> QED
    BY <2>2, <2>3, <2>4, <2>5
<1>9. CASE Analytics
  <2>1. ASSUME NEW j \in Jobs, Collect(j) PROVE ApprovalInv'
    BY <2>1 DEF Collect, IsPublishable, NonPublishable
  <2> QED
    BY <1>9, <2>1 DEF Analytics, CollectRead, CollectFails
<1>10. ASSUME NEW call \in lost, PostAppearsLate(call) PROVE ApprovalInv'
  <2>1. ASSUME NEW j \in Jobs, Known(j)' PROVE Known(j)
    BY <1>10, <2>1 DEF PostAppearsLate, PostAppears
  <2> HIDE DEF Known
  <2>. QED BY <1>10, <2>1 DEF PostAppearsLate
<1>11. CASE UNCHANGED vars
  BY <1>11 DEF vars
<1> QED
  BY <1>1, <1>2, <1>3, <1>4, <1>5, <1>6, <1>7, <1>8, <1>9, <1>10, <1>11 DEF Next, Platforms

\* Nothing is posted that QA or an editor did not approve, however scheduling,
\* reviewing, reconciling and publishing interleave and whatever fails.
THEOREM OnlyApprovedIsPosted == Spec => []PostedOnlyIfApproved
<1>1. Init => ApprovalInv
  BY DEF Init, ApprovalInv, Known, IsPublishable, NonPublishable, NoCall, Absent, NoTimer, Idle
<1>2. ApprovalInv => PostedOnlyIfApproved
  BY DEF ApprovalInv, Known, PostedOnlyIfApproved
<1> QED
  BY <1>1, <1>2, ApprovalInductive, TypeCorrect, PTL DEF Spec

-----------------------------------------------------------------------------

\* On a quietly cancelled row, or on a quietly archived piece, executors can only
\* be where they are about to be refused, and no API call is under way.
QuietInv ==
  /\ \A j \in quiet \cap Jobs :
       /\ row[j].status = "CANCELLED"
       /\ \A w \in Workers :
            exec[w].job = j => exec[w].pc \in {"idle", "read", "fail"}
  /\ \A p \in quiet \cap Pieces :
       /\ piece[p] = "ARCHIVED"
       /\ \A c \in Clients : req[c] # NoCall => req[c].piece # p
       /\ \A w \in Workers :
            exec[w].pc # "idle" /\ PieceOf(exec[w].job) = p
              => \/ exec[w].pc \in {"read", "fail"}
                 \/ (exec[w].pc = "gate" /\ ~exec[w].fit)

\* An executor about to be refused because of its row writes nothing.
LEMMA CancelledIsRefused ==
  ASSUME TypeOK, NEW w \in Workers, Execution(w), exec[w].pc \in {"read", "fail"},
         row[exec[w].job].status = "CANCELLED"
  PROVE  row' = row /\ exec'[w].pc \in {"idle", "fail"}
<1> USE DEF TypeOK, ExecOK
<1>1. CASE Read(w)
  BY <1>1 DEF Read, Goto
<1>2. CASE Fail(w)
  BY <1>2 DEF Fail, Finish, Idle
<1>3. CASE DatabaseError(w)
  BY <1>3 DEF DatabaseError, Goto
<1> QED
  BY <1>1, <1>2, <1>3
     DEF Execution, Step, Gate, MarkJob, MarkPiece, Prepare, SendAccepted,
         SendAnswerLost, SendRejected, RecordJob, RecordPiece, Complete,
         CatchJob, CatchPiece, CatchAccount

\* An executor about to be refused because of its piece writes nothing.
LEMMA UnfitIsRefused ==
  ASSUME TypeOK, NEW w \in Workers, Execution(w),
         exec[w].pc \in {"read", "fail"} \/ (exec[w].pc = "gate" /\ ~exec[w].fit),
         piece[PieceOf(exec[w].job)] = "ARCHIVED"
  PROVE  /\ piece' = piece
         /\ exec'[w].pc \in {"idle", "fail"} \/ (exec'[w].pc = "gate" /\ ~exec'[w].fit)
<1> USE DEF TypeOK, ExecOK
<1>1. ~IsPublishable("ARCHIVED")
  BY DEF IsPublishable, NonPublishable
<1>2. CASE Read(w)
  <2>1. CASE row[exec[w].job].status \in {"PUBLISHED", "CANCELLED"}
    BY <1>2, <2>1 DEF Read, Goto
  <2>2. CASE row[exec[w].job].status \notin {"PUBLISHED", "CANCELLED"}
    <3>1. exec' = [exec EXCEPT ![w] =
                     [@ EXCEPT !.pc = "gate", !.fit = IsPublishable("ARCHIVED")]]
      BY <1>2, <2>2, Zenon DEF Read
    <3>2. IsPublishable("ARCHIVED") = FALSE
      BY <1>1 DEF IsPublishable
    <3>3. exec' = [exec EXCEPT ![w] = [@ EXCEPT !.pc = "gate", !.fit = FALSE]]
      BY <3>1, <3>2, Zenon
    <3> QED
      BY <1>2, <3>3 DEF Read
  <2> QED
    BY <2>1, <2>2
<1>3. CASE Gate(w)
  BY <1>3 DEF Gate, Goto
<1>4. CASE Fail(w)
  BY <1>4 DEF Fail, Finish, Idle
<1>5. CASE DatabaseError(w)
  BY <1>5 DEF DatabaseError, Goto, Throw
<1> QED
  BY <1>2, <1>3, <1>4, <1>5
     DEF Execution, Step, MarkJob, MarkPiece, Prepare, SendAccepted, SendAnswerLost,
         SendRejected, RecordJob, RecordPiece, Complete, CatchJob, CatchPiece, CatchAccount

\* No step takes an executor past the refusal of a quietly stopped row or piece.
LEMMA QuietInductive == TypeOK /\ QuietInv /\ [Next]_vars => QuietInv'
<1> SUFFICES ASSUME TypeOK, QuietInv, [Next]_vars PROVE QuietInv'
  OBVIOUS
<1> USE IdAssumption DEF TypeOK, ExecOK, QuietInv
<1>1. CASE Tick
  BY <1>1 DEF Tick
<1>2. ASSUME NEW c \in Clients, ApiCall(c) PROVE QuietInv'
  <2>1. ASSUME NEW p \in Pieces, NEW as \in SUBSET Accounts, NEW dated \in BOOLEAN,
               NEW when, ScheduleRead(c, p, as, dated, when)
        PROVE  QuietInv'
    <3>1. \A q \in quiet \cap Pieces : q # p
      BY <2>1 DEF ScheduleRead, IsPublishable, NonPublishable
    <3>2. \A d \in Clients : req'[d] # NoCall => req'[d].piece = p \/ req'[d] = req[d]
      BY <2>1 DEF ScheduleRead
    <3>3. UNCHANGED <<row, piece, exec, quiet>>
      BY <2>1 DEF ScheduleRead
    <3> QED
      BY <3>1, <3>2, <3>3
  <2>2. ASSUME NEW a \in Accounts, ScheduleUpsert(c, a) PROVE QuietInv'
    <3>1. \A j \in Jobs : row[j].status = "CANCELLED" => row'[j] = row[j]
      <4> DEFINE k == <<req[c].piece, a, StampOf(req[c])>>
      <4>1. Absent.status # "CANCELLED"
        BY DEF Absent
      <4>2. row' = IF row[k] = Absent THEN [row EXCEPT ![k] = NewRow(req[c], a)] ELSE row
        BY <2>2 DEF ScheduleUpsert
      <4> HIDE DEF k
      <4> QED
        BY <4>1, <4>2
    <3>2. req[c] # NoCall
      BY <2>2 DEF ScheduleUpsert, NoCall
    <3>3. \A d \in Clients : req'[d] # NoCall => req[d] # NoCall /\ req'[d].piece = req[d].piece
      BY <2>2, <3>2 DEF ScheduleUpsert, ScheduleCall, StatusCall
    <3>4. UNCHANGED <<piece, exec, quiet>>
      BY <2>2 DEF ScheduleUpsert
    <3> QED
      BY <3>1, <3>3, <3>4
  <2>3. CASE ScheduleFinish(c)
    BY <2>3 DEF ScheduleFinish, NoCall
  <2>4. ASSUME NEW p \in Pieces, ApproveRead(c, p) \/ ArchiveRead(c, p) PROVE QuietInv'
    BY <2>4 DEF ApproveRead, ArchiveRead, StatusRead, CanTransition, Transitions
  <2>5. CASE ApproveWrite(c)
    BY <2>5 DEF ApproveWrite, NoCall
  <2>6. CASE ArchiveWrite(c)
    <3>1. req[c] # NoCall
      BY <2>6 DEF ArchiveWrite, NoCall
    <3>2. CASE AtWorkOnPiece(req[c].piece, c)
      BY <2>6, <3>1, <3>2 DEF ArchiveWrite, NoCall
    <3>3. CASE ~AtWorkOnPiece(req[c].piece, c)
      <4> DEFINE p == req[c].piece
      <4>1. /\ quiet' = quiet \cup {p}
            /\ UNCHANGED <<row, exec>>
        BY <2>6, <3>3 DEF ArchiveWrite
      <4>2. p \in Pieces /\ piece'[p] = "ARCHIVED"
        BY <2>6, <3>1 DEF ArchiveWrite, ScheduleCall, StatusCall, NoCall
      <4>3. \A q \in Pieces : q # p => piece'[q] = piece[q]
        BY <2>6 DEF ArchiveWrite
      <4>4. \A d \in Clients : req'[d] # NoCall => req'[d] = req[d] /\ req[d].piece # p
        BY <2>6, <3>3 DEF ArchiveWrite, AtWorkOnPiece
      <4>5. \A w \in Workers : exec[w].pc # "idle" /\ PieceOf(exec[w].job) = p
                                => exec[w].pc = "read"
        BY <3>3 DEF AtWorkOnPiece, AtWorkOnJob
      <4> HIDE DEF p
      <4> QED
        BY <4>1, <4>2, <4>3, <4>4, <4>5
    <3> QED
      BY <3>2, <3>3
  <2>7. CASE CallAborts(c)
    BY <2>7 DEF CallAborts, NoCall
  <2> QED
    BY <1>2, <2>1, <2>2, <2>3, <2>4, <2>5, <2>6, <2>7 DEF ApiCall
<1>3. CASE ClearQueue
  BY <1>3 DEF ClearQueue, Waiting, AtWorkOnJob
<1>4. ASSUME NEW s \in StopControls, Engage(s) \/ Release(s) PROVE QuietInv'
  BY <1>4 DEF Engage, Release
<1>5. ASSUME NEW a \in Accounts, Reconnect(a) PROVE QuietInv'
  BY <1>5 DEF Reconnect
<1>6. CASE Redis
  <2>1. CASE ReconcileRead
    BY <2>1 DEF ReconcileRead
  <2>2. ASSUME NEW j \in Jobs, ReconcileAdd(j) PROVE QuietInv'
    BY <2>2 DEF ReconcileAdd
  <2>3. ASSUME NEW j \in Jobs, HandBack(j) PROVE QuietInv'
    BY <2>3 DEF HandBack
  <2>4. ASSUME NEW w \in Workers, NEW j \in Jobs, Take(w, j) PROVE QuietInv'
    BY <2>4 DEF Take, Idle
  <2>5. CASE RedisWipe
    BY <2>5 DEF RedisWipe
  <2> QED
    BY <1>6, <2>1, <2>2, <2>3, <2>4, <2>5 DEF Redis, Stall, LockLost
<1>7. CASE Worker
  <2>1. CASE WorkerCrash
    BY <2>1 DEF WorkerCrash, Idle
  <2>2. CASE Restart
    BY <2>2 DEF Restart
  <2>. QED BY <1>7, <2>1, <2>2 DEF Worker
<1>8. ASSUME NEW w \in Workers, Execution(w) PROVE QuietInv'
  <2>1. ASSUME NEW j \in quiet \cap Jobs
        PROVE  /\ row'[j].status = "CANCELLED"
               /\ \A v \in Workers :
                    exec'[v].job = j => exec'[v].pc \in {"idle", "read", "fail"}
    <3>1. CASE exec[w].job = j
      <4>1. exec[w].pc \in {"read", "fail"} /\ row[exec[w].job].status = "CANCELLED"
        BY <1>8, <3>1, ExecutionFrame
      <4>2. row' = row /\ exec'[w].pc \in {"idle", "fail"}
        BY <1>8, <4>1, CancelledIsRefused
      <4>3. \A v \in Workers \ {w} : exec'[v] = exec[v]
        BY <1>8, ExecutionFrame
      <4> QED
        BY <3>1, <4>1, <4>2, <4>3
    <3>2. CASE exec[w].job # j
      BY <1>8, <3>2, ExecutionFrame
    <3> QED
      BY <3>1, <3>2
  <2>2. ASSUME NEW p \in quiet \cap Pieces
        PROVE  /\ piece'[p] = "ARCHIVED"
               /\ \A v \in Workers :
                    exec'[v].pc # "idle" /\ PieceOf(exec'[v].job) = p
                      => \/ exec'[v].pc \in {"read", "fail"}
                         \/ exec'[v].pc = "gate" /\ ~exec'[v].fit
    <3>1. CASE PieceOf(exec[w].job) = p
      <4>0. exec[w].pc # "idle"
        BY <1>8, ExecutionFrame
      <4>1. exec[w].pc \in {"read", "fail"} \/ (exec[w].pc = "gate" /\ ~exec[w].fit)
        BY <2>2, <3>1, <4>0
      <4>2. piece[PieceOf(exec[w].job)] = "ARCHIVED"
        BY <3>1
      <4>3. /\ piece' = piece
            /\ exec'[w].pc \in {"idle", "fail"} \/ (exec'[w].pc = "gate" /\ ~exec'[w].fit)
        BY <1>8, <4>1, <4>2, UnfitIsRefused
      <4>4. \A v \in Workers \ {w} : exec'[v] = exec[v]
        BY <1>8, ExecutionFrame
      <4> QED
        BY <4>3, <4>4
    <3>2. CASE PieceOf(exec[w].job) # p
      <4>1. piece'[p] = piece[p]
        BY <1>8, <3>2, ExecutionFrame
      <4>2. /\ exec'[w].pc # "idle" => PieceOf(exec'[w].job) # p
            /\ \A v \in Workers \ {w} : exec'[v] = exec[v]
        BY <1>8, <3>2, ExecutionFrame
      <4> QED
        BY <4>1, <4>2
    <3> QED
      BY <3>1, <3>2
  <2>3. quiet' = quiet /\ req' = req
    BY <1>8, ExecutionFrame
  <2> QED
    BY <2>1, <2>2, <2>3
<1>9. CASE Analytics
  BY <1>9 DEF Analytics, CollectRead, Collect, CollectFails
<1>10. CASE Platforms
  BY <1>10 DEF Platforms, PostAppearsLate
<1>11. CASE UNCHANGED vars
  BY <1>11 DEF vars
<1> QED
  BY <1>1, <1>2, <1>3, <1>4, <1>5, <1>6, <1>7, <1>8, <1>9, <1>10, <1>11 DEF Next

\* A row cancelled, or a piece archived, while nobody was at work on it stays
\* cancelled, or archived, for ever.
THEOREM QuietStopsStay == Spec => []QuietStopsAreFinal
<1>1. Init => QuietInv
  BY DEF Init, QuietInv
<1>2. TypeOK /\ QuietInv => QuietStopsAreFinal
  BY DEF TypeOK, QuietInv, QuietStopsAreFinal
<1> QED
  BY <1>1, <1>2, QuietInductive, TypeCorrect, PTL DEF Spec

-----------------------------------------------------------------------------

\* What may still be posted whatever is stopped from now on: the executors past the stop
\* check that have no answer yet, and the calls that will have none.
Owing == Cardinality(InFlight) + Cardinality(lost)

\* While a stop is engaged, what got out and what may still get out make no more than
\* what was owed when it was engaged.
StopInv ==
  /\ leak <= owed
  /\ stopped # {} => leak + Owing <= owed

\* Everything counted here is a number, before and after a step.
LEMMA OwingIsANumber ==
  ASSUME TypeOK, TypeOK'
  PROVE  /\ Cardinality(lost) \in Nat /\ Cardinality(lost') \in Nat
         /\ IsFiniteSet(InFlight) /\ IsFiniteSet(InFlight')
         /\ Cardinality(InFlight) \in Nat /\ Cardinality(InFlight') \in Nat
         /\ Owing \in Nat /\ Owing' \in Nat
         /\ leak \in Nat /\ leak' \in Nat /\ owed \in Nat
<1>1. Cardinality(lost) \in Nat /\ Cardinality(lost') \in Nat
  BY FS_CardinalityType DEF TypeOK
<1>2. IsFiniteSet(InFlight) /\ IsFiniteSet(InFlight')
  BY WorkersAssumption, FS_Subset DEF InFlight
<1>3. Cardinality(InFlight) \in Nat /\ Cardinality(InFlight') \in Nat
  BY <1>2, FS_CardinalityType
<1>. QED BY <1>1, <1>2, <1>3 DEF Owing, TypeOK

\* A step that adds no more to what is owed under a stop than it takes from it.
LEMMA NothingIsAdded ==
  ASSUME TypeOK, TypeOK', StopInv, UNCHANGED <<stopped, owed>>,
         stopped = {} => leak' = leak,
         stopped # {} => leak' + Owing' <= leak + Owing
  PROVE  StopInv'
<1>1. /\ Owing \in Nat /\ Owing' \in Nat
      /\ leak \in Nat /\ leak' \in Nat /\ owed \in Nat
  BY OwingIsANumber
<1>2. CASE stopped = {}
  BY <1>2 DEF StopInv
<1>3. CASE stopped # {}
  <2>1. leak + Owing <= owed /\ leak' + Owing' <= leak + Owing /\ owed' = owed
    BY <1>3 DEF StopInv
  <2>2. ASSUME NEW l \in Nat, NEW m \in Nat, NEW o \in Nat, NEW r \in Nat, NEW n \in Nat,
               l + r <= n, m + o <= l + r
        PROVE  m + o <= n /\ m <= n
    BY <2>2
  <2>3. leak' + Owing' <= owed' /\ leak' <= owed'
    BY <1>1, <2>1, <2>2
  <2>. QED BY <2>3 DEF StopInv
<1>. QED BY <1>2, <1>3

\* A step that lets nobody past the check while a stop is engaged, and posts nothing.
LEMMA NobodyPasses ==
  ASSUME TypeOK, TypeOK', StopInv, UNCHANGED <<stopped, leak, owed, lost>>,
         stopped # {} => InFlight' \subseteq InFlight
  PROVE  StopInv'
<1>1. ASSUME stopped # {} PROVE leak' + Owing' <= leak + Owing
  <2>1. Cardinality(InFlight') <= Cardinality(InFlight)
    BY <1>1, OwingIsANumber, FS_Subset
  <2>. QED BY <2>1, OwingIsANumber DEF Owing
<1>. QED BY <1>1, NothingIsAdded

\* An executor that gets its answer, or that gives the call up, is no longer in flight.
LEMMA LeavesFlight ==
  ASSUME TypeOK, TypeOK', NEW w \in Workers, exec[w].pc = "send",
         exec'[w].pc \in {"recordJob", "catchJob"},
         \A v \in Workers \ {w} : exec'[v] = exec[v]
  PROVE  Cardinality(InFlight') = Cardinality(InFlight) - 1
<1>1. w \in InFlight /\ InFlight' = InFlight \ {w}
  BY DEF InFlight
<1>. QED BY <1>1, OwingIsANumber, FS_RemoveElement

\* An answer takes its executor out of flight; a call that is given up takes its place
\* among those without an answer, and leaves them when the platform has made its post.  A
\* crash turns some of the executors in flight into such calls.  Nothing else counts.
LEMMA StopInductive == TypeOK /\ TypeOK' /\ StopInv /\ [Next]_vars => StopInv'
<1> SUFFICES ASSUME TypeOK, TypeOK', StopInv, [Next]_vars PROVE StopInv'
  OBVIOUS
<1>1. CASE UNCHANGED <<stopped, leak, owed, lost, exec>>
  BY <1>1, NobodyPasses DEF InFlight
<1>2. ASSUME NEW s \in StopControls, Engage(s) PROVE StopInv'
  <2>1. Owing' = Owing
    BY <1>2 DEF Engage, InFlight, Owing
  <2>2. CASE stopped = {}
    <3>1. leak' = 0 /\ owed' = Owing
      BY <1>2, <2>2 DEF Engage, Owing
    <3>. QED BY <2>1, <3>1, OwingIsANumber DEF StopInv
  <2>3. CASE stopped # {}
    <3>1. leak' = leak /\ owed' = owed
      BY <1>2, <2>3 DEF Engage
    <3>. QED BY <2>1, <2>3, <3>1 DEF StopInv
  <2>. QED BY <2>2, <2>3
<1>3. ASSUME NEW s \in StopControls, Release(s) PROVE StopInv'
  <2>1. Owing' = Owing /\ leak' = leak /\ owed' = owed
    BY <1>3 DEF Release, InFlight, Owing
  <2>2. stopped # {}
    BY <1>3 DEF Release
  <2> QED
    BY <2>1, <2>2 DEF StopInv
<1>4. ASSUME NEW w \in Workers, NEW j \in Jobs, Take(w, j) PROVE StopInv'
  <2>1. InFlight' \subseteq InFlight
    BY <1>4 DEF Take, InFlight, Idle, TypeOK, ExecOK
  <2> QED
    BY <1>4, <2>1, NobodyPasses DEF Take
<1>5. CASE WorkerCrash
  <2>1. PICK sent \in SUBSET {w \in Workers : exec[w].pc = "send"} :
          lost' = lost \cup {CallOf(w) : w \in sent}
    BY <1>5 DEF WorkerCrash
  <2> DEFINE calls == {CallOf(w) : w \in sent}
  <2>2. sent \in SUBSET Workers /\ \A w \in sent : exec[w].job \in Jobs
    BY DEF TypeOK, ExecOK
  <2>3. IsFiniteSet(calls) /\ IsFiniteSet(sent) /\ Cardinality(calls) <= Cardinality(sent)
    BY <2>2, CallsAreFinite
  <2>4. Cardinality(sent) <= Cardinality(InFlight)
    <3>1. sent \in SUBSET InFlight
      BY DEF InFlight
    <3>. QED BY <3>1, OwingIsANumber, FS_Subset
  <2>5. Cardinality(lost') <= Cardinality(lost) + Cardinality(calls)
    <3>1. IsFiniteSet(lost)
      BY DEF TypeOK
    <3>2. Cardinality(lost') = Cardinality(lost) + Cardinality(calls)
                               - Cardinality(lost \cap calls)
      BY <2>1, <2>3, <3>1, FS_Union
    <3>3. Cardinality(lost \cap calls) \in Nat
      BY <3>1, FS_Subset, FS_CardinalityType
    <3>4. Cardinality(lost) \in Nat /\ Cardinality(calls) \in Nat
      BY <2>3, <3>1, FS_CardinalityType
    <3> HIDE DEF calls
    <3>. QED BY <3>2, <3>3, <3>4
  <2>6. Cardinality(InFlight') = 0
    <3>1. InFlight' = {}
      BY <1>5 DEF WorkerCrash, InFlight, Idle
    <3>. QED BY <3>1, FS_EmptySet
  <2>7. Cardinality(calls) \in Nat /\ Cardinality(sent) \in Nat
    BY <2>3, FS_CardinalityType
  <2>8. leak' = leak /\ UNCHANGED <<stopped, owed>>
    BY <1>5 DEF WorkerCrash
  <2> HIDE DEF calls
  <2>9. leak' + Owing' <= leak + Owing
    BY <2>3, <2>4, <2>5, <2>6, <2>7, <2>8, OwingIsANumber DEF Owing
  <2>. QED BY <2>8, <2>9, NothingIsAdded
<1>6. ASSUME NEW w \in Workers, Execution(w) PROVE StopInv'
  <2> USE DEF TypeOK, ExecOK
  <2>0. UNCHANGED stopped /\ \A v \in Workers \ {w} : exec'[v] = exec[v]
    BY <1>6, ExecutionFrame
  <2>1. CASE SendAccepted(w)
    <3>1. exec[w].pc = "send" /\ exec'[w].pc = "recordJob"
      BY <2>1 DEF SendAccepted, Goto
    <3>2. UNCHANGED <<lost, owed>> /\ leak' = IF stopped = {} THEN leak ELSE leak + 1
      BY <2>1 DEF SendAccepted, PostAppears
    <3>3. Cardinality(InFlight') = Cardinality(InFlight) - 1
      BY <2>0, <3>1, LeavesFlight
    <3>4. stopped # {} => leak' + Owing' <= leak + Owing
      BY <3>2, <3>3, OwingIsANumber DEF Owing
    <3> QED
      BY <2>0, <3>2, <3>4, NothingIsAdded
  <2>2. CASE SendAnswerLost(w)
    <3>1. exec[w].pc = "send" /\ exec'[w].pc = "catchJob"
      BY <2>2 DEF SendAnswerLost, Throw
    <3>2. lost' = lost \cup {CallOf(w)} /\ UNCHANGED <<leak, owed>>
      BY <2>2 DEF SendAnswerLost
    <3>3. Cardinality(lost') <= Cardinality(lost) + 1
      <4>1. IsFiniteSet(lost)
        OBVIOUS
      <4>2. CASE CallOf(w) \in lost
        <5>1. lost' = lost
          BY <3>2, <4>2
        <5> QED
          BY <5>1, OwingIsANumber
      <4>3. CASE CallOf(w) \notin lost
        <5>1. Cardinality(lost') = Cardinality(lost) + 1
          BY <3>2, <4>1, <4>3, FS_AddElement
        <5> QED
          BY <5>1, OwingIsANumber
      <4> QED
        BY <4>2, <4>3
    <3>4. Cardinality(InFlight') = Cardinality(InFlight) - 1
      BY <2>0, <3>1, LeavesFlight
    <3>5. leak' + Owing' <= leak + Owing
      BY <3>2, <3>3, <3>4, OwingIsANumber DEF Owing
    <3> QED
      BY <2>0, <3>2, <3>5, NothingIsAdded
  <2>3. CASE Gate(w)
    <3>1. UNCHANGED <<leak, owed, lost>> /\ (stopped # {} => exec'[w].pc = "fail")
      BY <2>3 DEF Gate, Goto
    <3>2. stopped # {} => InFlight' \subseteq InFlight
      BY <2>0, <3>1 DEF InFlight
    <3> QED
      BY <2>0, <3>1, <3>2, NobodyPasses
  <2>4. ASSUME UNCHANGED <<leak, owed, lost>>,
               exec'[w].pc \in {"mark", "markPiece", "prepare", "send"}
                 => exec[w].pc \in {"mark", "markPiece", "prepare", "send"}
        PROVE  StopInv'
    <3>1. InFlight' \subseteq InFlight
      BY <2>0, <2>4 DEF InFlight
    <3> QED
      BY <2>0, <2>4, <3>1, NobodyPasses
  <2>5. CASE Read(w)
    <3>1. UNCHANGED <<leak, owed, lost>>
      BY <2>5 DEF Read
    <3> QED
      BY <2>4, <2>5, <3>1, ReadLeads
  <2>6. CASE MarkJob(w) \/ MarkPiece(w)
    BY <2>4, <2>6 DEF MarkJob, MarkPiece, Goto
  <2>7. CASE Prepare(w) \/ SendRejected(w)
    BY <2>4, <2>7 DEF Prepare, SendRejected, Goto, Throw
  <2>8. CASE RecordJob(w) \/ RecordPiece(w)
    BY <2>4, <2>8 DEF RecordJob, RecordPiece, Goto
  <2>9. CASE Complete(w) \/ Fail(w)
    BY <2>4, <2>9 DEF Complete, Fail, Finish, Idle
  <2>10. CASE CatchJob(w) \/ CatchPiece(w) \/ CatchAccount(w)
    BY <2>4, <2>10 DEF CatchJob, CatchPiece, CatchAccount, Goto
  <2>11. CASE DatabaseError(w)
    <3>1. UNCHANGED <<leak, owed, lost>>
      BY <2>11 DEF DatabaseError
    <3>2. exec'[w].pc \in {"catchJob", "fail"}
      BY <2>11, Moves DEF DatabaseError
    <3> QED
      BY <2>4, <3>1, <3>2
  <2> QED
    BY <1>6, <2>1, <2>2, <2>3, <2>5, <2>6, <2>7, <2>8, <2>9, <2>10, <2>11
       DEF Execution, Step
<1>7. CASE Tick \/ ClearQueue \/ Analytics
  BY <1>1, <1>7 DEF Tick, ClearQueue, Analytics, CollectRead, Collect, CollectFails
<1>8. ASSUME NEW c \in Clients, ApiCall(c) PROVE StopInv'
  BY <1>1, <1>8 DEF ApiCall, ScheduleRead, ScheduleUpsert, ScheduleFinish, ApproveRead,
                    ArchiveRead, StatusRead, ApproveWrite, ArchiveWrite, CallAborts
<1>9. ASSUME NEW a \in Accounts, Reconnect(a) PROVE StopInv'
  BY <1>1, <1>9 DEF Reconnect
<1>10. CASE Redis
  BY <1>1, <1>4, <1>10 DEF Redis, ReconcileRead, ReconcileAdd, HandBack, Stall,
                           LockLost, RedisWipe
<1>11. CASE Restart
  BY <1>1, <1>11 DEF Restart
<1>12. ASSUME NEW call \in lost, PostAppearsLate(call) PROVE StopInv'
  <2>1. lost' = lost \ {call} /\ leak' = IF stopped = {} THEN leak ELSE leak + 1
    BY <1>12 DEF PostAppearsLate, PostAppears
  <2>2. UNCHANGED <<stopped, owed>> /\ InFlight' = InFlight
    BY <1>12 DEF PostAppearsLate, InFlight
  <2>3. Cardinality(lost') = Cardinality(lost) - 1
    BY <2>1, FS_RemoveElement DEF TypeOK
  <2>4. stopped # {} => leak' + Owing' <= leak + Owing
    BY <2>1, <2>2, <2>3, OwingIsANumber DEF Owing
  <2>. QED BY <2>1, <2>2, <2>4, NothingIsAdded
<1>13. CASE UNCHANGED vars
  BY <1>1, <1>13 DEF vars
<1> QED
  BY <1>2, <1>3, <1>5, <1>6, <1>7, <1>8, <1>9, <1>10, <1>11, <1>12, <1>13
     DEF Next, Worker, Platforms

\* However a stop control is timed and whatever fails, the posts that get out under it are
\* those of the executors past the check when it was engaged, and of calls without an
\* answer: no take, retry, rerun or restart adds to them.
THEOREM StopLetsOutOnlyWhatWasPast == Spec => []StopLeakBounded
<1>1. Init => StopInv
  BY DEF Init, StopInv
<1>2. StopInv => StopLeakBounded
  BY DEF StopInv, StopLeakBounded
<1> QED
  BY <1>1, <1>2, StopInductive, TypeCorrect, PTL DEF Spec

-----------------------------------------------------------------------------

\* An entry of BullMQ names a holder exactly while it is active, and as long as it may
\* wake a worker again it has attempts left, all of them if it is gone; an idle executor has
\* nothing of its last job.
LockInv ==
  /\ \A j \in Jobs :
       /\ timer[j].holder # None <=> timer[j].state = "active"
       /\ timer[j].state \notin {"completed", "failed"} => timer[j].made < PublishAttempts
       /\ timer[j].state = "none" => timer[j].made = 0
  /\ \A w \in Workers : exec[w].pc = "idle" => exec[w] = Idle

\* Until a fault, whoever works on a row holds the lock of its entry.
HoldersInv ==
  faults = 0 =>
    \A w \in Workers : exec[w].pc # "idle" =>
      timer[exec[w].job].state = "active" /\ timer[exec[w].job].holder = w

\* An executor leaves the entry of its row alone, or is done, gives up the entry it holds
\* and is idle; done or not, it is where its label says.
LEMMA ExecutionEntry ==
  ASSUME TypeOK, NEW w \in Workers, Execution(w)
  PROVE  /\ \/ timer' = timer /\ exec'[w].pc # "idle"
            \/ /\ exec[w].pc \in {"recordRest", "fail"} /\ exec'[w] = Idle
               /\ UNCHANGED <<row, posts, piece, faults>>
               /\ \/ timer' = timer /\ timer[exec[w].job].holder # w
                  \/ /\ timer[exec[w].job].holder = w
                     /\ timer'[exec[w].job].holder = None
                     /\ \/ timer'[exec[w].job].state \in {"completed", "failed"}
                        \/ /\ exec[w].pc = "fail"
                           /\ timer'[exec[w].job].state = "waiting"
                           /\ timer'[exec[w].job].made = timer[exec[w].job].made + 1
                           /\ timer'[exec[w].job].made < PublishAttempts
         /\ faults' \in {faults, faults + 1}
<1> USE DEF TypeOK, ExecOK
<1>1. CASE Complete(w)
  BY <1>1 DEF Complete, Finish, Idle, TimerEntry
<1>2. CASE Fail(w)
  <2> DEFINE j == exec[w].job
             t == timer[j]
  <2>1. exec[w].pc = "fail" /\ exec'[w] = Idle /\ UNCHANGED <<row, posts, piece, faults>>
    BY <1>2 DEF Fail, Finish
  <2>2. t.made \in Nat /\ j \in Jobs
    BY <2>1 DEF TimerEntry
  <2>3. CASE t.holder = w
    <3>1. timer' = [timer EXCEPT ![j] =
                      [state  |-> IF t.made + 1 < PublishAttempts THEN "waiting" ELSE "failed",
                       made   |-> t.made + 1,
                       stalls |-> t.stalls,
                       holder |-> None]]
      BY <1>2, <2>3 DEF Fail, Finish
    <3>. QED BY <2>1, <2>2, <2>3, <3>1
  <2>4. CASE t.holder # w
    BY <1>2, <2>1, <2>4 DEF Fail, Finish
  <2>. QED BY <2>3, <2>4
<1>3. CASE Read(w)            BY <1>3, ReadLeads DEF Read
<1>4. CASE Gate(w)            BY <1>4 DEF Gate, Goto
<1>5. CASE MarkJob(w)         BY <1>5 DEF MarkJob, Goto
<1>6. CASE MarkPiece(w)       BY <1>6 DEF MarkPiece, Goto
<1>7. CASE Prepare(w)         BY <1>7, Moves DEF Prepare
<1>8. CASE SendAccepted(w)    BY <1>8 DEF SendAccepted, Goto
<1>9. CASE SendAnswerLost(w)  BY <1>9 DEF SendAnswerLost, Fault, Throw
<1>10. CASE SendRejected(w)   BY <1>10 DEF SendRejected, Throw
<1>11. CASE RecordJob(w)      BY <1>11 DEF RecordJob, Goto
<1>12. CASE RecordPiece(w)    BY <1>12 DEF RecordPiece, Goto
<1>13. CASE CatchJob(w)       BY <1>13 DEF CatchJob, Goto
<1>14. CASE CatchPiece(w)     BY <1>14 DEF CatchPiece, Goto
<1>15. CASE CatchAccount(w)   BY <1>15 DEF CatchAccount, Goto
<1>16. CASE DatabaseError(w)  BY <1>16, Moves DEF DatabaseError, Fault
<1>. QED
  BY <1>1, <1>2, <1>3, <1>4, <1>5, <1>6, <1>7, <1>8, <1>9, <1>10, <1>11, <1>12, <1>13,
     <1>14, <1>15, <1>16 DEF Execution, Step

\* Steps that touch neither entries nor executors, besides those of an API call that is
\* cut off.
Elsewhere == UNCHANGED <<timer, exec>> /\ faults' \in {faults, faults + 1}

\* A step is an executor's, or one of Redis and BullMQ, or a crash, or elsewhere.
LEMMA WhoMoves ==
  ASSUME TypeOK, [Next]_vars
  PROVE  \/ Elsewhere
         \/ \E w \in Workers : Execution(w)
         \/ \E j \in Jobs : ReconcileAdd(j) \/ Stall(j) \/ LockLost(j)
         \/ \E w \in Workers, j \in Jobs : Take(w, j)
         \/ RedisWipe
         \/ WorkerCrash
<1>1. ASSUME NEW c \in Clients, ApiCall(c) PROVE Elsewhere
  BY <1>1 DEF ApiCall, ScheduleRead, ScheduleUpsert, ScheduleFinish, ApproveRead,
              ArchiveRead, StatusRead, ApproveWrite, ArchiveWrite, CallAborts, Fault,
              Elsewhere
<1>2. CASE Tick \/ ClearQueue \/ Analytics
  BY <1>2 DEF Tick, ClearQueue, Analytics, CollectRead, Collect, CollectFails, Elsewhere
<1>3. ASSUME NEW s \in StopControls, Engage(s) \/ Release(s) PROVE Elsewhere
  BY <1>3 DEF Engage, Release, Elsewhere
<1>4. ASSUME NEW a \in Accounts, Reconnect(a) PROVE Elsewhere
  BY <1>4 DEF Reconnect, Elsewhere
<1>5. CASE ReconcileRead
  BY <1>5 DEF ReconcileRead, Elsewhere
<1>6. CASE Restart \/ Platforms
  BY <1>6 DEF Restart, Platforms, PostAppearsLate, Elsewhere
<1>7. CASE UNCHANGED vars
  BY <1>7 DEF vars, Elsewhere
<1>. QED
  BY <1>1, <1>2, <1>3, <1>4, <1>5, <1>6, <1>7 DEF Next, Redis, Worker

\* Only a take makes an entry active, and names the one who takes it; an attempt that
\* fails leaves the entry waiting only if there are more.
LEMMA LockInductive == TypeOK /\ LockInv /\ [Next]_vars => LockInv'
<1> SUFFICES ASSUME TypeOK, LockInv, [Next]_vars PROVE LockInv'
  OBVIOUS
<1> USE NoneAssumption, BoundAssumption DEF TypeOK, ExecOK, LockInv
<1>1. CASE Elsewhere
  BY <1>1 DEF Elsewhere
<1>2. ASSUME NEW w \in Workers, Execution(w) PROVE LockInv'
  <2>1. \A j \in Jobs \ {exec[w].job} : timer'[j] = timer[j]
    BY <1>2, ExecutionFrame
  <2>2. /\ timer'[exec[w].job].holder # None <=> timer'[exec[w].job].state = "active"
        /\ timer'[exec[w].job].state \notin {"completed", "failed"}
             => timer'[exec[w].job].made < PublishAttempts
        /\ timer'[exec[w].job].state = "none" => timer'[exec[w].job].made = 0
    <3>1. exec[w].job \in Jobs
      BY <1>2, ExecutionFrame
    <3>. QED BY <1>2, <3>1, ExecutionEntry
  <2>3. \A v \in Workers : exec'[v].pc = "idle" => exec'[v] = Idle
    <3>1. \A v \in Workers \ {w} : exec'[v] = exec[v]
      BY <1>2, ExecutionFrame
    <3>2. exec'[w].pc = "idle" => exec'[w] = Idle
      BY <1>2, ExecutionEntry
    <3>. QED BY <3>1, <3>2
  <2>. QED BY <2>1, <2>2, <2>3
<1>3. ASSUME NEW j \in Jobs, ReconcileAdd(j) PROVE LockInv'
  BY <1>3 DEF ReconcileAdd, NoTimer
<1>4. ASSUME NEW j \in Jobs, HandBack(j) PROVE LockInv'
  BY <1>4 DEF HandBack, TimerEntry
<1>5. ASSUME NEW w \in Workers, NEW j \in Jobs, Take(w, j) PROVE LockInv'
  BY <1>5 DEF Take, Idle, TimerEntry
<1>6. CASE RedisWipe
  BY <1>6 DEF RedisWipe, NoTimer
<1>7. CASE WorkerCrash
  BY <1>7 DEF WorkerCrash
<1>. QED
  BY <1>1, <1>2, <1>3, <1>4, <1>5, <1>6, <1>7, WhoMoves DEF Stall, LockLost

\* Entries and locks are as they should be in every run.
LEMMA LocksAreKept == Spec => []LockInv
<1>1. Init => LockInv
  BY BoundAssumption DEF Init, LockInv, NoTimer, Idle
<1>. QED BY <1>1, LockInductive, TypeCorrect, PTL DEF Spec

\* Until a fault a lock is given back only by the executor that holds it.
LEMMA HoldersInductive == TypeOK /\ LockInv /\ HoldersInv /\ [Next]_vars => HoldersInv'
<1> SUFFICES ASSUME TypeOK, LockInv, HoldersInv, [Next]_vars, faults' = 0 PROVE HoldersInv'
  BY DEF HoldersInv
<1> USE NoneAssumption DEF TypeOK, ExecOK
<1>1. CASE Elsewhere
  BY <1>1 DEF Elsewhere, HoldersInv
<1>2. ASSUME NEW w \in Workers, Execution(w) PROVE HoldersInv'
  <2>1. faults = 0
    BY <1>2, ExecutionEntry
  <2>2. /\ exec[w].pc # "idle" /\ exec[w].job \in Jobs
        /\ \A v \in Workers \ {w} : exec'[v] = exec[v]
        /\ exec'[w].pc # "idle" => exec'[w].job = exec[w].job
        /\ \A j \in Jobs \ {exec[w].job} : timer'[j] = timer[j]
    BY <1>2, ExecutionFrame
  <2>3. \A v \in Workers : exec[v].pc # "idle" =>
          timer[exec[v].job].state = "active" /\ timer[exec[v].job].holder = v
    BY <2>1 DEF HoldersInv
  <2>4. \A v \in Workers \ {w} : exec[v].pc # "idle" => exec[v].job # exec[w].job
    BY <2>2, <2>3
  <2>5. timer' = timer \/ exec'[w].pc = "idle"
    BY <1>2, ExecutionEntry DEF Idle
  <2>. QED BY <2>2, <2>3, <2>4, <2>5 DEF HoldersInv
<1>3. ASSUME NEW j \in Jobs, ReconcileAdd(j) PROVE HoldersInv'
  BY <1>3 DEF ReconcileAdd, HoldersInv
<1>4. ASSUME NEW j \in Jobs, Stall(j) PROVE HoldersInv'
  BY <1>4 DEF Stall, HandBack, HoldersInv
<1>5. ASSUME NEW w \in Workers, NEW j \in Jobs, Take(w, j) PROVE HoldersInv'
  BY <1>5 DEF Take, Idle, TimerEntry, HoldersInv
<1>6. ASSUME NEW kind, Fault(kind) PROVE HoldersInv'
  BY <1>6 DEF Fault
<1>. QED
  BY <1>1, <1>2, <1>3, <1>4, <1>5, <1>6, WhoMoves DEF LockLost, RedisWipe, WorkerCrash

\* Until a fault, no two executors ever work on the same row, for any number of rows,
\* executors and retries: what protects a row from a second post is BullMQ's lock alone.
THEOREM NoTwoExecutorsOnARow == Spec => []OneExecutorPerJob
<1>1. Init => HoldersInv
  BY DEF Init, HoldersInv, Idle
<1>2. TypeOK /\ LockInv /\ HoldersInv => OneExecutorPerJob
  BY NoneAssumption DEF TypeOK, ExecOK, LockInv, HoldersInv, OneExecutorPerJob, Idle
<1>. QED BY <1>1, <1>2, HoldersInductive, LocksAreKept, TypeCorrect, PTL DEF Spec

-----------------------------------------------------------------------------

\* Until a fault, whoever works on a PUBLISHED row has just published it, or is about to
\* be refused.
PublishedInv ==
  faults = 0 =>
    \A w \in Workers :
      exec[w].pc \notin {"idle", "read", "recordPiece", "recordRest", "fail"}
        => row[exec[w].job].status # "PUBLISHED"

\* What an executor does to its row: it takes it off PUBLISHED only past the check, and
\* puts it there only when it records the post.
LEMMA ExecutionRow ==
  ASSUME TypeOK, NEW w \in Workers, Execution(w)
  PROVE  LET j == exec[w].job IN
           /\ exec[w].pc \in {"read", "recordPiece", "recordRest", "fail"}
                => row' = row
           /\ row'[j].status = "PUBLISHED" =>
                \/ exec[w].pc = "recordJob"
                \/ /\ row[j].status = "PUBLISHED"
                   /\ \/ exec'[w].pc \in {"idle", "read", "recordPiece", "recordRest", "fail"}
                      \/ exec[w].pc \notin {"idle", "read", "recordPiece", "recordRest", "fail"}
                      \/ faults' # faults
           /\ exec[w].pc = "recordJob" => exec'[w].pc = "recordPiece" \/ faults' # faults
<1> USE DEF TypeOK, ExecOK
<1>1. CASE Read(w)
  <2>1. CASE row[exec[w].job].status \in {"PUBLISHED", "CANCELLED"}
    BY <1>1, <2>1 DEF Read, Goto
  <2>2. CASE row[exec[w].job].status \notin {"PUBLISHED", "CANCELLED"}
    BY <1>1, <2>2 DEF Read
  <2>. QED BY <2>1, <2>2
<1>2. CASE Gate(w)            BY <1>2 DEF Gate, Goto
<1>3. CASE MarkJob(w)         BY <1>3 DEF MarkJob, Goto
<1>4. CASE MarkPiece(w)       BY <1>4 DEF MarkPiece, Goto
<1>5. CASE Prepare(w)         BY <1>5 DEF Prepare, Goto, Throw
<1>6. CASE SendAccepted(w)    BY <1>6 DEF SendAccepted, PostAppears, Goto
<1>7. CASE SendAnswerLost(w)  BY <1>7 DEF SendAnswerLost, Fault, Throw
<1>8. CASE SendRejected(w)    BY <1>8 DEF SendRejected, Throw
<1>9. CASE RecordJob(w)       BY <1>9 DEF RecordJob, Goto, SetStatus
<1>10. CASE RecordPiece(w)    BY <1>10 DEF RecordPiece, Goto
<1>11. CASE Complete(w)       BY <1>11 DEF Complete, Finish, Idle
<1>12. CASE CatchJob(w)       BY <1>12 DEF CatchJob, Goto, SetStatus
<1>13. CASE CatchPiece(w)     BY <1>13 DEF CatchPiece, Goto
<1>14. CASE CatchAccount(w)   BY <1>14 DEF CatchAccount, Goto
<1>15. CASE Fail(w)           BY <1>15 DEF Fail, Finish, Idle
<1>16. CASE DatabaseError(w)  BY <1>16 DEF DatabaseError, Fault, Goto, Throw
<1>. QED
  BY <1>1, <1>2, <1>3, <1>4, <1>5, <1>6, <1>7, <1>8, <1>9, <1>10, <1>11, <1>12, <1>13,
     <1>14, <1>15, <1>16 DEF Execution, Step

\* No row is published or taken back, and no attempt of one is counted.
RowsStand ==
  \A j \in Jobs : /\ row'[j].status = "PUBLISHED" <=> row[j].status = "PUBLISHED"
                  /\ row'[j].attempts = row[j].attempts

\* Nobody but an executor writes or unwrites PUBLISHED, or counts an attempt.
LEMMA OthersLeaveRows ==
  ASSUME TypeOK, [Next]_vars, ~\E w \in Workers : Execution(w)
  PROVE  RowsStand
<1> USE DEF TypeOK, RowsStand
<1>1. ASSUME NEW c \in Clients, ApiCall(c) PROVE RowsStand
  <2>1. ASSUME NEW a \in Accounts, ScheduleUpsert(c, a) PROVE RowsStand
    <3> DEFINE k == <<req[c].piece, a, StampOf(req[c])>>
    <3>1. row' = IF row[k] = Absent THEN [row EXCEPT ![k] = NewRow(req[c], a)] ELSE row
      BY <2>1 DEF ScheduleUpsert
    <3>2. /\ Absent.status # "PUBLISHED" /\ NewRow(req[c], a).status # "PUBLISHED"
          /\ Absent.attempts = 0 /\ NewRow(req[c], a).attempts = 0
      BY DEF Absent, NewRow
    <3> HIDE DEF k
    <3>. QED BY <3>1, <3>2
  <2>. QED
    BY <1>1, <2>1
    DEF ApiCall, ScheduleRead, ScheduleFinish, ApproveRead, ArchiveRead, StatusRead,
        ApproveWrite, ArchiveWrite, CallAborts
<1>2. CASE ClearQueue
  BY <1>2 DEF ClearQueue, Waiting
<1>3. CASE row' = row
  BY <1>3
<1>. QED
  BY <1>1, <1>2, <1>3
  DEF Next, Tick, Engage, Release, Reconnect, Redis, ReconcileRead, ReconcileAdd, Stall,
      LockLost, HandBack, Take, RedisWipe, Analytics, CollectRead, Collect, CollectFails,
      Worker, WorkerCrash, Restart, Platforms, PostAppearsLate, vars

\* Nobody but an executor moves one on: it is taken on at its first label, or dies.
LEMMA OthersStartAtRead ==
  ASSUME TypeOK, [Next]_vars, ~\E w \in Workers : Execution(w)
  PROVE  \A w \in Workers : exec'[w] = exec[w] \/ exec'[w].pc \in {"idle", "read"}
<1>1. CASE Elsewhere
  BY <1>1 DEF Elsewhere
<1>2. ASSUME NEW j \in Jobs, ReconcileAdd(j) \/ HandBack(j) PROVE exec' = exec
  BY <1>2 DEF ReconcileAdd, HandBack
<1>3. ASSUME NEW w \in Workers, NEW j \in Jobs, Take(w, j)
      PROVE  \A v \in Workers : exec'[v] = exec[v] \/ exec'[v].pc \in {"idle", "read"}
  BY <1>3 DEF Take, Idle, TypeOK, ExecOK
<1>4. CASE RedisWipe
  BY <1>4 DEF RedisWipe
<1>5. CASE WorkerCrash
  BY <1>5 DEF WorkerCrash, Idle
<1>. QED BY <1>1, <1>2, <1>3, <1>4, <1>5, WhoMoves DEF Stall, LockLost

\* Until a fault nobody gets past the check of a PUBLISHED row, and nobody who is past it
\* has a row that another executor publishes.
LEMMA PublishedInductive ==
  TypeOK /\ LockInv /\ HoldersInv /\ PublishedInv /\ [Next]_vars => PublishedInv'
<1> SUFFICES ASSUME TypeOK, LockInv, HoldersInv, PublishedInv, [Next]_vars, faults' = 0
             PROVE  PublishedInv'
  BY DEF PublishedInv
<1> USE DEF TypeOK, ExecOK
<1>1. ASSUME NEW w \in Workers, Execution(w) PROVE PublishedInv'
  <2>1. faults = 0
    BY <1>1, ExecutionEntry
  <2>2. /\ exec[w].pc # "idle" /\ exec[w].job \in Jobs
        /\ \A v \in Workers \ {w} : exec'[v] = exec[v]
        /\ exec'[w].pc # "idle" => exec'[w].job = exec[w].job
        /\ \A j \in Jobs \ {exec[w].job} : row'[j] = row[j]
    BY <1>1, ExecutionFrame
  <2>3. \A v \in Workers \ {w} : exec[v].pc # "idle" => exec[v].job # exec[w].job
    BY <2>1, <2>2 DEF HoldersInv
  <2>4. \A v \in Workers \ {w} :
          exec'[v].pc \notin {"idle", "read", "recordPiece", "recordRest", "fail"}
            => row'[exec'[v].job].status # "PUBLISHED"
    BY <2>1, <2>2, <2>3 DEF PublishedInv
  <2>5. exec'[w].pc \notin {"idle", "read", "recordPiece", "recordRest", "fail"}
          => row'[exec'[w].job].status # "PUBLISHED"
    BY <1>1, <2>1, <2>2, ExecutionRow DEF PublishedInv
  <2>. QED BY <2>4, <2>5 DEF PublishedInv
<1>2. ASSUME ~\E w \in Workers : Execution(w) PROVE PublishedInv'
  <2>1. \A j \in Jobs : row'[j].status = "PUBLISHED" <=> row[j].status = "PUBLISHED"
    BY <1>2, OthersLeaveRows DEF RowsStand
  <2>2. faults = 0
    <3>1. faults' \in {faults, faults + 1}
      BY <1>2, WhoMoves
      DEF Elsewhere, ReconcileAdd, Stall, LockLost, Fault, Take, RedisWipe, WorkerCrash
    <3>. QED BY <3>1
  <2>3. \A w \in Workers : exec'[w] = exec[w] \/ exec'[w].pc \in {"idle", "read"}
    BY <1>2, OthersStartAtRead
  <2>. QED BY <2>1, <2>2, <2>3 DEF PublishedInv
<1>. QED BY <1>1, <1>2

\* Until a fault PUBLISHED is final for a row: no retry, sibling, clearing or repeated
\* scheduling takes it back.
THEOREM PublishedRowsStay == Spec => PublishedRowIsFinal
<1>1. Init => HoldersInv /\ PublishedInv
  BY DEF Init, HoldersInv, PublishedInv, Idle
<1>2. TypeOK /\ LockInv /\ HoldersInv /\ PublishedInv /\ [Next]_vars
        => \A j \in Jobs : row[j].status = "PUBLISHED" /\ faults' = 0
                             => row'[j].status = "PUBLISHED"
  <2> SUFFICES ASSUME TypeOK, PublishedInv, [Next]_vars, NEW j \in Jobs,
                      row[j].status = "PUBLISHED", faults' = 0
               PROVE  row'[j].status = "PUBLISHED"
    OBVIOUS
  <2>1. ASSUME NEW w \in Workers, Execution(w) PROVE row'[j].status = "PUBLISHED"
    <3>1. CASE exec[w].job # j
      BY <2>1, <3>1, ExecutionFrame
    <3>2. CASE exec[w].job = j
      <4>1. faults = 0
        BY <2>1, ExecutionEntry DEF TypeOK
      <4>2. exec[w].pc \in {"read", "recordPiece", "recordRest", "fail"}
        BY <2>1, <3>2, <4>1, ExecutionFrame DEF PublishedInv
      <4>. QED BY <2>1, <4>2, ExecutionRow
    <3>. QED BY <3>1, <3>2
  <2>2. CASE ~\E w \in Workers : Execution(w)
    BY <2>2, OthersLeaveRows DEF RowsStand
  <2>. QED BY <2>1, <2>2
<1>. QED
  BY <1>1, <1>2, HoldersInductive, PublishedInductive, LocksAreKept, TypeCorrect, PTL
  DEF Spec, PublishedRowIsFinal

-----------------------------------------------------------------------------

\* Whoever records a post has made it, and so has whoever recorded one.
RecordInv ==
  /\ PublishedIsPosted
  /\ \A w \in Workers : exec[w].pc \in {"recordJob", "recordPiece", "recordRest"}
                          => posts[exec[w].job] > 0

\* What an executor does to the posts: it makes one only where it sends the request, and
\* claims none, for its row or its piece, but where it has made it.
LEMMA ExecutionPosts ==
  ASSUME TypeOK, NEW w \in Workers, Execution(w)
  PROVE  LET j == exec[w].job IN
           /\ posts'[j] >= posts[j]
           /\ exec'[w].pc \in {"recordJob", "recordPiece", "recordRest"} =>
                \/ exec[w].pc \in {"recordJob", "recordPiece", "recordRest"}
                \/ posts'[j] > 0
           /\ row'[j].status = "PUBLISHED" =>
                exec[w].pc = "recordJob" \/ row[j].status = "PUBLISHED"
           /\ piece'[PieceOf(j)] \in {"PUBLISHED", "ANALYZING"} =>
                exec[w].pc = "recordPiece" \/ piece' = piece
<1> USE DEF TypeOK, ExecOK
<1>0. exec[w].job \in Jobs /\ PieceOf(exec[w].job) \in Pieces
  BY ExecutionFrame DEF Jobs, PieceOf
<1>1. CASE Read(w)
  <2>1. UNCHANGED <<posts, row, piece>>
    BY <1>1 DEF Read
  <2>. QED BY <1>0, <1>1, <2>1, ReadLeads
<1>2. CASE Gate(w)            BY <1>2 DEF Gate, Goto
<1>3. CASE MarkJob(w)         BY <1>3 DEF MarkJob, Goto
<1>4. CASE MarkPiece(w)       BY <1>0, <1>4 DEF MarkPiece, Goto, SetPiece
<1>5. CASE Prepare(w)
  <2>1. UNCHANGED <<posts, row, piece>> /\ exec'[w].pc \in {"send", "catchJob"}
    BY <1>5, Moves DEF Prepare
  <2>. QED BY <1>0, <2>1
<1>6. CASE SendAccepted(w)    BY <1>6 DEF SendAccepted, PostAppears, Goto
<1>7. CASE SendAnswerLost(w)  BY <1>7 DEF SendAnswerLost, Throw
<1>8. CASE SendRejected(w)    BY <1>8 DEF SendRejected, Throw
<1>9. CASE RecordJob(w)       BY <1>9 DEF RecordJob, Goto, SetStatus
<1>10. CASE RecordPiece(w)    BY <1>10 DEF RecordPiece, Goto, SetPiece
<1>11. CASE Complete(w)       BY <1>11 DEF Complete, Finish, Idle
<1>12. CASE CatchJob(w)       BY <1>12 DEF CatchJob, Goto, SetStatus
<1>13. CASE CatchPiece(w)     BY <1>0, <1>13 DEF CatchPiece, Goto, SetPiece
<1>14. CASE CatchAccount(w)   BY <1>14 DEF CatchAccount, Goto
<1>15. CASE Fail(w)           BY <1>15 DEF Fail, Finish, Idle
<1>16. CASE DatabaseError(w)
  <2>1. UNCHANGED <<posts, row, piece>> /\ exec'[w].pc \in {"catchJob", "fail"}
    BY <1>16, Moves DEF DatabaseError
  <2>. QED BY <1>0, <2>1
<1>. QED
  BY <1>1, <1>2, <1>3, <1>4, <1>5, <1>6, <1>7, <1>8, <1>9, <1>10, <1>11, <1>12, <1>13,
     <1>14, <1>15, <1>16 DEF Execution, Step

\* Nobody but an executor or a platform posts, and no other step claims a post: analytics
\* moves a piece on only from PUBLISHED.
LEMMA OthersPostNothing ==
  ASSUME TypeOK, [Next]_vars, ~\E w \in Workers : Execution(w), ~Platforms
  PROVE  /\ posts' = posts
         /\ WorkerCrash \/ lost' = lost
         /\ \A p \in Pieces : piece'[p] \in {"PUBLISHED", "ANALYZING"}
                               => piece[p] \in {"PUBLISHED", "ANALYZING"}
<1> USE DEF TypeOK
<1>1. CASE UNCHANGED <<posts, piece, lost>>
  BY <1>1
<1>2. ASSUME NEW c \in Clients, ApiCall(c)
      PROVE  /\ posts' = posts /\ lost' = lost
             /\ \A p \in Pieces : piece'[p] \in {"PUBLISHED", "ANALYZING"}
                                   => piece[p] \in {"PUBLISHED", "ANALYZING"}
  <2>1. CASE ScheduleFinish(c) \/ ApproveWrite(c) \/ ArchiveWrite(c)
    BY <2>1 DEF ScheduleFinish, ApproveWrite, ArchiveWrite
  <2>. QED
    BY <1>1, <1>2, <2>1
    DEF ApiCall, ScheduleRead, ScheduleUpsert, ApproveRead, ArchiveRead, StatusRead,
        CallAborts
<1>3. ASSUME NEW j \in Jobs, Collect(j)
      PROVE  /\ posts' = posts /\ lost' = lost
             /\ \A p \in Pieces : piece'[p] \in {"PUBLISHED", "ANALYZING"}
                                   => piece[p] \in {"PUBLISHED", "ANALYZING"}
  BY <1>3 DEF Collect
<1>4. CASE Analytics
  BY <1>1, <1>3, <1>4 DEF Analytics, CollectRead, CollectFails
<1>. QED
  BY <1>1, <1>2, <1>4
  DEF Next, Tick, ClearQueue, Engage, Release, Reconnect, Redis, ReconcileRead,
      ReconcileAdd, Stall, LockLost, HandBack, Take, RedisWipe, Worker, WorkerCrash,
      Restart, vars

\* No catch path, sibling or analytics pass claims a post nobody made.
LEMMA RecordInductive == TypeOK /\ RecordInv /\ [Next]_vars => RecordInv'
<1> SUFFICES ASSUME TypeOK, RecordInv, [Next]_vars PROVE RecordInv'
  OBVIOUS
<1> USE DEF TypeOK, ExecOK, RecordInv, PublishedIsPosted
<1>1. ASSUME NEW w \in Workers, Execution(w) PROVE RecordInv'
  <2> DEFINE j == exec[w].job
  <2>1. /\ exec[w].pc # "idle" /\ j \in Jobs
        /\ \A v \in Workers \ {w} : exec'[v] = exec[v]
        /\ exec'[w].pc # "idle" => exec'[w].job = j
        /\ \A i \in Jobs \ {j} : row'[i] = row[i] /\ posts'[i] = posts[i]
        /\ \A p \in Pieces \ {PieceOf(j)} : piece'[p] = piece[p]
    BY <1>1, ExecutionFrame
  <2>2. /\ posts'[j] >= posts[j]
        /\ exec'[w].pc \in {"recordJob", "recordPiece", "recordRest"} =>
             \/ exec[w].pc \in {"recordJob", "recordPiece", "recordRest"}
             \/ posts'[j] > 0
        /\ row'[j].status = "PUBLISHED" =>
             exec[w].pc = "recordJob" \/ row[j].status = "PUBLISHED"
        /\ piece'[PieceOf(j)] \in {"PUBLISHED", "ANALYZING"} =>
             exec[w].pc = "recordPiece" \/ piece' = piece
    BY <1>1, ExecutionPosts
  <2> HIDE DEF j
  <2>3. posts' \in [Jobs -> Nat]
    BY TypeCorrectStep DEF TypeOK
  <2>4. \A i \in Jobs : posts[i] > 0 => posts'[i] > 0
    BY <2>1, <2>2, <2>3
  <2>5. exec[w].pc \in {"recordJob", "recordPiece", "recordRest"} => posts'[j] > 0
    BY <2>1, <2>4 DEF j
  <2>6. \A i \in Jobs : row'[i].status = "PUBLISHED" => posts'[i] > 0
    BY <2>1, <2>2, <2>4, <2>5
  <2>7. \A v \in Workers : exec'[v].pc \in {"recordJob", "recordPiece", "recordRest"}
                             => posts'[exec'[v].job] > 0
    <3>1. \A v \in Workers \ {w} :
            exec[v].pc \in {"recordJob", "recordPiece", "recordRest"}
              => posts'[exec[v].job] > 0
      BY <2>4
    <3>2. exec'[w].pc \in {"recordJob", "recordPiece", "recordRest"}
            => posts'[exec'[w].job] > 0
      BY <2>1, <2>2, <2>5
    <3>. QED BY <2>1, <3>1, <3>2
  <2>8. ASSUME NEW p \in Pieces, piece'[p] \in {"PUBLISHED", "ANALYZING"}
        PROVE  \E i \in Jobs : PieceOf(i) = p /\ posts'[i] > 0
    <3>1. CASE piece'[p] = piece[p]
      BY <2>4, <2>8, <3>1
    <3>2. CASE p = PieceOf(j)
      BY <2>1, <2>2, <2>4, <2>5, <2>8, <3>1, <3>2
    <3>. QED BY <2>1, <3>1, <3>2
  <2>. QED BY <2>6, <2>7, <2>8
<1>2. CASE Platforms
  <2>1. PICK call \in lost : PostAppearsLate(call)
    BY <1>2 DEF Platforms
  <2>2. posts' = [posts EXCEPT ![call.job] = @ + 1] /\ call.job \in Jobs
    BY <2>1 DEF PostAppearsLate, PostAppears, Call
  <2>3. \A j \in Jobs : posts[j] > 0 => posts'[j] > 0
    BY <2>2
  <2>4. UNCHANGED <<row, piece, exec>>
    BY <2>1 DEF PostAppearsLate
  <2>. QED BY <2>3, <2>4
<1>3. CASE ~Platforms /\ ~\E w \in Workers : Execution(w)
  <2>1. \A j \in Jobs : row'[j].status = "PUBLISHED" <=> row[j].status = "PUBLISHED"
    BY <1>3, OthersLeaveRows DEF RowsStand
  <2>2. /\ posts' = posts
        /\ \A p \in Pieces : piece'[p] \in {"PUBLISHED", "ANALYZING"}
                              => piece[p] \in {"PUBLISHED", "ANALYZING"}
    BY <1>3, OthersPostNothing
  <2>3. \A w \in Workers : exec'[w] = exec[w] \/ exec'[w].pc \in {"idle", "read"}
    BY <1>3, OthersStartAtRead
  <2>. QED BY <2>1, <2>2, <2>3
<1>. QED BY <1>1, <1>2, <1>3

\* A PUBLISHED row stands for a post that exists, and a piece is PUBLISHED or under
\* analysis only on account of one, whatever fails in between.
THEOREM NoPostIsClaimedInVain == Spec => []PublishedIsPosted
<1>1. Init => RecordInv
  BY DEF Init, RecordInv, PublishedIsPosted, Absent, Idle
<1>2. RecordInv => PublishedIsPosted
  BY DEF RecordInv
<1>. QED BY <1>1, <1>2, RecordInductive, TypeCorrect, PTL DEF Spec

-----------------------------------------------------------------------------

\* The executors at work on a row that have counted their attempt and may still post,
\* that may still post, now or after BullMQ's next retry, and that may still count one.
Marked(j)   == {w \in Workers : exec[w].job = j
                                /\ exec[w].pc \in {"markPiece", "prepare", "send"}}
Unposted(j) == {w \in Workers : exec[w].job = j
                                /\ exec[w].pc \notin {"recordJob", "recordPiece", "recordRest"}}
Unmarked(j) == {w \in Workers : exec[w].job = j /\ exec[w].pc \in {"read", "gate", "mark"}}

\* An executor has the entry of a row.
Held(j) == timer[j].state = "active" /\ exec[timer[j].holder].job = j

\* The executors that the entry of a row may still wake without a fault: one, until it is
\* completed, failed, or held by one.
Wakes(j) == IF timer[j].state \in {"completed", "failed"} \/ Held(j) THEN 0 ELSE 1

\* The attempts the entry may still give, besides the present one of its holder.
Tries(j) ==
  IF timer[j].state \in {"completed", "failed"} THEN 0
  ELSE IF Held(j) THEN PublishAttempts - timer[j].made - 1
  ELSE PublishAttempts - timer[j].made

\* The posts of a row, and those a platform may still make for calls without an answer.
Late(j) == {call \in lost : call.job = j}
Out(j)  == posts[j] + Cardinality(Late(j))

\* What has happened to a row, together with what can still happen to it without a fault,
\* stays within what the faults so far allow.
RowBudget(j) ==
  /\ Out(j) + Cardinality(Marked(j)) <= row[j].attempts
  /\ Out(j) + Wakes(j) + Cardinality(Unposted(j)) <= 1 + faults
  /\ row[j].attempts + Tries(j) + Cardinality(Unmarked(j)) <= PublishAttempts * (1 + faults)

\* What makes PostsAreCounted, PostsWithinFaults and AttemptBudget inductive.
BudgetInv == \A j \in Jobs : RowBudget(j)

\* Counting executors: a part counts less, one more or less counts one more or less.
LEMMA Headcount ==
  ASSUME NEW S \in SUBSET Workers
  PROVE  /\ Cardinality(S) \in Nat
         /\ \A R \in SUBSET S : Cardinality(R) \in Nat /\ Cardinality(R) <= Cardinality(S)
         /\ \A w \in Workers \ S : Cardinality(S \cup {w}) = Cardinality(S) + 1
         /\ \A w \in S : Cardinality(S \ {w}) = Cardinality(S) - 1
<1>1. IsFiniteSet(S)
  BY WorkersAssumption, FS_Subset
<1>. QED BY <1>1, FS_Subset, FS_CardinalityType, FS_AddElement, FS_RemoveElement

\* The executors at work on a row are among the workers.
LEMMA HeadsAreWorkers ==
  \A j \in Jobs : /\ Marked(j) \subseteq Workers /\ Marked(j)' \subseteq Workers
                  /\ Unposted(j) \subseteq Workers /\ Unposted(j)' \subseteq Workers
                  /\ Unmarked(j) \subseteq Workers /\ Unmarked(j)' \subseteq Workers
BY DEF Marked, Unposted, Unmarked

\* An entry wakes at most one executor at a time, and gives at most all its attempts.
LEMMA WakesAndTries ==
  ASSUME TypeOK, LockInv, NEW j \in Jobs
  PROVE  Wakes(j) \in 0..1 /\ Tries(j) \in 0..PublishAttempts
BY BoundAssumption DEF TypeOK, TimerEntry, LockInv, Wakes, Tries

\* The same of the next state.
LEMMA WakesAndTriesNext ==
  ASSUME TypeOK', LockInv', NEW j \in Jobs
  PROVE  Wakes(j)' \in 0..1 /\ Tries(j)' \in 0..PublishAttempts
BY BoundAssumption DEF TypeOK, TimerEntry, LockInv, Wakes, Tries

\* The calls of a row, and with them what is out, are counted in finite numbers.
LEMMA OutIsANumber ==
  ASSUME TypeOK, NEW j \in Jobs
  PROVE  /\ IsFiniteSet(Late(j)) /\ Cardinality(Late(j)) \in Nat
         /\ posts[j] \in Nat /\ Out(j) \in Nat /\ Out(j) >= posts[j]
<1>1. IsFiniteSet(Late(j))
  BY FS_Subset DEF TypeOK, Late
<1>2. Cardinality(Late(j)) \in Nat /\ posts[j] \in Nat
  BY <1>1, FS_CardinalityType DEF TypeOK
<1>. QED BY <1>1, <1>2 DEF Out

\* As long as nothing is posted or lost for a row, what is out stays the same.
LEMMA OutStays ==
  ASSUME NEW j \in Jobs, posts'[j] = posts[j], Late(j)' = Late(j)
  PROVE  Out(j)' = Out(j)
BY DEF Out

\* Each fault pays for all the attempts of one entry.
LEMMA FaultPays ==
  ASSUME NEW f \in Nat
  PROVE  /\ PublishAttempts * (1 + (f + 1)) = PublishAttempts * (1 + f) + PublishAttempts
         /\ PublishAttempts * (1 + f) \in Nat
BY BoundAssumption

\* A row to which nothing happens keeps its budget, and a fault may at that renew its
\* entry.
LEMMA RowKeeps ==
  ASSUME TypeOK, TypeOK', LockInv, LockInv', NEW j \in Jobs, RowBudget(j),
         Out(j)' = Out(j), row'[j].attempts = row[j].attempts,
         Marked(j)' \subseteq Marked(j), Unposted(j)' \subseteq Unposted(j),
         Unmarked(j)' \subseteq Unmarked(j),
         \/ faults' = faults + 1
         \/ faults' = faults /\ Wakes(j)' <= Wakes(j) /\ Tries(j)' <= Tries(j)
  PROVE  RowBudget(j)'
<1>1. /\ Out(j) \in Nat /\ row[j].attempts \in Nat /\ faults \in Nat
      /\ PublishAttempts \in Nat
  BY BoundAssumption, OutIsANumber DEF TypeOK
<1>2. /\ Cardinality(Marked(j)) \in Nat /\ Cardinality(Marked(j)') \in Nat
      /\ Cardinality(Marked(j)') <= Cardinality(Marked(j))
  BY Headcount, HeadsAreWorkers
<1>3. /\ Cardinality(Unposted(j)) \in Nat /\ Cardinality(Unposted(j)') \in Nat
      /\ Cardinality(Unposted(j)') <= Cardinality(Unposted(j))
  BY Headcount, HeadsAreWorkers
<1>4. /\ Cardinality(Unmarked(j)) \in Nat /\ Cardinality(Unmarked(j)') \in Nat
      /\ Cardinality(Unmarked(j)') <= Cardinality(Unmarked(j))
  BY Headcount, HeadsAreWorkers
<1>5. /\ Wakes(j) \in 0..1 /\ Tries(j) \in 0..PublishAttempts
      /\ Wakes(j)' \in 0..1 /\ Tries(j)' \in 0..PublishAttempts
  BY WakesAndTries, WakesAndTriesNext
<1>6. /\ PublishAttempts * (1 + (faults + 1))
           = PublishAttempts * (1 + faults) + PublishAttempts
      /\ PublishAttempts * (1 + faults) \in Nat
  BY <1>1, FaultPays
<1>. HIDE DEF Marked, Unposted, Unmarked, Wakes, Tries, Out
<1>7. Out(j)' + Cardinality(Marked(j)') <= row'[j].attempts
  BY <1>1, <1>2 DEF RowBudget
<1>8. Out(j)' + Wakes(j)' + Cardinality(Unposted(j)') <= 1 + faults'
  BY <1>1, <1>3, <1>5 DEF RowBudget
<1>9. row'[j].attempts + Tries(j)' + Cardinality(Unmarked(j)')
        <= PublishAttempts * (1 + faults')
  <2>1. CASE faults' = faults
    BY <1>1, <1>4, <1>5, <1>6, <2>1 DEF RowBudget
  <2>2. CASE faults' = faults + 1
    <3>1. PublishAttempts * (1 + faults')
            = PublishAttempts * (1 + faults) + PublishAttempts
      BY <1>6, <2>2
    <3>. QED BY <1>1, <1>4, <1>5, <1>6, <3>1 DEF RowBudget
  <2>. QED BY <2>1, <2>2
<1>. QED BY <1>7, <1>8, <1>9 DEF RowBudget

\* Whether an executor has the entry of a row is not for another row's executor to change,
\* nor for its own as long as it goes on.
LEMMA StaysHeld ==
  ASSUME TypeOK, LockInv, NEW w \in Workers, Execution(w), NEW j \in Jobs,
         j # exec[w].job \/ exec'[w].pc # "idle"
  PROVE  timer'[j] = timer[j] /\ Wakes(j)' = Wakes(j) /\ Tries(j)' = Tries(j)
<1>1. timer'[j] = timer[j]
  BY ExecutionFrame, ExecutionEntry DEF Idle
<1>2. \A v \in Workers : exec'[v].job = j <=> exec[v].job = j
  BY NoneAssumption, ExecutionFrame, ExecutionEntry DEF Idle
<1>3. timer[j].state = "active" => timer[j].holder \in Workers
  BY DEF TypeOK, TimerEntry, LockInv
<1>4. Held(j)' <=> Held(j)
  BY <1>1, <1>2, <1>3 DEF Held
<1>. QED BY <1>1, <1>4 DEF Wakes, Tries

\* A row keeps its budget under the steps of another row's executor.
LEMMA OthersKeepBudget ==
  ASSUME TypeOK, TypeOK', LockInv, LockInv', NEW w \in Workers, Execution(w),
         NEW j \in Jobs, j # exec[w].job, RowBudget(j)
  PROVE  RowBudget(j)'
<1>1. /\ \A v \in Workers \ {w} : exec'[v] = exec[v]
      /\ exec'[w].job # j
      /\ row'[j] = row[j] /\ posts'[j] = posts[j]
      /\ Late(j)' = Late(j)
  BY NoneAssumption, ExecutionFrame, ExecutionEntry DEF Idle, Late
<1>2. /\ Marked(j)' \subseteq Marked(j) /\ Unposted(j)' \subseteq Unposted(j)
      /\ Unmarked(j)' \subseteq Unmarked(j)
  BY <1>1 DEF Marked, Unposted, Unmarked
<1>3. Wakes(j)' = Wakes(j) /\ Tries(j)' = Tries(j)
  BY StaysHeld
<1>4. Wakes(j) \in 0..1 /\ Tries(j) \in 0..PublishAttempts /\ PublishAttempts \in Nat
  BY WakesAndTries, BoundAssumption
<1>5. faults' \in {faults, faults + 1}
  BY ExecutionEntry
<1>6. Out(j)' = Out(j)
  BY <1>1, OutStays
<1>. HIDE DEF RowBudget
<1>. QED BY <1>1, <1>2, <1>3, <1>4, <1>5, <1>6, RowKeeps

\* Where an executor that goes on is counted follows from its label.
LEMMA GoesOn ==
  ASSUME TypeOK, NEW w \in Workers, Execution(w), exec'[w].pc # "idle",
         NEW j \in Jobs, exec[w].job = j
  PROVE  /\ w \in Marked(j) <=> exec[w].pc \in {"markPiece", "prepare", "send"}
         /\ w \in Unposted(j) <=> exec[w].pc \notin {"recordJob", "recordPiece", "recordRest"}
         /\ w \in Unmarked(j) <=> exec[w].pc \in {"read", "gate", "mark"}
         /\ Marked(j)' = IF exec'[w].pc \in {"markPiece", "prepare", "send"}
                         THEN Marked(j) \cup {w} ELSE Marked(j) \ {w}
         /\ Unposted(j)' = IF exec'[w].pc \notin {"recordJob", "recordPiece", "recordRest"}
                           THEN Unposted(j) \cup {w} ELSE Unposted(j) \ {w}
         /\ Unmarked(j)' = IF exec'[w].pc \in {"read", "gate", "mark"}
                           THEN Unmarked(j) \cup {w} ELSE Unmarked(j) \ {w}
<1>1. (\A v \in Workers \ {w} : exec'[v] = exec[v]) /\ exec'[w].job = j
  BY ExecutionFrame
<1>2. /\ w \in Marked(j) <=> exec[w].pc \in {"markPiece", "prepare", "send"}
      /\ Marked(j)' = IF exec'[w].pc \in {"markPiece", "prepare", "send"}
                      THEN Marked(j) \cup {w} ELSE Marked(j) \ {w}
  BY <1>1 DEF Marked
<1>3. /\ w \in Unposted(j) <=> exec[w].pc \notin {"recordJob", "recordPiece", "recordRest"}
      /\ Unposted(j)' = IF exec'[w].pc \notin {"recordJob", "recordPiece", "recordRest"}
                        THEN Unposted(j) \cup {w} ELSE Unposted(j) \ {w}
  BY <1>1 DEF Unposted
<1>4. /\ w \in Unmarked(j) <=> exec[w].pc \in {"read", "gate", "mark"}
      /\ Unmarked(j)' = IF exec'[w].pc \in {"read", "gate", "mark"}
                        THEN Unmarked(j) \cup {w} ELSE Unmarked(j) \ {w}
  BY <1>1 DEF Unmarked
<1>. QED BY <1>2, <1>3, <1>4

\* A row keeps its budget under the steps of its own executors.
LEMMA OwnersKeepBudget ==
  ASSUME TypeOK, TypeOK', LockInv, LockInv', NEW w \in Workers, Execution(w),
         NEW j \in Jobs, exec[w].job = j, RowBudget(j)
  PROVE  RowBudget(j)'
<1>1. /\ Out(j) \in Nat /\ row[j].attempts \in Nat /\ faults \in Nat
      /\ PublishAttempts \in Nat
      /\ Cardinality(Marked(j)) \in Nat /\ Cardinality(Unposted(j)) \in Nat
      /\ Cardinality(Unmarked(j)) \in Nat
      /\ Wakes(j) \in 0..1 /\ Tries(j) \in 0..PublishAttempts
      /\ PublishAttempts * (1 + faults) \in Nat
      /\ PublishAttempts * (1 + (faults + 1))
           = PublishAttempts * (1 + faults) + PublishAttempts
  BY BoundAssumption, FaultPays, WakesAndTries, Headcount, HeadsAreWorkers, OutIsANumber
  DEF TypeOK
<1>2. /\ exec[w].pc # "idle" /\ \A v \in Workers \ {w} : exec'[v] = exec[v]
      /\ faults' \in {faults, faults + 1}
  BY ExecutionFrame, ExecutionEntry
<1>3. /\ Marked(j) \in SUBSET Workers /\ Unposted(j) \in SUBSET Workers
      /\ Unmarked(j) \in SUBSET Workers
  BY HeadsAreWorkers
\* What is out stays the same as long as nothing is posted or lost.
<1>0. UNCHANGED <<posts, lost>> => Out(j)' = Out(j)
  BY DEF Out, Late
\* Between labels that count alike, nothing is spent.
<1>4. ASSUME UNCHANGED <<posts, lost>>, row'[j].attempts = row[j].attempts,
             exec'[w].pc # "idle",
             exec'[w].pc \in {"markPiece", "prepare", "send"}
               => exec[w].pc \in {"markPiece", "prepare", "send"},
             exec'[w].pc \in {"read", "gate", "mark"}
               => exec[w].pc \in {"read", "gate", "mark"},
             exec[w].pc \in {"recordJob", "recordPiece", "recordRest"}
               => exec'[w].pc \in {"recordJob", "recordPiece", "recordRest"}
      PROVE  RowBudget(j)'
  <2>1. /\ Marked(j)' \subseteq Marked(j) /\ Unposted(j)' \subseteq Unposted(j)
        /\ Unmarked(j)' \subseteq Unmarked(j)
    <3>1. Marked(j)' \subseteq Marked(j)
      BY <1>4, GoesOn
    <3>2. Unposted(j)' \subseteq Unposted(j)
      BY <1>4, GoesOn
    <3>3. Unmarked(j)' \subseteq Unmarked(j)
      BY <1>4, GoesOn
    <3>. QED BY <3>1, <3>2, <3>3
  <2>2. Wakes(j)' = Wakes(j) /\ Tries(j)' = Tries(j)
    BY <1>4, StaysHeld
  <2>. QED BY <1>0, <1>1, <1>2, <1>4, <2>1, <2>2, RowKeeps
\* The attempt is counted: what may still count one may now post.
<1>5. CASE MarkJob(w)
  <2>1. /\ exec[w].pc = "mark" /\ exec'[w].pc = "markPiece"
        /\ Out(j)' = Out(j) /\ faults' = faults
        /\ row'[j].attempts = row[j].attempts + 1
    BY <1>0, <1>5 DEF MarkJob, Goto, TypeOK, ExecOK
  <2>2. /\ w \notin Marked(j) /\ Marked(j)' = Marked(j) \cup {w}
        /\ w \in Unposted(j) /\ Unposted(j)' = Unposted(j) \cup {w}
        /\ w \in Unmarked(j) /\ Unmarked(j)' = Unmarked(j) \ {w}
    BY <2>1, GoesOn
  <2>3. /\ Cardinality(Marked(j)') = Cardinality(Marked(j)) + 1
        /\ Unposted(j)' = Unposted(j)
        /\ Cardinality(Unmarked(j)') = Cardinality(Unmarked(j)) - 1
    BY <1>3, <2>2, Headcount
  <2>4. Wakes(j)' = Wakes(j) /\ Tries(j)' = Tries(j)
    BY <2>1, StaysHeld
  <2> HIDE DEF Marked, Unposted, Unmarked, Wakes, Tries, Out
  <2>. QED BY <1>1, <2>1, <2>3, <2>4 DEF RowBudget
\* The post is made: what may still post has posted.
<1>6. CASE SendAccepted(w)
  <2>0. exec[w].pc = "send" /\ exec'[w].pc = "recordJob" /\ faults' = faults /\ row' = row
    BY <1>6 DEF SendAccepted, Goto, TypeOK, ExecOK
  <2>1. Out(j)' = Out(j) + 1
    <3>1. posts'[j] = posts[j] + 1 /\ Late(j)' = Late(j)
      BY <1>6 DEF SendAccepted, PostAppears, Late, TypeOK
    <3>. QED BY <3>1, OutIsANumber DEF Out
  <2>2. /\ w \in Marked(j) /\ Marked(j)' = Marked(j) \ {w}
        /\ w \in Unposted(j) /\ Unposted(j)' = Unposted(j) \ {w}
        /\ w \notin Unmarked(j) /\ Unmarked(j)' = Unmarked(j) \ {w}
    BY <2>0, GoesOn
  <2>3. /\ Cardinality(Marked(j)') = Cardinality(Marked(j)) - 1
        /\ Cardinality(Unposted(j)') = Cardinality(Unposted(j)) - 1
        /\ Unmarked(j)' = Unmarked(j)
    BY <1>3, <2>2, Headcount
  <2>4. Wakes(j)' = Wakes(j) /\ Tries(j)' = Tries(j)
    BY <2>0, StaysHeld
  <2> HIDE DEF Marked, Unposted, Unmarked, Wakes, Tries, Out
  <2>. QED BY <1>1, <2>0, <2>1, <2>3, <2>4 DEF RowBudget
\* The answer is lost: the post may still be made, and be made again, and a fault pays.
<1>7. CASE SendAnswerLost(w)
  <2>0. exec[w].pc = "send" /\ exec'[w].pc = "catchJob" /\ faults' = faults + 1 /\ row' = row
    BY <1>7, Moves DEF SendAnswerLost, Fault
  <2>1. Out(j)' <= Out(j) + 1 /\ Out(j)' \in Nat
    <3>1. posts' = posts /\ Late(j)' = Late(j) \cup {CallOf(w)}
      BY <1>7 DEF SendAnswerLost, CallOf, Late
    <3>2. Cardinality(Late(j)') \in {Cardinality(Late(j)), Cardinality(Late(j)) + 1}
      BY <3>1, OutIsANumber, FS_AddElement
    <3>. QED BY <3>1, <3>2, OutIsANumber DEF Out
  <2>2. /\ w \in Marked(j) /\ Marked(j)' = Marked(j) \ {w}
        /\ w \in Unposted(j) /\ Unposted(j)' = Unposted(j) \cup {w}
        /\ w \notin Unmarked(j) /\ Unmarked(j)' = Unmarked(j) \ {w}
    BY <2>0, GoesOn
  <2>3. /\ Cardinality(Marked(j)') = Cardinality(Marked(j)) - 1
        /\ Unposted(j)' = Unposted(j)
        /\ Unmarked(j)' = Unmarked(j)
    BY <1>3, <2>2, Headcount
  <2>4. Wakes(j)' = Wakes(j) /\ Tries(j)' = Tries(j)
    BY <2>0, StaysHeld
  <2>5. PublishAttempts * (1 + faults')
          = PublishAttempts * (1 + faults) + PublishAttempts
    BY <1>1, <2>0
  <2> HIDE DEF Marked, Unposted, Unmarked, Wakes, Tries, Out
  <2>. QED BY <1>1, <2>0, <2>1, <2>3, <2>4, <2>5 DEF RowBudget
\* The record fails: what has posted may post again, and a fault pays.
<1>8. CASE DatabaseError(w) /\ exec[w].pc \in {"recordJob", "recordPiece", "recordRest"}
  <2>1. /\ exec'[w].pc = "catchJob" /\ Out(j)' = Out(j) /\ faults' = faults + 1 /\ row' = row
    <3>1. Throw(w, "permanent")
      BY <1>8 DEF DatabaseError
    <3>. QED BY <1>0, <1>8, <3>1, Moves DEF DatabaseError, Fault
  <2>2. /\ w \notin Marked(j) /\ Marked(j)' = Marked(j) \ {w}
        /\ w \notin Unposted(j) /\ Unposted(j)' = Unposted(j) \cup {w}
        /\ w \notin Unmarked(j) /\ Unmarked(j)' = Unmarked(j) \ {w}
    BY <1>8, <2>1, GoesOn
  <2>3. /\ Marked(j)' = Marked(j)
        /\ Cardinality(Unposted(j)') = Cardinality(Unposted(j)) + 1
        /\ Unmarked(j)' = Unmarked(j)
    BY <1>3, <2>2, Headcount
  <2>4. Wakes(j)' = Wakes(j) /\ Tries(j)' = Tries(j)
    BY <2>1, StaysHeld
  <2>5. PublishAttempts * (1 + faults')
          = PublishAttempts * (1 + faults) + PublishAttempts
    BY <1>1, <2>1
  <2> HIDE DEF Marked, Unposted, Unmarked, Wakes, Tries, Out
  <2>. QED BY <1>1, <2>1, <2>3, <2>4, <2>5 DEF RowBudget
\* The executor is done: if it fails with its lock, the entry wakes the next one in its
\* stead.
<1>9. CASE Complete(w) \/ Fail(w)
  <2>1. exec'[w] = Idle /\ faults' = faults /\ Out(j)' = Out(j) /\ row' = row
    BY <1>0, <1>9 DEF Complete, Fail, Finish, TypeOK, ExecOK
  <2>2. /\ Marked(j)' \subseteq Marked(j) /\ Unposted(j)' \subseteq Unposted(j)
        /\ Unmarked(j)' \subseteq Unmarked(j)
    BY <1>2, <2>1, NoneAssumption DEF Marked, Unposted, Unmarked, Idle
  <2>3. CASE timer'[j].state \in {"completed", "failed"}
    <3>1. Wakes(j)' = 0 /\ Tries(j)' = 0
      BY <2>3 DEF Wakes, Tries
    <3>. QED BY <1>1, <2>1, <2>2, <3>1, RowKeeps
  <2>4. CASE timer' = timer /\ timer[j].holder # w
    <3>1. timer[j].state = "active" => timer[j].holder \in Workers
      BY DEF TypeOK, TimerEntry, LockInv
    <3>2. Held(j)' <=> Held(j)
      BY <1>2, <2>4, <3>1 DEF Held
    <3>3. Wakes(j)' = Wakes(j) /\ Tries(j)' = Tries(j)
      BY <2>4, <3>2 DEF Wakes, Tries
    <3>. QED BY <1>1, <2>1, <2>2, <3>3, RowKeeps
  <2>5. CASE /\ exec[w].pc = "fail" /\ timer[j].holder = w
             /\ timer'[j].state = "waiting" /\ timer'[j].made = timer[j].made + 1
    <3>1. timer[j].state = "active" /\ Held(j) /\ timer[j].made \in Nat
      BY <2>5, NoneAssumption DEF TypeOK, LockInv, TimerEntry, Held
    <3>2. ~Held(j)'
      BY <2>5 DEF Held
    <3>3. Wakes(j) = 0 /\ Wakes(j)' = 1 /\ Tries(j)' = Tries(j)
      BY <1>1, <2>5, <3>1, <3>2 DEF Wakes, Tries
    <3>4. w \in Unposted(j) /\ Unposted(j)' \subseteq Unposted(j) \ {w}
      BY <1>2, <2>1, <2>5, NoneAssumption DEF Unposted, Idle
    <3>5. /\ Cardinality(Unposted(j)') <= Cardinality(Unposted(j)) - 1
          /\ Cardinality(Unposted(j)') \in Nat
      <4>1. Unposted(j) \ {w} \in SUBSET Workers
        BY <1>3
      <4>2. Unposted(j)' \in SUBSET (Unposted(j) \ {w})
        BY <3>4
      <4>3. Cardinality(Unposted(j) \ {w}) = Cardinality(Unposted(j)) - 1
        BY <1>3, <3>4, Headcount
      <4>. QED BY <4>1, <4>2, <4>3, Headcount
    <3>6. /\ Cardinality(Marked(j)') <= Cardinality(Marked(j))
          /\ Cardinality(Unmarked(j)') <= Cardinality(Unmarked(j))
          /\ Cardinality(Marked(j)') \in Nat /\ Cardinality(Unmarked(j)') \in Nat
      BY <1>3, <2>2, Headcount
    <3> HIDE DEF Marked, Unposted, Unmarked, Wakes, Tries, Out
    <3>. QED BY <1>1, <2>1, <3>3, <3>5, <3>6 DEF RowBudget
  <2>6. exec'[w].pc = "idle"
    BY <2>1 DEF Idle
  <2>. QED BY <2>3, <2>4, <2>5, <2>6, ExecutionEntry
<1>10. CASE Read(w)
  <2>1. UNCHANGED <<posts, lost, row>>
    BY <1>10 DEF Read
  <2>. QED BY <1>4, <1>10, <2>1, ReadLeads
<1>11. CASE Gate(w)            BY <1>4, <1>11 DEF Gate, Goto, TypeOK, ExecOK
<1>12. CASE MarkPiece(w)       BY <1>4, <1>12 DEF MarkPiece, Goto, TypeOK, ExecOK
<1>13. CASE Prepare(w)
  <2>1. /\ UNCHANGED <<posts, lost, row>> /\ exec[w].pc = "prepare"
        /\ exec'[w].pc \in {"send", "catchJob"}
    BY <1>13, Moves DEF Prepare
  <2>. QED BY <1>4, <2>1
<1>14. CASE SendRejected(w)    BY <1>4, <1>14 DEF SendRejected, Throw, TypeOK, ExecOK
<1>15. CASE RecordJob(w)       BY <1>4, <1>15 DEF RecordJob, Goto, SetStatus, TypeOK, ExecOK
<1>16. CASE RecordPiece(w)     BY <1>4, <1>16 DEF RecordPiece, Goto, TypeOK, ExecOK
<1>17. CASE CatchJob(w)        BY <1>4, <1>17 DEF CatchJob, Goto, SetStatus, TypeOK, ExecOK
<1>18. CASE CatchPiece(w)      BY <1>4, <1>18 DEF CatchPiece, Goto, TypeOK, ExecOK
<1>19. CASE CatchAccount(w)    BY <1>4, <1>19 DEF CatchAccount, Goto, TypeOK, ExecOK
<1>20. CASE DatabaseError(w) /\ exec[w].pc \notin {"recordJob", "recordPiece", "recordRest"}
  <2>1. UNCHANGED <<posts, lost, row>> /\ exec'[w].pc \in {"catchJob", "fail"}
    BY <1>20, Moves DEF DatabaseError
  <2>. QED BY <1>4, <1>20, <2>1
<1>. QED
  BY <1>5, <1>6, <1>7, <1>8, <1>9, <1>10, <1>11, <1>12, <1>13, <1>14, <1>15, <1>16, <1>17,
     <1>18, <1>19, <1>20 DEF Execution, Step

\* Taking an entry is what it was there to wake; the attempt it starts is one of those it
\* had left.
LEMMA TakeKeepsBudget ==
  ASSUME TypeOK, TypeOK', LockInv, LockInv', NEW w \in Workers, NEW i \in Jobs, Take(w, i),
         NEW j \in Jobs, RowBudget(j)
  PROVE  RowBudget(j)'
<1>0. Out(j)' = Out(j)
  BY DEF Take, Out, Late
<1>1. /\ UNCHANGED <<row, faults>>
      /\ exec[w] = Idle /\ exec'[w].pc = "read" /\ exec'[w].job = i
      /\ \A v \in Workers \ {w} : exec'[v] = exec[v]
      /\ timer[i].state = "waiting" /\ timer'[i].state = "active" /\ timer'[i].holder = w
      /\ timer'[i].made = timer[i].made
      /\ \A k \in Jobs \ {i} : timer'[k] = timer[k]
  BY DEF Take, TypeOK, ExecOK, TimerEntry, Idle
<1>2. /\ Out(j) \in Nat /\ row[j].attempts \in Nat /\ faults \in Nat
      /\ PublishAttempts \in Nat /\ timer[j].made \in Nat
      /\ Wakes(j) \in 0..1 /\ Tries(j) \in 0..PublishAttempts
      /\ PublishAttempts * (1 + faults) \in Nat
  BY BoundAssumption, FaultPays, WakesAndTries, OutIsANumber DEF TypeOK, TimerEntry
<1>3. Marked(j)' \subseteq Marked(j)
  BY <1>1 DEF Marked
<1>4. CASE j # i
  <2>1. Unposted(j)' \subseteq Unposted(j) /\ Unmarked(j)' \subseteq Unmarked(j)
    BY <1>1, <1>4 DEF Unposted, Unmarked
  <2>2. Held(j)' <=> Held(j)
    <3>1. timer[j].state = "active" => timer[j].holder \in Workers
      BY DEF TypeOK, TimerEntry, LockInv
    <3>. QED BY <1>1, <1>4, <3>1, NoneAssumption DEF Held, Idle
  <2>3. Wakes(j)' = Wakes(j) /\ Tries(j)' = Tries(j)
    BY <1>1, <1>4, <2>2 DEF Wakes, Tries
  <2>. QED BY <1>0, <1>1, <1>2, <1>3, <2>1, <2>3, RowKeeps
<1>5. CASE j = i
  <2>1. Wakes(j) = 1 /\ Wakes(j)' = 0 /\ Tries(j)' = Tries(j) - 1
    BY <1>1, <1>2, <1>5 DEF Wakes, Tries, Held
  <2>2. /\ w \notin Unposted(j) /\ Unposted(j)' = Unposted(j) \cup {w}
        /\ w \notin Unmarked(j) /\ Unmarked(j)' = Unmarked(j) \cup {w}
    BY <1>1, <1>5, NoneAssumption DEF Unposted, Unmarked, Idle
  <2>3. /\ Marked(j) \in SUBSET Workers /\ Unposted(j) \in SUBSET Workers
        /\ Unmarked(j) \in SUBSET Workers
    BY HeadsAreWorkers
  <2>4. /\ Cardinality(Marked(j)) \in Nat /\ Cardinality(Unposted(j)) \in Nat
        /\ Cardinality(Unmarked(j)) \in Nat /\ Cardinality(Marked(j)') \in Nat
        /\ Cardinality(Marked(j)') <= Cardinality(Marked(j))
    BY <1>3, <2>3, Headcount
  <2>5. /\ Cardinality(Unposted(j)') = Cardinality(Unposted(j)) + 1
        /\ Cardinality(Unmarked(j)') = Cardinality(Unmarked(j)) + 1
    BY <2>2, <2>3, Headcount
  <2> HIDE DEF Marked, Unposted, Unmarked, Wakes, Tries, Out
  <2>. QED BY <1>0, <1>1, <1>2, <2>1, <2>4, <2>5 DEF RowBudget
<1>. QED BY <1>4, <1>5

\* A crash turns executors that may still post into calls that may: those that are sending.
\* The one that BullMQ then wakes again is paid for by the fault.
LEMMA CrashKeepsBudget ==
  ASSUME TypeOK, TypeOK', LockInv, LockInv', WorkerCrash, NEW j \in Jobs, RowBudget(j)
  PROVE  RowBudget(j)'
<1>1. PICK sent \in SUBSET {w \in Workers : exec[w].pc = "send"} :
        lost' = lost \cup {CallOf(w) : w \in sent}
  BY DEF WorkerCrash
<1> DEFINE mine == {w \in sent : exec[w].job = j}
           calls == {CallOf(w) : w \in mine}
<1>2. /\ UNCHANGED <<row, posts>> /\ faults' = faults + 1
      /\ \A w \in Workers : exec'[w] = Idle
  BY DEF WorkerCrash, Fault
<1>3. Marked(j)' = {} /\ Unposted(j)' = {} /\ Unmarked(j)' = {}
  BY <1>2, NoneAssumption DEF Marked, Unposted, Unmarked, Idle
<1>4. mine \in SUBSET Marked(j) /\ mine \in SUBSET Unposted(j)
  BY DEF Marked, Unposted
<1>5. Late(j)' = Late(j) \cup calls
  BY <1>1 DEF Late, CallOf
<1>6. IsFiniteSet(calls) /\ IsFiniteSet(mine) /\ Cardinality(calls) <= Cardinality(mine)
  <2>1. mine \in SUBSET Workers /\ \A w \in mine : exec[w].job \in Jobs
    OBVIOUS
  <2> HIDE DEF mine
  <2>. QED BY <2>1, CallsAreFinite
<1>7. /\ Cardinality(mine) \in Nat /\ Cardinality(calls) \in Nat
      /\ Cardinality(mine) <= Cardinality(Marked(j))
      /\ Cardinality(mine) <= Cardinality(Unposted(j))
      /\ Cardinality(Marked(j)) \in Nat /\ Cardinality(Unposted(j)) \in Nat
      /\ Cardinality(Unmarked(j)) \in Nat
  <2> HIDE DEF mine, calls
  <2>. QED BY <1>4, <1>6, Headcount, HeadsAreWorkers, FS_CardinalityType
<1> HIDE DEF mine, calls
<1>8. Out(j)' <= Out(j) + Cardinality(calls) /\ Out(j)' \in Nat
  <2>1. Cardinality(Late(j)') = Cardinality(Late(j)) + Cardinality(calls)
                                - Cardinality(Late(j) \cap calls)
    BY <1>5, <1>6, OutIsANumber, FS_Union
  <2>2. Cardinality(Late(j) \cap calls) \in Nat
    BY <1>6, FS_Intersection, FS_CardinalityType
  <2>3. Cardinality(Late(j)) \in Nat /\ posts[j] \in Nat /\ posts'[j] = posts[j]
    BY <1>2, OutIsANumber
  <2>4. Cardinality(Late(j)') \in Nat
    BY <1>5, <1>6, OutIsANumber, FS_Union, FS_CardinalityType
  <2>5. Cardinality(Late(j)') <= Cardinality(Late(j)) + Cardinality(calls)
    BY <1>7, <2>1, <2>2, <2>3
  <2>6. Out(j)' = posts[j] + Cardinality(Late(j)') /\ Out(j) = posts[j] + Cardinality(Late(j))
    BY <2>3 DEF Out
  <2>. QED BY <1>7, <2>3, <2>4, <2>5, <2>6
<1>9. /\ Out(j) \in Nat /\ row[j].attempts \in Nat /\ faults \in Nat
      /\ PublishAttempts \in Nat
      /\ Wakes(j) \in 0..1 /\ Tries(j) \in 0..PublishAttempts
      /\ Wakes(j)' \in 0..1 /\ Tries(j)' \in 0..PublishAttempts
      /\ PublishAttempts * (1 + faults) \in Nat
      /\ PublishAttempts * (1 + (faults + 1))
           = PublishAttempts * (1 + faults) + PublishAttempts
  BY BoundAssumption, FaultPays, WakesAndTries, WakesAndTriesNext, OutIsANumber DEF TypeOK
<1>10. PublishAttempts * (1 + faults') = PublishAttempts * (1 + faults) + PublishAttempts
  BY <1>2, <1>9
<1>11. /\ Cardinality(Marked(j)') = 0 /\ Cardinality(Unposted(j)') = 0
       /\ Cardinality(Unmarked(j)') = 0
  BY <1>3, FS_EmptySet
<1> HIDE DEF Marked, Unposted, Unmarked, Wakes, Tries, Out
<1>. QED BY <1>2, <1>6, <1>7, <1>8, <1>9, <1>10, <1>11 DEF RowBudget

\* A post that a platform still makes was counted among what is out.
LEMMA LateKeepsBudget ==
  ASSUME TypeOK, TypeOK', LockInv, LockInv', NEW call \in lost, PostAppearsLate(call),
         NEW j \in Jobs, RowBudget(j)
  PROVE  RowBudget(j)'
<1>1. UNCHANGED <<row, exec, timer, faults>>
  BY DEF PostAppearsLate
<1>2. Out(j)' = Out(j)
  <2>1. CASE call.job = j
    <3>1. posts'[j] = posts[j] + 1 /\ Late(j)' = Late(j) \ {call} /\ call \in Late(j)
      BY <2>1 DEF PostAppearsLate, PostAppears, Late, TypeOK
    <3>2. Cardinality(Late(j)') = Cardinality(Late(j)) - 1
      BY <3>1, OutIsANumber, FS_RemoveElement
    <3>. QED BY <3>1, <3>2, OutIsANumber DEF Out
  <2>2. CASE call.job # j
    <3>1. posts'[j] = posts[j] /\ Late(j)' = Late(j)
      BY <2>2 DEF PostAppearsLate, PostAppears, Late, TypeOK
    <3>. QED BY <3>1, OutStays
  <2>. QED BY <2>1, <2>2
<1>3. /\ Marked(j)' = Marked(j) /\ Unposted(j)' = Unposted(j) /\ Unmarked(j)' = Unmarked(j)
      /\ Wakes(j)' = Wakes(j) /\ Tries(j)' = Tries(j)
  BY <1>1 DEF Marked, Unposted, Unmarked, Wakes, Tries, Held
<1>4. Wakes(j) \in 0..1 /\ Tries(j) \in 0..PublishAttempts /\ PublishAttempts \in Nat
  BY WakesAndTries, BoundAssumption
<1>. HIDE DEF RowBudget
<1>. QED BY <1>1, <1>2, <1>3, <1>4, RowKeeps

\* Every step keeps every row within its budget.
LEMMA BudgetInductive ==
  TypeOK /\ TypeOK' /\ LockInv /\ LockInv' /\ BudgetInv /\ [Next]_vars => BudgetInv'
<1> SUFFICES ASSUME TypeOK, TypeOK', LockInv, LockInv', BudgetInv, [Next]_vars,
                    NEW j \in Jobs
             PROVE  RowBudget(j)'
  BY DEF BudgetInv
<1>1. RowBudget(j)
  BY DEF BudgetInv
<1>2. /\ Wakes(j) \in 0..1 /\ Tries(j) \in 0..PublishAttempts /\ PublishAttempts \in Nat
      /\ timer[j].made \in Nat
  BY BoundAssumption, WakesAndTries DEF TypeOK, TimerEntry
<1>3. ASSUME NEW w \in Workers, Execution(w) PROVE RowBudget(j)'
  BY <1>1, <1>3, OthersKeepBudget, OwnersKeepBudget
<1>4. ASSUME NEW w \in Workers, NEW i \in Jobs, Take(w, i) PROVE RowBudget(j)'
  BY <1>1, <1>4, TakeKeepsBudget
\* The others neither post nor count, and leave the executors alone or take them away.
<1>5. ASSUME ~(\E w \in Workers : Execution(w)), ~Platforms, ~WorkerCrash,
             \A v \in Workers : exec'[v] \in {exec[v], Idle},
             \/ faults' = faults + 1
             \/ faults' = faults /\ Wakes(j)' <= Wakes(j) /\ Tries(j)' <= Tries(j)
      PROVE  RowBudget(j)'
  <2>1. /\ Marked(j)' \subseteq Marked(j) /\ Unposted(j)' \subseteq Unposted(j)
        /\ Unmarked(j)' \subseteq Unmarked(j)
    BY <1>5, NoneAssumption DEF Marked, Unposted, Unmarked, Idle
  <2>2. Out(j)' = Out(j)
    BY <1>5, OthersPostNothing DEF Out, Late
  <2>3. row'[j].attempts = row[j].attempts
    BY <1>5, OthersLeaveRows DEF RowsStand
  <2>. QED BY <1>1, <1>5, <2>1, <2>2, <2>3, RowKeeps
<1> DEFINE Executed == (\E w \in Workers : Execution(w)) \/ Platforms \/ WorkerCrash
<1>6. CASE ~Executed /\ Elsewhere
  <2>1. Wakes(j)' = Wakes(j) /\ Tries(j)' = Tries(j)
    BY <1>6 DEF Elsewhere, Wakes, Tries, Held
  <2>. QED BY <1>2, <1>5, <1>6, <2>1 DEF Elsewhere
<1>7. ASSUME NEW i \in Jobs, ReconcileAdd(i), ~Executed PROVE RowBudget(j)'
  <2>1. exec' = exec /\ faults' = faults
    BY <1>7 DEF ReconcileAdd
  <2>2. \/ timer'[j] = timer[j]
        \/ timer[j].state = "none" /\ timer'[j].state = "waiting" /\ timer'[j].made = 0
    BY <1>7 DEF ReconcileAdd, NoTimer, TypeOK, TimerEntry
  <2>3. Wakes(j)' = Wakes(j) /\ Tries(j)' = Tries(j)
    BY <1>2, <2>1, <2>2 DEF LockInv, Wakes, Tries, Held
  <2>. QED BY <1>2, <1>5, <1>7, <2>1, <2>3
<1>8. ASSUME NEW i \in Jobs, Stall(i), ~Executed PROVE RowBudget(j)'
  <2>1. exec' = exec /\ faults' = faults
    BY <1>8 DEF Stall, HandBack
  <2>2. \/ timer'[j] = timer[j]
        \/ /\ timer[j].state = "active" /\ exec[timer[j].holder].job # j
           /\ timer'[j].state \in {"waiting", "failed"} /\ timer'[j].made = timer[j].made
    BY <1>8 DEF Stall, HandBack, TypeOK, TimerEntry
  <2>3. Wakes(j)' <= Wakes(j) /\ Tries(j)' <= Tries(j)
    BY <1>2, <2>1, <2>2 DEF LockInv, Wakes, Tries, Held
  <2>. QED BY <1>5, <1>8, <2>1, <2>3
<1>9. CASE ~Executed /\ ((\E i \in Jobs : LockLost(i)) \/ RedisWipe)
  <2>1. faults' = faults + 1 /\ exec' = exec
    BY <1>9 DEF LockLost, HandBack, RedisWipe, Fault
  <2>. QED BY <1>5, <1>9, <2>1
<1>10. CASE WorkerCrash \/ Platforms
  BY <1>1, <1>10, CrashKeepsBudget, LateKeepsBudget DEF Platforms
<1>. QED BY <1>3, <1>4, <1>6, <1>7, <1>8, <1>9, <1>10, WhoMoves

\* Every run stays within the budget.
LEMMA BudgetIsKept == Spec => []BudgetInv
<1>1. Init => BudgetInv
  <2> SUFFICES ASSUME Init, NEW j \in Jobs PROVE RowBudget(j)
    BY DEF BudgetInv
  <2>1. Marked(j) = {} /\ Unposted(j) = {} /\ Unmarked(j) = {}
    BY NoneAssumption DEF Init, Idle, Marked, Unposted, Unmarked
  <2>2. Wakes(j) = 1 /\ Tries(j) = PublishAttempts
    BY BoundAssumption DEF Init, NoTimer, Wakes, Tries, Held
  <2>3. Out(j) = 0 /\ row[j].attempts = 0 /\ faults = 0
    <3>1. Late(j) = {} /\ posts[j] = 0
      BY DEF Init, Late
    <3>. QED BY <3>1, FS_EmptySet DEF Init, Absent, Out
  <2>4. PublishAttempts * (1 + 0) = PublishAttempts /\ PublishAttempts \in Nat
    BY BoundAssumption
  <2>. QED BY <2>1, <2>2, <2>3, <2>4, FS_EmptySet DEF RowBudget
<1>. QED BY <1>1, BudgetInductive, LocksAreKept, TypeCorrect, PTL DEF Spec

\* The budget is what the three properties say, and more.
LEMMA BudgetSuffices ==
  ASSUME TypeOK, LockInv, BudgetInv
  PROVE  PostsAreCounted /\ PostsWithinFaults /\ AttemptBudget
<1> SUFFICES ASSUME NEW j \in Jobs
             PROVE  /\ posts[j] <= row[j].attempts
                    /\ posts[j] <= 1 + faults
                    /\ row[j].attempts <= PublishAttempts * (1 + faults)
  BY DEF PostsAreCounted, PostsWithinFaults, AttemptBudget
<1>1. /\ posts[j] \in Nat /\ row[j].attempts \in Nat /\ faults \in Nat
      /\ Out(j) \in Nat /\ Out(j) >= posts[j]
      /\ Wakes(j) \in 0..1 /\ Tries(j) \in 0..PublishAttempts /\ PublishAttempts \in Nat
      /\ PublishAttempts * (1 + faults) \in Nat
  BY BoundAssumption, FaultPays, WakesAndTries, OutIsANumber DEF TypeOK
<1>2. /\ Cardinality(Marked(j)) \in Nat /\ Cardinality(Unposted(j)) \in Nat
      /\ Cardinality(Unmarked(j)) \in Nat
  BY Headcount, HeadsAreWorkers
<1>3. RowBudget(j)
  BY DEF BudgetInv
<1> HIDE DEF Marked, Unposted, Unmarked, Wakes, Tries, Out
<1>. QED BY <1>1, <1>2, <1>3 DEF RowBudget

\* Every post is covered by an attempt counted before it was made, however many executors,
\* retries and faults there are.
THEOREM PostsNeverOutrunAttempts == Spec => []PostsAreCounted
BY BudgetIsKept, LocksAreKept, TypeCorrect, BudgetSuffices, PTL

\* One row makes one post, and each fault costs at most one more.
THEOREM OnePostAndOnePerFault == Spec => []PostsWithinFaults
BY BudgetIsKept, LocksAreKept, TypeCorrect, BudgetSuffices, PTL

\* A row reaches the platform at most PublishAttempts times, and that many more for each
\* fault.
THEOREM AttemptsStayInBudget == Spec => []AttemptBudget
BY BudgetIsKept, LocksAreKept, TypeCorrect, BudgetSuffices, PTL
=============================================================================
