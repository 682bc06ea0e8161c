----------------------------- MODULE Publishing -----------------------------
(***************************************************************************)
(* The publishing core: the rows of PublishingJob and ContentPiece in      *)
(* Postgres, the BullMQ timers in Redis that wake a worker for a row, the  *)
(* worker's executors (PublishingService.execute), the reconciler that     *)
(* re-arms timers from rows, the stop controls, and the API calls that     *)
(* schedule, approve, archive and clear.                                   *)
(*                                                                         *)
(* Every await of the code that reads or writes shared state is a step of  *)
(* its own: between two of them any other process may run.  What can go    *)
(* wrong outside the program (a crash, a wiped Redis, a lost lock, an      *)
(* answer that never arrives, a failed database call) is a step that       *)
(* spends one unit of MaxFaults.                                           *)
(***************************************************************************)
EXTENDS Lifecycle, Integers, FiniteSets

CONSTANTS
  Pieces,           \* content pieces
  Accounts,         \* social accounts of the organization
  Delegates,        \* accounts whose platform schedules natively (Facebook)
  Workers,          \* executor slots of the publish worker (concurrency 2)
  Clients,          \* callers of the API, and the autonomous loop
  Ops,              \* what runs: {"schedule", "approve", "archive", "collect"}
  StopControls,     \* {"killSwitch", "publishingPaused"}
  Rejections,       \* how a platform refuses: {"retryable", "permanent", "auth"}
  MaxTime,          \* bound on the clock
  Horizon,          \* lookahead of the reconciler
  PublishAttempts,  \* PUBLISH_JOB_OPTIONS.attempts
  MaxStalls,        \* BullMQ's maxStalledCount
  FaultKinds,       \* faults the environment may inject
  MaxFaults,        \* bound on injected faults
  None

ASSUME WorkersAssumption == IsFiniteSet(Workers)
ASSUME SubsetAssumption ==
  /\ Delegates \subseteq Accounts
  /\ Ops \subseteq {"schedule", "approve", "archive", "collect"}
  /\ StopControls \subseteq {"killSwitch", "publishingPaused"}
  /\ Rejections \subseteq {"retryable", "permanent", "auth"}
  /\ FaultKinds \subseteq {"crash", "wipe", "lock", "answer", "database", "call"}
ASSUME BoundAssumption ==
  /\ MaxTime \in Nat
  /\ Horizon \in Nat
  /\ PublishAttempts \in Nat \ {0}
  /\ MaxStalls \in Nat
  /\ MaxFaults \in Nat

Times == 0..MaxTime

\* A row is identified by its idempotencyKey, piece:account:scheduledAt.
Jobs == Pieces \X Accounts \X Times
PieceOf(j)     == j[1]
AccountOf(j)   == j[2]
ScheduledAt(j) == j[3]

ASSUME NoneAssumption == None \notin Jobs /\ None \notin Workers
ASSUME IdAssumption == Pieces \cap Jobs = {}

VARIABLES
  now,       \* the wall clock
  piece,     \* ContentPiece.status
  row,       \* PublishingJob rows, "ABSENT" until created
  account,   \* SocialAccount.status, as far as publishing writes it
  timer,     \* BullMQ's entry publish:<id> in Redis
  arming,    \* rows the reconciler has read and not yet re-armed
  collecting, \* PUBLISHED rows analytics has listed and not yet got to
  wakeups,   \* what is yet to run the reconciler: its repeatable job in Redis, a boot
  exec,      \* the executor slots
  posts,     \* what exists on the platforms: posts made for each row
  lost,      \* calls the worker has no answer to and the platform may still act on
  stopped,   \* the stop controls that are engaged
  req,       \* API calls in progress
  (* history *)
  approved,  \* pieces that have ever been APPROVED by QA or by an editor
  faults,    \* faults so far
  leak,      \* posts made since the present stop was engaged
  owed,      \* what was past the stop check, or lost, when it was engaged
  quiet      \* rows cancelled, and pieces archived, while nobody was at work on them

vars == <<now, piece, row, account, timer, arming, collecting, wakeups, exec, posts,
          lost, stopped, req, approved, faults, leak, owed, quiet>>

JobStatus == {"QUEUED", "SCHEDULED", "PUBLISHING", "PUBLISHED", "FAILED", "CANCELLED"}
Waiting   == {"QUEUED", "SCHEDULED"}

Absent  == [status |-> "ABSENT", delegated |-> FALSE, attempts |-> 0]
NoTimer == [state |-> "none", made |-> 0, stalls |-> 0, holder |-> None]
Idle    == [pc |-> "idle", job |-> None, fit |-> FALSE, err |-> "none"]
NoCall  == [op |-> "idle"]

ScheduleCall == [op : {"schedule"}, piece : Pieces, todo : SUBSET Accounts,
                 dated : BOOLEAN, when : Times]
StatusCall   == [op : {"approve", "archive"}, piece : Pieces]

PC == {"idle", "read", "gate", "mark", "markPiece", "prepare", "send",
       "recordJob", "recordPiece", "recordRest",
       "catchJob", "catchPiece", "catchAccount", "fail"}

\* A call to a platform that ended without an answer, told apart by the fault it cost.
Call == [job : Jobs, by : Workers, fault : Nat]

TimerEntry == [state : {"none", "waiting", "active", "completed", "failed"},
               made : Nat, stalls : Nat, holder : Workers \cup {None}]

ExecOK ==
  /\ exec \in [Workers -> [pc : PC, job : Jobs \cup {None}, fit : BOOLEAN,
                           err : {"none", "retryable", "permanent", "auth"}]]
  /\ \A w \in Workers : exec[w].pc # "idle" => exec[w].job \in Jobs

\* The rows, timers, executors and calls have the shape the schema, BullMQ
\* and the handlers give them.
TypeOK ==
  /\ now \in Times
  /\ piece \in [Pieces -> ContentStatus]
  /\ row \in [Jobs -> [status : JobStatus \cup {"ABSENT"}, delegated : BOOLEAN,
                       attempts : Nat]]
  /\ account \in [Accounts -> {"CONNECTED", "TOKEN_EXPIRED"}]
  /\ timer \in [Jobs -> TimerEntry]
  /\ arming \subseteq Jobs
  /\ collecting \subseteq Jobs
  /\ wakeups \subseteq {"repeat", "boot"}
  /\ ExecOK
  /\ posts \in [Jobs -> Nat]
  /\ lost \subseteq Call /\ IsFiniteSet(lost)
  /\ stopped \subseteq StopControls
  /\ req \in [Clients -> {NoCall} \cup ScheduleCall \cup StatusCall]
  /\ approved \subseteq Pieces
  /\ faults \in Nat
  /\ leak \in Nat
  /\ owed \in Nat
  /\ quiet \subseteq Jobs \cup Pieces

\* Generation has left each piece approved by QA or in the exception queue.
Init ==
  /\ now = 0
  /\ piece \in [Pieces -> {"APPROVED", "FLAGGED"}]
  /\ row = [j \in Jobs |-> Absent]
  /\ account = [a \in Accounts |-> "CONNECTED"]
  /\ timer = [j \in Jobs |-> NoTimer]
  /\ arming = {}
  /\ collecting = {}
  /\ wakeups = {"repeat"}
  /\ exec = [w \in Workers |-> Idle]
  /\ posts = [j \in Jobs |-> 0]
  /\ lost = {}
  /\ stopped = {}
  /\ req = [c \in Clients |-> NoCall]
  /\ approved = {p \in Pieces : piece[p] = "APPROVED"}
  /\ faults = 0
  /\ leak = 0
  /\ owed = 0
  /\ quiet = {}

Fault(kind) ==
  /\ kind \in FaultKinds
  /\ faults < MaxFaults
  /\ faults' = faults + 1

Tick ==
  /\ now < MaxTime
  /\ now' = now + 1
  /\ UNCHANGED <<piece, row, account, timer, arming, collecting, wakeups, exec, posts, lost,
                 stopped, req, approved, faults, leak, owed, quiet>>

-----------------------------------------------------------------------------
(* API calls                                                               *)

\* PublishingService.schedule: the piece is read and checked once, at the start.
ScheduleRead(c, p, as, dated, when) ==
  /\ "schedule" \in Ops
  /\ req[c] = NoCall
  /\ IsPublishable(piece[p])
  /\ req' = [req EXCEPT ![c] = [op |-> "schedule", piece |-> p, todo |-> as,
                                dated |-> dated, when |-> when]]
  /\ UNCHANGED <<now, piece, row, account, timer, arming, collecting, wakeups, exec, posts,
                 lost, stopped, approved, faults, leak, owed, quiet>>

\* A call without a date stamps each row with the clock at its upsert.
StampOf(call) == IF call.dated THEN call.when ELSE now

\* decideSchedule: only a future date on a natively scheduling platform is DELEGATED.
NewRow(call, a) ==
  [status    |-> IF call.dated THEN "SCHEDULED" ELSE "QUEUED",
   delegated |-> call.dated /\ call.when > now /\ a \in Delegates,
   attempts  |-> 0]

\* Fault seeded for the mutation check: the upsert's update resets the row.
ScheduleUpsertResets(c, a) ==
  /\ req[c].op = "schedule"
  /\ a \in req[c].todo
  /\ row' = [row EXCEPT ![<<req[c].piece, a, StampOf(req[c])>>] = NewRow(req[c], a)]
  /\ req' = [req EXCEPT ![c].todo = @ \ {a}]
  /\ UNCHANGED <<now, piece, account, timer, arming, collecting, wakeups, exec, posts, lost,
                 stopped, approved, faults, leak, owed, quiet>>

\* One upsert on idempotencyKey: an existing row is left exactly as it is.
ScheduleUpsert(c, a) ==
  /\ req[c].op = "schedule"
  /\ a \in req[c].todo
  /\ LET j == <<req[c].piece, a, StampOf(req[c])>> IN
       row' = IF row[j] = Absent
              THEN [row EXCEPT ![j] = NewRow(req[c], a)]
              ELSE row
  /\ req' = [req EXCEPT ![c].todo = @ \ {a}]
  /\ UNCHANGED <<now, piece, account, timer, arming, collecting, wakeups, exec, posts, lost,
                 stopped, approved, faults, leak, owed, quiet>>

\* Fault seeded for the mutation check: the row's status is written to the piece.
ScheduleFinishQueued(c) ==
  /\ req[c].op = "schedule"
  /\ req[c].todo = {}
  /\ piece' = [piece EXCEPT ![req[c].piece] =
                 IF req[c].dated THEN "SCHEDULED" ELSE "QUEUED"]
  /\ req' = [req EXCEPT ![c] = NoCall]
  /\ UNCHANGED <<now, row, account, timer, arming, collecting, wakeups, exec, posts, lost,
                 stopped, approved, faults, leak, owed, quiet>>

\* The piece is written without looking at what it has become since the read.
ScheduleFinish(c) ==
  /\ req[c].op = "schedule"
  /\ req[c].todo = {}
  /\ piece' = [piece EXCEPT ![req[c].piece] =
                 IF req[c].dated THEN "SCHEDULED" ELSE "APPROVED"]
  /\ req' = [req EXCEPT ![c] = NoCall]
  /\ UNCHANGED <<now, row, account, timer, arming, collecting, wakeups, exec, posts, lost,
                 stopped, approved, faults, leak, owed, quiet>>

\* The first half of POST /content/:id/approve and /archive.
StatusRead(c, p, op, to) ==
  /\ op \in Ops
  /\ req[c] = NoCall
  /\ CanTransition(piece[p], to)
  /\ req' = [req EXCEPT ![c] = [op |-> op, piece |-> p]]
  /\ UNCHANGED <<now, piece, row, account, timer, arming, collecting, wakeups, exec, posts,
                 lost, stopped, approved, faults, leak, owed, quiet>>

ApproveRead(c, p) == StatusRead(c, p, "approve", "APPROVED")
ArchiveRead(c, p) == StatusRead(c, p, "archive", "ARCHIVED")

ApproveWrite(c) ==
  /\ req[c].op = "approve"
  /\ piece' = [piece EXCEPT ![req[c].piece] = "APPROVED"]
  /\ approved' = approved \cup {req[c].piece}
  /\ req' = [req EXCEPT ![c] = NoCall]
  /\ UNCHANGED <<now, row, account, timer, arming, collecting, wakeups, exec, posts, lost,
                 stopped, faults, leak, owed, quiet>>

\* Who is at work on a row, or on a piece: executors past their first read, and
\* API calls that have read the piece and are yet to write it.
AtWorkOnJob(w, j)   == exec[w].job = j /\ exec[w].pc # "read"
AtWorkOnPiece(p, c) ==
  \/ \E w \in Workers, j \in Jobs : PieceOf(j) = p /\ AtWorkOnJob(w, j)
  \/ \E d \in Clients \ {c} : req[d] # NoCall /\ req[d].piece = p

ArchiveWrite(c) ==
  /\ req[c].op = "archive"
  /\ piece' = [piece EXCEPT ![req[c].piece] = "ARCHIVED"]
  /\ req' = [req EXCEPT ![c] = NoCall]
  /\ quiet' = IF AtWorkOnPiece(req[c].piece, c) THEN quiet
              ELSE quiet \cup {req[c].piece}
  /\ UNCHANGED <<now, row, account, timer, arming, collecting, wakeups, exec, posts, lost,
                 stopped, approved, faults, leak, owed>>

\* The API process dies, or one of its database calls fails, in mid-call.
CallAborts(c) ==
  /\ req[c] # NoCall
  /\ Fault("call")
  /\ req' = [req EXCEPT ![c] = NoCall]
  /\ UNCHANGED <<now, piece, row, account, timer, arming, collecting, wakeups, exec, posts,
                 lost, stopped, approved, leak, owed, quiet>>

\* PublishingService.clearQueue, one updateMany.
ClearQueue ==
  LET cleared == {j \in Jobs : row[j].status \in Waiting} IN
    /\ cleared # {}
    /\ row' = [j \in Jobs |-> IF j \in cleared
                              THEN [row[j] EXCEPT !.status = "CANCELLED"]
                              ELSE row[j]]
    /\ quiet' = quiet \cup {j \in cleared : ~\E w \in Workers : AtWorkOnJob(w, j)}
    /\ UNCHANGED <<now, piece, account, timer, arming, collecting, wakeups, exec, posts,
                   lost, stopped, req, approved, faults, leak, owed>>

\* The executors past the stop check that have no answer of the platform yet.
InFlight == {w \in Workers : exec[w].pc \in {"mark", "markPiece", "prepare", "send"}}

\* AutomationService.setKillSwitch and setPublishingPaused.
Engage(s) ==
  /\ s \notin stopped
  /\ stopped' = stopped \cup {s}
  /\ leak' = IF stopped = {} THEN 0 ELSE leak
  /\ owed' = IF stopped = {} THEN Cardinality(InFlight) + Cardinality(lost) ELSE owed
  /\ UNCHANGED <<now, piece, row, account, timer, arming, collecting, wakeups, exec, posts,
                 lost, req, approved, faults, quiet>>

Release(s) ==
  /\ s \in stopped
  /\ stopped' = stopped \ {s}
  /\ UNCHANGED <<now, piece, row, account, timer, arming, collecting, wakeups, exec, posts,
                 lost, req, approved, faults, leak, owed, quiet>>

\* A human reconnects the account (upsertAccount of the OAuth callbacks), or a
\* later token refresh succeeds.
Reconnect(a) ==
  /\ account[a] = "TOKEN_EXPIRED"
  /\ account' = [account EXCEPT ![a] = "CONNECTED"]
  /\ UNCHANGED <<now, piece, row, timer, arming, collecting, wakeups, exec, posts, lost,
                 stopped, req, approved, faults, leak, owed, quiet>>

-----------------------------------------------------------------------------
(* The reconciler and BullMQ                                               *)

\* Fault seeded for the mutation check: QUEUED rows are forgotten.
ArmableScheduledOnly == {j \in Jobs : /\ row[j].status = "SCHEDULED"
                                      /\ ScheduledAt(j) <= now + Horizon
                                      /\ ~row[j].delegated}

Armable == {j \in Jobs : /\ row[j].status \in Waiting
                         /\ ScheduledAt(j) <= now + Horizon
                         /\ ~row[j].delegated}

\* reconcileScheduledJobs, its findMany; a boot run and a periodic one may overlap.
ReconcileRead ==
  /\ \/ "boot" \in wakeups /\ wakeups' = wakeups \ {"boot"}
     \/ "repeat" \in wakeups /\ ~(Armable \subseteq arming) /\ UNCHANGED wakeups
  /\ arming' = arming \cup Armable
  /\ UNCHANGED <<now, piece, row, account, timer, collecting, exec, posts, lost,
                 stopped, req, approved, faults, leak, owed, quiet>>

\* Fault seeded for the mutation check: every add makes a new BullMQ job.
ReconcileAddAgain(j) ==
  /\ j \in arming
  /\ arming' = arming \ {j}
  /\ timer' = [timer EXCEPT ![j] = [NoTimer EXCEPT !.state = "waiting"]]
  /\ UNCHANGED <<now, piece, row, account, collecting, wakeups, exec, posts, lost, stopped,
                 req, approved, faults, leak, owed, quiet>>

\* queue.add under the id publish:<job>: an id Redis still knows, even one
\* whose job has completed or failed, makes it a no-op.
ReconcileAdd(j) ==
  /\ j \in arming
  /\ arming' = arming \ {j}
  /\ timer' = IF timer[j].state = "none"
              THEN [timer EXCEPT ![j] = [NoTimer EXCEPT !.state = "waiting"]]
              ELSE timer
  /\ UNCHANGED <<now, piece, row, account, collecting, wakeups, exec, posts, lost, stopped,
                 req, approved, faults, leak, owed, quiet>>

\* The delay given to queue.add runs out at scheduledAt; the pause before a
\* retry is of any length.
Take(w, j) ==
  /\ exec[w] = Idle
  /\ timer[j].state = "waiting"
  /\ ScheduledAt(j) <= now
  /\ timer' = [timer EXCEPT ![j].state = "active", ![j].holder = w]
  /\ exec' = [exec EXCEPT ![w] = [Idle EXCEPT !.pc = "read", !.job = j]]
  /\ UNCHANGED <<now, piece, row, account, arming, collecting, wakeups, posts, lost,
                 stopped, req, approved, faults, leak, owed, quiet>>

\* BullMQ's stalled check: a job whose lock has run out is handed out again,
\* MaxStalls times.
HandBack(j) ==
  /\ timer[j].state = "active"
  /\ timer' = [timer EXCEPT
       ![j].state  = IF timer[j].stalls < MaxStalls THEN "waiting" ELSE "failed",
       ![j].stalls = @ + 1,
       ![j].holder = None]
  /\ UNCHANGED <<now, piece, row, account, arming, collecting, wakeups, exec, posts, lost,
                 stopped, req, approved, leak, owed, quiet>>

\* The executor that held the lock is gone.
Stall(j) ==
  /\ HandBack(j)
  /\ exec[timer[j].holder].job # j
  /\ UNCHANGED faults

\* The executor is still at work, but failed to renew its lock in time.
LockLost(j) ==
  /\ HandBack(j)
  /\ exec[timer[j].holder].job = j
  /\ Fault("lock")

\* The timers are lost, and so are the repeatable jobs of the loop.
RedisWipe ==
  /\ Fault("wipe")
  /\ timer' = [j \in Jobs |-> NoTimer]
  /\ wakeups' = wakeups \ {"repeat"}
  /\ UNCHANGED <<now, piece, row, account, arming, collecting, exec, posts, lost, stopped,
                 req, approved, leak, owed, quiet>>

\* main() adds the repeatable jobs and then reconciles.
Booted == wakeups' = {"repeat", "boot"}

CallOf(w) == [job |-> exec[w].job, by |-> w, fault |-> faults]

\* The worker process dies and is started again: its executors, its reconciler and its
\* analytics pass are gone, the locks they held stay until the stalled check.  A platform
\* may have any of the requests under way.
WorkerCrash ==
  /\ Fault("crash")
  /\ \E sent \in SUBSET {w \in Workers : exec[w].pc = "send"} :
       lost' = lost \cup {CallOf(w) : w \in sent}
  /\ exec' = [w \in Workers |-> Idle]
  /\ arming' = {}
  /\ collecting' = {}
  /\ Booted
  /\ UNCHANGED <<now, piece, row, account, timer, posts, stopped, req, approved, leak, owed,
                 quiet>>

\* Somebody restarts the worker, which waits for its jobs.  While the repeatable jobs are
\* there, this adds nothing to what they do.
Restart ==
  /\ "repeat" \notin wakeups
  /\ \A w \in Workers : exec[w] = Idle
  /\ arming = {} /\ collecting = {}
  /\ Booted
  /\ UNCHANGED <<now, piece, row, account, timer, arming, collecting, exec, posts, lost,
                 stopped, req, approved, faults, leak, owed, quiet>>

-----------------------------------------------------------------------------
(* AnalyticsService.collectForOrganization                                 *)

\* A repeatable job.  The kill switch is checked, and the published posts are listed, at
\* the start.
CollectRead ==
  LET published == {j \in Jobs : /\ row[j].status = "PUBLISHED"
                                 /\ account[AccountOf(j)] = "CONNECTED"} IN
    /\ "collect" \in Ops
    /\ "repeat" \in wakeups
    /\ "killSwitch" \notin stopped
    /\ ~(published \subseteq collecting)
    /\ collecting' = collecting \cup published
    /\ UNCHANGED <<now, piece, row, account, timer, arming, wakeups, exec, posts, lost,
                   stopped, req, approved, faults, leak, owed, quiet>>

\* The piece moves on only from PUBLISHED, in one conditional update.
Collect(j) ==
  /\ j \in collecting
  /\ collecting' = collecting \ {j}
  /\ piece' = IF piece[PieceOf(j)] = "PUBLISHED"
              THEN [piece EXCEPT ![PieceOf(j)] = "ANALYZING"]
              ELSE piece
  /\ UNCHANGED <<now, row, account, timer, arming, wakeups, exec, posts, lost, stopped, req,
                 approved, faults, leak, owed, quiet>>

\* The platform refuses the metrics; credentials it rejects mark the account.
CollectFails(j) ==
  /\ j \in collecting
  /\ collecting' = collecting \ {j}
  /\ \/ UNCHANGED account
     \/ /\ "auth" \in Rejections
        /\ account' = [account EXCEPT ![AccountOf(j)] = "TOKEN_EXPIRED"]
  /\ UNCHANGED <<now, piece, row, timer, arming, wakeups, exec, posts, lost, stopped, req,
                 approved, faults, leak, owed, quiet>>

-----------------------------------------------------------------------------
(* PublishingService.execute, await by await                               *)

Goto(w, label) == exec' = [exec EXCEPT ![w].pc = label]
Throw(w, kind) == exec' = [exec EXCEPT ![w] = [@ EXCEPT !.pc = "catchJob", !.err = kind]]
SetStatus(j, s) == row' = [row EXCEPT ![j].status = s]
SetPiece(j, s)  == piece' = [piece EXCEPT ![PieceOf(j)] = s]

\* Fault seeded for the mutation check: a CANCELLED row is not refused.
ReadIgnoresCancel(w) ==
  /\ exec[w].pc = "read"
  /\ LET j == exec[w].job IN
       IF row[j].status = "PUBLISHED"
       THEN Goto(w, "fail")
       ELSE exec' = [exec EXCEPT ![w] =
                       [@ EXCEPT !.pc = "gate", !.fit = IsPublishable(piece[PieceOf(j)])]]
  /\ UNCHANGED <<now, piece, row, account, timer, arming, collecting, wakeups, posts, lost,
                 stopped, req, approved, faults, leak, owed, quiet>>

\* The row and its piece are read in one query.
Read(w) ==
  /\ exec[w].pc = "read"
  /\ LET j == exec[w].job IN
       IF row[j].status \in {"PUBLISHED", "CANCELLED"}
       THEN Goto(w, "fail")
       ELSE exec' = [exec EXCEPT ![w] =
                       [@ EXCEPT !.pc = "gate", !.fit = IsPublishable(piece[PieceOf(j)])]]
  /\ UNCHANGED <<now, piece, row, account, timer, arming, collecting, wakeups, posts, lost,
                 stopped, req, approved, faults, leak, owed, quiet>>

\* Fault seeded for the mutation check: no stop check before publishing.
GateUnchecked(w) ==
  /\ exec[w].pc = "gate"
  /\ IF exec[w].fit THEN Goto(w, "mark") ELSE Goto(w, "fail")
  /\ UNCHANGED <<now, piece, row, account, timer, arming, collecting, wakeups, posts, lost,
                 stopped, req, approved, faults, leak, owed, quiet>>

\* assertMayPublish, then the check of the piece as it was read.
Gate(w) ==
  /\ exec[w].pc = "gate"
  /\ IF stopped = {} /\ exec[w].fit THEN Goto(w, "mark") ELSE Goto(w, "fail")
  /\ UNCHANGED <<now, piece, row, account, timer, arming, collecting, wakeups, posts, lost,
                 stopped, req, approved, faults, leak, owed, quiet>>

\* Fault seeded for the mutation check: the attempt is not counted up front.
MarkJobUncounted(w) ==
  /\ exec[w].pc = "mark"
  /\ SetStatus(exec[w].job, "PUBLISHING")
  /\ Goto(w, "markPiece")
  /\ UNCHANGED <<now, piece, account, timer, arming, collecting, wakeups, posts, lost,
                 stopped, req, approved, faults, leak, owed, quiet>>

MarkJob(w) ==
  /\ exec[w].pc = "mark"
  /\ row' = [row EXCEPT ![exec[w].job].status = "PUBLISHING",
                        ![exec[w].job].attempts = @ + 1]
  /\ Goto(w, "markPiece")
  /\ UNCHANGED <<now, piece, account, timer, arming, collecting, wakeups, posts, lost,
                 stopped, req, approved, faults, leak, owed, quiet>>

MarkPiece(w) ==
  /\ exec[w].pc = "markPiece"
  /\ SetPiece(exec[w].job, "PUBLISHING")
  /\ Goto(w, "prepare")
  /\ UNCHANGED <<now, row, account, timer, arming, collecting, wakeups, posts, lost,
                 stopped, req, approved, faults, leak, owed, quiet>>

\* The credentials are looked up and the request is built: no credentials is an
\* authentication error, unusable media a permanent one.
Prepare(w) ==
  /\ exec[w].pc = "prepare"
  /\ \/ Goto(w, "send")
     \/ \E kind \in Rejections \ {"retryable"} : Throw(w, kind)
  /\ UNCHANGED <<now, piece, row, account, timer, arming, collecting, wakeups, posts, lost,
                 stopped, req, approved, faults, leak, owed, quiet>>

\* The platform has made a post for a row.
PostAppears(j) ==
  /\ posts' = [posts EXCEPT ![j] = @ + 1]
  /\ leak' = IF stopped = {} THEN leak ELSE leak + 1

SendAccepted(w) ==
  /\ exec[w].pc = "send"
  /\ PostAppears(exec[w].job)
  /\ Goto(w, "recordJob")
  /\ UNCHANGED <<now, piece, row, account, timer, arming, collecting, wakeups, lost, stopped,
                 req, approved, faults, owed, quiet>>

\* The platform has the request, but the call ends without its outcome.  A request that is
\* cut before its headers, or polling that runs out of time, is reported as retryable; a
\* body that is cut is not; a poll may find the credentials rejected.
SendAnswerLost(w) ==
  /\ exec[w].pc = "send"
  /\ Fault("answer")
  /\ lost' = lost \cup {CallOf(w)}
  /\ \E kind \in {"retryable", "permanent", "auth"} : Throw(w, kind)
  /\ UNCHANGED <<now, piece, row, account, timer, arming, collecting, wakeups, posts, stopped,
                 req, approved, leak, owed, quiet>>

\* The platform gets done with such a call, at any time or never.
PostAppearsLate(call) ==
  /\ call \in lost
  /\ PostAppears(call.job)
  /\ lost' = lost \ {call}
  /\ UNCHANGED <<now, piece, row, account, timer, arming, collecting, wakeups, exec, stopped,
                 req, approved, faults, owed, quiet>>

\* Fault seeded for the mutation check: an error of the adapter is swallowed.
SendRejectedSwallowed(w) ==
  /\ exec[w].pc = "send"
  /\ Goto(w, "recordJob")
  /\ UNCHANGED <<now, piece, row, account, timer, arming, collecting, wakeups, posts, lost,
                 stopped, req, approved, faults, leak, owed, quiet>>

SendRejected(w) ==
  /\ exec[w].pc = "send"
  /\ \E kind \in Rejections : Throw(w, kind)
  /\ UNCHANGED <<now, piece, row, account, timer, arming, collecting, wakeups, posts, lost,
                 stopped, req, approved, faults, leak, owed, quiet>>

RecordJob(w) ==
  /\ exec[w].pc = "recordJob"
  /\ SetStatus(exec[w].job, "PUBLISHED")
  /\ Goto(w, "recordPiece")
  /\ UNCHANGED <<now, piece, account, timer, arming, collecting, wakeups, posts, lost,
                 stopped, req, approved, faults, leak, owed, quiet>>

RecordPiece(w) ==
  /\ exec[w].pc = "recordPiece"
  /\ SetPiece(exec[w].job, "PUBLISHED")
  /\ Goto(w, "recordRest")
  /\ UNCHANGED <<now, row, account, timer, arming, collecting, wakeups, posts, lost,
                 stopped, req, approved, faults, leak, owed, quiet>>

\* The executor returns or throws; BullMQ takes note unless the lock is lost.
Finish(w, entry) ==
  LET j == exec[w].job IN
    /\ timer' = IF timer[j].holder = w THEN [timer EXCEPT ![j] = entry] ELSE timer
    /\ exec' = [exec EXCEPT ![w] = Idle]

\* Status change, account and audit rows are written; the job is completed.
Complete(w) ==
  /\ exec[w].pc = "recordRest"
  /\ Finish(w, [timer[exec[w].job] EXCEPT !.state = "completed", !.holder = None])
  /\ UNCHANGED <<now, piece, row, account, arming, collecting, wakeups, posts, lost,
                 stopped, req, approved, faults, leak, owed, quiet>>

\* Fault seeded for the mutation check: a retryable failure leaves the row alone.
CatchJobPermanentOnly(w) ==
  /\ exec[w].pc = "catchJob"
  /\ IF exec[w].err = "retryable"
     THEN UNCHANGED row /\ Goto(w, "fail")
     ELSE SetStatus(exec[w].job, "FAILED") /\ Goto(w, "catchPiece")
  /\ UNCHANGED <<now, piece, account, timer, arming, collecting, wakeups, posts, lost,
                 stopped, req, approved, faults, leak, owed, quiet>>

CatchJob(w) ==
  /\ exec[w].pc = "catchJob"
  /\ IF exec[w].err = "retryable"
     THEN SetStatus(exec[w].job, "SCHEDULED") /\ Goto(w, "fail")
     ELSE SetStatus(exec[w].job, "FAILED") /\ Goto(w, "catchPiece")
  /\ UNCHANGED <<now, piece, account, timer, arming, collecting, wakeups, posts, lost,
                 stopped, req, approved, faults, leak, owed, quiet>>

CatchPiece(w) ==
  /\ exec[w].pc = "catchPiece"
  /\ SetPiece(exec[w].job, "FAILED")
  /\ Goto(w, IF exec[w].err = "auth" THEN "catchAccount" ELSE "fail")
  /\ UNCHANGED <<now, row, account, timer, arming, collecting, wakeups, posts, lost,
                 stopped, req, approved, faults, leak, owed, quiet>>

CatchAccount(w) ==
  /\ exec[w].pc = "catchAccount"
  /\ account' = [account EXCEPT ![AccountOf(exec[w].job)] = "TOKEN_EXPIRED"]
  /\ Goto(w, "fail")
  /\ UNCHANGED <<now, piece, row, timer, arming, collecting, wakeups, posts, lost, stopped,
                 req, approved, faults, leak, owed, quiet>>

\* Fault seeded for the mutation check: one retry too many.
FailLate(w) ==
  /\ exec[w].pc = "fail"
  /\ LET t == timer[exec[w].job] IN
       Finish(w, [state  |-> IF t.made < PublishAttempts THEN "waiting" ELSE "failed",
                  made   |-> t.made + 1,
                  stalls |-> t.stalls,
                  holder |-> None])
  /\ UNCHANGED <<now, piece, row, account, arming, collecting, wakeups, posts, lost,
                 stopped, req, approved, faults, leak, owed, quiet>>

\* A thrown error costs one BullMQ attempt, whatever the error is.
Fail(w) ==
  /\ exec[w].pc = "fail"
  /\ LET t == timer[exec[w].job] IN
       Finish(w, [state  |-> IF t.made + 1 < PublishAttempts THEN "waiting" ELSE "failed",
                  made   |-> t.made + 1,
                  stalls |-> t.stalls,
                  holder |-> None])
  /\ UNCHANGED <<now, piece, row, account, arming, collecting, wakeups, posts, lost,
                 stopped, req, approved, faults, leak, owed, quiet>>

\* A database call of the executor fails: the throw leaves execute, except from
\* inside the try, where it is caught as an error that is not retryable.
DatabaseError(w) ==
  /\ Fault("database")
  /\ \/ /\ exec[w].pc \in {"prepare", "recordJob", "recordPiece", "recordRest"}
        /\ Throw(w, "permanent")
     \/ /\ exec[w].pc \in {"read", "gate", "mark", "markPiece", "catchJob",
                           "catchPiece", "catchAccount"}
        /\ Goto(w, "fail")
  /\ UNCHANGED <<now, piece, row, account, timer, arming, collecting, wakeups, posts, lost,
                 stopped, req, approved, leak, owed, quiet>>

-----------------------------------------------------------------------------

ApiCall(c) ==
  \/ \E p \in Pieces, as \in SUBSET Accounts :
       \/ ScheduleRead(c, p, as, FALSE, 0)
       \/ \E when \in Times : ScheduleRead(c, p, as, TRUE, when)
  \/ \E a \in Accounts : ScheduleUpsert(c, a)
  \/ ScheduleFinish(c)
  \/ \E p \in Pieces : ApproveRead(c, p) \/ ArchiveRead(c, p)
  \/ ApproveWrite(c)
  \/ ArchiveWrite(c)
  \/ CallAborts(c)

\* What an executor does by itself once it has taken a job.
Step(w) ==
  \/ Read(w) \/ Gate(w) \/ MarkJob(w) \/ MarkPiece(w) \/ Prepare(w)
  \/ SendAccepted(w) \/ SendRejected(w)
  \/ RecordJob(w) \/ RecordPiece(w) \/ Complete(w)
  \/ CatchJob(w) \/ CatchPiece(w) \/ CatchAccount(w) \/ Fail(w)

Execution(w) == Step(w) \/ SendAnswerLost(w) \/ DatabaseError(w)

Redis ==
  \/ ReconcileRead
  \/ \E j \in Jobs : ReconcileAdd(j) \/ Stall(j) \/ LockLost(j)
  \/ \E w \in Workers, j \in Jobs : Take(w, j)
  \/ RedisWipe

Worker == WorkerCrash \/ Restart

Platforms == \E call \in lost : PostAppearsLate(call)

Analytics ==
  \/ CollectRead
  \/ \E j \in Jobs : Collect(j) \/ CollectFails(j)

Next ==
  \/ Tick
  \/ \E c \in Clients : ApiCall(c)
  \/ ClearQueue
  \/ \E s \in StopControls : Engage(s) \/ Release(s)
  \/ \E a \in Accounts : Reconnect(a)
  \/ Redis
  \/ Analytics
  \/ Worker
  \/ Platforms
  \/ \E w \in Workers : Execution(w)

Spec == Init /\ [][Next]_vars

\* The processes keep running: an executor that has a job goes on with it, the
\* reconciler runs after a boot and, as long as Redis has its repeatable job, every
\* half hour, and gets through its list, BullMQ hands out what is due (first come,
\* first served) and finds stalled jobs, the clock goes on.  Nothing is assumed of
\* clients, operators, platforms or faults, nor that anybody restarts the worker.
Fairness ==
  /\ WF_vars(Tick)
  /\ WF_vars(ReconcileRead)
  /\ \A w \in Workers : WF_vars(Step(w))
  /\ \A j \in Jobs :
       /\ WF_vars(ReconcileAdd(j))
       /\ WF_vars(Stall(j))
       /\ SF_vars(\E w \in Workers : Take(w, j))

FairSpec == Spec /\ Fairness

-----------------------------------------------------------------------------
(* Properties                                                              *)

\* Nothing goes to a platform that QA or an editor did not approve first,
\* whatever the interleaving of schedule, approve, archive and execute: the
\* guards in schedule and execute look at statuses that are overwritten by others.
PostedOnlyIfApproved ==
  \A j \in Jobs : posts[j] > 0 => PieceOf(j) \in approved

\* One row makes one post, and each fault of the environment can cost at most
\* one more: retries, siblings, reconciler runs and stops never add one.
PostsWithinFaults ==
  \A j \in Jobs : posts[j] <= 1 + faults

\* A row reaches the platform at most PublishAttempts times, and that many more
\* for each fault (publishing gets few attempts: each consumes rate limit).
AttemptBudget ==
  \A j \in Jobs : row[j].attempts <= PublishAttempts * (1 + faults)

\* Every post is covered by an attempt counted before it was made, so the
\* attempt history never hides one, even after a crash.
PostsAreCounted ==
  \A j \in Jobs : posts[j] <= row[j].attempts

\* A PUBLISHED row stands for a post that exists, and a piece is PUBLISHED or
\* under analysis only on account of one: no catch path, sibling or analytics
\* pass claims a post nobody made.
PublishedIsPosted ==
  /\ \A j \in Jobs : row[j].status = "PUBLISHED" => posts[j] > 0
  /\ \A p \in Pieces : piece[p] \in {"PUBLISHED", "ANALYZING"}
                       => \E j \in Jobs : PieceOf(j) = p /\ posts[j] > 0

\* A row cancelled, or a piece archived, while no executor or API call had got
\* past its check stays so: no retry, reconciliation or late call revives it.
QuietStopsAreFinal ==
  \A x \in quiet :
    IF x \in Pieces THEN piece[x] = "ARCHIVED" ELSE row[x].status = "CANCELLED"

\* After a stop control is engaged, a post gets out only for an executor that was past
\* the check at that moment, or for a call without an answer that a platform was still at:
\* no later take, retry, rerun or restart adds one.  (MCPublishing has what the code's
\* comments say: that the post in flight is held back too.)
StopLeakBounded == leak <= owed

\* Without a fault, no two executors ever work on the same row.
OneExecutorPerJob ==
  faults = 0 =>
    \A v, w \in Workers : exec[v].job = exec[w].job /\ exec[v] # Idle => v = w

\* Without a fault, PUBLISHED is final for a row.
PublishedRowIsFinal ==
  [][\A j \in Jobs : row[j].status = "PUBLISHED" /\ faults' = 0
                       => row'[j].status = "PUBLISHED"]_vars

\* Every row is in the end published, failed or cancelled, unless its one BullMQ
\* job is spent (out of attempts, or completed by an overlapping execution): across a
\* crash, stops, retries and late calls, and across a wiped Redis once the worker is
\* restarted.  Until then nothing reconciles.  Rows left to the platform are not covered.
RowIsSettled ==
  \A j \in Jobs :
    row[j].status \in Waiting \cup {"PUBLISHING"} /\ ~row[j].delegated
      ~> \/ row[j].status \in {"PUBLISHED", "FAILED", "CANCELLED"}
         \/ timer[j].state \in {"completed", "failed"}
         \/ "repeat" \notin wakeups
=============================================================================
