# Modern Man OS in TLA+

A model of the publishing system in `packages/` and `apps/`: what its processes do to
the rows, timers and platforms they share, checked with TLC on small instances and
proved with TLAPS for all of them.

## The system

Three kinds of process share Postgres (the durable record), Redis (BullMQ's timers) and
the platforms (Instagram, Facebook, TikTok).

| Part | Source | State it keeps | Operations |
|---|---|---|---|
| content lifecycle | `packages/contracts/src/lifecycle.ts` | none: a table | `canTransition`, `isPublishable` |
| publishing service | `packages/engine/src/publishing.ts` | `PublishingJob`, `ContentPiece.status`, `PublishingAttempt` | `schedule`, `execute`, `clearQueue` |
| publish worker, queues, reconciler | `apps/worker/src/jobs/publishing.ts`, `queues.ts` | BullMQ jobs `publish:<id>` | take, retry, stalled check, `reconcileScheduledJobs` |
| automation controls | `packages/engine/src/automation.ts` | one `AutomationState` row | kill switch, pause, autonomous mode, agent flags |
| autonomous loop, pipeline, generation | `apps/worker/src/index.ts`, `jobs/pipeline.ts`, `jobs/generation.ts` | `Topic`, `Claim`, `ContentPiece` | tick, scan, score, research, generate |
| quality gates | `packages/agents/src/qa`, `research/fact-checker.ts` | none | `decidePublish`, `applyFactGate`, rights |
| accounts and credentials | `packages/db/src/tokens.ts`, `apps/api/src/routes/oauth.ts` | `PlatformToken`, `SocialAccount.status` | connect, disconnect, refresh |
| platform adapters | `packages/platforms/src` | containers on the platform | create, poll, publish |
| spend limits | `packages/ai/src/orchestrator.ts`, `packages/engine/src/cost.ts` | `CostEntry` rows | check, call, meter |
| schedule and backlog | `packages/engine/src/scheduling.ts` | none: reads `PublishingJob` times | `decideSchedule`, `distributePostTimes`, `assessQueueHealth` |
| analytics | `packages/engine/src/analytics.ts`, `getAnalytics` of the adapters | `AnalyticsRecord` rows | collect, summary |
| learning, content mix | `packages/agents/src/learning`, `content/mix.ts` | `Brand.scoringWeights`, `contentMix` | insights, adjust |
| research and writing agents | `packages/agents/src/research`, `content` | none; they read recent topics and hooks | scan, score, research, check, hook, write |
| API plumbing, dashboard, media | `apps/api`, `apps/web`, `packages/media` | sessions; none | requests, rendering |

How they meet:

- the API and the autonomous loop call `schedule`, which only writes rows;
- the reconciler, at boot and every half hour, turns rows into BullMQ jobs: it is the
  only caller of `add` on the publishing queue;
- a worker slot that takes a BullMQ job calls `execute`, which reads and writes rows, the
  piece and the account between calls to the stop check and to a platform;
- editors approve and archive the same pieces; analytics moves them on once published;
  operators stop, resume and clear at any moment.

Nothing is locked and no database transaction spans two statements, so what is hard is
what happens between two awaits, plus crashes, lost answers, retries and time.

What makes each part correct:

- publishing: only approved content goes out; one row makes one post, and every extra
  post is the price of a fault; a stop holds back all but what was past the check, or at a
  platform without an answer, when it came (the comments promise more, see below); what was
  cancelled or archived stays so; every row is settled while something reconciles;
- reconciler and queues: no row is forgotten, none is run twice at a time;
- pipeline: a piece is written only from research that stood and scheduled once per topic;
  a stop lets one stage finish; what an editor archives stays so; errors leave no topic stuck;
- accounts: a disconnect is final; stored credentials are those the platform accepts; an
  account's status follows its credentials in the end, whichever job erred about them;
- spend limits: the overspend is bounded by the calls in progress and what was lost;
- adapters: success is exactly one complete post, a refusal none for good, and never early;
- controls: an agent's flag is what was last asked of it, unless that change met another;
- backlog: the loop stops near its target and reaches its minimum;
- learning: weights and mix stay distributions, and a cycle moves them little;
- desk: nothing is repeated, every claim is traceable, what is written fits its platforms;
- metrics: no number is shown for what no platform reports.

The hazards these face are listed line by line in `PROJECT.json`.

## Modules

| Module | What it is |
|---|---|
| `Lifecycle` | the status table of `packages/contracts` as constants and operators |
| `Publishing` | the publishing core: API calls, executors, BullMQ, reconciler, stop controls, analytics, faults |
| `MCPublishing` | symmetry for TLC, and the four claims of comments that the code does not keep |
| `PublishingProofs` | inductive invariants of `Publishing` and their proofs |
| `Gates` | the fact checker's verdict, the fact gate and `decidePublish` as operators |
| `Pipeline` | the autonomous loop from discovery to scheduling, with the editors and operators around it |
| `MCPipeline` | findings, symmetry and the two instances of one run for TLC |
| `PipelineProofs` | inductive invariants of `Pipeline` and their proofs |
| `Capabilities` | the registry of the platforms and what is decided from it: timing, request, validation |
| `PlatformCall` | the abstract promise of `createPost` |
| `Adapters`, `MCAdapters` | `createPost` on the three platforms, request by request; implements `PlatformCall`; its requests for TLC |
| `AdaptersProofs` | the invariant of `Adapters`, and that it implements `PlatformCall`, step by step |
| `Accounts` | one account's credentials: refresh pass, callbacks, disconnect, use |
| `AccountsProofs` | what a disconnect, a connected account and rotated credentials rest on |
| `Spending` | the budget gate and the meter under concurrent model calls |
| `SpendingProofs` | the overrun of the limits, for any number of callers |
| `Controls` | the switches and agent flags, changed by several people |
| `Backlog`, `MCBacklog` | queue health and posting times, with the loop that fills the queue |
| `Learning`, `MCLearning` | insights, scoring weights and content mix over cycles |
| `LearningProofs` | weights and mix stay distributions, and a cycle moves the weights little |
| `Desk`, `MCDesk` | what the agents take from one another, from scan to written piece |
| `Metrics` | normalized answers, their records, and the summary |
| `EditorialProofs` | invariants of `Desk` and `Metrics`, and the lemmas on sums they need |
| `MCOffice` | the machines from `Adapters` to `Metrics`, which share no state, one at a time |
| `OfficeProofs` | what is proved of `Controls` and `Backlog`, and of all the machines of `MCOffice` |

### `Publishing` and the code

A row of `PublishingJob` is named by its `idempotencyKey`: piece, account, time. So `Jobs`
is `Pieces \X Accounts \X Times`, and an upsert on the key is a conditional write to
`row[j]`. `piece` is `ContentPiece.status`. `timer[j]` is the BullMQ job
`publish:<id>`: its state, attempts made, stalled count and lock holder. `exec[w]` is one of
the worker's concurrent calls of `execute`: the label `pc` names the next await, and
`fit` remembers whether the piece *was* publishable when it was read, which is what the
code tests later. `posts[j]` counts what exists on the platform, whatever the database says.
`wakeups` is what is yet to run the reconciler: its repeatable job in Redis, which only `main()`
adds, and a boot. `lost` are the calls that ended without an answer and that a platform may still
act on. The history variables `approved`, `faults`, `leak`, `owed` and `quiet` are read only by
the properties; their definitions say what they record.

One action is one await. `execute` is `Read`, `Gate`, `MarkJob`, `MarkPiece`, `Prepare`,
the platform's answer (`SendAccepted`, `SendRejected`, or `SendAnswerLost`, after which the post
may appear at any later time or never: `PostAppearsLate`), `RecordJob`, `RecordPiece`, `Complete`,
and the catch block `CatchJob`, `CatchPiece`, `CatchAccount`, `Fail`. A call that ends without its
outcome is any of the three errors: a lost connection and a poll that runs out of time are
retryable (`http.ts:61-65`, `tiktok/adapter.ts:438-441`), a body that is cut is not, and a status
request may be refused with a 401 although the post is on its way. `schedule` is `ScheduleRead`,
one `ScheduleUpsert` per account and `ScheduleFinish`. A read with the pure code
after it is one action; inserts into tables nothing else reads (attempts, status changes, audit rows) are part of the next step.

BullMQ is not in the repository. It is modelled from how the worker uses it:

- `add` under an id that Redis still holds does nothing, also when that job is completed
  or failed. Failed publish jobs are kept for ever (`removeOnFail: false`), completed
  ones for thirty days, longer than the instances run;
- a worker holds a lock on a job it runs. A job whose lock runs out is handed out again,
  once (`maxStalledCount`), then failed;
- any throw of `execute` costs one of the three attempts, then the job is failed.

BullMQ's rules for custom job ids (some versions refuse a colon in them) are not modelled.

Abstractions: captions, media and platform limits are one nondeterministic refusal in
`Prepare` and `SendRejected`; the rate limiter and the retry delay are any delay; several
organizations are several instances. Access tokens are part of the refusal `auth`. What one
call of an adapter is here (accepted, refused, or ended without an answer) is what `Adapters`
implements. The `PublishingAttempt` row itself is inserted only after the call
(`publishing.ts:154`); the model has the counter, which is written before it.

`WorkerCrash` includes the restart by a supervisor, as `main()` runs again. `Restart` is somebody
restarting a worker that is waiting for its jobs: it matters after a wipe only.

### `Pipeline` and the code

`topic` holds the `Topic` rows with their claims, `piece` the `ContentPiece` rows, `loop` the
tick in progress: the await it is at (`pc`), the topics still to do, what it read of the
mode, the accounts and the verdict. `killSwitch`, `autonomousMode` and `disabled` are the
`AutomationState` row, `edit` the approve and archive calls between their read and their write.

The actions follow `autonomousTick`: `TickStart`; `Scan` and `ScoreTopics`, which a stop cuts
short; `PickSelected`; per topic `StartResearch` and `FinishResearch` or `FailResearch`;
`ListResearched`; per topic `StartGeneration`, `CreatePiece`, `DesignPiece`, `SubmitPiece`,
`JudgePiece` or, anywhere, `FailGeneration`; then `UseTopic` and the three writes of
`PublishingService.schedule`. The loop's worker has concurrency 1 and nothing else
writes topics, so a code loop over topics is one step that may end anywhere in it. Where
a control, a piece or a model is waited for, a step ends. `assertMayRun` is asked at the start
of each stage only: a stop that comes later lets the stage finish, which is what
`StopLetsOneStageFinish` bounds.

Abstractions: scores choose any topics, since nothing depends on which; `Demands` stands
for what `assessQueueHealth` may ask for; what models and reviewers answer is arbitrary; the
claims of a topic are counts by what the gates tell apart; the platform checks are one
boolean; rights are clear, because generation uses its own renders. Schedule calls of the
API and what becomes of the rows are `Publishing`'s subject. `setAgentEnabled`, which reads
and writes, is one step here.

`Faults` are `crash` (the worker dies in a tick) and `database` (a statement of the tick fails).

### `Capabilities`, `Adapters` and the code

`Capabilities` is the registry as data, with `decideSchedule`, `#buildPostInput` and
`validateAgainstCapabilities` as operators over it. `Adapters` follows one publishing job: each
attempt is one call of `createPost` with the same input. `pc` names the request the call
makes next, one action per request, and every request may get any of the answers in `Answers`:
a success, a client or server error, Meta's rate limit typed as `OAuthException` and as a plain
code, a lost connection, a body cut after the head, and TikTok's errors inside a 200.
`classifyError`, `request` and `unwrap` say what the code makes of each. A 2xx of Meta with no id
in it, or with a body that is no JSON, is a success in the code (`http.ts:71-76`) and in the model;
a TikTok answer without the `upload_url` of a local file, for which the code goes on without an
upload (`tiktok/adapter.ts:355`), is left out. `item[c]` is what the
platform has for call `c`, which it works on in its own time, also after the call has ended:
that is where a late TikTok post comes from. `MayAct` says when a platform may have acted
although the answer is an error.

`PlatformCall` promises: `accepted` means one post, `refused` none for good, `unsure` at most one,
perhaps later. The refinement maps an error to `unsure` if the code cannot know (`doubt`), and
the number of posts on the platform to `post`. `KeepsCallPromise` is the check that every step of
the adapters is a step of it or a stutter.

### `Accounts` and the code

`token` is the stored `PlatformToken`, `valid` the tokens the platform accepts; a platform that
`rotates` (TikTok) invalidates what it refreshes. Four processes take one await a step: the
refresh pass (`findExpiring`, the second read, `refreshToken`, `store`, the status; on failure
the count and perhaps the status), the OAuth callback (exchange, `upsertAccount`, `store`), the
disconnect route (find, delete, status) and a job that reads the credentials and calls the
platform. Faults are crashes of the worker and of the API server, revocation by the owner, and
refusals or lost answers for credentials that are good. Token generations nobody holds any more
are used again, so the state is finite. One account is followed: nothing relates two. Meta's
callback upserts a page and its Instagram account in a loop, each of which is such an account.
`crossed` and `quiet` remember whether a disconnect met a refresh or a callback, for then the
code lets either win. A job that was due for a disconnected account finds no credentials and
marks it TOKEN_EXPIRED, so `DisconnectIsFinal` says "not connected" and not "disconnected".

### `Spending`, `Controls` and the code

Each agent has an orchestrator of its own; they share the rows of `CostEntry`. A call passes
`assertWithinBudget`, whose two sums are queried at the same time and may come in either order,
is sent (with the provider's `withRetry`), parsed and metered. A day's payments and what is lost
to unusable answers or a crash are history: the gate reads only what was metered.

`Controls` has each switch as one upsert of one field and `setAgentEnabled` as a read of the
whole row and a write of all the flags. `clean` are the agents whose last change was written while
no other was under way. A later change of another agent writes back what it read, which is then
that value: so `ControlsStand` goes on to hold such an agent to it however later changes overlap.

### `Backlog` and the code

Time goes in steps of 20 minutes, the jitter of a slot. `assessQueueHealth` reads only how far
ahead the last row is, so the rows are that one number. A tick assesses once and then makes up to
three pieces, each some time later; people schedule, clear the queue and change the settings
in between.

### `Learning`, `Desk`, `Metrics` and the code

`Learning` computes with integers in the digits the code rounds to. So far only the tests call
what adjusts the weights, and nothing calls `adjustMixByPerformance`: `Learn` is one cycle as the
tests and the comments describe it, over measured posts grouped by category and format.

`Desk` has one story in hand, as the loop has. A model's answer is any answer its schema admits;
similarity is a relation between stories and hooks (`Alike`), since nothing depends on how it is
computed. `Recall` is the number of recent rows a query takes, in no order (300 in the code).

`Metrics` has the names each platform reports, the one form they are brought into, and
`summary`. Ratios, watch time and clicks, which no total reads, are left out. Facebook's reactions
are one number that is there or not; in the code they are a map that is summed, so an empty map
gives 0.

`MCOffice` puts `Adapters`, `Accounts`, `Spending`, `Controls`, `Backlog`, `Learning`, `Desk` and
`Metrics` into one run. They share no variable and no step in the code either, as far as they are
modelled, so a behaviour picks one and moves that one alone; nothing is claimed of their
product. Each can be run by itself under the specification of its own module, and `OfficeProofs` shows that those
specifications are what the office implements.

### Faults in `Publishing`

`FaultKinds` names what may go wrong outside the program and `MaxFaults` bounds how often:
`crash` (the worker process, with a restart; requests under way may still reach the platform),
`wipe` (Redis, with the timers and the repeatable jobs), `lock` (a lock renewal comes late),
`answer` (the call ends without its outcome, the post may appear later), `database` (a statement
of `execute` fails), `call` (an API call is aborted in the middle).

## Runs

| Run | Question | Instance |
|---|---|---|
| `publish_faults` | what each fault can cost in posts and attempts | 1 account, 2 executors, 2 faults of five kinds, analytics |
| `publish_siblings` | two rows of one piece, clearing and archiving at any moment | 2 accounts, 2 executors, 2 attempts, retryable and permanent refusals, no fault |
| `publish_review` | can unreviewed content go out, and what goes out under a stop | 2 callers scheduling, approving and archiving one piece, analytics, the publishing pause, 1 executor, 1 fault (aborted call, failed database call, lost answer) |
| `publish_live` | is every row settled | kill switch, retries, one of wipe (with or without a restart), crash or lost answer |
| `publish_clock` | the same for rows of a later date | a clock, horizon 0, a natively scheduling account, one wipe (with or without a restart) |
| `claim_retry` | "returns to SCHEDULED so the worker picks it up again" | refuted after the last attempt |
| `claim_delegated` | "hand it over and let Facebook do the waiting" | refuted: never sent |
| `claim_wipe` | "A wiped Redis costs punctuality, not the post itself" | refuted: nothing re-arms the row until somebody restarts the worker |
| `claim_stop` | "checked … again immediately before every publish" | refuted: a stop between the check and the call does not hold it back |
| `pipeline` | what may be written, scheduled, repeated, revived or left behind | two instances, 1 fault each: 2 topics, up to 2 per tick, 4 kinds of findings, kill switch, mode and researcher flag at any moment; 1 topic, 2 pieces, 2 editors who approve and archive, kill switch and mode |
| `office` | the machines that share no state (see `MCOffice`); among them: what has been posted when `createPost` returns or throws, and does each adapter implement the one call | adapters: 3 platforms, 3 formats, at once, in 5 and in 30 minutes, 2 calls, 2 polls, every answer; 1 account and fault; 2 callers; 2 administrators; 2 settings; 4 cycles; 3 stories and 4 hooks; 2 answers |
| `claim_backlog` | "the system maintains a healthy backlog" | refuted: the first slot of a day is never 24 hours ahead |

Why the bounds are enough. Everything in `execute` concerns one row, its piece and its
account, so one piece with two accounts has every conflict between siblings, and two
executors every overlap of two executions. Two attempts have a first, a last and a
retry. Two faults give a fault during the recovery from another. `MaxTime` of one has
past, present and future. Symmetry is used for executors and callers, in safety runs only.
Where deadlock is not checked, the instance may stop: the clock ends, faults are spent
and no row is left to run. `publish_live` does check it: its operator can always engage
or release the kill switch. The runs with a claim are the smallest that refute it: one row, one
executor and at most one fault or one stop.

The loop works on one topic and one piece at a time. Two topics put one in its hands while
another waits, is left over from an earlier tick or is decided already; two pieces let a
topic be generated from twice, after a failure. The four findings are one for each way
through the gates. Two editors overlap with each other and with the loop. `pipeline` has the two
instances as alternatives of its initial states (`InstanceSpec`), since two topics together with
two editors are too many states and no property is about both. Deadlock is checked in it: an
operator can always move a control.

Fairness (`FairSpec`): the clock goes on; a worker slot goes on with what it took; the
reconciler runs after a boot and, as long as Redis has its repeatable job, every half hour, and
gets through its list; BullMQ's stalled check runs; a due job is eventually taken. The last is
strong fairness, because slots are shared and BullMQ hands out waiting jobs in order. After a wipe
`ReconcileRead` is not enabled, so fairness promises nothing of it until a boot. Nobody is assumed
to restart the worker; clients, operators, platforms that refuse or finish late, and faults get no
fairness either.

`RowIsSettled` has two exemptions that the code makes necessary: the reconciler's repeatable job
is gone from Redis, and the one BullMQ job of the row is completed or failed. The first is the
wiped Redis (`claim_wipe`): a row waits without a timer until the worker is restarted, and then
must be settled like any other. The second covers the stuck rows the runs found:

- the attempts are used up, and the row is SCHEDULED (`claim_retry`). Refusals while the
  kill switch is engaged use up attempts as well;
- a crash after PUBLISHING was written, and a refusal when the stalled job runs
  again (the kill switch, an archived piece): the row stays PUBLISHING;
- a wiped Redis in the middle of an execution, a new timer, and two overlapping
  executions: one posts and completes, the other fails and writes SCHEDULED last.

With a second fault there is one more: a crash in the middle of an execution followed by
a wipe leaves PUBLISHING with no timer at all, because the reconciler only looks for
QUEUED and SCHEDULED.

`office`: the adapters take two calls, so that one starts over after every way the other may end; two
polls, so that the deadline comes before and after the platform is done; and times that are past,
too near and far enough for a platform that holds posts. A third call would meet nothing a second
does not: `PlatformCall` relates a call to the ones before only by their being over.
In `Accounts` one fault is a refusal by mistake or a crash at every step, and five
generations are one more than can be held at once (stored, refresh, callback, use). Two callers
and limits of two calls' cost meet before, at and past each limit. Two settings of the backlog
include one whose target is below its minimum, which the code admits. Four cycles of learning
drift from the default weights and from weights near their ceiling; the mix is the default one,
with its eleven categories. `Recall` of one makes the
desk's queries overlook rows as soon as there are two. Deadlock is not checked in `office`:
calls are used up, cycles end.

Fairness in `office`: a call of an adapter goes on, because a request is aborted after 60 s, or
by the runtime when its body stalls, and both polls have a deadline (`CallReturns`). The hourly
refresh pass goes on (`FalseAlarmsAreHealed`, `DeadCredentialsAreNoticed`); it is a repeatable job
as well, so this takes for granted that Redis was not wiped since the worker's last start. Only
tokens with an expiry are ever listed, so both speak of those: a page token of Facebook is stored
with the expiry the platform gave for the user's token, if any (`oauth.ts:105`), and one without,
once marked expired, waits for a reconnect. In `claim_backlog` the clock and the loop go on.
`DisconnectIsFinal` and `ConnectedHasCredentials` except what the code leaves open: a disconnect
that meets a refresh or a callback may be undone by it, for both upsert what they have.

## Where the docs say otherwise

The five runs with a claim refute a sentence of the code's comments each:

- `claim_retry`: "A retryable failure returns to SCHEDULED so the worker picks it up again"
  (`publishing.ts:233-234`): not after the last attempt;
- `claim_delegated`: "we hand it over and let Facebook do the waiting" (`scheduling.ts:6-8`): the
  request that would hand it over is never made;
- `claim_wipe`: "On boot — and periodically after — every job that should have a timer gets one
  re-armed … A wiped Redis costs punctuality, not the post itself" (`jobs/publishing.ts:6-8`), "This
  is what makes a Redis loss survivable" (`index.ts:283-284`): what runs periodically is kept in
  the Redis that was wiped. The line whose absence `DEPLOYMENT.md:69-70` asks to alert on is the
  only sign of it;
- `claim_stop`: "checked at job start AND again immediately before every publish … \"stop
  publishing\" must mean the post in flight does not go out" (`automation.ts:5-11`, and likewise
  `automation.ts:93-97`, `publishing.ts:118-119`): the check comes several awaits before the call,
  so what is past it goes out, and so does a post that a platform finishes after its call has
  ended. `StopLeakBounded` says that nothing else does;
- `claim_backlog`: "the system maintains a healthy backlog" (`scheduling.ts:90-92`): pieces go out
  at once.

Others were met while modelling and have no run of their own:

- `TROUBLESHOOTING.md:12-13`, "generation stops cleanly rather than overrunning", and
  `ARCHITECTURE.md:110-113`: the gate is read before a call and the meter written after it, so
  concurrent calls overrun each limit together, by up to one call of each;
- `cost.ts:4-6`, "no way to make a model call that escapes the meter": an answer that is paid for
  and cannot be parsed ends in an error without usage and is not metered.
  `SpendStaysNearLimits` bounds both;
- `publishing.ts:8`, "every attempt, success or failure, is recorded": the attempt's row is written
  after the call (`publishing.ts:154`), and a crash before that loses it. Its number is counted;

- `publishing.ts:36-38`, "a retried API call … cannot produce two posts": an undated call stamps
  its rows with the clock, and a second one makes a second row;
- `lifecycle.ts:35`, "PUBLISHED cannot go backwards": the row of a second account takes its
  piece back to PUBLISHING (`publishing.ts:132`);
- `reviewers.ts:124`, "Outside autonomous mode a human reviews everything": a mode switched
  off in the middle of a tick leaves the tick scheduling by itself (`UnattendedIsStrict` says that
  this is the only way);
- `ARCHITECTURE.md:140` has the kill switch drain the delayed queues: nothing calls `drainAll`;
- `pipeline.ts:6-7`, "resumable after a worker restart": a topic in research is not resumed;
- `index.ts:192-196`: the loop schedules a piece on every connected account, also on
  platforms it was not captioned and checked for (`strategy.targetPlatforms`, `generation.ts:299`);
- `learning/engine.ts:9-10`, "No weight moves more than a fixed amount per cycle": a weight
  that is due for a raise is cut to 0.3 (`min(0.3)`), by whatever it was above; `StepsAreSmall`
  speaks of weights up to 0.305;
- `learning/engine.ts` and `analytics.ts:4-7`, never as 0: `performanceScore` counts saves and
  shares a platform does not report as none;
- `facebook/adapter.ts`: comments and shares are null without being named unavailable;
- `content/mix.ts:42`, "override the target mix, but only within bounds": each category is moved
  by at most five points, but then all are scaled, and there is no sample size to reach. From the
  default mix, a week of one post in each category, of which one in MONEY is liked, takes MONEY
  from 15 to 33.33 percent and three others to 0;
- no step of the code asks Instagram for the watch time it reads from the answer.

## Proofs

The theorems hold for every value of the constants that the modules' named assumptions admit: any
number of pieces, topics, accounts, executors, callers, people and faults, and any bound on time
and attempts. Each safety invariant was checked with TLC on the instances above before it was
proved, and so were the strengthenings that the proofs needed.

### `Publishing`

- `TypeCorrect`: `TypeOK` is inductive once it says that a busy executor has a job (`ExecOK`).
- `OnlyApprovedIsPosted`: `posts[j] > 0 => PieceOf(j) \in approved` is not inductive.
  `ApprovalInv` follows the chain backwards: a busy executor, a timer, a listed row, an existing
  row and a schedule call in progress all belong to an approved piece, and so does every piece in
  a publishable status. The table lets pieces become publishable only by approval, and each step
  of the chain is entered from the one before.
- `QuietStopsStay`: `QuietInv` says where executors can be on a row that was cancelled, or on a
  piece that was archived, while nobody was at work on it: before the first read, or already
  refused. `CancelledIsRefused` and `UnfitIsRefused` show that they write nothing from there, and
  `ExecutionFrame` that others write elsewhere.
- `StopLetsOutOnlyWhatWasPast`: while a stop is engaged, the posts that got out plus what may
  still come out (`Owing`: executors past the check and without an answer, and calls that have
  ended without one) never exceed what there was of the latter when it was engaged (`StopInv`). The
  gate adds nobody (`NobodyPasses`, `NothingIsAdded`); a lost answer and a crash turn an executor
  into such a call (`LeavesFlight`), and a late post takes one away.
- `NoTwoExecutorsOnARow`: `LockInv` ties a BullMQ entry's state to its holder and its attempts
  left; `HoldersInv` says that, until a fault, whoever works on a row holds its lock. The
  publisher itself does not keep two executors apart: the lock is all there is.
- `PublishedRowsStay` rests on it: until a fault whoever is on a PUBLISHED row has just published
  it or is about to be refused (`PublishedInv`), so no retry, sibling, clearing or repeated
  scheduling takes it back.
- `NoPostIsClaimedInVain`: who records a post has made it (`RecordInv`).
- `PostsNeverOutrunAttempts`, `OnePostAndOnePerFault`, `AttemptsStayInBudget`: one budget for each
  row, `RowBudget`, adds to what has happened what can still happen without a fault: posts,
  calls without an answer and executors that have marked their attempt; posts, such calls, wakes
  left and executors that may post; attempts, tries left and executors that may mark. `Out` is the
  posts of a row and the calls for it that may still make one, so a late post moves nothing
  (`LateKeepsBudget`), and a crash leaves a call where an executor was (`CrashKeepsBudget`).
  Steps move one count to the other, a fault pays for what it adds, `Headcount`
  counts executors one by one.

### `Pipeline`

- `PipelineTypeCorrect`: `TypeOK`, with the topic and the piece that each label of the loop has.
- `TopicsAreScheduledOnce` and `PiecesRestOnResearch`: neither is inductive. `TickInv` says where
  the loop's topics are: SELECTED until their research starts, RESEARCHED until they are used,
  USED before a row is made. `TopicInv` says that a topic with pieces is RESEARCHED or USED, that
  such a topic's claims stand, and that a topic with a scheduled piece is USED. So the loop never
  generates again from a topic it has scheduled, whatever crashes between two writes, and nothing
  changes the claims once a piece rests on them. `QuietTopics` and `QuietPieces` are the frame:
  steps that move only pieces, and only topics.
- `KillSwitchEndsTheTick`: under a kill switch what was begun and what may still be begun make at
  most one, and so for scheduling (`LeakInv`).
- `UnattendedGoesOutSure`: `ModeInv` says which mode a tick goes by, and that what it writes in
  autonomous mode is not for a human's eyes. `NoApprovedPieceIsForgotten` needs `HandInv`: what
  the loop has in hand at each label. The three are inductive only together (`LoopInv`).
- `QuietArchivesStand`: nobody has a quietly archived piece in hand (`QuietInv`).
- `ResearchErrorsAreAnswered`: topics left in research are never more than the faults
  (`OrphanInv`), by counting.

### `Adapters`

`AdaptersInv` says what the request carries (`RequestOK`), that calls follow one another and stop
at a success (`CallsOK`), what the platform has for a call, above all for one that failed without
doubt (`ItemOK`), and what each request of a call finds (`HandOK`). From it:

- `AdaptersTypeCorrect`, `PostsHaveAllTheirMedia`, `PostsKeepTheirHour`;
- `AdaptersKeepTheCallPromise`: the state machine of HTTP requests implements `PlatformCall`. The
  initial states map to its own (`PromiseStarts`); a step concerns one call, and the others look
  the same (`OthersLookTheSame`, `OneCallAtATime`); each kind of step, the adapter's, a new call,
  the platform's own, is a step of the promise or a stutter (`CallStepPromises`, `BeginPromises`,
  `PlatformPromises`). What decides is when an error leaves doubt: `MayAct` says that the platform
  may have acted although the answer was an error, and the promise allows a late post exactly
  there.

### The machines of the office

- `ControlsAreKept`: whoever is between the read and the write of `setAgentEnabled` has seen the
  present value of every agent nobody overlapped (`ReadersAreCurrent`).
- `DisconnectStands`, `ConnectedMeansCredentials`: `AloneUnlessCrossed` says where a refresh pass
  and a callback can be while a disconnect is under way, and after one they did not meet.
  `RotationKeepsCredentials`: until a fault, what a pass or a callback is about to store works too
  (`IssuedCredentialsWork`).
- `SpendIsBounded`: a recorded sum, together with what each caller past the gate may still add to
  it, stays below its limit plus one call of every caller (`SumsStayNear`); what the provider has
  charged is recorded, lost or owed (`ChargesAreAccounted`). The sums over callers are functions
  on subsets, so that they unfold for any finite set.
- `FullQueueGetsAtMostOneTick`: pieces beyond the target, together with those a tick has still to
  make, are at most three, and are counted only where no tick finds the queue short
  (`OneTickBeyond`).
- `DeskTypeCorrect`, `TheDeskRepeatsNothing`, `WritersGetTraceableClaims`,
  `PiecesFitTheirPlatforms`: `DeskInv`. The last one is about sums of any length: scaling 3 or
  more beats to the limit leaves them within it but for half a step each. `SumsExist` and
  `SumUnfolds` show that the library's fold of a finite function is the sum that unfolds one
  element at a time; `Bounded` and `SumIsBounded` bound it by the bounds of the elements.
  Induction is over sets here (`NumbersInduction`, `SubsetsInduction`), since the prover cannot
  instantiate the library's theorems on operators.
- `MetricsTypeCorrect`, `TheSummaryInventsNothing`: a record has no number for what its platform
  cannot report (`RecordsOK`), and a sum of numbers of which none is zero is not zero.
- `DistributionsCorrect`: weights and mix sum to one after every cycle, up to the rounding of each
  share (`SharesSumToOne`). `LearningInv` adds that the mix always has something to scale: eleven
  categories lose at most 55 of their 100 points in a cycle (`MixIsAdjusted`). Weights that are all
  zero stay so, and the invariant excepts them, as the code does.
- `SmallStepsCorrect`: a raise moves four of the twelve weights, none by more than 0.02
  (`WeightMovesByAStep`), so the sum to divide by has moved by at most 0.08
  (`SumMovesByFourSteps`), and a share of it is what it was, give or take the step and the
  rounding (`WeightIsAShare`, `CycleKeepsCeiling`, `CycleTakesASmallStep`). `SumTakesOut`
  takes the four weights out of the library's sum, whatever order that adds in.
- `OfficeRunsTheMachines`, `OfficeTypesCorrect`, `OfficeIsSafe`: a step of the office is a step of
  one machine and a stutter of the others (`OfficeSteps`). So the office implements `Spending`,
  `Controls`, `Learning`, `Desk` and `Metrics`, keeps the invariants of `Adapters`, `Accounts` and
  `Backlog`, which promise progress as well, takes only steps of `PlatformCall`, and
  every invariant and action property its run checks holds of it for all constants.

### Assumptions

They are the named ones of the modules. `Publishing`: finitely many executors, bounds that are
naturals, `None` outside the other sets, rows that are not pieces. `Pipeline`: findings are
counts, and `None` is no row. `Adapters`: a request can be built, has a natural hour and a
sequence of slides. `Accounts`: there are credentials to issue, and `NoToken` is none of them.
`Spending`: finitely many callers, limits and costs above zero. `Controls`: nobody is no
agent. `Backlog`: settings in the ranges of the API. `Desk`: what
`packages/contracts/src/schemas.ts` admits of a script (`SLIDE_ROLES`, 4 to 10 slides, beats of
0.5 to 30 s), of a verdict and of a rating; finitely many stories and hooks; `NoPiece` is no
piece. `Learning`: a week has finitely many groups of posts, none of them empty and none with a
score below zero; weights are not negative; a mix has shares that are not negative, at most eleven
of them, and totals 100 give or take a half. The route that stores a mix checks the total
(`routes/misc.ts:194-199`) but neither sign nor names.

### Only model-checked

- Liveness (`publish_live` and the temporal claims of the other runs): the prover has no reasoning
  about fairness or ENABLED.
- A ceiling of 0.3 for the weights for ever is neither proved nor claimed: the code does not keep
  it. Raises stop there, but a brand may start above it, and normalization lifts a weight nobody
  raised by a rounding at a time. `StepsAreSmall` is about one cycle.
- The five claims that the code refutes.

## Left open

`Pipeline` and `Publishing` are not composed through the rows that one makes and the other posts
(approval of a piece that is still in review; generation that writes over what publishing made of
it): their product is beyond a run. Scores that let some topics starve others are abstracted.

## Not modelled

- Rendering (`packages/media`): layout, a browser and ffmpeg. It keeps no state that another part
  races with; a slide or a reel is rendered or is not.
- Prompts, fetching of sources and the parsing of model output: a model answers anything.
- The rights assessment beyond its answer for own renders, the reviewers' rules on wording.
- `apps/api` beyond the routes that the modules name: HTTP plumbing, login and sessions, reports
  that only read. `apps/web`: a user interface over the API.
- `snapshotAccounts`, `optimalPostingHours`, `analyzeMix`, the fatigue report, account analytics:
  they insert rows or compute from rows that nothing modelled reads. Deleting and updating posts:
  no other part calls them.
- Encryption of credentials. The stop endpoints' own audit rows. Prisma and BullMQ beyond what is
  said above. `TokenBucket`: no caller.
