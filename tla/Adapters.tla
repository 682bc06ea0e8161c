------------------------------ MODULE Adapters ------------------------------
(***************************************************************************)
(* PlatformAdapter.createPost on the three platforms: the requests each    *)
(* adapter makes in order, what the platform does with them, and how every *)
(* answer, an HTTP error, a lost connection or an error inside a 200, ends *)
(* the call.  One publishing job is followed: its attempts call createPost *)
(* again with the same input, each after the other has ended.              *)
(*                                                                         *)
(* The platform is external.  It works on what it accepted in its own      *)
(* time, also after the call has ended.                                    *)
(***************************************************************************)
EXTENDS Capabilities

CONSTANTS
  MaxCalls,     \* bound on the job's calls
  MaxPolls,     \* status polls within the deadline (five minutes / 5 s = 60)
  MaxClock,     \* bound on the clock, in ticks
  Tick,         \* minutes of a tick
  PostInputs    \* what the engine may ask for: [platform, piece, scheduledAt]

ASSUME AdaptersAssumption ==
  /\ MaxCalls \in Nat \ {0} /\ MaxPolls \in Nat \ {0}
  /\ MaxClock \in Nat /\ Tick \in Nat \ {0}
  /\ \A p \in PostInputs :
       /\ p.platform \in Platforms /\ p.scheduledAt \in Nat
       /\ p.piece.slides \in Seq(STRING) /\ Buildable(p.piece)

Calls == 1..MaxCalls

VARIABLES
  platform, input,   \* the account's platform and the CreatePostInput
  local,             \* the video is a local file (TikTok uploads it)
  clock,             \* ticks since the row was created
  call, pc,          \* the current call and the request it makes next
  made,              \* containers or photos made so far by the call
  polls,             \* polls of the call so far
  held,              \* Facebook is told to hold the post until its hour
  result,            \* call -> how it ended
  doubt,             \* call -> it ended not knowing whether a post is made
  item               \* call -> what the platform has for it: [state, media, posts]

adapterVars ==
  <<platform, input, local, clock, call, pc, made, polls, held, result, doubt, item>>
inputVars == <<platform, input, local>>

Errors  == {"auth", "limited", "retryable", "permanent", "raw"}
Results == {"none", "open", "success"} \cup Errors

ItemStates ==
  {"none", "container", "processing", "failed", "scheduled", "public"}

Requests ==
  {"validate", "limit", "child", "container", "poll", "publish", "photo", "post", "creator",
   "init", "put", "await"}

AdaptersTypeOK ==
  /\ platform \in Platforms /\ local \in BOOLEAN
  /\ clock \in 0..MaxClock
  /\ call \in 0..MaxCalls
  /\ pc \in Requests \cup {"idle"}
  /\ made \in 0..Len(input.media)
  /\ polls \in 0..MaxPolls
  /\ held \in BOOLEAN
  /\ result \in [Calls -> Results]
  /\ doubt \in [Calls -> BOOLEAN]
  /\ item \in [Calls -> [state : ItemStates, media : Nat, posts : Nat]]

-----------------------------------------------------------------------------
(* request(): the answers of the platform and what they become.            *)

Answer(fetch, status, type, code) ==
  [fetch |-> fetch, status |-> status, type |-> type, code |-> code]

Ok        == Answer("whole", 200, "", "")
BadAnswers ==
  {Answer("whole", 400, "", ""), Answer("whole", 401, "", ""),
   Answer("whole", 400, "OAuthException", "4"), Answer("whole", 400, "", "4"),
   Answer("whole", 500, "", ""), Answer("failed", 0, "", ""),
   Answer("cut", 200, "", "")}

\* A 200 of TikTok that carries an error, or no data.
TikTokAnswers ==
  {Answer("whole", 200, "", "spam_risk"), Answer("whole", 200, "", "internal_error"),
   Answer("whole", 200, "", "empty")}

\* classifyError: a token error first, whatever else the body says.
classifyError(a) ==
  IF a.status \in {401, 403} \/ a.type = "OAuthException" THEN "auth"
  ELSE IF a.status = 429 \/ a.code \in {"4", "17", "32"} THEN "limited"
  ELSE IF a.status >= 500 THEN "retryable" ELSE "permanent"

\* request: a fetch that fails is retryable; a body cut after the answer's head
\* is an error of the runtime, which no caller takes for retryable.
request(a) ==
  CASE a.fetch = "failed" -> "retryable"
    [] a.fetch = "cut"    -> "raw"
    [] OTHER              -> IF a.status # 200 THEN classifyError(a) ELSE "success"

\* unwrap: TikTok's envelope.
unwrap(a) ==
  IF request(a) # "success" THEN request(a)
  ELSE CASE a.code = ""               -> "success"
         [] a.code = "internal_error" -> "retryable"
         [] OTHER                     -> "permanent"

\* Whether the platform has acted on a request it answered so (external).
MayAct(a) ==
  IF a = Ok THEN {TRUE}
  ELSE IF \/ a.fetch # "whole" \/ a.status >= 500
          \/ a.code \in {"internal_error", "empty"}
       THEN BOOLEAN
       ELSE {FALSE}

Answers == {Ok} \cup BadAnswers \cup (IF platform = "TIKTOK" THEN TikTokAnswers ELSE {})
Outcome(a) == IF platform = "TIKTOK" THEN unwrap(a) ELSE request(a)

-----------------------------------------------------------------------------
(* Steps of a call.                                                        *)

now   == clock * Tick
video == \E i \in DOMAIN input.media : input.media[i].kind = "VIDEO"
images == {i \in DOMAIN input.media : input.media[i].kind = "IMAGE"}

Goto(p) == pc' = p /\ UNCHANGED <<result, doubt>>

\* The call ends, by a return or by an error.
Return(kind, unsure) ==
  /\ pc' = "idle"
  /\ result' = [result EXCEPT ![call] = kind]
  /\ doubt' = [doubt EXCEPT ![call] = unsure]

\* The platform makes, or starts to make, the post of the current call.
Becomes(state, media) ==
  item' = [item EXCEPT ![call] =
             [state |-> state, media |-> media,
              posts |-> @.posts + (IF state \in {"scheduled", "public"} THEN 1 ELSE 0)]]

\* Fault seeded for the mutation check: what a failed call uploaded is kept.
BeginKeepingUploads ==
  /\ pc = "idle" /\ call < MaxCalls
  /\ call > 0 => result[call] # "success"
  /\ call' = call + 1
  /\ result' = [result EXCEPT ![call + 1] = "open"]
  /\ pc' = "validate"
  /\ polls' = 0 /\ held' = FALSE
  /\ UNCHANGED <<platform, input, local, clock, made, doubt, item>>

\* createPost is called, the first time or again after a call that failed.
Begin ==
  /\ pc = "idle" /\ call < MaxCalls
  /\ call > 0 => result[call] # "success"
  /\ call' = call + 1
  /\ result' = [result EXCEPT ![call + 1] = "open"]
  /\ pc' = "validate"
  /\ made' = 0 /\ polls' = 0 /\ held' = FALSE
  /\ UNCHANGED <<platform, input, local, clock, doubt, item>>

\* The first request of each adapter.  Facebook sends one video or one image by
\* itself; more images are uploaded first.
FirstRequest ==
  CASE platform = "INSTAGRAM" -> "limit"
    [] platform = "TIKTOK"    -> "creator"
    [] OTHER                  -> IF video \/ Cardinality(images) = 1 THEN "post" ELSE "photo"

\* Fault seeded for the mutation check: Facebook is not told to hold the post.
ValidateUnheld ==
  /\ pc = "validate"
  /\ IF validateAgainstCapabilities(input, getCapabilities(platform), now) # {}
     THEN Return("permanent", FALSE)
     ELSE Goto(FirstRequest)
  /\ UNCHANGED <<inputVars, clock, call, made, polls, held, item>>

\* What is refused before anything is sent: what the registry forbids, and a
\* future hour on a platform that cannot wait for it.
Validate ==
  /\ pc = "validate"
  /\ LET future == input.scheduledAt > now + 1 IN
       IF \/ validateAgainstCapabilities(input, getCapabilities(platform), now) # {}
          \/ future /\ platform # "FACEBOOK"
       THEN Return("permanent", FALSE) /\ UNCHANGED held
       ELSE Goto(FirstRequest) /\ held' = future
  /\ UNCHANGED <<inputVars, clock, call, made, polls, item>>

\* A request that only prepares the post: on an error nothing will be published.
Prepare(request_, succeeds) ==
  /\ pc = request_
  /\ \E a \in Answers :
       IF Outcome(a) = "success" THEN succeeds
       ELSE Return(Outcome(a), FALSE) /\ UNCHANGED <<made, polls, item>>
  /\ UNCHANGED <<inputVars, clock, call, held>>

\* Instagram: the rolling limit is read first.
CheckRateLimit ==
  Prepare("limit",
    /\ \/ Goto(IF input.kind = "CAROUSEL" THEN "child" ELSE "container")
       \/ Return("retryable", FALSE)
    /\ UNCHANGED <<made, polls, item>>)

\* Fault seeded for the mutation check: a child that fails is skipped.
CreateChildSkipping ==
  /\ pc = "child"
  /\ \E k \in {0, 1} :
       /\ made' = made + k
       /\ Goto(IF polls = 1 THEN "container" ELSE "child")
       /\ polls' = 1
  /\ UNCHANGED <<inputVars, clock, call, held, item>>

\* Instagram: one container per item of a carousel, in order.
CreateChild ==
  Prepare("child",
    /\ made' = made + 1
    /\ Goto(IF made + 1 = Len(input.media) THEN "container" ELSE "child")
    /\ UNCHANGED <<polls, item>>)

\* Instagram: the container to publish, of one item or of the children.  A
\* video or a carousel has to be processed first.  A container whose creation
\* is not answered is never published: its id is lost.
CreateContainer ==
  Prepare("container",
    LET slow == video \/ input.kind = "CAROUSEL" IN
      /\ Becomes(IF slow THEN "processing" ELSE "container",
                 IF input.kind = "CAROUSEL" THEN made ELSE 1)
      /\ Goto(IF slow THEN "poll" ELSE "publish")
      /\ UNCHANGED <<made, polls>>)

\* Instagram: wait until the container is ready.
AwaitContainerReady ==
  /\ polls < MaxPolls
  /\ Prepare("poll",
       /\ CASE item[call].state = "container"  -> Goto("publish") /\ UNCHANGED polls
            [] item[call].state = "failed"     -> Return("permanent", FALSE) /\ UNCHANGED polls
            [] item[call].state = "processing" -> Goto("poll") /\ polls' = polls + 1
       /\ UNCHANGED <<made, item>>)

\* The request that makes the post.  A refusal means there is none; any other
\* error leaves it open whether the platform has acted.
Commit(a, state, media) ==
  /\ \E acts \in MayAct(a) : IF acts THEN Becomes(state, media) ELSE UNCHANGED item
  /\ Return(Outcome(a), Outcome(a) # "success" /\ TRUE \in MayAct(a))
  /\ UNCHANGED <<inputVars, clock, call, made, polls, held>>

PublishContainer ==
  /\ pc = "publish"
  /\ \E a \in Answers : Commit(a, "public", item[call].media)

\* Facebook: each of several photos is uploaded unpublished.
UploadPhoto ==
  Prepare("photo",
    /\ made' = made + 1
    /\ Goto(IF made + 1 = Cardinality(images) THEN "post" ELSE "photo")
    /\ UNCHANGED <<polls, item>>)

\* Facebook: the video, the photo, or the feed post of the photos.  It is held
\* until its hour if the call says so, and refused once that hour is past.
PostToPage ==
  /\ pc = "post"
  /\ \E a \in Answers :
       /\ held /\ input.scheduledAt <= now => MayAct(a) = {FALSE}
       /\ Commit(a, IF held THEN "scheduled" ELSE "public",
                 IF video THEN 1 ELSE Cardinality(images))

\* TikTok: the creator's settings come first and are honoured: some privacy
\* level must be on offer, and the video no longer than the creator may post.
GetCreatorInfo ==
  Prepare("creator",
    /\ \E offered \in BOOLEAN, longest \in {60, 600} :
         IF \/ ~offered
            \/ video /\ \E i \in DOMAIN input.media : input.media[i].seconds > longest
         THEN Return("permanent", FALSE)
         ELSE Goto("init")
    /\ UNCHANGED <<made, polls, item>>)

uploads == local /\ video

\* TikTok: the platform takes the post on, and fetches its media unless the
\* adapter has to upload them.
InitPost ==
  /\ pc = "init"
  /\ \E a \in Answers :
       /\ \E acts \in MayAct(a) :
            IF acts THEN Becomes(IF uploads THEN "container" ELSE "processing",
                                 IF video THEN 1 ELSE Cardinality(images))
            ELSE UNCHANGED item
       /\ IF Outcome(a) = "success" THEN Goto(IF uploads THEN "put" ELSE "await")
          ELSE Return(Outcome(a), ~uploads /\ TRUE \in MayAct(a))
  /\ UNCHANGED <<inputVars, clock, call, made, polls, held>>

\* TikTok: the upload is a bare fetch.  Its body is never read, and a lost
\* connection is not wrapped, so it does not count as retryable.
PutVideo ==
  /\ pc = "put"
  /\ \E a \in {Ok} \cup BadAnswers :
       /\ \E acts \in IF a.fetch # "failed" /\ a.status = 200 THEN {TRUE} ELSE MayAct(a) :
            IF acts THEN Becomes("processing", item[call].media) ELSE UNCHANGED item
       /\ IF a.fetch = "failed" THEN Return("raw", TRUE)
          ELSE IF a.status = 200 THEN Goto("await")
          ELSE IF a.status >= 500 THEN Return("retryable", TRUE)
          ELSE Return("permanent", FALSE)
  /\ UNCHANGED <<inputVars, clock, call, made, polls, held>>

\* TikTok: ask until the post is out.  An error of the question itself ends the
\* call while the platform goes on with the post.
AwaitPublishComplete ==
  /\ pc = "await" /\ polls < MaxPolls
  /\ \E a \in Answers :
       IF Outcome(a) # "success" THEN Return(Outcome(a), TRUE) /\ UNCHANGED polls
       ELSE CASE item[call].state = "public" -> Return("success", FALSE) /\ UNCHANGED polls
              [] item[call].state = "failed" -> Return("permanent", FALSE) /\ UNCHANGED polls
              [] OTHER                       -> Goto("await") /\ polls' = polls + 1
  /\ UNCHANGED <<inputVars, clock, call, made, held, item>>

\* Fault seeded for the mutation check: the deadline is never reached.
GiveUpNever == FALSE /\ UNCHANGED adapterVars

\* Fault seeded for the mutation check: running out of time counts as published.
GiveUpPublished ==
  /\ pc \in {"poll", "await"} /\ polls = MaxPolls
  /\ Return("success", FALSE)
  /\ UNCHANGED <<inputVars, clock, call, made, polls, held, item>>

\* Both waits end at their deadline, with an error that asks for a retry.
GiveUp ==
  /\ pc \in {"poll", "await"} /\ polls = MaxPolls
  /\ Return("retryable", pc = "await")
  /\ UNCHANGED <<inputVars, clock, call, made, polls, held, item>>

-----------------------------------------------------------------------------
(* The platform and the clock.                                             *)

\* The platform finishes what it took on, or fails to.
Process(c) ==
  /\ item[c].state = "processing"
  /\ \/ item' = [item EXCEPT ![c].state = "failed"]
     \/ /\ platform = "INSTAGRAM"
        /\ item' = [item EXCEPT ![c].state = "container"]
     \/ /\ platform = "TIKTOK"
        /\ item' = [item EXCEPT ![c].state = "public", ![c].posts = @ + 1]
  /\ UNCHANGED <<inputVars, clock, call, pc, made, polls, held, result, doubt>>

\* A post held by the platform goes out at its hour.
GoPublic(c) ==
  /\ item[c].state = "scheduled" /\ now >= input.scheduledAt
  /\ item' = [item EXCEPT ![c].state = "public"]
  /\ UNCHANGED <<inputVars, clock, call, pc, made, polls, held, result, doubt>>

ClockTicks ==
  /\ clock < MaxClock
  /\ clock' = clock + 1
  /\ UNCHANGED <<inputVars, call, pc, made, polls, held, result, doubt, item>>

AdaptersInit ==
  /\ \E p \in PostInputs :
       /\ platform = p.platform
       /\ input = buildPostInput(p.piece, p.scheduledAt,
                                 decideSchedule(p.platform, p.scheduledAt, 0))
  /\ local \in BOOLEAN
  /\ clock = 0 /\ call = 0 /\ pc = "idle" /\ made = 0 /\ polls = 0 /\ held = FALSE
  /\ result = [c \in Calls |-> "none"]
  /\ doubt = [c \in Calls |-> FALSE]
  /\ item = [c \in Calls |-> [state |-> "none", media |-> 0, posts |-> 0]]

CallStep ==
  \/ Validate \/ CheckRateLimit \/ CreateChild \/ CreateContainer
  \/ AwaitContainerReady \/ PublishContainer
  \/ UploadPhoto \/ PostToPage
  \/ GetCreatorInfo \/ InitPost \/ PutVideo \/ AwaitPublishComplete
  \/ GiveUp

AdaptersNext ==
  \/ Begin \/ CallStep \/ ClockTicks
  \/ \E c \in Calls : Process(c) \/ GoPublic(c)

\* Every request is answered or aborted in the end, so a call goes on.
AdaptersSpec ==
  AdaptersInit /\ [][AdaptersNext]_adapterVars /\ WF_adapterVars(CallStep)

-----------------------------------------------------------------------------
(* Properties.                                                             *)

\* What a caller sees of the calls, whatever the platform.
CallOutcome ==
  [c \in Calls |->
     CASE result[c] \in {"none", "open"} -> result[c]
       [] result[c] = "success"         -> "accepted"
       [] OTHER                         -> IF doubt[c] THEN "unsure" ELSE "refused"]

PC == INSTANCE PlatformCall WITH outcome <- CallOutcome,
                                 post <- [c \in Calls |-> item[c].posts]

\* Every adapter keeps the promise of createPost: success means exactly one
\* post, a refusal means none for good, and at most one is ever made by a call
\* whose error leaves that open (a late TikTok post, an answer that was lost).
KeepsCallPromise == PC!CallSpec

\* What is posted has all the media of the request: a carousel is not posted
\* short of the items whose upload failed.
PostsAreComplete ==
  \A c \in Calls : item[c].posts > 0 => item[c].media = Len(input.media)

\* A post asked for an hour to come is not public before that hour, though the
\* uploads before it take their time and the call may be made again.
NeverPublicEarly ==
  \A c \in Calls : item[c].state = "public" => now >= input.scheduledAt

\* Every call returns or throws: the polls of a container or of a post that is
\* never ready end at the deadline.
CallReturns == \A c \in Calls : result[c] = "open" ~> result[c] # "open"
=============================================================================
