----------------------------- MODULE AdaptersProofs -----------------------------
(***************************************************************************)
(* What is proved of createPost on the three platforms, for any bounds on  *)
(* calls, polls and time and any requests of the engine.                   *)
(***************************************************************************)
EXTENDS Adapters, FiniteSetTheorems, TLAPS

(***************************************************************************)
(* The request.                                                            *)
(***************************************************************************)

\* The request carries a video, or images only, and more than one item only in a
\* carousel; it carries a time only to the platform that can wait for it.
RequestOK ==
  /\ platform \in Platforms
  /\ input.scheduledAt \in Nat
  /\ platform # "FACEBOOK" => input.scheduledAt = 0
  /\ Len(input.media) \in Nat \ {0}
  /\ video \/ Cardinality(images) = Len(input.media)
  /\ video \/ input.kind # "CAROUSEL" => Len(input.media) = 1
  /\ video => input.kind # "CAROUSEL"

\* The slides that are published are as many as are rendered, in a sequence.
LEMMA RenderedIsASequence ==
  ASSUME NEW slides \in Seq(STRING), Rendered(slides) # <<>>
  PROVE  \E n \in Nat \ {0} : DOMAIN Rendered(slides) = 1..n
<1> DEFINE kept == {i \in DOMAIN slides : slides[i] # "unrendered"}
<1>1. IsFiniteSet(1..Len(slides))
  BY FS_Interval
<1>2. kept \subseteq 1..Len(slides)
  OBVIOUS
<1>3. Cardinality(kept) \in Nat
  BY <1>1, <1>2, FS_Subset, FS_CardinalityType
<1>4. DOMAIN Rendered(slides) = 1..Cardinality(kept)
  BY DEF Rendered
<1>5. Cardinality(kept) # 0
  <2>1. SUFFICES ASSUME Cardinality(kept) = 0
                 PROVE  FALSE
    OBVIOUS
  <2>2. DOMAIN Rendered(slides) = {}
    BY <1>4, <2>1
  <2>3. Rendered(slides) = <<>>
    BY <2>2 DEF Rendered
  <2>. QED BY <2>3
<1> HIDE DEF kept
<1>. QED BY <1>3, <1>4, <1>5

\* Only Facebook is handed posts to hold.
LEMMA OnlyFacebookHolds ==
  ASSUME NEW p \in Platforms, NEW t \in Nat, p # "FACEBOOK"
  PROVE  decideSchedule(p, t, 0) # "DELEGATED"
BY DEF decideSchedule, getCapabilities, Platforms, INSTAGRAM_CAPABILITIES,
       TIKTOK_CAPABILITIES

\* Every request that buildPostInput builds is such a request.
LEMMA RequestsAreBuilt ==
  AdaptersInit => RequestOK
<1> SUFFICES ASSUME AdaptersInit PROVE RequestOK
  OBVIOUS
<1>1. PICK p \in PostInputs :
        /\ platform = p.platform
        /\ input = buildPostInput(p.piece, p.scheduledAt,
                                  decideSchedule(p.platform, p.scheduledAt, 0))
  BY DEF AdaptersInit
<1>2. /\ p.platform \in Platforms /\ p.scheduledAt \in Nat
      /\ p.piece.slides \in Seq(STRING) /\ Buildable(p.piece)
  BY AdaptersAssumption
<1>3. /\ input.scheduledAt \in Nat
      /\ platform # "FACEBOOK" => input.scheduledAt = 0
  BY <1>1, <1>2, OnlyFacebookHolds DEF buildPostInput
<1>4. CASE p.piece.format = "CAROUSEL"
  <2> DEFINE urls == Rendered(p.piece.slides)
  <2>1. input.kind = "CAROUSEL"
    BY <1>1, <1>4 DEF buildPostInput
  <2>2. PICK n \in Nat \ {0} : DOMAIN urls = 1..n
    BY <1>2, <1>4, RenderedIsASequence DEF Buildable
  <2>3. input.media = [i \in 1..n |-> Media("IMAGE", "jpeg", 1080, 1350, 0, 0, urls[i])]
    <3>1. input.media =
            [i \in DOMAIN urls |-> Media("IMAGE", "jpeg", 1080, 1350, 0, 0, urls[i])]
      BY <1>1, <1>4 DEF buildPostInput
    <3>. QED BY <2>2, <3>1
  <2> HIDE DEF urls
  <2>4. Len(input.media) = n /\ DOMAIN input.media = 1..n
    BY <2>3
  <2>5. \A i \in 1..n : input.media[i].kind = "IMAGE"
    BY <2>3 DEF Media
  <2>6. ~video /\ images = 1..n
    BY <2>4, <2>5 DEF video, images
  <2>7. Cardinality(images) = n
    BY <2>6, FS_Interval
  <2>. QED BY <1>1, <1>2, <1>3, <2>1, <2>4, <2>6, <2>7 DEF RequestOK
<1>5. CASE p.piece.format # "CAROUSEL"
  <2>1. input.kind # "CAROUSEL"
    BY <1>1, <1>5 DEF buildPostInput
  <2>2. CASE p.piece.format = "REEL"
    <3> DEFINE asset == CHOOSE m \in p.piece.media : TRUE
               m == Media("VIDEO", "mp4", 1080, 1920, asset.seconds, 0, asset.url)
    <3>1. input.media = <<m>>
      BY <1>1, <1>5, <2>2 DEF buildPostInput
    <3>2. m.kind = "VIDEO"
      BY DEF Media
    <3> HIDE DEF m
    <3>3. Len(input.media) = 1 /\ video
      BY <3>1, <3>2 DEF video
    <3>. QED BY <1>1, <1>2, <1>3, <2>1, <3>3 DEF RequestOK
  <2>3. CASE p.piece.format # "REEL"
    <3> DEFINE asset == CHOOSE m \in p.piece.media : TRUE
               m == Media("IMAGE", asset.mime, asset.width, asset.height, 0, asset.size,
                          asset.url)
    <3>1. input.media = <<m>>
      BY <1>1, <1>5, <2>3 DEF buildPostInput
    <3>2. m.kind = "IMAGE"
      BY DEF Media
    <3> HIDE DEF m
    <3>3. Len(input.media) = 1
      BY <3>1
    <3>4. Cardinality(images) = 1
      <4>1. images = {1}
        BY <3>1, <3>2 DEF images
      <4>. QED BY <4>1, FS_Singleton
    <3>5. ~video
      BY <3>1, <3>2 DEF video
    <3>6. Cardinality(images) = Len(input.media) /\ Len(input.media) \in Nat \ {0}
      BY <3>3, <3>4
    <3>7. platform \in Platforms
      BY <1>1, <1>2
    <3>. QED BY <1>3, <2>1, <3>3, <3>5, <3>6, <3>7 DEF RequestOK
  <2>. QED BY <2>2, <2>3
<1>. QED BY <1>4, <1>5

(***************************************************************************)
(* The answers.                                                            *)
(***************************************************************************)

\* What the good answer consists of, and what the others do.
LEMMA GoodAnswer ==
  Ok.fetch = "whole" /\ Ok.status = 200 /\ Ok.code = ""
BY DEF Ok, Answer

\* The shapes of the bad answers: an HTTP error, a lost connection, a body cut short.
LEMMA BadAnswer ==
  ASSUME NEW a \in BadAnswers
  PROVE  \/ a.fetch = "whole" /\ a.status \in {400, 401, 500} /\ a.code \in {"", "4"}
         \/ a.fetch = "failed" /\ a.code = ""
         \/ a.fetch = "cut" /\ a.status = 200 /\ a.code = ""
<1>1. CASE a = Answer("whole", 400, "", "")
  BY <1>1 DEF Answer
<1>2. CASE a = Answer("whole", 401, "", "")
  BY <1>2 DEF Answer
<1>3. CASE a = Answer("whole", 400, "OAuthException", "4")
  BY <1>3 DEF Answer
<1>4. CASE a = Answer("whole", 400, "", "4")
  BY <1>4 DEF Answer
<1>5. CASE a = Answer("whole", 500, "", "")
  BY <1>5 DEF Answer
<1>6. CASE a = Answer("failed", 0, "", "")
  BY <1>6 DEF Answer
<1>7. CASE a = Answer("cut", 200, "", "")
  BY <1>7 DEF Answer
<1>. QED BY <1>1, <1>2, <1>3, <1>4, <1>5, <1>6, <1>7, Zenon DEF BadAnswers

\* TikTok's own errors come whole, with a 200 and a code.
LEMMA TikTokAnswer ==
  ASSUME NEW a \in TikTokAnswers
  PROVE  a.fetch = "whole" /\ a.status = 200 /\ a.code # ""
<1>1. CASE a = Answer("whole", 200, "", "spam_risk")
  BY <1>1 DEF Answer
<1>2. CASE a = Answer("whole", 200, "", "internal_error")
  BY <1>2 DEF Answer
<1>3. CASE a = Answer("whole", 200, "", "empty")
  BY <1>3 DEF Answer
<1>. QED BY <1>1, <1>2, <1>3, Zenon DEF TikTokAnswers

\* The good answer is the only one that arrives whole with a 200 and no error in it.
LEMMA BadAnswersAreBad ==
  ASSUME NEW a \in BadAnswers
  PROVE  /\ a # Ok
         /\ a.code \notin {"internal_error", "empty"}
         /\ a.fetch \in {"failed", "cut"} \/ a.status # 200
         /\ a.fetch \in {"whole", "failed"} \/ a.status = 200
<1>1. \/ a.fetch = "whole" /\ a.status \in {400, 401, 500} /\ a.code \in {"", "4"}
      \/ a.fetch = "failed" /\ a.code = ""
      \/ a.fetch = "cut" /\ a.status = 200 /\ a.code = ""
  BY BadAnswer
<1>2. CASE a.fetch = "whole" /\ a.status \in {400, 401, 500} /\ a.code \in {"", "4"}
  <2>1. a.status \in {400, 401, 500} => a.status # 200
    OBVIOUS
  <2>2. a.status # 200
    BY <1>2, <2>1, Zenon
  <2>3. a # Ok
    BY <2>2, GoodAnswer, Zenon
  <2>. QED BY <1>2, <2>2, <2>3
<1>3. CASE a.fetch = "failed" /\ a.code = ""
  BY <1>3, GoodAnswer
<1>4. CASE a.fetch = "cut" /\ a.status = 200 /\ a.code = ""
  BY <1>4, GoodAnswer
<1>. QED BY <1>1, <1>2, <1>3, <1>4

\* A platform that answers so has acted, may have acted, or has not.
LEMMA ActedOrNot ==
  ASSUME NEW a
  PROVE  /\ MayAct(a) \in {{TRUE}, {FALSE}, BOOLEAN}
         /\ MayAct(a) \subseteq BOOLEAN
         /\ a = Ok => MayAct(a) = {TRUE}
BY Zenon DEF MayAct

\* Every answer is taken for one of the six ends of a call, and only the good one
\* for a success.
LEMMA AnswersAreUnderstood ==
  ASSUME NEW a \in Answers
  PROVE  /\ Outcome(a) \in Errors \cup {"success"}
         /\ Outcome(a) = "success" <=> a = Ok
<1>1. classifyError(a) \in {"auth", "limited", "retryable", "permanent"}
  BY DEF classifyError
<1>2. /\ request(a) \in Errors \cup {"success"}
      /\ request(a) = "success" <=> a.fetch \notin {"failed", "cut"} /\ a.status = 200
  BY <1>1 DEF request, Errors
<1>3. /\ unwrap(a) \in Errors \cup {"success"}
      /\ unwrap(a) = "success" <=> request(a) = "success" /\ a.code = ""
  BY <1>2 DEF unwrap, Errors
<1>4. Ok.fetch = "whole" /\ Ok.status = 200 /\ Ok.code = ""
  BY GoodAnswer
<1>5. a \in BadAnswers => a # Ok /\ (a.fetch \in {"failed", "cut"} \/ a.status # 200)
  BY BadAnswersAreBad, Zenon
<1>6. CASE platform = "TIKTOK"
  <2>1. Outcome(a) = unwrap(a)
    BY <1>6 DEF Outcome
  <2>2. CASE a = Ok
    BY <1>2, <1>3, <1>4, <2>1, <2>2
  <2>3. CASE a \in BadAnswers
    BY <1>2, <1>3, <1>5, <2>1, <2>3
  <2>4. CASE a \in TikTokAnswers
    <3>1. a.code # "" /\ a # Ok
      BY <1>4, <2>4, TikTokAnswer, Zenon
    <3>. QED BY <1>3, <2>1, <3>1
  <2>. QED BY <2>2, <2>3, <2>4 DEF Answers
<1>7. CASE platform # "TIKTOK"
  <2>1. Outcome(a) = request(a)
    BY <1>7 DEF Outcome
  <2>2. CASE a = Ok
    BY <1>2, <1>4, <2>1, <2>2
  <2>3. CASE a \in BadAnswers
    BY <1>2, <1>5, <2>1, <2>3
  <2>. QED BY <1>7, <2>2, <2>3 DEF Answers
<1>. QED BY <1>6, <1>7

\* An upload that is answered, but not with a 200 or a server's error, was not taken.
LEMMA UploadsAreUnderstood ==
  ASSUME NEW a \in {Ok} \cup BadAnswers,
         a.status # 200, a.fetch # "failed", ~(a.status >= 500)
  PROVE  MayAct(a) = {FALSE}
<1>1. a \in BadAnswers
  BY GoodAnswer
<1>2. /\ a # Ok
      /\ a.code \notin {"internal_error", "empty"}
      /\ a.fetch \in {"whole", "failed"} \/ a.status = 200
  BY <1>1, BadAnswersAreBad, Zenon
<1>3. a.fetch = "whole"
  BY <1>2
<1>. QED BY <1>2, <1>3 DEF MayAct

(***************************************************************************)
(* Where a call and its item can be.                                       *)
(***************************************************************************)

\* Calls are made one after the other, none after a success, and the last one is
\* open until the adapter is done.
CallsOK ==
  /\ \A c \in Calls : c > call => result[c] = "none"
  /\ \A c \in Calls : c < call => result[c] \in Errors
  /\ call = 0 => pc = "idle"
  /\ call > 0 => result[call] # "none" /\ (pc = "idle" <=> result[call] # "open")

\* What the platform has for a call: one post once it is out or held, of all the
\* media, and not before its hour; exactly one for a success; and none, nor
\* one in the making, for an error that says so.
ItemOK(c) ==
  /\ item[c].posts = IF item[c].state \in {"scheduled", "public"} THEN 1 ELSE 0
  /\ item[c].state # "none" => item[c].media = Len(input.media)
  /\ item[c].state = "public" => now >= input.scheduledAt
  /\ result[c] = "none" => item[c].state = "none"
  /\ result[c] = "success" => item[c].posts = 1
  /\ result[c] \in Errors /\ ~doubt[c]
       => /\ item[c].posts = 0
          /\ item[c].state = "processing" => platform # "TIKTOK"

\* What a request finds: on which platform it is made, what the requests before it
\* have made of the item, and how much is uploaded by then.
HandOK ==
  /\ pc \in {"limit", "child", "container", "poll", "publish"} => platform = "INSTAGRAM"
  /\ pc \in {"photo", "post"} => platform = "FACEBOOK"
  /\ pc \in {"creator", "init", "put", "await"} => platform = "TIKTOK"
  /\ pc \in {"validate", "limit", "child", "container", "photo", "post", "creator", "init"}
       => item[call].state = "none"
  /\ pc = "poll" => item[call].state \in {"container", "processing", "failed"}
  /\ pc \in {"publish", "put"} => item[call].state = "container"
  /\ pc = "await" => item[call].state \in {"processing", "failed", "public"}
  /\ pc \in {"photo", "post"} /\ ~held => input.scheduledAt = 0
  /\ pc \in {"validate", "limit"} => made = 0
  /\ pc = "child" => input.kind = "CAROUSEL" /\ made < Len(input.media)
  /\ pc = "container" /\ input.kind = "CAROUSEL" => made = Len(input.media)
  /\ pc = "photo" => ~video /\ made < Len(input.media)

AdaptersInv ==
  /\ AdaptersTypeOK
  /\ RequestOK
  /\ CallsOK
  /\ \A c \in Calls : ItemOK(c)
  /\ HandOK

\* What a step of a call does: it goes on with a request or ends, and leaves the item
\* alone or makes something of all the media of it.
Frame ==
  /\ UNCHANGED <<inputVars, clock, call>>
  /\ made' \in 0..Len(input.media) /\ polls' \in 0..MaxPolls /\ held' \in BOOLEAN

StepOfCall ==
  /\ Frame
  /\ \/ pc' \in Requests /\ UNCHANGED <<result, doubt>>
     \/ \E kind \in Errors \cup {"success"}, unsure \in BOOLEAN : Return(kind, unsure)
  /\ \/ UNCHANGED item
     \/ \E state \in ItemStates \ {"none"} : Becomes(state, Len(input.media))

\* A request is made for a call that is open.
LEMMA RequestsAreOpen ==
  ASSUME AdaptersInv, pc # "idle"
  PROVE  /\ call \in Calls /\ result[call] = "open"
         /\ ItemOK(call)
         /\ item[call] \in [state : ItemStates, media : Nat, posts : Nat]
<1>1. call \in Calls
  BY AdaptersAssumption DEF AdaptersInv, AdaptersTypeOK, CallsOK, Calls
<1>. QED BY <1>1 DEF AdaptersInv, AdaptersTypeOK, CallsOK, Calls

\* What the platform has when it makes something of the item.
LEMMA WhatBecomes ==
  ASSUME AdaptersInv, call \in Calls, NEW state \in ItemStates, NEW media \in Nat,
         Becomes(state, media)
  PROVE  /\ item' \in [Calls -> [state : ItemStates, media : Nat, posts : Nat]]
         /\ item'[call].state = state /\ item'[call].media = media
         /\ item'[call].posts =
              item[call].posts + (IF state \in {"scheduled", "public"} THEN 1 ELSE 0)
         /\ \A c \in Calls : c # call => item'[c] = item[c]
BY DEF Becomes, AdaptersInv, AdaptersTypeOK

\* A step of a call keeps the types, the calls, and the items of the other calls.
LEMMA OtherCallsKeep ==
  ASSUME AdaptersInv, pc # "idle", StepOfCall, ItemOK(call)', HandOK'
  PROVE  AdaptersInv'
<1>1. call \in Calls /\ result[call] = "open"
  BY RequestsAreOpen
<1> DEFINE Ends ==
        /\ \A c \in Calls : c # call => result'[c] = result[c] /\ doubt'[c] = doubt[c]
        /\ result' \in [Calls -> Results] /\ doubt' \in [Calls -> BOOLEAN]
        /\ \/ pc' \in Requests /\ result'[call] = "open"
           \/ pc' = "idle" /\ result'[call] \in Errors \cup {"success"}
      Makes ==
        /\ item' \in [Calls -> [state : ItemStates, media : Nat, posts : Nat]]
        /\ \A c \in Calls : c # call => item'[c] = item[c]
<1>2. Ends
  <2>1. CASE pc' \in Requests /\ UNCHANGED <<result, doubt>>
    BY <1>1, <2>1 DEF AdaptersInv, AdaptersTypeOK
  <2>2. ASSUME NEW kind \in Errors \cup {"success"}, NEW unsure \in BOOLEAN,
               Return(kind, unsure)
        PROVE  Ends
    BY <1>1, <2>2 DEF Return, AdaptersInv, AdaptersTypeOK, Results
  <2>. QED BY <2>1, <2>2 DEF StepOfCall
<1>3. Makes
  <2>1. CASE UNCHANGED item
    BY <2>1 DEF AdaptersInv, AdaptersTypeOK
  <2>2. ASSUME NEW state \in ItemStates \ {"none"}, Becomes(state, Len(input.media))
        PROVE  Makes
    BY <1>1, <2>2, WhatBecomes DEF AdaptersInv, RequestOK
  <2>. QED BY <2>1, <2>2 DEF StepOfCall
<1>4. AdaptersTypeOK'
  BY <1>2, <1>3 DEF AdaptersInv, AdaptersTypeOK, StepOfCall, Frame, inputVars
<1>5. RequestOK'
  BY DEF AdaptersInv, RequestOK, StepOfCall, Frame, inputVars, video, images
<1>6. CallsOK'
  BY <1>1, <1>2, AdaptersAssumption
  DEF AdaptersInv, CallsOK, StepOfCall, Frame, Calls, Requests, Errors, AdaptersTypeOK
<1>7. ASSUME NEW c \in Calls
      PROVE  ItemOK(c)'
  <2>1. CASE c = call
    BY <2>1 DEF StepOfCall, Frame
  <2>2. CASE c # call
    <3>1. ItemOK(c)
      BY DEF AdaptersInv
    <3>. QED BY <1>2, <1>3, <2>2, <3>1 DEF ItemOK, StepOfCall, Frame, inputVars, now
  <2>. QED BY <2>1, <2>2
<1>. QED BY <1>4, <1>5, <1>6, <1>7 DEF AdaptersInv

\* How a call goes on or ends, when it leaves its item in such a state: a success has
\* a post, and an error that is sure of itself neither a post nor one in the making.
EndsRightly(state) ==
  \/ pc' \in Requests /\ UNCHANGED <<result, doubt>>
  \/ Return("success", FALSE) /\ state \in {"scheduled", "public"}
  \/ \E kind \in Errors : Return(kind, TRUE)
  \/ /\ \E kind \in Errors : Return(kind, FALSE)
     /\ state \notin {"scheduled", "public"}
     /\ state = "processing" => platform # "TIKTOK"

\* A step that leaves the item alone.
LEMMA ItemStays ==
  ASSUME AdaptersInv, pc # "idle", Frame, UNCHANGED item, EndsRightly(item[call].state)
  PROVE  StepOfCall /\ ItemOK(call)'
<1>1. call \in Calls /\ result[call] = "open" /\ ItemOK(call)
  BY RequestsAreOpen
<1>2. StepOfCall
  BY DEF Frame, StepOfCall, EndsRightly
<1>3. UNCHANGED <<platform, input, clock, call, item, now>>
  BY DEF Frame, inputVars, now
<1>4. result \in [Calls -> Results] /\ doubt \in [Calls -> BOOLEAN]
  BY DEF AdaptersInv, AdaptersTypeOK
<1>5. CASE pc' \in Requests /\ UNCHANGED <<result, doubt>>
  BY <1>1, <1>2, <1>3, <1>5 DEF ItemOK
<1>6. CASE Return("success", FALSE) /\ item[call].state \in {"scheduled", "public"}
  BY <1>1, <1>2, <1>3, <1>4, <1>6 DEF ItemOK, Return, Errors
<1>7. CASE \E kind \in Errors : Return(kind, TRUE)
  BY <1>1, <1>2, <1>3, <1>4, <1>7 DEF ItemOK, Return, Errors
<1>8. CASE /\ \E kind \in Errors : Return(kind, FALSE)
           /\ item[call].state \notin {"scheduled", "public"}
           /\ item[call].state = "processing" => platform # "TIKTOK"
  BY <1>1, <1>2, <1>3, <1>4, <1>8 DEF ItemOK, Return, Errors
<1>. QED BY <1>5, <1>6, <1>7, <1>8 DEF EndsRightly

\* A step that makes something of an item that is no post yet.
LEMMA ItemIsMade ==
  ASSUME AdaptersInv, pc # "idle", Frame,
         item[call].state \notin {"scheduled", "public"},
         NEW state \in ItemStates \ {"none"}, Becomes(state, Len(input.media)),
         state = "public" => now >= input.scheduledAt,
         EndsRightly(state)
  PROVE  StepOfCall /\ ItemOK(call)' /\ item'[call].state = state
<1>1. call \in Calls /\ result[call] = "open" /\ ItemOK(call)
  BY RequestsAreOpen
<1>2. StepOfCall
  BY DEF Frame, StepOfCall, EndsRightly
<1>3. UNCHANGED <<platform, input, clock, call, now>>
  BY DEF Frame, inputVars, now
<1>4. result \in [Calls -> Results] /\ doubt \in [Calls -> BOOLEAN]
  BY DEF AdaptersInv, AdaptersTypeOK
<1>5. /\ item'[call].state = state /\ item'[call].media = Len(input.media)
      /\ item'[call].posts = IF state \in {"scheduled", "public"} THEN 1 ELSE 0
  <2>1. Len(input.media) \in Nat
    BY DEF AdaptersInv, RequestOK
  <2>2. item[call].posts = 0
    BY <1>1 DEF ItemOK
  <2>. QED BY <1>1, <2>1, <2>2, WhatBecomes
<1>6. CASE pc' \in Requests /\ UNCHANGED <<result, doubt>>
  BY <1>1, <1>2, <1>3, <1>5, <1>6 DEF ItemOK, Errors
<1>7. CASE Return("success", FALSE) /\ state \in {"scheduled", "public"}
  BY <1>1, <1>2, <1>3, <1>4, <1>5, <1>7 DEF ItemOK, Return, Errors
<1>8. CASE \E kind \in Errors : Return(kind, TRUE)
  BY <1>1, <1>2, <1>3, <1>4, <1>5, <1>8 DEF ItemOK, Return, Errors
<1>9. CASE /\ \E kind \in Errors : Return(kind, FALSE)
           /\ state \notin {"scheduled", "public"}
           /\ state = "processing" => platform # "TIKTOK"
  BY <1>1, <1>2, <1>3, <1>4, <1>5, <1>9 DEF ItemOK, Return, Errors
<1>. QED BY <1>6, <1>7, <1>8, <1>9 DEF EndsRightly

(***************************************************************************)
(* The requests, one by one.                                               *)
(***************************************************************************)

\* What each step of a call is shown to do.
KeepsCall == StepOfCall /\ ItemOK(call)' /\ HandOK'

\* A call that ends has nothing in hand.
LEMMA EndsEmptyHanded ==
  ASSUME NEW kind, NEW unsure, Return(kind, unsure)
  PROVE  HandOK'
BY DEF Return, HandOK

\* A request that only prepares the post: it fails before anything is published, or
\* does what comes after it.
LEMMA PreparesCleanly ==
  ASSUME AdaptersInv,
         pc \in {"limit", "child", "container", "poll", "photo", "creator"},
         NEW ACTION succeeds,
         Prepare(pc, succeeds),
         succeeds /\ UNCHANGED <<inputVars, clock, call, held>> => KeepsCall
  PROVE  KeepsCall
<1>1. PICK a \in Answers :
        IF Outcome(a) = "success" THEN succeeds
        ELSE Return(Outcome(a), FALSE) /\ UNCHANGED <<made, polls, item>>
  BY DEF Prepare
<1>2. UNCHANGED <<inputVars, clock, call, held>>
  BY DEF Prepare
<1>3. CASE Outcome(a) = "success"
  BY <1>1, <1>2, <1>3
<1>4. CASE Outcome(a) # "success"
  <2>1. Return(Outcome(a), FALSE) /\ UNCHANGED <<made, polls, item>>
    BY <1>1, <1>4
  <2>2. Outcome(a) \in Errors
    BY <1>4, AnswersAreUnderstood
  <2>3. /\ item[call].state \notin {"scheduled", "public"}
        /\ item[call].state = "processing" => platform # "TIKTOK"
    BY DEF AdaptersInv, HandOK
  <2>4. Frame /\ EndsRightly(item[call].state)
    BY <1>2, <2>1, <2>2, <2>3 DEF Frame, EndsRightly, AdaptersInv, AdaptersTypeOK
  <2>. QED BY <2>1, <2>4, ItemStays, EndsEmptyHanded DEF KeepsCall
<1>. QED BY <1>3, <1>4

\* The minute it is is a number, from which on a post may be public.
LEMMA NowIsANumber ==
  AdaptersInv => now \in Nat
BY AdaptersAssumption DEF AdaptersInv, AdaptersTypeOK, now

\* A request whose hour is past or too near is refused.
LEMMA TooSoonIsRefused ==
  ASSUME RequestOK, NEW caps, NEW time,
         validateAgainstCapabilities(input, caps, time) = {}
  PROVE  ~ScheduleErrors(input, caps, time)
<1>1. input.media # <<>>
  BY DEF RequestOK
<1>. QED BY <1>1 DEF validateAgainstCapabilities

\* Validation: what is not refused is for now, or for an hour Facebook will wait for.
LEMMA ValidateKeeps ==
  ASSUME AdaptersInv, Validate
  PROVE  KeepsCall
<1> DEFINE future == input.scheduledAt > now + 1
           errors == validateAgainstCapabilities(input, getCapabilities(platform), now)
<1>1. /\ pc = "validate"
      /\ UNCHANGED <<inputVars, clock, call, made, polls, item>>
      /\ IF errors # {} \/ (future /\ platform # "FACEBOOK")
         THEN Return("permanent", FALSE) /\ UNCHANGED held
         ELSE Goto(FirstRequest) /\ held' = future
  BY DEF Validate
<1>2. item[call].state = "none"
  BY <1>1 DEF AdaptersInv, HandOK
<1>3. CASE errors # {} \/ (future /\ platform # "FACEBOOK")
  <2>1. Return("permanent", FALSE) /\ UNCHANGED held
    BY <1>1, <1>3
  <2>2. Frame /\ EndsRightly(item[call].state)
    BY <1>1, <1>2, <2>1 DEF Frame, EndsRightly, AdaptersInv, AdaptersTypeOK, Errors
  <2>. QED BY <1>1, <2>1, <2>2, ItemStays, EndsEmptyHanded DEF KeepsCall
<1>4. CASE ~(errors # {} \/ (future /\ platform # "FACEBOOK"))
  <2>1. Goto(FirstRequest) /\ held' = future
    BY <1>1, <1>4
  <2>2. FirstRequest \in {"limit", "creator", "post", "photo"}
    BY DEF FirstRequest
  <2>3. Frame
    BY <1>1, <2>1 DEF Frame, AdaptersInv, AdaptersTypeOK
  <2>4. pc' \in Requests /\ pc' = FirstRequest /\ UNCHANGED <<result, doubt>>
    BY <2>1, <2>2 DEF Goto, Requests
  <2>5. StepOfCall /\ ItemOK(call)'
    BY <1>1, <2>3, <2>4, ItemStays DEF EndsRightly
  <2>6. ASSUME platform = "FACEBOOK", ~future
        PROVE  input.scheduledAt = 0
    <3>1. ~ScheduleErrors(input, getCapabilities(platform), now)
      BY <1>4, TooSoonIsRefused DEF AdaptersInv
    <3>2. getCapabilities(platform).scheduleStrategy = "DELEGATED"
      BY <2>6 DEF getCapabilities, FACEBOOK_CAPABILITIES
    <3>3. input.scheduledAt \in Nat /\ now \in Nat
      BY NowIsANumber DEF AdaptersInv, RequestOK
    <3>. QED BY <2>6, <3>1, <3>2, <3>3 DEF ScheduleErrors
  <2>7. /\ platform = "INSTAGRAM" => FirstRequest = "limit"
        /\ platform = "TIKTOK" => FirstRequest = "creator"
        /\ platform = "FACEBOOK" => FirstRequest = "post" \/ (FirstRequest = "photo" /\ ~video)
    BY DEF FirstRequest
  <2>8. item'[call'].state = "none" /\ UNCHANGED <<platform, input, video>>
    BY <1>1, <1>2 DEF inputVars, video
  <2>9. made' = 0 /\ 0 < Len(input'.media)
    BY <1>1 DEF AdaptersInv, HandOK, RequestOK, inputVars
  <2>10. HandOK'
    BY <2>1, <2>4, <2>6, <2>7, <2>8, <2>9, <2>2 DEF HandOK, AdaptersInv, RequestOK, Platforms
  <2>. QED BY <2>5, <2>10 DEF KeepsCall
<1>. QED BY <1>3, <1>4

\* Instagram's limit.
LEMMA CheckRateLimitKeeps ==
  ASSUME AdaptersInv, CheckRateLimit
  PROVE  KeepsCall
<1> DEFINE next == IF input.kind = "CAROUSEL" THEN "child" ELSE "container"
           succeeds == /\ Goto(next) \/ Return("retryable", FALSE)
                       /\ UNCHANGED <<made, polls, item>>
<1>1. pc = "limit" /\ Prepare(pc, succeeds)
  BY DEF CheckRateLimit, Prepare
<1>2. ASSUME succeeds, UNCHANGED <<inputVars, clock, call, held>>
      PROVE  KeepsCall
  <2>1. item[call].state = "none" /\ made = 0 /\ 0 < Len(input.media)
    BY <1>1 DEF AdaptersInv, HandOK, RequestOK
  <2>2. Frame
    BY <1>2 DEF Frame, AdaptersInv, AdaptersTypeOK
  <2>3. CASE Return("retryable", FALSE)
    <3>1. EndsRightly(item[call].state)
      BY <2>1, <2>3 DEF EndsRightly, Errors
    <3>. QED BY <1>1, <1>2, <2>2, <2>3, <3>1, ItemStays, EndsEmptyHanded DEF KeepsCall
  <2>4. CASE Goto(next)
    <3>1. pc' = next /\ UNCHANGED <<result, doubt>>
      BY <2>4 DEF Goto
    <3>2. EndsRightly(item[call].state)
      BY <3>1 DEF EndsRightly, Requests
    <3>3. platform = "INSTAGRAM"
      BY <1>1 DEF AdaptersInv, HandOK
    <3>4. HandOK'
      BY <1>2, <2>1, <3>1, <3>3 DEF HandOK, inputVars
    <3>. QED BY <1>1, <1>2, <2>2, <3>2, <3>4, ItemStays DEF KeepsCall
  <2>. QED BY <1>2, <2>3, <2>4
<1> HIDE DEF succeeds
<1>. QED BY <1>1, <1>2, PreparesCleanly

\* A call that goes on with its next request and leaves the item alone.
LEMMA GoesOn ==
  ASSUME AdaptersInv, pc # "idle", Frame, UNCHANGED item,
         NEW next \in Requests, Goto(next), HandOK'
  PROVE  KeepsCall
<1>1. EndsRightly(item[call].state)
  BY DEF EndsRightly, Goto
<1>. QED BY <1>1, ItemStays DEF KeepsCall

\* The children of a carousel, up to the last.
LEMMA CreateChildKeeps ==
  ASSUME AdaptersInv, CreateChild
  PROVE  KeepsCall
<1> DEFINE next == IF made + 1 = Len(input.media) THEN "container" ELSE "child"
           succeeds == made' = made + 1 /\ Goto(next) /\ UNCHANGED <<polls, item>>
<1>1. pc = "child" /\ Prepare(pc, succeeds)
  BY DEF CreateChild, Prepare
<1>2. ASSUME succeeds, UNCHANGED <<inputVars, clock, call, held>>
      PROVE  KeepsCall
  <2>1. /\ item[call].state = "none" /\ platform = "INSTAGRAM" /\ input.kind = "CAROUSEL"
        /\ made \in Nat /\ Len(input.media) \in Nat /\ made + 1 <= Len(input.media)
    BY <1>1 DEF AdaptersInv, HandOK, RequestOK, AdaptersTypeOK
  <2>2. Frame
    BY <1>2, <2>1 DEF Frame, AdaptersInv, AdaptersTypeOK
  <2>3. HandOK'
    BY <1>2, <2>1 DEF HandOK, Goto, inputVars
  <2>4. next \in Requests
    BY DEF Requests
  <2>. QED BY <1>1, <1>2, <2>2, <2>3, <2>4, GoesOn
<1> HIDE DEF succeeds
<1>. QED BY <1>1, <1>2, PreparesCleanly

\* The container has all the children there are, or the one item.
LEMMA CreateContainerKeeps ==
  ASSUME AdaptersInv, CreateContainer
  PROVE  KeepsCall
<1> DEFINE slow == video \/ input.kind = "CAROUSEL"
           state == IF slow THEN "processing" ELSE "container"
           next == IF slow THEN "poll" ELSE "publish"
           succeeds == /\ Becomes(state, IF input.kind = "CAROUSEL" THEN made ELSE 1)
                       /\ Goto(next)
                       /\ UNCHANGED <<made, polls>>
<1>1. pc = "container" /\ Prepare(pc, succeeds)
  BY DEF CreateContainer, Prepare
<1>2. ASSUME succeeds, UNCHANGED <<inputVars, clock, call, held>>
      PROVE  KeepsCall
  <2>1. /\ item[call].state = "none" /\ platform = "INSTAGRAM"
        /\ Len(input.media) = IF input.kind = "CAROUSEL" THEN made ELSE 1
    BY <1>1 DEF AdaptersInv, HandOK, RequestOK
  <2>2. Frame
    BY <1>2 DEF Frame, AdaptersInv, AdaptersTypeOK
  <2>3. Becomes(state, Len(input.media)) /\ Goto(next)
    BY <1>2, <2>1
  <2>4. /\ state \in {"processing", "container"} /\ next \in {"poll", "publish"}
        /\ next = "publish" => state = "container"
    OBVIOUS
  <2> HIDE DEF state, next
  <2>5. EndsRightly(state)
    BY <2>3, <2>4 DEF EndsRightly, Goto, Requests
  <2>6. StepOfCall /\ ItemOK(call)' /\ item'[call].state = state
    BY <1>1, <2>1, <2>2, <2>3, <2>4, <2>5, ItemIsMade DEF ItemStates
  <2>7. HandOK'
    BY <1>2, <2>1, <2>3, <2>4, <2>6 DEF HandOK, Goto, inputVars
  <2>. QED BY <2>6, <2>7 DEF KeepsCall
<1> HIDE DEF succeeds
<1>. QED BY <1>1, <1>2, PreparesCleanly

\* The wait for the container.
LEMMA AwaitContainerReadyKeeps ==
  ASSUME AdaptersInv, AwaitContainerReady
  PROVE  KeepsCall
<1> DEFINE succeeds ==
             /\ CASE item[call].state = "container"  -> Goto("publish") /\ UNCHANGED polls
                  [] item[call].state = "failed"     -> Return("permanent", FALSE) /\ UNCHANGED polls
                  [] item[call].state = "processing" -> Goto("poll") /\ polls' = polls + 1
             /\ UNCHANGED <<made, item>>
<1>1. pc = "poll" /\ polls < MaxPolls /\ Prepare(pc, succeeds)
  BY DEF AwaitContainerReady, Prepare
<1>2. ASSUME succeeds, UNCHANGED <<inputVars, clock, call, held>>
      PROVE  KeepsCall
  <2>1. /\ item[call].state \in {"container", "processing", "failed"}
        /\ platform = "INSTAGRAM"
        /\ made \in 0..Len(input.media) /\ polls \in 0..MaxPolls /\ held \in BOOLEAN
    BY <1>1 DEF AdaptersInv, HandOK, AdaptersTypeOK
  <2>2. CASE item[call].state = "container"
    <3>1. Goto("publish") /\ UNCHANGED polls
      BY <1>2, <2>2
    <3>2. Frame
      BY <1>2, <2>1, <3>1 DEF Frame
    <3>3. HandOK'
      BY <1>2, <2>1, <2>2, <3>1 DEF HandOK, Goto, inputVars
    <3>. QED BY <1>1, <1>2, <3>1, <3>2, <3>3, GoesOn DEF Requests
  <2>3. CASE item[call].state = "failed"
    <3>1. Return("permanent", FALSE) /\ UNCHANGED polls
      BY <1>2, <2>3
    <3>2. Frame
      BY <1>2, <2>1, <3>1 DEF Frame
    <3>3. EndsRightly(item[call].state)
      BY <2>3, <3>1 DEF EndsRightly, Errors
    <3>. QED BY <1>1, <1>2, <3>1, <3>2, <3>3, ItemStays, EndsEmptyHanded DEF KeepsCall
  <2>4. CASE item[call].state = "processing"
    <3>1. Goto("poll") /\ polls' = polls + 1
      BY <1>2, <2>4
    <3>2. Frame
      BY <1>1, <1>2, <2>1, <3>1, AdaptersAssumption DEF Frame
    <3>3. HandOK'
      BY <1>2, <2>1, <2>4, <3>1 DEF HandOK, Goto, inputVars
    <3>. QED BY <1>1, <1>2, <3>1, <3>2, <3>3, GoesOn DEF Requests
  <2>. QED BY <2>1, <2>2, <2>3, <2>4
<1> HIDE DEF succeeds
<1>. QED BY <1>1, <1>2, PreparesCleanly

\* The request that makes the post: one post of all the media if the platform acts,
\* and no certainty where it may have acted.
LEMMA CommitsRightly ==
  ASSUME AdaptersInv, pc \in {"publish", "post"}, NEW a \in Answers,
         NEW state \in {"scheduled", "public"},
         Commit(a, state, Len(input.media)),
         state = "public" => now >= input.scheduledAt
  PROVE  KeepsCall
<1> DEFINE unsure == Outcome(a) # "success" /\ TRUE \in MayAct(a)
<1>1. PICK acts \in MayAct(a) :
        IF acts THEN Becomes(state, Len(input.media)) ELSE UNCHANGED item
  BY DEF Commit
<1>2. Return(Outcome(a), unsure)
  BY DEF Commit
<1>3. Frame
  BY DEF Commit, Frame, AdaptersInv, AdaptersTypeOK
<1>4. /\ item[call].state \in {"none", "container"}
      /\ state \in ItemStates \ {"none"}
  BY DEF AdaptersInv, HandOK, ItemStates
<1>5. HandOK'
  BY <1>2, EndsEmptyHanded
<1>6. Outcome(a) \in Errors \cup {"success"} /\ (Outcome(a) = "success" => MayAct(a) = {TRUE})
  BY AnswersAreUnderstood, ActedOrNot
<1>7. acts \in BOOLEAN
  BY ActedOrNot
<1>8. CASE acts
  <2>1. Becomes(state, Len(input.media))
    BY <1>1, <1>8
  <2>2. Outcome(a) # "success" => unsure
    BY <1>8
  <2>3. Return(Outcome(a), Outcome(a) # "success")
    <3>1. unsure = (Outcome(a) # "success")
      BY <2>2
    <3>. QED BY <1>2, <3>1
  <2>4. EndsRightly(state)
    <3>1. CASE Outcome(a) = "success"
      <4>1. (Outcome(a) # "success") = FALSE
        BY <3>1
      <4>. QED BY <2>3, <3>1, <4>1 DEF EndsRightly
    <3>2. CASE Outcome(a) # "success"
      <4>1. (Outcome(a) # "success") = TRUE
        BY <3>2
      <4>. QED BY <1>6, <2>3, <3>2, <4>1 DEF EndsRightly
    <3>. QED BY <3>1, <3>2
  <2>. QED BY <1>3, <1>4, <1>5, <2>1, <2>4, ItemIsMade DEF KeepsCall
<1>9. CASE ~acts
  <2>1. UNCHANGED item
    BY <1>1, <1>9
  <2>2. Outcome(a) \in Errors
    BY <1>6, <1>7, <1>9
  <2>3. EndsRightly(item[call].state)
    <3>1. CASE unsure = TRUE
      BY <1>2, <2>2, <3>1 DEF EndsRightly
    <3>2. CASE unsure = FALSE
      BY <1>2, <1>4, <2>2, <3>2 DEF EndsRightly
    <3>. QED BY <3>1, <3>2
  <2>. QED BY <1>3, <1>5, <2>1, <2>3, ItemStays DEF KeepsCall
<1>. QED BY <1>7, <1>8, <1>9

\* Instagram publishes the container.
LEMMA PublishContainerKeeps ==
  ASSUME AdaptersInv, PublishContainer
  PROVE  KeepsCall
<1>1. PICK a \in Answers : pc = "publish" /\ Commit(a, "public", item[call].media)
  BY DEF PublishContainer
<1>2. item[call].state = "container" /\ platform # "FACEBOOK"
  BY <1>1 DEF AdaptersInv, HandOK
<1>3. item[call].media = Len(input.media)
  BY <1>1, <1>2, RequestsAreOpen DEF ItemOK
<1>4. now >= input.scheduledAt
  BY <1>2, NowIsANumber DEF AdaptersInv, RequestOK
<1>. QED BY <1>1, <1>3, <1>4, CommitsRightly

\* Facebook uploads the photos, up to the last.
LEMMA UploadPhotoKeeps ==
  ASSUME AdaptersInv, UploadPhoto
  PROVE  KeepsCall
<1> DEFINE next == IF made + 1 = Cardinality(images) THEN "post" ELSE "photo"
           succeeds == made' = made + 1 /\ Goto(next) /\ UNCHANGED <<polls, item>>
<1>1. pc = "photo" /\ Prepare(pc, succeeds)
  BY DEF UploadPhoto, Prepare
<1>2. ASSUME succeeds, UNCHANGED <<inputVars, clock, call, held>>
      PROVE  KeepsCall
  <2>1. /\ item[call].state = "none" /\ platform = "FACEBOOK" /\ ~video
        /\ Cardinality(images) = Len(input.media)
        /\ made \in Nat /\ Len(input.media) \in Nat /\ made + 1 <= Len(input.media)
        /\ ~held => input.scheduledAt = 0
    BY <1>1 DEF AdaptersInv, HandOK, RequestOK, AdaptersTypeOK
  <2>2. Frame
    BY <1>2, <2>1 DEF Frame, AdaptersInv, AdaptersTypeOK
  <2>3. UNCHANGED <<platform, input, call, held, item, video>>
    BY <1>2 DEF inputVars, video
  <2>4. HandOK'
    BY <1>2, <2>1, <2>3 DEF HandOK, Goto
  <2>5. next \in Requests
    BY DEF Requests
  <2>. QED BY <1>1, <1>2, <2>2, <2>4, <2>5, GoesOn
<1> HIDE DEF succeeds
<1>. QED BY <1>1, <1>2, PreparesCleanly

\* Facebook makes the post, or takes it to hold it.
LEMMA PostToPageKeeps ==
  ASSUME AdaptersInv, PostToPage
  PROVE  KeepsCall
<1> DEFINE state == IF held THEN "scheduled" ELSE "public"
<1>1. PICK a \in Answers :
        Commit(a, state, IF video THEN 1 ELSE Cardinality(images))
  BY DEF PostToPage
<1>2. pc = "post"
  BY DEF PostToPage
<1>3. (IF video THEN 1 ELSE Cardinality(images)) = Len(input.media)
  BY DEF AdaptersInv, RequestOK
<1>4. ~held => now >= input.scheduledAt
  BY <1>2, NowIsANumber DEF AdaptersInv, HandOK
<1>5. Commit(a, state, Len(input.media))
  BY <1>1, <1>3
<1>6. state \in {"scheduled", "public"} /\ (state = "public" => now >= input.scheduledAt)
  BY <1>4
<1> HIDE DEF state
<1>. QED BY <1>2, <1>5, <1>6, CommitsRightly

\* TikTok's creator settings.
LEMMA GetCreatorInfoKeeps ==
  ASSUME AdaptersInv, GetCreatorInfo
  PROVE  KeepsCall
<1> DEFINE succeeds ==
             /\ \E offered \in BOOLEAN, longest \in {60, 600} :
                  IF \/ ~offered
                     \/ video /\ \E i \in DOMAIN input.media : input.media[i].seconds > longest
                  THEN Return("permanent", FALSE)
                  ELSE Goto("init")
             /\ UNCHANGED <<made, polls, item>>
<1>1. pc = "creator" /\ Prepare(pc, succeeds)
  BY DEF GetCreatorInfo, Prepare
<1>2. ASSUME succeeds, UNCHANGED <<inputVars, clock, call, held>>
      PROVE  KeepsCall
  <2>1. item[call].state = "none" /\ platform = "TIKTOK"
    BY <1>1 DEF AdaptersInv, HandOK
  <2>2. Frame
    BY <1>2 DEF Frame, AdaptersInv, AdaptersTypeOK
  <2>3. Return("permanent", FALSE) \/ Goto("init")
    BY <1>2
  <2>4. CASE Return("permanent", FALSE)
    <3>1. EndsRightly(item[call].state)
      BY <2>1, <2>4 DEF EndsRightly, Errors
    <3>. QED BY <1>1, <1>2, <2>2, <2>4, <3>1, ItemStays, EndsEmptyHanded DEF KeepsCall
  <2>5. CASE Goto("init")
    <3>1. HandOK'
      BY <1>2, <2>1, <2>5 DEF HandOK, Goto, inputVars
    <3>. QED BY <1>1, <1>2, <2>2, <2>5, <3>1, GoesOn DEF Requests
  <2>. QED BY <2>3, <2>4, <2>5
<1> HIDE DEF succeeds
<1>. QED BY <1>1, <1>2, PreparesCleanly

\* TikTok takes the post on.  If the media are still to be uploaded, an error leaves
\* nothing that could be published.
LEMMA InitPostKeeps ==
  ASSUME AdaptersInv, InitPost
  PROVE  KeepsCall
<1> DEFINE state == IF uploads THEN "container" ELSE "processing"
           next == IF uploads THEN "put" ELSE "await"
<1>1. PICK a \in Answers :
        /\ \E acts \in MayAct(a) :
             IF acts THEN Becomes(state, IF video THEN 1 ELSE Cardinality(images))
             ELSE UNCHANGED item
        /\ IF Outcome(a) = "success" THEN Goto(next)
           ELSE Return(Outcome(a), ~uploads /\ TRUE \in MayAct(a))
  BY DEF InitPost
<1>2. pc = "init" /\ UNCHANGED <<inputVars, clock, call, made, polls, held>>
  BY DEF InitPost
<1>3. PICK acts \in MayAct(a) :
        IF acts THEN Becomes(state, IF video THEN 1 ELSE Cardinality(images))
        ELSE UNCHANGED item
  BY <1>1
<1>4. acts \in BOOLEAN /\ (Outcome(a) = "success" => acts)
  <2>1. acts \in BOOLEAN
    BY ActedOrNot
  <2>2. Outcome(a) = "success" => MayAct(a) = {TRUE}
    BY ActedOrNot, AnswersAreUnderstood
  <2>. QED BY <2>1, <2>2
<1>5. Frame
  BY <1>2 DEF Frame, AdaptersInv, AdaptersTypeOK
<1>6. (IF video THEN 1 ELSE Cardinality(images)) = Len(input.media)
  BY DEF AdaptersInv, RequestOK
<1>7. item[call].state = "none" /\ platform = "TIKTOK"
  BY <1>2 DEF AdaptersInv, HandOK
<1>8. state \in {"container", "processing"} /\ state \in ItemStates \ {"none"}
  BY DEF ItemStates
<1>9. /\ uploads => state = "container" /\ next = "put"
      /\ ~uploads => state = "processing" /\ next = "await"
  OBVIOUS
<1>10. acts => Becomes(state, Len(input.media))
  BY <1>3, <1>6
<1> HIDE DEF state, next
<1>11. CASE Outcome(a) = "success"
  <2>1. Goto(next) /\ next \in {"put", "await"}
    BY <1>1, <1>9, <1>11
  <2>2. EndsRightly(state)
    BY <2>1 DEF EndsRightly, Goto, Requests
  <2>3. StepOfCall /\ ItemOK(call)' /\ item'[call].state = state
    BY <1>2, <1>4, <1>5, <1>7, <1>8, <1>10, <1>11, <2>2, ItemIsMade
  <2>4. HandOK'
    BY <1>2, <1>7, <1>9, <2>1, <2>3 DEF HandOK, Goto, inputVars
  <2>. QED BY <2>3, <2>4 DEF KeepsCall
<1>12. CASE Outcome(a) # "success"
  <2> DEFINE unsure == ~uploads /\ TRUE \in MayAct(a)
  <2>1. Return(Outcome(a), unsure) /\ Outcome(a) \in Errors
    BY <1>1, <1>12, AnswersAreUnderstood
  <2>2. HandOK'
    BY <2>1, EndsEmptyHanded
  <2>3. CASE ~acts
    <3>1. EndsRightly(item[call].state)
      <4>1. CASE unsure = TRUE
        BY <2>1, <4>1 DEF EndsRightly
      <4>2. CASE unsure = FALSE
        BY <1>7, <2>1, <4>2 DEF EndsRightly
      <4>. QED BY <4>1, <4>2
    <3>. QED BY <1>2, <1>3, <1>5, <2>2, <2>3, <3>1, ItemStays DEF KeepsCall
  <2>4. CASE acts
    <3>1. EndsRightly(state)
      <4>1. CASE uploads
        <5>1. unsure = FALSE
          BY <4>1
        <5>. QED BY <1>9, <2>1, <4>1, <5>1 DEF EndsRightly
      <4>2. CASE ~uploads
        <5>1. unsure = TRUE
          BY <1>3, <2>4, <4>2
        <5>. QED BY <2>1, <5>1 DEF EndsRightly
      <4>. QED BY <4>1, <4>2
    <3>. QED BY <1>2, <1>5, <1>7, <1>8, <1>10, <2>2, <2>4, <3>1, ItemIsMade DEF KeepsCall
  <2>. QED BY <1>4, <2>3, <2>4
<1>. QED BY <1>11, <1>12

\* TikTok takes the upload.
LEMMA PutVideoKeeps ==
  ASSUME AdaptersInv, PutVideo
  PROVE  KeepsCall
<1>1. PICK a \in {Ok} \cup BadAnswers :
        /\ \E acts \in IF a.fetch # "failed" /\ a.status = 200 THEN {TRUE} ELSE MayAct(a) :
             IF acts THEN Becomes("processing", item[call].media) ELSE UNCHANGED item
        /\ IF a.fetch = "failed" THEN Return("raw", TRUE)
           ELSE IF a.status = 200 THEN Goto("await")
           ELSE IF a.status >= 500 THEN Return("retryable", TRUE)
           ELSE Return("permanent", FALSE)
  BY DEF PutVideo
<1>2. pc = "put" /\ UNCHANGED <<inputVars, clock, call, made, polls, held>>
  BY DEF PutVideo
<1>3. Frame
  BY <1>2 DEF Frame, AdaptersInv, AdaptersTypeOK
<1>4. item[call].state = "container" /\ platform = "TIKTOK"
  BY <1>2 DEF AdaptersInv, HandOK
<1>5. item[call].media = Len(input.media)
  BY <1>2, <1>4, RequestsAreOpen DEF ItemOK
<1>6. Becomes("processing", Len(input.media)) \/ UNCHANGED item
  BY <1>1, <1>5
<1>7. "processing" \in ItemStates \ {"none"}
  BY DEF ItemStates
<1>8. CASE a.fetch # "failed" /\ a.status = 200
  <2>1. Becomes("processing", Len(input.media)) /\ Goto("await")
    <3>1. PICK acts \in IF a.fetch # "failed" /\ a.status = 200 THEN {TRUE} ELSE MayAct(a) :
            IF acts THEN Becomes("processing", item[call].media) ELSE UNCHANGED item
      BY <1>1
    <3>2. acts = TRUE
      BY <1>8, <3>1
    <3>3. Goto("await")
      BY <1>1, <1>8
    <3>. QED BY <1>5, <3>1, <3>2, <3>3
  <2>2. EndsRightly("processing")
    BY <2>1 DEF EndsRightly, Goto, Requests
  <2>3. StepOfCall /\ ItemOK(call)' /\ item'[call].state = "processing"
    BY <1>2, <1>3, <1>4, <1>7, <2>1, <2>2, ItemIsMade
  <2>4. HandOK'
    BY <1>2, <1>4, <2>1, <2>3 DEF HandOK, Goto, inputVars
  <2>. QED BY <2>3, <2>4 DEF KeepsCall
<1>9. CASE a.fetch = "failed" \/ (a.status # 200 /\ a.status >= 500)
  <2>1. PICK kind \in Errors : Return(kind, TRUE)
    BY <1>1, <1>9 DEF Errors
  <2>2. EndsRightly("processing") /\ EndsRightly(item[call].state)
    BY <2>1 DEF EndsRightly
  <2>3. HandOK'
    BY <2>1, EndsEmptyHanded
  <2>. QED BY <1>2, <1>3, <1>4, <1>6, <1>7, <2>2, <2>3, ItemIsMade, ItemStays DEF KeepsCall
<1>10. CASE a.fetch # "failed" /\ a.status # 200 /\ ~(a.status >= 500)
  <2>1. MayAct(a) = {FALSE}
    BY <1>10, UploadsAreUnderstood
  <2>2. UNCHANGED item /\ Return("permanent", FALSE)
    BY <1>1, <1>10, <2>1
  <2>3. EndsRightly(item[call].state)
    BY <1>4, <2>2 DEF EndsRightly, Errors
  <2>. QED BY <1>2, <1>3, <2>2, <2>3, ItemStays, EndsEmptyHanded DEF KeepsCall
<1>. QED BY <1>8, <1>9, <1>10

\* TikTok is asked until the post is out.
LEMMA AwaitPublishCompleteKeeps ==
  ASSUME AdaptersInv, AwaitPublishComplete
  PROVE  KeepsCall
<1>1. PICK a \in Answers :
        IF Outcome(a) # "success" THEN Return(Outcome(a), TRUE) /\ UNCHANGED polls
        ELSE CASE item[call].state = "public" -> Return("success", FALSE) /\ UNCHANGED polls
               [] item[call].state = "failed" -> Return("permanent", FALSE) /\ UNCHANGED polls
               [] OTHER                       -> Goto("await") /\ polls' = polls + 1
  BY DEF AwaitPublishComplete
<1>2. /\ pc = "await" /\ polls < MaxPolls
      /\ UNCHANGED <<inputVars, clock, call, made, held, item>>
  BY DEF AwaitPublishComplete
<1>3. /\ item[call].state \in {"processing", "failed", "public"} /\ platform = "TIKTOK"
      /\ made \in 0..Len(input.media) /\ polls \in 0..MaxPolls /\ held \in BOOLEAN
  BY <1>2 DEF AdaptersInv, HandOK, AdaptersTypeOK
<1>4. Outcome(a) \in Errors \cup {"success"}
  BY AnswersAreUnderstood
<1>5. ASSUME NEW kind, NEW unsure, Return(kind, unsure), UNCHANGED polls,
             EndsRightly(item[call].state)
      PROVE  KeepsCall
  <2>1. Frame
    BY <1>2, <1>3, <1>5 DEF Frame
  <2>. QED BY <1>2, <1>5, <2>1, ItemStays, EndsEmptyHanded DEF KeepsCall
<1>6. CASE Outcome(a) # "success"
  <2>1. Return(Outcome(a), TRUE) /\ UNCHANGED polls
    BY <1>1, <1>6
  <2>2. Outcome(a) \in Errors
    BY <1>4, <1>6
  <2>. QED BY <1>5, <2>1, <2>2 DEF EndsRightly
<1>7. CASE Outcome(a) = "success" /\ item[call].state = "public"
  <2>1. Return("success", FALSE) /\ UNCHANGED polls
    BY <1>1, <1>7
  <2>. QED BY <1>5, <1>7, <2>1 DEF EndsRightly
<1>8. CASE Outcome(a) = "success" /\ item[call].state = "failed"
  <2>1. Return("permanent", FALSE) /\ UNCHANGED polls
    BY <1>1, <1>8
  <2>2. EndsRightly(item[call].state)
    BY <1>8, <2>1 DEF EndsRightly, Errors
  <2>. QED BY <1>5, <2>1, <2>2
<1>9. CASE Outcome(a) = "success" /\ item[call].state = "processing"
  <2>1. Goto("await") /\ polls' = polls + 1
    BY <1>1, <1>9
  <2>2. Frame
    BY <1>2, <1>3, <2>1, AdaptersAssumption DEF Frame
  <2>3. HandOK'
    BY <1>2, <1>3, <2>1 DEF HandOK, Goto, inputVars
  <2>. QED BY <1>2, <2>1, <2>2, <2>3, GoesOn DEF Requests
<1>. QED BY <1>3, <1>6, <1>7, <1>8, <1>9

\* Both waits end.  A container that was not ready is never published; TikTok may still
\* finish what it took on.
LEMMA GiveUpKeeps ==
  ASSUME AdaptersInv, GiveUp
  PROVE  KeepsCall
<1>1. /\ pc \in {"poll", "await"} /\ Return("retryable", pc = "await")
      /\ UNCHANGED <<inputVars, clock, call, made, polls, held, item>>
  BY DEF GiveUp
<1>2. Frame
  BY <1>1 DEF Frame, AdaptersInv, AdaptersTypeOK
<1>3. "retryable" \in Errors
  BY DEF Errors
<1>4. EndsRightly(item[call].state)
  <2>1. CASE pc = "await"
    <3>1. (pc = "await") = TRUE
      BY <2>1
    <3>. QED BY <1>1, <1>3, <3>1 DEF EndsRightly
  <2>2. CASE pc = "poll"
    <3>1. (pc = "await") = FALSE
      BY <2>2
    <3>2. item[call].state \in {"container", "processing", "failed"} /\ platform # "TIKTOK"
      BY <2>2 DEF AdaptersInv, HandOK
    <3>. QED BY <1>1, <1>3, <3>1, <3>2 DEF EndsRightly
  <2>. QED BY <1>1, <2>1, <2>2
<1>. QED BY <1>1, <1>2, <1>4, ItemStays, EndsEmptyHanded DEF KeepsCall

\* Every step of a call.
LEMMA CallStepKeeps ==
  ASSUME AdaptersInv, CallStep
  PROVE  pc # "idle" /\ KeepsCall /\ AdaptersInv'
<1>1. pc # "idle"
  BY DEF CallStep, Validate, CheckRateLimit, CreateChild, CreateContainer,
         AwaitContainerReady, PublishContainer, UploadPhoto, PostToPage, GetCreatorInfo,
         InitPost, PutVideo, AwaitPublishComplete, GiveUp, Prepare
<1>2. KeepsCall
  BY ValidateKeeps, CheckRateLimitKeeps, CreateChildKeeps, CreateContainerKeeps,
     AwaitContainerReadyKeeps, PublishContainerKeeps, UploadPhotoKeeps, PostToPageKeeps,
     GetCreatorInfoKeeps, InitPostKeeps, PutVideoKeeps, AwaitPublishCompleteKeeps,
     GiveUpKeeps
  DEF CallStep
<1>. QED BY <1>1, <1>2, OtherCallsKeep DEF KeepsCall

(***************************************************************************)
(* Calls that begin, the platform, and the clock.                          *)
(***************************************************************************)

\* A call that begins finds its item untouched, and every call before it failed.
LEMMA BeginKeeps ==
  ASSUME AdaptersInv, Begin
  PROVE  AdaptersInv'
<1>1. /\ call + 1 \in Calls /\ call \in Nat /\ call' = call + 1
      /\ pc = "idle" /\ pc' = "validate"
      /\ result' = [result EXCEPT ![call + 1] = "open"]
      /\ made' = 0 /\ polls' = 0 /\ held' = FALSE
      /\ UNCHANGED <<platform, input, local, clock, doubt, item>>
  BY AdaptersAssumption DEF Begin, Calls, AdaptersInv, AdaptersTypeOK
<1>2. AdaptersTypeOK'
  <2>1. result' \in [Calls -> Results]
    BY <1>1 DEF AdaptersInv, AdaptersTypeOK, Results
  <2>2. call' \in 0..MaxCalls
    BY <1>1 DEF Calls
  <2>3. Len(input'.media) \in Nat
    BY <1>1 DEF AdaptersInv, RequestOK
  <2>4. pc' \in Requests \cup {"idle"}
    BY <1>1 DEF Requests
  <2>5. made' \in 0..Len(input'.media) /\ polls' \in 0..MaxPolls /\ held' \in BOOLEAN
    <3>1. \A n \in Nat : 0 \in 0..n
      OBVIOUS
    <3>. QED BY <1>1, <2>3, <3>1, AdaptersAssumption
  <2>6. /\ platform' \in Platforms /\ local' \in BOOLEAN /\ clock' \in 0..MaxClock
        /\ doubt' \in [Calls -> BOOLEAN]
        /\ item' \in [Calls -> [state : ItemStates, media : Nat, posts : Nat]]
    BY <1>1 DEF AdaptersInv, AdaptersTypeOK
  <2>. QED BY <2>1, <2>2, <2>4, <2>5, <2>6 DEF AdaptersTypeOK
<1>3. RequestOK'
  BY <1>1 DEF AdaptersInv, RequestOK, video, images
<1>4. CallsOK'
  <2>1. \A c \in Calls : c # call + 1 => result'[c] = result[c]
    BY <1>1 DEF AdaptersInv, AdaptersTypeOK
  <2>2. result'[call + 1] = "open"
    BY <1>1 DEF AdaptersInv, AdaptersTypeOK
  <2>3. call > 0 => call \in Calls /\ result[call] \in Errors
    <3>1. ASSUME call > 0
          PROVE  call \in Calls /\ result[call] \in Errors
      <4>1. call \in Calls
        BY <1>1, <3>1, AdaptersAssumption DEF Calls
      <4>2. result[call] \notin {"none", "open", "success"}
        BY <1>1, <3>1 DEF Begin, AdaptersInv, CallsOK
      <4>. QED BY <4>1, <4>2 DEF AdaptersInv, AdaptersTypeOK, Results
    <3>. QED BY <3>1
  <2>4. \A c \in Calls : c \in Nat /\ (c < call + 1 => c < call \/ c = call)
    BY <1>1 DEF Calls
  <2>5. \A c \in Calls : c > call + 1 => result'[c] = "none"
    BY <1>1, <2>1, <2>4 DEF AdaptersInv, CallsOK
  <2>6. \A c \in Calls : c < call + 1 => result'[c] \in Errors
    <3>1. SUFFICES ASSUME NEW c \in Calls, c < call + 1
                   PROVE  result'[c] \in Errors
      OBVIOUS
    <3>2. result'[c] = result[c]
      BY <1>1, <2>1, <2>4, <3>1
    <3>3. CASE c = call
      BY <2>3, <2>4, <3>2, <3>3, <1>1, <3>1 DEF Calls
    <3>4. CASE c < call
      BY <3>2, <3>4 DEF AdaptersInv, CallsOK
    <3>. QED BY <2>4, <3>1, <3>3, <3>4
  <2>. QED BY <1>1, <2>2, <2>5, <2>6 DEF CallsOK
<1>5. item[call + 1].state = "none"
  BY <1>1 DEF AdaptersInv, CallsOK, ItemOK
<1>6. ASSUME NEW c \in Calls
      PROVE  ItemOK(c)'
  <2>1. ItemOK(c)
    BY DEF AdaptersInv
  <2>2. result'[c] = IF c = call + 1 THEN "open" ELSE result[c]
    BY <1>1 DEF AdaptersInv, AdaptersTypeOK
  <2>3. UNCHANGED now
    BY <1>1 DEF now
  <2>. QED BY <1>1, <2>1, <2>2, <2>3 DEF ItemOK, Errors
<1>7. HandOK'
  BY <1>1, <1>5 DEF HandOK
<1>. QED BY <1>2, <1>3, <1>4, <1>6, <1>7 DEF AdaptersInv

\* What the platform does later: it makes a container ready, gives up, brings out the
\* one post of a call that knows of it or is in doubt, or one that it held.
LEMMA PlatformKeeps ==
  ASSUME AdaptersInv, NEW c \in Calls, Process(c) \/ GoPublic(c)
  PROVE  /\ AdaptersInv'
         /\ UNCHANGED <<inputVars, clock, call, pc, made, polls, held, result, doubt>>
         /\ \A b \in Calls : b # c => item'[b] = item[b]
         /\ \/ item'[c].posts = item[c].posts
            \/ /\ item[c].posts = 0 /\ item'[c].posts = 1
               /\ result[c] \in {"open"} \cup Errors /\ (result[c] # "open" => doubt[c])
<1>1. /\ UNCHANGED <<inputVars, clock, call, pc, made, polls, held, result, doubt>>
      /\ UNCHANGED <<platform, input, local, now, video, images>>
  BY DEF Process, GoPublic, inputVars, now, video, images
<1>2. ItemOK(c) /\ item \in [Calls -> [state : ItemStates, media : Nat, posts : Nat]]
  BY DEF AdaptersInv, AdaptersTypeOK
<1>3. PICK new \in {"failed", "container", "public"} :
        /\ item' \in [Calls -> [state : ItemStates, media : Nat, posts : Nat]]
        /\ item'[c].state = new /\ item'[c].media = item[c].media
        /\ item'[c].posts = IF new = "public" THEN 1 ELSE 0
        /\ \A b \in Calls : b # c => item'[b] = item[b]
        /\ item[c].state \in {"processing", "scheduled"}
        /\ new = "failed" => item[c].state = "processing"
        /\ new = "container" => item[c].state = "processing" /\ platform = "INSTAGRAM"
        /\ new = "public" => \/ item[c].state = "processing" /\ platform = "TIKTOK"
                             \/ item[c].state = "scheduled" /\ now >= input.scheduledAt
  <2>1. CASE Process(c)
    <3>1. item[c].state = "processing" /\ item[c].posts = 0
      BY <1>2, <2>1 DEF Process, ItemOK
    <3>2. CASE item' = [item EXCEPT ![c].state = "failed"]
      BY <1>2, <3>1, <3>2 DEF ItemStates
    <3>3. CASE platform = "INSTAGRAM" /\ item' = [item EXCEPT ![c].state = "container"]
      BY <1>2, <3>1, <3>3 DEF ItemStates
    <3>4. CASE platform = "TIKTOK" /\ item' = [item EXCEPT ![c].state = "public", ![c].posts = @ + 1]
      BY <1>2, <3>1, <3>4 DEF ItemStates
    <3>. QED BY <2>1, <3>2, <3>3, <3>4 DEF Process
  <2>2. CASE GoPublic(c)
    <3>1. /\ item[c].state = "scheduled" /\ now >= input.scheduledAt
          /\ item[c].posts = 1
          /\ item' = [item EXCEPT ![c].state = "public"]
      BY <1>2, <2>2 DEF GoPublic, ItemOK
    <3>. QED BY <1>2, <3>1 DEF ItemStates
  <2>. QED BY <2>1, <2>2
<1>4. AdaptersTypeOK'
  BY <1>1, <1>3 DEF AdaptersInv, AdaptersTypeOK
<1>5. RequestOK' /\ CallsOK'
  BY <1>1 DEF AdaptersInv, RequestOK, CallsOK
<1>6. ASSUME NEW b \in Calls
      PROVE  ItemOK(b)'
  <2>1. CASE b = c
    <3>1. now \in Nat /\ (platform = "TIKTOK" => input.scheduledAt = 0)
      BY NowIsANumber DEF AdaptersInv, RequestOK
    <3>. QED BY <1>1, <1>2, <1>3, <2>1, <3>1 DEF ItemOK
  <2>2. CASE b # c
    <3>1. ItemOK(b)
      BY DEF AdaptersInv
    <3>. QED BY <1>1, <1>3, <2>2, <3>1 DEF ItemOK
  <2>. QED BY <2>1, <2>2
<1>7. HandOK'
  <2>1. CASE c = call
    BY <1>1, <1>3, <2>1 DEF AdaptersInv, HandOK
  <2>2. CASE c # call
    <3>1. pc # "idle" => call \in Calls
      BY RequestsAreOpen
    <3>2. pc # "idle" => item'[call] = item[call]
      BY <1>3, <2>2, <3>1
    <3>. QED BY <1>1, <3>2 DEF AdaptersInv, HandOK
  <2>. QED BY <2>1, <2>2
<1>8. \/ item'[c].posts = item[c].posts
      \/ /\ item[c].posts = 0 /\ item'[c].posts = 1
         /\ result[c] \in {"open"} \cup Errors /\ (result[c] # "open" => doubt[c])
  <2>1. CASE new = "public" /\ item[c].state = "processing"
    <3>1. result[c] \in Results
      BY DEF AdaptersInv, AdaptersTypeOK
    <3>. QED BY <1>2, <1>3, <2>1, <3>1 DEF ItemOK, Results
  <2>2. CASE ~(new = "public" /\ item[c].state = "processing")
    BY <1>2, <1>3, <2>2 DEF ItemOK
  <2>. QED BY <2>1, <2>2
<1>. QED BY <1>1, <1>3, <1>4, <1>5, <1>6, <1>7, <1>8 DEF AdaptersInv

\* Time goes on, and what was not early stays so.
LEMMA ClockKeeps ==
  ASSUME AdaptersInv, ClockTicks
  PROVE  AdaptersInv'
<1>1. /\ UNCHANGED <<inputVars, call, pc, made, polls, held, result, doubt, item>>
      /\ UNCHANGED <<platform, input, local, video, images>>
      /\ clock < MaxClock /\ clock' = clock + 1
  BY DEF ClockTicks, inputVars, video, images
<1>2. clock' \in 0..MaxClock
  BY <1>1, AdaptersAssumption DEF AdaptersInv, AdaptersTypeOK
<1>3. now' >= now /\ now \in Nat /\ now' \in Nat
  <2>1. clock \in Nat /\ Tick \in Nat
    BY AdaptersAssumption DEF AdaptersInv, AdaptersTypeOK
  <2>2. now' = now + Tick
    BY <1>1, <2>1 DEF now
  <2>. QED BY <2>1, <2>2, NowIsANumber
<1>4. AdaptersTypeOK' /\ RequestOK' /\ CallsOK' /\ HandOK'
  BY <1>1, <1>2 DEF AdaptersInv, AdaptersTypeOK, RequestOK, CallsOK, HandOK
<1>5. ASSUME NEW c \in Calls
      PROVE  ItemOK(c)'
  <2>1. ItemOK(c) /\ input.scheduledAt \in Nat
    BY DEF AdaptersInv, RequestOK
  <2>. QED BY <1>1, <1>3, <2>1 DEF ItemOK
<1>. QED BY <1>4, <1>5 DEF AdaptersInv

(***************************************************************************)
(* The invariant, and what follows from it.                                *)
(***************************************************************************)

\* Before the first call nothing is sent and nothing is posted.
LEMMA AdaptersStart ==
  AdaptersInit => AdaptersInv
<1> SUFFICES ASSUME AdaptersInit PROVE AdaptersInv
  OBVIOUS
<1>1. RequestOK
  BY RequestsAreBuilt
<1>2. /\ local \in BOOLEAN /\ clock = 0 /\ call = 0 /\ pc = "idle" /\ made = 0 /\ polls = 0
      /\ held = FALSE
      /\ result = [c \in Calls |-> "none"] /\ doubt = [c \in Calls |-> FALSE]
      /\ item = [c \in Calls |-> [state |-> "none", media |-> 0, posts |-> 0]]
  BY DEF AdaptersInit
<1>3. AdaptersTypeOK
  <2>1. \A n \in Nat : 0 \in 0..n
    OBVIOUS
  <2>2. /\ clock \in 0..MaxClock /\ call \in 0..MaxCalls /\ polls \in 0..MaxPolls
        /\ made \in 0..Len(input.media)
    BY <1>1, <1>2, <2>1, AdaptersAssumption DEF RequestOK
  <2>3. item \in [Calls -> [state : ItemStates, media : Nat, posts : Nat]]
    BY <1>2 DEF ItemStates
  <2>4. result \in [Calls -> Results] /\ doubt \in [Calls -> BOOLEAN]
    BY <1>2 DEF Results
  <2>. QED BY <1>1, <1>2, <2>2, <2>3, <2>4 DEF AdaptersTypeOK, RequestOK
<1>4. CallsOK
  BY <1>2 DEF CallsOK, Calls
<1>5. \A c \in Calls : ItemOK(c)
  BY <1>2 DEF ItemOK, Errors
<1>6. HandOK
  BY <1>2 DEF HandOK
<1>. QED BY <1>1, <1>3, <1>4, <1>5, <1>6 DEF AdaptersInv

\* Every step of the adapters, the platform or the clock keeps the invariant.
LEMMA AdaptersInductive ==
  AdaptersInv /\ [AdaptersNext]_adapterVars => AdaptersInv'
<1> SUFFICES ASSUME AdaptersInv, [AdaptersNext]_adapterVars
             PROVE  AdaptersInv'
  OBVIOUS
<1>1. CASE Begin
  BY <1>1, BeginKeeps
<1>2. CASE CallStep
  BY <1>2, CallStepKeeps
<1>3. CASE ClockTicks
  BY <1>3, ClockKeeps
<1>4. CASE \E c \in Calls : Process(c) \/ GoPublic(c)
  BY <1>4, PlatformKeeps
<1>5. CASE UNCHANGED adapterVars
  BY <1>5 DEF adapterVars, AdaptersInv, AdaptersTypeOK, RequestOK, CallsOK, ItemOK, HandOK,
              now, video, images
<1>. QED BY <1>1, <1>2, <1>3, <1>4, <1>5 DEF AdaptersNext

\* So it holds throughout.
LEMMA AdaptersAlways ==
  AdaptersSpec => []AdaptersInv
BY AdaptersStart, AdaptersInductive, PTL DEF AdaptersSpec

\* Calls, their items and the uploads keep their shape, for any bounds and requests.
THEOREM AdaptersTypeCorrect ==
  AdaptersSpec => []AdaptersTypeOK
<1>1. AdaptersInv => AdaptersTypeOK
  BY DEF AdaptersInv
<1>. QED BY <1>1, AdaptersAlways, PTL

\* createPost never posts a part: whatever answers come and however often it is called
\* again, what is posted has all the media of the request.
THEOREM PostsHaveAllTheirMedia ==
  AdaptersSpec => []PostsAreComplete
<1>1. AdaptersInv => PostsAreComplete
  BY DEF AdaptersInv, PostsAreComplete, ItemOK
<1>. QED BY <1>1, AdaptersAlways, PTL

\* A post asked for a later hour is never public before it, however long uploads and
\* retries take.
THEOREM PostsKeepTheirHour ==
  AdaptersSpec => []NeverPublicEarly
<1>1. AdaptersInv => NeverPublicEarly
  BY DEF AdaptersInv, NeverPublicEarly, ItemOK
<1>. QED BY <1>1, AdaptersAlways, PTL

(***************************************************************************)
(* The adapters implement the promise of createPost.                       *)
(***************************************************************************)

\* What a caller sees of one call.
LEMMA OutcomeOfCall ==
  ASSUME NEW c \in Calls
  PROVE  /\ result[c] \in {"none", "open"} => CallOutcome[c] = result[c]
         /\ result[c] = "success" => CallOutcome[c] = "accepted"
         /\ result[c] \in Errors => CallOutcome[c] = IF doubt[c] THEN "unsure" ELSE "refused"
BY DEF CallOutcome, Errors

\* Before the first call nothing is promised.
LEMMA PromiseStarts ==
  AdaptersInit => PC!CallInit
<1> SUFFICES ASSUME AdaptersInit PROVE PC!CallInit
  OBVIOUS
<1>1. CallOutcome = [c \in Calls |-> "none"]
  BY DEF AdaptersInit, CallOutcome
<1>2. [c \in Calls |-> item[c].posts] = [c \in Calls |-> 0]
  BY DEF AdaptersInit
<1>. QED BY <1>1, <1>2 DEF PC!CallInit

\* A step that touches one call: the others look the same before and after.
LEMMA OthersLookTheSame ==
  ASSUME NEW c \in Calls, NEW seen, NEW number,
         \A b \in Calls : b # c => /\ result'[b] = result[b] /\ doubt'[b] = doubt[b]
                                  /\ item'[b].posts = item[b].posts,
         CallOutcome'[c] = seen, item'[c].posts = number
  PROVE  /\ CallOutcome' = [CallOutcome EXCEPT ![c] = seen]
         /\ [b \in Calls |-> item'[b].posts] = [[b \in Calls |-> item[b].posts] EXCEPT ![c] = number]
<1>1. CallOutcome' = [b \in Calls |-> IF b = c THEN seen ELSE CallOutcome[b]]
  BY DEF CallOutcome
<1>2. CallOutcome = [b \in Calls |-> CallOutcome[b]]
  BY DEF CallOutcome
<1>. QED BY <1>1, <1>2

\* The caller and the platform see a step of one call as a step of the promise.
LEMMA OneCallAtATime ==
  ASSUME NEW c \in Calls,
         \A b \in Calls : b # c => /\ result'[b] = result[b] /\ doubt'[b] = doubt[b]
                                  /\ item'[b].posts = item[b].posts,
         \/ CallOutcome'[c] = CallOutcome[c] /\ item'[c].posts = item[c].posts
         \/ /\ CallOutcome[c] = "none"
            /\ \A b \in Calls : b < c => CallOutcome[b] \in {"refused", "unsure"}
            /\ CallOutcome'[c] = "open" /\ item'[c].posts = item[c].posts
         \/ /\ CallOutcome[c] \in {"open", "unsure"} /\ item[c].posts = 0
            /\ CallOutcome'[c] = CallOutcome[c] /\ item'[c].posts = 1
         \/ CallOutcome[c] = "open" /\ CallOutcome'[c] = "accepted" /\ item'[c].posts = 1
         \/ /\ CallOutcome[c] = "open" /\ item[c].posts = 0
            /\ CallOutcome'[c] = "refused" /\ item'[c].posts = 0
         \/ /\ CallOutcome[c] = "open" /\ CallOutcome'[c] = "unsure"
            /\ \/ item'[c].posts = item[c].posts
               \/ item[c].posts = 0 /\ item'[c].posts = 1
  PROVE  [PC!CallNext]_(PC!callVars)
<1> DEFINE posts == [b \in Calls |-> item[b].posts]
           later == [b \in Calls |-> item'[b].posts]
<1>1. /\ CallOutcome' = [CallOutcome EXCEPT ![c] = CallOutcome'[c]]
      /\ later = [posts EXCEPT ![c] = item'[c].posts]
  BY OthersLookTheSame
<1>2. /\ posts = [posts EXCEPT ![c] = item[c].posts]
      /\ CallOutcome = [CallOutcome EXCEPT ![c] = CallOutcome[c]]
      /\ posts[c] = item[c].posts
  BY DEF CallOutcome
<1> HIDE DEF posts, later
<1>3. CASE CallOutcome'[c] = CallOutcome[c] /\ item'[c].posts = item[c].posts
  <2>1. CallOutcome' = CallOutcome /\ later = posts
    BY <1>1, <1>2, <1>3
  <2>. QED BY <2>1 DEF PC!callVars, posts, later
<1>4. CASE /\ CallOutcome[c] = "none"
           /\ \A b \in Calls : b < c => CallOutcome[b] \in {"refused", "unsure"}
           /\ CallOutcome'[c] = "open" /\ item'[c].posts = item[c].posts
  <2>1. CallOutcome' = [CallOutcome EXCEPT ![c] = "open"] /\ later = posts
    BY <1>1, <1>2, <1>4
  <2>2. PC!Open(c)
    BY <1>4, <2>1 DEF PC!Open, posts, later
  <2>. QED BY <2>2 DEF PC!CallNext
<1>5. CASE /\ CallOutcome[c] \in {"open", "unsure"} /\ item[c].posts = 0
           /\ CallOutcome'[c] = CallOutcome[c] /\ item'[c].posts = 1
  <2>1. CallOutcome' = CallOutcome /\ later = [posts EXCEPT ![c] = 1]
    BY <1>1, <1>2, <1>5
  <2>2. PC!Appear(c)
    BY <1>2, <1>5, <2>1 DEF PC!Appear, posts, later
  <2>. QED BY <2>2 DEF PC!CallNext
<1>6. CASE CallOutcome[c] = "open" /\ CallOutcome'[c] = "accepted" /\ item'[c].posts = 1
  <2>1. /\ CallOutcome' = [CallOutcome EXCEPT ![c] = "accepted"]
        /\ later = [posts EXCEPT ![c] = 1]
    BY <1>1, <1>6
  <2>2. PC!Accept(c)
    BY <1>6, <2>1 DEF PC!Accept, posts, later
  <2>. QED BY <2>2 DEF PC!CallNext
<1>7. CASE /\ CallOutcome[c] = "open" /\ item[c].posts = 0
           /\ CallOutcome'[c] = "refused" /\ item'[c].posts = 0
  <2>1. CallOutcome' = [CallOutcome EXCEPT ![c] = "refused"] /\ later = posts
    BY <1>1, <1>2, <1>7
  <2>2. PC!Refuse(c)
    BY <1>2, <1>7, <2>1 DEF PC!Refuse, posts, later
  <2>. QED BY <2>2 DEF PC!CallNext
<1>8. CASE /\ CallOutcome[c] = "open" /\ CallOutcome'[c] = "unsure"
           /\ \/ item'[c].posts = item[c].posts
              \/ item[c].posts = 0 /\ item'[c].posts = 1
  <2>1. /\ CallOutcome' = [CallOutcome EXCEPT ![c] = "unsure"]
        /\ later = posts \/ (posts[c] = 0 /\ later = [posts EXCEPT ![c] = 1])
    BY <1>1, <1>2, <1>8
  <2>2. PC!Lose(c)
    BY <1>8, <2>1 DEF PC!Lose, posts, later
  <2>. QED BY <2>2 DEF PC!CallNext
<1>. QED BY <1>3, <1>4, <1>5, <1>6, <1>7, <1>8

\* A step of a call is no step of the promise, or makes the post, or ends the call in
\* the way its caller is told.
LEMMA CallStepPromises ==
  ASSUME AdaptersInv, CallStep
  PROVE  [PC!CallNext]_(PC!callVars)
<1>1. /\ pc # "idle" /\ StepOfCall /\ ItemOK(call)' /\ AdaptersInv'
      /\ call \in Calls /\ result[call] = "open" /\ ItemOK(call) /\ call' = call
  BY CallStepKeeps, RequestsAreOpen DEF KeepsCall, StepOfCall, Frame
<1>2. /\ \A c \in Calls : c # call => item'[c] = item[c]
      /\ \/ item'[call].posts = item[call].posts
         \/ item[call].posts = 0 /\ item'[call].posts = 1
  <2>1. CASE UNCHANGED item
    BY <2>1
  <2>2. ASSUME NEW state \in ItemStates \ {"none"}, Becomes(state, Len(input.media))
        PROVE  /\ \A c \in Calls : c # call => item'[c] = item[c]
               /\ \/ item'[call].posts = item[call].posts
                  \/ item[call].posts = 0 /\ item'[call].posts = 1
    <3>1. /\ \A c \in Calls : c # call => item'[c] = item[c]
          /\ item'[call].posts \in {item[call].posts, item[call].posts + 1}
      BY <1>1, <2>2, WhatBecomes, RequestsAreOpen DEF AdaptersInv, RequestOK
    <3>2. item[call].posts \in {0, 1} /\ item'[call].posts \in {0, 1}
      BY <1>1 DEF ItemOK
    <3>. QED BY <3>1, <3>2
  <2>. QED BY <1>1, <2>1, <2>2 DEF StepOfCall
<1> DEFINE Told ==
      /\ \A c \in Calls : c # call => result'[c] = result[c] /\ doubt'[c] = doubt[c]
      /\ \/ result'[call] = "open"
         \/ result'[call] = "success" /\ item'[call].posts = 1
         \/ result'[call] \in Errors /\ doubt'[call] = TRUE
         \/ result'[call] \in Errors /\ doubt'[call] = FALSE /\ item'[call].posts = 0
<1>3. Told
  <2>1. result \in [Calls -> Results] /\ doubt \in [Calls -> BOOLEAN]
    BY DEF AdaptersInv, AdaptersTypeOK
  <2>2. CASE UNCHANGED <<result, doubt>>
    BY <1>1, <2>2
  <2>3. ASSUME NEW kind \in Errors \cup {"success"}, NEW unsure \in BOOLEAN,
               Return(kind, unsure)
        PROVE  Told
    <3>1. /\ \A c \in Calls : c # call => result'[c] = result[c] /\ doubt'[c] = doubt[c]
          /\ result'[call] = kind /\ doubt'[call] = unsure
      BY <1>1, <2>1, <2>3 DEF Return
    <3>2. /\ kind = "success" => item'[call].posts = 1
          /\ kind \in Errors /\ ~unsure => item'[call].posts = 0
      BY <1>1, <3>1 DEF ItemOK
    <3>. QED BY <3>1, <3>2
  <2>. QED BY <1>1, <2>2, <2>3 DEF StepOfCall
<1>4. CallOutcome[call] = "open"
  BY <1>1, OutcomeOfCall
<1>5. /\ result'[call] = "open" => CallOutcome'[call] = "open"
      /\ result'[call] = "success" => CallOutcome'[call] = "accepted"
      /\ result'[call] \in Errors /\ doubt'[call] = TRUE => CallOutcome'[call] = "unsure"
      /\ result'[call] \in Errors /\ doubt'[call] = FALSE => CallOutcome'[call] = "refused"
  BY <1>1 DEF CallOutcome, Errors
<1>6. item[call].posts \in {0, 1} /\ item'[call].posts \in {0, 1}
  BY <1>1 DEF ItemOK
<1>. QED BY <1>1, <1>2, <1>3, <1>4, <1>5, <1>6, OneCallAtATime

\* A call that begins is opened, and those before it have all failed.
LEMMA BeginPromises ==
  ASSUME AdaptersInv, Begin
  PROVE  [PC!CallNext]_(PC!callVars)
<1>1. /\ call + 1 \in Calls /\ call \in Nat
      /\ result' = [result EXCEPT ![call + 1] = "open"]
      /\ UNCHANGED <<doubt, item>>
  BY AdaptersAssumption DEF Begin, Calls, AdaptersInv, AdaptersTypeOK
<1>2. result'[call + 1] = "open" /\ \A b \in Calls : b # call + 1 => result'[b] = result[b]
  BY <1>1 DEF AdaptersInv, AdaptersTypeOK
<1>3. result[call + 1] = "none"
  BY <1>1 DEF AdaptersInv, CallsOK
<1>4. ASSUME NEW b \in Calls, b < call + 1
      PROVE  CallOutcome[b] \in {"refused", "unsure"}
  <2>1. b \in Nat \ {0} /\ (b < call \/ b = call)
    BY <1>1, <1>4 DEF Calls
  <2>2. result[b] \in Errors
    <3>1. CASE b < call
      BY <3>1 DEF AdaptersInv, CallsOK
    <3>2. CASE b = call
      <4>1. call > 0 /\ result[call] \notin {"none", "open", "success"}
        BY <2>1, <3>2 DEF Begin, AdaptersInv, CallsOK
      <4>. QED BY <3>2, <4>1 DEF AdaptersInv, AdaptersTypeOK, Results
    <3>. QED BY <2>1, <3>1, <3>2
  <2>. QED BY <2>2, OutcomeOfCall
<1>5. CallOutcome[call + 1] = "none" /\ CallOutcome'[call + 1] = "open"
  BY <1>1, <1>2, <1>3 DEF CallOutcome
<1>. QED BY <1>1, <1>2, <1>4, <1>5, OneCallAtATime

\* What the platform makes later it makes for a call that is open or in doubt.
LEMMA PlatformPromises ==
  ASSUME AdaptersInv, NEW c \in Calls, Process(c) \/ GoPublic(c)
  PROVE  [PC!CallNext]_(PC!callVars)
<1>1. /\ UNCHANGED <<result, doubt>>
      /\ \A b \in Calls : b # c => item'[b] = item[b]
      /\ \/ item'[c].posts = item[c].posts
         \/ /\ item[c].posts = 0 /\ item'[c].posts = 1
            /\ result[c] \in {"open"} \cup Errors /\ (result[c] # "open" => doubt[c])
  BY PlatformKeeps
<1>2. CallOutcome'[c] = CallOutcome[c]
  BY <1>1 DEF CallOutcome
<1>3. item'[c].posts # item[c].posts => CallOutcome[c] \in {"open", "unsure"}
  BY <1>1, OutcomeOfCall
<1>. QED BY <1>1, <1>2, <1>3, OneCallAtATime

\* Every step is one step of the promise, or none.
LEMMA StepsKeepThePromise ==
  AdaptersInv /\ [AdaptersNext]_adapterVars => [PC!CallNext]_(PC!callVars)
<1> SUFFICES ASSUME AdaptersInv, [AdaptersNext]_adapterVars
             PROVE  [PC!CallNext]_(PC!callVars)
  OBVIOUS
<1>1. CASE Begin
  BY <1>1, BeginPromises
<1>2. CASE CallStep
  BY <1>2, CallStepPromises
<1>3. CASE ClockTicks
  <2>1. UNCHANGED <<result, doubt, item>>
    BY <1>3 DEF ClockTicks
  <2>. QED BY <2>1 DEF PC!callVars, CallOutcome
<1>4. CASE \E c \in Calls : Process(c) \/ GoPublic(c)
  BY <1>4, PlatformPromises
<1>5. CASE UNCHANGED adapterVars
  BY <1>5 DEF adapterVars, PC!callVars, CallOutcome
<1>. QED BY <1>1, <1>2, <1>3, <1>4, <1>5 DEF AdaptersNext

\* On every platform, whatever it answers, createPost keeps its promise: a call that
\* returns has made one post, a call that is refused has made none and none comes later,
\* and a call that ends in doubt makes one at most.
THEOREM AdaptersKeepTheCallPromise ==
  AdaptersSpec => KeepsCallPromise
BY PromiseStarts, StepsKeepThePromise, AdaptersAlways, PTL
DEF AdaptersSpec, KeepsCallPromise, PC!CallSpec
=============================================================================
