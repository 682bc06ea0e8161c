--------------------------------- MODULE Desk ---------------------------------
(***************************************************************************)
(* The editorial desk: what the agents take from one another on the way    *)
(* from retrieved items to a written piece.  The trend hunter keeps new    *)
(* stories, the topic scorer ranks them, the researcher keeps the claims   *)
(* it can trace, the fact checker judges them, the strategist picks the    *)
(* platforms, the hook engine picks a hook, a writer writes.  What a       *)
(* language model answers is any answer its schema admits.                 *)
(*                                                                         *)
(* Who calls the agents, what becomes of topics and pieces and how reviews *)
(* decide is module Pipeline; the desk has one story in hand at a time, as *)
(* the loop has.                                                           *)
(***************************************************************************)
EXTENDS Capabilities, FiniteSetsExt

CONSTANTS
  Stories,      \* stories there are to discover
  Hooks,        \* hooks a model may offer: [text, truthfulness, composite]
  Alike,        \* pairs of stories, or of hooks, at or above the similarity threshold
  Drafts,       \* claims a model may extract: [text, excerpt]
  Verdicts,     \* verdicts a model may give: [verification, sure]
  Recall,       \* topics, or pieces, that a query for recent ones reads at most (300)
  MaxTopics,    \* topics one scan keeps at most (10)
  Connected,    \* sets of platforms that may have an account
  Carousels,    \* scripts a model may write: the roles of the slides
  Reels,        \* scripts a model may write: the lengths of the beats, in 1/100 s
  NoPiece       \* no piece in hand

Excerpts == {"quoted", "opening", "invented", "short"}
SLIDE_ROLES == {"HOOK", "CONTEXT", "POINT", "TAKEAWAY", "CTA"}
Verifications == {"VERIFIED", "PARTIALLY_VERIFIED", "UNVERIFIED", "CONTRADICTED"}

ASSUME DeskAssumption ==
  /\ Recall \in Nat /\ MaxTopics \in Nat \ {0}
  /\ Connected \subseteq SUBSET Platforms \ {{}}
  /\ \A roles \in Carousels : roles \in Seq(SLIDE_ROLES) /\ Len(roles) \in 4..10
  /\ \A beats \in Reels :
       /\ beats \in Seq(Nat) /\ Len(beats) >= 3
       /\ \A i \in DOMAIN beats : beats[i] \in 50..3000
  /\ \A d \in Drafts : d.excerpt \in Excerpts
  /\ Verdicts \subseteq [verification : Verifications, sure : BOOLEAN]
  /\ \A h \in Hooks : h.truthfulness \in 0..100 /\ h.composite \in 0..100
  /\ IsFiniteSet(Stories) /\ IsFiniteSet(Hooks)
  /\ NoPiece \notin [format  : {"CAROUSEL", "REEL"},
                     targets : SUBSET Platforms,
                     content : Seq(Nat) \cup Seq([role : SLIDE_ROLES, cover : BOOLEAN,
                                                 inverted : BOOLEAN, page : Nat])]

Similar(a, b) == a = b \/ {a, b} \in Alike
isDuplicate(a, candidates) == \E b \in candidates : Similar(a, b)

-----------------------------------------------------------------------------
(* research/trend-hunter.ts, topic-scorer.ts, scoring.ts                   *)

\* Fault seeded for the mutation check: a topic is compared with old ones only.
NewStoriesOldOnly(found, existing) ==
  {out \in SUBSET found : \A s \in out : ~isDuplicate(s, existing)}

\* The topics one scan may keep of those the model found, in the order it gave them:
\* each unlike the existing ones and those kept before it.
NewStories(found, existing) ==
  {out \in SUBSET found :
     /\ Cardinality(out) <= MaxTopics
     /\ \A s \in out : ~isDuplicate(s, existing \cup (out \ {s}))
     /\ \A s \in found \ out :
          isDuplicate(s, existing \cup out) \/ Cardinality(out) = MaxTopics}

\* computeCompositeScore over the dimensions that have a positive weight: the
\* weights need not sum to one, and a score outside 0..100 is clamped.
computeCompositeScore(scores, weights) ==
  LET used     == {d \in DOMAIN scores \cap DOMAIN weights : weights[d] > 0}
      clamp(n) == IF n < 0 THEN 0 ELSE IF n > 100 THEN 100 ELSE n
      total    == MapThenSumSet(LAMBDA d : weights[d], used)
  IN IF total > 0
     THEN MapThenSumSet(LAMBDA d : clamp(scores[d]) * weights[d], used) \div total
     ELSE 0

\* A breaking story halves every 6 hours and any other every 14 days.
timelinessScore(age, breaking) ==
  LET halfLife == IF breaking THEN 6 ELSE 24 * 14
  IN IF age < 0 THEN 100 ELSE 100 \div (2 ^ (age \div halfLife))

\* Only a story of 60 or more is researched.  The model's timeliness is replaced.
IsSelected(interest, age, breaking) ==
  computeCompositeScore(
    [interest |-> interest, timeliness |-> timelinessScore(age, breaking)],
    [interest |-> 94, timeliness |-> 6]) >= 60

-----------------------------------------------------------------------------
(* research/researcher.ts, fact-checker.ts                                 *)

\* Fault seeded for the mutation check: the quotes are taken on trust.
TraceableOnTrust(drafts) == drafts

\* A claim is kept if its excerpt is long enough and the first 60 characters of it
\* stand in a fetched source.
Traceable(drafts) == {d \in drafts : d.excerpt \in {"quoted", "opening"}}

Unanswered == [verification |-> "UNVERIFIED", sure |-> FALSE]

\* The verdicts are matched to the claims by text; a claim without one is unverified.
Checked(claims, results) ==
  {[text |-> c.text, excerpt |-> c.excerpt, verdict |-> results[c.text]] : c \in claims}

\* A verdict of VERIFIED counts only with a confidence of 0.7 or more.
Publishable(claim) == claim.verdict.verification = "VERIFIED" /\ claim.verdict.sure

HasVerdict(verification, claims) == {c \in claims : c.verdict.verification = verification}

RequiresReview(claims) ==
  \/ HasVerdict("CONTRADICTED", claims) # {}
  \/ 2 * Cardinality(HasVerdict("VERIFIED", claims)) < Cardinality(claims)

Usable(claims, autonomous) ==
  IF autonomous THEN {c \in claims : Publishable(c)}
  ELSE claims \ HasVerdict("CONTRADICTED", claims)

-----------------------------------------------------------------------------
(* content/strategist.ts, hook-engine.ts, the writers, the renderer        *)

Carries(platform, format) ==
  LET posts == getCapabilities(platform).posts IN
    CASE format = "CAROUSEL"     -> "CAROUSEL" \in posts
      [] format = "REEL"         -> "VIDEO" \in posts
      [] format = "SINGLE_IMAGE" -> "IMAGE" \in posts
      [] format = "STORY"        -> "STORY" \in posts
      [] OTHER                   -> TRUE

\* Targets that are not connected or cannot carry the format are dropped; if none
\* is left the connected platforms are all taken.
TargetPlatforms(requested, format, available) ==
  LET viable == {p \in requested \cap available : Carries(p, format)}
  IN IF viable = {} THEN available ELSE viable

TRUTHFULNESS_FLOOR == 70

Evaluated(offered, previous) ==
  {h \in offered : h.truthfulness >= TRUTHFULNESS_FLOOR /\ ~isDuplicate(h.text, previous)}

\* The strongest of them; the sort may put any of the equals first.
Selected(evaluated) ==
  {h \in evaluated : \A other \in evaluated : other.composite <= h.composite}

\* A carousel opens with its hook and closes with its call to action, whatever the
\* model wrote: at least four slides.
CarouselRoles(roles) == [roles EXCEPT ![1] = "HOOK", ![Len(roles)] = "CTA"]

\* The cover and the call to action are inverted; the cover alone carries the image
\* and no page number.
designCarousel(roles) ==
  [i \in 1..Len(roles) |->
     [role |-> roles[i], cover |-> i = 1, inverted |-> i = 1 \/ roles[i] = "CTA", page |-> i]]

\* Fault seeded for the mutation check: an overrun is left to the platform.
ScaledBeatsNot(beats, limit) == beats

\* Beats in 1/100 s are scaled down, each rounded, when they overrun the limit.
ScaledBeats(beats, limit) ==
  LET total == FoldFunction(+, 0, beats)
  IN IF total <= limit THEN beats
     ELSE [i \in DOMAIN beats |-> (2 * beats[i] * limit + total) \div (2 * total)]

-----------------------------------------------------------------------------

VARIABLES
  stage,       \* what the desk does next
  known,       \* stories kept in the last 14 days
  claims,      \* the claims of the story in hand
  autonomous,  \* the mode read as the writing began
  given,       \* the claims given to the strategist, the hook engine and the writer
  used,        \* hooks of the pieces of the last 60 days
  piece,       \* the piece in hand
  overlooked   \* history: queries that could not read all there was: "stories", "hooks"

deskVars == <<stage, known, claims, autonomous, given, used, piece, overlooked>>

DeskTypeOK ==
  /\ stage \in {"scan", "research", "check", "gate", "hook", "write", "done"}
  /\ known \subseteq Stories /\ used \subseteq {h.text : h \in Hooks}
  /\ \A c \in claims \cup given : c.verdict \in Verdicts \cup {Unanswered}
  /\ autonomous \in BOOLEAN
  /\ piece = NoPiece <=> stage # "done"
  /\ overlooked \subseteq {"stories", "hooks"}

InHand == <<claims, autonomous, given, piece>>
NothingInHand == claims' = {} /\ autonomous' = FALSE /\ given' = {} /\ piece' = NoPiece

DeskInit ==
  /\ stage = "scan" /\ known = {} /\ used = {} /\ overlooked = {}
  /\ claims = {} /\ autonomous = FALSE /\ given = {} /\ piece = NoPiece

\* What a query of recent rows without an order may read.
Recalled(rows) ==
  {read \in SUBSET rows : Cardinality(read) = Recall}
    \cup IF Cardinality(rows) <= Recall THEN {rows} ELSE {}

Overlook(what, rows) ==
  overlooked' = IF Cardinality(rows) > Recall THEN overlooked \cup {what} ELSE overlooked

\* The hunter: searches fail or find, and the model picks what it will of the items.
Scan ==
  /\ stage = "scan"
  /\ \E found \in SUBSET Stories, existing \in Recalled(known) :
       \E kept \in NewStories(found, existing) : kept # {} /\ known' = known \cup kept
  /\ Overlook("stories", known)
  /\ UNCHANGED <<stage, InHand, used>>

\* A story is taken up for research if the scorer gives it enough.
Select ==
  /\ stage = "scan" /\ known # {}
  /\ \E interest \in {50, 70}, age \in {0, 12}, breaking \in BOOLEAN :
       IsSelected(interest, age, breaking)
  /\ stage' = "research"
  /\ UNCHANGED <<InHand, known, used, overlooked>>

\* The researcher: the claims found in the fetched sources or in their snippets.
Research ==
  /\ stage = "research"
  /\ \E drafts \in SUBSET Drafts :
       claims' = {[text |-> d.text, excerpt |-> d.excerpt, verdict |-> Unanswered] :
                    d \in Traceable(drafts)}
  /\ stage' = "check"
  /\ UNCHANGED <<autonomous, given, piece, known, used, overlooked>>

\* The fact checker answers for some of the claims; the story may be rejected.
Check ==
  /\ stage = "check"
  /\ \E results \in [{c.text : c \in claims} -> Verdicts \cup {Unanswered}] :
       LET checked == Checked(claims, results) IN
         \/ RequiresReview(checked) /\ stage' = "scan" /\ NothingInHand
         \/ /\ ~RequiresReview(checked)
            /\ stage' = "gate" /\ claims' = checked
            /\ UNCHANGED <<autonomous, given, piece>>
  /\ UNCHANGED <<known, used, overlooked>>

\* The fact gate, under the mode read now: which claims may be written from.
PassGate ==
  /\ stage = "gate"
  /\ autonomous' \in BOOLEAN
  /\ given' = Usable(claims, autonomous')
  /\ autonomous' /\ claims # {} => given' # {}
  /\ stage' = "hook" /\ claims' = {}
  /\ UNCHANGED <<piece, known, used, overlooked>>

\* The hook engine, with the hooks of the pieces it could read.
PickHook ==
  /\ stage = "hook"
  /\ \E offered \in SUBSET Hooks, previous \in Recalled(used) :
       \E hook \in Selected(Evaluated(offered, previous)) : used' = used \cup {hook.text}
  /\ Overlook("hooks", used)
  /\ stage' = "write" /\ given' = {} /\ autonomous' = FALSE
  /\ UNCHANGED <<claims, piece, known>>

ReelLimit == 100 * getCapabilities("INSTAGRAM").video.maxSeconds

\* A strategy's format other than a reel is made as a carousel.
Write ==
  /\ stage = "write"
  /\ \E available \in Connected, requested \in SUBSET Platforms,
        format \in {"CAROUSEL", "REEL", "SINGLE_IMAGE", "STORY", "SERIES"} :
       LET targets == TargetPlatforms(requested, format, available) IN
         \/ /\ format = "REEL"
            /\ \E beats \in Reels :
                 piece' = [format |-> "REEL", targets |-> targets,
                           content |-> ScaledBeats(beats, ReelLimit)]
         \/ /\ format # "REEL"
            /\ \E roles \in Carousels :
                 piece' = [format |-> "CAROUSEL", targets |-> targets,
                           content |-> designCarousel(CarouselRoles(roles))]
  /\ stage' = "done"
  /\ UNCHANGED <<claims, autonomous, given, known, used, overlooked>>

\* The piece is done, or an agent failed and the story is dropped.
PutAway ==
  /\ stage # "scan"
  /\ stage' = "scan" /\ NothingInHand
  /\ UNCHANGED <<known, used, overlooked>>

DeskNext == Scan \/ Select \/ Research \/ Check \/ PassGate \/ PickHook \/ Write \/ PutAway

DeskSpec == DeskInit /\ [][DeskNext]_deskVars

-----------------------------------------------------------------------------
(* Properties.                                                             *)

AllUnlike(rows) == \A a, b \in rows : a # b => ~Similar(a, b)

\* As long as every scan could read all recent topics, no story is kept twice; the
\* same for hooks and the pieces that use them.  No hook is used that was not rated at
\* the floor or above.
NothingIsRepeated ==
  /\ "stories" \notin overlooked => AllUnlike(known)
  /\ "hooks" \notin overlooked => AllUnlike(used)
  /\ \A text \in used :
       \E h \in Hooks : h.text = text /\ h.truthfulness >= TRUTHFULNESS_FLOOR

\* Unattended, a writer is given a claim only if its quote begins in a fetched source
\* and the checker itself called it VERIFIED and was sure; attended, nothing contradicted.
ClaimsAreTraceable ==
  \A c \in given :
    /\ c.excerpt \in {"quoted", "opening"}
    /\ IF autonomous THEN c.verdict = [verification |-> "VERIFIED", sure |-> TRUE]
       ELSE c.verdict.verification # "CONTRADICTED"

\* What is made can be posted on every platform it is made for, whatever format and
\* platforms the strategy asked for: the registry, the strategist and the writers
\* agree.  A scaled reel may overrun by the rounding of its beats.
PieceFitsItsPlatforms ==
  piece # NoPiece =>
    \A p \in piece.targets :
      LET caps == getCapabilities(p) IN
        /\ Carries(p, piece.format)
        /\ piece.format = "CAROUSEL" =>
             /\ Len(piece.content) \in caps.carousel[1]..caps.carousel[2]
             /\ piece.content[1].role = "HOOK"
             /\ piece.content[Len(piece.content)].role = "CTA"
        /\ piece.format = "REEL" =>
             2 * FoldFunction(+, 0, piece.content)
               <= 200 * caps.video.maxSeconds + Len(piece.content)
=============================================================================
