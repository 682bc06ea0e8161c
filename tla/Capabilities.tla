---------------------------- MODULE Capabilities ----------------------------
(***************************************************************************)
(* What each platform can do, as the registry records it, and the three    *)
(* decisions taken from it: how a post is timed, what request is built for *)
(* a piece, and whether the request is refused before it is sent.          *)
(* An absent number is 0, which the code's truth tests treat alike.        *)
(***************************************************************************)
EXTENDS Naturals, Sequences, FiniteSets

\* An image or a video, each with its limits: sizes in MB, ratios * 10000.
Limits(formats, size, width, seconds, ratio) ==
  [formats |-> formats, maxSize |-> size, minWidth |-> width[1],
   maxWidth |-> width[2], minSeconds |-> seconds[1], maxSeconds |-> seconds[2],
   ratioMin |-> ratio[1], ratioMax |-> ratio[2]]

INSTAGRAM_CAPABILITIES ==
  [posts |-> {"IMAGE", "VIDEO", "REEL", "CAROUSEL", "STORY"},
   scheduleStrategy |-> "SELF_TIMED", carousel |-> <<2, 10>>,
   features |-> {"update", "postAnalytics", "accountAnalytics", "webhooks"},
   caption |-> 2200, hashtags |-> 30, pullsFromUrl |-> TRUE,
   image |-> Limits({"jpeg", "png"}, 8, <<320, 1440>>, <<0, 0>>, <<8000, 19100>>),
   video |-> Limits({"mp4", "quicktime"}, 1024, <<0, 0>>, <<5, 90>>, <<5625, 5625>>)]

TIKTOK_CAPABILITIES ==
  [posts |-> {"IMAGE", "VIDEO", "REEL", "CAROUSEL"},
   scheduleStrategy |-> "SELF_TIMED", carousel |-> <<1, 35>>,
   features |-> {"postAnalytics", "accountAnalytics"},
   caption |-> 2200, hashtags |-> 30, pullsFromUrl |-> FALSE,
   image |-> Limits({"jpeg", "webp"}, 20, <<0, 0>>, <<0, 0>>, <<0, 0>>),
   video |-> Limits({"mp4", "quicktime", "webm"}, 4096, <<0, 0>>, <<3, 600>>, <<5625, 10000>>)]

FACEBOOK_CAPABILITIES ==
  [posts |-> {"IMAGE", "VIDEO", "REEL", "CAROUSEL"},
   scheduleStrategy |-> "DELEGATED", carousel |-> <<2, 10>>,
   features |-> {"schedule", "delete", "update", "postAnalytics",
                 "accountAnalytics", "webhooks"},
   caption |-> 63206, hashtags |-> 30, pullsFromUrl |-> FALSE,
   image |-> Limits({"jpeg", "png", "gif"}, 10, <<0, 0>>, <<0, 0>>, <<0, 0>>),
   video |-> Limits({"mp4", "quicktime"}, 10240, <<0, 0>>, <<1, 14400>>, <<0, 0>>)]

Platforms == {"INSTAGRAM", "TIKTOK", "FACEBOOK"}

getCapabilities(platform) ==
  CASE platform = "INSTAGRAM" -> INSTAGRAM_CAPABILITIES
    [] platform = "TIKTOK"    -> TIKTOK_CAPABILITIES
    [] platform = "FACEBOOK"  -> FACEBOOK_CAPABILITIES

-----------------------------------------------------------------------------
(* Timing.  Times are minutes; no time asked for is 0.                     *)

\* decideSchedule: who waits for the hour, the platform or this system.
decideSchedule(platform, scheduledAt, now) ==
  LET caps == getCapabilities(platform) IN
    IF scheduledAt <= now THEN "IMMEDIATE"
    ELSE IF "schedule" \in caps.features /\ caps.scheduleStrategy = "DELEGATED"
         THEN "DELEGATED"
         ELSE "SELF_TIMED"

(* The request.                                                            *)

\* A media item: what the checks read of it.
Media(kind, mime, width, height, seconds, size, url) ==
  [kind |-> kind, mime |-> mime, width |-> width, height |-> height,
   seconds |-> seconds, size |-> size, url |-> url]

\* The slides that have an image, in the order of their positions.
Rendered(slides) ==
  LET kept   == {i \in DOMAIN slides : slides[i] # "unrendered"}
      nth(n) == CHOOSE i \in kept : Cardinality({k \in kept : k <= i}) = n
  IN  [n \in 1..Cardinality(kept) |-> slides[nth(n)]]

\* The formats a piece can be published in, when what it needs is rendered.
Buildable(piece) ==
  CASE piece.format = "CAROUSEL" -> Rendered(piece.slides) # <<>>
    [] OTHER                     -> piece.media # {}

\* PublishingService.#buildPostInput: slides are published as rendered JPEGs and
\* a reel as one MP4, whatever their stored type; an image keeps its own.  Only
\* a DELEGATED row carries its time.  A slide without an image is left out.
buildPostInput(piece, scheduledAt, strategy) ==
  [kind |-> IF piece.format \in {"CAROUSEL", "REEL"} THEN piece.format ELSE "IMAGE",
   caption |-> piece.caption,
   hashtags |-> piece.hashtags,
   media |->
     CASE piece.format = "CAROUSEL" ->
            LET urls == Rendered(piece.slides) IN
              [i \in DOMAIN urls |-> Media("IMAGE", "jpeg", 1080, 1350, 0, 0, urls[i])]
       [] piece.format = "REEL" ->
            LET m == CHOOSE m \in piece.media : TRUE IN
              <<Media("VIDEO", "mp4", 1080, 1920, m.seconds, 0, m.url)>>
       [] OTHER ->
            LET m == CHOOSE m \in piece.media : TRUE IN
              <<Media("IMAGE", m.mime, m.width, m.height, 0, m.size, m.url)>>,
   scheduledAt |-> IF strategy = "DELEGATED" THEN scheduledAt ELSE 0]

-----------------------------------------------------------------------------
(* Validation.                                                             *)

\* isPubliclyFetchable, by the class of the URL's host.
isPubliclyFetchable(url) == url \notin {"localhost", "private", "malformed"}

\* validateAgainstCapabilities: the fields with an ERROR.  Nothing but kind and
\* caption is looked at when there are no media.
ItemErrors(item, caps) ==
  LET limits == IF item.kind = "VIDEO" THEN caps.video ELSE caps.image IN
    \/ item.mime \notin limits.formats
    \/ item.size > limits.maxSize
    \/ item.width > 0 /\ item.width < limits.minWidth
    \/ /\ item.kind = "VIDEO" /\ item.seconds > 0
       /\ \/ item.seconds < limits.minSeconds
          \/ limits.maxSeconds > 0 /\ item.seconds > limits.maxSeconds
    \/ /\ item.width > 0 /\ item.height > 0 /\ limits.ratioMin > 0
       /\ \/ item.width * 10000 < (limits.ratioMin - 100) * item.height
          \/ item.width * 10000 > (limits.ratioMax + 100) * item.height
    \/ caps.pullsFromUrl /\ ~isPubliclyFetchable(item.url)

ScheduleErrors(input, caps, now) ==
  /\ input.scheduledAt > 0
  /\ \/ input.scheduledAt <= now
     \/ /\ caps.scheduleStrategy = "DELEGATED"
        /\ \/ input.scheduledAt - now < 10
           \/ input.scheduledAt - now > 30 * 24 * 60

validateAgainstCapabilities(input, caps, now) ==
  LET early == {f \in {"kind", "caption"} :
                  IF f = "kind" THEN input.kind \notin caps.posts
                  ELSE input.caption > caps.caption \/ input.hashtags > caps.hashtags}
      late  == {f \in {"media", "item", "scheduledAt"} :
                  CASE f = "media" -> /\ input.kind = "CAROUSEL"
                                      /\ Len(input.media) \notin
                                           caps.carousel[1]..caps.carousel[2]
                    [] f = "item"  -> \E i \in DOMAIN input.media :
                                        ItemErrors(input.media[i], caps)
                    [] OTHER       -> ScheduleErrors(input, caps, now)}
  IN IF input.media = <<>> THEN early \cup {"media"} ELSE early \cup late
=============================================================================
