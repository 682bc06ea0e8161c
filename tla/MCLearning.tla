----------------------------- MODULE MCLearning -----------------------------
(* Learning for TLC: small, odd and clear-cut weeks, and two brands.         *)
EXTENDS Learning

Post(reach, likes, saves) ==
  [reach |-> reach, views |-> 100, likes |-> likes, saves |-> saves, shares |-> 0,
   comments |-> 0, follows |-> Null]

DefaultWeights ==
  [d \in Dimensions |->
     CASE d = "CURRENT_INTEREST" -> 1200 [] d = "AUDIENCE_FIT" -> 1400 [] d = "CURIOSITY" -> 1100
       [] d = "SHAREABILITY" -> 1000 [] d = "SAVEABILITY" -> 900 [] d = "COMMENT_POTENTIAL" -> 600
       [] d = "VISUAL_POTENTIAL" -> 800 [] d = "EMOTIONAL_IMPACT" -> 700 [] d = "NOVELTY" -> 700
       [] d = "TIMELINESS" -> 600 [] d = "FOLLOW_POTENTIAL" -> 500 [] d = "BRAND_FIT" -> 500]

\* A brand far along its drift: two weights near the ceiling.
DriftedWeights ==
  [d \in Dimensions |-> IF d \in {"AUDIENCE_FIT", "BRAND_FIT"} THEN 2950 ELSE 410]

\* DEFAULT_CONTENT_MIX
DefaultMix ==
  [c \in {"MONEY", "BUSINESS", "AI", "TECHNOLOGY", "MINDSET", "PSYCHOLOGY", "SPORTS", "LUXURY",
          "LIFESTYLE", "RELATIONSHIPS", "NEWS"} |->
     CASE c \in {"MONEY", "BUSINESS", "AI"}             -> 1500
       [] c \in {"TECHNOLOGY", "MINDSET", "PSYCHOLOGY"} -> 1000
       [] c = "SPORTS"    -> 800 [] c = "LUXURY"        -> 700
       [] c = "LIFESTYLE" -> 500 [] c = "RELATIONSHIPS" -> 300 [] c = "NEWS" -> 200]

Week(size, format) ==
  {Group("MONEY", format, size, Post(1000, 1, 9)), Group("AI", format, size, Post(1000, 2, 0)),
   Group("SPORTS", format, size, Post(Null, 1, 0))}

\* Each category in a format of its own, one post short of a sample.
Few ==
  {Group("MONEY", "REEL", 4, Post(1000, 1, 9)), Group("AI", "CAROUSEL", 4, Post(1000, 2, 0)),
   Group("SPORTS", "STORY", 4, Post(Null, 1, 0))}

MCHistories ==
  {{}, Few, Week(20, "REEL"),
   {Group("AI", "CAROUSEL", 5, Post(1000, 0, 9)), Group("AI", "REEL", 60, Post(1000, 1, 1))},
   Week(5, "REEL") \cup {Group("NEWS", "CAROUSEL", 60, Post(1000, 0, 9))},
   Week(5, "REEL") \cup {Group("NEWS", "STORY", 20, Post(0, 5, 5))}}

MCWeightings == {DefaultWeights, DriftedWeights}
MCMixes == {DefaultMix}
=============================================================================
