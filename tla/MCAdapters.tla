----------------------------- MODULE MCAdapters -----------------------------
(* The adapters for TLC: one job of each format on each platform.          *)
EXTENDS Adapters

MCPiece(format, slides, mime) ==
  [format |-> format, caption |-> 100, hashtags |-> 5, slides |-> slides,
   media |-> {Media("IMAGE", mime, 1080, 1350, IF format = "REEL" THEN 90 ELSE 0, 2,
                    "public")}]

\* A carousel of two slides and one unrendered, a reel longer than some
\* creators may post, an image; at once, in 5 minutes, in 30 minutes.
MCPostInputs ==
  [platform : Platforms,
   piece : {MCPiece("CAROUSEL", <<"public", "unrendered", "public">>, "jpeg"),
            MCPiece("REEL", <<>>, "mp4"),
            MCPiece("IMAGE", <<>>, "jpeg")},
   scheduledAt : {0, 5, 30}]
=============================================================================
