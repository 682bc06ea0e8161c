------------------------------- MODULE MCDesk -------------------------------
(* The desk for TLC: stories and hooks of which two are alike, each kind of  *)
(* excerpt and verdict, scripts within and over the limits.                 *)
EXTENDS Desk

Hook(text, truthfulness, composite) ==
  [text |-> text, truthfulness |-> truthfulness, composite |-> composite]

MCHooks == {Hook("bold", 69, 95), Hook("plain", 90, 60),
            Hook("plainer", 80, 50), Hook("odd", 70, 60)}
MCStories == {"merger", "merged", "record"}
MCAlike == {{"merger", "merged"}, {"plain", "plainer"}}
MCDrafts == {[text |-> "a", excerpt |-> "quoted"], [text |-> "b", excerpt |-> "invented"],
             [text |-> "b", excerpt |-> "opening"]}
MCVerdicts == [verification : {"VERIFIED"}, sure : BOOLEAN]
                \cup [verification : {"PARTIALLY_VERIFIED", "CONTRADICTED"}, sure : {TRUE}]
MCConnected == {{"INSTAGRAM"}, {"TIKTOK", "FACEBOOK"}}
MCCarousels == {<<"HOOK", "POINT", "POINT", "CTA">>, [i \in 1..10 |-> "POINT"]}
MCReels == {<<300, 900, 400>>, <<3000, 3000, 3000, 2000>>}
=============================================================================
