------------------------------ MODULE MCBacklog ------------------------------
(* The backlog under the schema's default settings, for TLC.               *)
EXTENDS Backlog

DefaultConfigs == {[min |-> 24, target |-> 72, max |-> 168, posts |-> 8]}
SmallConfigs ==
  {[min |-> 2, target |-> 6, max |-> 8, posts |-> 24],
   [min |-> 4, target |-> 3, max |-> 5, posts |-> 1]}
=============================================================================
