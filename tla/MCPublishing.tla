---------------------------- MODULE MCPublishing ----------------------------
(***************************************************************************)
(* Small instances of Publishing for TLC, and what comments of the code    *)
(* say of publishing where the code does otherwise: each of the latter is  *)
(* refuted by a run of its own.                                            *)
(***************************************************************************)
EXTENDS Publishing, TLC

\* Executor slots and callers are interchangeable.
Symmetry == Permutations(Workers) \cup Permutations(Clients)

-----------------------------------------------------------------------------

\* "A retryable failure returns to SCHEDULED so the worker picks it up again": a
\* row that has been tried does not stay SCHEDULED for ever.
RetryableFailureIsPickedUp ==
  \A j \in Jobs : row[j].status = "SCHEDULED" /\ row[j].attempts > 0
                   ~> row[j].status # "SCHEDULED"

\* "hand it over and let Facebook do the waiting": a row left to the platform
\* reaches the platform, unless it fails or is cancelled first.
DelegatedIsHandedOver ==
  \A j \in Jobs : row[j].delegated
    ~> posts[j] > 0 \/ row[j].status \in {"FAILED", "CANCELLED"}

\* "On boot — and periodically after — every job that should have a timer gets one re-armed
\* from the database": a row that waits for publishing does not wait for ever without one.
TimersComeBack ==
  \A j \in Jobs : row[j].status \in Waiting /\ ~row[j].delegated
    ~> row[j].status \notin Waiting \/ timer[j].state # "none"

\* "checked at job start AND again immediately before every publish": no executor turns to
\* the platform while a stop is engaged.
NothingIsSentUnderAStop ==
  [][\A w \in Workers :
       exec'[w].pc = "send" /\ exec[w].pc # "send" => stopped = {}]_vars
=============================================================================
