------------------------------ MODULE Lifecycle ------------------------------
(***************************************************************************)
(* The content lifecycle of packages/contracts: the statuses of a content  *)
(* piece and the table of legal moves between them.  The table is data:    *)
(* only the two API routes that call assertTransition are held to it.      *)
(***************************************************************************)

ContentStatus ==
  {"DISCOVERED", "RESEARCHING", "RESEARCHED", "WRITING", "DESIGNING", "QA",
   "APPROVED", "SCHEDULED", "PUBLISHING", "PUBLISHED", "ANALYZING", "LEARNED",
   "FLAGGED", "FAILED", "ARCHIVED"}

\* allowedTransitions(from)
Transitions ==
  [DISCOVERED  |-> {"RESEARCHING", "FLAGGED", "ARCHIVED"},
   RESEARCHING |-> {"RESEARCHED", "FAILED", "FLAGGED", "ARCHIVED"},
   RESEARCHED  |-> {"WRITING", "FLAGGED", "ARCHIVED"},
   WRITING     |-> {"DESIGNING", "QA", "FAILED", "FLAGGED", "ARCHIVED"},
   DESIGNING   |-> {"QA", "FAILED", "FLAGGED", "ARCHIVED"},
   QA          |-> {"APPROVED", "DESIGNING", "WRITING", "FLAGGED", "FAILED",
                    "ARCHIVED"},
   APPROVED    |-> {"SCHEDULED", "PUBLISHING", "FLAGGED", "ARCHIVED"},
   SCHEDULED   |-> {"PUBLISHING", "APPROVED", "FLAGGED", "ARCHIVED"},
   PUBLISHING  |-> {"PUBLISHED", "FAILED", "FLAGGED"},
   PUBLISHED   |-> {"ANALYZING", "ARCHIVED"},
   ANALYZING   |-> {"LEARNED", "ARCHIVED"},
   LEARNED     |-> {"ARCHIVED"},
   FLAGGED     |-> {"WRITING", "DESIGNING", "QA", "APPROVED", "ARCHIVED"},
   FAILED      |-> {"WRITING", "DESIGNING", "QA", "ARCHIVED"},
   ARCHIVED    |-> {}]

CanTransition(from, to) == to \in Transitions[from]

NonPublishable ==
  {"DISCOVERED", "RESEARCHING", "RESEARCHED", "WRITING", "DESIGNING", "QA",
   "FLAGGED", "FAILED", "ARCHIVED"}

\* Fault seeded for the mutation check: the exception queue is forgotten.
IsPublishableOrFlagged(s) == s \notin NonPublishable \ {"FLAGGED"}

IsPublishable(s) == s \notin NonPublishable
===============================================================================
