---------------------------- MODULE PlatformCall ----------------------------
(***************************************************************************)
(* What PlatformAdapter.createPost promises its caller, whatever the       *)
(* platform: a call that returns has made exactly one post, a call that    *)
(* is refused has made none and never will, and a call that ends unsure    *)
(* makes at most one, possibly after the caller has been told.             *)
(***************************************************************************)
EXTENDS Naturals

CONSTANT Calls   \* calls for one publishing job, numbered by its attempts

VARIABLES
  outcome,   \* call -> "none" | "open" | "accepted" | "refused" | "unsure"
  post       \* call -> posts the platform has made for it

callVars == <<outcome, post>>

CallTypeOK ==
  /\ outcome \in [Calls -> {"none", "open", "accepted", "refused", "unsure"}]
  /\ post \in [Calls -> Nat]

CallInit ==
  /\ outcome = [c \in Calls |-> "none"]
  /\ post = [c \in Calls |-> 0]

\* The job's attempts are made one after the other, and none after a success.
Open(c) ==
  /\ outcome[c] = "none"
  /\ \A b \in Calls : b < c => outcome[b] \in {"refused", "unsure"}
  /\ outcome' = [outcome EXCEPT ![c] = "open"]
  /\ UNCHANGED post

\* The platform makes the post: while the call is open, or later if unsure.
Appear(c) ==
  /\ outcome[c] \in {"open", "unsure"}
  /\ post[c] = 0
  /\ post' = [post EXCEPT ![c] = 1]
  /\ UNCHANGED outcome

\* The answer may come in the same step as the post.
Accept(c) ==
  /\ outcome[c] = "open"
  /\ outcome' = [outcome EXCEPT ![c] = "accepted"]
  /\ post' = [post EXCEPT ![c] = 1]

Refuse(c) ==
  /\ outcome[c] = "open"
  /\ post[c] = 0
  /\ outcome' = [outcome EXCEPT ![c] = "refused"]
  /\ UNCHANGED post

Lose(c) ==
  /\ outcome[c] = "open"
  /\ outcome' = [outcome EXCEPT ![c] = "unsure"]
  /\ \/ UNCHANGED post
     \/ post[c] = 0 /\ post' = [post EXCEPT ![c] = 1]

CallNext ==
  \E c \in Calls : Open(c) \/ Appear(c) \/ Accept(c) \/ Refuse(c) \/ Lose(c)

CallSpec == CallInit /\ [][CallNext]_callVars
=============================================================================
