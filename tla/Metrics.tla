------------------------------- MODULE Metrics -------------------------------
(***************************************************************************)
(* What is measured of posts: each platform's answer brought into one      *)
(* form, the records that collection adds, pass after pass, and the        *)
(* summary the dashboard shows of them.                                    *)
(*                                                                         *)
(* Unknown stands for null.  Ratios and raw answers are left out, and so   *)
(* is a metric that no summary reads.  Which posts are collected, and what *)
(* that does to rows and accounts, is in Publishing and Accounts.          *)
(***************************************************************************)
EXTENDS Integers, Sequences, FiniteSetsExt

CONSTANTS
  Numbers,     \* numbers a platform may report
  MaxRecords   \* answers collected

Networks == {"INSTAGRAM", "TIKTOK", "FACEBOOK"}
Keys     == {"views", "reach", "likes", "comments", "shares", "saves", "followsGained"}

ASSUME MetricsAssumption == Numbers \subseteq Nat /\ MaxRecords \in Nat

Unknown == -1

\* An answer: the metrics a platform reports, by its own names.
Named(platform) ==
  CASE platform = "INSTAGRAM" -> {"views", "reach", "likes", "comments", "shares", "saved"}
    [] platform = "TIKTOK"    -> {"view_count", "like_count", "comment_count", "share_count"}
    [] platform = "FACEBOOK"  -> {"post_impressions", "post_impressions_unique",
                                  "post_reactions_by_type_total"}

Reports(platform) == UNION {[reported -> Numbers] : reported \in SUBSET Named(platform)}

\* Fault seeded for the mutation check: what was not reported counts as nothing done.
ValueOrZero(answer, name) == IF name \in DOMAIN answer THEN answer[name] ELSE 0

Value(answer, name) == IF name \in DOMAIN answer THEN answer[name] ELSE Unknown

\* Their one form; none of the three reports follows.
Normal(views, reach, likes, comments, shares, saves) ==
  [views |-> views, reach |-> reach, likes |-> likes, comments |-> comments,
   shares |-> shares, saves |-> saves, followsGained |-> Unknown]

FromInstagram(answer) ==
  LET Got(name) == Value(answer, name)
  IN Normal(Got("views"), Got("reach"), Got("likes"), Got("comments"), Got("shares"),
            Got("saved"))

\* The Display API has neither reach nor saves.
FromTikTok(answer) ==
  LET Got(name) == Value(answer, name)
  IN Normal(Got("view_count"), Unknown, Got("like_count"), Got("comment_count"),
            Got("share_count"), Unknown)

\* Impressions stand for views, and reactions for likes.
FromFacebook(answer) ==
  LET Got(name) == Value(answer, name)
  IN Normal(Got("post_impressions"), Got("post_impressions_unique"),
            Got("post_reactions_by_type_total"), Unknown, Unknown, Unknown)

getAnalytics(platform, answer) ==
  CASE platform = "INSTAGRAM" -> FromInstagram(answer)
    [] platform = "TIKTOK"    -> FromTikTok(answer)
    [] platform = "FACEBOOK"  -> FromFacebook(answer)

\* unavailableMetrics, as far as they name a metric of the summary.
unavailableMetrics(platform) ==
  CASE platform = "INSTAGRAM" -> {}
    [] platform = "TIKTOK"    -> {"reach", "saves", "followsGained"}
    [] platform = "FACEBOOK"  -> {"saves", "followsGained"}

-----------------------------------------------------------------------------

VARIABLE records   \* [platform, metrics], in the order they were collected

MetricsTypeOK ==
  records \in Seq([platform : Networks, metrics : [Keys -> Numbers \cup {Unknown}]])

MetricsInit == records = <<>>

\* A post's metrics are asked for and kept; a later pass keeps those of the same post
\* once more.
Collect ==
  /\ Len(records) < MaxRecords
  /\ \E platform \in Networks : \E answer \in Reports(platform) :
       records' = Append(records, [platform |-> platform,
                                   metrics  |-> getAnalytics(platform, answer)])

MetricsSpec == MetricsInit /\ [][Collect]_records

-----------------------------------------------------------------------------
(* AnalyticsService.summary                                                *)

\* The sum of a metric over the records that have it, or Unknown if none has.
Sum(key, rows) ==
  LET present == {i \in rows : records[i].metrics[key] # Unknown}
  IN IF present = {} THEN Unknown
     ELSE SumFunction([i \in present |-> records[i].metrics[key]])

Measured   == {records[i].platform : i \in DOMAIN records}
totals     == [k \in Keys |-> Sum(k, DOMAIN records)]
byPlatform ==
  [p \in Measured |->
     [k \in {"views", "reach"} |-> Sum(k, {i \in DOMAIN records : records[i].platform = p})]]

-----------------------------------------------------------------------------
(* Properties.                                                             *)

\* "never as 0": the summary shows no number, of a platform or in total, for a metric
\* that, it says beside, no platform there is to sum could supply; and a zero only if
\* platforms report zeros.
SummaryShowsNoInventedNumber ==
  /\ \A k \in Keys :
       (\A p \in Measured : k \in unavailableMetrics(p)) => totals[k] = Unknown
  /\ \A p \in Measured, k \in {"views", "reach"} :
       k \in unavailableMetrics(p) => byPlatform[p][k] = Unknown
  /\ 0 \notin Numbers => \A k \in Keys : totals[k] # 0
=============================================================================
