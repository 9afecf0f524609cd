---------------------------- MODULE ProfileRules -----------------------------
(***************************************************************************)
(* What the platform's media machine does with a screening verdict, and    *)
(* what the dating domain makes of a profile's contents.  No caller of the *)
(* service names a reviewer, so the moves that need one are never taken.   *)
(***************************************************************************)
EXTENDS Naturals, FiniteSets

(* mediaMachine: a verdict is clean, inconclusive or one of the refusals.     *)
MediaStates == {"initiated", "scanning", "needs_human", "approved", "rejected"}
ScanVerdicts == {"clean", "inconclusive", "malware", "sexual_content", "unreadable"}
Refusals == ScanVerdicts \ {"clean", "inconclusive"}

EventByVerdict ==
    [v \in ScanVerdicts |-> CASE v = "clean" -> "approve"
                              [] v = "inconclusive" -> "escalate"
                              [] OTHER -> "reject"]

MediaTo == [begin_scan |-> "scanning", escalate |-> "needs_human", approve |-> "approved",
            reject |-> "rejected", reprocess |-> "initiated"]

MayMoveMedia(state, event, verdict, reasoned, reviewed) ==
    \/ event = "begin_scan" /\ state = "initiated"
    \/ event = "escalate" /\ state = "scanning" /\ verdict = "inconclusive"
    \/ event = "approve" /\ state = "scanning" /\ verdict = "clean"
    \/ event = "approve" /\ state = "needs_human" /\ reviewed
    \/ event = "reject" /\ state = "scanning" /\ verdict \in Refusals /\ reasoned
    \/ event = "reject" /\ state = "needs_human" /\ reviewed /\ reasoned
    \/ event = "reprocess" /\ state = "rejected" /\ reviewed

-----------------------------------------------------------------------------
(* profileMachine: pause, hide and delete have no caller in the service.      *)
ProfileStates == {"draft", "incomplete", "complete", "paused", "hidden", "deleted"}

MayMoveProfile(state, event, requirementsMet) ==
    \/ event = "mark_complete" /\ state # "deleted" /\ requirementsMet
    \/ event = "mark_incomplete" /\ state # "deleted" /\ ~requirementsMet
    \/ event = "pause" /\ state \in {"incomplete", "complete"}
    \/ event = "hide" /\ state \in {"incomplete", "complete", "paused"}
    \/ event = "delete" /\ state # "deleted"

ProfileTo == [mark_complete |-> "complete", mark_incomplete |-> "incomplete",
              pause |-> "paused", hide |-> "hidden", delete |-> "deleted"]

(* evaluateProfileCompleteness: what a profile is still missing.  written is  *)
(* the set of written parts that meet their limits.                           *)
WrittenParts == {"display_name", "bio", "prompt", "gender_identities", "age", "location"}
MinPhotos == 1
Missing(written, approved) ==
    (WrittenParts \ written)
    \cup {field \in {"photos"} : Cardinality(approved) < MinPhotos}
IsComplete(written, approved) == Missing(written, approved) = {}
=============================================================================
