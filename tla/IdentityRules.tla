---------------------------- MODULE IdentityRules ----------------------------
(***************************************************************************)
(* The identity package's rules for one verification attempt: its machine  *)
(* (verification-request.ts) and what a provider's result decides          *)
(* (likeness.ts).                                                          *)
(***************************************************************************)
EXTENDS Sequences, IdentityMachine

Checks == {"document_authenticity", "liveness", "likeness", "document_to_selfie_match",
           "age_consistency"}
REQUIRED_CHECKS == {"document_authenticity", "liveness", "likeness"}
CheckOutcomes == {"passed", "failed", "inconclusive", "not_performed"}
Severities == {"none", "informational", "review", "blocking"}

(* A result: its confidence and, of the checks it reports, their outcomes.   *)
ConfidenceBand(confidence) ==
    CASE confidence \notin 0..100 -> "unusable"
      [] confidence \in 0..54 -> "insufficient"
      [] confidence \in 55..(VerifiedFloor - 1) -> "borderline"
      [] confidence \in VerifiedFloor..100 -> "sufficient"

MissingChecks(result) == REQUIRED_CHECKS \ DOMAIN result.checks
Unresolved(result) ==
    MissingChecks(result) \cup
        {c \in REQUIRED_CHECKS \cap DOMAIN result.checks :
            result.checks[c] \in {"inconclusive", "not_performed"}}
FailedChecks(result) ==
    {c \in REQUIRED_CHECKS \cap DOMAIN result.checks : result.checks[c] = "failed"}

(* anomaly is the worst finding; the order of the cases is the code's.       *)
DecideVerificationOutcome(result, anomaly) ==
    LET band == ConfidenceBand(result.confidence)
    IN  CASE \/ band = "unusable"
             \/ anomaly = "blocking"
             \/ Unresolved(result) # {} -> "manual_review"
          [] FailedChecks(result) # {} ->
                 IF band = "sufficient" THEN "manual_review" ELSE "fail"
          [] band = "insufficient" -> "fail"
          [] band = "borderline" \/ anomaly = "review" -> "manual_review"
          [] OTHER -> "pass"

(* The confidence the identity machine is given. *)
ConfidenceOf(result) ==
    IF ConfidenceBand(result.confidence) = "unusable" THEN 0 ELSE result.confidence

-----------------------------------------------------------------------------
(* The attempt machine *)

LiveAttempt == {"initiated", "capturing", "awaiting_provider"}
TerminalAttempt == {"passed", "failed", "expired"}
AttemptStates == LiveAttempt \cup TerminalAttempt \cup {"manual_review"}
IsOpenAttempt(state) == state \notin TerminalAttempt

AttemptMoves ==
    [begin_capture |-> IdentityMove({"initiated"}, "capturing"),
     record_capture |-> IdentityMove({"capturing"}, "capturing"),
     submit_to_provider |-> IdentityMove({"capturing"}, "awaiting_provider"),
     result_passed |-> IdentityMove({"awaiting_provider"}, "passed"),
     result_failed |-> IdentityMove({"awaiting_provider"}, "failed"),
     result_inconclusive |-> IdentityMove({"awaiting_provider"}, "manual_review"),
     review_cleared |-> IdentityMove({"manual_review"}, "passed"),
     review_confirmed_fraud |-> IdentityMove({"manual_review"}, "failed"),
     expire |-> IdentityMove(LiveAttempt, "expired"),
     withdraw |-> IdentityMove(LiveAttempt, "expired")]

AttemptEventOf == [pass |-> "result_passed", fail |-> "result_failed",
                   manual_review |-> "result_inconclusive"]
IdentityEventOf == [pass |-> "provider_result_received", fail |-> "fail",
                    manual_review |-> "flag_for_review"]

(* captured is what submitToProvider has to show; decision and reviewed are  *)
(* what the other guards look at.                                            *)
MayMoveAttempt(state, event, captured, decision, reviewed) ==
    /\ state \in AttemptMoves[event].from
    /\ event = "submit_to_provider" => REQUIRED_CHECKS \subseteq captured
    /\ \A d \in DOMAIN AttemptEventOf : event = AttemptEventOf[d] => decision = d
    /\ event \in {"review_cleared", "review_confirmed_fraud"} => reviewed

-----------------------------------------------------------------------------
(* Repeated failure *)

ConsecutiveFailuresBeforeReview == 3

(* attempts: the states of an account's attempts, newest last.               *)
TrailingFailures(attempts) ==
    {i \in DOMAIN attempts : \A j \in i..Len(attempts) : attempts[j] = "failed"}
EscalateAfterRepeatedFailure_Any(attempts) ==   \* mutant: whatever came before counts, twice
    /\ TrailingFailures(attempts) # {}
    /\ Len(attempts) + 1 >= ConsecutiveFailuresBeforeReview
EscalateAfterRepeatedFailure(attempts) ==
    \E i \in TrailingFailures(attempts) :
        Len(attempts) - i + 1 >= ConsecutiveFailuresBeforeReview
=============================================================================
