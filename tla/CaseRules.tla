------------------------------ MODULE CaseRules ------------------------------
(***************************************************************************)
(* The moderation package's rules about reports and cases: the policy of a *)
(* report's reason, the two machines, and what a case opens on.            *)
(***************************************************************************)
EXTENDS Integers

Priorities == <<"low", "normal", "high", "urgent">>

(* REPORT_REASON_POLICY: the priority of a reason.                            *)
PriorityOf ==
    [harassment |-> "normal", hate_or_discrimination |-> "high", threats_or_violence |-> "urgent",
     sexual_content |-> "normal", non_consensual_intimacy |-> "urgent", minor_safety |-> "urgent",
     unsafe_contact |-> "high", scam_or_solicitation |-> "normal", impersonation |-> "high",
     fake_or_misleading_profile |-> "low", spam |-> "low", other |-> "normal"]
ReportReasons == DOMAIN PriorityOf

-----------------------------------------------------------------------------
ReportStates == {"submitted", "triaged", "merged", "actioned", "dismissed", "escalated"}

MayMoveReport(state, event, named, decided) ==
    \/ event = "triage" /\ state = "submitted"
    \/ event = "merge" /\ state = "triaged" /\ named
    \/ event \in {"action", "dismiss"} /\ state \in {"triaged", "escalated"} /\ named /\ decided
    \/ event = "escalate" /\ state = "triaged" /\ named

ReportTo == [triage |-> "triaged", merge |-> "merged", action |-> "actioned",
             dismiss |-> "dismissed", escalate |-> "escalated"]

-----------------------------------------------------------------------------
CaseStates == {"open", "assigned", "in_review", "escalated", "resolved"}

MayMoveCase(state, event, named, reasoned, decided) ==
    /\ named
    /\ \/ event = "assign" /\ state \in {"open", "assigned", "escalated"}
       \/ event = "start_review" /\ state = "assigned"
       \/ event = "escalate" /\ state \in {"open", "assigned", "in_review"} /\ reasoned
       \/ event = "resolve" /\ state # "resolved" /\ decided
       \/ event = "reopen" /\ state = "resolved" /\ reasoned

CaseTo == [assign |-> "assigned", start_review |-> "in_review", escalate |-> "escalated",
           resolve |-> "resolved", reopen |-> "open"]

CanWorkCase(state, lead, automated) == ~automated /\ (state = "escalated" => lead)

(* recordDecision assigns the case, starts its review and resolves it.        *)
MayBeDecided(state, lead, automated) ==
    /\ CanWorkCase(state, lead, automated)
    /\ MayMoveCase(state, "assign", TRUE, FALSE, FALSE)
    /\ MayMoveCase(CaseTo["assign"], "start_review", TRUE, FALSE, FALSE)
    /\ MayMoveCase(CaseTo["start_review"], "resolve", TRUE, FALSE, TRUE)

-----------------------------------------------------------------------------
(* What a case is opened from.  The safety recorder opens the last two.       *)
Origins == {"user_report", "trust_safety_review", "mass_report_campaign"}

PriorityByRisk == [normal |-> "low", elevated |-> "normal", high |-> "high", critical |-> "urgent"]
MassReportPriority == "high"

(* openCase on a report triaged a moment before, in memory.                   *)
MayOpenFrom(reportState) ==
    /\ MayMoveReport(reportState, "triage", TRUE, FALSE)
    /\ ReportTo["triage"] = "triaged"
=============================================================================
