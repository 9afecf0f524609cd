----------------------------- MODULE MCCaseDesk ------------------------------
(* Instances of CaseDesk.  Staff, sessions, reports, cases and request slots  *)
(* are interchangeable.                                                       *)
EXTENDS CaseDesk, TLC

(* What a case opens on has a place in the queue, and a record of identity    *)
(* evidence is shown whole to the privacy officer alone.                      *)
ASSUME PrioritiesAreKnown ==
    /\ {PriorityOf[x] : x \in ReportReasons} \subseteq ToSet(Priorities)
    /\ {PriorityByRisk[s] : s \in DOMAIN PriorityByRisk} \cup {MassReportPriority}
           \subseteq ToSet(Priorities)
ASSUME EvidenceIsGuarded ==
    \A role \in Roles, kind \in EvidenceKinds :
        /\ ViewOf(role, kind) \in Visibilities
        /\ AccessFor(kind) = "identity_privacy_officer" =>
               (ViewOf(role, kind) = "full" <=> IsPrivacyOfficer(role))

MCIdentities == {[role |-> "moderator", status |-> "active"],
                 [role |-> "moderator", status |-> "suspended"],
                 [role |-> "support", status |-> "active"]}

MCSymmetry == Permutations(Staff) \cup Permutations(Sessions) \cup Permutations(Reports)
              \cup Permutations(Cases) \cup Permutations(Requests)
=============================================================================
