----------------------------- MODULE StaffRules ------------------------------
(***************************************************************************)
(* What a role may do and see: the permissions, clearances and protected   *)
(* actions of platform/src/authz.ts, and the evidence gate of the          *)
(* moderation package that reads the appointment a role carries.           *)
(***************************************************************************)
EXTENDS Integers, Sequences, SequencesExt

StaffRoles == {"moderator", "senior_moderator", "support", "identity_privacy_officer"}
Roles == StaffRoles \cup {"user", "system"}

Deciding == {"case.decide.restriction", "case.decide.suspension", "case.decide.ban"}
Permissions ==
    [user |-> {"discovery.read", "profile.write.own", "media.read.own", "auth.recover.own"},
     moderator |-> Deciding \cup {"media.read.reported", "case.open", "case.read",
                                  "case.evidence.read"},
     senior_moderator |-> Deciding \cup {"media.read.reported", "case.open", "case.read",
                                         "case.evidence.read", "case.decide.lift_ban",
                                         "audit.read.restricted"},
     support |-> {"support.session.read", "audit.read.internal"},
     system |-> {"system.integration.call", "audit.read.internal"},
     identity_privacy_officer |-> {"case.read", "case.evidence.read", "identity.evidence.read"}]

Sensitivities == <<"public", "user", "internal", "sensitive", "restricted">>
Clearance ==
    [user |-> "user", support |-> "internal", moderator |-> "sensitive",
     senior_moderator |-> "restricted", system |-> "internal",
     identity_privacy_officer |-> "sensitive"]

WithinClearance(upTo, sensitivity) ==
    \E i, j \in DOMAIN Sensitivities :
        i <= j /\ Sensitivities[i] = sensitivity /\ Sensitivities[j] = upTo

(* The protected actions the routes ask for.                                  *)
Needs(permission, clearance, case, moderator) ==
    [permission |-> permission, clearance |-> clearance, case |-> case, moderator |-> moderator]
ProtectedActions ==
    [open |-> Needs("case.open", "sensitive", FALSE, TRUE),
     list |-> Needs("case.read", "sensitive", FALSE, FALSE),
     read |-> Needs("case.evidence.read", "sensitive", TRUE, FALSE),
     decide |-> Needs("case.decide.ban", "sensitive", TRUE, TRUE)]

Authorize(role, action, hasCase, hasModerator) ==
    LET spec == ProtectedActions[action] IN
    /\ spec.permission \in Permissions[role]
    /\ WithinClearance(Clearance[role], spec.clearance)
    /\ spec.case => hasCase
    /\ spec.moderator => hasModerator

-----------------------------------------------------------------------------
(* Evidence *)

IsLead(role) == role = "senior_moderator"
IsPrivacyOfficer(role) == role = "identity_privacy_officer"

ReviewerClearances == <<"reviewer", "escalated_reviewer", "lead", "identity_privacy_officer">>
ClearanceFor(role) == CASE IsPrivacyOfficer(role) -> "identity_privacy_officer"
                        [] IsLead(role) -> "lead"
                        [] OTHER -> "reviewer"

EvidenceKinds ==
    {"message_snapshot", "conversation_snapshot", "profile_snapshot", "photo_snapshot",
     "report_statement", "risk_assessment", "account_history", "moderator_note",
     "device_signal", "ip_or_location", "identity_anomaly", "identity_artefact"}
AccessFor(kind) ==
    CASE kind \in {"identity_anomaly", "identity_artefact"} -> "identity_privacy_officer"
      [] kind \in {"device_signal", "ip_or_location"} -> "escalated_reviewer"
      [] OTHER -> "reviewer"

Visibilities == {"full", "redacted", "denied"}

(* What a reader sees of a record: an identity record is redacted to all but  *)
(* the privacy officer, another is denied below its rung of the ladder.       *)
ViewOf(role, kind) ==
    LET rank(c) == CHOOSE i \in DOMAIN ReviewerClearances : ReviewerClearances[i] = c
        access == AccessFor(kind)
    IN  CASE access = "identity_privacy_officer" ->
                IF IsPrivacyOfficer(role) THEN "full" ELSE "redacted"
          [] rank(ClearanceFor(role)) >= rank(access) -> "full"
          [] OTHER -> "denied"
=============================================================================
