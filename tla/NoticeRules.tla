----------------------------- MODULE NoticeRules -----------------------------
(***************************************************************************)
(* What the platform decides about one notice: the catalogue of kinds and  *)
(* the plan that a request for a notice is turned into.  Bodies and the    *)
(* facts they may bind are left out.  Times are minutes of the recipient's *)
(* own week, counted from Sunday midnight, in a week without a change of   *)
(* daylight saving.                                                        *)
(***************************************************************************)
EXTENDS Integers

Channels == {"in_app", "email", "push"}
Modes == {"immediate", "digest", "opt_in", "off"}
Use(inApp, email, push) == [in_app |-> inApp, email |-> email, push |-> push]
Everywhere == Use("immediate", "immediate", "immediate")
MailOnly == Use("off", "immediate", "off")
MailInDigests == Use("immediate", "digest", "immediate")

Kind(category, critical, pairScoped, channels) ==
    [category |-> category, critical |-> critical, pairScoped |-> pairScoped,
     channels |-> channels]
Verdict == Kind("verification", TRUE, FALSE, Everywhere)
OwnAccount(channels) == Kind("account", TRUE, FALSE, channels)
AboutAPair(category, channels) == Kind(category, FALSE, TRUE, channels)

OnOwnAccount == {"account.restriction.applied", "account.suspended", "account.reinstated",
                 "login.new_device", "account.recovery_completed",
                 "account.signed_out_all_devices"}
OutsideTheApp == {"account.banned", "account.recovery", "account.deletion_completed"}
OfMatches == {"match.created", "match.ended_by_other"}
OfVerification == {"verification.passed", "verification.failed", "verification.rate_limited",
                   "verification.review_required", "verification.expired"}
OfModeration == {"moderation.warning_issued", "appeal.resolved"}

NotificationKinds ==
    [kind \in OnOwnAccount \cup OutsideTheApp \cup OfMatches \cup OfVerification \cup OfModeration
               \cup {"message.received", "message.digest", "like.received",
                     "account.recovery_paused", "report.received", "discovery.weekly_digest"} |->
       CASE kind \in OnOwnAccount -> OwnAccount(Everywhere)
         [] kind \in OutsideTheApp -> OwnAccount(MailOnly)
         [] kind \in OfMatches -> AboutAPair("match", MailInDigests)
         [] kind \in OfVerification -> Verdict
         [] kind \in OfModeration -> Kind("safety", TRUE, FALSE, Everywhere)
         [] kind = "message.received" -> AboutAPair("message", MailInDigests)
         [] kind = "message.digest" -> AboutAPair("message", Use("off", "digest", "off"))
         [] kind = "like.received" -> AboutAPair("like", Use("immediate", "off", "opt_in"))
         [] kind = "account.recovery_paused" -> OwnAccount(Use("immediate", "immediate", "off"))
         [] kind = "report.received" ->
                Kind("safety", FALSE, FALSE, Use("immediate", "immediate", "off"))
         [] kind = "discovery.weekly_digest" ->
                Kind("system", FALSE, FALSE, Use("immediate", "digest", "off"))]

Cadence(kind) == IF kind = "discovery.weekly_digest" THEN "weekly" ELSE "hourly"

(* The opt-in a person has before choosing any: what the catalogue uses.      *)
DefaultOptIn(category) ==
    {c \in Channels : \E k \in DOMAIN NotificationKinds :
         /\ NotificationKinds[k].category = category
         /\ NotificationKinds[k].channels[c] \in {"immediate", "digest"}}

NonSuppressibleCategories == {"verification"}
Critical(spec) == spec.critical \/ spec.category \in NonSuppressibleCategories

-----------------------------------------------------------------------------
(* When *)

Day == 1440
QuietHours == [enabled : BOOLEAN, start : 0..23, end : 0..23]
AlwaysOn == [enabled |-> FALSE, start |-> 0, end |-> 0]

(* Start inclusive, end exclusive; a window may span midnight.                *)
IsWithinQuietHours(quiet, at) ==
    LET minute == at % Day
        begun == minute >= quiet.start * 60
        over == minute >= quiet.end * 60
    IN /\ quiet.enabled
       /\ IF quiet.start <= quiet.end THEN begun /\ ~over ELSE begun \/ ~over

EndOfQuietHours(quiet, at) == at + ((quiet.end * 60 - (at % Day) + Day) % Day)

NextDigestBoundary(cadence, digest, at) ==
    IF cadence = "hourly" THEN at + (60 - (at % 60))
    ELSE LET minute == at % Day
             today == (at \div Day) % 7
             days == (digest.dayOfWeek - today + 7) % 7
             wait == IF days = 0 /\ digest.hour * 60 <= minute THEN 7 ELSE days
         IN at + wait * Day + digest.hour * 60 - minute

Delivery(kind, spec, channel, preference, at) ==
    IF spec.channels[channel] = "digest"
      THEN [mode |-> "digest",
            deliverAt |-> NextDigestBoundary(Cadence(kind), preference.digest, at)]
    ELSE IF ~Critical(spec) /\ channel # "in_app" /\ IsWithinQuietHours(preference.quiet, at)
      THEN [mode |-> "deferred", deliverAt |-> EndOfQuietHours(preference.quiet, at)]
    ELSE [mode |-> "immediate", deliverAt |-> at]

-----------------------------------------------------------------------------
(* Whether.  A request states the block edge of its pair or leaves it         *)
(* unstated; preference.optIn gives the channels of each category.            *)

Edges == {"unstated", "blocked", "clear"}
Refused == [outcome |-> "refused"]
Suppressed(reason) == [outcome |-> "suppressed", reason |-> reason]
Planned(delivery) == [outcome |-> "planned", mode |-> delivery.mode,
                      deliverAt |-> delivery.deliverAt]

PlanNotification(kind, channel, edge, preference, available, at) ==
    LET spec == NotificationKinds[kind] IN
    IF \/ kind \notin DOMAIN NotificationKinds
       \/ spec.channels[channel] = "off"
       \/ spec.pairScoped # (edge # "unstated")
      THEN Refused
    ELSE IF edge = "blocked" THEN Suppressed("block_separation")
    ELSE IF channel \notin available THEN Suppressed("channel_unavailable")
    ELSE IF ~Critical(spec) /\ channel \notin preference.optIn[spec.category]
      THEN Suppressed("channel_muted")
    ELSE Planned(Delivery(kind, spec, channel, preference, at))
=============================================================================
