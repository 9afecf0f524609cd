---------------------------- MODULE NoticeProofs -----------------------------
(***************************************************************************)
(* What the plan of a notice guarantees for every preference and every     *)
(* time, and that the owner of an account whose recovery is paused is told *)
(* of it once.                                                             *)
(***************************************************************************)
EXTENDS RecoveryPause, TLAPS

(* A blocked pair hears nothing of each other: whatever kind is asked for,   *)
(* however critical, and whatever the recipient prefers, no plan comes of it. *)
THEOREM BlockedPairHearsNothing ==
    ASSUME NEW kind, NEW channel, NEW preference, NEW available, NEW at
    PROVE  PlanNotification(kind, channel, "blocked", preference, available, at).outcome # "planned"
<1>1. Refused.outcome # "planned"
  BY DEF Refused
<1>2. Suppressed("block_separation").outcome # "planned"
  BY DEF Suppressed
<1> QED
  BY <1>1, <1>2 DEF PlanNotification

(* A critical notice is neither muted nor held: if its kind is used for the  *)
(* channel at once and the account has the channel, it is planned for now,   *)
(* whatever the recipient has switched off and whatever hours are quiet.     *)
THEOREM CriticalGetsThrough ==
    ASSUME NEW kind \in DOMAIN NotificationKinds, NEW channel \in Channels,
           NEW preference, NEW available, NEW at,
           Critical(NotificationKinds[kind]), ~NotificationKinds[kind].pairScoped,
           NotificationKinds[kind].channels[channel] = "immediate", channel \in available
    PROVE  PlanNotification(kind, channel, "unstated", preference, available, at)
               = Planned([mode |-> "immediate", deliverAt |-> at])
<1> DEFINE spec == NotificationKinds[kind]
<1>1. Delivery(kind, spec, channel, preference, at) = [mode |-> "immediate", deliverAt |-> at]
  BY DEF Delivery
<1>2. spec.pairScoped = ("unstated" # "unstated")
  BY DEF NotificationKinds, OnOwnAccount, OutsideTheApp, OfMatches, OfVerification, OfModeration,
         OwnAccount, AboutAPair, Verdict, Kind
<1> QED
  BY <1>1, <1>2 DEF PlanNotification

(* The minutes from one minute of the day to the next time it is another.   *)
Gap(from, to) == IF to > from THEN to - from ELSE to - from + 1440

LEMMA GapIsTheRemainder ==
    ASSUME NEW from \in Nat, NEW to \in Nat, from < 1440, to < 1440, from # to
    PROVE  (to - from + 1440) % 1440 = Gap(from, to)
BY DEF Gap

LEMMA MinuteOfTheDay ==
    ASSUME NEW d \in Int, NEW m \in Nat, m < 1440
    PROVE  (d * 1440 + m) % 1440 = m
OBVIOUS

LEMMA GapEndsThere ==
    ASSUME NEW from \in Nat, NEW to \in Nat, from < 1440, to < 1440, from # to,
           NEW at \in Nat, NEW d \in Int, at = d * 1440 + from
    PROVE  /\ Gap(from, to) \in Nat /\ Gap(from, to) > 0 /\ Gap(from, to) < 1440
           /\ (at + Gap(from, to)) % 1440 = to
<1>1. Gap(from, to) \in Nat /\ Gap(from, to) > 0 /\ Gap(from, to) < 1440
  BY DEF Gap
<1>2. \/ at + Gap(from, to) = d * 1440 + to
      \/ at + Gap(from, to) = (d + 1) * 1440 + to
  BY DEF Gap
<1>3. (at + Gap(from, to)) % 1440 = to
  <2>1. CASE at + Gap(from, to) = d * 1440 + to
    BY <2>1, MinuteOfTheDay
  <2>2. CASE at + Gap(from, to) = (d + 1) * 1440 + to
    BY <2>2, MinuteOfTheDay, d + 1 \in Int
  <2> QED
    BY <1>2, <2>1, <2>2
<1> QED
  BY <1>1, <1>3

(* Quiet hours end: the instant a notice is deferred to is later, at most a  *)
(* day away, and not quiet itself.                                           *)
THEOREM QuietHoursEnd ==
    ASSUME NEW quiet \in QuietHours, NEW at \in Nat, IsWithinQuietHours(quiet, at)
    PROVE  /\ EndOfQuietHours(quiet, at) > at
           /\ EndOfQuietHours(quiet, at) <= at + Day
           /\ ~IsWithinQuietHours(quiet, EndOfQuietHours(quiet, at))
<1>1. PICK from \in Nat : from = at % 1440 /\ from < 1440
  OBVIOUS
<1>2. PICK to \in Nat : to = quiet.end * 60 /\ to < 1440
  BY DEF QuietHours
<1>3. PICK first \in Nat : first = quiet.start * 60 /\ first < 1440
  BY DEF QuietHours
<1>4. quiet.end \in 0..23 /\ quiet.start \in 0..23 /\ quiet.enabled
  BY DEF QuietHours, IsWithinQuietHours
<1>5. IF first <= to THEN from >= first /\ from < to ELSE from >= first \/ from < to
  BY <1>1, <1>2, <1>3, <1>4 DEF IsWithinQuietHours, Day
<1>6. from < 1440 /\ to < 1440 /\ from # to /\ first # to
  BY <1>1, <1>2, <1>5
<1>7. (to - from + 1440) % 1440 = Gap(from, to)
  BY <1>6, GapIsTheRemainder
<1>8. EndOfQuietHours(quiet, at) = at + Gap(from, to)
  BY <1>1, <1>2, <1>7 DEF EndOfQuietHours, Day
<1>9. PICK d \in Int : at = d * 1440 + from
  BY <1>1
<1>10. PICK wait \in Nat : /\ wait = Gap(from, to) /\ wait > 0 /\ wait < 1440
                           /\ (at + wait) % 1440 = to
  BY <1>6, <1>9, GapEndsThere
<1>11. ~IsWithinQuietHours(quiet, at + wait)
  BY <1>2, <1>3, <1>4, <1>6, <1>10 DEF IsWithinQuietHours, Day
<1> QED
  BY <1>8, <1>10, <1>11 DEF Day

-----------------------------------------------------------------------------
(* The pause of an account's recovery, for any sources and any number of     *)
(* requests in flight at once.                                               *)

(* The notice of a pause is always planned: its kind is critical and its     *)
(* channel is one of the account.                                            *)
LEMMA PauseIsPlanned == Notice.outcome = "planned"
<1> DEFINE spec == NotificationKinds["account.recovery_paused"]
<1>1. spec = OwnAccount(Use("immediate", "immediate", "off"))
    BY DEF NotificationKinds, OnOwnAccount, OutsideTheApp, OfMatches, OfVerification,
           OfModeration
<1>2. /\ "account.recovery_paused" \in DOMAIN NotificationKinds
      /\ spec.critical /\ spec.pairScoped = FALSE
      /\ spec.channels[Channel] = "immediate"
    BY <1>1, PauseAssumption
       DEF OwnAccount, Kind, Use, NotificationKinds, OnOwnAccount, OutsideTheApp, OfMatches,
           OfVerification, OfModeration
<1>3. Notice = Planned(Delivery("account.recovery_paused", spec, Channel, Preference, now))
    BY <1>2 DEF Notice, PlanNotification, Critical
<1> QED
    BY <1>3 DEF Planned

LEMMA EndOfTable ==
    ASSUME NEW K, NEW Rows, NEW r \in Requests, NEW table \in [K -> Versions(Rows, Requests)]
    PROVE  /\ Commit(table, r) \in [K -> Versions(Rows, Requests)]
           /\ Rollback(table, r) \in [K -> Versions(Rows, Requests)]
    BY DEF Commit, Rollback, Settled, Versions

PauseTypes ==
    /\ now \in Times
    /\ notices \in [Days -> Versions({"planned", "suppressed", None}, Requests)]
    /\ req \in [Requests -> RequestState]
    /\ told \in [Days -> 0..2]

(* What a request has of the notice at each place: nothing before the claim, *)
(* the row from the claim to the end, and the message from the relay on.     *)
Unclaimed == {"idle", "lock_source", "count_source", "count_account"}
ClaimOK(q) ==
    /\ q.at # "idle" => q.source \in Sources
    /\ q.at \in Unclaimed => q.key = None
    /\ q.at # "reply" => q.sent = FALSE /\ q.aborted = FALSE
    /\ q.at \in {"claim", "send"} => q.key # None
    /\ q.at = "reply" /\ q.key # None => q.sent = ~q.aborted
    /\ q.sent \/ q.aborted => q.key # None

(* A row not yet committed is the first of its day, and is held by a request *)
(* that will send its message or has.                                        *)
HeldOK(d) ==
    notices[d].by # None =>
        /\ notices[d].row = None /\ notices[d].next # None
        /\ LET q == req[notices[d].by] IN
           /\ q.at \in {"send", "reply", "failed"} /\ q.key = d /\ q.aborted = FALSE
           /\ q.at = "reply" => q.sent

(* Each message sent has its row: committed, or held by the request that     *)
(* sent it.                                                                  *)
SentOK(r) ==
    /\ req[r].at = "send" \/ req[r].sent => notices[req[r].key].by = r
    /\ req[r].sent => told[req[r].key] > 0
LostOK(r) == req[r].aborted => notices[req[r].key].row # None
ToldOK(d) ==
    /\ notices[d].row # None => told[d] > 0
    /\ told[d] > 0 /\ d \notin cut =>
           /\ told[d] = 1
           /\ \/ notices[d].row # None
              \/ notices[d].by # None /\ req[notices[d].by].sent

Paused ==
    /\ PauseTypes
    /\ \A r \in Requests : ClaimOK(req[r]) /\ SentOK(r) /\ LostOK(r)
    /\ \A d \in Days : HeldOK(d) /\ ToldOK(d)

LEMMA IdleIsUnclaimed == Idle \in RequestState /\ Idle.at = "idle" /\ ClaimOK(Idle)
<1>1. DayLength \in Times
    BY PauseAssumption DEF Times
<1> QED
    BY <1>1 DEF Idle, RequestState, Places, ClaimOK, Unclaimed

(* A request that holds no row moves on, and nothing it has sent or lost is  *)
(* forgotten.                                                                *)
LEMMA Moving ==
    ASSUME Paused, NEW r \in Requests, NEW q \in RequestState,
           req' = [req EXCEPT ![r] = q], UNCHANGED <<now, notices, told, cut>>,
           \A d \in Days : notices[d].by # r,
           ClaimOK(q), q.sent = FALSE, q.at # "send",
           q.aborted => notices[q.key].row # None
    PROVE  Paused'
<1>1. PauseTypes'
    BY DEF Paused, PauseTypes
<1>2. req'[r] = q /\ \A p \in Requests \ {r} : req'[p] = req[p]
    BY DEF Paused, PauseTypes
<1>3. ASSUME NEW p \in Requests
      PROVE  ClaimOK(req'[p]) /\ SentOK(p)' /\ LostOK(p)'
    BY <1>2 DEF Paused, SentOK, LostOK
<1>4. ASSUME NEW d \in Days
      PROVE  HeldOK(d)' /\ ToldOK(d)'
    <2>1. notices[d].by \in Requests \cup {None} /\ notices[d].by # r
        BY DEF Paused, PauseTypes, Versions
    <2>2. notices[d].by # None => req'[notices[d].by] = req[notices[d].by]
        BY <1>2, <2>1
    <2> QED
        BY <2>1, <2>2 DEF Paused, HeldOK, ToldOK
<1> QED
    BY <1>1, <1>3, <1>4 DEF Paused

LEMMA UnclaimedHoldsNothing ==
    ASSUME Paused, NEW r \in Requests,
           req[r].at \in Unclaimed \cup {"claim"} \/ req[r].aborted
    PROVE  \A d \in Days : notices[d].by # r
<1> SUFFICES ASSUME NEW d \in Days, notices[d].by = r
             PROVE  FALSE
    OBVIOUS
<1> QED
    BY PauseNullAssumption DEF Paused, HeldOK, Unclaimed

LEMMA CountingKept ==
    ASSUME Paused, NEW r \in Requests,
           \/ \E s \in Sources : BeginAsk(r, s)
           \/ LockSource(r) \/ CountSource(r) \/ CountAccount(r)
    PROVE  Paused'
<1>1. /\ now \in Times /\ req \in [Requests -> RequestState] /\ req[r] \in RequestState
      /\ ClaimOK(req[r])
    BY DEF Paused, PauseTypes
<1>2. req[r].at \in Unclaimed
    BY DEF BeginAsk, LockSource, CountSource, CountAccount, At, Unclaimed
<1>3. \A d \in Days : notices[d].by # r
    BY <1>2, UnclaimedHoldsNothing
<1>4. /\ req[r].sent = FALSE /\ req[r].aborted = FALSE /\ req[r].key = None
      /\ req[r].at # "idle" => req[r].source \in Sources
      /\ req[r].now \in Times /\ PauseKey(req[r].now) \in Days
    BY <1>1, <1>2 DEF ClaimOK, Unclaimed, RequestState, Days
<1>5. UNCHANGED <<now, notices, told, cut>>
    BY DEF BeginAsk, LockSource, CountSource, CountAccount, history
<1>6. PICK q \in RequestState :
          /\ req' = [req EXCEPT ![r] = q] /\ ClaimOK(q)
          /\ q.sent = FALSE /\ q.aborted = FALSE /\ q.at # "send"
    <2>1. CASE \E s \in Sources : BeginAsk(r, s)
        <3>1. PICK s \in Sources : BeginAsk(r, s)
            BY <2>1
        <3> DEFINE q == [Idle EXCEPT !.at = "lock_source", !.source = s, !.now = now]
        <3>2. /\ q \in RequestState /\ ClaimOK(q) /\ q.sent = FALSE /\ q.aborted = FALSE
              /\ q.at # "send"
            BY <1>1, IdleIsUnclaimed DEF Idle, RequestState, Places, ClaimOK, Unclaimed
        <3> QED
            BY <3>1, <3>2 DEF BeginAsk
    <2>2. CASE LockSource(r)
        <3> DEFINE q == [req[r] EXCEPT !.at = "count_source"]
        <3>0. req[r].source \in Sources
            BY <1>4, <2>2 DEF LockSource, At
        <3>1. /\ q \in RequestState /\ ClaimOK(q) /\ q.sent = FALSE /\ q.aborted = FALSE
              /\ q.at # "send"
            BY <1>1, <1>4, <3>0 DEF RequestState, Places, ClaimOK, Unclaimed
        <3> QED
            BY <2>2, <3>1 DEF LockSource, Goto
    <2>3. CASE CountSource(r)
        <3>1. PICK place \in {"count_account", "reply"} :
                  req' = [req EXCEPT ![r].recorded = {req[r].source}, ![r].at = place]
            BY <2>3 DEF CountSource
        <3>2. req[r].source \in Sources
            BY <1>4, <2>3 DEF CountSource, At
        <3> DEFINE q == [req[r] EXCEPT !.recorded = {req[r].source}, !.at = place]
        <3>3. /\ q \in RequestState /\ ClaimOK(q) /\ q.sent = FALSE /\ q.aborted = FALSE
              /\ q.at # "send"
            BY <1>1, <1>4, <3>2 DEF RequestState, Places, ClaimOK, Unclaimed, Buckets
        <3> QED
            BY <1>1, <3>1, <3>3
    <2>4. CASE CountAccount(r)
        <3>1. PICK place \in {"claim", "reply", "failed"}, k \in Days \cup {None} :
                  /\ req' = [req EXCEPT ![r].recorded = @ \cup {Account}, ![r].key = k,
                                         ![r].at = place]
                  /\ k = None <=> place # "claim"
            BY <2>4, <1>4, PauseNullAssumption DEF CountAccount
        <3>3. req[r].source \in Sources
            BY <1>4, <2>4 DEF CountAccount, At
        <3> DEFINE q == [req[r] EXCEPT !.recorded = @ \cup {Account}, !.key = k, !.at = place]
        <3>4. /\ q \in RequestState /\ ClaimOK(q) /\ q.sent = FALSE /\ q.aborted = FALSE
              /\ q.at # "send"
            BY <1>1, <1>4, <3>1, <3>3, PauseNullAssumption DEF RequestState, Places, ClaimOK, Unclaimed, Buckets
        <3> QED
            BY <1>1, <3>1, <3>4
    <2> QED
        BY <2>1, <2>2, <2>3, <2>4
<1> QED
    BY <1>3, <1>5, <1>6, Moving

LEMMA ClaimKept ==
    ASSUME Paused, NEW r \in Requests, Claim(r)
    PROVE  Paused'
<1> DEFINE k == req[r].key
<1>1. /\ now \in Times /\ req \in [Requests -> RequestState] /\ req[r] \in RequestState
      /\ ClaimOK(req[r]) /\ req[r].at = "claim" /\ k \in Days
      /\ req[r].sent = FALSE /\ req[r].aborted = FALSE
    BY DEF Paused, PauseTypes, Claim, At, ClaimOK, RequestState
<1>2. \A d \in Days : notices[d].by # r
    BY <1>1, UnclaimedHoldsNothing
<1>3. /\ notices \in [Days -> Versions({"planned", "suppressed", None}, Requests)]
      /\ notices[k].by = None
    BY <1>1, <1>2 DEF Paused, PauseTypes, Claim, FreeFor
<1>4. UNCHANGED <<now, told, cut>>
    BY DEF Claim, history
<1>5. CASE notices[k].row # None
    <2>1. Seen(notices, r)[k] # None
        BY <1>1, <1>3, <1>5, PauseNullAssumption DEF Seen
    <2> DEFINE q == [req[r] EXCEPT !.at = "reply", !.aborted = TRUE]
    <2>2. req' = [req EXCEPT ![r] = q] /\ UNCHANGED notices
        BY <1>1, <2>1, PauseIsPlanned DEF Claim
    <2>3. /\ q \in RequestState /\ ClaimOK(q) /\ q.sent = FALSE /\ q.key = k
          /\ q.at = "reply"
        BY <1>1 DEF RequestState, Places, ClaimOK, Unclaimed
    <2> QED
        BY <1>2, <1>4, <1>5, <2>2, <2>3, Moving
<1>6. CASE notices[k].row = None
    <2>1. Seen(notices, r)[k] = None
        BY <1>1, <1>3, <1>6, PauseNullAssumption DEF Seen
    <2> DEFINE q == [req[r] EXCEPT !.at = "send"]
    <2>2. notices' = Put(notices, k, r, "planned") /\ req' = [req EXCEPT ![r] = q]
        BY <1>1, <2>1, PauseIsPlanned DEF Claim, Goto
    <2>3. q \in RequestState /\ ClaimOK(q) /\ q.sent = FALSE /\ q.aborted = FALSE /\ q.key = k
          /\ q.at = "send"
        BY <1>1 DEF RequestState, Places, ClaimOK, Unclaimed
    <2> HIDE DEF q
    <2>4. req'[r] = q /\ \A p \in Requests \ {r} : req'[p] = req[p]
        BY <1>1, <2>2
    <2>5. /\ notices'[k] = [row |-> None, next |-> "planned", by |-> r]
          /\ \A d \in Days \ {k} : notices'[d] = notices[d]
          /\ notices' \in [Days -> Versions({"planned", "suppressed", None}, Requests)]
        BY <1>1, <1>3, <1>6, <2>2 DEF Put, Versions
    <2>6. PauseTypes'
        BY <1>4, <2>2, <2>3, <2>5 DEF Paused, PauseTypes
    <2>7. ASSUME NEW p \in Requests
          PROVE  ClaimOK(req'[p]) /\ SentOK(p)' /\ LostOK(p)'
        <3>1. CASE p = r
            BY <3>1, <2>3, <2>4, <2>5 DEF SentOK, LostOK
        <3>2. CASE p # r
            <4>1. req[p] \in RequestState /\ ClaimOK(req[p]) /\ SentOK(p) /\ LostOK(p)
                BY <1>1 DEF Paused
            <4>2. req[p].at = "send" \/ req[p].sent \/ req[p].aborted => req[p].key \in Days
                BY <4>1 DEF ClaimOK, RequestState
            <4>3. req[p].at = "send" \/ req[p].sent \/ req[p].aborted => req[p].key # k
                BY <1>3, <1>6, <3>2, <4>1, PauseNullAssumption DEF SentOK, LostOK
            <4>4. req'[p] = req[p]
                BY <3>2, <2>4
            <4> QED
                BY <1>4, <2>5, <4>1, <4>2, <4>3, <4>4 DEF SentOK, LostOK
        <3> QED
            BY <3>1, <3>2
    <2>8. ASSUME NEW d \in Days
          PROVE  HeldOK(d)' /\ ToldOK(d)'
        <3>1. CASE d = k
            BY <3>1, <1>1, <1>3, <1>4, <1>6, <2>3, <2>4, <2>5, PauseNullAssumption
               DEF Paused, HeldOK, ToldOK
        <3>2. CASE d # k
            <4>1. notices[d].by \in Requests \cup {None} /\ notices[d].by # r
                BY <1>2, <1>3 DEF Versions
            <4>2. notices[d].by # None => req'[notices[d].by] = req[notices[d].by]
                BY <4>1, <2>4
            <4> QED
                BY <1>4, <3>2, <2>5, <4>1, <4>2 DEF Paused, HeldOK, ToldOK
        <3> QED
            BY <3>1, <3>2
    <2> QED
        BY <2>6, <2>7, <2>8 DEF Paused
<1> QED
    BY <1>5, <1>6

LEMMA SendKept ==
    ASSUME Paused, NEW r \in Requests, Send(r)
    PROVE  Paused'
<1> DEFINE k == req[r].key
<1>1. /\ now \in Times /\ req \in [Requests -> RequestState] /\ req[r] \in RequestState
      /\ ClaimOK(req[r]) /\ req[r].at = "send" /\ k \in Days
      /\ req[r].sent = FALSE /\ req[r].aborted = FALSE
    BY DEF Paused, PauseTypes, Send, At, ClaimOK, RequestState
<1>2. UNCHANGED <<now, notices, cut>>
    BY DEF Send
<1>3. /\ notices \in [Days -> Versions({"planned", "suppressed", None}, Requests)]
      /\ told \in [Days -> 0..2] /\ notices[k].by = r /\ notices[k].row = None
      /\ \A d \in Days : notices[d].by = r => d = k
    <2>1. notices \in [Days -> Versions({"planned", "suppressed", None}, Requests)]
          /\ told \in [Days -> 0..2]
        BY DEF Paused, PauseTypes
    <2>2. notices[k].by = r
        BY <1>1 DEF Paused, SentOK
    <2>3. \A d \in Days : notices[d].by = r => d = k /\ notices[d].row = None
        BY PauseNullAssumption DEF Paused, HeldOK
    <2> QED
        BY <1>1, <2>1, <2>2, <2>3
<1>4. PICK q \in RequestState :
          /\ req' = [req EXCEPT ![r] = q] /\ q.aborted = FALSE /\ q.key = k
          /\ q.source = req[r].source
          /\ \/ /\ q.at = "reply" /\ q.sent = TRUE
                /\ told' = [told EXCEPT ![k] = IF @ < 2 THEN @ + 1 ELSE @]
             \/ q.at = "failed" /\ q.sent = FALSE /\ UNCHANGED told
    <2>1. CASE /\ told' = [told EXCEPT ![k] = IF @ < 2 THEN @ + 1 ELSE @]
               /\ req' = [req EXCEPT ![r].at = "reply", ![r].sent = TRUE]
        <3> DEFINE q == [req[r] EXCEPT !.at = "reply", !.sent = TRUE]
        <3>1. q \in RequestState /\ q.aborted = FALSE /\ q.key = k /\ q.at = "reply" /\ q.sent
              /\ q.source = req[r].source
            BY <1>1 DEF RequestState, Places
        <3> QED
            BY <1>1, <2>1, <3>1
    <2>2. CASE Goto(r, "failed") /\ UNCHANGED told
        <3> DEFINE q == [req[r] EXCEPT !.at = "failed"]
        <3>1. q \in RequestState /\ q.aborted = FALSE /\ q.key = k /\ q.at = "failed"
              /\ q.sent = FALSE /\ q.source = req[r].source
            BY <1>1 DEF RequestState, Places
        <3> QED
            BY <1>1, <2>2, <3>1 DEF Goto
    <2> QED
        BY <2>1, <2>2 DEF Send
<1>5. req'[r] = q /\ \A p \in Requests \ {r} : req'[p] = req[p]
    BY <1>1, <1>4
<1>6. /\ told' \in [Days -> 0..2]
      /\ \A d \in Days \ {k} : told'[d] = told[d]
      /\ \A d \in Days : told'[d] >= told[d]
      /\ q.sent => told'[k] > 0 /\ (told[k] = 0 => told'[k] = 1)
      /\ ~q.sent => told'[k] = told[k]
    BY <1>1, <1>3, <1>4
<1>7. PauseTypes'
    BY <1>2, <1>4, <1>6 DEF Paused, PauseTypes
<1>8. ASSUME NEW p \in Requests
      PROVE  ClaimOK(req'[p]) /\ SentOK(p)' /\ LostOK(p)'
    <2>1. CASE p = r
        <3>1. ClaimOK(q)
            BY <1>1, <1>4, PauseNullAssumption DEF ClaimOK, Unclaimed
        <3> QED
            BY <3>1, <2>1, <1>2, <1>3, <1>4, <1>5, <1>6 DEF SentOK, LostOK
    <2>2. CASE p # r
        <3>1. req[p] \in RequestState /\ ClaimOK(req[p]) /\ SentOK(p) /\ LostOK(p)
            BY <1>1 DEF Paused
        <3>2. req[p].sent => req[p].key \in Days
            BY <3>1 DEF ClaimOK, RequestState
        <3>3. req[p].sent => told'[req[p].key] > 0
            BY <1>3, <1>6, <3>1, <3>2 DEF SentOK
        <3> QED
            BY <1>2, <1>5, <2>2, <3>1, <3>3 DEF SentOK, LostOK
    <2> QED
        BY <2>1, <2>2
<1>9. ASSUME NEW d \in Days
      PROVE  HeldOK(d)' /\ ToldOK(d)'
    <2>0. HeldOK(d) /\ ToldOK(d)
        BY DEF Paused
    <2>1. CASE d = k
        <3>1. k \notin cut => told[k] = 0
            BY <2>0, <2>1, <1>1, <1>3 DEF ToldOK
        <3>2. HeldOK(d)'
            BY <2>0, <2>1, <1>2, <1>3, <1>4, <1>5 DEF HeldOK
        <3>3. ToldOK(d)'
            BY <3>1, <2>1, <1>2, <1>3, <1>4, <1>5, <1>6, PauseNullAssumption DEF ToldOK
        <3> QED
            BY <3>2, <3>3
    <2>2. CASE d # k
        <3>1. notices[d].by \in Requests \cup {None} /\ notices[d].by # r
            BY <1>3, <2>2 DEF Versions
        <3>2. notices[d].by # None => req'[notices[d].by] = req[notices[d].by]
            BY <3>1, <1>5
        <3> QED
            BY <1>2, <1>6, <2>0, <2>2, <3>1, <3>2 DEF HeldOK, ToldOK
    <2> QED
        BY <2>1, <2>2
<1> QED
    BY <1>7, <1>8, <1>9 DEF Paused

(* The end of a request: its row stays if it answered and is dropped if it   *)
(* did not.                                                                  *)
LEMMA EndKept ==
    ASSUME Paused, NEW r \in Requests, Answer(r) \/ Fail(r)
    PROVE  Paused'
<1>1. /\ req \in [Requests -> RequestState] /\ req[r] \in RequestState /\ ClaimOK(req[r])
      /\ notices \in [Days -> Versions({"planned", "suppressed", None}, Requests)]
      /\ SentOK(r) /\ LostOK(r) /\ \A d \in Days : HeldOK(d) /\ ToldOK(d)
    BY DEF Paused, PauseTypes
<1>2. UNCHANGED <<now, told>> /\ req' = [req EXCEPT ![r] = Idle]
    BY DEF Answer, Fail
<1>3. req'[r] = Idle /\ \A p \in Requests \ {r} : req'[p] = req[p]
    BY <1>1, <1>2
<1>4. \/ /\ notices' = Commit(notices, r) /\ At(r, "reply") /\ ~req[r].aborted
         /\ cut' = cut
      \/ /\ notices' = Rollback(notices, r) /\ (req[r].sent => req[r].key \in cut')
         /\ cut \subseteq cut'
    BY <1>1, PauseNullAssumption DEF Answer, Fail, ClaimOK, At
<1>5. /\ notices' \in [Days -> Versions({"planned", "suppressed", None}, Requests)]
      /\ \A d \in Days : notices[d].by # r => notices'[d] = notices[d]
      /\ \A d \in Days : notices[d].by = r =>
             /\ notices'[d].by = None
             /\ \/ /\ notices'[d].row = notices[d].next /\ At(r, "reply") /\ cut' = cut
                \/ /\ notices'[d].row = notices[d].row /\ (req[r].sent => req[r].key \in cut')
                   /\ cut \subseteq cut'
    <2>1. /\ notices' \in {Commit(notices, r), Rollback(notices, r)}
          /\ Commit(notices, r) \in [Days -> Versions({"planned", "suppressed", None}, Requests)]
          /\ Rollback(notices, r) \in [Days -> Versions({"planned", "suppressed", None}, Requests)]
        BY <1>1, <1>4, EndOfTable
    <2>2. /\ \A d \in Days : notices[d].by # r =>
                 /\ Commit(notices, r)[d] = notices[d]
                 /\ Rollback(notices, r)[d] = notices[d]
          /\ \A d \in Days : notices[d].by = r =>
                 /\ Commit(notices, r)[d].by = None
                 /\ Commit(notices, r)[d].row = notices[d].next
                 /\ Rollback(notices, r)[d].by = None
                 /\ Rollback(notices, r)[d].row = notices[d].row
        <3>1. notices \in [Days -> Versions({"planned", "suppressed", None}, Requests)]
            BY <1>1
        <3> QED
            BY <3>1 DEF Commit, Rollback, Settled
    <2>3. ASSUME NEW d \in Days, notices[d].by = r
          PROVE  /\ notices'[d].by = None
                 /\ \/ /\ notices'[d].row = notices[d].next /\ At(r, "reply") /\ cut' = cut
                    \/ /\ notices'[d].row = notices[d].row
                       /\ (req[r].sent => req[r].key \in cut') /\ cut \subseteq cut'
        BY <1>4, <2>2, <2>3
    <2> QED
        BY <2>1, <2>2, <2>3
<1>6. cut \subseteq cut'
    BY <1>4
<1>7. PauseTypes'
    BY <1>1, <1>2, <1>5, IdleIsUnclaimed DEF Paused, PauseTypes
<1>8. ASSUME NEW p \in Requests
      PROVE  ClaimOK(req'[p]) /\ SentOK(p)' /\ LostOK(p)'
    <2>1. CASE p = r
        BY <2>1, <1>3, IdleIsUnclaimed DEF SentOK, LostOK, Idle
    <2>2. CASE p # r
        <3>1. req[p] \in RequestState /\ ClaimOK(req[p]) /\ SentOK(p) /\ LostOK(p)
            BY <1>1 DEF Paused
        <3>2. req[p].at = "send" \/ req[p].sent \/ req[p].aborted => req[p].key \in Days
            BY <3>1 DEF ClaimOK, RequestState
        <3>3. \A d \in Days : notices[d].row # None => notices[d].by # r
            BY <1>1, PauseNullAssumption DEF HeldOK
        <3>4. SentOK(p)'
            BY <1>2, <1>3, <1>5, <2>2, <3>1, <3>2 DEF SentOK
        <3>5. LostOK(p)'
            BY <1>3, <1>5, <2>2, <3>1, <3>2, <3>3 DEF LostOK
        <3> QED
            BY <1>3, <2>2, <3>1, <3>4, <3>5
    <2> QED
        BY <2>1, <2>2
<1>9. ASSUME NEW d \in Days
      PROVE  HeldOK(d)' /\ ToldOK(d)'
    <2>0. HeldOK(d) /\ ToldOK(d) /\ notices[d].by \in Requests \cup {None}
        BY <1>1 DEF Versions
    <2>1. CASE notices[d].by = r
        <3>1. /\ notices[d].row = None /\ notices[d].next # None /\ req[r].key = d
              /\ req[r].at = "reply" => req[r].sent
            BY <2>0, <2>1, PauseNullAssumption DEF HeldOK
        <3>2. req[r].sent => told[d] > 0
            BY <1>1, <3>1 DEF SentOK
        <3>3. HeldOK(d)'
            BY <1>5, <2>1 DEF HeldOK
        <3>4. CASE notices'[d].row = notices[d].next /\ At(r, "reply") /\ cut' = cut
            BY <1>2, <2>0, <2>1, <3>1, <3>2, <3>3, <3>4 DEF ToldOK, At
        <3>5. CASE /\ notices'[d].row = notices[d].row /\ (req[r].sent => req[r].key \in cut')
                   /\ cut \subseteq cut'
            BY <1>2, <2>0, <2>1, <3>1, <3>3, <3>5 DEF ToldOK
        <3> QED
            BY <1>5, <2>1, <3>3, <3>4, <3>5
    <2>2. CASE notices[d].by # r
        <3>1. notices[d].by # None => req'[notices[d].by] = req[notices[d].by]
            BY <1>3, <2>0, <2>2
        <3> QED
            BY <1>2, <1>5, <1>6, <2>0, <2>2, <3>1 DEF HeldOK, ToldOK
    <2> QED
        BY <2>1, <2>2
<1> QED
    BY <1>7, <1>8, <1>9 DEF Paused

LEMMA PausedStart == Init => Paused
<1> SUFFICES ASSUME Init PROVE Paused
    OBVIOUS
<1>1. now \in Times
    BY PauseAssumption DEF Init, Times
<1>2. notices = [d \in Days |-> Settled(None)] /\ req = [r \in Requests |-> Idle]
      /\ told = [d \in Days |-> 0]
    BY DEF Init
<1>3. PauseTypes
    BY <1>1, <1>2, IdleIsUnclaimed DEF PauseTypes, Settled, Versions
<1>4. \A r \in Requests : ClaimOK(req[r]) /\ SentOK(r) /\ LostOK(r)
    BY <1>2, IdleIsUnclaimed DEF SentOK, LostOK, Idle
<1>5. \A d \in Days : HeldOK(d) /\ ToldOK(d)
    BY <1>2 DEF HeldOK, ToldOK, Settled
<1> QED
    BY <1>3, <1>4, <1>5 DEF Paused

LEMMA PausedStep == Paused /\ [Next]_vars => Paused'
<1> SUFFICES ASSUME Paused, [Next]_vars PROVE Paused'
    OBVIOUS
<1>1. CASE UNCHANGED vars
    BY <1>1 DEF vars, history, Paused, PauseTypes, SentOK, LostOK, HeldOK, ToldOK
<1>2. CASE Tick
    <2>1. now' \in Times
        BY <1>2, PauseAssumption DEF Tick, Times, Paused, PauseTypes
    <2> QED
        BY <1>2, <2>1 DEF Tick, history, Paused, PauseTypes, SentOK, LostOK, HeldOK, ToldOK
<1>3. ASSUME NEW r \in Requests,
             \/ \E s \in Sources : BeginAsk(r, s)
             \/ LockSource(r) \/ CountSource(r) \/ CountAccount(r) \/ Claim(r) \/ Send(r)
             \/ Answer(r) \/ Fail(r)
      PROVE  Paused'
    BY <1>3, CountingKept, ClaimKept, SendKept, EndKept
<1> QED
    BY <1>1, <1>2, <1>3 DEF Next

LEMMA AlwaysPaused == Spec => []Paused
  BY PausedStart, PausedStep, PTL DEF Spec

(* The owner of a paused account hears of it once a day: however many        *)
(* requests are refused together, no day's notice leaves twice unless the    *)
(* request that sent it failed after it had.                                 *)
THEOREM OwnerAlwaysLearnsOnce == Spec => []OwnerLearnsOnce
<1>1. Paused => OwnerLearnsOnce
    <2> SUFFICES ASSUME Paused, NEW d \in Days, told[d] > 1, d \notin cut
                 PROVE  FALSE
        BY DEF OwnerLearnsOnce
    <2> QED
        BY DEF Paused, PauseTypes, ToldOK
<1> QED
    BY <1>1, AlwaysPaused, PTL

(* Whoever is told that the attempt was refused, the owner has been told     *)
(* too: by this request, or by the one whose claim it lost to, which is then *)
(* committed.                                                                *)
THEOREM PausedOwnerIsAlwaysTold == Spec => []PausedOwnerIsTold
<1>1. Paused => PausedOwnerIsTold
    <2> SUFFICES ASSUME Paused, NEW r \in Requests, At(r, "reply"), req[r].key # None
                 PROVE  /\ told[req[r].key] > 0
                        /\ req[r].aborted => notices[req[r].key].row # None
        BY DEF PausedOwnerIsTold
    <2>1. req[r] \in RequestState /\ ClaimOK(req[r]) /\ SentOK(r) /\ LostOK(r)
        BY DEF Paused, PauseTypes
    <2>2. req[r].key \in Days /\ (req[r].sent \/ req[r].aborted)
        BY <2>1 DEF RequestState, ClaimOK, At
    <2>3. ToldOK(req[r].key)
        BY <2>2 DEF Paused
    <2> QED
        BY <2>1, <2>2, <2>3 DEF SentOK, LostOK, ToldOK
<1> QED
    BY <1>1, AlwaysPaused, PTL
=============================================================================
