---------------------------- MODULE RecoveryPause ----------------------------
(***************************************************************************)
(* POST /v1/account-recovery on one account: the limits it counts, the     *)
(* pause after too many requests in a day, and the one notice of it that   *)
(* the owner is owed.  The notice is claimed by an insert under a unique   *)
(* key and sent before the transaction commits.  The recovery rows the     *)
(* handler opens, supersedes and locks are in AccountAccess.               *)
(***************************************************************************)
EXTENDS NoticeRules, FiniteSets, FiniteSetsExt

CONSTANTS
    Sources,        \* source keys of the addresses that ask
    Requests,       \* requests in flight at once; slots are reused
    Channel,        \* the channel of the account's contact: email, or in_app for a phone
    PerAccount,     \* RECOVERY_ATTEMPTS_PER_DAY
    PerSource,      \* RECOVERY_ATTEMPTS_PER_SOURCE_PER_DAY
    DayLength,      \* ticks in a day, and in the window the limits count over
    MaxNow,         \* bound: the clock stops here
    MaxAsked,       \* bound: the requests answered to one source
    None            \* SQL NULL: no such row

ASSUME PauseAssumption ==
    /\ {PerAccount, PerSource, DayLength, MaxNow, MaxAsked} \subseteq Nat \ {0}
    /\ Channel \in {"email", "in_app"} /\ MaxNow >= DayLength

Times == DayLength..MaxNow
Account == "account"
Buckets == Sources \cup {Account}

VARIABLES
    now,            \* the clock
    events,         \* committed app.account_rate_limit_events: how many, by key and time
    notices,        \* app.account_notices by the day that keys them
    locks,          \* advisory locks on the source keys
    req,            \* each request inside the handler
    asked,          \* history: the requests answered, by source
    told,           \* history: the messages handed to the relay, by day
    cut             \* history: the days whose message left with a request that then failed

history == <<asked, told, cut>>
vars == <<now, events, notices, locks, req, history>>

INSTANCE RowVersions WITH Nobody <- None

(* recoveryPauseKey: the UTC day on which the 24 hours counted over began.    *)
DayOf(t) == t \div DayLength
WindowStart(t) == t - DayLength
PauseKey(t) == DayOf(WindowStart(t))
Days == {PauseKey(t) : t \in Times}

ASSUME PauseNullAssumption ==
    None \notin Requests /\ None \notin Days /\ None \notin {"planned", "suppressed"}

CountIn(log, t) == 
    FoldSet(LAMBDA u, n : n + log[u], 0, {u \in Times : u >= WindowStart(t)})

Places == {"idle", "lock_source", "count_source", "count_account", "claim", "send",
           "reply", "failed"}
RequestState ==
    [at : Places, source : Sources \cup {None}, now : Times, recorded : SUBSET Buckets,
     key : Days \cup {None}, aborted : BOOLEAN, sent : BOOLEAN]
Idle == [at |-> "idle", source |-> None, now |-> DayLength, recorded |-> {}, key |-> None,
         aborted |-> FALSE, sent |-> FALSE]

At(r, place) == req[r].at = place
Goto(r, place) == req' = [req EXCEPT ![r].at = place]

-----------------------------------------------------------------------------
(* The handler *)

InFlight(s) == Cardinality({r \in Requests : req[r].source = s})

BeginAsk(r, s) ==
    /\ At(r, "idle") /\ asked[s] + InFlight(s) < MaxAsked
    /\ req' = [req EXCEPT ![r] = [Idle EXCEPT !.at = "lock_source", !.source = s, !.now = now]]
    /\ UNCHANGED <<now, events, notices, locks, history>>

LockSource(r) ==
    /\ At(r, "lock_source") /\ locks[req[r].source] \in {None, r}
    /\ locks' = [locks EXCEPT ![req[r].source] = r]
    /\ Goto(r, "count_source")
    /\ UNCHANGED <<now, events, notices, history>>

(* "Every attempt is logged, refused or not."                                 *)
CountSource(r) ==
    /\ At(r, "count_source")
    /\ req' = [req EXCEPT
                 ![r].recorded = {req[r].source},
                 ![r].at = IF CountIn(events[req[r].source], req[r].now) < PerSource
                             THEN "count_account" ELSE "reply"]
    /\ UNCHANGED <<now, events, notices, locks, history>>

(* Counted without a lock.  The attempt that reaches the limit is refused,    *)
(* and the owner is owed a notice; before that a link is mailed, which may    *)
(* fail.                                                                      *)
CountAccount(r) ==
    /\ At(r, "count_account")
    /\ LET paused == CountIn(events[Account], req[r].now) + 1 >= PerAccount
       IN \E place \in IF paused THEN {"claim"} ELSE {"reply", "failed"} :
            req' = [req EXCEPT ![r].recorded = @ \cup {Account},
                               ![r].key = IF paused THEN PauseKey(req[r].now) ELSE None,
                               ![r].at = place]
    /\ UNCHANGED <<now, events, notices, locks, history>>

Preference == [optIn |-> [c \in {"account"} |-> DefaultOptIn(c)], quiet |-> AlwaysOn]
Notice == PlanNotification("account.recovery_paused", Channel, "unstated", Preference,
                           {Channel}, now)

(* notifyOwner.  The insert waits for a transaction that holds the key; when  *)
(* the key is taken it fails, the error is read as "already claimed", and the *)
(* transaction is aborted.                                                    *)
Claim_Peeked(r) ==                      \* mutant: a claim not yet committed counts as one
    LET k == req[r].key IN
    /\ At(r, "claim") /\ Notice.outcome = "planned"
    /\ IF notices[k].next # None
         THEN req' = [req EXCEPT ![r].at = "reply", ![r].aborted = TRUE] /\ UNCHANGED notices
         ELSE notices' = Put(notices, k, r, "planned") /\ Goto(r, "send")
    /\ UNCHANGED <<now, events, locks, history>>
Claim_Always(r) ==                      \* mutant: the idempotency key is not unique
    /\ At(r, "claim") /\ Notice.outcome = "planned" /\ FreeFor(notices, req[r].key, r)
    /\ notices' = Put(notices, req[r].key, r, "planned") /\ Goto(r, "send")
    /\ UNCHANGED <<now, events, locks, history>>
Claim(r) ==
    LET k == req[r].key IN
    /\ At(r, "claim") /\ FreeFor(notices, k, r)
    /\ IF Notice.outcome = "refused" THEN Goto(r, "failed") /\ UNCHANGED notices
       ELSE IF Seen(notices, r)[k] # None
         THEN req' = [req EXCEPT ![r].at = "reply", ![r].aborted = TRUE] /\ UNCHANGED notices
       ELSE /\ notices' = Put(notices, k, r, Notice.outcome)
            /\ Goto(r, IF Notice.outcome = "planned" THEN "send" ELSE "reply")
    /\ UNCHANGED <<now, events, locks, history>>

(* The relay takes the message, inside the transaction, or throws.  Messages  *)
(* after the second of a day are told apart by nothing.                       *)
Send(r) ==
    /\ At(r, "send")
    /\ \/ /\ told' = [told EXCEPT ![req[r].key] = IF @ < 2 THEN @ + 1 ELSE @]
          /\ req' = [req EXCEPT ![r].at = "reply", ![r].sent = TRUE]
       \/ Goto(r, "failed") /\ UNCHANGED told
    /\ UNCHANGED <<now, events, notices, locks, asked, cut>>

-----------------------------------------------------------------------------
(* Ends.  The COMMIT of an aborted transaction rolls back and reports no      *)
(* error: the neutral answer goes out either way.                             *)

Recorded(r) == [b \in Buckets |-> IF b \in req[r].recorded
                                    THEN [events[b] EXCEPT ![req[r].now] = @ + 1] ELSE events[b]]
Unlocked(r) == [s \in Sources |-> IF locks[s] = r THEN None ELSE locks[s]]

Answer(r) ==
    /\ At(r, "reply")
    /\ events' = IF req[r].aborted THEN events ELSE Recorded(r)
    /\ notices' = IF req[r].aborted THEN Rollback(notices, r) ELSE Commit(notices, r)
    /\ asked' = [asked EXCEPT ![req[r].source] = @ + 1]
    /\ locks' = Unlocked(r)
    /\ req' = [req EXCEPT ![r] = Idle]
    /\ UNCHANGED <<now, told, cut>>

(* A thrown error, or the loss of the process or of the connection.           *)
Fail(r) ==
    /\ ~At(r, "idle")
    /\ notices' = Rollback(notices, r)
    /\ cut' = IF req[r].sent THEN cut \cup {req[r].key} ELSE cut
    /\ locks' = Unlocked(r)
    /\ req' = [req EXCEPT ![r] = Idle]
    /\ UNCHANGED <<now, events, asked, told>>

Tick == now < MaxNow /\ now' = now + 1 /\ UNCHANGED <<events, notices, locks, req, history>>

-----------------------------------------------------------------------------
Init ==
    /\ now = DayLength
    /\ events = [b \in Buckets |-> [t \in Times |-> 0]]
    /\ notices = [d \in Days |-> Settled(None)]
    /\ locks = [s \in Sources |-> None]
    /\ req = [r \in Requests |-> Idle]
    /\ asked = [s \in Sources |-> 0]
    /\ told = [d \in Days |-> 0]
    /\ cut = {}

Next ==
    \/ \E r \in Requests :
         \/ \E s \in Sources : BeginAsk(r, s)
         \/ LockSource(r) \/ CountSource(r) \/ CountAccount(r) \/ Claim(r) \/ Send(r)
         \/ Answer(r) \/ Fail(r)
    \/ Tick

Spec == Init /\ [][Next]_vars

-----------------------------------------------------------------------------
(* Properties *)

(* Every variable holds values of its kind.                                   *)
TypeOK ==
    /\ now \in Times
    /\ events \in [Buckets -> [Times -> Nat]]
    /\ notices \in [Days -> Versions({"planned", "suppressed", None}, Requests)]
    /\ locks \in [Sources -> Requests \cup {None}]
    /\ req \in [Requests -> RequestState]
    /\ asked \in [Sources -> 0..MaxAsked] /\ told \in [Days -> 0..2] /\ cut \subseteq Days

(* "The account owner learns that recovery was used against them exactly      *)
(* once": no day's notice is sent again, however many requests are refused    *)
(* together, unless the request that sent it failed after it had.             *)
OwnerLearnsOnce == \A d \in Days : told[d] > 1 => d \in cut

(* And no request whose refusal is answered has left the owner untold: the    *)
(* claim it lost to was one whose message was sent and whose row stays.       *)
PausedOwnerIsTold ==
    \A r \in Requests :
        At(r, "reply") /\ req[r].key # None =>
            told[req[r].key] > 0 /\ (req[r].aborted => notices[req[r].key].row # None)

(* The log has every request a source was answered: "Every attempt is logged, *)
(* refused or not."                                                           *)
EveryAttemptIsLogged ==
    \A s \in Sources : FoldSet(LAMBDA t, n : n + events[s][t], 0, Times) = asked[s]
=============================================================================
