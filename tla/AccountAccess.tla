--------------------------- MODULE AccountAccess ---------------------------
(***************************************************************************)
(* Who can still act as an account: sign-in, refresh, sign-out, password   *)
(* recovery and account deletion, as the handlers of account-sessions.ts,  *)
(* account-recovery.ts and account-deletion.ts run them statement by       *)
(* statement over the store of store-accounts.ts.                          *)
(*                                                                         *)
(* No handler locks the rows it reads, and updateSession, updateRecovery   *)
(* and updateDeletion write back every column of the row the handler read, *)
(* whatever happened to it since.  What limits do (rate-limit.ts) is a     *)
(* refusal that may happen or not.                                         *)
(***************************************************************************)
EXTENDS SessionRules

CONSTANTS
    Accounts,
    SessionIds,     \* the sessions that may ever be issued; a token is its session
    RecoveryIds,    \* the recoveries that may ever be opened; a code is its recovery
    Passwords,
    Requests,       \* requests in flight at once; slots are reused
    CodeTtl,        \* RECOVERY_TTL_SECONDS, in ticks
    UndoWindow,     \* DELETION_UNDO_WINDOW_MS, in ticks
    MaxNow,         \* bound: the clock stops here
    MaxWrongCodes,  \* bound: wrong codes tried on one recovery
    MaxRequests,    \* bound: the requests that ever begin
    None            \* SQL NULL: no such row, no value

ASSUME AccessNullAssumption ==
    None \notin Requests \cup SessionIds \cup RecoveryIds \cup Passwords
ASSUME AccessBoundsAssumption ==
    {CodeTtl, UndoWindow, MaxNow, MaxWrongCodes, MaxRequests} \subseteq Nat

VARIABLES
    now,            \* the clock
    users,          \* app.users.state by user_id
    credentials,    \* app.account_credentials: the password, None once deleted
    sessions,       \* app.account_sessions by session_id
    recoveries,     \* app.account_recoveries by recovery_id
    deletions,      \* app.account_deletions: the account's latest request
    notices,        \* app.account_notices: the recoveries whose owner was told
    req,            \* the handler of each request: its place and its local values
    rotated,        \* history: the session each was refreshed from, or itself
    excused,        \* history: the sessions whose request overlapped one that ends sessions
    begun           \* how many requests have begun

tables == <<users, credentials, sessions, recoveries, deletions, notices>>
history == <<rotated, excused, begun>>
vars == <<now, tables, req, history>>

INSTANCE RowVersions WITH Nobody <- None

Session == Stored(sessions)
Recovery == Stored(recoveries)
Password == Stored(credentials)
UserState == Stored(users)

-----------------------------------------------------------------------------
(* Rows and requests *)

SessionRow == [owner : Accounts, status : Statuses, expires : Nat, refreshable : Nat,
               active : Nat, under : Passwords]
ASSUME AccessNoRowAssumption == None \notin SessionRow
RecoveryRow == [owner : Accounts, status : {"pending", "consumed", "expired", "locked"},
                requested : Nat, expires : Nat, attempts : Nat]
DeletionRow == [status : {"scheduled", "cancelled", "completed"}, completes : Nat]

Ops == {"sign_in", "refresh", "logout", "logout_all", "ask_recovery", "recover",
        "delete", "undo"}
Places == {"idle", "resolve", "find_credential", "find_session", "list_sessions",
           "insert_session", "write_sessions", "find_recovery", "insert_recovery",
           "set_password", "write_recovery", "tell_owner", "schedule", "find_scheduled", "find_deletion",
           "find_contact", "delete_credential", "delete_sessions", "delete_recoveries",
           "retire_user", "write_deletion", "reply", "failed"}

NoRows == [s \in SessionIds |-> None]

RequestState ==
    [at : Places, op : Ops, account : Accounts \cup {None}, token : SessionIds \cup {None},
     fresh : SessionIds \cup {None}, issue : SessionRow \cup {None},
     writes : [SessionIds -> SessionRow \cup {None}],
     code : RecoveryIds \cup {None}, password : Passwords \cup {None},
     recovery : RecoveryIds \cup {None}, becomes : RecoveryRow \cup {None},
     closing : DeletionRow \cup {None}, now : Nat, crossed : BOOLEAN]

Idle == [at |-> "idle", op |-> "logout", account |-> None, token |-> None, fresh |-> None,
         issue |-> None, writes |-> NoRows, code |-> None, password |-> None,
         recovery |-> None, becomes |-> None, closing |-> None, now |-> 0,
         crossed |-> FALSE]

At(r, place) == req[r].at = place

(* A handler that has answered keeps what its end is about: whose token, and *)
(* the session it issued.                                                    *)
Going(q, place) ==
    IF place = "reply"
    THEN [Idle EXCEPT !.at = "reply", !.op = q.op, !.token = q.token, !.fresh = q.fresh,
                      !.crossed = q.crossed]
    ELSE [q EXCEPT !.at = place]
Goto(r, place) == req' = [req EXCEPT ![r] = Going(req[r], place)]
Reply(r) == Goto(r, "reply")

Start(r, q) ==
    /\ At(r, "idle")
    /\ begun < MaxRequests /\ begun' = begun + 1
    /\ req' = [req EXCEPT ![r] = [q EXCEPT !.now = now]]
    /\ UNCHANGED <<now, tables, rotated, excused>>

(* Ids are fresh UUIDs: which unused one is drawn is of no consequence.      *)
FreshSessions == {s \in SessionIds : /\ sessions[s] = Settled(None) /\ rotated[s] = None
                                     /\ \A q \in Requests : req[q].fresh # s}
FreshRecoveries == {c \in RecoveryIds : /\ recoveries[c] = Settled(None) /\ ~notices[c].row
                                        /\ \A q \in Requests : req[q].recovery # c}
NewSession == CHOOSE s \in FreshSessions : TRUE

BeginSignIn(r, a, p) ==
    /\ FreshSessions # {}
    /\ Start(r, [Idle EXCEPT !.at = "find_credential", !.op = "sign_in", !.account = a,
                             !.password = p, !.fresh = NewSession])

(* A token is presented by whoever holds it: any session ever issued.        *)
BeginRefresh(r, s) ==
    /\ Session[s] # None /\ FreshSessions # {}
    /\ Start(r, [Idle EXCEPT !.at = "find_session", !.op = "refresh", !.token = s,
                             !.fresh = NewSession])

BeginLogout(r, s) ==
    /\ Session[s] # None
    /\ Start(r, [Idle EXCEPT !.at = "find_session", !.op = "logout", !.token = s])

BeginAskRecovery(r, a) ==
    /\ FreshRecoveries # {}
    /\ Start(r, [Idle EXCEPT !.at = "find_credential", !.op = "ask_recovery",
                             !.account = a,
                             !.code = CHOOSE c \in FreshRecoveries : TRUE])

(* A code is the one that was delivered, None stands for a mistyped one.     *)
BeginRecover(r, a, c, p) ==
    /\ FreshSessions # {}
    /\ c # None => Recovery[c] # None
    /\ Start(r, [Idle EXCEPT !.at = "find_credential", !.op = "recover", !.account = a,
                             !.code = c, !.password = p, !.fresh = NewSession])

(* The routes that need an actor: the bearer's session is resolved before    *)
(* the transaction of the request opens.                                     *)
BeginAsMember(r, op, s) ==
    /\ Session[s] # None
    /\ Start(r, [Idle EXCEPT !.at = "resolve", !.op = op, !.token = s])

-----------------------------------------------------------------------------
(* Reading *)

Resolve(r) ==
    /\ At(r, "resolve")
    /\ LET s == Session[req[r].token]
       IN  IF s = None \/ ~MayAuthenticate(s, req[r].now) THEN Reply(r)
           ELSE req' = [req EXCEPT ![r].account = s.owner,
                                   ![r].at = CASE req[r].op = "logout_all" -> "find_credential"
                                               [] req[r].op = "delete" -> "schedule"
                                               [] req[r].op = "undo" -> "find_deletion"]
    /\ UNCHANGED <<now, tables, history>>

(* The sign-in and recovery limits may refuse, and an answer that refuses is *)
(* the same as the one for an unknown contact.                               *)
FindCredential(r) ==
    /\ At(r, "find_credential")
    /\ LET stored == Seen(credentials, r)[req[r].account]
           op == req[r].op
       IN  \/ /\ \/ stored = None
                 \/ op = "sign_in" /\ stored # req[r].password
                 \/ op \in {"sign_in", "ask_recovery"}      \* limited
              /\ Reply(r)
           \/ /\ stored # None
              /\ op = "sign_in" => stored = req[r].password
              /\ Goto(r, IF op \in {"sign_in", "logout_all"} THEN "list_sessions"
                                                             ELSE "find_recovery")
    /\ UNCHANGED <<now, tables, history>>

OwnSessions(r) ==
    LET seen == Seen(sessions, r)
    IN  [s \in {s \in SessionIds : seen[s] # None /\ seen[s].owner = req[r].account} |-> seen[s]]

(* What a handler still has to write, and where it goes with it.             *)
Pending(writes) == {s \in SessionIds : writes[s] # None}
Writing(writes, then) == IF Pending(writes) = {} THEN then ELSE "write_sessions"
Write(r, q, writes, then) ==
    req' = [req EXCEPT ![r] = Going([q EXCEPT !.writes = writes], Writing(writes, then))]

FindSession(r) ==
    /\ At(r, "find_session")
    /\ LET s == Seen(sessions, r)[req[r].token]
           q == [req[r] EXCEPT !.account = s.owner]
           one(row) == [NoRows EXCEPT ![req[r].token] = row]
       IN  IF s = None THEN Reply(r)
           ELSE IF req[r].op = "logout" THEN Write(r, q, one(Revoked(s)), "reply")
           ELSE IF ~MayRefresh(s, req[r].now) THEN Reply(r)
           ELSE req' = [req EXCEPT ![r] = [q EXCEPT !.issue = Rotated(s, req[r].now),
                                                    !.writes = one(Superseded(s)),
                                                    !.at = "insert_session"]]
    /\ UNCHANGED <<now, tables, history>>

(* Sign-in decides who the newcomer evicts, sign-out everywhere and recovery *)
(* what they revoke, each on the rows this one statement returned.           *)
Capped_All(held, gone) ==           \* mutant: the sessions kept are written back too
    [s \in SessionIds |-> IF s \in gone THEN Revoked(held[s])
                          ELSE IF s \in DOMAIN held THEN held[s] ELSE None]
Capped(held, gone) == [s \in SessionIds |-> IF s \in gone THEN Revoked(held[s]) ELSE None]

EndedByAll(held) ==
    [s \in SessionIds |-> IF s \in Live(held) THEN Revoked(held[s]) ELSE None]
EndedByRecovery_None(held) == NoRows        \* mutant: a reset leaves the sessions alone
EndedByRecovery(held) ==
    [s \in SessionIds |-> IF s \in DOMAIN held /\ held[s].status # "superseded"
                          THEN Revoked(held[s]) ELSE None]

ListSessions(r) ==
    /\ At(r, "list_sessions")
    /\ LET held == OwnSessions(r)
           new == Issued(req[r].account, req[r].password, req[r].now)
           all == [s \in DOMAIN held \cup {req[r].fresh} |->
                       IF s = req[r].fresh THEN new ELSE held[s]]
           q == [req[r] EXCEPT !.issue = new]
       IN  CASE req[r].op = "sign_in" ->
                    \E gone \in Evictions(all, req[r].fresh) :
                        req' = [req EXCEPT ![r] = [q EXCEPT !.writes = Capped(all, gone),
                                                            !.at = "insert_session"]]
             [] req[r].op = "logout_all" -> Write(r, req[r], EndedByAll(held), "reply")
             [] req[r].op = "recover" -> Write(r, q, EndedByRecovery(held), "write_recovery")
    /\ UNCHANGED <<now, tables, history>>

(* findOpenRecoveryFor: the pending recovery asked for last.                 *)
OpenRecoveries(r) ==
    LET seen == Seen(recoveries, r)
        open == {c \in RecoveryIds : /\ seen[c] # None /\ seen[c].owner = req[r].account
                                     /\ seen[c].status = "pending"}
    IN  {c \in open : \A d \in open : seen[d].requested <= seen[c].requested}

CodeAccepted(row, id, code, at) == id = code /\ at < row.expires

(* Asking again supersedes the open recovery, or locks it when the limit     *)
(* paused recovery.  A wrong or late code only counts an attempt: the lock   *)
(* that recordFailedRecoveryAttempt computes is not what is stored.          *)
Answered(r, c, accepted) ==
    LET row == Seen(recoveries, r)[c]
    IN  IF req[r].op = "recover"
        THEN IF accepted THEN [row EXCEPT !.status = "consumed"]
                         ELSE [row EXCEPT !.attempts = @ + 1]
        ELSE [row EXCEPT !.status = IF accepted THEN "expired" ELSE "locked"]

FindRecovery(r) ==
    /\ At(r, "find_recovery")
    /\ LET seen == Seen(recoveries, r)
           after(c, ok) ==
               CASE req[r].op = "ask_recovery" /\ ok -> "insert_recovery"
                 [] req[r].op = "recover" /\ ok -> "set_password"
                 [] OTHER -> IF c = None THEN "reply" ELSE "write_recovery"
           becomes(c, ok) == IF c = None THEN None ELSE Answered(r, c, ok)
           take(c, ok) ==
               req' = [req EXCEPT ![r] = Going([req[r] EXCEPT !.recovery = c,
                                                              !.becomes = becomes(c, ok)],
                                               after(c, ok))]
       IN  \/ /\ req[r].op = "ask_recovery" /\ OpenRecoveries(r) = {}
              /\ \E admitted \in BOOLEAN : take(None, admitted)
           \/ /\ req[r].op = "recover" /\ OpenRecoveries(r) = {}
              /\ Reply(r)
           \/ \E c \in OpenRecoveries(r), admitted \in BOOLEAN :
                 LET accepted == CodeAccepted(seen[c], c, req[r].code, req[r].now)
                 IN  IF req[r].op = "ask_recovery" THEN take(c, admitted)
                     ELSE /\ accepted \/ seen[c].attempts < MaxWrongCodes
                          /\ take(c, accepted)
    /\ UNCHANGED <<now, tables, history>>

-----------------------------------------------------------------------------
(* Writing: a statement waits for the row's writer, and an UPDATE of a row   *)
(* that is gone by then writes nothing.                                      *)

InsertSession(r) ==
    /\ At(r, "insert_session")
    /\ sessions' = Put(sessions, req[r].fresh, r, req[r].issue)
    /\ Goto(r, Writing(req[r].writes, IF req[r].op = "recover" THEN "tell_owner" ELSE "reply"))
    /\ UNCHANGED <<now, users, credentials, recoveries, deletions, notices, history>>

(* Rows are written in the order the list was read: most recent first.       *)
WriteSession(r, s) ==
    /\ At(r, "write_sessions") /\ s \in Pending(req[r].writes) /\ FreeFor(sessions, s, r)
    /\ \A t \in Pending(req[r].writes) : req[r].writes[t].active <= req[r].writes[s].active
    /\ sessions' = IF Seen(sessions, r)[s] = None THEN sessions
                   ELSE Put(sessions, s, r, req[r].writes[s])
    /\ Write(r, req[r], [req[r].writes EXCEPT ![s] = None],
             IF req[r].op = "recover" THEN "write_recovery" ELSE "reply")
    /\ UNCHANGED <<now, users, credentials, recoveries, deletions, notices, history>>

SetPassword(r) ==
    /\ At(r, "set_password") /\ FreeFor(credentials, req[r].account, r)
    /\ credentials' = IF Seen(credentials, r)[req[r].account] = None THEN credentials
                      ELSE Put(credentials, req[r].account, r, req[r].password)
    /\ Goto(r, "list_sessions")
    /\ UNCHANGED <<now, users, sessions, recoveries, deletions, notices, history>>

InsertRecovery(r) ==
    /\ At(r, "insert_recovery")
    /\ recoveries' = Put(recoveries, req[r].code, r,
                         [owner |-> req[r].account, status |-> "pending",
                          requested |-> req[r].now, expires |-> req[r].now + CodeTtl,
                          attempts |-> 0])
    /\ Goto(r, IF req[r].recovery = None THEN "reply" ELSE "write_recovery")
    /\ UNCHANGED <<now, users, credentials, sessions, deletions, notices, history>>

(* The notice of a pause is keyed by the day: it may have been given before, *)
(* and then it takes the whole request back with it, as below.               *)
AfterRecovery(q) == CASE q.becomes.status = "consumed" -> {"insert_session"}
                      [] q.becomes.status = "locked" -> {"reply", "failed"}
                      [] OTHER -> {"reply"}
WriteRecovery(r) ==
    /\ At(r, "write_recovery") /\ FreeFor(recoveries, req[r].recovery, r)
    /\ recoveries' = IF Seen(recoveries, r)[req[r].recovery] = None THEN recoveries
                     ELSE Put(recoveries, req[r].recovery, r, req[r].becomes)
    /\ \E place \in AfterRecovery(req[r]) : Goto(r, place)
    /\ UNCHANGED <<now, users, credentials, sessions, deletions, notices, history>>

(* notifyOwner, the handler's last statement.  The insert waits for whoever  *)
(* holds the key; when the key is taken PostgreSQL aborts the transaction,   *)
(* and the COMMIT after the caught error rolls back what the handler did.    *)
TellOwner_Unindexed(r) ==           \* mutant: the idempotency key is not unique
    /\ At(r, "tell_owner")
    /\ notices' = Put(notices, req[r].recovery, r, TRUE)
    /\ Reply(r)
    /\ UNCHANGED <<now, users, credentials, sessions, recoveries, deletions, history>>
TellOwner(r) ==
    /\ At(r, "tell_owner") /\ FreeFor(notices, req[r].recovery, r)
    /\ IF Seen(notices, r)[req[r].recovery]
       THEN Goto(r, "failed") /\ UNCHANGED notices
       ELSE notices' = Put(notices, req[r].recovery, r, TRUE) /\ Reply(r)
    /\ UNCHANGED <<now, users, credentials, sessions, recoveries, deletions, history>>

-----------------------------------------------------------------------------
(* Deletion: requested, undone within the window, completed after it *)

(* INSERT .. ON CONFLICT DO NOTHING against the one open request.            *)
Schedule(r) ==
    /\ At(r, "schedule") /\ FreeFor(deletions, req[r].account, r)
    /\ LET open == Seen(deletions, r)[req[r].account]
       IN  IF open # None /\ open.status = "scheduled"
           THEN Goto(r, "find_scheduled") /\ UNCHANGED deletions
           ELSE /\ deletions' = Put(deletions, req[r].account, r,
                                    [status |-> "scheduled",
                                     completes |-> req[r].now + UndoWindow])
                /\ Reply(r)
    /\ UNCHANGED <<now, users, credentials, sessions, recoveries, notices, history>>

(* The request that was there may have ended between the two statements.     *)
FindScheduled(r) ==
    /\ At(r, "find_scheduled")
    /\ LET open == Seen(deletions, r)[req[r].account]
       IN  Goto(r, IF open # None /\ open.status = "scheduled" THEN "reply" ELSE "failed")
    /\ UNCHANGED <<now, tables, history>>

MayUndo(row, at) == at < row.completes

(* Past the window, the undo runs the completion that no job has run.        *)
FindDeletion(r) ==
    /\ At(r, "find_deletion")
    /\ LET open == Seen(deletions, r)[req[r].account]
           close(status, place) ==
               req' = [req EXCEPT ![r].closing = [open EXCEPT !.status = status],
                                  ![r].at = place]
       IN  IF open = None \/ open.status # "scheduled" THEN Reply(r)
           ELSE IF MayUndo(open, req[r].now) THEN close("cancelled", "write_deletion")
           ELSE close("completed", "find_contact")
    /\ UNCHANGED <<now, tables, history>>

FindContact(r) ==
    /\ At(r, "find_contact")
    /\ Goto(r, IF Seen(credentials, r)[req[r].account] = None THEN "reply"
               ELSE "delete_credential")
    /\ UNCHANGED <<now, tables, history>>

DeleteCredential(r) ==
    /\ At(r, "delete_credential") /\ FreeFor(credentials, req[r].account, r)
    /\ credentials' = Put(credentials, req[r].account, r, None)
    /\ Goto(r, "delete_sessions")
    /\ UNCHANGED <<now, users, sessions, recoveries, deletions, notices, history>>

(* A DELETE removes the rows it can see, once their writers are done; a row  *)
(* inserted by a transaction still open is not among them.                   *)
Own(table, r) == {k \in DOMAIN table : /\ Seen(table, r)[k] # None
                                       /\ Seen(table, r)[k].owner = req[r].account}
WithoutOwn(table, r) ==
    [k \in DOMAIN table |->
        IF k \in Own(table, r) THEN [row |-> table[k].row, next |-> None, by |-> r]
                               ELSE table[k]]

DeleteSessions_Live(r) ==           \* mutant: the sessions are left to expire
    /\ At(r, "delete_sessions") /\ Goto(r, "delete_recoveries")
    /\ UNCHANGED <<now, tables, history>>
DeleteSessions(r) ==
    /\ At(r, "delete_sessions") /\ \A s \in Own(sessions, r) : FreeFor(sessions, s, r)
    /\ sessions' = WithoutOwn(sessions, r)
    /\ Goto(r, "delete_recoveries")
    /\ UNCHANGED <<now, users, credentials, recoveries, deletions, notices, history>>

DeleteRecoveries(r) ==
    /\ At(r, "delete_recoveries") /\ \A c \in Own(recoveries, r) : FreeFor(recoveries, c, r)
    /\ recoveries' = WithoutOwn(recoveries, r)
    /\ Goto(r, "retire_user")
    /\ UNCHANGED <<now, users, credentials, sessions, deletions, notices, history>>

RetireUser(r) ==
    /\ At(r, "retire_user") /\ FreeFor(users, req[r].account, r)
    /\ users' = Put(users, req[r].account, r, "deleted")
    /\ Goto(r, "write_deletion")
    /\ UNCHANGED <<now, credentials, sessions, recoveries, deletions, notices, history>>

WriteDeletion(r) ==
    /\ At(r, "write_deletion") /\ FreeFor(deletions, req[r].account, r)
    /\ deletions' = Put(deletions, req[r].account, r, req[r].closing)
    /\ Reply(r)
    /\ UNCHANGED <<now, users, credentials, sessions, recoveries, notices, history>>

-----------------------------------------------------------------------------
(* The end of a request *)

(* History: two requests cross when one of them may end what the other, not  *)
(* seeing it, is about to issue.                                             *)
Ends(q) == q.op \in {"recover", "undo"}
Meets(r, q) ==
    /\ q # r /\ ~At(q, "idle")
    /\ \/ Ends(req[r]) \/ Ends(req[q])
       \/ req[r].op = "refresh" /\ req[q].op = "refresh" /\ req[r].token = req[q].token

CommitRequest(r) ==
    /\ At(r, "reply")
    /\ users' = Commit(users, r)
    /\ credentials' = Commit(credentials, r)
    /\ sessions' = Commit(sessions, r)
    /\ recoveries' = Commit(recoveries, r)
    /\ deletions' = Commit(deletions, r)
    /\ notices' = Commit(notices, r)
    /\ LET fresh == {s \in {req[r].fresh} \ {None} : sessions[s].by = r}
           crosses == req[r].crossed \/ \E q \in Requests : Meets(r, q)
       IN  /\ rotated' = [s \in SessionIds |->
                             IF s \notin fresh THEN rotated[s]
                             ELSE IF req[r].op = "refresh" THEN req[r].token ELSE s]
           /\ excused' = excused \cup
                  {s \in fresh : crosses \/ (req[r].op = "refresh" /\ req[r].token \in excused)}
    /\ req' = [q \in Requests |->
                  IF q = r THEN Idle
                  ELSE [req[q] EXCEPT !.crossed = @ \/ Meets(r, q)]]
    /\ UNCHANGED <<now, begun>>

RollbackRequest(r) ==
    /\ users' = Rollback(users, r)
    /\ credentials' = Rollback(credentials, r)
    /\ sessions' = Rollback(sessions, r)
    /\ recoveries' = Rollback(recoveries, r)
    /\ deletions' = Rollback(deletions, r)
    /\ notices' = Rollback(notices, r)
    /\ req' = [req EXCEPT ![r] = Idle]
    /\ UNCHANGED <<now, history>>

Throw(r) == At(r, "failed") /\ RollbackRequest(r)
Crash(r) == ~At(r, "idle") /\ RollbackRequest(r)

Tick == now < MaxNow /\ now' = now + 1 /\ UNCHANGED <<tables, req, history>>

-----------------------------------------------------------------------------
(* Sign-up wrote the user and the credential before any of this.             *)
Init ==
    /\ now = 0
    /\ users = [a \in Accounts |-> Settled("active")]
    /\ credentials \in [Accounts -> {Settled(p) : p \in Passwords}]
    /\ sessions = [s \in SessionIds |-> Settled(None)]
    /\ recoveries = [c \in RecoveryIds |-> Settled(None)]
    /\ deletions = [a \in Accounts |-> Settled(None)]
    /\ notices = [c \in RecoveryIds |-> Settled(FALSE)]
    /\ req = [r \in Requests |-> Idle]
    /\ rotated = [s \in SessionIds |-> None]
    /\ excused = {}
    /\ begun = 0

Begin(r) ==
    \/ \E a \in Accounts : \/ \E p \in Passwords : BeginSignIn(r, a, p)
                           \/ BeginAskRecovery(r, a)
                           \/ \E c \in RecoveryIds \cup {None}, p \in Passwords :
                                 BeginRecover(r, a, c, p)
    \/ \E s \in SessionIds : \/ BeginRefresh(r, s)
                             \/ BeginLogout(r, s)
                             \/ \E op \in {"logout_all", "delete", "undo"} :
                                   BeginAsMember(r, op, s)

Read(r) == \/ Resolve(r) \/ FindCredential(r) \/ FindSession(r) \/ ListSessions(r)
           \/ FindRecovery(r) \/ FindScheduled(r) \/ FindDeletion(r) \/ FindContact(r)

Change(r) == \/ InsertSession(r) \/ SetPassword(r) \/ InsertRecovery(r) \/ WriteRecovery(r)
             \/ TellOwner(r)
             \/ \E s \in SessionIds : WriteSession(r, s)
             \/ Schedule(r) \/ DeleteCredential(r) \/ DeleteSessions(r)
             \/ DeleteRecoveries(r) \/ RetireUser(r) \/ WriteDeletion(r)

Next == \/ \E r \in Requests : \/ Begin(r) \/ Read(r) \/ Change(r)
                               \/ CommitRequest(r) \/ Throw(r) \/ Crash(r)
        \/ Tick

Spec == Init /\ [][Next]_vars

-----------------------------------------------------------------------------
(* Properties *)

TypeOK ==
    /\ now \in 0..MaxNow
    /\ users \in [Accounts -> Versions({"active", "deleted"}, Requests)]
    /\ credentials \in [Accounts -> Versions(Passwords \cup {None}, Requests)]
    /\ sessions \in [SessionIds -> Versions(SessionRow \cup {None}, Requests)]
    /\ recoveries \in [RecoveryIds -> Versions(RecoveryRow \cup {None}, Requests)]
    /\ deletions \in [Accounts -> Versions(DeletionRow \cup {None}, Requests)]
    /\ notices \in [RecoveryIds -> Versions(BOOLEAN, Requests)]
    /\ req \in [Requests -> RequestState]
    /\ rotated \in [SessionIds -> SessionIds \cup {None}]
    /\ excused \subseteq SessionIds /\ begun \in 0..MaxRequests

IsLive(s) == Session[s] # None /\ Session[s].status = "active"

(* A session that was superseded or revoked never authenticates again, even  *)
(* though every handler writes back whole rows it read some time before.     *)
DeadStaysDead ==
    [][\A s \in SessionIds :
          Session[s] # None /\ ~IsLive(s) => Session'[s] = None \/ ~IsLive(s)']_vars

(* A refreshed session is dead from the commit of its refresh, and was       *)
(* refreshed once: a second successor takes two refreshes in flight at once. *)
SingleUse ==
    \A s, t \in SessionIds :
        rotated[s] \notin {s, None} =>
            /\ ~IsLive(rotated[s])
            /\ t \notin {s, rotated[s]} /\ rotated[s] = rotated[t] => {s, t} \cap excused # {}

(* Every live session was opened with the account's present password: a      *)
(* recovery ends all that came before it.  The sessions issued, or refreshed *)
(* from one issued, by a request in flight together with it are excused.     *)
RecoverySignsOut ==
    \A s \in SessionIds :
        IsLive(s) /\ s \notin excused =>
            Session[s].under = Password[Session[s].owner]

(* A recovery is completed once: with its code already used, another handler *)
(* that presents it, or one that has been racing the first, does not commit, *)
(* whatever a stale write made of the recovery's status in between.          *)
CodeWorksOnce ==
    \A r \in Requests, c \in RecoveryIds :
        At(r, "reply") /\ req[r].op = "recover" /\ recoveries[c].by = r
        /\ recoveries[c].next # None /\ recoveries[c].next.status = "consumed"
            => ~notices[c].row

(* A deleted account has no credential and no live session, but for one that *)
(* a request in flight together with the deletion issued.                    *)
DeletedHasNoAccess ==
    \A a \in Accounts :
        UserState[a] = "deleted" =>
            /\ Password[a] = None
            /\ \A s \in SessionIds : IsLive(s) /\ Session[s].owner = a => s \in excused
=============================================================================
