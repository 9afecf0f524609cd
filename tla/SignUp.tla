------------------------------- MODULE SignUp --------------------------------
(***************************************************************************)
(* POST /v1/accounts, and what it meets: two people signing up on one      *)
(* contact, one household signing up again and again, and a person whose   *)
(* account was deleted coming back.  A completed deletion leaves the       *)
(* users row behind under a pseudonym of the contact; the sign-up looks    *)
(* the pseudonym up and holds the new account when the old one was banned  *)
(* or still had a case.                                                    *)
(*                                                                         *)
(* Identity, onboarding, session and analytics rows are written with the   *)
(* users row, under keys nobody else writes, and are not kept here.        *)
(***************************************************************************)
EXTENDS SignUpRules, FiniteSets

CONSTANTS
    Users,          \* user ids, drawn fresh by each sign-up
    Contacts,       \* normalised contact identifiers
    Addresses,      \* client addresses: kind, net and host
    Births,         \* the dates of birth submitted
    Requests,       \* requests in flight at once; slots are reused
    Today,          \* the day of the requests
    PerAddress,     \* SIGNUP_PER_IP_PER_HOUR
    PerContact,     \* SIGNUP_PER_CONTACT_PER_DAY
    None            \* SQL NULL: no such row

ASSUME SignUpAssumption ==
    /\ {PerAddress, PerContact} \subseteq Nat \ {0} /\ Today \in Dates /\ Births \subseteq Dates
    /\ \A a \in Addresses : a.kind \in AddressKinds
    /\ None \notin Users \cup Contacts \cup Requests /\ None \notin Addresses

VARIABLES
    users,          \* app.users
    credentials,    \* app.account_credentials by contact: whose it is
    standing,       \* app.account_standing; no row reads as active
    cases,          \* app.cases about a user, as moderators leave them
    attempts,       \* committed app.account_rate_limit_events in the window, by key
    locks,          \* advisory locks by key, held until the transaction ends
    req,            \* each request inside a handler
    made            \* history: the accounts made from a household in the window

tables == <<users, credentials, standing>>
vars == <<tables, cases, attempts, locks, req, made>>

INSTANCE RowVersions WITH Nobody <- None

SourceKeys == {SourceKey(a) : a \in Addresses}
Keys == SourceKeys \cup Contacts
ASSUME SignUpKeysAssumption == SourceKeys \cap Contacts = {}    \* each limit has its bucket
Limit(k) == IF k \in Contacts THEN PerContact ELSE PerAddress

(* Who is behind an address: one household is handed a /64, or one v4         *)
(* address; senders whose address cannot be read cannot be told apart.        *)
Household(a) ==
    [v6 |-> a.kind = "v6", unreadable |-> a.kind = "unreadable",
     by |-> IF a.kind = "v6" THEN a.net ELSE IF a.kind = "unreadable" THEN "any" ELSE a.host]
Households == {Household(a) : a \in Addresses}
HouseKeys(h) == {SourceKey(a) : a \in {b \in Addresses : Household(b) = h}}

UserRow == [state : {"active", "deleted"}, pseudonym : Contacts \cup {None}]
ASSUME SignUpNoRowAssumption == None \notin UserRow
Active == [state |-> "active", pseudonym |-> None]
Retired(c) == [state |-> "deleted", pseudonym |-> c]    \* deletion_pseudonym(contact)

(* findDeletedSubject: the row under the contact's pseudonym, the standing it *)
(* was left with, and whether a case about it is unresolved.                  *)
Subject == [found : BOOLEAN, standing : {"active", "suspended", "banned"}, openCase : BOOLEAN]
NoSubject == [found |-> FALSE, standing |-> "active", openCase |-> FALSE]
DeletedOn(c, rows) == {u \in Users : rows[u] # None /\ rows[u].pseudonym = c}
SubjectOn(c, rows, standings) ==
    IF DeletedOn(c, rows) = {} THEN NoSubject
    ELSE LET u == CHOOSE v \in DeletedOn(c, rows) : TRUE
         IN [found |-> TRUE, openCase |-> cases[u] = "open", standing |-> standings[u]]

Places == {"idle", "lock_address", "count_address", "lock_contact", "find_credential",
           "count_contact", "insert_user", "insert_credential", "find_subject", "hold",
           "find_contact", "delete_credential", "retire", "reply", "failed"}
RequestState ==
    [at : Places, contact : Contacts \cup {None}, address : Addresses \cup {None},
     user : Users \cup {None}, recorded : SUBSET Keys, owed : BOOLEAN, created : BOOLEAN]
Idle == [at |-> "idle", contact |-> None, address |-> None, user |-> None,
         recorded |-> {}, owed |-> FALSE, created |-> FALSE]

At(r, place) == req[r].at = place
Goto(r, place) == req' = [req EXCEPT ![r].at = place]
Record(r, k, place) ==                  \* recordAttempt, then on
    req' = [req EXCEPT ![r].at = place, ![r].recorded = @ \cup {k}]

-----------------------------------------------------------------------------
(* A sign-up *)

Fresh == {u \in Users : users[u] = Settled(None) /\ \A q \in Requests : req[q].user # u}

(* An id is kept for every sign-up in flight: the bound on accounts.          *)
IdsLeft == Cardinality(Fresh) > Cardinality({q \in Requests : req[q].address # None
                                                              /\ req[q].user = None})

(* The history each sign-up begins with: a deleted account on its contact was *)
(* banned or has a case open.                                                 *)
Owed(c) == \E u \in DeletedOn(c, Stored(users)) :
             standing[u].row = "banned" \/ cases[u] = "open"

(* validateSignUp comes first and reads nothing; what it refuses is answered. *)
BeginSignUp(r, c, a, born) ==
    LET submitted == [born |-> born, contactUsable |-> TRUE, domainAllowed |-> TRUE,
                      passwordFair |-> TRUE, termsCurrent |-> TRUE]
    IN
    /\ At(r, "idle") /\ (MayProceed(submitted, Today) => IdsLeft)
    /\ req' = [req EXCEPT ![r] =
                 IF MayProceed(submitted, Today)
                   THEN [Idle EXCEPT !.at = "lock_address", !.contact = c, !.address = a,
                                     !.owed = Owed(c)]
                   ELSE [Idle EXCEPT !.at = "reply"]]
    /\ UNCHANGED <<tables, cases, attempts, locks, made>>

Locked(r, k) == locks[k] \in {None, r} /\ locks' = [locks EXCEPT ![k] = r]

(* checkLimit: the key's advisory lock, and a count under it.                 *)
LockAddress_Skipped(r) ==                       \* mutant: the attempts are counted unlocked
    /\ At(r, "lock_address")
    /\ Goto(r, "count_address")
    /\ UNCHANGED <<tables, cases, attempts, locks, made>>
LockAddress(r) ==
    /\ At(r, "lock_address") /\ Locked(r, SourceKey(req[r].address))
    /\ Goto(r, "count_address")
    /\ UNCHANGED <<tables, cases, attempts, made>>

(* The attempt is recorded whatever the answer, and a refusal is charged to   *)
(* the contact as well.                                                       *)
CountAddress(r) ==
    /\ At(r, "count_address")
    /\ LET k == SourceKey(req[r].address)
           seen == WithinLimit(attempts[k], PerAddress)
       IN req' = [req EXCEPT ![r].recorded = @ \cup {k} \cup (IF seen THEN {} ELSE {req[r].contact}),
                             ![r].at = IF seen THEN "lock_contact" ELSE "reply"]
    /\ UNCHANGED <<tables, cases, attempts, locks, made>>

LockContact_Skipped(r) ==                       \* mutant: the unique index is left to decide
    /\ At(r, "lock_contact")
    /\ Goto(r, "find_credential")
    /\ UNCHANGED <<tables, cases, attempts, locks, made>>
LockContact(r) ==
    /\ At(r, "lock_contact") /\ Locked(r, req[r].contact)
    /\ Goto(r, "find_credential")
    /\ UNCHANGED <<tables, cases, attempts, made>>

(* A contact in use is answered as though a message had been sent; the        *)
(* attempt is recorded under the user's id, a key nothing counts.             *)
FindCredential(r) ==
    /\ At(r, "find_credential")
    /\ Goto(r, IF Seen(credentials, r)[req[r].contact] # None THEN "reply" ELSE "count_contact")
    /\ UNCHANGED <<tables, cases, attempts, locks, made>>

(* withinLimit: a count, under the contact's lock.                            *)
CountContact(r) ==
    /\ At(r, "count_contact")
    /\ IF WithinLimit(attempts[req[r].contact], PerContact)
         THEN Record(r, req[r].contact, "insert_user")
         ELSE Goto(r, "reply")
    /\ UNCHANGED <<tables, cases, attempts, locks, made>>

InsertUser(r, u) ==
    /\ At(r, "insert_user") /\ u \in Fresh
    /\ users' = Put(users, u, r, Active)
    /\ req' = [req EXCEPT ![r].user = u, ![r].at = "insert_credential"]
    /\ UNCHANGED <<credentials, standing, cases, attempts, locks, made>>

(* The unique index on the contact: a statement waits for the transaction     *)
(* that holds the key, and fails when the key is taken.                       *)
Taken(r) == Seen(credentials, r)[req[r].contact] # None
InsertCredential(r) ==
    /\ At(r, "insert_credential") /\ FreeFor(credentials, req[r].contact, r)
    /\ IF Taken(r)
         THEN Goto(r, "failed") /\ UNCHANGED credentials
         ELSE /\ credentials' = Put(credentials, req[r].contact, r, req[r].user)
              /\ Goto(r, "find_subject")
    /\ UNCHANGED <<users, standing, cases, attempts, locks, made>>

FindSubject(r) ==
    /\ At(r, "find_subject")
    /\ LET subject == SubjectOn(req[r].contact, Seen(users, r), Seen(standing, r))
       IN req' = [req EXCEPT ![r].at = IF ReviewRequired(subject) THEN "hold" ELSE "reply",
                             ![r].created = TRUE]
    /\ UNCHANGED <<tables, cases, attempts, locks, made>>

Hold(r) ==
    /\ At(r, "hold") /\ FreeFor(standing, req[r].user, r)
    /\ standing' = Put(standing, req[r].user, r, "suspended")
    /\ Goto(r, "reply")
    /\ UNCHANGED <<users, credentials, cases, attempts, locks, made>>

-----------------------------------------------------------------------------
(* The completion of a due deletion, asked for by the account's owner         *)
(* (completeIfDue and the store's completeDeletion).                          *)

ContactsOf(u, rows) == {c \in Contacts : rows[c] = u}

BeginDeletion(r, u) ==
    /\ At(r, "idle") /\ Stored(users)[u] = Active
    /\ \A q \in Requests : req[q].user # u
    /\ req' = [req EXCEPT ![r] = [Idle EXCEPT !.at = "find_contact", !.user = u]]
    /\ UNCHANGED <<tables, cases, attempts, locks, made>>

FindContact(r) ==
    /\ At(r, "find_contact")
    /\ LET found == ContactsOf(req[r].user, Seen(credentials, r))
       IN IF found = {} THEN Goto(r, "reply")
          ELSE \E c \in found :
                 req' = [req EXCEPT ![r].contact = c, ![r].at = "delete_credential"]
    /\ UNCHANGED <<tables, cases, attempts, locks, made>>

DeleteCredential(r) ==
    LET c == req[r].contact IN
    /\ At(r, "delete_credential") /\ FreeFor(credentials, c, r)
    /\ credentials' = IF Seen(credentials, r)[c] = req[r].user
                        THEN Put(credentials, c, r, None) ELSE credentials
    /\ Goto(r, "retire")
    /\ UNCHANGED <<users, standing, cases, attempts, locks, made>>

(* The last statement.  users_pseudonym is unique over the deleted rows.      *)
Retire(r) ==
    LET u == req[r].user
        c == req[r].contact
        others == {v \in Users \ {u} : \/ users[v].row # None /\ users[v].row.pseudonym = c
                                       \/ users[v].next # None /\ users[v].next.pseudonym = c}
    IN
    /\ At(r, "retire") /\ FreeFor(users, u, r) /\ \A v \in others : FreeFor(users, v, r)
    /\ IF others # {}
         THEN Goto(r, "failed") /\ UNCHANGED users
         ELSE users' = Put(users, u, r, Retired(c)) /\ Goto(r, "reply")
    /\ UNCHANGED <<credentials, standing, cases, attempts, locks, made>>

-----------------------------------------------------------------------------
(* Ends of requests: an answer commits, a thrown error rolls back.  Either    *)
(* releases the advisory locks.  Counts past a limit are told apart by        *)
(* nothing.                                                                   *)

Unlocked(r) == [k \in Keys |-> IF locks[k] = r THEN None ELSE locks[k]]

Counted(r) ==
    [k \in Keys |-> IF k \in req[r].recorded /\ attempts[k] < Limit(k)
                      THEN attempts[k] + 1 ELSE attempts[k]]

CommitRequest(r) ==
    /\ At(r, "reply")
    /\ users' = Commit(users, r) /\ credentials' = Commit(credentials, r)
    /\ standing' = Commit(standing, r)
    /\ attempts' = Counted(r) /\ locks' = Unlocked(r)
    /\ made' = IF req[r].created
                 THEN [made EXCEPT ![Household(req[r].address)] = @ + 1] ELSE made
    /\ req' = [req EXCEPT ![r] = Idle]
    /\ UNCHANGED cases

Throw(r) ==
    /\ At(r, "failed")
    /\ users' = Rollback(users, r) /\ credentials' = Rollback(credentials, r)
    /\ standing' = Rollback(standing, r)
    /\ locks' = Unlocked(r)
    /\ req' = [req EXCEPT ![r] = Idle]
    /\ UNCHANGED <<cases, attempts, made>>

-----------------------------------------------------------------------------
(* Beyond the handlers: moderators, whose decisions are committed one at a    *)
(* time, and the clock, which moves a key's attempts out of the window when   *)
(* no sign-up on it is in flight.                                             *)

OpenCase(u) ==
    /\ Stored(users)[u] # None /\ cases[u] = "none"
    /\ cases' = [cases EXCEPT ![u] = "open"]
    /\ UNCHANGED <<tables, attempts, locks, req, made>>

Decide(u, outcome) ==
    /\ cases[u] = "open" /\ standing[u].by = None
    /\ cases' = [cases EXCEPT ![u] = "resolved"]
    /\ standing' = [standing EXCEPT ![u] =
                      Settled(IF outcome = "dismiss" THEN standing[u].row ELSE "banned")]
    /\ UNCHANGED <<users, credentials, attempts, locks, req, made>>

HourPasses(h) ==
    /\ \E k \in HouseKeys(h) : attempts[k] > 0
    /\ \A r \in Requests : req[r].address # None => Household(req[r].address) # h
    /\ attempts' = [k \in Keys |-> IF k \in HouseKeys(h) THEN 0 ELSE attempts[k]]
    /\ made' = [made EXCEPT ![h] = 0]
    /\ UNCHANGED <<tables, cases, locks, req>>

DayPasses(c) ==
    /\ attempts[c] > 0 /\ \A r \in Requests : req[r].contact # c
    /\ attempts' = [attempts EXCEPT ![c] = 0]
    /\ UNCHANGED <<tables, cases, locks, req, made>>

-----------------------------------------------------------------------------
Init ==
    /\ users = [u \in Users |-> Settled(None)]
    /\ credentials = [c \in Contacts |-> Settled(None)]
    /\ standing = [u \in Users |-> Settled("active")]
    /\ cases = [u \in Users |-> "none"]
    /\ attempts = [k \in Keys |-> 0]
    /\ locks = [k \in Keys |-> None]
    /\ req = [r \in Requests |-> Idle]
    /\ made = [h \in Households |-> 0]

SignUpStep(r) ==
    \/ LockAddress(r) \/ CountAddress(r) \/ LockContact(r) \/ FindCredential(r)
    \/ CountContact(r) \/ InsertCredential(r) \/ FindSubject(r) \/ Hold(r)
    \/ \E u \in Users : InsertUser(r, u)

DeletionStep(r) == FindContact(r) \/ DeleteCredential(r) \/ Retire(r)

Next ==
    \/ \E r \in Requests :
         \/ \E c \in Contacts, a \in Addresses, born \in Births : BeginSignUp(r, c, a, born)
         \/ \E u \in Users : BeginDeletion(r, u)
         \/ SignUpStep(r) \/ DeletionStep(r) \/ CommitRequest(r) \/ Throw(r)
    \/ \E u \in Users :
         \/ OpenCase(u)
         \/ \E outcome \in {"dismiss", "ban"} : Decide(u, outcome)
    \/ \E h \in Households : HourPasses(h)
    \/ \E c \in Contacts : DayPasses(c)

Spec == Init /\ [][Next]_vars

-----------------------------------------------------------------------------
(* Properties *)

(* Every variable holds values of its kind, a contact is the credential of a  *)
(* user who is not deleted, and no count passes its limit.                    *)
TypeOK ==
    /\ users \in [Users -> Versions(UserRow \cup {None}, Requests)]
    /\ credentials \in [Contacts -> Versions(Users \cup {None}, Requests)]
    /\ standing \in [Users -> Versions({"active", "suspended", "banned"}, Requests)]
    /\ cases \in [Users -> {"none", "open", "resolved"}]
    /\ \A k \in Keys : attempts[k] \in 0..Limit(k)
    /\ locks \in [Keys -> Requests \cup {None}]
    /\ req \in [Requests -> RequestState]
    /\ \A c \in Contacts : credentials[c].row # None => Stored(users)[credentials[c].row] = Active

(* A sign-up that finds its contact taken answers so: it never gets as far as *)
(* the unique index, whose error "is not a duplicate answer the caller can    *)
(* give", whoever else is signing up or being deleted on that contact.        *)
DuplicateIsAnswered ==
    \A r \in Requests :
        At(r, "insert_credential") => /\ FreeFor(credentials, req[r].contact, r)
                                      /\ ~Taken(r)

(* One household does not make more accounts within the window than the limit *)
(* on an address, however many addresses of its block it signs up from and    *)
(* however many of its sign-ups are in flight together.                       *)
AddressLimitHolds == \A h \in Households : made[h] <= PerAddress

(* Deleting an account does not launder it: a person who comes back on its    *)
(* contact, while a case about it is open or after it was banned, gets an     *)
(* account that is held from the moment it exists.  Owed is read both when    *)
(* the sign-up begins and when it commits.                                    *)
HeldFromTheStart(u) ==
    LET r == users[u].by IN
    (users[u].row = None /\ users[u].next # None /\ users'[u].row # None)
        => (req[r].owed /\ Owed(req[r].contact) => standing'[u].row = "suspended")
ReentryIsHeld == [][\A u \in Users : HeldFromTheStart(u)]_vars

(* A deletion that has come to its last statement can carry it out: "unique   *)
(* among deleted rows, which is all that is required".                        *)
PseudonymIsFree ==
    \A r \in Requests :
        At(r, "retire") => DeletedOn(req[r].contact, Stored(users)) \subseteq {req[r].user}
=============================================================================
