------------------------------- MODULE CaseDesk ------------------------------
(***************************************************************************)
(* The moderators' desk: members' reports, the cases opened from them or   *)
(* by the safety recorder, the evidence that is read, the decisions that   *)
(* resolve a case, and the staff directory and sessions all of it is       *)
(* attributed to.  The account standing a decision writes is Enforcement's *)
(* subject; here a decision is its row and the case it resolves.           *)
(*                                                                         *)
(* A moderator is resolved before the request's transaction opens, in two  *)
(* transactions of the resolver's own: the session by its token, then the  *)
(* identity with the role it has at that moment.                           *)
(***************************************************************************)
EXTENDS Integers, FiniteSets, StaffRules, CaseRules

CONSTANTS
    Staff,          \* staff ids
    Sessions,       \* session ids; each belongs to one sign-in
    Reports,        \* report ids, each with the one evidence record it froze
    Cases,          \* case ids
    Requests,       \* requests in flight at once; slots are reused
    Reasons,        \* the reasons members report for
    Reporters,      \* who a report is recorded under: "member", or "system" if anonymous
    Detected,       \* what the safety recorder opens cases from
    Identities,     \* the identities the directory gives
    MaxSessions,    \* MAX_CONCURRENT_SESSIONS
    None            \* null

ASSUME CaseDeskAssumption ==
    /\ Reasons \subseteq ReportReasons /\ Reporters \subseteq {"member", "system"}
    /\ Detected \subseteq Origins \ {"user_report"}
    /\ Identities \subseteq [role : StaffRoles, status : {"active", "suspended"}]
    /\ MaxSessions \in Nat \ {0}
    /\ None \notin Staff \cup Sessions \cup Reports \cup Cases \cup Requests

VARIABLES
    staff,      \* app.staff_identities by staff_id
    sessions,   \* app.account_sessions of staff, by session_id
    reports,    \* app.reports by report_id
    cases,      \* app.cases by case_id
    log,        \* the committed rows of app.audit_log and app.decisions
    shown,      \* history: what readers of evidence were answered with
    req         \* each request: its place, its actor, what it wrote

tables == <<staff, sessions, reports, cases>>
vars == <<staff, sessions, reports, cases, log, shown, req>>

INSTANCE RowVersions WITH Nobody <- None

Identity == [role : StaffRoles, status : {"active", "suspended"}]
SessionRow == [staff : Staff, status : {"active", "revoked"}]
ReportRow == [state : ReportStates, reason : ReportReasons]
CaseRow == [origin : Origins, report : Reports \cup {None}, state : CaseStates,
            openedBy : Staff \cup {"system"}, assigned : Staff \cup {None}]

ASSUME RowAssumption == None \notin Identity \cup SessionRow \cup ReportRow \cup CaseRow

(* A row of the log: a decision, or an audit entry about a report, a case or  *)
(* the evidence a report froze.                                               *)
LogEntries ==
    [action : {"report.submitted", "evidence.captured", "report.triaged", "case.opened",
               "evidence.read", "evidence.read_denied", "case.assigned", "case.review_started",
               "decision.recorded", "decision"},
     actor : Staff \cup {"system", "member"}, report : Reports \cup {None},
     case : Cases \cup {None}]
Entry(action, actor, report, case) ==
    [action |-> action, actor |-> actor, report |-> report, case |-> case]

View == [reader : Staff, case : Cases, report : Reports, visibility : Visibilities]

-----------------------------------------------------------------------------
(* Requests *)

Ops == {"sign_in", "sign_out_all", "report", "open", "read", "decide"}
Places == {"idle", "insert_session", "evict", "list_sessions", "observe", "find_identity",
           "find_report", "insert_case", "find_case", "read_report", "update_case", "commit"}

(* entitled is history: the actor has held, since the request began, an       *)
(* identity that may do what it asks for.                                     *)
RequestState ==
    [op : Ops, at : Places, staff : Staff \cup {None}, session : Sessions \cup {None},
     claim : Staff \cup {None}, role : StaffRoles \cup {None}, entitled : BOOLEAN,
     report : Reports \cup {None}, case : Cases \cup {None},
     rows : [Sessions -> SessionRow \cup {None}],
     pending : SUBSET LogEntries, inserted : SUBSET LogEntries, views : SUBSET View]

Idle == [op |-> "report", at |-> "idle", staff |-> None, session |-> None, claim |-> None,
         role |-> None, entitled |-> FALSE, report |-> None, case |-> None,
         rows |-> [s \in Sessions |-> None], pending |-> {}, inserted |-> {}, views |-> {}]

At(r, place) == req[r].at = place
Goto(r, place) == req' = [req EXCEPT ![r].at = place]

(* A request that has written nothing is answered and forgotten.              *)
Refuse(r) == req' = [req EXCEPT ![r] = Idle]

(* A request starts with its first statement.                                 *)
Begin(r, begun) == At(r, "idle") /\ req' = [req EXCEPT ![r] = begun]

-----------------------------------------------------------------------------
(* Staff sessions *)

MayAuthenticate(identity) == identity.status = "active"

(* A wrong password is refused like an identity that may not authenticate.    *)
SignIn(r, m) ==
    LET identity == staff[m].row IN
    /\ MayAuthenticate(identity)
    /\ Begin(r, [Idle EXCEPT !.op = "sign_in", !.at = "list_sessions", !.staff = m])
    /\ UNCHANGED <<tables, log, shown>>

SignOutAll(r, m) ==
    /\ Begin(r, [Idle EXCEPT !.op = "sign_out_all", !.at = "list_sessions", !.staff = m])
    /\ UNCHANGED <<tables, log, shown>>

(* listSessionsForStaff, before the new session is inserted.                  *)
OwnSessions(r) == [s \in Sessions |->
    LET row == Seen(sessions, r)[s]
    IN  IF row # None /\ row.staff = req[r].staff THEN row ELSE None]

ListSessions(r) ==
    /\ At(r, "list_sessions")
    /\ req' = [req EXCEPT ![r].rows = OwnSessions(r),
                   ![r].at = IF req[r].op = "sign_in" THEN "insert_session" ELSE "evict"]
    /\ UNCHANGED <<tables, log, shown>>

LiveIn(rows) == {s \in Sessions : rows[s] # None /\ rows[s].status = "active"}

(* The least recently active of those above the limit go: activity is not     *)
(* kept here, so any of them may be the ones.                                 *)
InsertSession(r, s) ==
    LET fresh == [staff |-> req[r].staff, status |-> "active"]
        rows == [req[r].rows EXCEPT ![s] = fresh]
        excess == Cardinality(LiveIn(rows)) - MaxSessions
    IN
    /\ At(r, "insert_session") /\ sessions[s] = Settled(None)
    /\ sessions' = Put(sessions, s, r, fresh)
    /\ \E evicted \in SUBSET LiveIn(rows) :
          /\ Cardinality(evicted) = IF excess > 0 THEN excess ELSE 0
          /\ req' = [req EXCEPT ![r].at = "evict",
                         ![r].rows = [q \in Sessions |->
                                         IF q \in evicted THEN rows[q] ELSE None]]
    /\ UNCHANGED <<staff, reports, cases, log, shown>>

(* One row at a time is written back as it was read, revoked.                 *)
Evict(r) ==
    LET live == LiveIn(req[r].rows) IN
    /\ At(r, "evict")
    /\ IF live = {}
         THEN /\ req' = [req EXCEPT ![r].at = "commit", ![r].staff = None]
              /\ UNCHANGED sessions
         ELSE \E s \in live :
              /\ FreeFor(sessions, s, r)
              /\ sessions' = Put(sessions, s, r, [req[r].rows[s] EXCEPT !.status = "revoked"])
              /\ req' = [req EXCEPT ![r].rows[s] = None]
    /\ UNCHANGED <<staff, reports, cases, log, shown>>

-----------------------------------------------------------------------------
(* The resolver *)

Entitles(identity, op) ==
    /\ identity.status = "active"
    /\ Authorize(identity.role, op, op # "open", TRUE)

(* Only a live session is resolved; one may have expired.                     *)
FindSession(r, op, s, claim, report, case) ==
    LET row == Stored(sessions)[s] IN
    /\ row # None /\ row.status = "active"
    /\ Begin(r, [Idle EXCEPT !.op = op, !.at = "find_identity", !.session = s,
                     !.staff = row.staff, !.claim = claim, !.report = report, !.case = case,
                     !.entitled = Entitles(Stored(staff)[row.staff], op)])
    /\ UNCHANGED <<tables, log, shown>>

(* namedModerator: the name in the body must be the session's own.            *)
Names(r) == IF req[r].claim = req[r].staff THEN req[r].staff ELSE None

RoleNow_Session(r) ==               \* mutant: a live session is enough
    Stored(staff)[req[r].staff].role
RoleNow(r) ==
    LET identity == Stored(staff)[req[r].staff]
    IN  IF MayAuthenticate(identity) THEN identity.role ELSE None

First == [open |-> "find_report", read |-> "find_case", decide |-> "find_case"]

FindIdentity(r) ==
    LET role == RoleNow(r)
        named == req[r].op = "read" \/ Names(r) # None
    IN
    /\ At(r, "find_identity")
    /\ IF role # None /\ named /\ Authorize(role, req[r].op, req[r].case # None, named)
         THEN req' = [req EXCEPT ![r].role = role, ![r].at = First[req[r].op],
                          ![r].claim = None,
                          ![r].staff = IF req[r].op = "read" THEN @ ELSE Names(r)]
         ELSE Refuse(r)
    /\ UNCHANGED <<tables, log, shown>>

(* The directory is kept by hand: no route of the service writes it.          *)
ChangeIdentity(m, identity) ==
    /\ staff[m].row # identity
    /\ staff' = [staff EXCEPT ![m] = Settled(identity)]
    /\ req' = [r \in Requests |->
           IF req[r].session # None /\ sessions[req[r].session].row.staff = m
             THEN [req[r] EXCEPT !.entitled = @ \/ Entitles(identity, req[r].op)] ELSE req[r]]
    /\ UNCHANGED <<sessions, reports, cases, log, shown>>

-----------------------------------------------------------------------------
(* Reports *)

(* What submitReport records; an anonymous report is recorded under "system". *)
Submission(p, reporter) ==
    {Entry("evidence.captured", reporter, p, None), Entry("report.submitted", reporter, p, None)}

(* POST /v1/reports, once past its refusals: a pair with no recorded          *)
(* interaction, a reason without the statement it requires.                   *)
InsertReport(r, p, reason, reporter) ==
    /\ reports[p] = Settled(None)
    /\ Begin(r, [Idle EXCEPT !.op = "report", !.at = "observe", !.report = p,
                     !.pending = Submission(p, reporter)])
    /\ reports' = Put(reports, p, r, [state |-> "submitted", reason |-> reason])
    /\ UNCHANGED <<staff, sessions, cases, log, shown>>

FreshCases == {c \in Cases : cases[c] = Settled(None)}

OpenCase(origin, report, by) ==
    [origin |-> origin, report |-> report, state |-> "open", openedBy |-> by, assigned |-> None]

(* The safety recorder, told of the report, may open a case of its own; the   *)
(* evidence of such a case is an id with no stored record.                    *)
ObserveReport(r) ==
    /\ At(r, "observe")
    /\ \/ UNCHANGED cases /\ Goto(r, "commit")
       \/ \E c \in FreshCases, origin \in Detected :
             /\ cases' = Put(cases, c, r, OpenCase(origin, None, "system"))
             /\ req' = [req EXCEPT ![r].at = "commit",
                            ![r].pending = @ \cup {Entry("evidence.captured", "system", None, c),
                                                   Entry("case.opened", "system", None, c)}]
    /\ UNCHANGED <<staff, sessions, reports, log, shown>>

(* POST /v1/moderation/cases.  The report is triaged in memory and its row is *)
(* left as it was.                                                            *)
FindReport(r) ==
    LET row == Seen(reports, r)[req[r].report] IN
    /\ At(r, "find_report")
    /\ IF row # None /\ MayOpenFrom(row.state)
         THEN req' = [req EXCEPT ![r].at = "insert_case",
                          ![r].pending = {Entry("report.triaged", req[r].staff, req[r].report, None)}]
         ELSE Refuse(r)
    /\ UNCHANGED <<tables, log, shown>>

InsertCase(r, c) ==
    /\ At(r, "insert_case") /\ c \in FreshCases
    /\ cases' = Put(cases, c, r, OpenCase("user_report", req[r].report, req[r].staff))
    /\ req' = [req EXCEPT ![r].at = "commit",
                   ![r].pending = @ \cup {Entry("case.opened", req[r].staff, None, c)}]
    /\ UNCHANGED <<staff, sessions, reports, log, shown>>

-----------------------------------------------------------------------------
(* Reading evidence and deciding *)

FindCase(r) ==
    LET row == Seen(cases, r)[req[r].case] IN
    /\ At(r, "find_case")
    /\ CASE row = None -> Refuse(r)
         [] row # None /\ req[r].op = "read" ->
                req' = [req EXCEPT ![r].at = "read_report", ![r].report = row.report]
         [] row # None /\ req[r].op = "decide" ->
                IF MayBeDecided(row.state, IsLead(req[r].role), FALSE)
                  THEN req' = [req EXCEPT ![r].at = "update_case",
                           ![r].pending = {Entry(action, req[r].staff, None, req[r].case) :
                                              action \in {"case.assigned", "case.review_started",
                                                          "decision.recorded"}}]
                  ELSE Refuse(r)
    /\ UNCHANGED <<tables, log, shown>>

(* Every view leaves an entry, a denied one too.                              *)
ReadAction(v) == IF v.visibility = "denied" THEN "evidence.read_denied" ELSE "evidence.read"

(* The records of a case are those its report froze, and what a report        *)
(* freezes is a statement; a case without a report has none to read.          *)
EvidenceOnCase(r) ==
    LET p == req[r].report
    IN  {q \in Reports : q = p /\ Seen(reports, r)[q] # None}

ReadReport(r) ==
    LET views == {[reader |-> req[r].staff, case |-> req[r].case, report |-> p,
                   visibility |-> ViewOf(req[r].role, "report_statement")] :
                      p \in EvidenceOnCase(r)}
    IN
    /\ At(r, "read_report")
    /\ req' = [req EXCEPT ![r].at = "commit", ![r].report = None, ![r].views = views,
                   ![r].pending = {Entry(ReadAction(v), v.reader, v.report, v.case) : v \in views}]
    /\ UNCHANGED <<tables, log, shown>>

(* The decision's own row is inserted, then the resolved case is saved as it  *)
(* was read.                                                                  *)
UpdateCase(r) ==
    LET c == req[r].case IN
    /\ At(r, "update_case") /\ FreeFor(cases, c, r)
    /\ cases' = Put(cases, c, r, [Seen(cases, r)[c] EXCEPT !.state = "resolved",
                                      !.assigned = req[r].staff])
    /\ req' = [req EXCEPT ![r].at = "commit",
                   ![r].inserted = {Entry("decision", req[r].staff, None, c)}]
    /\ UNCHANGED <<staff, sessions, reports, log, shown>>

-----------------------------------------------------------------------------
(* flushAudit appends the buffered entries, then the transaction commits.     *)
Written_Decisions(r) == req[r].inserted     \* mutant: the buffered entries are dropped
Written(r) == req[r].inserted \cup req[r].pending

CommitRequest(r) ==
    /\ At(r, "commit")
    /\ sessions' = Commit(sessions, r) /\ reports' = Commit(reports, r)
    /\ cases' = Commit(cases, r)
    /\ log' = log \cup Written(r) /\ shown' = shown \cup req[r].views
    /\ req' = [req EXCEPT ![r] = Idle]
    /\ UNCHANGED staff

Abort(r) ==
    /\ ~At(r, "idle")
    /\ sessions' = Rollback(sessions, r) /\ reports' = Rollback(reports, r)
    /\ cases' = Rollback(cases, r)
    /\ req' = [req EXCEPT ![r] = Idle]
    /\ UNCHANGED <<staff, log, shown>>

Init ==
    /\ staff \in [Staff -> {Settled(identity) : identity \in
                                {i \in Identities : i.status = "active"}}]
    /\ sessions = [s \in Sessions |-> Settled(None)]
    /\ reports = [p \in Reports |-> Settled(None)]
    /\ cases = [c \in Cases |-> Settled(None)]
    /\ log = {} /\ shown = {}
    /\ req = [r \in Requests |-> Idle]

Next ==
    \/ \E m \in Staff, identity \in Identities : ChangeIdentity(m, identity)
    \/ \E r \in Requests :
       \/ \E m \in Staff : SignIn(r, m) \/ SignOutAll(r, m)
       \/ ListSessions(r) \/ Evict(r)
       \/ \E s \in Sessions : InsertSession(r, s)
       \/ \E s \in Sessions, m \in Staff, p \in Reports : FindSession(r, "open", s, m, p, None)
       \/ \E s \in Sessions, c \in Cases : FindSession(r, "read", s, None, None, c)
       \/ \E s \in Sessions, m \in Staff, c \in Cases : FindSession(r, "decide", s, m, None, c)
       \/ FindIdentity(r)
       \/ \E p \in Reports, reason \in Reasons, reporter \in Reporters :
             InsertReport(r, p, reason, reporter)
       \/ ObserveReport(r) \/ FindReport(r)
       \/ \E c \in Cases : InsertCase(r, c)
       \/ FindCase(r) \/ ReadReport(r) \/ UpdateCase(r)
       \/ CommitRequest(r) \/ Abort(r)

Spec == Init /\ [][Next]_vars

-----------------------------------------------------------------------------
(* Properties *)

(* Every row, log entry and request of this module has its type.              *)
TypeOK ==
    /\ staff \in [Staff -> Versions(Identity, {None})]
    /\ sessions \in [Sessions -> Versions(SessionRow \cup {None}, Requests)]
    /\ reports \in [Reports -> Versions(ReportRow \cup {None}, Requests)]
    /\ cases \in [Cases -> Versions(CaseRow \cup {None}, Requests)]
    /\ log \subseteq LogEntries /\ shown \subseteq View
    /\ req \in [Requests -> RequestState]

(* A moderator's request past its authorization.                              *)
Acting(r) == req[r].op \in {"open", "read", "decide"} /\ req[r].role # None

(* Nobody opens a case, reads evidence or decides on an appointment they no   *)
(* longer held when the request began: a suspension or a demotion stops the   *)
(* next request, whatever session it is made with.                            *)
OnlyTheAppointedAct == \A r \in Requests : Acting(r) => req[r].entitled

(* Whoever was shown a record of a case, or was refused it, is in the audit   *)
(* log for it: a read that was not written was not answered.                  *)
ReadIsAudited ==
    \A v \in shown :
        Entry(ReadAction(v), v.reader, v.report, v.case) \in log

(* "Revoking a session stops the [request] in flight": no request commits a   *)
(* case or a decision under a session that is revoked by then.                *)
RevokedStopsInFlight ==
    [][\A r \in Requests :
          At(r, "commit") /\ req[r].op \in {"open", "decide"} /\ CommitRequest(r)
          => sessions[req[r].session].row.status = "active"]_vars
=============================================================================
