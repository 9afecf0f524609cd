--------------------------- MODULE CaseDeskProofs ---------------------------
(***************************************************************************)
(* Theorems about CaseDesk, for any staff, sessions, reports and cases,    *)
(* any directory, and any number of requests in flight at once.            *)
(***************************************************************************)
EXTENDS CaseDesk, TLAPS

-----------------------------------------------------------------------------
(* Tables *)

(* What the statements of one transaction do to what another reads.          *)
LEMMA PutSeen ==
    ASSUME NEW K, NEW table, DOMAIN table = K, NEW k \in K, NEW row,
           NEW r \in Requests, NEW q \in Requests, q # r, FreeFor(table, k, r)
    PROVE  Seen(Put(table, k, r, row), q) = Seen(table, q)
  <1>1. None # q
    BY CaseDeskAssumption
  <1> QED
    BY <1>1 DEF Seen, Put, FreeFor

LEMMA OwnPutSeen ==
    ASSUME NEW table, NEW k \in DOMAIN table, NEW row, NEW r \in Requests
    PROVE  Seen(Put(table, k, r, row), r) = [Seen(table, r) EXCEPT ![k] = row]
  BY DEF Seen, Put

LEMMA EndSeen ==
    ASSUME NEW table, NEW r \in Requests, NEW q \in Requests, q # r
    PROVE  /\ Seen(Rollback(table, r), q) = Seen(table, q)
           /\ Seen(Commit(table, r), q) =
                [k \in DOMAIN table |-> IF table[k].by = r THEN table[k].next
                                        ELSE Seen(table, q)[k]]
  <1>1. None # q
    BY CaseDeskAssumption
  <1> QED
    BY <1>1 DEF Seen, Commit, Rollback, Settled

LEMMA TableTypes ==
    ASSUME NEW K, NEW Rows, NEW r \in Requests, NEW table \in [K -> Versions(Rows, Requests)]
    PROVE  /\ Seen(table, r) \in [K -> Rows]
           /\ \A k \in K, row \in Rows : Put(table, k, r, row) \in [K -> Versions(Rows, Requests)]
           /\ Commit(table, r) \in [K -> Versions(Rows, Requests)]
           /\ Rollback(table, r) \in [K -> Versions(Rows, Requests)]
  BY DEF Seen, Put, Commit, Rollback, Settled, Versions

-----------------------------------------------------------------------------
(* The invariant *)

(* No request removes a case or a session, or moves a session to another     *)
(* person.                                                                   *)
CasesKept == \A c \in Cases : cases[c].row # None => cases[c].next # None
SessionsKept ==
    \A s \in Sessions :
        sessions[s].row # None => /\ sessions[s].next # None
                                  /\ sessions[s].next.staff = sessions[s].row.staff

SigningOp == {"sign_in", "sign_out_all"}
DeskOp == {"open", "read", "decide"}

(* What a handler's local values are at its place.                           *)
HandlerOK(r) ==
    LET q == req[r] IN
    /\ q.at \in {"list_sessions", "insert_session", "evict"} =>
           q.op \in SigningOp /\ q.staff \in Staff /\ q.role = None
    /\ q.at \in {"insert_session", "evict"} =>
           \A s \in Sessions : q.rows[s] # None =>
               /\ q.rows[s].staff = q.staff
               /\ Seen(sessions, r)[s] # None /\ Seen(sessions, r)[s].staff = q.staff
    /\ q.at = "find_identity" =>
           /\ q.op \in DeskOp /\ q.staff \in Staff /\ q.role = None /\ q.session \in Sessions
           /\ sessions[q.session].row # None /\ sessions[q.session].row.staff = q.staff
           /\ IF q.op = "open" THEN q.report \in Reports /\ q.case = None ELSE q.case \in Cases
           /\ Entitles(staff[q.staff].row, q.op) => q.entitled
    /\ q.at \in {"find_report", "insert_case"} =>
           q.op = "open" /\ q.staff \in Staff /\ q.report \in Reports
    /\ q.at \in {"find_case", "read_report", "update_case"} =>
           q.op \in {"read", "decide"} /\ q.staff \in Staff /\ q.case \in Cases
           /\ q.role \in StaffRoles
    /\ q.at = "update_case" => Seen(cases, r)[q.case] # None

(* A role that a request acts on is one it was entitled to.                  *)
Appointed(r) == req[r].role # None => req[r].entitled

(* A request that will show something has it on its list of audit entries.   *)
EntryOf(v) == Entry(ReadAction(v), v.reader, v.report, v.case)
ViewsPending(r) ==
    /\ req[r].views # {} => req[r].at = "commit"
    /\ \A v \in req[r].views : EntryOf(v) \in req[r].pending

Known(r) == HandlerOK(r) /\ Appointed(r) /\ ViewsPending(r)

Inv == /\ TypeOK /\ CasesKept /\ SessionsKept
       /\ \A r \in Requests : Known(r)
       /\ \A v \in shown : EntryOf(v) \in log

-----------------------------------------------------------------------------
(* What one request's step leaves to the others *)

OnlyRequest(r) ==
    /\ req' \in [Requests -> RequestState]
    /\ \A q \in Requests \ {r} : req'[q] = req[q]

(* Another request still sees the case and the sessions it saw.              *)
StillSeen(q) ==
    /\ \A c \in Cases : Seen(cases, q)[c] # None => Seen(cases, q)'[c] # None
    /\ \A s \in Sessions : Seen(sessions, q)[s] # None =>
           Seen(sessions, q)'[s] # None /\ Seen(sessions, q)'[s].staff = Seen(sessions, q)[s].staff

SessionsStand ==
    \A s \in Sessions : sessions[s].row # None =>
        sessions'[s].row # None /\ sessions'[s].row.staff = sessions[s].row.staff

TablesStep(r) ==
    /\ staff' = staff
    /\ sessions' \in [Sessions -> Versions(SessionRow \cup {None}, Requests)]
    /\ reports' \in [Reports -> Versions(ReportRow \cup {None}, Requests)]
    /\ cases' \in [Cases -> Versions(CaseRow \cup {None}, Requests)]
    /\ CasesKept' /\ SessionsKept' /\ SessionsStand
    /\ \A q \in Requests \ {r} : StillSeen(q)

LEMMA OthersKnow ==
    ASSUME Inv, NEW r \in Requests, OnlyRequest(r), TablesStep(r),
           NEW q \in Requests \ {r}
    PROVE  Known(q)'
<1>1. req'[q] = req[q] /\ Known(q) /\ StillSeen(q) /\ SessionsStand /\ staff' = staff
    BY DEF Inv, OnlyRequest, TablesStep
<1>2. req[q] \in RequestState
    BY DEF Inv, TypeOK
<1>3. Appointed(q)' /\ ViewsPending(q)'
    BY <1>1 DEF Known, Appointed, ViewsPending
<1>4. HandlerOK(q)'
    <2>1. req[q].at \in {"insert_session", "evict"} =>
           \A s \in Sessions : req[q].rows[s] # None =>
               /\ req[q].rows[s].staff = req[q].staff
               /\ Seen(sessions, q)'[s] # None /\ Seen(sessions, q)'[s].staff = req[q].staff
        BY <1>1 DEF Known, HandlerOK, StillSeen
    <2>2. req[q].at = "find_identity" =>
           /\ sessions'[req[q].session].row # None
           /\ sessions'[req[q].session].row.staff = req[q].staff
           /\ Entitles(staff'[req[q].staff].row, req[q].op) => req[q].entitled
        BY <1>1 DEF Known, HandlerOK, SessionsStand
    <2>3. req[q].at = "update_case" => Seen(cases, q)'[req[q].case] # None
        BY <1>1 DEF Known, HandlerOK, StillSeen
    <2> QED
        BY <1>1, <2>1, <2>2, <2>3 DEF Known, HandlerOK
<1> QED
    BY <1>3, <1>4 DEF Known

(* The tables a request may leave as they are.                               *)
LEMMA SameTables ==
    ASSUME Inv, NEW r \in Requests, UNCHANGED tables
    PROVE  TablesStep(r)
  BY DEF Inv, TypeOK, tables, TablesStep, StillSeen, SessionsStand, CasesKept, SessionsKept, Seen

LEMMA SameCases ==
    ASSUME Inv, UNCHANGED cases
    PROVE  /\ cases' \in [Cases -> Versions(CaseRow \cup {None}, Requests)] /\ CasesKept'
           /\ \A q \in Requests, c \in Cases : Seen(cases, q)[c] # None => Seen(cases, q)'[c] # None
  BY DEF Inv, TypeOK, CasesKept, Seen

LEMMA SameSessions ==
    ASSUME Inv, UNCHANGED sessions
    PROVE  /\ sessions' \in [Sessions -> Versions(SessionRow \cup {None}, Requests)]
           /\ SessionsKept' /\ SessionsStand
           /\ \A q \in Requests, s \in Sessions : Seen(sessions, q)[s] # None =>
                  /\ Seen(sessions, q)'[s] # None
                  /\ Seen(sessions, q)'[s].staff = Seen(sessions, q)[s].staff
  BY DEF Inv, TypeOK, SessionsKept, SessionsStand, Seen

(* A case written is on record for whoever commits.                          *)
LEMMA PutCase ==
    ASSUME Inv, NEW r \in Requests, NEW c \in Cases, NEW row \in CaseRow,
           FreeFor(cases, c, r), cases' = Put(cases, c, r, row)
    PROVE  /\ cases' \in [Cases -> Versions(CaseRow \cup {None}, Requests)] /\ CasesKept'
           /\ \A q \in Requests \ {r} : Seen(cases, q)' = Seen(cases, q)
<1>1. cases \in [Cases -> Versions(CaseRow \cup {None}, Requests)] /\ CasesKept
    BY DEF Inv, TypeOK
<1>2. row # None
    BY RowAssumption
<1>3. cases' \in [Cases -> Versions(CaseRow \cup {None}, Requests)]
    BY <1>1, TableTypes
<1>4. CasesKept'
    BY <1>1, <1>2 DEF CasesKept, Put, Versions
<1>5. ASSUME NEW q \in Requests \ {r}
      PROVE  Seen(cases, q)' = Seen(cases, q)
    BY <1>1, PutSeen
<1> QED
    BY <1>3, <1>4, <1>5

LEMMA PutSession ==
    ASSUME Inv, NEW r \in Requests, NEW s \in Sessions, NEW row \in SessionRow,
           FreeFor(sessions, s, r), sessions' = Put(sessions, s, r, row),
           sessions[s].row # None => row.staff = sessions[s].row.staff
    PROVE  /\ sessions' \in [Sessions -> Versions(SessionRow \cup {None}, Requests)]
           /\ SessionsKept' /\ SessionsStand
           /\ \A q \in Requests \ {r} : Seen(sessions, q)' = Seen(sessions, q)
<1>1. sessions \in [Sessions -> Versions(SessionRow \cup {None}, Requests)] /\ SessionsKept
    BY DEF Inv, TypeOK
<1>2. row # None
    BY RowAssumption
<1>3. sessions' \in [Sessions -> Versions(SessionRow \cup {None}, Requests)]
    BY <1>1, TableTypes
<1>4. SessionsKept' /\ SessionsStand
    BY <1>1, <1>2 DEF SessionsKept, SessionsStand, Put, Versions
<1>5. ASSUME NEW q \in Requests \ {r}
      PROVE  Seen(sessions, q)' = Seen(sessions, q)
    BY <1>1, PutSeen
<1> QED
    BY <1>3, <1>4, <1>5

(* The end of a request, either way.                                         *)
LEMMA EndTables ==
    ASSUME Inv, NEW r \in Requests, staff' = staff,
           \/ /\ sessions' = Commit(sessions, r) /\ reports' = Commit(reports, r)
              /\ cases' = Commit(cases, r)
           \/ /\ sessions' = Rollback(sessions, r) /\ reports' = Rollback(reports, r)
              /\ cases' = Rollback(cases, r)
    PROVE  TablesStep(r)
<1>1. /\ sessions \in [Sessions -> Versions(SessionRow \cup {None}, Requests)]
      /\ reports \in [Reports -> Versions(ReportRow \cup {None}, Requests)]
      /\ cases \in [Cases -> Versions(CaseRow \cup {None}, Requests)]
      /\ CasesKept /\ SessionsKept
    BY DEF Inv, TypeOK
<1>2. /\ sessions' \in [Sessions -> Versions(SessionRow \cup {None}, Requests)]
      /\ reports' \in [Reports -> Versions(ReportRow \cup {None}, Requests)]
      /\ cases' \in [Cases -> Versions(CaseRow \cup {None}, Requests)]
    <2>1. sessions' \in [Sessions -> Versions(SessionRow \cup {None}, Requests)]
        <3>1. Commit(sessions, r) \in [Sessions -> Versions(SessionRow \cup {None}, Requests)]
            BY <1>1, TableTypes
        <3>2. Rollback(sessions, r) \in [Sessions -> Versions(SessionRow \cup {None}, Requests)]
            BY <1>1, TableTypes
        <3> QED
            BY <3>1, <3>2
    <2>2. reports' \in [Reports -> Versions(ReportRow \cup {None}, Requests)]
        <3>1. Commit(reports, r) \in [Reports -> Versions(ReportRow \cup {None}, Requests)]
            BY <1>1, TableTypes
        <3>2. Rollback(reports, r) \in [Reports -> Versions(ReportRow \cup {None}, Requests)]
            BY <1>1, TableTypes
        <3> QED
            BY <3>1, <3>2
    <2>3. cases' \in [Cases -> Versions(CaseRow \cup {None}, Requests)]
        <3>1. Commit(cases, r) \in [Cases -> Versions(CaseRow \cup {None}, Requests)]
            BY <1>1, TableTypes
        <3>2. Rollback(cases, r) \in [Cases -> Versions(CaseRow \cup {None}, Requests)]
            BY <1>1, TableTypes
        <3> QED
            BY <3>1, <3>2
    <2> QED
        BY <2>1, <2>2, <2>3
<1>3. CasesKept' /\ SessionsKept' /\ SessionsStand
    BY <1>1 DEF CasesKept, SessionsKept, SessionsStand, Commit, Rollback, Settled, Versions
<1>4. ASSUME NEW q \in Requests \ {r}
      PROVE  StillSeen(q)
    <2>1. q # None
        BY CaseDeskAssumption
    <2> QED
        BY <1>1, <2>1 DEF StillSeen, Seen, CasesKept, SessionsKept, Commit, Rollback, Settled,
           Versions
<1> QED
    BY <1>2, <1>3, <1>4 DEF TablesStep

-----------------------------------------------------------------------------
(* The steps of a request *)

(* A step of r that keeps the tables, the log and what was shown, or writes  *)
(* them as it may, re-establishes the invariant.                             *)
LEMMA StepKeepsInv ==
    ASSUME Inv, NEW r \in Requests, OnlyRequest(r), TablesStep(r), Known(r)',
           UNCHANGED <<log, shown>>
    PROVE  Inv'
<1>1. TypeOK'
    BY DEF Inv, TypeOK, OnlyRequest, TablesStep
<1>2. \A q \in Requests : Known(q)'
    BY OthersKnow
<1> QED
    BY <1>1, <1>2 DEF Inv, TablesStep, EntryOf

LEMMA IdleType == Idle \in RequestState /\ Idle.role = None /\ Idle.views = {}
  BY DEF Idle, RequestState, Ops, Places, StaffRoles, LogEntries

LEMMA RequestType ==
    ASSUME Inv, NEW r \in Requests
    PROVE  req \in [Requests -> RequestState] /\ req[r] \in RequestState /\ Known(r)
  BY DEF Inv, TypeOK

(* A request at idle with the values of Idle knows nothing.                  *)
LEMMA IdleKnows ==
    ASSUME NEW r \in Requests, req'[r] = Idle
    PROVE  Known(r)'
  BY DEF Known, HandlerOK, Appointed, ViewsPending, Idle

LEMMA SignInStep ==
    ASSUME Inv, NEW r \in Requests, NEW m \in Staff, SignIn(r, m) \/ SignOutAll(r, m)
    PROVE  Inv'
<1>1. PICK op \in SigningOp :
         req' = [req EXCEPT ![r] = [Idle EXCEPT !.op = op, !.at = "list_sessions", !.staff = m]]
    BY DEF SignIn, SignOutAll, Begin, SigningOp
<1> DEFINE q == [Idle EXCEPT !.op = op, !.at = "list_sessions", !.staff = m]
<1>2. /\ q \in RequestState
      /\ q.at = "list_sessions" /\ q.op = op /\ q.staff = m /\ q.role = None /\ q.views = {}
    <2>1. op \in Ops /\ "list_sessions" \in Places
        BY DEF SigningOp, Ops, Places
    <2>2. Idle \in RequestState /\ Idle.role = None /\ Idle.views = {}
        BY IdleType
    <2> QED
        BY <2>1, <2>2 DEF RequestState
<1>3. OnlyRequest(r) /\ req'[r] = q
    BY <1>1, <1>2, RequestType DEF OnlyRequest
<1> HIDE DEF q
<1>4. Known(r)'
    BY <1>2, <1>3 DEF Known, HandlerOK, Appointed, ViewsPending
<1>5. TablesStep(r) /\ UNCHANGED <<log, shown>>
    BY SameTables DEF SignIn, SignOutAll
<1> QED
    BY <1>3, <1>4, <1>5, StepKeepsInv

LEMMA ListSessionsStep ==
    ASSUME Inv, NEW r \in Requests, ListSessions(r)
    PROVE  Inv'
<1> DEFINE rows == OwnSessions(r)
           place == IF req[r].op = "sign_in" THEN "insert_session" ELSE "evict"
           q == [req[r] EXCEPT !.rows = rows, !.at = place]
<1>1. req[r] \in RequestState /\ Known(r) /\ req[r].at = "list_sessions"
    BY RequestType DEF ListSessions, At
<1>2. Seen(sessions, r) \in [Sessions -> SessionRow \cup {None}]
    BY TableTypes DEF Inv, TypeOK
<1>3. rows \in [Sessions -> SessionRow \cup {None}]
    BY <1>2 DEF OwnSessions
<1>4. \A s \in Sessions : rows[s] # None =>
         /\ rows[s].staff = req[r].staff
         /\ Seen(sessions, r)[s] # None /\ Seen(sessions, r)[s].staff = req[r].staff
    BY DEF OwnSessions
<1> HIDE DEF rows
<1>5. place \in {"insert_session", "evict"}
    OBVIOUS
<1> HIDE DEF place
<1>6. /\ q \in RequestState /\ q.at = place /\ q.rows = rows /\ q.op = req[r].op
      /\ q.staff = req[r].staff /\ q.role = req[r].role /\ q.views = req[r].views
    BY ZenonT(60), <1>1, <1>3, <1>5 DEF RequestState, Places
<1>7. req' = [req EXCEPT ![r] = q]
    BY <1>1, RequestType DEF ListSessions, RequestState, rows, place
<1> HIDE DEF q
<1>8. OnlyRequest(r) /\ req'[r] = q
    BY <1>6, <1>7, RequestType DEF OnlyRequest
<1>9. TablesStep(r) /\ UNCHANGED <<log, shown>>
    BY SameTables DEF ListSessions
<1>10. UNCHANGED sessions
    BY DEF ListSessions, tables
<1>11. req[r].views = {} /\ req[r].role = None /\ req[r].op \in SigningOp /\ req[r].staff \in Staff
    BY <1>1 DEF Known, HandlerOK, ViewsPending
<1>12. Known(r)'
    <2>1. Seen(sessions, r)' = Seen(sessions, r)
        BY <1>10 DEF Seen
    <2>2. HandlerOK(r)'
        BY <1>4, <1>5, <1>6, <1>8, <1>11, <2>1 DEF HandlerOK
    <2> QED
        BY <1>6, <1>8, <1>11, <2>2 DEF Known, Appointed, ViewsPending
<1> QED
    BY <1>8, <1>9, <1>12, StepKeepsInv

LEMMA InsertSessionStep ==
    ASSUME Inv, NEW r \in Requests, NEW s \in Sessions, InsertSession(r, s)
    PROVE  Inv'
<1> DEFINE fresh == [staff |-> req[r].staff, status |-> "active"]
           rows == [req[r].rows EXCEPT ![s] = fresh]
<1>1. req[r] \in RequestState /\ Known(r) /\ req[r].at = "insert_session"
    BY RequestType DEF InsertSession, At
<1>2. /\ req[r].op \in SigningOp /\ req[r].staff \in Staff /\ req[r].role = None
      /\ req[r].views = {}
      /\ \A x \in Sessions : req[r].rows[x] # None =>
            /\ req[r].rows[x].staff = req[r].staff
            /\ Seen(sessions, r)[x] # None /\ Seen(sessions, r)[x].staff = req[r].staff
    BY <1>1 DEF Known, HandlerOK, ViewsPending
<1>3. PICK evicted \in SUBSET LiveIn(rows) :
         req' = [req EXCEPT ![r].at = "evict",
                     ![r].rows = [x \in Sessions |-> IF x \in evicted THEN rows[x] ELSE None]]
    BY DEF InsertSession
<1> DEFINE after == [x \in Sessions |-> IF x \in evicted THEN rows[x] ELSE None]
           q == [req[r] EXCEPT !.at = "evict", !.rows = after]
<1>4. fresh \in SessionRow
    BY <1>2 DEF SessionRow
<1>5. req[r].rows \in [Sessions -> SessionRow \cup {None}]
    BY <1>1 DEF RequestState
<1>6. after \in [Sessions -> SessionRow \cup {None}]
    BY <1>4, <1>5
<1>7. sessions[s] = Settled(None) /\ sessions' = Put(sessions, s, r, fresh)
    BY DEF InsertSession
<1>8. /\ FreeFor(sessions, s, r) /\ sessions[s].row = None
    BY <1>7 DEF FreeFor, Settled
<1>9. s \in DOMAIN sessions /\ DOMAIN sessions = Sessions
    BY DEF Inv, TypeOK
<1>10. Seen(sessions, r)' = [Seen(sessions, r) EXCEPT ![s] = fresh]
    <2>1. Seen(Put(sessions, s, r, fresh), r) = [Seen(sessions, r) EXCEPT ![s] = fresh]
        BY <1>9, OwnPutSeen
    <2> QED
        BY <1>7, <2>1
<1>11. \A x \in Sessions : after[x] # None =>
         /\ after[x].staff = req[r].staff
         /\ Seen(sessions, r)'[x] # None /\ Seen(sessions, r)'[x].staff = req[r].staff
    <2>1. SUFFICES ASSUME NEW x \in Sessions, after[x] # None
                   PROVE  /\ after[x].staff = req[r].staff
                          /\ Seen(sessions, r)'[x] # None
                          /\ Seen(sessions, r)'[x].staff = req[r].staff
        OBVIOUS
    <2>2. fresh # None
        BY <1>4, RowAssumption
    <2>3. DOMAIN Seen(sessions, r) = Sessions
        BY <1>9 DEF Seen
    <2>4. CASE x = s
        BY <1>5, <1>10, <2>1, <2>2, <2>3, <2>4
    <2>5. CASE x # s
        BY <1>2, <1>5, <1>10, <2>1, <2>3, <2>5
    <2> QED
        BY <2>4, <2>5
<1> HIDE DEF fresh
<1>12. /\ sessions' \in [Sessions -> Versions(SessionRow \cup {None}, Requests)]
       /\ SessionsKept' /\ SessionsStand
       /\ \A x \in Requests \ {r} : Seen(sessions, x)' = Seen(sessions, x)
    BY <1>4, <1>7, <1>8, PutSession
<1> HIDE DEF rows, after
<1>13. /\ q \in RequestState /\ q.at = "evict" /\ q.rows = after /\ q.op = req[r].op
       /\ q.staff = req[r].staff /\ q.role = req[r].role /\ q.views = req[r].views
    BY <1>1, <1>6 DEF RequestState, Places
<1>14. req' = [req EXCEPT ![r] = q]
    BY <1>1, <1>3, RequestType DEF RequestState, after
<1> HIDE DEF q
<1>15. OnlyRequest(r) /\ req'[r] = q
    BY <1>13, <1>14, RequestType DEF OnlyRequest
<1>16. Known(r)'
    <2>1. HandlerOK(r)'
        BY <1>2, <1>11, <1>13, <1>15 DEF HandlerOK
    <2> QED
        BY <1>2, <1>13, <1>15, <2>1 DEF Known, Appointed, ViewsPending
<1>17. UNCHANGED <<staff, reports, cases, log, shown>>
    BY DEF InsertSession
<1>18. TablesStep(r)
    BY <1>12, <1>17, SameCases DEF TablesStep, StillSeen, Inv, TypeOK
<1> QED
    BY <1>15, <1>16, <1>17, <1>18, StepKeepsInv

LEMMA EvictStep ==
    ASSUME Inv, NEW r \in Requests, Evict(r)
    PROVE  Inv'
<1>1. req[r] \in RequestState /\ Known(r) /\ req[r].at = "evict"
    BY RequestType DEF Evict, At
<1>2. /\ req[r].op \in SigningOp /\ req[r].staff \in Staff /\ req[r].role = None
      /\ req[r].views = {}
      /\ \A x \in Sessions : req[r].rows[x] # None =>
            /\ req[r].rows[x].staff = req[r].staff
            /\ Seen(sessions, r)[x] # None /\ Seen(sessions, r)[x].staff = req[r].staff
    BY <1>1 DEF Known, HandlerOK, ViewsPending
<1>3. UNCHANGED <<staff, reports, cases, log, shown>>
    BY DEF Evict
<1>4. CASE LiveIn(req[r].rows) = {}
    <2> DEFINE q == [req[r] EXCEPT !.at = "commit", !.staff = None]
    <2>0. "commit" \in Places
        BY DEF Places
    <2>1. /\ q \in RequestState /\ q.at = "commit" /\ q.role = None /\ q.views = {}
        BY ZenonT(60), <1>1, <1>2, <2>0 DEF RequestState
    <2>2. req' = [req EXCEPT ![r] = q] /\ UNCHANGED sessions
        BY <1>1, <1>4, RequestType DEF Evict, RequestState
    <2> HIDE DEF q
    <2>3. OnlyRequest(r) /\ req'[r] = q
        BY <2>1, <2>2, RequestType DEF OnlyRequest
    <2>4. Known(r)'
        BY <2>1, <2>3 DEF Known, HandlerOK, Appointed, ViewsPending
    <2>5. TablesStep(r)
        BY <1>3, <2>2, SameTables DEF tables
    <2> QED
        BY <1>3, <2>3, <2>4, <2>5, StepKeepsInv
<1>5. CASE LiveIn(req[r].rows) # {}
    <2>1. PICK s \in LiveIn(req[r].rows) :
             /\ FreeFor(sessions, s, r)
             /\ sessions' = Put(sessions, s, r, [req[r].rows[s] EXCEPT !.status = "revoked"])
             /\ req' = [req EXCEPT ![r].rows[s] = None]
        BY <1>5 DEF Evict
    <2>2. s \in Sessions /\ req[r].rows[s] # None
        BY DEF LiveIn
    <2> DEFINE row == [req[r].rows[s] EXCEPT !.status = "revoked"]
               after == [req[r].rows EXCEPT ![s] = None]
               q == [req[r] EXCEPT !.rows = after]
    <2>3. req[r].rows \in [Sessions -> SessionRow \cup {None}]
        BY <1>1 DEF RequestState
    <2>4. row \in SessionRow /\ row.staff = req[r].staff
        BY <1>2, <2>2, <2>3 DEF SessionRow
    <2>5. after \in [Sessions -> SessionRow \cup {None}]
        BY <2>3
    <2>6. sessions[s].row # None => row.staff = sessions[s].row.staff
        <3>1. Seen(sessions, r)[s].staff = req[r].staff
            BY <1>2, <2>2
        <3>2. Seen(sessions, r)[s] \in {sessions[s].row, sessions[s].next}
            BY <2>2 DEF Seen, Inv, TypeOK
        <3>3. sessions[s].row # None => sessions[s].next.staff = sessions[s].row.staff
            BY <2>2 DEF Inv, SessionsKept
        <3> QED
            BY <2>4, <3>1, <3>2, <3>3
    <2> HIDE DEF row
    <2>7. sessions' = Put(sessions, s, r, row)
        BY <2>1 DEF row
    <2>8. /\ sessions' \in [Sessions -> Versions(SessionRow \cup {None}, Requests)]
          /\ SessionsKept' /\ SessionsStand
          /\ \A x \in Requests \ {r} : Seen(sessions, x)' = Seen(sessions, x)
        BY <2>1, <2>2, <2>4, <2>6, <2>7, PutSession
    <2>9. DOMAIN sessions = Sessions
        BY DEF Inv, TypeOK
    <2>10. Seen(sessions, r)' = [Seen(sessions, r) EXCEPT ![s] = row]
        <3>1. Seen(Put(sessions, s, r, row), r) = [Seen(sessions, r) EXCEPT ![s] = row]
            BY <2>2, <2>9, OwnPutSeen
        <3> QED
            BY <2>7, <3>1
    <2>11. DOMAIN Seen(sessions, r) = Sessions
        BY <2>9 DEF Seen
    <2>12. \A x \in Sessions : after[x] # None =>
             /\ after[x].staff = req[r].staff
             /\ Seen(sessions, r)'[x] # None /\ Seen(sessions, r)'[x].staff = req[r].staff
        BY <1>2, <2>2, <2>3, <2>10, <2>11
    <2> HIDE DEF after
    <2>13. /\ q \in RequestState /\ q.at = "evict" /\ q.rows = after /\ q.op = req[r].op
           /\ q.staff = req[r].staff /\ q.role = req[r].role /\ q.views = req[r].views
        BY <1>1, <2>5 DEF RequestState
    <2>14. req' = [req EXCEPT ![r] = q]
        BY <1>1, <2>1, RequestType DEF RequestState, after
    <2> HIDE DEF q
    <2>15. OnlyRequest(r) /\ req'[r] = q
        BY <2>13, <2>14, RequestType DEF OnlyRequest
    <2>16. Known(r)'
        <3>1. HandlerOK(r)'
            BY <1>2, <2>12, <2>13, <2>15 DEF HandlerOK
        <3> QED
            BY <1>2, <2>13, <2>15, <3>1 DEF Known, Appointed, ViewsPending
    <2>17. TablesStep(r)
        BY <1>3, <2>8, SameCases DEF TablesStep, StillSeen, Inv, TypeOK
    <2> QED
        BY <1>3, <2>15, <2>16, <2>17, StepKeepsInv
<1> QED
    BY <1>4, <1>5

(* What a handler's step does to its own request, in one form.               *)
LEMMA Moved ==
    ASSUME Inv, NEW r \in Requests, NEW q \in RequestState, req' = [req EXCEPT ![r] = q]
    PROVE  OnlyRequest(r) /\ req'[r] = q
  BY RequestType DEF OnlyRequest

(* A refusal leaves nothing but the request itself.                          *)
LEMMA RefuseStep ==
    ASSUME Inv, NEW r \in Requests, Refuse(r), UNCHANGED <<tables, log, shown>>
    PROVE  Inv'
<1>1. OnlyRequest(r) /\ req'[r] = Idle
    BY IdleType, Moved DEF Refuse
<1> QED
    BY <1>1, IdleKnows, SameTables, StepKeepsInv

LEMMA FindSessionStep ==
    ASSUME Inv, NEW r \in Requests, NEW op \in DeskOp, NEW s \in Sessions,
           NEW claim \in Staff \cup {None}, NEW report \in Reports \cup {None},
           NEW case \in Cases \cup {None},
           IF op = "open" THEN report \in Reports /\ case = None ELSE case \in Cases,
           FindSession(r, op, s, claim, report, case)
    PROVE  Inv'
<1> DEFINE row == Stored(sessions)[s]
           entitled == Entitles(Stored(staff)[row.staff], op)
           q == [Idle EXCEPT !.op = op, !.at = "find_identity", !.session = s,
                     !.staff = row.staff, !.claim = claim, !.report = report, !.case = case,
                     !.entitled = entitled]
<1>1. req' = [req EXCEPT ![r] = q] /\ row # None /\ UNCHANGED <<tables, log, shown>>
    BY DEF FindSession, Begin
<1>2. sessions \in [Sessions -> Versions(SessionRow \cup {None}, Requests)]
      /\ staff \in [Staff -> Versions(Identity, {None})]
    BY DEF Inv, TypeOK
<1>3. row = sessions[s].row /\ row \in SessionRow
    BY <1>1, <1>2 DEF Stored, Versions
<1>4. row.staff \in Staff
    BY <1>3 DEF SessionRow
<1>5. Stored(staff)[row.staff] = staff[row.staff].row
    BY <1>2, <1>4 DEF Stored
<1>6. entitled \in BOOLEAN
    BY DEF Entitles
<1> HIDE DEF row
<1>7. entitled = Entitles(staff[row.staff].row, op)
    BY <1>5
<1> HIDE DEF entitled
<1>8. /\ q \in RequestState
      /\ q.op = op /\ q.at = "find_identity" /\ q.session = s /\ q.staff = row.staff
      /\ q.report = report /\ q.case = case /\ q.entitled = entitled
      /\ q.role = None /\ q.views = {}
    <2>1. op \in Ops /\ "find_identity" \in Places
        BY DEF DeskOp, Ops, Places
    <2>2. Idle \in RequestState /\ Idle.role = None /\ Idle.views = {}
        BY IdleType
    <2>3. q \in RequestState
        <3> DEFINE half == [Idle EXCEPT !.op = op, !.at = "find_identity", !.session = s,
                                        !.staff = row.staff]
        <3>1. half \in RequestState
            BY ZenonT(60), <1>4, <2>1, <2>2 DEF RequestState
        <3>2. q = [half EXCEPT !.claim = claim, !.report = report, !.case = case,
                               !.entitled = entitled]
            OBVIOUS
        <3> HIDE DEF half, q
        <3> QED
            BY <1>6, <3>1, <3>2 DEF RequestState
    <2>4. /\ q.op = op /\ q.at = "find_identity" /\ q.session = s /\ q.staff = row.staff
          /\ q.report = report /\ q.case = case /\ q.entitled = entitled
          /\ q.role = None /\ q.views = {}
        BY <2>2 DEF Idle
    <2> QED
        BY <2>3, <2>4
<1> HIDE DEF q
<1>9. OnlyRequest(r) /\ req'[r] = q
    BY <1>1, <1>8, Moved
<1>10. HandlerOK(r)'
    <2>1. sessions' = sessions /\ staff' = staff
        BY <1>1 DEF tables
    <2> QED
        BY <1>1, <1>3, <1>4, <1>7, <1>8, <1>9, <2>1 DEF HandlerOK
<1>11. Known(r)'
    BY <1>8, <1>9, <1>10 DEF Known, Appointed, ViewsPending
<1> QED
    BY <1>1, <1>9, <1>11, SameTables, StepKeepsInv

LEMMA FindIdentityStep ==
    ASSUME Inv, NEW r \in Requests, FindIdentity(r)
    PROVE  Inv'
<1> DEFINE role == RoleNow(r)
           op == req[r].op
           named == IF op = "read" THEN req[r].staff ELSE Names(r)
           q == [req[r] EXCEPT !.role = role, !.at = First[op], !.claim = None, !.staff = named]
<1>1. req[r] \in RequestState /\ Known(r) /\ req[r].at = "find_identity"
    BY RequestType DEF FindIdentity, At
<1>2. /\ op \in DeskOp /\ req[r].staff \in Staff
      /\ IF op = "open" THEN req[r].report \in Reports /\ req[r].case = None
                        ELSE req[r].case \in Cases
      /\ Entitles(staff[req[r].staff].row, op) => req[r].entitled
      /\ req[r].views = {}
    BY <1>1 DEF Known, HandlerOK, ViewsPending
<1>3. UNCHANGED <<tables, log, shown>>
    BY DEF FindIdentity
<1>4. CASE Refuse(r)
    BY <1>3, <1>4, RefuseStep
<1>5. CASE ~Refuse(r)
    <2>1. /\ role # None /\ (op = "read" \/ Names(r) # None)
          /\ Authorize(role, op, req[r].case # None, op = "read" \/ Names(r) # None)
          /\ req' = [req EXCEPT ![r].role = role, ![r].at = First[op], ![r].claim = None,
                                ![r].staff = IF op = "read" THEN @ ELSE Names(r)]
        BY <1>5 DEF FindIdentity
    <2>2. named = req[r].staff
        BY <2>1 DEF Names
    <2>3. staff \in [Staff -> Versions(Identity, {None})]
        BY DEF Inv, TypeOK
    <2>4. /\ Stored(staff)[req[r].staff] = staff[req[r].staff].row
          /\ staff[req[r].staff].row \in Identity
        BY <1>2, <2>3 DEF Stored, Versions
    <2>5. /\ role = staff[req[r].staff].row.role /\ role \in StaffRoles
          /\ staff[req[r].staff].row.status = "active"
        BY <2>1, <2>4 DEF RoleNow, MayAuthenticate, Identity
    <2>6. Entitles(staff[req[r].staff].row, op)
        <3>1. req[r].case # None <=> op # "open"
            BY <1>2, CaseDeskAssumption DEF DeskOp
        <3>2. Authorize(role, op, op # "open", TRUE)
            BY <2>1, <3>1 DEF Authorize
        <3> QED
            BY <2>5, <3>2 DEF Entitles
    <2>7. First[op] \in {"find_report", "find_case"}
          /\ (First[op] = "find_report" <=> op = "open")
        BY <1>2 DEF First, DeskOp
    <2> HIDE DEF role
    <2>8. q \in RequestState
        <3>1. First[op] \in Places
            BY <2>7 DEF Places
        <3>2. named \in Staff
            BY <1>2, <2>2
        <3> HIDE DEF named
        <3> QED
            BY <1>1, <2>5, <3>1, <3>2 DEF RequestState
    <2>9. /\ q.at = First[op] /\ q.op = op /\ q.role = role /\ q.staff = req[r].staff
          /\ q.report = req[r].report /\ q.case = req[r].case
          /\ q.entitled = req[r].entitled /\ q.views = {}
        BY <1>1, <1>2, <2>2 DEF RequestState
    <2>10. req' = [req EXCEPT ![r] = q]
        BY <1>1, <2>1, RequestType DEF RequestState
    <2> HIDE DEF q
    <2>11. OnlyRequest(r) /\ req'[r] = q
        BY <2>8, <2>10, Moved
    <2>12. HandlerOK(r)'
        BY <1>2, <2>5, <2>7, <2>9, <2>11 DEF HandlerOK, DeskOp
    <2>13. Known(r)'
        BY <1>2, <2>6, <2>9, <2>11, <2>12 DEF Known, Appointed, ViewsPending
    <2> QED
        BY <1>3, <2>11, <2>13, SameTables, StepKeepsInv
<1> QED
    BY <1>4, <1>5

(* The directory changes under everyone: whoever holds a session of the      *)
(* member of staff may become entitled by it, and nobody ceases to have been.*)
LEMMA ChangeIdentityStep ==
    ASSUME Inv, NEW m \in Staff, NEW identity \in Identities, ChangeIdentity(m, identity)
    PROVE  Inv'
<1>1. /\ staff \in [Staff -> Versions(Identity, {None})]
      /\ req \in [Requests -> RequestState]
    BY DEF Inv, TypeOK
<1>2. staff' = [staff EXCEPT ![m] = Settled(identity)]
      /\ UNCHANGED <<sessions, reports, cases, log, shown>>
    BY DEF ChangeIdentity
<1>3. identity \in Identity
    BY CaseDeskAssumption DEF Identity
<1>4. staff' \in [Staff -> Versions(Identity, {None})] /\ staff'[m].row = identity
      /\ \A x \in Staff \ {m} : staff'[x] = staff[x]
    BY <1>1, <1>2, <1>3 DEF Settled, Versions
<1>5. ASSUME NEW r \in Requests
      PROVE  /\ req'[r] \in RequestState /\ Known(r)'
    <2>1. req[r] \in RequestState /\ Known(r)
        BY RequestType
    <2>0. Seen(sessions, r)' = Seen(sessions, r) /\ Seen(cases, r)' = Seen(cases, r)
        BY <1>2 DEF Seen
    <2> DEFINE theirs == req[r].session # None /\ sessions[req[r].session].row.staff = m
    <2>2. CASE ~theirs
        <3>1. req'[r] = req[r]
            BY <2>2 DEF ChangeIdentity
        <3>2. req[r].at = "find_identity" => req[r].staff # m
            BY <2>1, <2>2, CaseDeskAssumption DEF Known, HandlerOK
        <3>a. req[r].at = "find_identity" =>
                 staff'[req[r].staff].row = staff[req[r].staff].row
            BY <1>4, <2>1, <3>2 DEF Known, HandlerOK
        <3>3. HandlerOK(r)'
            BY <1>2, <2>0, <2>1, <3>1, <3>a DEF Known, HandlerOK
        <3> QED
            BY <2>1, <3>1, <3>3 DEF Known, Appointed, ViewsPending
    <2>3. CASE theirs
        <3> DEFINE e == req[r].entitled \/ Entitles(identity, req[r].op)
                   q == [req[r] EXCEPT !.entitled = e]
        <3>1. req'[r] = q
            BY <2>3 DEF ChangeIdentity
        <3>2. e \in BOOLEAN
            OBVIOUS
        <3>3. (req[r].entitled => e) /\ (Entitles(identity, req[r].op) => e)
            OBVIOUS
        <3> HIDE DEF e
        <3>4. /\ q \in RequestState /\ q.at = req[r].at /\ q.op = req[r].op
              /\ q.staff = req[r].staff /\ q.role = req[r].role /\ q.session = req[r].session
              /\ q.rows = req[r].rows /\ q.report = req[r].report /\ q.case = req[r].case
              /\ q.views = req[r].views /\ q.pending = req[r].pending /\ q.entitled = e
            BY <2>1, <3>2 DEF RequestState
        <3> HIDE DEF q
        <3>5. req[r].at = "find_identity" => req[r].staff = m
            BY <2>1, <2>3 DEF Known, HandlerOK
        <3>6. HandlerOK(r)'
            <4>1. req[r].at = "find_identity" => staff'[req[r].staff].row = identity
                BY <1>4, <3>5
            <4>2. req[r].at = "find_identity" =>
                     (Entitles(staff'[req[r].staff].row, req[r].op) => e)
                BY <3>3, <4>1
            <4> QED
                BY <1>2, <2>0, <2>1, <3>1, <3>4, <4>2 DEF Known, HandlerOK
        <3> QED
            BY <2>1, <3>1, <3>3, <3>4, <3>6 DEF Known, Appointed, ViewsPending
    <2> QED
        BY <2>2, <2>3
<1>6. req' \in [Requests -> RequestState]
    <2>1. req' = [r \in Requests |-> req'[r]]
        BY DEF ChangeIdentity
    <2> QED
        BY <1>5, <2>1
<1>7. TypeOK'
    BY <1>2, <1>4, <1>6 DEF Inv, TypeOK
<1> QED
    BY <1>2, <1>5, <1>7 DEF Inv, CasesKept, SessionsKept, EntryOf

(* The tables of a request that has written a case, and one that has written *)
(* a report.                                                                 *)
LEMMA CaseTables ==
    ASSUME Inv, NEW r \in Requests, NEW c \in Cases, NEW row \in CaseRow,
           FreeFor(cases, c, r), cases' = Put(cases, c, r, row),
           UNCHANGED <<staff, sessions, reports>>
    PROVE  TablesStep(r)
<1>1. reports' \in [Reports -> Versions(ReportRow \cup {None}, Requests)] /\ staff' = staff
    BY DEF Inv, TypeOK
<1> QED
    BY <1>1, PutCase, SameSessions DEF TablesStep, StillSeen

LEMMA ReportTables ==
    ASSUME Inv, NEW r \in Requests, NEW p \in Reports, NEW row \in ReportRow,
           reports' = Put(reports, p, r, row), UNCHANGED <<staff, sessions, cases>>
    PROVE  TablesStep(r)
<1>1. reports \in [Reports -> Versions(ReportRow \cup {None}, Requests)]
    BY DEF Inv, TypeOK
<1>2. reports' \in [Reports -> Versions(ReportRow \cup {None}, Requests)]
    BY <1>1, TableTypes
<1> QED
    BY <1>2, SameCases, SameSessions DEF TablesStep, StillSeen

LEMMA EntryType ==
    ASSUME NEW action \in {"report.submitted", "evidence.captured", "report.triaged",
                           "case.opened", "evidence.read", "evidence.read_denied",
                           "case.assigned", "case.review_started", "decision.recorded",
                           "decision"},
           NEW actor \in Staff \cup {"system", "member"}, NEW report \in Reports \cup {None},
           NEW case \in Cases \cup {None}
    PROVE  Entry(action, actor, report, case) \in LogEntries
  BY DEF Entry, LogEntries

LEMMA InsertReportStep ==
    ASSUME Inv, NEW r \in Requests, NEW p \in Reports, NEW reason \in Reasons,
           NEW reporter \in Reporters, InsertReport(r, p, reason, reporter)
    PROVE  Inv'
<1> DEFINE entries == Submission(p, reporter)
           q == [Idle EXCEPT !.op = "report", !.at = "observe", !.report = p,
                             !.pending = entries]
<1>1. /\ req' = [req EXCEPT ![r] = q]
      /\ reports' = Put(reports, p, r, [state |-> "submitted", reason |-> reason])
      /\ UNCHANGED <<staff, sessions, cases, log, shown>>
    BY DEF InsertReport, Begin
<1>2. entries \in SUBSET LogEntries
    BY CaseDeskAssumption, EntryType DEF Submission
<1>3. [state |-> "submitted", reason |-> reason] \in ReportRow
    BY CaseDeskAssumption DEF ReportRow, ReportStates
<1>4. TablesStep(r)
    BY <1>1, <1>3, ReportTables
<1> HIDE DEF entries
<1>5. /\ q \in RequestState
      /\ q.at = "observe" /\ q.role = None /\ q.views = {}
    <2>1. "observe" \in Places /\ "report" \in Ops
        BY DEF Places, Ops
    <2> QED
        BY ZenonT(60), <1>2, <2>1, IdleType DEF RequestState
<1> HIDE DEF q
<1>6. OnlyRequest(r) /\ req'[r] = q
    BY <1>1, <1>5, Moved
<1>7. Known(r)'
    BY <1>5, <1>6 DEF Known, HandlerOK, Appointed, ViewsPending
<1> QED
    BY <1>1, <1>4, <1>6, <1>7, StepKeepsInv

LEMMA ObserveReportStep ==
    ASSUME Inv, NEW r \in Requests, ObserveReport(r)
    PROVE  Inv'
<1>1. req[r] \in RequestState /\ Known(r) /\ req[r].at = "observe"
    BY RequestType DEF ObserveReport, At
<1>2. UNCHANGED <<staff, sessions, reports, log, shown>>
    BY DEF ObserveReport
<1>3. "commit" \in Places
    BY DEF Places
<1>4. req[r].views = {} /\ Appointed(r)
    BY <1>1 DEF Known, ViewsPending
<1>5. CASE UNCHANGED cases /\ Goto(r, "commit")
    <2> DEFINE q == [req[r] EXCEPT !.at = "commit"]
    <2>1. /\ q \in RequestState
          /\ q.at = "commit" /\ q.role = req[r].role /\ q.views = {}
          /\ q.entitled = req[r].entitled
        BY <1>1, <1>3, <1>4 DEF RequestState
    <2>2. req' = [req EXCEPT ![r] = q]
        BY <1>1, <1>5, RequestType DEF Goto, RequestState
    <2> HIDE DEF q
    <2>3. OnlyRequest(r) /\ req'[r] = q
        BY <2>1, <2>2, Moved
    <2>4. Known(r)'
        BY <1>4, <2>1, <2>3 DEF Known, HandlerOK, Appointed, ViewsPending
    <2> QED
        BY <1>2, <1>5, <2>3, <2>4, SameTables, StepKeepsInv DEF tables
<1>6. ASSUME NEW c \in FreshCases, NEW origin \in Detected,
             cases' = Put(cases, c, r, OpenCase(origin, None, "system")),
             req' = [req EXCEPT ![r].at = "commit",
                            ![r].pending = @ \cup {Entry("evidence.captured", "system", None, c),
                                                   Entry("case.opened", "system", None, c)}]
      PROVE  Inv'
    <2> DEFINE entries == req[r].pending \cup
                  {Entry("evidence.captured", "system", None, c),
                   Entry("case.opened", "system", None, c)}
               q == [req[r] EXCEPT !.at = "commit", !.pending = entries]
    <2>1. c \in Cases /\ FreeFor(cases, c, r)
        BY DEF FreshCases, FreeFor, Settled
    <2>2. OpenCase(origin, None, "system") \in CaseRow
        BY CaseDeskAssumption DEF OpenCase, CaseRow, CaseStates
    <2>3. TablesStep(r)
        BY <1>2, <1>6, <2>1, <2>2, CaseTables
    <2>4. entries \in SUBSET LogEntries
        <3>1. req[r].pending \in SUBSET LogEntries
            BY <1>1 DEF RequestState
        <3>2. /\ Entry("evidence.captured", "system", None, c) \in LogEntries
              /\ Entry("case.opened", "system", None, c) \in LogEntries
            BY <2>1, EntryType
        <3> QED
            BY <3>1, <3>2
    <2>5. req' = [req EXCEPT ![r] = q]
        BY <1>1, <1>6, RequestType DEF RequestState
    <2> HIDE DEF entries
    <2>6. /\ q \in RequestState
          /\ q.at = "commit" /\ q.role = req[r].role /\ q.views = {}
          /\ q.entitled = req[r].entitled
        BY <1>1, <1>3, <1>4, <2>4 DEF RequestState
    <2> HIDE DEF q
    <2>7. OnlyRequest(r) /\ req'[r] = q
        BY <2>5, <2>6, Moved
    <2>8. Known(r)'
        BY <1>4, <2>6, <2>7 DEF Known, HandlerOK, Appointed, ViewsPending
    <2> QED
        BY <1>2, <2>3, <2>7, <2>8, StepKeepsInv
<1> QED
    BY <1>5, <1>6 DEF ObserveReport

LEMMA FindReportStep ==
    ASSUME Inv, NEW r \in Requests, FindReport(r)
    PROVE  Inv'
<1>1. req[r] \in RequestState /\ Known(r) /\ req[r].at = "find_report"
    BY RequestType DEF FindReport, At
<1>2. UNCHANGED <<tables, log, shown>>
    BY DEF FindReport
<1>3. CASE Refuse(r)
    BY <1>2, <1>3, RefuseStep
<1>4. CASE ~Refuse(r)
    <2> DEFINE entries == {Entry("report.triaged", req[r].staff, req[r].report, None)}
               q == [req[r] EXCEPT !.at = "insert_case", !.pending = entries]
    <2>1. req' = [req EXCEPT ![r].at = "insert_case", ![r].pending = entries]
        BY <1>4 DEF FindReport
    <2>2. /\ req[r].op = "open" /\ req[r].staff \in Staff /\ req[r].report \in Reports
          /\ req[r].views = {} /\ Appointed(r)
        BY <1>1 DEF Known, HandlerOK, ViewsPending
    <2>3. entries \in SUBSET LogEntries
        BY <2>2, EntryType
    <2>4. req' = [req EXCEPT ![r] = q]
        BY <1>1, <2>1, RequestType DEF RequestState
    <2>5. "insert_case" \in Places
        BY DEF Places
    <2> HIDE DEF entries
    <2>6. /\ q \in RequestState
          /\ q.at = "insert_case" /\ q.op = req[r].op /\ q.staff = req[r].staff
          /\ q.report = req[r].report /\ q.role = req[r].role /\ q.views = {}
          /\ q.entitled = req[r].entitled
        BY <1>1, <2>2, <2>3, <2>5 DEF RequestState
    <2> HIDE DEF q
    <2>7. OnlyRequest(r) /\ req'[r] = q
        BY <2>4, <2>6, Moved
    <2>8. Known(r)'
        BY <2>2, <2>6, <2>7 DEF Known, HandlerOK, Appointed, ViewsPending
    <2> QED
        BY <1>2, <2>7, <2>8, SameTables, StepKeepsInv
<1> QED
    BY <1>3, <1>4

LEMMA InsertCaseStep ==
    ASSUME Inv, NEW r \in Requests, NEW c \in Cases, InsertCase(r, c)
    PROVE  Inv'
<1> DEFINE entries == req[r].pending \cup {Entry("case.opened", req[r].staff, None, c)}
           q == [req[r] EXCEPT !.at = "commit", !.pending = entries]
<1>1. req[r] \in RequestState /\ Known(r) /\ req[r].at = "insert_case"
    BY RequestType DEF InsertCase, At
<1>2. /\ UNCHANGED <<staff, sessions, reports, log, shown>>
      /\ FreeFor(cases, c, r)
      /\ cases' = Put(cases, c, r, OpenCase("user_report", req[r].report, req[r].staff))
    BY DEF InsertCase, FreshCases, FreeFor, Settled
<1>3. req[r].staff \in Staff /\ req[r].report \in Reports /\ req[r].views = {} /\ Appointed(r)
    BY <1>1 DEF Known, HandlerOK, ViewsPending
<1>4. OpenCase("user_report", req[r].report, req[r].staff) \in CaseRow
    BY <1>3 DEF OpenCase, CaseRow, CaseStates, Origins
<1>5. TablesStep(r)
    BY <1>2, <1>4, CaseTables
<1>6. entries \in SUBSET LogEntries
    <2>1. req[r].pending \in SUBSET LogEntries
        BY <1>1 DEF RequestState
    <2>2. Entry("case.opened", req[r].staff, None, c) \in LogEntries
        BY <1>3, EntryType
    <2> QED
        BY <2>1, <2>2
<1>7. req' = [req EXCEPT ![r] = q]
    BY <1>1, RequestType DEF InsertCase, RequestState
<1>8. "commit" \in Places
    BY DEF Places
<1> HIDE DEF entries
<1>9. /\ q \in RequestState
      /\ q.at = "commit" /\ q.role = req[r].role /\ q.views = {}
      /\ q.entitled = req[r].entitled
    BY <1>1, <1>3, <1>6, <1>8 DEF RequestState
<1> HIDE DEF q
<1>10. OnlyRequest(r) /\ req'[r] = q
    BY <1>7, <1>9, Moved
<1>11. Known(r)'
    BY <1>3, <1>9, <1>10 DEF Known, HandlerOK, Appointed, ViewsPending
<1> QED
    BY <1>2, <1>5, <1>10, <1>11, StepKeepsInv

LEMMA FindCaseStep ==
    ASSUME Inv, NEW r \in Requests, FindCase(r)
    PROVE  Inv'
<1> DEFINE row == Seen(cases, r)[req[r].case]
<1>1. req[r] \in RequestState /\ Known(r) /\ req[r].at = "find_case"
    BY RequestType DEF FindCase, At
<1>2. /\ req[r].op \in {"read", "decide"} /\ req[r].staff \in Staff /\ req[r].case \in Cases
      /\ req[r].role \in StaffRoles /\ req[r].views = {} /\ Appointed(r)
    BY <1>1 DEF Known, HandlerOK, ViewsPending
<1>3. UNCHANGED <<tables, log, shown>> /\ UNCHANGED cases
    BY DEF FindCase, tables
<1>4. CASE Refuse(r)
    BY <1>3, <1>4, RefuseStep
<1>5. CASE ~Refuse(r) /\ req[r].op = "read"
    <2> DEFINE q == [req[r] EXCEPT !.at = "read_report", !.report = row.report]
    <2>1. row # None /\ req' = [req EXCEPT ![r].at = "read_report", ![r].report = row.report]
        BY <1>5 DEF FindCase
    <2>2. Seen(cases, r) \in [Cases -> CaseRow \cup {None}]
        BY TableTypes DEF Inv, TypeOK
    <2>3. row \in CaseRow
        BY <1>2, <2>1, <2>2
    <2> HIDE DEF row
    <2>4. row.report \in Reports \cup {None} /\ "read_report" \in Places
        BY <2>3 DEF CaseRow, Places
    <2>5. /\ q \in RequestState
          /\ q.at = "read_report" /\ q.op = req[r].op /\ q.staff = req[r].staff
          /\ q.case = req[r].case /\ q.role = req[r].role /\ q.views = {}
          /\ q.entitled = req[r].entitled
        BY <1>1, <1>2, <2>4 DEF RequestState
    <2>6. req' = [req EXCEPT ![r] = q]
        BY <1>1, <2>1, RequestType DEF RequestState
    <2> HIDE DEF q
    <2>7. OnlyRequest(r) /\ req'[r] = q
        BY <2>5, <2>6, Moved
    <2>8. Known(r)'
        BY <1>2, <2>5, <2>7 DEF Known, HandlerOK, Appointed, ViewsPending
    <2> QED
        BY <1>3, <2>7, <2>8, SameTables, StepKeepsInv
<1>6. CASE ~Refuse(r) /\ req[r].op = "decide"
    <2> DEFINE entries == {Entry(action, req[r].staff, None, req[r].case) :
                    action \in {"case.assigned", "case.review_started", "decision.recorded"}}
               q == [req[r] EXCEPT !.at = "update_case", !.pending = entries]
    <2>1. row # None /\ req' = [req EXCEPT ![r].at = "update_case", ![r].pending = entries]
        BY <1>6 DEF FindCase
    <2>2. entries \in SUBSET LogEntries
        <3>1. ASSUME NEW action \in {"case.assigned", "case.review_started",
                                     "decision.recorded"}
              PROVE  Entry(action, req[r].staff, None, req[r].case) \in LogEntries
            BY <1>2, EntryType
        <3> QED
            BY <3>1
    <2> HIDE DEF entries
    <2>3. "update_case" \in Places
        BY DEF Places
    <2>4. /\ q \in RequestState
          /\ q.at = "update_case" /\ q.op = req[r].op /\ q.staff = req[r].staff
          /\ q.case = req[r].case /\ q.role = req[r].role /\ q.views = {}
          /\ q.entitled = req[r].entitled
        BY <1>1, <1>2, <2>2, <2>3 DEF RequestState
    <2>5. req' = [req EXCEPT ![r] = q]
        BY <1>1, <2>1, RequestType DEF RequestState
    <2>6. Seen(cases, r)'[req[r].case] # None
        <3>1. Seen(cases, r)' = Seen(cases, r)
            BY <1>3 DEF Seen
        <3> QED
            BY <2>1, <3>1
    <2> HIDE DEF q
    <2>7. OnlyRequest(r) /\ req'[r] = q
        BY <2>4, <2>5, Moved
    <2>8. Known(r)'
        BY <1>2, <2>4, <2>6, <2>7 DEF Known, HandlerOK, Appointed, ViewsPending
    <2> QED
        BY <1>3, <2>7, <2>8, SameTables, StepKeepsInv
<1> QED
    BY <1>2, <1>4, <1>5, <1>6

LEMMA ReadReportStep ==
    ASSUME Inv, NEW r \in Requests, ReadReport(r)
    PROVE  Inv'
<1> DEFINE views == {[reader |-> req[r].staff, case |-> req[r].case, report |-> p,
                      visibility |-> ViewOf(req[r].role, "report_statement")] :
                         p \in EvidenceOnCase(r)}
           entries == {EntryOf(v) : v \in views}
           q == [req[r] EXCEPT !.at = "commit", !.report = None, !.views = views,
                               !.pending = entries]
<1>1. req[r] \in RequestState /\ Known(r) /\ req[r].at = "read_report"
    BY RequestType DEF ReadReport, At
<1>2. /\ req[r].staff \in Staff /\ req[r].case \in Cases /\ Appointed(r)
    BY <1>1 DEF Known, HandlerOK
<1>3. UNCHANGED <<tables, log, shown>>
    BY DEF ReadReport
<1>4. ViewOf(req[r].role, "report_statement") \in Visibilities
    BY DEF ViewOf, AccessFor, Visibilities
<1>5. views \in SUBSET View
    BY <1>2, <1>4 DEF View, EvidenceOnCase
<1>6. entries \in SUBSET LogEntries
    <2>1. ASSUME NEW v \in View PROVE EntryOf(v) \in LogEntries
        BY EntryType DEF EntryOf, ReadAction, View
    <2> HIDE DEF views
    <2> QED
        BY <1>5, <2>1
<1>7. req' = [req EXCEPT ![r].at = "commit", ![r].report = None, ![r].views = views,
                         ![r].pending = entries]
    BY DEF ReadReport, EntryOf
<1>8. \A v \in views : EntryOf(v) \in entries
    OBVIOUS
<1> HIDE DEF views, entries
<1>9. "commit" \in Places
    BY DEF Places
<1>10. /\ q \in RequestState
       /\ q.at = "commit" /\ q.role = req[r].role /\ q.views = views /\ q.pending = entries
       /\ q.entitled = req[r].entitled
    BY <1>1, <1>5, <1>6, <1>9 DEF RequestState
<1>11. req' = [req EXCEPT ![r] = q]
    BY <1>1, <1>7, RequestType DEF RequestState
<1> HIDE DEF q
<1>12. OnlyRequest(r) /\ req'[r] = q
    BY <1>10, <1>11, Moved
<1>13. Known(r)'
    BY <1>2, <1>8, <1>10, <1>12 DEF Known, HandlerOK, Appointed, ViewsPending
<1> QED
    BY <1>3, <1>12, <1>13, SameTables, StepKeepsInv

LEMMA UpdateCaseStep ==
    ASSUME Inv, NEW r \in Requests, UpdateCase(r)
    PROVE  Inv'
<1> DEFINE c == req[r].case
           row == [Seen(cases, r)[c] EXCEPT !.state = "resolved", !.assigned = req[r].staff]
           entries == {Entry("decision", req[r].staff, None, c)}
           q == [req[r] EXCEPT !.at = "commit", !.inserted = entries]
<1>1. req[r] \in RequestState /\ Known(r) /\ req[r].at = "update_case"
    BY RequestType DEF UpdateCase, At
<1>2. /\ req[r].staff \in Staff /\ c \in Cases /\ Seen(cases, r)[c] # None
      /\ req[r].views = {} /\ Appointed(r)
    BY <1>1 DEF Known, HandlerOK, ViewsPending
<1>3. /\ UNCHANGED <<staff, sessions, reports, log, shown>>
      /\ FreeFor(cases, c, r) /\ cases' = Put(cases, c, r, row)
      /\ req' = [req EXCEPT ![r].at = "commit", ![r].inserted = entries]
    BY DEF UpdateCase
<1>4. row \in CaseRow
    <2>1. Seen(cases, r) \in [Cases -> CaseRow \cup {None}]
        BY TableTypes DEF Inv, TypeOK
    <2>2. Seen(cases, r)[c] \in CaseRow
        BY <1>2, <2>1
    <2> QED
        BY <1>2, <2>2 DEF CaseRow, CaseStates
<1>5. entries \in SUBSET LogEntries
    BY ZenonT(60), <1>2, EntryType
<1> HIDE DEF row, entries
<1>6. TablesStep(r)
    BY <1>2, <1>3, <1>4, CaseTables
<1>7. "commit" \in Places
    BY DEF Places
<1>8. /\ q \in RequestState
      /\ q.at = "commit" /\ q.role = req[r].role /\ q.views = {}
      /\ q.entitled = req[r].entitled
    BY <1>1, <1>2, <1>5, <1>7 DEF RequestState
<1>9. req' = [req EXCEPT ![r] = q]
    BY <1>1, <1>3, RequestType DEF RequestState
<1> HIDE DEF q
<1>10. OnlyRequest(r) /\ req'[r] = q
    BY <1>8, <1>9, Moved
<1>11. Known(r)'
    BY <1>2, <1>8, <1>10 DEF Known, HandlerOK, Appointed, ViewsPending
<1> QED
    BY <1>3, <1>6, <1>10, <1>11, StepKeepsInv

(* What is shown when a request commits was on its list, and its list is     *)
(* written in the same transaction.                                          *)
LEMMA CommitStep ==
    ASSUME Inv, NEW r \in Requests, CommitRequest(r)
    PROVE  Inv'
<1>1. req[r] \in RequestState /\ Known(r)
    BY RequestType
<1>2. /\ req' = [req EXCEPT ![r] = Idle] /\ staff' = staff
      /\ log' = log \cup req[r].inserted \cup req[r].pending
      /\ shown' = shown \cup req[r].views
    BY DEF CommitRequest, Written
<1>3. OnlyRequest(r) /\ req'[r] = Idle
    BY <1>2, IdleType, Moved
<1>4. TablesStep(r)
    BY <1>2, EndTables DEF CommitRequest
<1>5. \A q \in Requests : Known(q)'
    <2>1. Known(r)'
        BY <1>3, IdleKnows
    <2> QED
        BY <1>3, <1>4, <2>1, OthersKnow
<1>6. log' \subseteq LogEntries /\ shown' \subseteq View
    BY <1>1, <1>2 DEF RequestState, Inv, TypeOK
<1>7. \A v \in shown' : EntryOf(v) \in log'
    BY <1>1, <1>2 DEF Inv, Known, ViewsPending
<1>8. TypeOK'
    BY <1>3, <1>4, <1>6 DEF TypeOK, OnlyRequest, TablesStep, Inv
<1> QED
    BY <1>4, <1>5, <1>7, <1>8 DEF Inv, TablesStep, EntryOf

LEMMA AbortStep ==
    ASSUME Inv, NEW r \in Requests, Abort(r)
    PROVE  Inv'
<1>1. OnlyRequest(r) /\ req'[r] = Idle
    BY IdleType, Moved DEF Abort
<1>2. TablesStep(r)
    BY EndTables DEF Abort
<1> QED
    BY <1>1, <1>2, IdleKnows, StepKeepsInv DEF Abort

-----------------------------------------------------------------------------
(* The theorems *)

LEMMA InitInv == Init => Inv
<1> SUFFICES ASSUME Init PROVE Inv
    OBVIOUS
<1>1. \A i \in Identities : i \in Identity
    BY CaseDeskAssumption DEF Identity
<1>2. staff \in [Staff -> Versions(Identity, {None})]
    BY <1>1 DEF Init, Versions, Settled
<1>3. req \in [Requests -> RequestState]
    BY IdleType DEF Init
<1>4. TypeOK
    BY <1>2, <1>3 DEF TypeOK, Init, Versions, Settled
<1>5. CasesKept /\ SessionsKept
    BY DEF Init, CasesKept, SessionsKept, Settled
<1>6. \A r \in Requests : Known(r)
    BY DEF Init, Known, HandlerOK, Appointed, ViewsPending, Idle
<1> QED
    BY <1>4, <1>5, <1>6 DEF Inv, Init

LEMMA NextInv == Inv /\ [Next]_vars => Inv'
<1> SUFFICES ASSUME Inv, [Next]_vars PROVE Inv'
    OBVIOUS
<1>1. CASE UNCHANGED vars
    <2>1. UNCHANGED <<staff, sessions, reports, cases, log, shown, req>>
        BY <1>1 DEF vars
    <2>2. TypeOK' /\ CasesKept' /\ SessionsKept' /\ \A v \in shown' : EntryOf(v) \in log'
        BY <2>1 DEF Inv, TypeOK, CasesKept, SessionsKept, EntryOf
    <2>3. ASSUME NEW r \in Requests
          PROVE  Known(r)'
        <3>1. Seen(sessions, r)' = Seen(sessions, r) /\ Seen(cases, r)' = Seen(cases, r)
            BY <2>1 DEF Seen
        <3>2. Known(r)
            BY DEF Inv
        <3> QED
            BY <2>1, <3>1, <3>2 DEF Known, HandlerOK, Appointed, ViewsPending
    <2> QED
        BY <2>2, <2>3 DEF Inv, EntryOf
<1>2. ASSUME NEW m \in Staff, NEW identity \in Identities, ChangeIdentity(m, identity)
      PROVE  Inv'
    BY <1>2, ChangeIdentityStep
<1>3. ASSUME NEW r \in Requests,
             \/ \E m \in Staff : SignIn(r, m) \/ SignOutAll(r, m)
             \/ ListSessions(r) \/ Evict(r)
             \/ \E s \in Sessions : InsertSession(r, s)
             \/ FindIdentity(r)
             \/ \E p \in Reports, reason \in Reasons, reporter \in Reporters :
                   InsertReport(r, p, reason, reporter)
             \/ ObserveReport(r) \/ FindReport(r)
             \/ \E c \in Cases : InsertCase(r, c)
             \/ FindCase(r) \/ ReadReport(r) \/ UpdateCase(r)
             \/ CommitRequest(r) \/ Abort(r)
      PROVE  Inv'
    BY <1>3, SignInStep, ListSessionsStep, EvictStep, InsertSessionStep, FindIdentityStep,
       InsertReportStep, ObserveReportStep, FindReportStep, InsertCaseStep, FindCaseStep,
       ReadReportStep, UpdateCaseStep, CommitStep, AbortStep
<1>4. ASSUME NEW r \in Requests, NEW s \in Sessions,
             \/ \E m \in Staff, p \in Reports : FindSession(r, "open", s, m, p, None)
             \/ \E c \in Cases : FindSession(r, "read", s, None, None, c)
             \/ \E m \in Staff, c \in Cases : FindSession(r, "decide", s, m, None, c)
      PROVE  Inv'
    BY <1>4, FindSessionStep DEF DeskOp
<1> QED
    BY <1>1, <1>2, <1>3, <1>4 DEF Next

LEMMA Invariance == Spec => []Inv
  BY InitInv, NextInv, PTL DEF Spec

(* Every row, log entry and handler's value keeps its type, for any number   *)
(* of requests in flight.                                                    *)
THEOREM CaseDeskTypeSafety == Spec => []TypeOK
<1>1. Inv => TypeOK
    BY DEF Inv
<1> QED
    BY <1>1, Invariance, PTL

(* Nobody acts at the desk on an appointment they did not hold at some       *)
(* moment since the request began, whatever sessions they have open and      *)
(* however the directory changes meanwhile.                                  *)
THEOREM OnlyTheAppointed == Spec => []OnlyTheAppointedAct
<1>1. Inv => OnlyTheAppointedAct
    BY DEF Inv, Known, Appointed, OnlyTheAppointedAct, Acting
<1> QED
    BY <1>1, Invariance, PTL

(* No reader of evidence is answered, with a record or with a denial, unless *)
(* the audit log holds the entry for it.                                     *)
THEOREM EveryReadIsAudited == Spec => []ReadIsAudited
<1>1. Inv => ReadIsAudited
    BY DEF Inv, EntryOf, ReadIsAudited
<1> QED
    BY <1>1, Invariance, PTL
=============================================================================
