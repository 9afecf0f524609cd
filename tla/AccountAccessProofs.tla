------------------------- MODULE AccountAccessProofs -------------------------
(***************************************************************************)
(* Theorems about AccountAccess, for any accounts, sessions, recoveries    *)
(* and number of requests in flight at once: the types, that a dead        *)
(* session stays dead, that a recovery code works once, that a refresh     *)
(* token is exchanged once, that a recovery signs the account out, and     *)
(* that a deleted account has no session.                                  *)
(***************************************************************************)
EXTENDS AccountAccess, TLAPS

-----------------------------------------------------------------------------
(* Tables and rules *)

LEMMA TableTypes ==
    ASSUME NEW K, NEW Rows, NEW r \in Requests, NEW table \in [K -> Versions(Rows, Requests)]
    PROVE  /\ Seen(table, r) \in [K -> Rows]
           /\ \A k \in K, row \in Rows : Put(table, k, r, row) \in [K -> Versions(Rows, Requests)]
           /\ Commit(table, r) \in [K -> Versions(Rows, Requests)]
           /\ Rollback(table, r) \in [K -> Versions(Rows, Requests)]
  BY DEF Seen, Put, Commit, Rollback, Settled, Versions

LEMMA WithoutOwnType ==
    ASSUME NEW K, NEW Rows, NEW r \in Requests, None \in Rows,
           NEW table \in [K -> Versions(Rows, Requests)]
    PROVE  WithoutOwn(table, r) \in [K -> Versions(Rows, Requests)]
  BY DEF WithoutOwn, Versions

LEMMA RowRules ==
    ASSUME NEW s \in SessionRow, NEW n \in Nat
    PROVE  /\ Revoked(s) \in SessionRow /\ Revoked(s).status # "active"
           /\ Superseded(s) \in SessionRow /\ Superseded(s).status # "active"
           /\ Rotated(s, n) \in SessionRow
<1>1. {Ttl, RefreshWindow} \subseteq Nat
    BY SessionPolicyAssumption
<1>2. /\ Superseded(s) \in SessionRow /\ Superseded(s).status # "active"
    BY DEF Superseded, SessionRow, Statuses
<1>3. /\ Revoked(s) \in SessionRow /\ Revoked(s).status # "active"
    BY DEF Revoked, SessionRow, Statuses
<1>4. Rotated(s, n) \in SessionRow
    <2>1. n + Ttl \in Nat
        BY <1>1
    <2> DEFINE e == n + Ttl
    <2> HIDE DEF e
    <2>2. e \in Nat
        BY <2>1 DEF e
    <2>3. [s EXCEPT !.expires = e, !.active = n] \in SessionRow
        BY <2>2 DEF SessionRow
    <2> QED
        BY <2>3 DEF Rotated, e
<1> QED
    BY <1>2, <1>3, <1>4

LEMMA IssuedType ==
    ASSUME NEW a \in Accounts, NEW p \in Passwords, NEW n \in Nat
    PROVE  Issued(a, p, n) \in SessionRow
  BY SessionPolicyAssumption DEF Issued, SessionRow, Statuses

LEMMA IdleType ==
    /\ Idle \in RequestState /\ Idle.at = "idle" /\ Idle.op = "logout"
    /\ Idle.writes = NoRows /\ Idle.recovery = None /\ Idle.crossed = FALSE
  BY DEF Idle, RequestState, Places, Ops, NoRows

-----------------------------------------------------------------------------
(* The invariant *)

Issuing == {"sign_in", "refresh", "recover"}

(* Places of a handler that knows its account, of one that is completing a   *)
(* recovery, and of one that is completing a deletion.                       *)
Accounted == {"find_credential", "list_sessions", "find_recovery", "insert_recovery",
              "set_password", "schedule", "find_scheduled", "find_deletion", "find_contact",
              "delete_credential", "delete_sessions", "delete_recoveries", "retire_user",
              "write_deletion"}
Recovering == {"set_password", "list_sessions", "write_sessions", "write_recovery",
               "insert_session", "tell_owner"}
Closing == {"find_contact", "delete_credential", "delete_sessions", "delete_recoveries",
            "retire_user", "write_deletion"}

OpsAt == [resolve |-> {"logout_all", "delete", "undo"},
          find_credential |-> {"sign_in", "logout_all", "ask_recovery", "recover"},
          find_session |-> {"refresh", "logout"},
          list_sessions |-> {"sign_in", "logout_all", "recover"},
          insert_session |-> Issuing,
          find_recovery |-> {"ask_recovery", "recover"},
          insert_recovery |-> {"ask_recovery"},
          set_password |-> {"recover"},
          tell_owner |-> {"recover"},
          idle |-> {"logout"}]

(* The local values q of a handler: what it was asked with, what it has     *)
(* worked out, and what its place needs.                                     *)
InputsOK(q) ==
    /\ q.op \in {"sign_in", "recover"} => q.password \in Passwords
    /\ q.op = "ask_recovery" => q.code \in RecoveryIds
ValuesOK(q) ==
    /\ q.op \in Issuing => q.fresh \in SessionIds
    /\ q.recovery # None => q.becomes \in RecoveryRow
    /\ \A s \in SessionIds : q.writes[s] # None => q.writes[s].status # "active"
PlaceFits(q, place) ==
    /\ place \in DOMAIN OpsAt => q.op \in OpsAt[place]
    /\ place \in Accounted => q.account \in Accounts
    /\ place \in {"resolve", "find_session"} => q.token \in SessionIds
    /\ place = "insert_session" => q.issue \in SessionRow
    /\ q.op = "recover" /\ place \in Recovering => q.recovery # None
    /\ q.op = "recover" /\ place = "write_sessions" => q.issue \in SessionRow
    /\ place = "insert_recovery" /\ q.recovery # None => q.becomes.status # "consumed"
    /\ place = "write_recovery" =>
           /\ q.recovery # None
           /\ q.becomes.status = "consumed" => q.op = "recover" /\ q.issue \in SessionRow
    /\ place \in Closing => q.closing \in DeletionRow
HandlerOK(q) ==
    /\ q.at \notin {"idle", "reply"} => InputsOK(q)
    /\ ValuesOK(q) /\ PlaceFits(q, q.at)

(* The session a request will issue is no row yet, and is no other request's.*)
FreshOK(r) ==
    req[r].op \in Issuing => /\ sessions[req[r].fresh].row = None
                             /\ sessions[req[r].fresh].by \in {None, r}
FreshDiffer ==
    \A r, q \in Requests : r # q /\ req[r].op \in Issuing /\ req[q].op \in Issuing =>
        req[r].fresh # req[q].fresh

Dead(row) == row = None \/ row.status # "active"
DeadKept == \A s \in SessionIds : sessions[s].row # None /\ Dead(sessions[s].row) =>
                                      Dead(sessions[s].next)

(* A request that has used a code is completing that recovery, and answers   *)
(* only with the notice in hand.                                             *)
Uses(r, c) == /\ recoveries[c].by = r /\ recoveries[c].next # None
              /\ recoveries[c].next.status = "consumed"
Using == {"write_recovery", "insert_session", "write_sessions", "tell_owner", "failed", "reply"}
CodeOK(r) ==
    \A c \in RecoveryIds : Uses(r, c) =>
        /\ req[r].op = "recover" /\ req[r].at \in Using
        /\ req[r].at # "reply" => req[r].recovery = c /\ req[r].becomes.status = "consumed"
        /\ req[r].at = "reply" => notices[c].by = r
NoticesOnce == \A c \in RecoveryIds : notices[c].by # None => ~notices[c].row

Inv ==
    /\ TypeOK
    /\ \A r \in Requests : HandlerOK(req[r]) /\ FreshOK(r) /\ CodeOK(r)
    /\ FreshDiffer
    /\ DeadKept
    /\ NoticesOnce

-----------------------------------------------------------------------------
(* How a handler moves *)

(* Another request's local values, but for what history notes of them.       *)
OthersStay(r) ==
    \A q \in Requests \ {r} : \E b \in BOOLEAN : req'[q] = [req[q] EXCEPT !.crossed = b]

LEMMA RequestType ==
    ASSUME Inv, NEW r \in Requests
    PROVE  /\ req \in [Requests -> RequestState] /\ req[r] \in RequestState
           /\ HandlerOK(req[r]) /\ FreshOK(r) /\ CodeOK(r)
  BY DEF Inv, TypeOK

LEMMA Moved ==
    ASSUME Inv, NEW r \in Requests, NEW q \in RequestState, req' = [req EXCEPT ![r] = q]
    PROVE  req' \in [Requests -> RequestState] /\ req'[r] = q /\ OthersStay(r)
<1>1. ASSUME NEW p \in Requests \ {r}
      PROVE  \E b \in BOOLEAN : req'[p] = [req[p] EXCEPT !.crossed = b]
    <2>1. req'[p] = req[p] /\ req[p] \in RequestState
        BY RequestType
    <2>2. req[p].crossed \in BOOLEAN /\ req[p] = [req[p] EXCEPT !.crossed = req[p].crossed]
        BY <2>1 DEF RequestState
    <2> QED
        BY <2>1, <2>2
<1> QED
    BY <1>1, RequestType DEF OthersStay

LEMMA OtherFields ==
    ASSUME Inv, NEW r \in Requests, OthersStay(r), NEW q \in Requests \ {r}
    PROVE  /\ req'[q].at = req[q].at /\ req'[q].op = req[q].op
           /\ req'[q].account = req[q].account /\ req'[q].token = req[q].token
           /\ req'[q].fresh = req[q].fresh /\ req'[q].issue = req[q].issue
           /\ req'[q].writes = req[q].writes /\ req'[q].code = req[q].code
           /\ req'[q].password = req[q].password /\ req'[q].recovery = req[q].recovery
           /\ req'[q].becomes = req[q].becomes /\ req'[q].closing = req[q].closing
           /\ req'[q].now = req[q].now
<1>1. PICK b \in BOOLEAN : req'[q] = [req[q] EXCEPT !.crossed = b]
    BY DEF OthersStay
<1> QED
    BY <1>1, RequestType DEF RequestState

LEMMA GoingFields ==
    ASSUME NEW q \in RequestState, NEW place \in Places
    PROVE  /\ Going(q, place) \in RequestState
           /\ Going(q, place).at = place /\ Going(q, place).op = q.op
           /\ Going(q, place).fresh = q.fresh
           /\ place # "reply" => Going(q, place) = [q EXCEPT !.at = place]
           /\ place = "reply" => /\ Going(q, place).writes = NoRows
                                 /\ Going(q, place).recovery = None
<1>1. CASE place = "reply"
    <2> DEFINE i == Idle
    <2>1. i \in RequestState /\ i.writes = NoRows /\ i.recovery = None
        BY IdleType
    <2> HIDE DEF i
    <2>2. Going(q, place) = [i EXCEPT !.at = "reply", !.op = q.op, !.token = q.token,
                                      !.fresh = q.fresh, !.crossed = q.crossed]
        BY <1>1 DEF Going, i
    <2> QED
        BY ZenonT(60), <1>1, <2>1, <2>2 DEF RequestState
<1>2. CASE place # "reply"
    <2>1. Going(q, place) = [q EXCEPT !.at = place]
        BY <1>2 DEF Going
    <2> QED
        BY <1>2, <2>1 DEF RequestState
<1> QED
    BY <1>1, <1>2

(* A handler goes on with the local values q, or answers.                    *)
Kept(r) == /\ req' \in [Requests -> RequestState] /\ OthersStay(r)
           /\ HandlerOK(req'[r])
           /\ req'[r].op = req[r].op /\ req'[r].fresh = req[r].fresh

LEMMA StepOK ==
    ASSUME Inv, NEW r \in Requests, NEW q \in RequestState, NEW place \in Places \ {"idle"},
           req' = [req EXCEPT ![r] = Going(q, place)],
           q.op = req[r].op, q.fresh = req[r].fresh, ValuesOK(q),
           place # "reply" => InputsOK(q) /\ PlaceFits(q, place)
    PROVE  Kept(r) /\ req'[r] = Going(q, place) /\ req'[r].at = place
<1> DEFINE p == Going(q, place)
<1>1. /\ p \in RequestState /\ p.at = place /\ p.op = q.op /\ p.fresh = q.fresh
      /\ place # "reply" => p = [q EXCEPT !.at = place]
      /\ place = "reply" => p.writes = NoRows /\ p.recovery = None
    BY GoingFields
<1> HIDE DEF p
<1>2. req' \in [Requests -> RequestState] /\ OthersStay(r) /\ req'[r] = p
    BY <1>1, Moved DEF p
<1>3. HandlerOK(p)
    <2>1. CASE place = "reply"
        BY <1>1, <2>1
        DEF HandlerOK, ValuesOK, PlaceFits, OpsAt, Accounted, Recovering, Closing, NoRows
    <2>2. CASE place # "reply"
        <3>1. /\ p.op = q.op /\ p.fresh = q.fresh /\ p.writes = q.writes
              /\ p.recovery = q.recovery /\ p.becomes = q.becomes /\ p.account = q.account
              /\ p.token = q.token /\ p.issue = q.issue /\ p.closing = q.closing
              /\ p.password = q.password /\ p.code = q.code
            BY <1>1, <2>2 DEF RequestState
        <3>2. ValuesOK(p) /\ InputsOK(p)
            BY <2>2, <3>1 DEF ValuesOK, InputsOK
        <3>3. PlaceFits(p, place)
            BY <2>2, <3>1 DEF PlaceFits
        <3> QED
            BY <1>1, <3>2, <3>3 DEF HandlerOK
    <2> QED
        BY <2>1, <2>2
<1> QED
    BY <1>1, <1>2, <1>3 DEF Kept, p

LEMMA GotoOK ==
    ASSUME Inv, NEW r \in Requests, NEW place \in Places \ {"idle"}, Goto(r, place),
           req[r].at \notin {"idle", "reply"},
           place # "reply" => PlaceFits(req[r], place)
    PROVE  Kept(r) /\ req'[r] = Going(req[r], place) /\ req'[r].at = place
<1>1. req[r] \in RequestState /\ ValuesOK(req[r]) /\ InputsOK(req[r])
    BY RequestType DEF HandlerOK
<1> QED
    BY <1>1, StepOK DEF Goto

LEMMA ReplyOK ==
    ASSUME Inv, NEW r \in Requests, Reply(r), req[r].at \notin {"idle", "reply"}
    PROVE  Kept(r) /\ req'[r] = Going(req[r], "reply") /\ req'[r].at = "reply"
<1>1. "reply" \in Places \ {"idle"}
    BY DEF Places
<1> QED
    BY <1>1, GotoOK DEF Reply

LEMMA HandlerAt ==
    ASSUME Inv, NEW r \in Requests, NEW place, At(r, place), place \notin {"idle", "reply"}
    PROVE  /\ req[r].at = place /\ req[r] \in RequestState
           /\ InputsOK(req[r]) /\ ValuesOK(req[r]) /\ PlaceFits(req[r], place)
  BY RequestType DEF At, HandlerOK

-----------------------------------------------------------------------------
(* Reading *)

LEMMA Typed ==
    ASSUME Inv
    PROVE  /\ users \in [Accounts -> Versions({"active", "deleted"}, Requests)]
           /\ credentials \in [Accounts -> Versions(Passwords \cup {None}, Requests)]
           /\ sessions \in [SessionIds -> Versions(SessionRow \cup {None}, Requests)]
           /\ recoveries \in [RecoveryIds -> Versions(RecoveryRow \cup {None}, Requests)]
           /\ deletions \in [Accounts -> Versions(DeletionRow \cup {None}, Requests)]
           /\ notices \in [RecoveryIds -> Versions(BOOLEAN, Requests)]
           /\ now \in Nat
<1>1. now \in Nat
    <2>1. now \in 0..MaxNow /\ MaxNow \in Nat
        BY AccessBoundsAssumption DEF Inv, TypeOK
    <2> QED
        BY <2>1
<1> QED
    BY <1>1 DEF Inv, TypeOK

LEMMA SeenTypes ==
    ASSUME Inv, NEW r \in Requests
    PROVE  /\ Seen(credentials, r) \in [Accounts -> Passwords \cup {None}]
           /\ Seen(sessions, r) \in [SessionIds -> SessionRow \cup {None}]
           /\ Seen(recoveries, r) \in [RecoveryIds -> RecoveryRow \cup {None}]
           /\ Seen(deletions, r) \in [Accounts -> DeletionRow \cup {None}]
  BY Typed, TableTypes

LEMMA ResolveKept ==
    ASSUME Inv, NEW r \in Requests, Resolve(r)
    PROVE  Kept(r)
<1> DEFINE s == Session[req[r].token]
           place == CASE req[r].op = "logout_all" -> "find_credential"
                      [] req[r].op = "delete" -> "schedule"
                      [] req[r].op = "undo" -> "find_deletion"
           q == [req[r] EXCEPT !.account = s.owner]
<1>1. /\ req[r].at = "resolve" /\ req[r] \in RequestState
      /\ InputsOK(req[r]) /\ ValuesOK(req[r]) /\ PlaceFits(req[r], "resolve")
    BY HandlerAt DEF Resolve
<1>2. CASE Reply(r)
    BY <1>1, <1>2, ReplyOK
<1>3. CASE ~Reply(r)
    <2>1. /\ s # None
          /\ req' = [req EXCEPT ![r].account = s.owner, ![r].at = place]
        BY <1>3 DEF Resolve
    <2>2. req[r].token \in SessionIds /\ req[r].op \in {"logout_all", "delete", "undo"}
        BY <1>1 DEF PlaceFits, OpsAt
    <2>3. s \in SessionRow
        BY <2>1, <2>2, Typed DEF Session, Stored, Versions
    <2>4. s.owner \in Accounts
        BY <2>3 DEF SessionRow
    <2>5. place \in {"find_credential", "schedule", "find_deletion"}
          /\ (place = "find_credential" => req[r].op = "logout_all")
        BY <2>2
    <2> HIDE DEF s, place
    <2>6. {"find_credential", "schedule", "find_deletion"} \subseteq Places \ {"idle"}
        BY DEF Places
    <2>7. q \in RequestState /\ q.op = req[r].op /\ q.fresh = req[r].fresh /\ q.account = s.owner
          /\ q.writes = req[r].writes /\ q.recovery = req[r].recovery
          /\ q.becomes = req[r].becomes /\ q.password = req[r].password /\ q.code = req[r].code
        BY <1>1, <2>4 DEF RequestState
    <2>8. req' = [req EXCEPT ![r] = Going(q, place)]
        BY <1>1, <2>1, <2>5, RequestType DEF Going, RequestState
    <2> HIDE DEF q
    <2>9. ValuesOK(q) /\ InputsOK(q)
        BY <1>1, <2>7 DEF ValuesOK, InputsOK
    <2>10. PlaceFits(q, place)
        BY <2>2, <2>4, <2>5, <2>7 DEF PlaceFits, OpsAt, Accounted, Recovering, Closing
    <2> QED
        BY <2>5, <2>6, <2>7, <2>8, <2>9, <2>10, StepOK
<1> QED
    BY <1>2, <1>3

LEMMA FindCredentialKept ==
    ASSUME Inv, NEW r \in Requests, FindCredential(r)
    PROVE  Kept(r)
<1>1. /\ req[r].at = "find_credential" /\ PlaceFits(req[r], "find_credential")
    BY HandlerAt DEF FindCredential
<1>2. CASE Reply(r)
    BY <1>1, <1>2, ReplyOK
<1>3. CASE Goto(r, IF req[r].op \in {"sign_in", "logout_all"} THEN "list_sessions"
                                                              ELSE "find_recovery")
    <2> DEFINE place == IF req[r].op \in {"sign_in", "logout_all"} THEN "list_sessions"
                                                                   ELSE "find_recovery"
    <2>1. place \in Places \ {"idle"}
        BY DEF Places
    <2>2. PlaceFits(req[r], place)
        BY <1>1 DEF PlaceFits, OpsAt, Accounted, Recovering, Closing
    <2> HIDE DEF place
    <2>3. Goto(r, place)
        BY <1>3 DEF place
    <2> QED
        BY <1>1, <2>1, <2>2, <2>3, GotoOK
<1> QED
    BY <1>2, <1>3 DEF FindCredential

(* Going on with sessions to write, or to where they are all written.        *)
LEMMA WriteOK ==
    ASSUME Inv, NEW r \in Requests, req[r].at \notin {"idle", "reply"}, NEW q \in RequestState,
           q.op = req[r].op, q.fresh = req[r].fresh, InputsOK(q), ValuesOK(q),
           NEW writes \in [SessionIds -> SessionRow \cup {None}],
           \A s \in SessionIds : writes[s] # None => writes[s].status # "active",
           NEW then \in Places \ {"idle"}, Write(r, q, writes, then),
           then # "reply" => PlaceFits(q, then),
           q.op = "recover" => q.recovery # None /\ q.issue \in SessionRow
    PROVE  Kept(r)
<1> DEFINE p == [q EXCEPT !.writes = writes]
           place == Writing(writes, then)
<1>1. /\ p \in RequestState /\ p.op = q.op /\ p.fresh = q.fresh /\ p.writes = writes
      /\ p.recovery = q.recovery /\ p.becomes = q.becomes /\ p.account = q.account
      /\ p.token = q.token /\ p.issue = q.issue /\ p.closing = q.closing
      /\ p.password = q.password /\ p.code = q.code
    BY DEF RequestState
<1>2. req' = [req EXCEPT ![r] = Going(p, place)]
    BY DEF Write
<1> HIDE DEF p
<1>3. place \in {then, "write_sessions"}
    BY DEF Writing
<1> HIDE DEF place
<1>4. ValuesOK(p) /\ InputsOK(p)
    BY <1>1 DEF ValuesOK, InputsOK
<1>5. "write_sessions" \in Places \ {"idle"}
    BY DEF Places
<1>6. place # "reply" => PlaceFits(p, place)
    BY <1>1, <1>3 DEF PlaceFits, OpsAt, Accounted, Recovering, Closing
<1> QED
    BY <1>1, <1>2, <1>3, <1>4, <1>5, <1>6, StepOK

LEMMA FindSessionKept ==
    ASSUME Inv, NEW r \in Requests, FindSession(r)
    PROVE  Kept(r)
<1> DEFINE s == Seen(sessions, r)[req[r].token]
           q == [req[r] EXCEPT !.account = s.owner]
           One(row) == [NoRows EXCEPT ![req[r].token] = row]
<1>1. /\ req[r].at = "find_session" /\ req[r] \in RequestState
      /\ InputsOK(req[r]) /\ ValuesOK(req[r]) /\ PlaceFits(req[r], "find_session")
    BY HandlerAt DEF FindSession
<1>2. CASE Reply(r)
    BY <1>1, <1>2, ReplyOK
<1>3. CASE ~Reply(r)
    <2>1. s # None
        BY <1>3 DEF FindSession
    <2>2. req[r].token \in SessionIds /\ req[r].op \in {"refresh", "logout"}
        BY <1>1 DEF PlaceFits, OpsAt
    <2>3. s \in SessionRow
        BY <2>1, <2>2, SeenTypes
    <2>4. s.owner \in Accounts /\ req[r].now \in Nat
        BY <1>1, <2>3 DEF SessionRow, RequestState
    <2>5. \A row \in SessionRow : row.status # "active" =>
              /\ One(row) \in [SessionIds -> SessionRow \cup {None}]
              /\ \A t \in SessionIds : One(row)[t] # None => One(row)[t].status # "active"
        BY <2>2 DEF NoRows
    <2>6. /\ q \in RequestState /\ q.op = req[r].op /\ q.fresh = req[r].fresh
          /\ q.account \in Accounts
          /\ q.writes = req[r].writes /\ q.recovery = req[r].recovery
          /\ q.becomes = req[r].becomes /\ q.password = req[r].password /\ q.code = req[r].code
        BY <1>1, <2>4 DEF RequestState
    <2>7. ValuesOK(q) /\ InputsOK(q)
        BY <1>1, <2>6 DEF ValuesOK, InputsOK
    <2>8. CASE req[r].op = "logout"
        <3>1. Write(r, q, One(Revoked(s)), "reply")
            BY <1>3, <2>8 DEF FindSession
        <3>2. Revoked(s) \in SessionRow /\ Revoked(s).status # "active"
            BY <2>3, <2>4, RowRules
        <3>3. "reply" \in Places \ {"idle"}
            BY DEF Places
        <3> DEFINE writes == One(Revoked(s))
        <3>4. /\ writes \in [SessionIds -> SessionRow \cup {None}]
              /\ \A t \in SessionIds : writes[t] # None => writes[t].status # "active"
            BY <2>5, <3>2
        <3> HIDE DEF writes, q
        <3>5. Write(r, q, writes, "reply")
            BY <3>1 DEF writes, q
        <3> QED
            BY <1>1, <2>6, <2>7, <2>8, <3>3, <3>4, <3>5, WriteOK
    <2>9. CASE req[r].op # "logout"
        <3> DEFINE issue == Rotated(s, req[r].now)
                   writes == One(Superseded(s))
                   p == [q EXCEPT !.issue = issue, !.writes = writes]
        <3>1. req' = [req EXCEPT ![r] = [q EXCEPT !.issue = issue, !.writes = writes,
                                                  !.at = "insert_session"]]
            BY <1>3, <2>9 DEF FindSession
        <3>2. /\ Superseded(s) \in SessionRow /\ Superseded(s).status # "active"
              /\ issue \in SessionRow
            BY <2>3, <2>4, RowRules
        <3>3. /\ writes \in [SessionIds -> SessionRow \cup {None}]
              /\ \A t \in SessionIds : writes[t] # None => writes[t].status # "active"
            BY <2>5, <3>2
        <3>4. "insert_session" \in Places \ {"idle"}
            BY DEF Places
        <3> HIDE DEF q, issue, writes
        <3>5. /\ p \in RequestState /\ p.op = req[r].op /\ p.fresh = req[r].fresh
              /\ p.writes = writes /\ p.recovery = q.recovery /\ p.becomes = q.becomes
              /\ p.issue = issue /\ p.password = q.password /\ p.code = q.code
            BY ZenonT(60), <2>6, <3>2, <3>3 DEF RequestState
        <3>6. req' = [req EXCEPT ![r] = Going(p, "insert_session")]
            BY <2>6, <3>1 DEF Going, RequestState
        <3> HIDE DEF p
        <3>7. ValuesOK(p) /\ InputsOK(p)
            BY <2>6, <2>7, <3>3, <3>5 DEF ValuesOK, InputsOK
        <3>8. PlaceFits(p, "insert_session")
            BY <2>2, <2>9, <3>2, <3>5
            DEF PlaceFits, OpsAt, Accounted, Recovering, Closing, Issuing
        <3> QED
            BY <3>4, <3>5, <3>6, <3>7, <3>8, StepOK
    <2> QED
        BY <2>8, <2>9
<1> QED
    BY <1>2, <1>3

LEMMA OwnSessionsType ==
    ASSUME Inv, NEW r \in Requests
    PROVE  /\ DOMAIN OwnSessions(r) \subseteq SessionIds
           /\ \A s \in DOMAIN OwnSessions(r) : OwnSessions(r)[s] \in SessionRow
  BY SeenTypes DEF OwnSessions

(* What a sign-in, a sign-out everywhere and a recovery write are dead rows. *)
LEMMA EndedAreDead ==
    ASSUME NEW held, DOMAIN held \subseteq SessionIds,
           \A s \in DOMAIN held : held[s] \in SessionRow,
           NEW writes, writes \in {EndedByAll(held), EndedByRecovery(held)}
                       \/ \E gone \in SUBSET DOMAIN held : writes = Capped(held, gone)
    PROVE  /\ writes \in [SessionIds -> SessionRow \cup {None}]
           /\ \A s \in SessionIds : writes[s] # None => writes[s].status # "active"
<1>1. \A s \in DOMAIN held : Revoked(held[s]) \in SessionRow
                             /\ Revoked(held[s]).status # "active"
    BY RowRules
<1>2. CASE writes = EndedByAll(held)
    BY <1>1, <1>2 DEF EndedByAll, Live
<1>3. CASE writes = EndedByRecovery(held)
    BY <1>1, <1>3 DEF EndedByRecovery
<1>4. ASSUME NEW gone \in SUBSET DOMAIN held, writes = Capped(held, gone)
      PROVE  /\ writes \in [SessionIds -> SessionRow \cup {None}]
             /\ \A s \in SessionIds : writes[s] # None => writes[s].status # "active"
    BY <1>1, <1>4 DEF Capped
<1> QED
    BY <1>2, <1>3, <1>4

LEMMA ListSessionsKept ==
    ASSUME Inv, NEW r \in Requests, ListSessions(r)
    PROVE  Kept(r)
<1> DEFINE held == OwnSessions(r)
           new == Issued(req[r].account, req[r].password, req[r].now)
           all == [s \in DOMAIN held \cup {req[r].fresh} |->
                       IF s = req[r].fresh THEN new ELSE held[s]]
           q == [req[r] EXCEPT !.issue = new]
<1>1. /\ req[r].at = "list_sessions" /\ req[r] \in RequestState
      /\ InputsOK(req[r]) /\ ValuesOK(req[r]) /\ PlaceFits(req[r], "list_sessions")
    BY HandlerAt DEF ListSessions
<1>2. /\ req[r].op \in {"sign_in", "logout_all", "recover"} /\ req[r].account \in Accounts
      /\ req[r].now \in Nat
    BY <1>1 DEF PlaceFits, OpsAt, Accounted, RequestState
<1>3. DOMAIN held \subseteq SessionIds /\ \A s \in DOMAIN held : held[s] \in SessionRow
    BY OwnSessionsType
<1>4. {"reply", "write_recovery", "insert_session"} \subseteq Places \ {"idle"}
    BY DEF Places
<1>5. CASE req[r].op = "logout_all"
    <2>1. Write(r, req[r], EndedByAll(held), "reply")
        BY <1>5 DEF ListSessions
    <2> HIDE DEF held
    <2> DEFINE writes == EndedByAll(held)
    <2>2. /\ writes \in [SessionIds -> SessionRow \cup {None}]
          /\ \A s \in SessionIds : writes[s] # None => writes[s].status # "active"
        BY <1>3, EndedAreDead
    <2> HIDE DEF writes
    <2>3. Write(r, req[r], writes, "reply")
        BY <2>1 DEF writes
    <2> QED
        BY <1>1, <1>4, <1>5, <2>2, <2>3, WriteOK
<1>6. CASE req[r].op \in {"sign_in", "recover"}
    <2>1. req[r].password \in Passwords /\ req[r].fresh \in SessionIds
        BY <1>1, <1>6 DEF InputsOK, ValuesOK, Issuing
    <2>2. new \in SessionRow
        BY <1>2, <2>1, IssuedType
    <2> HIDE DEF new
    <2>3. /\ q \in RequestState /\ q.op = req[r].op /\ q.fresh = req[r].fresh
          /\ q.issue = new /\ q.writes = req[r].writes /\ q.recovery = req[r].recovery
          /\ q.becomes = req[r].becomes /\ q.password = req[r].password /\ q.code = req[r].code
        BY <1>1, <2>2 DEF RequestState
    <2>4. ValuesOK(q) /\ InputsOK(q)
        BY <1>1, <2>3 DEF ValuesOK, InputsOK
    <2>5. CASE req[r].op = "recover"
        <3>1. Write(r, q, EndedByRecovery(held), "write_recovery")
            BY <2>5 DEF ListSessions, new
        <3> HIDE DEF held, q
        <3> DEFINE writes == EndedByRecovery(held)
        <3>2. /\ writes \in [SessionIds -> SessionRow \cup {None}]
              /\ \A s \in SessionIds : writes[s] # None => writes[s].status # "active"
            BY <1>3, EndedAreDead
        <3> HIDE DEF writes
        <3>3. Write(r, q, writes, "write_recovery")
            BY <3>1 DEF writes
        <3>4. q.recovery # None /\ q.issue \in SessionRow
            BY <1>1, <2>2, <2>3, <2>5 DEF PlaceFits, Recovering
        <3>5. PlaceFits(q, "write_recovery")
            BY <2>3, <2>5, <3>4 DEF PlaceFits, OpsAt, Accounted, Recovering, Closing
        <3> QED
            BY <1>1, <1>4, <2>3, <2>4, <3>2, <3>3, <3>4, <3>5, WriteOK
    <2>6. CASE req[r].op = "sign_in"
        <3>1. PICK gone \in Evictions(all, req[r].fresh) :
                 req' = [req EXCEPT ![r] = [q EXCEPT !.writes = Capped(all, gone),
                                                     !.at = "insert_session"]]
            BY <2>6 DEF ListSessions, new
        <3>2. gone \in SUBSET DOMAIN all
            BY DEF Evictions, Live
        <3>3. DOMAIN all \subseteq SessionIds /\ \A s \in DOMAIN all : all[s] \in SessionRow
            BY <1>3, <2>1, <2>2
        <3> HIDE DEF all, q
        <3> DEFINE writes == Capped(all, gone)
                   p == [q EXCEPT !.writes = writes]
        <3>4. /\ writes \in [SessionIds -> SessionRow \cup {None}]
              /\ \A s \in SessionIds : writes[s] # None => writes[s].status # "active"
            BY <3>2, <3>3, EndedAreDead
        <3> HIDE DEF writes
        <3>5. /\ p \in RequestState /\ p.op = req[r].op /\ p.fresh = req[r].fresh
              /\ p.writes = writes /\ p.recovery = q.recovery /\ p.becomes = q.becomes
              /\ p.issue = new /\ p.password = q.password /\ p.code = q.code
            BY <2>3, <3>4 DEF RequestState
        <3>6. req' = [req EXCEPT ![r] = Going(p, "insert_session")]
            BY <2>3, <3>1 DEF Going, RequestState, writes
        <3> HIDE DEF p
        <3>7. ValuesOK(p) /\ InputsOK(p)
            BY <2>3, <2>4, <3>4, <3>5 DEF ValuesOK, InputsOK
        <3>8. PlaceFits(p, "insert_session")
            BY <2>2, <2>6, <3>5 DEF PlaceFits, OpsAt, Accounted, Recovering, Closing, Issuing
        <3> QED
            BY <1>4, <3>5, <3>6, <3>7, <3>8, StepOK
    <2> QED
        BY <1>6, <2>5, <2>6
<1> QED
    BY <1>2, <1>5, <1>6

LEMMA TakeOK ==
    ASSUME Inv, NEW r \in Requests, req[r].at = "find_recovery",
           NEW c \in RecoveryIds \cup {None}, NEW becomes \in RecoveryRow \cup {None},
           c # None => becomes \in RecoveryRow,
           NEW place \in {"insert_recovery", "set_password", "write_recovery", "reply"},
           place = "insert_recovery" => req[r].op = "ask_recovery",
           place = "set_password" => req[r].op = "recover",
           place \in {"set_password", "write_recovery"} => c # None,
           place \in {"insert_recovery", "write_recovery"} /\ c # None =>
               becomes.status # "consumed",
           req' = [req EXCEPT ![r] = Going([req[r] EXCEPT !.recovery = c, !.becomes = becomes],
                                           place)]
    PROVE  Kept(r)
<1> DEFINE q == [req[r] EXCEPT !.recovery = c, !.becomes = becomes]
<1>1. /\ req[r] \in RequestState /\ InputsOK(req[r]) /\ ValuesOK(req[r])
      /\ PlaceFits(req[r], "find_recovery")
    BY RequestType DEF HandlerOK
<1>2. req[r].op \in {"ask_recovery", "recover"} /\ req[r].account \in Accounts
    BY <1>1 DEF PlaceFits, OpsAt, Accounted
<1>3. /\ q \in RequestState /\ q.op = req[r].op /\ q.fresh = req[r].fresh
      /\ q.account = req[r].account /\ q.writes = req[r].writes /\ q.recovery = c
      /\ q.becomes = becomes /\ q.password = req[r].password /\ q.code = req[r].code
    <2>1. q \in RequestState
        BY ZenonT(60), <1>1 DEF RequestState
    <2>2. /\ q.op = req[r].op /\ q.fresh = req[r].fresh /\ q.account = req[r].account
          /\ q.writes = req[r].writes /\ q.recovery = c /\ q.becomes = becomes
        BY <1>1 DEF RequestState
    <2>3. q.password = req[r].password /\ q.code = req[r].code
        BY <1>1 DEF RequestState
    <2> QED
        BY <2>1, <2>2, <2>3
<1> HIDE DEF q
<1>4. ValuesOK(q) /\ InputsOK(q)
    BY <1>1, <1>3 DEF ValuesOK, InputsOK
<1>5. PlaceFits(q, place)
    BY <1>2, <1>3 DEF PlaceFits, OpsAt, Accounted, Recovering, Closing
<1>6. place \in Places \ {"idle"}
    BY DEF Places
<1> QED
    BY <1>3, <1>4, <1>5, <1>6, StepOK DEF q

LEMMA OpenRecoveryType ==
    ASSUME Inv, NEW r \in Requests, NEW c \in OpenRecoveries(r), NEW accepted \in BOOLEAN
    PROVE  /\ c \in RecoveryIds /\ c # None
           /\ Seen(recoveries, r)[c] \in RecoveryRow
           /\ Answered(r, c, accepted) \in RecoveryRow
           /\ Answered(r, c, accepted).status = "consumed" =>
                  req[r].op = "recover" /\ accepted
<1>1. /\ c \in RecoveryIds /\ Seen(recoveries, r)[c] # None
      /\ Seen(recoveries, r)[c].status = "pending"
    BY DEF OpenRecoveries
<1>2. Seen(recoveries, r)[c] \in RecoveryRow
    BY <1>1, SeenTypes
<1> DEFINE row == Seen(recoveries, r)[c]
<1> HIDE DEF row
<1>3. \A status \in {"consumed", "expired", "locked"} :
         [row EXCEPT !.status = status] \in RecoveryRow
    BY <1>2 DEF RecoveryRow, row
<1>4. [row EXCEPT !.attempts = @ + 1] \in RecoveryRow
    BY <1>2 DEF RecoveryRow, row
<1>5. Answered(r, c, accepted) \in {[row EXCEPT !.status = "consumed"],
          [row EXCEPT !.status = "expired"], [row EXCEPT !.status = "locked"],
          [row EXCEPT !.attempts = @ + 1]}
    BY DEF Answered, row
<1>6. Answered(r, c, accepted).status = "consumed" => req[r].op = "recover" /\ accepted
    <2>1. CASE req[r].op = "recover" /\ ~accepted
        <3>1. Answered(r, c, accepted).status = row.status
            BY <1>2, <2>1 DEF Answered, row, RecoveryRow
        <3> QED
            BY <1>1, <3>1 DEF row
    <2>2. CASE req[r].op # "recover"
        <3>1. Answered(r, c, accepted).status \in {"expired", "locked"}
            BY <1>2, <2>2 DEF Answered, row, RecoveryRow
        <3> QED
            BY <3>1
    <2> QED
        BY <2>1, <2>2
<1> QED
    BY <1>1, <1>2, <1>3, <1>4, <1>5, <1>6, AccessNullAssumption DEF row

LEMMA FindRecoveryKept ==
    ASSUME Inv, NEW r \in Requests, FindRecovery(r)
    PROVE  Kept(r)
<1>1. /\ req[r].at = "find_recovery" /\ PlaceFits(req[r], "find_recovery")
    BY HandlerAt DEF FindRecovery
<1>2. req[r].op \in {"ask_recovery", "recover"}
    BY <1>1 DEF PlaceFits, OpsAt
<1> DEFINE After(c, ok) ==
               CASE req[r].op = "ask_recovery" /\ ok -> "insert_recovery"
                 [] req[r].op = "recover" /\ ok -> "set_password"
                 [] OTHER -> IF c = None THEN "reply" ELSE "write_recovery"
           Becomes(c, ok) == IF c = None THEN None ELSE Answered(r, c, ok)
           Take(c, ok) ==
               req' = [req EXCEPT ![r] = Going([req[r] EXCEPT !.recovery = c,
                                                              !.becomes = Becomes(c, ok)],
                                               After(c, ok))]
<1>3. CASE Reply(r)
    BY <1>1, <1>3, ReplyOK
<1>4. ASSUME NEW admitted \in BOOLEAN, req[r].op = "ask_recovery", Take(None, admitted)
      PROVE  Kept(r)
    <2> DEFINE place == After(None, admitted)
    <2>1. place \in {"insert_recovery", "reply"}
        BY <1>4
    <2>2. Becomes(None, admitted) = None
        OBVIOUS
    <2> HIDE DEF place
    <2>3. req' = [req EXCEPT ![r] = Going([req[r] EXCEPT !.recovery = None, !.becomes = None],
                                          place)]
        BY <1>4, <2>2 DEF place
    <2> QED
        BY ZenonT(60), <1>1, <1>4, <2>1, <2>3, TakeOK
<1>5. ASSUME NEW c \in OpenRecoveries(r), NEW ok \in BOOLEAN, Take(c, ok)
      PROVE  Kept(r)
    <2> DEFINE place == After(c, ok)
               becomes == Answered(r, c, ok)
    <2>1. /\ c \in RecoveryIds /\ c # None /\ becomes \in RecoveryRow
          /\ becomes.status = "consumed" => req[r].op = "recover" /\ ok
        BY OpenRecoveryType
    <2>2. /\ place \in {"insert_recovery", "set_password", "write_recovery"}
          /\ place = "insert_recovery" => req[r].op = "ask_recovery"
          /\ place = "set_password" => req[r].op = "recover"
          /\ place = "write_recovery" => ~(req[r].op = "recover" /\ ok)
        BY <1>2, <2>1
    <2>3. Becomes(c, ok) = becomes
        BY <2>1
    <2> HIDE DEF place, becomes
    <2>4. req' = [req EXCEPT ![r] = Going([req[r] EXCEPT !.recovery = c, !.becomes = becomes],
                                          place)]
        BY <1>5, <2>3 DEF place
    <2> QED
        BY <1>1, <2>1, <2>2, <2>4, TakeOK
<1>6. \A c : CodeAccepted(Seen(recoveries, r)[c], c, req[r].code, req[r].now) \in BOOLEAN
    BY DEF CodeAccepted
<1> QED
    BY <1>3, <1>4, <1>5, <1>6 DEF FindRecovery

LEMMA FindScheduledKept ==
    ASSUME Inv, NEW r \in Requests, FindScheduled(r) \/ FindContact(r)
    PROVE  Kept(r)
<1>1. /\ req[r].at \in {"find_scheduled", "find_contact"}
      /\ PlaceFits(req[r], req[r].at)
    BY HandlerAt DEF FindScheduled, FindContact, At
<1>2. PICK place \in {"reply", "failed", "delete_credential"} :
          Goto(r, place) /\ (place = "delete_credential" => req[r].at = "find_contact")
    BY <1>1 DEF FindScheduled, FindContact, At
<1>3. place \in Places \ {"idle"}
    BY DEF Places
<1>4. place # "reply" => PlaceFits(req[r], place)
    BY <1>1, <1>2 DEF PlaceFits, OpsAt, Accounted, Recovering, Closing
<1> QED
    BY <1>1, <1>2, <1>3, <1>4, GotoOK

LEMMA FindDeletionKept ==
    ASSUME Inv, NEW r \in Requests, FindDeletion(r)
    PROVE  Kept(r)
<1> DEFINE open == Seen(deletions, r)[req[r].account]
<1>1. /\ req[r].at = "find_deletion" /\ req[r] \in RequestState
      /\ InputsOK(req[r]) /\ ValuesOK(req[r]) /\ PlaceFits(req[r], "find_deletion")
    BY HandlerAt DEF FindDeletion
<1>2. CASE Reply(r)
    BY <1>1, <1>2, ReplyOK
<1>3. CASE ~Reply(r)
    <2>1. open # None
        BY <1>3 DEF FindDeletion
    <2>2. req[r].account \in Accounts
        BY <1>1 DEF PlaceFits, Accounted
    <2>3. open \in DeletionRow
        BY <2>1, <2>2, SeenTypes
    <2>4. PICK status \in {"cancelled", "completed"}, place \in {"write_deletion", "find_contact"} :
             req' = [req EXCEPT ![r].closing = [open EXCEPT !.status = status], ![r].at = place]
        BY <1>3 DEF FindDeletion
    <2> DEFINE closing == [open EXCEPT !.status = status]
               q == [req[r] EXCEPT !.closing = closing]
    <2>5. closing \in DeletionRow
        BY <2>3 DEF DeletionRow
    <2> HIDE DEF open, closing
    <2>6. /\ q \in RequestState /\ q.op = req[r].op /\ q.fresh = req[r].fresh
          /\ q.account = req[r].account /\ q.writes = req[r].writes
          /\ q.recovery = req[r].recovery /\ q.becomes = req[r].becomes
          /\ q.password = req[r].password /\ q.code = req[r].code /\ q.closing = closing
        BY <1>1, <2>5 DEF RequestState
    <2>7. req' = [req EXCEPT ![r] = Going(q, place)]
        BY <1>1, <2>4, RequestType DEF Going, RequestState, closing
    <2> HIDE DEF q
    <2>8. ValuesOK(q) /\ InputsOK(q)
        BY <1>1, <2>6 DEF ValuesOK, InputsOK
    <2>9. PlaceFits(q, place)
        BY <2>2, <2>5, <2>6 DEF PlaceFits, OpsAt, Accounted, Recovering, Closing
    <2>10. place \in Places \ {"idle"}
        BY DEF Places
    <2> QED
        BY <2>6, <2>7, <2>8, <2>9, <2>10, StepOK
<1> QED
    BY <1>2, <1>3

-----------------------------------------------------------------------------
(* Writing *)

LEMMA WriteSessionKept ==
    ASSUME Inv, NEW r \in Requests, NEW s \in SessionIds, WriteSession(r, s)
    PROVE  Kept(r)
<1>1. /\ req[r].at = "write_sessions" /\ req[r] \in RequestState
      /\ InputsOK(req[r]) /\ ValuesOK(req[r]) /\ PlaceFits(req[r], "write_sessions")
    BY HandlerAt DEF WriteSession
<1> DEFINE writes == [req[r].writes EXCEPT ![s] = None]
           then == IF req[r].op = "recover" THEN "write_recovery" ELSE "reply"
<1>2. /\ writes \in [SessionIds -> SessionRow \cup {None}]
      /\ \A t \in SessionIds : writes[t] # None => writes[t].status # "active"
    BY <1>1 DEF RequestState, ValuesOK
<1>3. then \in Places \ {"idle"}
    BY DEF Places
<1>4. /\ req[r].op = "recover" => req[r].recovery # None /\ req[r].issue \in SessionRow
      /\ then # "reply" => PlaceFits(req[r], then)
    BY <1>1 DEF PlaceFits, OpsAt, Accounted, Recovering, Closing
<1>5. Write(r, req[r], writes, then)
    BY DEF WriteSession
<1> HIDE DEF writes, then
<1> QED
    BY <1>1, <1>2, <1>3, <1>4, <1>5, WriteOK

(* The other statements change a table and go on.                            *)
LEMMA ChangeKept ==
    ASSUME Inv, NEW r \in Requests,
           \/ InsertSession(r) \/ SetPassword(r) \/ InsertRecovery(r) \/ WriteRecovery(r)
           \/ TellOwner(r) \/ Schedule(r) \/ DeleteCredential(r) \/ DeleteSessions(r)
           \/ DeleteRecoveries(r) \/ RetireUser(r) \/ WriteDeletion(r)
    PROVE  Kept(r)
<1>1. PlaceFits(req[r], req[r].at)
    BY RequestType DEF HandlerOK
<1>2. CASE InsertSession(r)
    <2>1. req[r].at = "insert_session"
        BY <1>2 DEF InsertSession, At
    <2>2. PICK place \in {"write_sessions", "tell_owner", "reply"} :
             Goto(r, place) /\ (place = "tell_owner" => req[r].op = "recover")
        BY <1>2 DEF InsertSession, Writing
    <2>3. place \in Places \ {"idle"}
        BY DEF Places
    <2>4. place # "reply" => PlaceFits(req[r], place)
        BY <1>1, <2>1, <2>2 DEF PlaceFits, OpsAt, Accounted, Recovering, Closing
    <2> QED
        BY <2>1, <2>2, <2>3, <2>4, GotoOK
<1>3. CASE SetPassword(r)
    <2>1. req[r].at = "set_password" /\ Goto(r, "list_sessions")
        BY <1>3 DEF SetPassword, At
    <2>2. "list_sessions" \in Places \ {"idle"}
        BY DEF Places
    <2>3. PlaceFits(req[r], "list_sessions")
        BY <1>1, <2>1 DEF PlaceFits, OpsAt, Accounted, Recovering, Closing
    <2> QED
        BY <2>1, <2>2, <2>3, GotoOK
<1>4. CASE InsertRecovery(r)
    <2>1. req[r].at = "insert_recovery"
        BY <1>4 DEF InsertRecovery, At
    <2>2. PICK place \in {"write_recovery", "reply"} :
             Goto(r, place) /\ (place = "write_recovery" => req[r].recovery # None)
        BY <1>4 DEF InsertRecovery
    <2>3. place \in Places \ {"idle"}
        BY DEF Places
    <2>4. place # "reply" => PlaceFits(req[r], place)
        BY <1>1, <2>1, <2>2 DEF PlaceFits, OpsAt, Accounted, Recovering, Closing
    <2> QED
        BY <2>1, <2>2, <2>3, <2>4, GotoOK
<1>5. CASE TellOwner(r)
    <2>1. req[r].at = "tell_owner"
        BY <1>5 DEF TellOwner, At
    <2>2. PICK place \in {"failed", "reply"} : Goto(r, place)
        BY <1>5 DEF TellOwner, Reply
    <2>3. place \in Places \ {"idle"}
        BY DEF Places
    <2>4. place # "reply" => PlaceFits(req[r], place)
        BY <2>2 DEF PlaceFits, OpsAt, Accounted, Recovering, Closing
    <2> QED
        BY <2>1, <2>2, <2>3, <2>4, GotoOK
<1>6. CASE Schedule(r)
    <2>1. req[r].at = "schedule"
        BY <1>6 DEF Schedule, At
    <2>2. PICK place \in {"find_scheduled", "reply"} : Goto(r, place)
        BY <1>6 DEF Schedule, Reply
    <2>3. place \in Places \ {"idle"}
        BY DEF Places
    <2>4. place # "reply" => PlaceFits(req[r], place)
        BY <1>1, <2>1, <2>2 DEF PlaceFits, OpsAt, Accounted, Recovering, Closing
    <2> QED
        BY <2>1, <2>2, <2>3, <2>4, GotoOK
<1>7. CASE DeleteCredential(r) \/ DeleteSessions(r) \/ DeleteRecoveries(r) \/ RetireUser(r)
    <2>1. req[r].at \in {"delete_credential", "delete_sessions", "delete_recoveries",
                         "retire_user"}
        BY <1>7 DEF DeleteCredential, DeleteSessions, DeleteRecoveries, RetireUser, At
    <2>2. PICK place \in {"delete_sessions", "delete_recoveries", "retire_user",
                          "write_deletion"} : Goto(r, place)
        BY <1>7 DEF DeleteCredential, DeleteSessions, DeleteRecoveries, RetireUser
    <2>3. place \in Places \ {"idle"}
        BY DEF Places
    <2>4. PlaceFits(req[r], place)
        BY <1>1, <2>1, <2>2 DEF PlaceFits, OpsAt, Accounted, Recovering, Closing
    <2> QED
        BY <2>1, <2>2, <2>3, <2>4, GotoOK
<1>8. CASE WriteDeletion(r)
    BY <1>8, ReplyOK DEF WriteDeletion, At
<1>9. CASE WriteRecovery(r)
    <2>1. req[r].at = "write_recovery"
        BY <1>9 DEF WriteRecovery, At
    <2>2. PICK place \in AfterRecovery(req[r]) : Goto(r, place)
        BY <1>9 DEF WriteRecovery
    <2>3. place \in {"insert_session", "reply", "failed"}
          /\ (place = "insert_session" => req[r].becomes.status = "consumed")
        BY <2>2 DEF AfterRecovery
    <2>4. place \in Places \ {"idle"}
        BY <2>3 DEF Places
    <2>5. place # "reply" => PlaceFits(req[r], place)
        BY <1>1, <2>1, <2>3 DEF PlaceFits, OpsAt, Accounted, Recovering, Closing, Issuing
    <2> QED
        BY <2>1, <2>2, <2>4, <2>5, GotoOK
<1> QED
    BY <1>2, <1>3, <1>4, <1>5, <1>6, <1>7, <1>8, <1>9

-----------------------------------------------------------------------------
(* The tables keep their types *)

OtherTypes ==
    /\ now \in 0..MaxNow
    /\ users \in [Accounts -> Versions({"active", "deleted"}, Requests)]
    /\ credentials \in [Accounts -> Versions(Passwords \cup {None}, Requests)]
    /\ sessions \in [SessionIds -> Versions(SessionRow \cup {None}, Requests)]
    /\ recoveries \in [RecoveryIds -> Versions(RecoveryRow \cup {None}, Requests)]
    /\ deletions \in [Accounts -> Versions(DeletionRow \cup {None}, Requests)]
    /\ notices \in [RecoveryIds -> Versions(BOOLEAN, Requests)]
    /\ rotated \in [SessionIds -> SessionIds \cup {None}]
    /\ excused \subseteq SessionIds /\ begun \in 0..MaxRequests

LEMMA ReadType ==
    ASSUME Inv, UNCHANGED <<now, tables, history>>
    PROVE  OtherTypes'
  BY DEF Inv, TypeOK, OtherTypes, tables, history

LEMMA HeldFits ==
    ASSUME Inv, NEW r \in Requests, req[r].at \notin {"idle", "reply"}
    PROVE  /\ req[r] \in RequestState /\ InputsOK(req[r]) /\ ValuesOK(req[r])
           /\ PlaceFits(req[r], req[r].at)
  BY RequestType DEF HandlerOK

LEMMA SessionWriteType ==
    ASSUME Inv, NEW r \in Requests,
           InsertSession(r) \/ DeleteSessions(r) \/ \E s \in SessionIds : WriteSession(r, s)
    PROVE  OtherTypes'
<1>1. sessions' \in [SessionIds -> Versions(SessionRow \cup {None}, Requests)]
    <2>1. CASE InsertSession(r)
        <3>1. req[r].fresh \in SessionIds /\ req[r].issue \in SessionRow
            BY <2>1, HandlerAt DEF InsertSession, PlaceFits, OpsAt, ValuesOK
        <3> QED
            BY <2>1, <3>1, Typed, TableTypes DEF InsertSession
    <2>2. CASE DeleteSessions(r)
        BY <2>2, Typed, WithoutOwnType DEF DeleteSessions
    <2>3. ASSUME NEW s \in SessionIds, WriteSession(r, s)
          PROVE  sessions' \in [SessionIds -> Versions(SessionRow \cup {None}, Requests)]
        <3>1. req[r].writes[s] \in SessionRow \cup {None}
            BY <2>3, HandlerAt DEF WriteSession, RequestState
        <3>2. Put(sessions, s, r, req[r].writes[s])
                 \in [SessionIds -> Versions(SessionRow \cup {None}, Requests)]
            BY <3>1, Typed, TableTypes
        <3> QED
            BY <2>3, <3>2, Typed DEF WriteSession
    <2> QED
        BY <2>1, <2>2, <2>3
<1>2. UNCHANGED <<now, users, credentials, recoveries, deletions, notices, history>>
    BY DEF InsertSession, DeleteSessions, WriteSession
<1> QED
    BY <1>1, <1>2 DEF Inv, TypeOK, OtherTypes, history

LEMMA RecoveryWriteType ==
    ASSUME Inv, NEW r \in Requests, InsertRecovery(r) \/ WriteRecovery(r) \/ DeleteRecoveries(r)
    PROVE  OtherTypes'
<1>1. recoveries' \in [RecoveryIds -> Versions(RecoveryRow \cup {None}, Requests)]
    <2>1. CASE InsertRecovery(r)
        <3> DEFINE row == [owner |-> req[r].account, status |-> "pending",
                           requested |-> req[r].now, expires |-> req[r].now + CodeTtl,
                           attempts |-> 0]
        <3>1. /\ req[r].code \in RecoveryIds /\ req[r].account \in Accounts
              /\ req[r].now \in Nat
            BY <2>1, HandlerAt
            DEF InsertRecovery, PlaceFits, OpsAt, Accounted, InputsOK, RequestState
        <3>2. req[r].now + CodeTtl \in Nat
            BY <3>1, AccessBoundsAssumption
        <3>3. row \in RecoveryRow
            BY <3>1, <3>2 DEF RecoveryRow
        <3> HIDE DEF row
        <3>4. recoveries' = Put(recoveries, req[r].code, r, row)
            BY <2>1 DEF InsertRecovery, row
        <3> QED
            BY <3>1, <3>3, <3>4, Typed, TableTypes
    <2>2. CASE DeleteRecoveries(r)
        BY <2>2, Typed, WithoutOwnType DEF DeleteRecoveries
    <2>3. CASE WriteRecovery(r)
        <3>1. req[r].recovery \in RecoveryIds /\ req[r].becomes \in RecoveryRow
            BY <2>3, HandlerAt DEF WriteRecovery, PlaceFits, ValuesOK, RequestState
        <3>2. Put(recoveries, req[r].recovery, r, req[r].becomes)
                 \in [RecoveryIds -> Versions(RecoveryRow \cup {None}, Requests)]
            BY <3>1, Typed, TableTypes
        <3> QED
            BY <2>3, <3>2, Typed DEF WriteRecovery
    <2> QED
        BY <2>1, <2>2, <2>3
<1>2. UNCHANGED <<now, users, credentials, sessions, deletions, notices, history>>
    BY DEF InsertRecovery, WriteRecovery, DeleteRecoveries
<1> QED
    BY <1>1, <1>2 DEF Inv, TypeOK, OtherTypes, history

LEMMA AccountWriteType ==
    ASSUME Inv, NEW r \in Requests,
           SetPassword(r) \/ DeleteCredential(r) \/ RetireUser(r)
    PROVE  OtherTypes'
<1>1. req[r].account \in Accounts
    BY HandlerAt DEF SetPassword, DeleteCredential, RetireUser, PlaceFits, Accounted
<1>2. /\ users' \in [Accounts -> Versions({"active", "deleted"}, Requests)]
      /\ credentials' \in [Accounts -> Versions(Passwords \cup {None}, Requests)]
    <2>1. CASE SetPassword(r)
        <3>1. req[r].password \in Passwords
            BY <2>1, HandlerAt DEF SetPassword, PlaceFits, OpsAt, InputsOK
        <3>2. Put(credentials, req[r].account, r, req[r].password)
                 \in [Accounts -> Versions(Passwords \cup {None}, Requests)]
            BY <1>1, <3>1, Typed, TableTypes
        <3> QED
            BY <2>1, <3>2, Typed DEF SetPassword
    <2>2. CASE DeleteCredential(r)
        BY <1>1, <2>2, Typed, TableTypes DEF DeleteCredential
    <2>3. CASE RetireUser(r)
        BY <1>1, <2>3, Typed, TableTypes DEF RetireUser
    <2> QED
        BY <2>1, <2>2, <2>3
<1>3. UNCHANGED <<now, sessions, recoveries, deletions, notices, history>>
    BY DEF SetPassword, DeleteCredential, RetireUser
<1> QED
    BY <1>2, <1>3 DEF Inv, TypeOK, OtherTypes, history

LEMMA DeletionWriteType ==
    ASSUME Inv, NEW r \in Requests, Schedule(r) \/ WriteDeletion(r) \/ TellOwner(r)
    PROVE  OtherTypes'
<1>1. deletions' \in [Accounts -> Versions(DeletionRow \cup {None}, Requests)]
    <2>1. CASE Schedule(r)
        <3> DEFINE row == [status |-> "scheduled", completes |-> req[r].now + UndoWindow]
        <3>1. req[r].account \in Accounts /\ req[r].now \in Nat
            BY <2>1, HandlerAt DEF Schedule, PlaceFits, Accounted, RequestState
        <3>2. req[r].now + UndoWindow \in Nat
            BY <3>1, AccessBoundsAssumption
        <3>3. row \in DeletionRow
            BY <3>2 DEF DeletionRow
        <3> HIDE DEF row
        <3>4. deletions' \in {deletions, Put(deletions, req[r].account, r, row)}
            BY <2>1 DEF Schedule, row
        <3>5. Put(deletions, req[r].account, r, row)
                 \in [Accounts -> Versions(DeletionRow \cup {None}, Requests)]
            BY <3>1, <3>3, Typed, TableTypes
        <3> QED
            BY <3>4, <3>5, Typed
    <2>2. CASE WriteDeletion(r)
        <3>1. req[r].account \in Accounts /\ req[r].closing \in DeletionRow
            BY <2>2, HandlerAt DEF WriteDeletion, PlaceFits, Accounted, Closing
        <3> QED
            BY <2>2, <3>1, Typed, TableTypes DEF WriteDeletion
    <2>3. CASE TellOwner(r)
        BY <2>3, Typed DEF TellOwner
    <2> QED
        BY <2>1, <2>2, <2>3
<1>2. notices' \in [RecoveryIds -> Versions(BOOLEAN, Requests)]
    <2>1. CASE TellOwner(r)
        <3>1. req[r].recovery \in RecoveryIds
            BY <2>1, HandlerAt DEF TellOwner, PlaceFits, OpsAt, Recovering, RequestState
        <3>2. Put(notices, req[r].recovery, r, TRUE)
                 \in [RecoveryIds -> Versions(BOOLEAN, Requests)]
            BY <3>1, Typed, TableTypes
        <3> QED
            BY <2>1, <3>2, Typed DEF TellOwner
    <2>2. CASE ~TellOwner(r)
        BY <2>2, Typed DEF Schedule, WriteDeletion
    <2> QED
        BY <2>1, <2>2
<1>3. UNCHANGED <<now, users, credentials, sessions, recoveries, history>>
    BY DEF Schedule, WriteDeletion, TellOwner
<1> QED
    BY <1>1, <1>2, <1>3 DEF Inv, TypeOK, OtherTypes, history

LEMMA EndType ==
    ASSUME Inv, NEW r \in Requests, CommitRequest(r) \/ RollbackRequest(r)
    PROVE  OtherTypes'
<1>1. /\ users' \in [Accounts -> Versions({"active", "deleted"}, Requests)]
      /\ credentials' \in [Accounts -> Versions(Passwords \cup {None}, Requests)]
      /\ sessions' \in [SessionIds -> Versions(SessionRow \cup {None}, Requests)]
    <2>1. /\ users' \in {Commit(users, r), Rollback(users, r)}
          /\ credentials' \in {Commit(credentials, r), Rollback(credentials, r)}
          /\ sessions' \in {Commit(sessions, r), Rollback(sessions, r)}
        BY DEF CommitRequest, RollbackRequest
    <2>2. /\ Commit(users, r) \in [Accounts -> Versions({"active", "deleted"}, Requests)]
          /\ Rollback(users, r) \in [Accounts -> Versions({"active", "deleted"}, Requests)]
        BY Typed, TableTypes
    <2>3. /\ Commit(credentials, r) \in [Accounts -> Versions(Passwords \cup {None}, Requests)]
          /\ Rollback(credentials, r)
                \in [Accounts -> Versions(Passwords \cup {None}, Requests)]
        BY Typed, TableTypes
    <2>4. /\ Commit(sessions, r)
                \in [SessionIds -> Versions(SessionRow \cup {None}, Requests)]
          /\ Rollback(sessions, r)
                \in [SessionIds -> Versions(SessionRow \cup {None}, Requests)]
        BY Typed, TableTypes
    <2> QED
        BY <2>1, <2>2, <2>3, <2>4
<1>2. /\ recoveries' \in [RecoveryIds -> Versions(RecoveryRow \cup {None}, Requests)]
      /\ deletions' \in [Accounts -> Versions(DeletionRow \cup {None}, Requests)]
      /\ notices' \in [RecoveryIds -> Versions(BOOLEAN, Requests)]
    <2>1. /\ recoveries' \in {Commit(recoveries, r), Rollback(recoveries, r)}
          /\ deletions' \in {Commit(deletions, r), Rollback(deletions, r)}
          /\ notices' \in {Commit(notices, r), Rollback(notices, r)}
        BY DEF CommitRequest, RollbackRequest
    <2>2. /\ Commit(recoveries, r)
                \in [RecoveryIds -> Versions(RecoveryRow \cup {None}, Requests)]
          /\ Rollback(recoveries, r)
                \in [RecoveryIds -> Versions(RecoveryRow \cup {None}, Requests)]
        BY Typed, TableTypes
    <2>3. /\ Commit(deletions, r) \in [Accounts -> Versions(DeletionRow \cup {None}, Requests)]
          /\ Rollback(deletions, r)
                \in [Accounts -> Versions(DeletionRow \cup {None}, Requests)]
        BY Typed, TableTypes
    <2>4. /\ Commit(notices, r) \in [RecoveryIds -> Versions(BOOLEAN, Requests)]
          /\ Rollback(notices, r) \in [RecoveryIds -> Versions(BOOLEAN, Requests)]
        BY Typed, TableTypes
    <2> QED
        BY <2>1, <2>2, <2>3, <2>4
<1>3. /\ now' = now /\ begun' = begun
      /\ rotated' \in [SessionIds -> SessionIds \cup {None}] /\ excused' \subseteq SessionIds
    <2>1. /\ req[r].fresh \in SessionIds \cup {None} /\ req[r].token \in SessionIds \cup {None}
          /\ rotated \in [SessionIds -> SessionIds \cup {None}] /\ excused \subseteq SessionIds
        BY RequestType DEF RequestState, Inv, TypeOK
    <2>2. CASE CommitRequest(r)
        <3>1. /\ now' = now /\ begun' = begun
            BY <2>2 DEF CommitRequest
        <3>2. rotated' \in [SessionIds -> SessionIds \cup {None}]
            BY <2>1, <2>2 DEF CommitRequest
        <3>3. excused' \subseteq SessionIds
            BY <2>1, <2>2 DEF CommitRequest
        <3> QED
            BY <3>1, <3>2, <3>3
    <2>3. CASE RollbackRequest(r)
        BY <2>1, <2>3 DEF RollbackRequest, history
    <2> QED
        BY <2>2, <2>3
<1> QED
    BY <1>1, <1>2, <1>3 DEF Inv, TypeOK, OtherTypes

-----------------------------------------------------------------------------
(* Sessions: nothing that has ended is brought back *)

(* What a request may write of session s: its own new one, or the end of one *)
(* that it sees.                                                             *)
Written(r, s) ==
    /\ sessions'[s].row = sessions[s].row /\ sessions'[s].by = r
    /\ \/ req[r].op \in Issuing /\ s = req[r].fresh
       \/ Seen(sessions, r)[s] # None /\ Dead(sessions'[s].next)
SessionsMove(r) ==
    /\ \A s \in SessionIds : sessions'[s] = sessions[s] \/ Written(r, s)
    /\ req'[r].op = req[r].op /\ req'[r].fresh = req[r].fresh
SessionsEnd(r) ==
    /\ \A s \in SessionIds :
          \/ sessions[s].by # r /\ sessions'[s] = sessions[s]
          \/ sessions[s].by = r /\ sessions'[s] \in {Settled(sessions[s].next),
                                                     Settled(sessions[s].row)}
    /\ req'[r].op = "logout"

SessionsOK == /\ \A q \in Requests : FreshOK(q)
              /\ FreshDiffer /\ DeadKept

LEMMA SessionStep ==
    ASSUME Inv, NEW r \in Requests, OthersStay(r), SessionsMove(r) \/ SessionsEnd(r)
    PROVE  SessionsOK'
<1>1. \A q \in Requests \ {r} : req'[q].op = req[q].op /\ req'[q].fresh = req[q].fresh
    BY OtherFields
<1>2. /\ req'[r].op \in Issuing => /\ SessionsMove(r) /\ req'[r].op = req[r].op
                                   /\ req'[r].fresh = req[r].fresh
    BY DEF SessionsMove, SessionsEnd, Issuing
<1>3. FreshDiffer'
    BY <1>1, <1>2 DEF Inv, FreshDiffer
<1>4. \A q \in Requests : req[q].op \in Issuing => req[q].fresh \in SessionIds
    BY RequestType DEF HandlerOK, ValuesOK
<1>5. ASSUME NEW q \in Requests, req'[q].op \in Issuing
      PROVE  /\ sessions'[req[q].fresh].row = None
             /\ sessions'[req[q].fresh].by \in {None, q}
    <2> DEFINE s == req[q].fresh
    <2>1. req[q].op \in Issuing
        BY <1>1, <1>2, <1>5
    <2>2. s \in SessionIds /\ sessions[s].row = None /\ sessions[s].by \in {None, q}
        BY <1>4, <2>1, RequestType DEF FreshOK
    <2> HIDE DEF s
    <2>3. CASE q = r
        BY <1>2, <1>5, <2>2, <2>3 DEF SessionsMove, Written, s
    <2>4. CASE q # r
        <3>1. sessions[s].by # r
            BY <2>2, <2>4, AccessNullAssumption
        <3>2. req[r].op \in Issuing => s # req[r].fresh
            BY <2>1, <2>4 DEF Inv, FreshDiffer, s
        <3>3. Seen(sessions, r)[s] = None
            BY <2>2, <3>1, Typed DEF Seen
        <3>4. sessions'[s] = sessions[s]
            BY <2>2, <3>1, <3>2, <3>3 DEF SessionsMove, SessionsEnd, Written
        <3> QED
            BY <2>2, <3>4 DEF s
    <2> QED
        BY <2>3, <2>4
<1>6. \A q \in Requests : FreshOK(q)'
    BY <1>1, <1>2, <1>5 DEF FreshOK
<1>7. ASSUME NEW s \in SessionIds, sessions'[s].row # None, Dead(sessions'[s].row)
      PROVE  Dead(sessions'[s].next)
    <2>1. sessions[s].row # None /\ Dead(sessions[s].row) => Dead(sessions[s].next)
        BY DEF Inv, DeadKept
    <2>2. CASE sessions'[s] = sessions[s]
        BY <1>7, <2>1, <2>2
    <2>3. CASE Written(r, s)
        BY <1>7, <2>3, RequestType DEF Written, FreshOK
    <2>4. CASE sessions'[s] \in {Settled(sessions[s].next), Settled(sessions[s].row)}
        BY <1>7, <2>4 DEF Settled
    <2> QED
        BY <2>2, <2>3, <2>4 DEF SessionsMove, SessionsEnd
<1>8. DeadKept'
    BY <1>7 DEF DeadKept, Dead
<1> QED
    BY <1>3, <1>6, <1>8 DEF SessionsOK

LEMMA SameSessions ==
    ASSUME Inv, NEW r \in Requests, Kept(r), UNCHANGED sessions
    PROVE  SessionsOK'
  BY SessionStep DEF Kept, SessionsMove

LEMMA SessionWrites ==
    ASSUME Inv, NEW r \in Requests, Kept(r),
           InsertSession(r) \/ DeleteSessions(r) \/ \E s \in SessionIds : WriteSession(r, s)
    PROVE  SessionsOK'
<1>1. ASSUME NEW s \in SessionIds
      PROVE  sessions'[s] = sessions[s] \/ Written(r, s)
    <2>1. CASE InsertSession(r)
        <3>1. req[r].op \in Issuing /\ req[r].fresh \in SessionIds
            BY <2>1, HandlerAt DEF InsertSession, PlaceFits, OpsAt, ValuesOK
        <3>2. sessions' = Put(sessions, req[r].fresh, r, req[r].issue)
            BY <2>1 DEF InsertSession
        <3> QED
            BY <3>1, <3>2, Typed DEF Put, Written
    <2>2. CASE DeleteSessions(r)
        <3>1. sessions' = WithoutOwn(sessions, r)
            BY <2>2 DEF DeleteSessions
        <3>2. s \notin Own(sessions, r) => sessions'[s] = sessions[s]
            BY <3>1, Typed DEF WithoutOwn
        <3>3. s \in Own(sessions, r) =>
                  /\ sessions'[s] = [row |-> sessions[s].row, next |-> None, by |-> r]
                  /\ Seen(sessions, r)[s] # None
            BY <3>1, Typed DEF WithoutOwn, Own
        <3> QED
            BY <3>2, <3>3 DEF Written, Dead
    <2>3. ASSUME NEW t \in SessionIds, WriteSession(r, t)
          PROVE  sessions'[s] = sessions[s] \/ Written(r, s)
        <3>1. /\ req[r].writes[t] # None /\ ValuesOK(req[r])
            BY <2>3, HandlerAt DEF WriteSession, Pending
        <3>2. Dead(req[r].writes[t])
            BY <3>1 DEF ValuesOK, Dead
        <3>3. \/ sessions' = sessions
              \/ /\ Seen(sessions, r)[t] # None
                 /\ sessions' = Put(sessions, t, r, req[r].writes[t])
            BY <2>3 DEF WriteSession
        <3> QED
            BY <3>2, <3>3, Typed DEF Put, Written
    <2> QED
        BY <2>1, <2>2, <2>3
<1> QED
    BY <1>1, SessionStep DEF Kept, SessionsMove

-----------------------------------------------------------------------------
(* Recoveries: a used code is answered for *)

NoticesMove(r) ==
    \A c \in RecoveryIds :
        notices'[c] = notices[c] \/ notices[c].by \in {None, r}
RecoveriesMove(r) ==
    \A c \in RecoveryIds :
        recoveries'[c] = recoveries[c] \/ recoveries'[c].by \in {None, r}

LEMMA OthersUse ==
    ASSUME Inv, NEW r \in Requests, OthersStay(r), RecoveriesMove(r), NoticesMove(r),
           NEW q \in Requests \ {r}
    PROVE  CodeOK(q)'
<1>1. /\ req'[q].at = req[q].at /\ req'[q].op = req[q].op
      /\ req'[q].recovery = req[q].recovery /\ req'[q].becomes = req[q].becomes
    BY OtherFields
<1>2. ASSUME NEW c \in RecoveryIds, Uses(q, c)'
      PROVE  recoveries'[c] = recoveries[c] /\ Uses(q, c)
    <2>1. recoveries'[c].by = q
        BY <1>2 DEF Uses
    <2>2. recoveries'[c] = recoveries[c]
        BY <2>1, AccessNullAssumption DEF RecoveriesMove
    <2> QED
        BY <1>2, <2>2 DEF Uses
<1>3. ASSUME NEW c \in RecoveryIds, notices[c].by = q
      PROVE  notices'[c].by = q
    BY <1>3, AccessNullAssumption DEF NoticesMove
<1> QED
    BY <1>1, <1>2, <1>3, RequestType DEF CodeOK

LEMMA SameNotices ==
    ASSUME Inv, UNCHANGED notices
    PROVE  NoticesOnce' /\ \A r \in Requests : NoticesMove(r)
  BY DEF Inv, NoticesOnce, NoticesMove

CodesOK == NoticesOnce /\ \A q \in Requests : CodeOK(q)

(* A handler that uses no code and writes no recovery.                       *)
LEMMA UsesNone ==
    ASSUME Inv, NEW r \in Requests, OthersStay(r), UNCHANGED <<recoveries, notices>>,
           req[r].at \notin Using
    PROVE  CodesOK'
<1>1. CodeOK(r)'
    BY RequestType DEF CodeOK, Uses
<1>2. RecoveriesMove(r)
    BY DEF RecoveriesMove
<1> QED
    BY <1>1, <1>2, OthersUse, SameNotices DEF CodesOK

(* One that goes on with the recovery it is completing.                      *)
LEMMA UsesStill ==
    ASSUME Inv, NEW r \in Requests, OthersStay(r), UNCHANGED <<recoveries, notices>>,
           req'[r].op = req[r].op, req[r].at # "reply",
           req[r].op = "recover" =>
               /\ req'[r].at \in Using \ {"reply"}
               /\ req'[r].recovery = req[r].recovery /\ req'[r].becomes = req[r].becomes
    PROVE  CodesOK'
<1>1. CodeOK(r)'
    BY RequestType DEF CodeOK, Uses
<1>2. RecoveriesMove(r)
    BY DEF RecoveriesMove
<1> QED
    BY <1>1, <1>2, OthersUse, SameNotices DEF CodesOK

LEMMA ReadCodes ==
    ASSUME Inv, NEW r \in Requests, Kept(r), Read(r)
    PROVE  CodesOK'
<1>1. UNCHANGED <<recoveries, notices>>
    BY DEF Read, Resolve, FindCredential, FindSession, ListSessions, FindRecovery,
           FindScheduled, FindDeletion, FindContact, tables
<1>2. req[r].at \notin Using
    BY DEF Read, Resolve, FindCredential, FindSession, ListSessions, FindRecovery,
           FindScheduled, FindDeletion, FindContact, At, Using
<1> QED
    BY <1>1, <1>2, UsesNone DEF Kept

LEMMA AccountCodes ==
    ASSUME Inv, NEW r \in Requests, Kept(r),
           \/ SetPassword(r) \/ Schedule(r) \/ DeleteCredential(r) \/ DeleteSessions(r)
           \/ RetireUser(r) \/ WriteDeletion(r)
    PROVE  CodesOK'
<1>1. UNCHANGED <<recoveries, notices>>
    BY DEF SetPassword, Schedule, DeleteCredential, DeleteSessions, RetireUser, WriteDeletion
<1>2. req[r].at \notin Using
    <2>1. req[r].at \in {"set_password", "schedule", "delete_credential", "delete_sessions",
                         "retire_user"} \/ WriteDeletion(r)
        BY DEF SetPassword, Schedule, DeleteCredential, DeleteSessions, RetireUser, At
    <2>2. WriteDeletion(r) => req[r].at = "write_deletion"
        BY DEF WriteDeletion, At
    <2> QED
        BY <2>1, <2>2 DEF Using
<1> QED
    BY <1>1, <1>2, UsesNone DEF Kept

LEMMA SessionCodes ==
    ASSUME Inv, NEW r \in Requests, Kept(r),
           InsertSession(r) \/ \E s \in SessionIds : WriteSession(r, s)
    PROVE  CodesOK'
<1>1. UNCHANGED <<recoveries, notices>>
    BY DEF InsertSession, WriteSession
<1>2. req[r].at \in {"insert_session", "write_sessions"}
    BY DEF InsertSession, WriteSession, At
<1>3. ASSUME req[r].op = "recover"
      PROVE  /\ req'[r].at \in Using \ {"reply"}
             /\ req'[r].recovery = req[r].recovery /\ req'[r].becomes = req[r].becomes
    <2>1. PICK writes \in [SessionIds -> SessionRow \cup {None}],
               place \in {"write_sessions", "tell_owner", "write_recovery"} :
             req' = [req EXCEPT ![r] = Going([req[r] EXCEPT !.writes = writes], place)]
        <3>1. CASE InsertSession(r)
            <4>1. req[r] = [req[r] EXCEPT !.writes = req[r].writes]
                  /\ req[r].writes \in [SessionIds -> SessionRow \cup {None}]
                BY RequestType DEF RequestState
            <4>2. PICK place \in {"write_sessions", "tell_owner"} : Goto(r, place)
                BY <1>3, <3>1 DEF InsertSession, Writing
            <4> QED
                BY <4>1, <4>2 DEF Goto
        <3>2. ASSUME NEW s \in SessionIds, WriteSession(r, s)
              PROVE  \E writes \in [SessionIds -> SessionRow \cup {None}],
                        place \in {"write_sessions", "write_recovery"} :
                        req' = [req EXCEPT ![r] = Going([req[r] EXCEPT !.writes = writes],
                                                        place)]
            <4> DEFINE writes == [req[r].writes EXCEPT ![s] = None]
                       place == Writing(writes, "write_recovery")
            <4>1. writes \in [SessionIds -> SessionRow \cup {None}]
                BY RequestType DEF RequestState
            <4>2. req' = [req EXCEPT ![r] = Going([req[r] EXCEPT !.writes = writes], place)]
                BY <1>3, <3>2 DEF WriteSession, Write
            <4>3. place \in {"write_sessions", "write_recovery"}
                BY DEF Writing
            <4> HIDE DEF writes, place
            <4> QED
                BY <4>1, <4>2, <4>3
        <3> QED
            BY <3>1, <3>2
    <2> DEFINE q == [req[r] EXCEPT !.writes = writes]
    <2>2. /\ q \in RequestState /\ q.recovery = req[r].recovery
          /\ q.becomes = req[r].becomes
        BY ZenonT(60), <2>1, RequestType DEF RequestState
    <2> HIDE DEF q
    <2>3. place \in Places \ {"reply"}
        BY DEF Places
    <2>4. req'[r] = [q EXCEPT !.at = place]
        BY <2>1, <2>2, <2>3, GoingFields, RequestType DEF q
    <2> QED
        BY <2>2, <2>4 DEF RequestState, Using
<1> QED
    BY <1>1, <1>2, <1>3, UsesStill DEF Kept

LEMMA RecoveryCodes ==
    ASSUME Inv, NEW r \in Requests, Kept(r),
           InsertRecovery(r) \/ WriteRecovery(r) \/ DeleteRecoveries(r)
    PROVE  CodesOK'
<1>1. UNCHANGED notices
    BY DEF InsertRecovery, WriteRecovery, DeleteRecoveries
<1>2. /\ req[r].at \in {"insert_recovery", "write_recovery", "delete_recoveries"}
      /\ PlaceFits(req[r], req[r].at) /\ ValuesOK(req[r])
    BY HandlerAt DEF InsertRecovery, WriteRecovery, DeleteRecoveries, At
<1>3. req[r].at # "write_recovery" => \A c \in RecoveryIds : ~Uses(r, c)
    BY <1>2, RequestType DEF CodeOK, Using
<1>4. ASSUME NEW c \in RecoveryIds
      PROVE  /\ recoveries'[c] = recoveries[c] \/ recoveries'[c].by = r
             /\ ~WriteRecovery(r) => ~Uses(r, c)'
    <2>1. CASE InsertRecovery(r)
        <3> DEFINE row == [owner |-> req[r].account, status |-> "pending",
                           requested |-> req[r].now, expires |-> req[r].now + CodeTtl,
                           attempts |-> 0]
        <3>1. row.status = "pending"
            OBVIOUS
        <3> HIDE DEF row
        <3>2. recoveries' = Put(recoveries, req[r].code, r, row)
            BY <2>1 DEF InsertRecovery, row
        <3>3. ~Uses(r, c)
            BY <1>3, <2>1 DEF InsertRecovery, At
        <3> QED
            BY <3>1, <3>2, <3>3, Typed DEF Put, Uses
    <2>2. CASE DeleteRecoveries(r)
        <3>1. ~Uses(r, c)
            BY <1>3, <2>2 DEF DeleteRecoveries, At
        <3>2. recoveries' = WithoutOwn(recoveries, r)
            BY <2>2 DEF DeleteRecoveries
        <3>3. recoveries'[c] \in {recoveries[c],
                                  [row |-> recoveries[c].row, next |-> None, by |-> r]}
            BY <3>2, Typed DEF WithoutOwn
        <3> QED
            BY <3>1, <3>3 DEF Uses
    <2>3. CASE WriteRecovery(r)
        BY <2>3, Typed DEF WriteRecovery, Put
    <2> QED
        BY <2>1, <2>2, <2>3
<1>5. ASSUME WriteRecovery(r), NEW c \in RecoveryIds, Uses(r, c)'
      PROVE  /\ c = req[r].recovery /\ req[r].becomes.status = "consumed"
    <2>1. req[r].at = "write_recovery"
        BY <1>5 DEF WriteRecovery, At
    <2>2. Uses(r, c) => c = req[r].recovery /\ req[r].becomes.status = "consumed"
        BY <2>1, RequestType DEF CodeOK
    <2>3. \/ recoveries'[c] = recoveries[c]
          \/ c = req[r].recovery /\ recoveries'[c].next = req[r].becomes
        BY <1>5, Typed DEF WriteRecovery, Put
    <2> QED
        BY <1>5, <2>2, <2>3 DEF Uses
<1>6. ASSUME WriteRecovery(r), req[r].becomes.status = "consumed"
      PROVE  /\ req'[r].at = "insert_session" /\ req'[r].op = "recover"
             /\ req'[r].recovery = req[r].recovery /\ req'[r].becomes = req[r].becomes
    <2>1. req[r].at = "write_recovery" /\ req[r].op = "recover"
        BY <1>2, <1>6 DEF WriteRecovery, At, PlaceFits
    <2>2. Goto(r, "insert_session")
        BY <1>6 DEF WriteRecovery, AfterRecovery
    <2>3. req'[r] = [req[r] EXCEPT !.at = "insert_session"]
        BY <2>2, RequestType DEF Goto, Going
    <2> QED
        BY <2>1, <2>3, RequestType DEF RequestState
<1>7. CodeOK(r)'
    <2>1. CASE WriteRecovery(r)
        BY <1>5, <1>6, <2>1 DEF CodeOK, Using
    <2>2. CASE ~WriteRecovery(r)
        BY <1>4, <2>2 DEF CodeOK
    <2> QED
        BY <2>1, <2>2
<1>8. RecoveriesMove(r)
    BY <1>4 DEF RecoveriesMove
<1> QED
    BY <1>1, <1>7, <1>8, OthersUse, SameNotices DEF CodesOK, Kept

LEMMA NoticeCodes ==
    ASSUME Inv, NEW r \in Requests, Kept(r), TellOwner(r)
    PROVE  CodesOK'
<1> DEFINE c == req[r].recovery
<1>1. /\ req[r].at = "tell_owner" /\ req[r].op = "recover" /\ c \in RecoveryIds
    BY HandlerAt DEF TellOwner, PlaceFits, OpsAt, Recovering, RequestState
<1>2. UNCHANGED recoveries
    BY DEF TellOwner
<1>3. CASE Goto(r, "failed") /\ UNCHANGED notices
    <2>1. req'[r] = [req[r] EXCEPT !.at = "failed"]
        BY <1>3, RequestType DEF Goto, Going
    <2>2. /\ req'[r].at \in Using \ {"reply"}
          /\ req'[r].recovery = req[r].recovery /\ req'[r].becomes = req[r].becomes
        BY <2>1, RequestType DEF RequestState, Using
    <2> QED
        BY <1>1, <1>2, <1>3, <2>2, UsesStill DEF Kept
<1>4. CASE ~(Goto(r, "failed") /\ UNCHANGED notices)
    <2>1. /\ FreeFor(notices, c, r) /\ ~Seen(notices, r)[c]
          /\ notices' = Put(notices, c, r, TRUE) /\ Reply(r)
        BY <1>4 DEF TellOwner
    <2>2. ~notices[c].row /\ notices[c].by \in {None, r}
        BY <1>1, <2>1, Typed, AccessNullAssumption DEF FreeFor, Seen, Inv, NoticesOnce
    <2>3. /\ \A d \in RecoveryIds \ {c} : notices'[d] = notices[d]
          /\ notices'[c].row = notices[c].row /\ notices'[c].by = r
        BY <1>1, <2>1, Typed DEF Put
    <2> HIDE DEF c
    <2>4. NoticesOnce'
        BY <2>2, <2>3 DEF Inv, NoticesOnce
    <2>5. NoticesMove(r)
        BY <2>2, <2>3 DEF NoticesMove
    <2>6. \A d \in RecoveryIds : Uses(r, d) => d = c
        BY <1>1, RequestType DEF CodeOK, c
    <2>7. req'[r].op = "recover" /\ req'[r].at = "reply"
        BY <1>1, <2>1, ReplyOK DEF Kept
    <2>8. CodeOK(r)'
        BY <1>2, <2>3, <2>6, <2>7 DEF CodeOK, Uses, Using
    <2>9. RecoveriesMove(r)
        BY <1>2 DEF RecoveriesMove
    <2> QED
        BY <2>4, <2>5, <2>8, <2>9, OthersUse DEF CodesOK, Kept
<1> QED
    BY <1>3, <1>4

-----------------------------------------------------------------------------
(* Steps of the specification *)

LEMMA OthersOK ==
    ASSUME Inv, NEW r \in Requests, OthersStay(r), HandlerOK(req'[r])
    PROVE  \A q \in Requests : HandlerOK(req[q])'
<1>1. ASSUME NEW q \in Requests \ {r}
      PROVE  HandlerOK(req'[q])
    <2>1. HandlerOK(req[q])
        BY RequestType
    <2>2. /\ req'[q].at = req[q].at /\ req'[q].op = req[q].op
          /\ req'[q].account = req[q].account /\ req'[q].token = req[q].token
          /\ req'[q].fresh = req[q].fresh /\ req'[q].issue = req[q].issue
          /\ req'[q].writes = req[q].writes /\ req'[q].code = req[q].code
          /\ req'[q].password = req[q].password /\ req'[q].recovery = req[q].recovery
          /\ req'[q].becomes = req[q].becomes /\ req'[q].closing = req[q].closing
        BY OtherFields
    <2>3. (req[q].at \notin {"idle", "reply"} => InputsOK(req[q])) =>
          (req'[q].at \notin {"idle", "reply"} => InputsOK(req'[q]))
        BY <2>2 DEF InputsOK
    <2>4. ValuesOK(req[q]) => ValuesOK(req'[q])
        BY <2>2 DEF ValuesOK
    <2>5. PlaceFits(req[q], req[q].at) => PlaceFits(req'[q], req'[q].at)
        BY <2>2 DEF PlaceFits
    <2> QED
        BY <2>1, <2>3, <2>4, <2>5 DEF HandlerOK
<1> QED
    BY <1>1

LEMMA StepInv ==
    ASSUME Inv, NEW r \in Requests, req' \in [Requests -> RequestState], OthersStay(r),
           HandlerOK(req'[r]), OtherTypes', SessionsOK', CodesOK'
    PROVE  Inv'
<1>1. \A q \in Requests : HandlerOK(req[q])'
    BY OthersOK
<1>2. TypeOK'
    BY DEF TypeOK, OtherTypes
<1> QED
    BY <1>1, <1>2 DEF Inv, SessionsOK, CodesOK

LEMMA ReadStep ==
    ASSUME Inv, NEW r \in Requests, Read(r)
    PROVE  Inv'
<1>1. Kept(r)
    BY ResolveKept, FindCredentialKept, FindSessionKept, ListSessionsKept, FindRecoveryKept,
       FindScheduledKept, FindDeletionKept DEF Read
<1>2. UNCHANGED <<now, tables, history>>
    BY DEF Read, Resolve, FindCredential, FindSession, ListSessions, FindRecovery,
           FindScheduled, FindDeletion, FindContact
<1>3. OtherTypes'
    BY <1>2, ReadType
<1>4. SessionsOK'
    BY <1>1, <1>2, SameSessions DEF tables
<1>5. CodesOK'
    BY <1>1, ReadCodes
<1> QED
    BY <1>1, <1>3, <1>4, <1>5, StepInv DEF Kept

LEMMA ChangeStep ==
    ASSUME Inv, NEW r \in Requests, Change(r)
    PROVE  Inv'
<1>1. Kept(r)
    BY ChangeKept, WriteSessionKept DEF Change
<1>2. OtherTypes'
    BY SessionWriteType, RecoveryWriteType, AccountWriteType, DeletionWriteType DEF Change
<1>3. SessionsOK'
    <2>1. CASE InsertSession(r) \/ DeleteSessions(r) \/ \E s \in SessionIds : WriteSession(r, s)
        BY <1>1, <2>1, SessionWrites
    <2>2. CASE ~(InsertSession(r) \/ DeleteSessions(r)
                 \/ \E s \in SessionIds : WriteSession(r, s))
        <3>1. UNCHANGED sessions
            BY <2>2 DEF Change, SetPassword, InsertRecovery, WriteRecovery, TellOwner, Schedule,
                        DeleteCredential, DeleteRecoveries, RetireUser, WriteDeletion
        <3> QED
            BY <1>1, <3>1, SameSessions
    <2> QED
        BY <2>1, <2>2
<1>4. CodesOK'
    BY <1>1, AccountCodes, SessionCodes, RecoveryCodes, NoticeCodes DEF Change
<1> QED
    BY <1>1, <1>2, <1>3, <1>4, StepInv DEF Kept

(* A request begins with a session id no one has drawn.                      *)
LEMMA StartStep ==
    ASSUME Inv, NEW r \in Requests, NEW q \in RequestState, Start(r, q),
           q.at \notin {"idle", "reply"}, HandlerOK(q),
           q.op \in Issuing => q.fresh \in FreshSessions
    PROVE  Inv'
<1> DEFINE p == [q EXCEPT !.now = now]
<1>1. /\ req[r].at = "idle" /\ req' = [req EXCEPT ![r] = p]
      /\ UNCHANGED <<now, tables, rotated, excused>>
      /\ begun < MaxRequests /\ begun' = begun + 1
    BY DEF Start, At
<1>2. /\ p \in RequestState /\ p.at = q.at /\ p.op = q.op /\ p.account = q.account
      /\ p.token = q.token /\ p.fresh = q.fresh /\ p.issue = q.issue /\ p.writes = q.writes
      /\ p.code = q.code /\ p.password = q.password /\ p.recovery = q.recovery
      /\ p.becomes = q.becomes /\ p.closing = q.closing
    <2>1. now \in Nat
        BY Typed
    <2>2. p \in RequestState
        BY <2>1 DEF RequestState
    <2>3. /\ p.at = q.at /\ p.op = q.op /\ p.account = q.account
          /\ p.token = q.token /\ p.fresh = q.fresh /\ p.issue = q.issue
        BY DEF RequestState
    <2>4. /\ p.writes = q.writes
          /\ p.code = q.code /\ p.password = q.password /\ p.recovery = q.recovery
          /\ p.becomes = q.becomes /\ p.closing = q.closing
        BY DEF RequestState
    <2> QED
        BY <2>2, <2>3, <2>4
<1> HIDE DEF p
<1>3. req' \in [Requests -> RequestState] /\ req'[r] = p /\ OthersStay(r)
    BY <1>1, <1>2, Moved
<1>4. HandlerOK(p)
    <2>1. InputsOK(p) /\ ValuesOK(p)
        BY <1>2 DEF HandlerOK, InputsOK, ValuesOK
    <2>2. PlaceFits(p, p.at)
        BY <1>2 DEF HandlerOK, PlaceFits
    <2> QED
        BY <2>1, <2>2 DEF HandlerOK
<1>5. OtherTypes'
    <2>1. begun' \in 0..MaxRequests
        BY <1>1, AccessBoundsAssumption DEF Inv, TypeOK
    <2> QED
        BY <1>1, <2>1 DEF Inv, TypeOK, OtherTypes, tables
<1>6. SessionsOK'
    <2>1. sessions' = sessions
        BY <1>1 DEF tables
    <2>2. \A o \in Requests \ {r} : req'[o].op = req[o].op /\ req'[o].fresh = req[o].fresh
        BY <1>3, OtherFields
    <2>3. p.op \in Issuing =>
              /\ p.fresh \in SessionIds /\ sessions[p.fresh].row = None
              /\ sessions[p.fresh].by = None /\ \A o \in Requests : req[o].fresh # p.fresh
        BY <1>2 DEF FreshSessions, Settled
    <2>4. FreshOK(r)'
        BY <1>3, <2>1, <2>3 DEF FreshOK
    <2>5. \A o \in Requests \ {r} : FreshOK(o)'
        BY <2>1, <2>2, RequestType DEF FreshOK
    <2>6. FreshDiffer'
        BY <1>3, <2>2, <2>3 DEF Inv, FreshDiffer
    <2>7. DeadKept'
        BY <2>1 DEF Inv, DeadKept
    <2> QED
        BY <2>4, <2>5, <2>6, <2>7 DEF SessionsOK
<1>7. CodesOK'
    BY <1>1, <1>3, UsesNone DEF tables, Using
<1> QED
    BY <1>3, <1>4, <1>5, <1>6, <1>7, StepInv

LEMMA BeginStep ==
    ASSUME Inv, NEW r \in Requests, Begin(r)
    PROVE  Inv'
<1>1. FreshSessions # {} => NewSession \in FreshSessions /\ NewSession \in SessionIds
    BY DEF NewSession, FreshSessions
<1>2. ASSUME NEW a \in Accounts, NEW p \in Passwords, BeginSignIn(r, a, p)
      PROVE  Inv'
    <2> DEFINE q == [Idle EXCEPT !.at = "find_credential", !.op = "sign_in", !.account = a,
                                 !.password = p, !.fresh = NewSession]
    <2>1. Start(r, q) /\ NewSession \in FreshSessions /\ NewSession \in SessionIds
        BY <1>1, <1>2 DEF BeginSignIn
    <2>2. /\ q \in RequestState /\ q.at = "find_credential" /\ q.op = "sign_in"
          /\ q.account = a /\ q.password = p /\ q.fresh = NewSession /\ q.recovery = None
          /\ q.writes = NoRows
        BY <2>1 DEF Idle, RequestState, Places, Ops, NoRows
    <2> HIDE DEF q
    <2>3. HandlerOK(q)
        BY <2>1, <2>2 DEF HandlerOK, InputsOK, ValuesOK, PlaceFits, OpsAt, Accounted,
                          Recovering, Closing, NoRows
    <2> QED
        BY <2>1, <2>2, <2>3, StartStep
<1>3. ASSUME NEW a \in Accounts, BeginAskRecovery(r, a)
      PROVE  Inv'
    <2> DEFINE c == CHOOSE c \in FreshRecoveries : TRUE
               q == [Idle EXCEPT !.at = "find_credential", !.op = "ask_recovery",
                                 !.account = a, !.code = c]
    <2>1. Start(r, q) /\ c \in RecoveryIds
        BY <1>3 DEF BeginAskRecovery, FreshRecoveries
    <2> HIDE DEF c
    <2>2. /\ q \in RequestState /\ q.at = "find_credential" /\ q.op = "ask_recovery"
          /\ q.account = a /\ q.code = c /\ q.recovery = None /\ q.writes = NoRows
        BY <2>1 DEF Idle, RequestState, Places, Ops, NoRows
    <2> HIDE DEF q
    <2>3. HandlerOK(q)
        BY <2>1, <2>2 DEF HandlerOK, InputsOK, ValuesOK, PlaceFits, OpsAt, Accounted,
                          Recovering, Closing, NoRows, Issuing
    <2> QED
        BY <2>1, <2>2, <2>3, StartStep DEF Issuing
<1>4. ASSUME NEW a \in Accounts, NEW c \in RecoveryIds \cup {None}, NEW p \in Passwords,
             BeginRecover(r, a, c, p)
      PROVE  Inv'
    <2> DEFINE q == [Idle EXCEPT !.at = "find_credential", !.op = "recover", !.account = a,
                                 !.code = c, !.password = p, !.fresh = NewSession]
    <2>1. Start(r, q) /\ NewSession \in FreshSessions /\ NewSession \in SessionIds
        BY <1>1, <1>4 DEF BeginRecover
    <2>2. /\ q \in RequestState /\ q.at = "find_credential" /\ q.op = "recover"
          /\ q.account = a /\ q.password = p /\ q.fresh = NewSession /\ q.recovery = None
          /\ q.writes = NoRows
        BY <2>1 DEF Idle, RequestState, Places, Ops, NoRows
    <2> HIDE DEF q
    <2>3. HandlerOK(q)
        BY <2>1, <2>2 DEF HandlerOK, InputsOK, ValuesOK, PlaceFits, OpsAt, Accounted,
                          Recovering, Closing, NoRows
    <2> QED
        BY <2>1, <2>2, <2>3, StartStep
<1>5. ASSUME NEW s \in SessionIds, BeginRefresh(r, s)
      PROVE  Inv'
    <2> DEFINE q == [Idle EXCEPT !.at = "find_session", !.op = "refresh", !.token = s,
                                 !.fresh = NewSession]
    <2>1. Start(r, q) /\ NewSession \in FreshSessions /\ NewSession \in SessionIds
        BY <1>1, <1>5 DEF BeginRefresh
    <2>2. /\ q \in RequestState /\ q.at = "find_session" /\ q.op = "refresh"
          /\ q.token = s /\ q.fresh = NewSession /\ q.recovery = None /\ q.writes = NoRows
        BY <2>1 DEF Idle, RequestState, Places, Ops, NoRows
    <2> HIDE DEF q
    <2>3. HandlerOK(q)
        BY <2>1, <2>2 DEF HandlerOK, InputsOK, ValuesOK, PlaceFits, OpsAt, Accounted,
                          Recovering, Closing, NoRows
    <2> QED
        BY <2>1, <2>2, <2>3, StartStep
<1>6. ASSUME NEW s \in SessionIds, BeginLogout(r, s)
      PROVE  Inv'
    <2> DEFINE q == [Idle EXCEPT !.at = "find_session", !.op = "logout", !.token = s]
    <2>1. Start(r, q)
        BY <1>6 DEF BeginLogout
    <2>2. /\ q \in RequestState /\ q.at = "find_session" /\ q.op = "logout"
          /\ q.token = s /\ q.recovery = None /\ q.writes = NoRows
        BY DEF Idle, RequestState, Places, Ops, NoRows
    <2> HIDE DEF q
    <2>3. HandlerOK(q)
        BY <2>1, <2>2 DEF HandlerOK, InputsOK, ValuesOK, PlaceFits, OpsAt, Accounted,
                          Recovering, Closing, NoRows, Issuing
    <2> QED
        BY <2>1, <2>2, <2>3, StartStep DEF Issuing
<1>7. ASSUME NEW s \in SessionIds, NEW op \in {"logout_all", "delete", "undo"},
             BeginAsMember(r, op, s)
      PROVE  Inv'
    <2> DEFINE q == [Idle EXCEPT !.at = "resolve", !.op = op, !.token = s]
    <2>1. Start(r, q)
        BY <1>7 DEF BeginAsMember
    <2>2. /\ q \in RequestState /\ q.at = "resolve" /\ q.op = op
          /\ q.token = s /\ q.recovery = None /\ q.writes = NoRows
        BY DEF Idle, RequestState, Places, Ops, NoRows
    <2> HIDE DEF q
    <2>3. HandlerOK(q)
        BY <2>1, <2>2 DEF HandlerOK, InputsOK, ValuesOK, PlaceFits, OpsAt, Accounted,
                          Recovering, Closing, NoRows, Issuing
    <2> QED
        BY <2>1, <2>2, <2>3, StartStep DEF Issuing
<1> QED
    BY <1>2, <1>3, <1>4, <1>5, <1>6, <1>7 DEF Begin

(* The end of a request: its rows are committed or taken back, and the slot  *)
(* is free again.                                                            *)
LEMMA EndRequests ==
    ASSUME Inv, NEW r \in Requests, CommitRequest(r) \/ RollbackRequest(r)
    PROVE  /\ req' \in [Requests -> RequestState] /\ OthersStay(r)
           /\ req'[r].at = "idle" /\ req'[r].op = "logout" /\ HandlerOK(req'[r])
<1> DEFINE i == Idle
<1>1. /\ i \in RequestState /\ i.at = "idle" /\ i.op = "logout" /\ i.writes = NoRows
      /\ i.recovery = None
    BY IdleType
<1> HIDE DEF i
<1>2. HandlerOK(i)
    BY <1>1 DEF HandlerOK, InputsOK, ValuesOK, PlaceFits, OpsAt, Accounted, Recovering,
                Closing, NoRows, Issuing
<1>3. CASE RollbackRequest(r)
    <2>1. req' = [req EXCEPT ![r] = i]
        BY <1>3 DEF RollbackRequest, i
    <2>2. req' \in [Requests -> RequestState] /\ req'[r] = i /\ OthersStay(r)
        BY <1>1, <2>1, Moved
    <2> QED
        BY <1>1, <1>2, <2>2
<1>4. CASE CommitRequest(r)
    <2> DEFINE Other(q) == [req[q] EXCEPT !.crossed = @ \/ Meets(r, q)]
    <2>1. req' = [q \in Requests |-> IF q = r THEN i ELSE Other(q)]
        BY <1>4 DEF CommitRequest, i
    <2>2. ASSUME NEW q \in Requests
          PROVE  /\ Other(q) \in RequestState
                 /\ \E b \in BOOLEAN : Other(q) = [req[q] EXCEPT !.crossed = b]
        <3> DEFINE b == req[q].crossed \/ Meets(r, q)
        <3>1. b \in BOOLEAN /\ req[q] \in RequestState
            BY RequestType
        <3>2. Other(q) = [req[q] EXCEPT !.crossed = b]
            BY <3>1 DEF RequestState
        <3> HIDE DEF b
        <3>3. [req[q] EXCEPT !.crossed = b] \in RequestState
            BY <3>1 DEF RequestState
        <3> QED
            BY <3>1, <3>2, <3>3
    <2> HIDE DEF Other
    <2>3. req' \in [Requests -> RequestState] /\ req'[r] = i
        BY <1>1, <2>1, <2>2
    <2>4. OthersStay(r)
        BY <2>1, <2>2 DEF OthersStay
    <2> QED
        BY <1>1, <1>2, <2>3, <2>4
<1> QED
    BY <1>3, <1>4

LEMMA EndRows ==
    ASSUME Inv, NEW r \in Requests, CommitRequest(r) \/ RollbackRequest(r)
    PROVE  /\ \A s \in SessionIds :
                 \/ sessions[s].by # r /\ sessions'[s] = sessions[s]
                 \/ sessions[s].by = r /\ sessions'[s] \in {Settled(sessions[s].next),
                                                            Settled(sessions[s].row)}
           /\ \A c \in RecoveryIds :
                 /\ recoveries'[c] = recoveries[c] \/ recoveries'[c].by = None
                 /\ recoveries'[c].by # r
                 /\ \/ notices'[c] = notices[c]
                    \/ notices[c].by = r /\ notices'[c].by = None
<1>1. \/ /\ sessions' = Commit(sessions, r) /\ recoveries' = Commit(recoveries, r)
         /\ notices' = Commit(notices, r)
      \/ /\ sessions' = Rollback(sessions, r) /\ recoveries' = Rollback(recoveries, r)
         /\ notices' = Rollback(notices, r)
    BY DEF CommitRequest, RollbackRequest
<1>2. r # None
    BY AccessNullAssumption
<1>3. \A s \in SessionIds :
         \/ sessions[s].by # r /\ sessions'[s] = sessions[s]
         \/ sessions[s].by = r /\ sessions'[s] \in {Settled(sessions[s].next),
                                                    Settled(sessions[s].row)}
    BY <1>1, Typed DEF Commit, Rollback
<1>4. \A c \in RecoveryIds :
         /\ recoveries'[c] = recoveries[c] \/ recoveries'[c].by = None
         /\ recoveries'[c].by # r
    BY <1>1, <1>2, Typed DEF Commit, Rollback, Settled
<1>5. \A c \in RecoveryIds :
         \/ notices'[c] = notices[c]
         \/ notices[c].by = r /\ notices'[c].by = None
    BY <1>1, Typed DEF Commit, Rollback, Settled
<1> QED
    BY <1>3, <1>4, <1>5

LEMMA EndStep ==
    ASSUME Inv, NEW r \in Requests, CommitRequest(r) \/ RollbackRequest(r)
    PROVE  Inv'
<1>1. /\ req' \in [Requests -> RequestState] /\ OthersStay(r)
      /\ req'[r].at = "idle" /\ req'[r].op = "logout" /\ HandlerOK(req'[r])
    BY EndRequests
<1>2. OtherTypes'
    BY EndType
<1>3. SessionsOK'
    BY <1>1, EndRows, SessionStep DEF SessionsEnd
<1>4. CodesOK'
    <2>1. RecoveriesMove(r) /\ NoticesMove(r)
        BY EndRows DEF RecoveriesMove, NoticesMove
    <2>2. CodeOK(r)'
        BY EndRows DEF CodeOK, Uses
    <2>3. NoticesOnce'
        BY EndRows DEF Inv, NoticesOnce
    <2> QED
        BY <1>1, <2>1, <2>2, <2>3, OthersUse DEF CodesOK
<1> QED
    BY <1>1, <1>2, <1>3, <1>4, StepInv

LEMMA TickStep ==
    ASSUME Inv, Tick
    PROVE  Inv'
<1>1. now' \in 0..MaxNow
    BY AccessBoundsAssumption DEF Tick, Inv, TypeOK
<1>2. UNCHANGED <<tables, req, history>>
    BY DEF Tick
<1>3. TypeOK'
    BY <1>1, <1>2 DEF Inv, TypeOK, tables, history
<1>4. (\A r \in Requests : HandlerOK(req[r]) /\ FreshOK(r) /\ CodeOK(r))'
    BY <1>2 DEF Inv, FreshOK, CodeOK, Uses, tables
<1>5. FreshDiffer' /\ DeadKept' /\ NoticesOnce'
    BY <1>2 DEF Inv, FreshDiffer, DeadKept, NoticesOnce, tables
<1> QED
    BY <1>3, <1>4, <1>5 DEF Inv

LEMMA StutterStep ==
    ASSUME Inv, UNCHANGED vars
    PROVE  Inv'
<1>1. UNCHANGED <<now, tables, req, history>>
    BY DEF vars
<1>2. TypeOK'
    BY <1>1 DEF Inv, TypeOK, tables, history
<1>3. (\A r \in Requests : HandlerOK(req[r]) /\ FreshOK(r) /\ CodeOK(r))'
    BY <1>1 DEF Inv, FreshOK, CodeOK, Uses, tables
<1>4. FreshDiffer' /\ DeadKept' /\ NoticesOnce'
    BY <1>1 DEF Inv, FreshDiffer, DeadKept, NoticesOnce, tables
<1> QED
    BY <1>2, <1>3, <1>4 DEF Inv

LEMMA InitInv == Init => Inv
<1> SUFFICES ASSUME Init PROVE Inv
    OBVIOUS
<1> DEFINE i == Idle
<1>1. /\ i \in RequestState /\ i.at = "idle" /\ i.op = "logout" /\ i.writes = NoRows
      /\ i.recovery = None
    BY IdleType
<1> HIDE DEF i
<1>2. /\ req = [r \in Requests |-> i] /\ now = 0 /\ begun = 0
      /\ users = [a \in Accounts |-> Settled("active")]
      /\ credentials \in [Accounts -> {Settled(p) : p \in Passwords}]
      /\ sessions = [s \in SessionIds |-> Settled(None)]
      /\ recoveries = [c \in RecoveryIds |-> Settled(None)]
      /\ deletions = [a \in Accounts |-> Settled(None)]
      /\ notices = [c \in RecoveryIds |-> Settled(FALSE)]
      /\ rotated = [s \in SessionIds |-> None] /\ excused = {}
    BY DEF Init, i
<1>3. TypeOK
    <2>1. now \in 0..MaxNow /\ begun \in 0..MaxRequests
        BY <1>2, AccessBoundsAssumption
    <2>2. users \in [Accounts -> Versions({"active", "deleted"}, Requests)]
        BY <1>2 DEF Settled, Versions
    <2>3. credentials \in [Accounts -> Versions(Passwords \cup {None}, Requests)]
        BY <1>2 DEF Settled, Versions
    <2>4. /\ sessions \in [SessionIds -> Versions(SessionRow \cup {None}, Requests)]
          /\ recoveries \in [RecoveryIds -> Versions(RecoveryRow \cup {None}, Requests)]
          /\ deletions \in [Accounts -> Versions(DeletionRow \cup {None}, Requests)]
        BY <1>2 DEF Settled, Versions
    <2>5. notices \in [RecoveryIds -> Versions(BOOLEAN, Requests)]
        BY <1>2 DEF Settled, Versions
    <2>6. /\ req \in [Requests -> RequestState]
          /\ rotated \in [SessionIds -> SessionIds \cup {None}] /\ excused \subseteq SessionIds
        BY <1>1, <1>2
    <2> QED
        BY <2>1, <2>2, <2>3, <2>4, <2>5, <2>6 DEF TypeOK
<1>4. HandlerOK(i)
    BY <1>1 DEF HandlerOK, InputsOK, ValuesOK, PlaceFits, OpsAt, Accounted, Recovering,
                Closing, NoRows, Issuing
<1>5. \A r \in Requests : HandlerOK(req[r]) /\ FreshOK(r) /\ CodeOK(r)
    BY <1>1, <1>2, <1>4 DEF FreshOK, CodeOK, Uses, Settled, Issuing
<1>6. FreshDiffer /\ DeadKept /\ NoticesOnce
    BY <1>1, <1>2 DEF FreshDiffer, Issuing, DeadKept, NoticesOnce, Settled
<1> QED
    BY <1>3, <1>5, <1>6 DEF Inv

LEMMA NextInv == Inv /\ [Next]_vars => Inv'
<1> SUFFICES ASSUME Inv, [Next]_vars PROVE Inv'
    OBVIOUS
<1>1. ASSUME NEW r \in Requests, Begin(r) PROVE Inv'
    BY <1>1, BeginStep
<1>2. ASSUME NEW r \in Requests, Read(r) PROVE Inv'
    BY <1>2, ReadStep
<1>3. ASSUME NEW r \in Requests, Change(r) PROVE Inv'
    BY <1>3, ChangeStep
<1>4. ASSUME NEW r \in Requests, CommitRequest(r) \/ Throw(r) \/ Crash(r) PROVE Inv'
    BY <1>4, EndStep DEF Throw, Crash
<1>5. CASE Tick
    BY <1>5, TickStep
<1>6. CASE UNCHANGED vars
    BY <1>6, StutterStep
<1> QED
    BY <1>1, <1>2, <1>3, <1>4, <1>5, <1>6 DEF Next

LEMMA Invariance == Spec => []Inv
  BY InitInv, NextInv, PTL DEF Spec

-----------------------------------------------------------------------------
(* What follows *)

(* Every row and every handler's values keep their types, for any number of  *)
(* requests in flight in the handlers of accounts/.                          *)
THEOREM AccessTypeSafety == Spec => []TypeOK
<1>1. Inv => TypeOK
    BY DEF Inv
<1> QED
    BY <1>1, Invariance, PTL

LEMMA NothingRevives ==
    ASSUME Inv, [Next]_vars, NEW s \in SessionIds, Session[s] # None, ~IsLive(s)
    PROVE  Session'[s] = None \/ ~IsLive(s)'
<1>1. /\ Session[s] = sessions[s].row
      /\ sessions' \in [SessionIds -> Versions(SessionRow \cup {None}, Requests)] =>
             Session'[s] = sessions'[s].row
    BY Typed DEF Session, Stored
<1>2. sessions' \in [SessionIds -> Versions(SessionRow \cup {None}, Requests)]
    BY NextInv DEF Inv, TypeOK
<1>3. sessions[s].row # None /\ Dead(sessions[s].row)
    BY <1>1 DEF IsLive, Dead
<1>4. Dead(sessions[s].next)
    BY <1>3 DEF Inv, DeadKept
<1>5. sessions'[s].row \in {sessions[s].row, sessions[s].next}
    <2>1. ASSUME NEW r \in Requests, CommitRequest(r) \/ RollbackRequest(r)
          PROVE  sessions'[s].row \in {sessions[s].row, sessions[s].next}
        BY <2>1, EndRows DEF Settled
    <2>2. ASSUME NEW r \in Requests, Change(r)
          PROVE  sessions'[s].row = sessions[s].row
        <3>1. CASE InsertSession(r)
            BY <3>1, Typed DEF InsertSession, Put
        <3>2. CASE DeleteSessions(r)
            BY <3>2, Typed DEF DeleteSessions, WithoutOwn
        <3>3. CASE \E t \in SessionIds : WriteSession(r, t)
            BY <3>3, Typed DEF WriteSession, Put
        <3>4. CASE UNCHANGED sessions
            BY <3>4
        <3> QED
            BY <2>2, <3>1, <3>2, <3>3, <3>4
            DEF Change, SetPassword, InsertRecovery, WriteRecovery, TellOwner, Schedule,
                DeleteCredential, DeleteRecoveries, RetireUser, WriteDeletion
    <2>3. ASSUME NEW r \in Requests, Read(r)
          PROVE  sessions' = sessions
        BY <2>3 DEF Read, Resolve, FindCredential, FindSession, ListSessions, FindRecovery,
                    FindScheduled, FindDeletion, FindContact, tables
    <2>4. ASSUME NEW r \in Requests, Begin(r)
          PROVE  sessions' = sessions
        BY <2>4 DEF Begin, BeginSignIn, BeginAskRecovery, BeginRecover, BeginRefresh,
                    BeginLogout, BeginAsMember, Start, tables
    <2>5. Tick \/ UNCHANGED vars => sessions' = sessions
        BY DEF Tick, vars, tables
    <2> QED
        BY <2>1, <2>2, <2>3, <2>4, <2>5 DEF Next, Throw, Crash
<1> QED
    BY <1>1, <1>2, <1>3, <1>4, <1>5 DEF IsLive, Dead

(* A session that was superseded or revoked never authenticates again.  No   *)
(* handler locks the rows it reads, and each writes whole rows: what makes   *)
(* it hold is that a handler only ever writes a session back ended, and the  *)
(* one row it writes live has an id no other row or request has.             *)
THEOREM NothingDeadRevives == Spec => DeadStaysDead
<1>1. Inv /\ [Next]_vars =>
          [\A s \in SessionIds :
              Session[s] # None /\ ~IsLive(s) => Session'[s] = None \/ ~IsLive(s)']_vars
    BY NothingRevives
<1> QED
    BY <1>1, Invariance, PTL DEF Spec, DeadStaysDead

(* A handler that has used a recovery's code answers only as the one writer  *)
(* of its notice, whose key was free when it wrote: no earlier completion of *)
(* the same recovery has committed.                                          *)
THEOREM CodesAreSpentOnce == Spec => []CodeWorksOnce
<1>1. ASSUME Inv, NEW r \in Requests, NEW c \in RecoveryIds, At(r, "reply"), Uses(r, c)
      PROVE  ~notices[c].row
    <2>1. notices[c].by = r
        BY <1>1, RequestType DEF CodeOK, At
    <2> QED
        BY <1>1, <2>1, AccessNullAssumption DEF Inv, NoticesOnce
<1>2. Inv => CodeWorksOnce
    BY <1>1 DEF CodeWorksOnce, Uses
<1> QED
    BY <1>2, Invariance, PTL

-----------------------------------------------------------------------------
(* Single use, recovery and deletion: what each handler in flight knows      *)

Inserted(q) == req[q].op \in Issuing /\ sessions[req[q].fresh].by = q

(* The id a request may issue has never been used; a token was issued.       *)
TokenOK(q) ==
    /\ req[q].op \notin Issuing => req[q].fresh = None
    /\ req[q].op \in Issuing => rotated[req[q].fresh] = None
    /\ req[q].op = "refresh" => req[q].token \in SessionIds /\ rotated[req[q].token] # None

(* A handler writes live only the row it issues, and revives no row.         *)
Wrote == {"insert_session", "write_sessions", "write_recovery", "tell_owner",
          "delete_recoveries", "retire_user", "write_deletion", "reply", "failed"}
WritesOK(q) ==
    \A s \in SessionIds : sessions[s].by = q =>
        /\ req[q].at \in Wrote
        /\ \/ req[q].op \in Issuing /\ s = req[q].fresh
           \/ /\ Dead(sessions[s].next)
              /\ sessions[s].row = None => sessions[s].next = None

(* A refresh that has its new session ready ends the one it was asked with,  *)
(* and knows of any successor that one has by now.                           *)
Ended(q, s) == Dead(sessions[s].next) /\ (sessions[s].by = q \/ Dead(sessions[s].row))
Holding(q) == \/ req[q].at \in {"insert_session", "write_sessions"}
              \/ req[q].at = "reply" /\ Inserted(q)
RefreshOK(q) ==
    /\ req[q].at = "write_recovery" => req[q].op \in {"ask_recovery", "recover"}
    /\ req[q].op = "refresh" /\ Holding(q) =>
           /\ \/ Ended(q, req[q].token)
              \/ req[q].at # "reply" /\ req[q].writes[req[q].token] # None
           /\ \A s \in SessionIds \ {req[q].token} :
                 rotated[s] = req[q].token => req[q].crossed

(* Unless another request crossed it, what a handler knows of the password   *)
(* is what is stored, or what it has stored itself.                          *)
Known(q, a) == IF credentials[a].by = q THEN credentials[a].next ELSE credentials[a].row
Unexcused(q) == ~req[q].crossed /\ (req[q].op = "refresh" => req[q].token \notin excused)
Current(q, row) == row.under = Known(q, row.owner)
PasswordOK(q) ==
    ~req[q].crossed =>
        /\ req[q].op \in {"sign_in", "recover"} /\ req[q].at = "list_sessions" =>
               Known(q, req[q].account) = req[q].password
        /\ req[q].op = "recover" /\ req[q].at \in {"find_recovery", "set_password"} =>
               Known(q, req[q].account) # None
IssueOK(q) ==
    /\ req[q].issue # None =>
           /\ req[q].at \in {"insert_session", "write_sessions", "write_recovery",
                             "tell_owner", "failed"}
           /\ Unexcused(q) => Current(q, req[q].issue)
    /\ Inserted(q) /\ ~Dead(sessions[req[q].fresh].next) /\ Unexcused(q) =>
           Current(q, sessions[req[q].fresh].next)

(* A handler that changes a password, or takes it away, has ended every      *)
(* session of the account that was committed and is not excused.             *)
Sweeping(a, s) ==
    /\ ~Dead(sessions[s].row) /\ sessions[s].row.owner = a /\ s \notin excused
Swept(q, s) == \/ sessions[s].by = q /\ Dead(sessions[s].next)
               \/ req[q].at = "write_sessions" /\ req[q].writes[s] # None
SweepOK(q) ==
    \A a \in Accounts : credentials[a].by = q =>
        /\ \/ /\ req[q].op = "recover"
              /\ req[q].at \in (Recovering \cup {"reply", "failed"}) \ {"set_password"}
           \/ /\ req[q].op = "undo"
              /\ req[q].at \in {"delete_sessions", "delete_recoveries", "retire_user",
                                "write_deletion", "reply"}
        /\ req[q].at # "reply" => a = req[q].account
        /\ req[q].at \notin {"list_sessions", "delete_sessions"} =>
               \A s \in SessionIds : Sweeping(a, s) => Swept(q, s)

Retired(q, a) == credentials[a].by = q /\ credentials[a].next = None
ClosingOK(q) ==
    /\ req[q].at \in Closing \cup {"find_deletion"} => req[q].op = "undo"
    /\ req[q].at \in {"delete_sessions", "delete_recoveries", "retire_user"} =>
           Retired(q, req[q].account)
    /\ \A a \in Accounts : users[a].by = q =>
           req[q].at \in {"write_deletion", "reply"} /\ Retired(q, a)

Knows(q) == /\ TokenOK(q) /\ WritesOK(q) /\ RefreshOK(q) /\ PasswordOK(q)
            /\ IssueOK(q) /\ SweepOK(q) /\ ClosingOK(q)

(* What is committed: a session was issued or refreshed once, the one it     *)
(* came from is over, and a password that is gone stays gone.                *)
RotationsOK ==
    /\ \A s \in SessionIds : IF sessions[s].row # None THEN rotated[s] # None
                              ELSE rotated[s] # None => Dead(sessions[s].next)
    /\ \A s \in SessionIds : rotated[s] # None => rotated[rotated[s]] # None
    /\ \A s \in SessionIds : rotated[s] \notin {s, None} =>
           Dead(sessions[rotated[s]].row) /\ Dead(sessions[rotated[s]].next)
GoneOK ==
    \A a \in Accounts :
        /\ credentials[a].row = None => credentials[a].next = None
        /\ users[a].row = "deleted" => credentials[a].row = None

Access == /\ \A q \in Requests : Knows(q)
          /\ RotationsOK /\ SingleUse /\ RecoverySignsOut /\ GoneOK

-----------------------------------------------------------------------------
(* A statement of r: what it may do to the rows of the tables, and why the   *)
(* other handlers still know what they knew.                                 *)

SessionMove(r) ==
    \A s \in SessionIds :
        \/ sessions'[s] = sessions[s]
        \/ /\ sessions[s].by \in {None, r} /\ sessions'[s].by = r
           /\ sessions'[s].row = sessions[s].row
           /\ Dead(sessions'[s].next) \/ (req[r].op \in Issuing /\ s = req[r].fresh)
CredentialMove(r) ==
    \A a \in Accounts :
        \/ credentials'[a] = credentials[a]
        \/ /\ credentials[a].by \in {None, r} /\ credentials'[a].by = r
           /\ credentials'[a].row = credentials[a].row
           /\ credentials[a].row = None => credentials'[a].next = None
UserMove(r) ==
    \A a \in Accounts :
        \/ users'[a] = users[a]
        \/ /\ users[a].by \in {None, r} /\ users'[a].by = r
           /\ users'[a].row = users[a].row
Statement(r) ==
    /\ SessionMove(r) /\ CredentialMove(r) /\ UserMove(r)
    /\ rotated' = rotated /\ excused' = excused
    /\ \A q \in Requests \ {r} : req'[q] = req[q]

LEMMA RowsRead ==
    ASSUME Inv
    PROVE  /\ \A s \in SessionIds : Session[s] = sessions[s].row
           /\ \A a \in Accounts : Password[a] = credentials[a].row /\ UserState[a] = users[a].row
           /\ \A q \in Requests, s \in SessionIds :
                 Seen(sessions, q)[s] = IF sessions[s].by = q THEN sessions[s].next
                                                              ELSE sessions[s].row
           /\ \A q \in Requests, a \in Accounts : Seen(credentials, q)[a] = Known(q, a)
  BY Typed DEF Session, Password, UserState, Stored, Seen, Known

LEMMA OthersKnow ==
    ASSUME Inv, Access, NEW r \in Requests, Statement(r), NEW q \in Requests \ {r}
    PROVE  Knows(q)'
<1>1. req'[q] = req[q] /\ q # r /\ q # None
    BY AccessNullAssumption DEF Statement
<1>2. Knows(q) /\ TokenOK(r)
    BY DEF Access, Knows
<1>3. /\ \A s \in SessionIds : sessions'[s].by = q \/ sessions[s].by = q =>
                                   sessions'[s] = sessions[s]
      /\ \A s \in SessionIds : sessions'[s].row = sessions[s].row
    BY <1>1 DEF Statement, SessionMove
<1>4. /\ \A a \in Accounts : credentials'[a].by = q \/ credentials[a].by = q =>
                                 credentials'[a] = credentials[a]
      /\ \A a \in Accounts : credentials'[a].row = credentials[a].row
    BY <1>1 DEF Statement, CredentialMove
<1>5. \A a \in Accounts : users'[a].by = q => users'[a] = users[a]
    BY <1>1 DEF Statement, UserMove
<1>6. rotated' = rotated /\ excused' = excused
    BY DEF Statement
<1>7. req[q].op \in Issuing => req[q].fresh \in SessionIds
    BY RequestType DEF HandlerOK, ValuesOK
<1>8. TokenOK(q)'
    BY <1>1, <1>2, <1>6 DEF Knows, TokenOK
<1>9. WritesOK(q)'
    BY <1>1, <1>2, <1>3 DEF Knows, WritesOK
<1>10. Inserted(q)' = Inserted(q)
    BY <1>1, <1>3, <1>7 DEF Inserted
<1>11. Inserted(q) => sessions'[req[q].fresh] = sessions[req[q].fresh]
    BY <1>3, <1>7 DEF Inserted
<1>12. RefreshOK(q)'
    <2>1. ASSUME req[q].op = "refresh", Ended(q, req[q].token)
          PROVE  Ended(q, req[q].token)'
        <3> DEFINE t == req[q].token
        <3>1. t \in SessionIds /\ rotated[t] # None
            BY <1>2, <2>1 DEF Knows, TokenOK
        <3>2. req[r].op \in Issuing => t # req[r].fresh
            BY <1>2, <3>1 DEF TokenOK
        <3> HIDE DEF t
        <3>3. sessions'[t] = sessions[t] \/ Dead(sessions'[t].next)
            BY <3>1, <3>2 DEF Statement, SessionMove
        <3>4. Ended(q, t)
            BY <2>1 DEF t
        <3>5. Dead(sessions'[t].next) /\ (sessions'[t].by = q \/ Dead(sessions'[t].row))
            BY <1>3, <3>1, <3>3, <3>4 DEF Ended
        <3>6. t' = t
            BY <1>1 DEF t
        <3> QED
            BY <3>5, <1>1 DEF Ended, t
    <2>2. Holding(q)' = Holding(q)
        BY <1>1, <1>10 DEF Holding
    <2> QED
        BY <1>1, <1>2, <1>6, <2>1, <2>2 DEF Knows, RefreshOK
<1>13. \A a \in Accounts : Known(q, a)' = Known(q, a)
    BY <1>4 DEF Known
<1>14. Unexcused(q)' = Unexcused(q)
    BY <1>1, <1>6 DEF Unexcused
<1>15. PasswordOK(q)'
    <2>1. req[q].at \in {"list_sessions", "find_recovery", "set_password"} =>
             req[q].account \in Accounts
        BY RequestType DEF HandlerOK, PlaceFits, Accounted
    <2> QED
        BY <1>1, <1>2, <1>13, <2>1 DEF Knows, PasswordOK
<1>16. IssueOK(q)'
    <2>1. req[q].issue # None => req[q].issue.owner \in Accounts
        BY RequestType DEF RequestState, SessionRow
    <2>2. Inserted(q) /\ ~Dead(sessions[req[q].fresh].next) =>
             sessions[req[q].fresh].next.owner \in Accounts
        BY <1>7, Typed DEF Inserted, Dead, Versions, SessionRow
    <2> QED
        BY <1>1, <1>2, <1>10, <1>11, <1>13, <1>14, <2>1, <2>2 DEF Knows, IssueOK, Current
<1>17. SweepOK(q)'
    <2>1. ASSUME NEW a \in Accounts, credentials'[a].by = q
          PROVE  credentials[a].by = q
        BY <1>4, <2>1
    <2>2. \A a \in Accounts, s \in SessionIds :
             /\ Sweeping(a, s)' = Sweeping(a, s)
             /\ Swept(q, s) => Swept(q, s)'
        BY <1>1, <1>3, <1>6 DEF Sweeping, Swept
    <2> QED
        BY <1>1, <1>2, <2>1, <2>2 DEF Knows, SweepOK
<1>18. ClosingOK(q)'
    <2>1. \A a \in Accounts : Retired(q, a) => Retired(q, a)'
        BY <1>4 DEF Retired
    <2>2. req[q].at \in {"delete_sessions", "delete_recoveries", "retire_user"} =>
             req[q].account \in Accounts
        BY RequestType DEF HandlerOK, PlaceFits, Accounted
    <2> QED
        BY <1>1, <1>2, <1>5, <2>1, <2>2 DEF Knows, ClosingOK
<1> QED
    BY <1>8, <1>9, <1>12, <1>15, <1>16, <1>17, <1>18 DEF Knows

LEMMA StatementKeeps ==
    ASSUME Inv, Inv', Access, NEW r \in Requests, Statement(r), Knows(r)'
    PROVE  Access'
<1>1. \A q \in Requests : Knows(q)'
    BY OthersKnow
<1>2. /\ \A s \in SessionIds : Session[s] = sessions[s].row /\ Session'[s] = sessions'[s].row
      /\ \A a \in Accounts : Password[a] = credentials[a].row
                             /\ Password'[a] = credentials'[a].row
    BY DEF Inv, TypeOK, Session, Password, Stored
<1>3. /\ \A s \in SessionIds : sessions'[s].row = sessions[s].row
      /\ \A a \in Accounts : credentials'[a].row = credentials[a].row
      /\ \A a \in Accounts : users'[a].row = users[a].row
      /\ rotated' = rotated /\ excused' = excused
    BY DEF Statement, SessionMove, CredentialMove, UserMove
<1>4. RotationsOK'
    <2>1. ASSUME NEW s \in SessionIds, rotated[s] \notin {s, None}
          PROVE  Dead(sessions'[rotated[s]].next) /\ Dead(sessions'[rotated[s]].row)
        <3> DEFINE t == rotated[s]
        <3>1. t \in SessionIds
            BY <2>1 DEF Inv, TypeOK
        <3>2. rotated[t] # None /\ Dead(sessions[t].row) /\ Dead(sessions[t].next)
            BY <2>1 DEF Access, RotationsOK
        <3>3. TokenOK(r)
            BY DEF Access, Knows
        <3>4. req[r].op \in Issuing => t # req[r].fresh
            BY <3>2, <3>3 DEF TokenOK
        <3> HIDE DEF t
        <3>5. Dead(sessions'[t].next) /\ Dead(sessions'[t].row)
            BY <1>3, <3>1, <3>2, <3>4 DEF Statement, SessionMove
        <3> QED
            BY <3>5 DEF t
    <2>2. ASSUME NEW s \in SessionIds, sessions[s].row = None, rotated[s] # None
          PROVE  Dead(sessions'[s].next)
        <3>1. Dead(sessions[s].next)
            BY <2>2 DEF Access, RotationsOK
        <3>2. TokenOK(r)
            BY DEF Access, Knows
        <3> QED
            BY <2>2, <3>1, <3>2 DEF Statement, SessionMove, TokenOK
    <2> QED
        BY <1>3, <2>1, <2>2 DEF Access, RotationsOK
<1>5. SingleUse' /\ RecoverySignsOut'
    <2>1. \A s \in SessionIds : Session'[s] = Session[s] /\ IsLive(s)' = IsLive(s)
        BY <1>2, <1>3 DEF IsLive
    <2>2. \A s \in SessionIds : rotated[s] # None => rotated[s] \in SessionIds
        BY DEF Inv, TypeOK
    <2>3. SingleUse'
        BY <1>3, <2>1, <2>2 DEF Access, SingleUse
    <2>4. \A s \in SessionIds : IsLive(s) => Session[s].owner \in Accounts
        BY <1>2, Typed DEF IsLive, Versions, SessionRow
    <2>5. RecoverySignsOut'
        BY <1>2, <1>3, <2>1, <2>4 DEF Access, RecoverySignsOut
    <2> QED
        BY <2>3, <2>5
<1>6. GoneOK'
    BY <1>3 DEF Access, GoneOK, Statement, CredentialMove
<1> QED
    BY <1>1, <1>4, <1>5, <1>6 DEF Access

-----------------------------------------------------------------------------
(* The end of a request, as the others meet it                               *)

Ending(r) == CommitRequest(r) \/ RollbackRequest(r)

(* What the end of r leaves of a table: its rows are settled, others stay.   *)
LEMMA EndTables ==
    ASSUME Inv, NEW r \in Requests, Ending(r)
    PROVE  /\ \A s \in SessionIds :
                 \/ sessions[s].by # r /\ sessions'[s] = sessions[s]
                 \/ /\ sessions[s].by = r /\ sessions'[s].by = None
                    /\ sessions'[s].next = sessions'[s].row
                    /\ sessions'[s].row = IF CommitRequest(r) THEN sessions[s].next
                                                              ELSE sessions[s].row
           /\ \A a \in Accounts :
                 \/ credentials[a].by # r /\ credentials'[a] = credentials[a]
                 \/ /\ credentials[a].by = r /\ credentials'[a].by = None
                    /\ credentials'[a].next = credentials'[a].row
                    /\ credentials'[a].row = IF CommitRequest(r) THEN credentials[a].next
                                                                 ELSE credentials[a].row
           /\ \A a \in Accounts :
                 \/ users[a].by # r /\ users'[a] = users[a]
                 \/ /\ users[a].by = r /\ users'[a].by = None
                    /\ users'[a].row = IF CommitRequest(r) THEN users[a].next ELSE users[a].row
<1>1. CASE CommitRequest(r)
    <2>1. /\ sessions' = Commit(sessions, r) /\ credentials' = Commit(credentials, r)
          /\ users' = Commit(users, r)
        BY <1>1 DEF CommitRequest
    <2> QED
        BY <1>1, <2>1, Typed DEF Commit, Settled
<1>2. CASE ~CommitRequest(r)
    <2>1. /\ sessions' = Rollback(sessions, r) /\ credentials' = Rollback(credentials, r)
          /\ users' = Rollback(users, r)
        BY <1>2 DEF Ending, RollbackRequest
    <2> QED
        BY <1>2, <2>1, Typed DEF Rollback, Settled
<1> QED
    BY <1>1, <1>2

LEMMA EndHistory ==
    ASSUME Inv, Access, NEW r \in Requests, Ending(r)
    PROVE  /\ \A s \in SessionIds :
                 \/ rotated'[s] = rotated[s]
                 \/ /\ CommitRequest(r) /\ req[r].op \in Issuing /\ s = req[r].fresh
                    /\ sessions[s].by = r
                    /\ rotated'[s] = IF req[r].op = "refresh" THEN req[r].token ELSE s
           /\ excused \subseteq excused'
           /\ \A q \in Requests \ {r} :
                 /\ req[q].crossed => req'[q].crossed
                 /\ CommitRequest(r) /\ Meets(r, q) => req'[q].crossed
<1>1. CASE CommitRequest(r)
    <2>1. rotated' = [s \in SessionIds |->
                         IF s \notin {s1 \in {req[r].fresh} \ {None} : sessions[s1].by = r}
                         THEN rotated[s]
                         ELSE IF req[r].op = "refresh" THEN req[r].token ELSE s]
        BY <1>1 DEF CommitRequest
    <2>2. excused \subseteq excused'
        BY <1>1 DEF CommitRequest
    <2>3. \A q \in Requests \ {r} : req'[q] = [req[q] EXCEPT !.crossed = @ \/ Meets(r, q)]
        BY <1>1 DEF CommitRequest
    <2>4. \A q \in Requests \ {r} : req'[q].crossed = (req[q].crossed \/ Meets(r, q))
        BY <2>3, RequestType DEF RequestState
    <2>5. req[r].fresh # None => req[r].op \in Issuing
        BY DEF Access, Knows, TokenOK
    <2>6. ASSUME NEW s \in SessionIds, rotated'[s] # rotated[s]
          PROVE  /\ req[r].op \in Issuing /\ s = req[r].fresh /\ sessions[s].by = r
                 /\ rotated'[s] = IF req[r].op = "refresh" THEN req[r].token ELSE s
        BY <2>1, <2>5, <2>6
    <2> QED
        BY <1>1, <2>2, <2>4, <2>6
<1>2. CASE ~CommitRequest(r)
    <2>1. rotated' = rotated /\ excused' = excused /\ req' = [req EXCEPT ![r] = Idle]
        BY <1>2 DEF Ending, RollbackRequest, history
    <2>2. \A q \in Requests \ {r} : req'[q] = req[q]
        BY <2>1, RequestType
    <2> QED
        BY <1>2, <2>1, <2>2
<1> QED
    BY <1>1, <1>2

(* A session that a request issues while one that ends sessions is in flight *)
(* is excused.                                                               *)
LEMMA IssuedIsExcused ==
    ASSUME Inv, Access, NEW r \in Requests, CommitRequest(r), req[r].op \in Issuing,
           sessions[req[r].fresh].by = r,
           \/ req[r].crossed
           \/ \E q \in Requests : Meets(r, q)
           \/ req[r].op = "refresh" /\ req[r].token \in excused
    PROVE  req[r].fresh \in excused'
<1>1. req[r].fresh \in SessionIds
    BY RequestType DEF HandlerOK, ValuesOK
<1>2. req[r].fresh # None
    BY <1>1, AccessNullAssumption
<1> QED
    BY <1>1, <1>2 DEF CommitRequest

LEMMA OthersOutlive ==
    ASSUME Inv, Inv', Access, NEW r \in Requests, Ending(r), req[r].at # "idle",
           NEW q \in Requests \ {r}
    PROVE  Knows(q)'
<1>1. /\ q # r /\ q # None
      /\ req'[q].at = req[q].at /\ req'[q].op = req[q].op
      /\ req'[q].account = req[q].account /\ req'[q].token = req[q].token
      /\ req'[q].fresh = req[q].fresh /\ req'[q].issue = req[q].issue
      /\ req'[q].writes = req[q].writes /\ req'[q].password = req[q].password
    BY EndRequests, OtherFields, AccessNullAssumption DEF Ending
<1>2. /\ TokenOK(q) /\ WritesOK(q) /\ RefreshOK(q) /\ PasswordOK(q)
      /\ IssueOK(q) /\ SweepOK(q) /\ ClosingOK(q)
      /\ TokenOK(r) /\ WritesOK(r) /\ SweepOK(r)
    BY DEF Access, Knows
<1>3. /\ \A s \in SessionIds : sessions'[s].by = q \/ sessions[s].by = q =>
                                   sessions'[s] = sessions[s]
      /\ \A a \in Accounts : credentials'[a].by = q \/ credentials[a].by = q =>
                                 credentials'[a] = credentials[a]
      /\ \A a \in Accounts : users'[a].by = q => users'[a] = users[a]
    BY <1>1, EndTables
<1>4. req[q].op \in Issuing => req[q].fresh \in SessionIds
    BY RequestType DEF HandlerOK, ValuesOK
<1>5. req[r].op \in Issuing /\ req[q].op \in Issuing => req[q].fresh # req[r].fresh
    BY <1>1 DEF Inv, FreshDiffer
<1>6. Inserted(q)' = Inserted(q)
    BY <1>1, <1>3, <1>4 DEF Inserted
<1>7. Inserted(q) => sessions'[req[q].fresh] = sessions[req[q].fresh]
    BY <1>3, <1>4 DEF Inserted
<1>8. TokenOK(q)'
    <2>1. req[q].op \in Issuing => rotated'[req[q].fresh] = None
        BY <1>2, <1>4, <1>5, EndHistory DEF TokenOK
    <2>2. req[q].op = "refresh" => req[q].token \in SessionIds /\ rotated'[req[q].token] # None
        <3>1. ASSUME req[q].op = "refresh"
              PROVE  req[q].token \in SessionIds /\ rotated[req[q].token] # None
            BY <1>2, <3>1 DEF TokenOK
        <3>2. ASSUME NEW s \in SessionIds, rotated[s] # None
              PROVE  rotated'[s] = rotated[s]
            BY <1>2, <3>2, EndHistory DEF TokenOK
        <3> QED
            BY <3>1, <3>2
    <2> QED
        BY <1>1, <1>2, <2>1, <2>2 DEF TokenOK
<1>9. WritesOK(q)'
    BY <1>1, <1>2, <1>3 DEF WritesOK
<1>10. Holding(q)' = Holding(q)
    BY <1>1, <1>6 DEF Holding
<1>11. RefreshOK(q)'
    <2>1. ASSUME req[q].op = "refresh", Holding(q), Ended(q, req[q].token)
          PROVE  Ended(q, req[q].token)'
        <3> DEFINE t == req[q].token
        <3>1. t \in SessionIds
            BY <1>2, <2>1 DEF TokenOK
        <3>2. Ended(q, t)
            BY <2>1 DEF t
        <3> HIDE DEF t
        <3>3. \/ sessions'[t] = sessions[t]
              \/ Dead(sessions'[t].next) /\ Dead(sessions'[t].row)
            BY <1>1, <3>1, <3>2, EndTables DEF Ended
        <3>4. Dead(sessions'[t].next) /\ (sessions'[t].by = q \/ Dead(sessions'[t].row))
            BY <3>2, <3>3 DEF Ended
        <3>5. t' = t
            BY <1>1 DEF t
        <3> QED
            BY <3>4, <1>1 DEF Ended, t
    <2>2. ASSUME req[q].op = "refresh", Holding(q), NEW s \in SessionIds \ {req[q].token},
                 rotated'[s] = req[q].token
          PROVE  req'[q].crossed
        <3>1. CASE rotated'[s] = rotated[s]
            BY <1>2, <2>2, <3>1, EndHistory DEF RefreshOK
        <3>2. CASE rotated'[s] # rotated[s]
            <4>1. CommitRequest(r) /\ req[r].op = "refresh" /\ req[r].token = req[q].token
                BY <2>2, <3>2, EndHistory
            <4>2. req[q].at # "idle"
                BY <2>2 DEF Holding
            <4>3. Meets(r, q)
                BY <1>1, <2>2, <4>1, <4>2 DEF Meets, At
            <4> QED
                BY <4>1, <4>3, EndHistory
        <3> QED
            BY <3>1, <3>2
    <2> QED
        BY <1>1, <1>2, <1>10, <2>1, <2>2 DEF RefreshOK
<1>12. ASSUME ~req'[q].crossed, req[q].at # "idle", NEW a \in Accounts
       PROVE  ~req[q].crossed /\ Known(q, a)' = Known(q, a)
    <2>1. ~req[q].crossed
        BY <1>12, EndHistory
    <2>2. CASE credentials[a].by # r
        BY <2>1, <2>2, EndTables DEF Known
    <2>3. CASE credentials[a].by = r
        <3>1. Ends(req[r])
            BY <1>2, <2>3 DEF SweepOK, Ends
        <3>2. Meets(r, q)
            BY <1>1, <1>12, <3>1 DEF Meets, At
        <3>3. ~CommitRequest(r)
            BY <1>12, <3>2, EndHistory
        <3>4. credentials'[a].row = credentials[a].row /\ credentials'[a].by = None
            BY <2>3, <3>3, EndTables
        <3> QED
            BY <1>1, <2>1, <2>3, <3>4 DEF Known
    <2> QED
        BY <2>2, <2>3
<1>13. PasswordOK(q)'
    <2>1. req[q].at \in {"list_sessions", "find_recovery", "set_password"} =>
             req[q].account \in Accounts
        BY RequestType DEF HandlerOK, PlaceFits, Accounted
    <2> QED
        BY <1>1, <1>2, <1>12, <2>1 DEF PasswordOK
<1>14. IssueOK(q)'
    <2>1. req[q].issue # None => req[q].issue.owner \in Accounts
        BY RequestType DEF RequestState, SessionRow
    <2>2. Inserted(q) /\ ~Dead(sessions[req[q].fresh].next) =>
             sessions[req[q].fresh].next.owner \in Accounts
        BY <1>4, Typed DEF Inserted, Dead, Versions, SessionRow
    <2>3. Inserted(q) \/ req[q].issue # None => req[q].at # "idle"
        BY <1>2, <1>4 DEF Inserted, WritesOK, Wrote, IssueOK
    <2>4. Unexcused(q)' => Unexcused(q) /\ ~req'[q].crossed
        BY <1>1, EndHistory DEF Unexcused
    <2> QED
        BY <1>1, <1>2, <1>6, <1>7, <1>12, <2>1, <2>2, <2>3, <2>4 DEF IssueOK, Current
<1>15. SweepOK(q)'
    <2>1. ASSUME NEW a \in Accounts, credentials'[a].by = q
          PROVE  credentials[a].by = q
        BY <1>3, <2>1
    <2>2. ASSUME NEW a \in Accounts, credentials[a].by = q, NEW s \in SessionIds,
                 Sweeping(a, s)'
          PROVE  Sweeping(a, s)
        <3>1. sessions'[s].row = sessions[s].row
            <4>1. SUFFICES ASSUME sessions'[s].row # sessions[s].row PROVE FALSE
                OBVIOUS
            <4>2. CommitRequest(r) /\ sessions[s].by = r /\ sessions'[s].row = sessions[s].next
                BY <4>1, EndTables
            <4>3. ~Dead(sessions[s].next)
                BY <2>2, <4>2 DEF Sweeping
            <4>4. req[r].op \in Issuing /\ s = req[r].fresh
                BY <1>2, <4>2, <4>3 DEF WritesOK
            <4>5. Ends(req[q]) /\ req[q].at # "idle"
                BY <1>2, <2>2 DEF SweepOK, Ends, Recovering
            <4>6. Meets(r, q)
                BY <1>1, <4>5 DEF Meets, At
            <4>7. s \in excused'
                BY <4>2, <4>4, <4>6, IssuedIsExcused
            <4> QED
                BY <2>2, <4>7 DEF Sweeping
        <3> QED
            BY <2>2, <3>1, EndHistory DEF Sweeping
    <2>3. \A s \in SessionIds : Swept(q, s) => Swept(q, s)'
        BY <1>1, <1>3 DEF Swept
    <2> QED
        BY <1>1, <1>2, <2>1, <2>2, <2>3 DEF SweepOK
<1>16. ClosingOK(q)'
    <2>1. \A a \in Accounts : Retired(q, a) => Retired(q, a)'
        BY <1>3 DEF Retired
    <2>2. req[q].at \in {"delete_sessions", "delete_recoveries", "retire_user"} =>
             req[q].account \in Accounts
        BY RequestType DEF HandlerOK, PlaceFits, Accounted
    <2> QED
        BY <1>1, <1>2, <1>3, <2>1, <2>2 DEF ClosingOK
<1> QED
    BY <1>8, <1>9, <1>11, <1>13, <1>14, <1>15, <1>16 DEF Knows

(* Of r itself nothing is left to know.                                      *)
LEMMA EndedKnows ==
    ASSUME Inv, Access, NEW r \in Requests, Ending(r)
    PROVE  Knows(r)'
<1>1. /\ req'[r].at = "idle" /\ req'[r].op = "logout"
      /\ req'[r].fresh = None /\ req'[r].issue = None
    <2> DEFINE i == Idle
    <2>1. i.fresh = None /\ i.issue = None
        BY DEF Idle
    <2> HIDE DEF i
    <2>2. req'[r] = i
        BY RequestType DEF Ending, CommitRequest, RollbackRequest, i
    <2> QED
        BY <2>1, <2>2, EndRequests DEF Ending
<1>2. /\ \A s \in SessionIds : sessions'[s].by # r
      /\ \A a \in Accounts : credentials'[a].by # r /\ users'[a].by # r
    BY EndTables, AccessNullAssumption
<1>3. TokenOK(r)' /\ WritesOK(r)' /\ RefreshOK(r)' /\ PasswordOK(r)'
    BY <1>1, <1>2 DEF TokenOK, Issuing, WritesOK, RefreshOK, PasswordOK
<1>4. IssueOK(r)' /\ SweepOK(r)' /\ ClosingOK(r)'
    BY <1>1, <1>2 DEF IssueOK, Inserted, Issuing, SweepOK, ClosingOK, Closing
<1> QED
    BY <1>3, <1>4 DEF Knows

LEMMA CommittedRefresh ==
    ASSUME Inv, Access, NEW r \in Requests, Ending(r), NEW s \in SessionIds,
           rotated'[s] # rotated[s]
    PROVE  /\ CommitRequest(r) /\ req[r].at = "reply" /\ Inserted(r)
           /\ req[r].op \in Issuing /\ s = req[r].fresh /\ s # None
           /\ \/ req[r].op # "refresh" /\ rotated'[s] = s
              \/ /\ req[r].op = "refresh" /\ rotated'[s] = req[r].token
                 /\ req[r].token \in SessionIds /\ req[r].token # None
                 /\ rotated[req[r].token] # None /\ Ended(r, req[r].token)
                 /\ \A t \in SessionIds \ {req[r].token} :
                       rotated[t] = req[r].token => req[r].crossed
<1>1. /\ CommitRequest(r) /\ req[r].op \in Issuing /\ s = req[r].fresh /\ sessions[s].by = r
      /\ rotated'[s] = IF req[r].op = "refresh" THEN req[r].token ELSE s
    BY EndHistory
<1>2. req[r].at = "reply" /\ Inserted(r)
    BY <1>1 DEF CommitRequest, At, Inserted
<1>3. TokenOK(r) /\ RefreshOK(r)
    BY DEF Access, Knows
<1> QED
    BY <1>1, <1>2, <1>3, AccessNullAssumption DEF TokenOK, RefreshOK, Holding

LEMMA EndRotations ==
    ASSUME Inv, Access, NEW r \in Requests, Ending(r)
    PROVE  RotationsOK' /\ \A s \in SessionIds : rotated[s] # None => rotated'[s] = rotated[s]
<1>1. /\ TokenOK(r) /\ WritesOK(r)
      /\ \A s \in SessionIds : sessions[s].row # None => rotated[s] # None
      /\ \A s \in SessionIds : sessions[s].row = None /\ rotated[s] # None =>
                                   Dead(sessions[s].next)
      /\ \A s \in SessionIds : rotated[s] # None => rotated[rotated[s]] # None
      /\ \A s \in SessionIds : rotated[s] \notin {s, None} =>
             Dead(sessions[rotated[s]].row) /\ Dead(sessions[rotated[s]].next)
    BY DEF Access, Knows, RotationsOK
<1>2. ASSUME NEW s \in SessionIds, rotated[s] # None
      PROVE  rotated'[s] = rotated[s]
    BY <1>1, <1>2, CommittedRefresh DEF TokenOK
<1>3. ASSUME NEW s \in SessionIds, sessions'[s].row # None
      PROVE  rotated'[s] # None
    <2>1. CASE sessions[s].row # None
        BY <1>1, <1>2, <2>1
    <2>2. CASE sessions[s].row = None
        <3>1. /\ CommitRequest(r) /\ sessions[s].by = r /\ sessions'[s].row = sessions[s].next
            BY <1>3, <2>2, EndTables
        <3>2. req[r].op \in Issuing /\ s = req[r].fresh
            BY <1>1, <1>3, <2>2, <3>1 DEF WritesOK
        <3>3. rotated'[s] = IF req[r].op = "refresh" THEN req[r].token ELSE s
            BY <3>1, <3>2, AccessNullAssumption DEF CommitRequest
        <3> QED
            BY <1>1, <3>2, <3>3, AccessNullAssumption DEF TokenOK
    <2> QED
        BY <2>1, <2>2
<1>4. \A s \in SessionIds : rotated[s] \in SessionIds \cup {None}
    BY DEF Inv, TypeOK
<1>5. ASSUME NEW s \in SessionIds, rotated'[s] # None
      PROVE  rotated'[rotated'[s]] # None
    <2>1. CASE rotated'[s] = rotated[s]
        BY <1>1, <1>2, <1>4, <1>5, <2>1
    <2>2. CASE rotated'[s] # rotated[s]
        BY <1>2, <1>5, <2>2, CommittedRefresh
    <2> QED
        BY <2>1, <2>2
<1>6. ASSUME NEW s \in SessionIds, Dead(sessions[s].row), Dead(sessions[s].next)
      PROVE  Dead(sessions'[s].row) /\ Dead(sessions'[s].next)
    BY <1>6, EndTables
<1>7. ASSUME NEW s \in SessionIds, rotated'[s] \notin {s, None}
      PROVE  Dead(sessions'[rotated'[s]].row) /\ Dead(sessions'[rotated'[s]].next)
    <2>1. CASE rotated'[s] = rotated[s]
        BY <1>1, <1>4, <1>6, <1>7, <2>1
    <2>2. CASE rotated'[s] # rotated[s]
        <3> DEFINE t == req[r].token
        <3>1. rotated'[s] = t /\ t \in SessionIds /\ Ended(r, t) /\ CommitRequest(r)
            BY <1>7, <2>2, CommittedRefresh
        <3> HIDE DEF t
        <3>2. Dead(sessions'[t].row) /\ Dead(sessions'[t].next)
            BY <3>1, EndTables DEF Ended
        <3> QED
            BY <3>1, <3>2
    <2> QED
        BY <2>1, <2>2
<1>8. ASSUME NEW s \in SessionIds, sessions'[s].row = None, rotated'[s] # None
      PROVE  Dead(sessions'[s].next)
    <2>1. CASE sessions[s].by = r
        BY <1>8, <2>1, EndTables, AccessNullAssumption DEF Dead
    <2>2. CASE sessions[s].by # r
        <3>1. sessions'[s] = sessions[s] /\ rotated'[s] = rotated[s]
            BY <2>2, EndTables, EndHistory
        <3> QED
            BY <1>1, <1>8, <3>1
    <2> QED
        BY <2>1, <2>2
<1> QED
    BY <1>2, <1>3, <1>5, <1>7, <1>8 DEF RotationsOK

LEMMA EndSingleUse ==
    ASSUME Inv, Inv', Access, NEW r \in Requests, Ending(r)
    PROVE  SingleUse'
<1>1. \A s \in SessionIds : IsLive(s)' => ~Dead(sessions'[s].row)
    BY DEF Inv, TypeOK, IsLive, Dead, Session, Stored
<1>2. ASSUME NEW s \in SessionIds, rotated'[s] \notin {s, None}
      PROVE  ~IsLive(rotated[s])'
    <2>1. Dead(sessions'[rotated'[s]].row)
        BY <1>2, EndRotations DEF RotationsOK
    <2>2. rotated'[s] \in SessionIds
        BY <1>2 DEF Inv, TypeOK
    <2> DEFINE t == rotated'[s]
    <2> HIDE DEF t
    <2>3. t \in SessionIds /\ Dead(sessions'[t].row)
        BY <2>1, <2>2 DEF t
    <2>4. ~(Session'[t] # None /\ Session'[t].status = "active")
        BY <2>3 DEF Inv, TypeOK, Dead, Session, Stored
    <2> QED
        BY <2>4 DEF IsLive, t
<1>3. ASSUME NEW s \in SessionIds, NEW t \in SessionIds, rotated'[s] \notin {s, None},
             t \notin {s, rotated'[s]}, rotated'[s] = rotated'[t]
      PROVE  {s, t} \cap excused' # {}
    <2>1. CASE rotated'[s] = rotated[s] /\ rotated'[t] = rotated[t]
        <3>1. {s, t} \cap excused # {}
            BY <1>3, <2>1 DEF Access, SingleUse
        <3> QED
            BY <3>1, EndHistory
    <2>2. ASSUME NEW f \in SessionIds, NEW g \in SessionIds, rotated'[f] # rotated[f],
                 rotated'[f] = rotated'[g], rotated'[f] \notin {f, g, None}, f # g
          PROVE  f \in excused'
        <3>1. /\ CommitRequest(r) /\ Inserted(r) /\ req[r].op \in Issuing /\ f = req[r].fresh
              /\ req[r].op = "refresh" /\ rotated'[f] = req[r].token
              /\ \A u \in SessionIds \ {req[r].token} :
                    rotated[u] = req[r].token => req[r].crossed
            BY <2>2, CommittedRefresh
        <3>2. rotated'[g] = rotated[g]
            BY <2>2, <3>1, CommittedRefresh
        <3>3. req[r].crossed
            BY <2>2, <3>1, <3>2
        <3> QED
            BY <3>1, <3>3, IssuedIsExcused DEF Inserted
    <2>3. CASE rotated'[s] # rotated[s]
        BY <1>3, <2>2, <2>3
    <2>4. CASE rotated'[t] # rotated[t]
        BY <1>3, <2>2, <2>4
    <2> QED
        BY <2>1, <2>3, <2>4
<1> QED
    BY <1>2, <1>3 DEF SingleUse

(* A session that is live and not excused at the end of r was so before, and *)
(* its account's password is the same; or it is the one r issued, with the   *)
(* password r knows of.                                                      *)
LEMMA EndSignsOut ==
    ASSUME Inv, Inv', Access, NEW r \in Requests, Ending(r)
    PROVE  RecoverySignsOut'
<1>1. /\ \A s \in SessionIds : Session[s] = sessions[s].row /\ Session'[s] = sessions'[s].row
      /\ \A a \in Accounts : Password[a] = credentials[a].row
                             /\ Password'[a] = credentials'[a].row
    BY DEF Inv, TypeOK, Session, Password, Stored
<1>2. WritesOK(r) /\ IssueOK(r) /\ SweepOK(r)
    BY DEF Access, Knows
<1>3. SUFFICES ASSUME NEW s \in SessionIds, ~Dead(sessions'[s].row), s \notin excused'
               PROVE  sessions'[s].row.under = credentials'[sessions'[s].row.owner].row
    <2>1. \A s \in SessionIds : ~Dead(sessions'[s].row) => sessions'[s].row.owner \in Accounts
        BY DEF Inv, TypeOK, Versions, Dead, SessionRow
    <2>2. \A s \in SessionIds : IsLive(s)' = ~Dead(sessions'[s].row)
        BY <1>1 DEF IsLive, Dead
    <2>3. ASSUME NEW s \in SessionIds, IsLive(s)', s \notin excused'
          PROVE  (Session[s].under = Password[Session[s].owner])'
        <3>1. /\ sessions'[s].row.under = credentials'[sessions'[s].row.owner].row
              /\ sessions'[s].row.owner \in Accounts
            BY <1>3, <2>1, <2>2, <2>3
        <3>2. Session'[s] = sessions'[s].row
            BY <1>1
        <3>3. Password'[sessions'[s].row.owner] = credentials'[sessions'[s].row.owner].row
            BY <1>1, <3>1
        <3> QED
            BY <3>1, <3>2, <3>3
    <2> QED
        BY <2>3 DEF RecoverySignsOut
<1> DEFINE a == sessions'[s].row.owner
<1>4. a \in Accounts /\ sessions'[s].row \in SessionRow
    BY <1>3 DEF Inv, TypeOK, Versions, Dead, SessionRow
<1> HIDE DEF a
<1>5. CASE CommitRequest(r) /\ sessions[s].by = r
    <2>1. sessions'[s].row = sessions[s].next /\ req[r].at = "reply"
        BY <1>5, EndTables, AccessNullAssumption DEF CommitRequest, At
    <2>2. req[r].op \in Issuing /\ s = req[r].fresh
        BY <1>2, <1>3, <1>5, <2>1 DEF WritesOK
    <2>3. Inserted(r) /\ ~Dead(sessions[req[r].fresh].next)
        BY <1>3, <1>5, <2>1, <2>2 DEF Inserted
    <2>4. Unexcused(r)
        BY <1>3, <1>5, <2>2, IssuedIsExcused DEF Unexcused
    <2>5. sessions'[s].row.under = Known(r, a)
        BY <1>2, <2>1, <2>2, <2>3, <2>4 DEF IssueOK, Current, a
    <2>6. Known(r, a) = credentials'[a].row
        BY <1>4, <1>5, EndTables, AccessNullAssumption DEF Known
    <2> QED
        BY <2>5, <2>6 DEF a
<1>6. CASE ~(CommitRequest(r) /\ sessions[s].by = r)
    <2>1. sessions'[s].row = sessions[s].row
        BY <1>6, EndTables
    <2>2. Sweeping(a, s)
        BY <1>3, <2>1, EndHistory DEF Sweeping, a
    <2>3. sessions[s].row.under = credentials[a].row
        <3>1. IsLive(s) /\ s \notin excused /\ sessions[s].row.owner = a
            BY <1>1, <2>2 DEF IsLive, Dead, Sweeping
        <3> QED
            BY <1>1, <1>4, <3>1 DEF Access, RecoverySignsOut
    <2>4. credentials'[a].row = credentials[a].row
        <3>1. SUFFICES ASSUME CommitRequest(r), credentials[a].by = r PROVE FALSE
            BY <1>4, EndTables
        <3>2. req[r].at = "reply"
            BY <3>1 DEF CommitRequest, At
        <3>3. Swept(r, s)
            BY <1>2, <1>4, <2>2, <3>1, <3>2 DEF SweepOK
        <3> QED
            BY <1>6, <3>1, <3>2, <3>3 DEF Swept
    <2> QED
        BY <2>1, <2>3, <2>4 DEF a
<1> QED
    BY <1>5, <1>6

LEMMA EndKeeps ==
    ASSUME Inv, Inv', Access, NEW r \in Requests, Ending(r), req[r].at # "idle"
    PROVE  Access'
<1>1. \A q \in Requests : Knows(q)'
    BY OthersOutlive, EndedKnows
<1>2. GoneOK'
    <2>1. ClosingOK(r) /\ GoneOK
        BY DEF Access, Knows
    <2>2. ASSUME NEW a \in Accounts
          PROVE  /\ credentials'[a].row = None => credentials'[a].next = None
                 /\ users'[a].row = "deleted" => credentials'[a].row = None
        BY <2>1, EndTables, AccessNullAssumption DEF GoneOK, ClosingOK, Retired
    <2> QED
        BY <2>2 DEF GoneOK
<1> QED
    BY <1>1, <1>2, EndRotations, EndSingleUse, EndSignsOut DEF Access

-----------------------------------------------------------------------------
(* How the values of a handler move with it                                  *)

LEMMA GoingValues ==
    ASSUME Inv, NEW r \in Requests, NEW q \in RequestState, NEW place \in Places,
           req' = [req EXCEPT ![r] = Going(q, place)]
    PROVE  /\ req'[r].at = place /\ req'[r].op = q.op /\ req'[r].token = q.token
           /\ req'[r].fresh = q.fresh /\ req'[r].crossed = q.crossed
           /\ place # "reply" =>
                  /\ req'[r].issue = q.issue /\ req'[r].account = q.account
                  /\ req'[r].password = q.password /\ req'[r].writes = q.writes
           /\ place = "reply" => req'[r].issue = None
           /\ \A p \in Requests \ {r} : req'[p] = req[p]
<1>1. req'[r] = Going(q, place) /\ \A p \in Requests \ {r} : req'[p] = req[p]
    BY RequestType
<1>2. CASE place = "reply"
    <2> DEFINE i == Idle
    <2>1. i \in RequestState /\ i.issue = None
        BY IdleType DEF Idle
    <2> HIDE DEF i
    <2>2. Going(q, place) = [i EXCEPT !.at = "reply", !.op = q.op, !.token = q.token,
                                      !.fresh = q.fresh, !.crossed = q.crossed]
        BY <1>2 DEF Going, i
    <2> DEFINE g == Going(q, place)
    <2>3. /\ g.at = "reply" /\ g.op = q.op /\ g.token = q.token /\ g.fresh = q.fresh
          /\ g.issue = None
        BY <2>1, <2>2 DEF RequestState
    <2>4. g.crossed = q.crossed
        BY <2>1, <2>2 DEF RequestState
    <2> QED
        BY <1>1, <1>2, <2>3, <2>4
<1>3. CASE place # "reply"
    <2>1. Going(q, place) = [q EXCEPT !.at = place]
        BY <1>3 DEF Going
    <2> QED
        BY <1>1, <1>3, <2>1 DEF RequestState
<1> QED
    BY <1>2, <1>3

LEMMA GotoValues ==
    ASSUME Inv, NEW r \in Requests, NEW place \in Places, Goto(r, place)
    PROVE  /\ req'[r].at = place /\ req'[r].op = req[r].op /\ req'[r].token = req[r].token
           /\ req'[r].fresh = req[r].fresh /\ req'[r].crossed = req[r].crossed
           /\ place # "reply" =>
                  /\ req'[r].issue = req[r].issue /\ req'[r].account = req[r].account
                  /\ req'[r].password = req[r].password /\ req'[r].writes = req[r].writes
           /\ place = "reply" => req'[r].issue = None
           /\ \A p \in Requests \ {r} : req'[p] = req[p]
<1>1. req[r] \in RequestState
    BY RequestType
<1> QED
    BY <1>1, GoingValues DEF Goto

LEMMA WriteValues ==
    ASSUME Inv, NEW r \in Requests, NEW q \in RequestState,
           NEW writes \in [SessionIds -> SessionRow \cup {None}],
           NEW then \in Places, Write(r, q, writes, then)
    PROVE  /\ req'[r].at \in {then, "write_sessions"}
           /\ req'[r].at # "write_sessions" => \A s \in SessionIds : writes[s] = None
           /\ req'[r].op = q.op /\ req'[r].token = q.token
           /\ req'[r].fresh = q.fresh /\ req'[r].crossed = q.crossed
           /\ req'[r].at # "reply" =>
                  /\ req'[r].issue = q.issue /\ req'[r].account = q.account
                  /\ req'[r].password = q.password /\ req'[r].writes = writes
           /\ req'[r].at = "reply" => req'[r].issue = None
           /\ \A p \in Requests \ {r} : req'[p] = req[p]
<1> DEFINE p == [q EXCEPT !.writes = writes]
           place == Writing(writes, then)
<1>1. /\ p \in RequestState /\ p.op = q.op /\ p.fresh = q.fresh /\ p.writes = writes
      /\ p.account = q.account /\ p.token = q.token /\ p.issue = q.issue
      /\ p.password = q.password /\ p.crossed = q.crossed
    BY DEF RequestState
<1>2. req' = [req EXCEPT ![r] = Going(p, place)]
    BY DEF Write
<1> HIDE DEF p
<1>3. /\ place \in {then, "write_sessions"}
      /\ place # "write_sessions" => \A s \in SessionIds : writes[s] = None
    BY DEF Writing, Pending
<1> HIDE DEF place
<1>4. place \in Places
    BY <1>3 DEF Places
<1>5. /\ req'[r].at = place /\ req'[r].op = p.op /\ req'[r].token = p.token
      /\ req'[r].fresh = p.fresh /\ req'[r].crossed = p.crossed
      /\ place # "reply" =>
             /\ req'[r].issue = p.issue /\ req'[r].account = p.account
             /\ req'[r].password = p.password /\ req'[r].writes = p.writes
      /\ place = "reply" => req'[r].issue = None
      /\ \A o \in Requests \ {r} : req'[o] = req[o]
    BY <1>1, <1>2, <1>4, GoingValues
<1>6. req'[r].crossed = q.crossed
    BY <1>1, <1>5
<1> QED
    BY <1>1, <1>3, <1>5, <1>6

(* What r has written at a place: nothing, before the first of its writes.   *)
NoSession(r) == \A s \in SessionIds : sessions[s].by # r
NoAccount(r) == \A a \in Accounts : credentials[a].by # r /\ users[a].by # r

LEMMA NothingWritten ==
    ASSUME Access, NEW r \in Requests
    PROVE  /\ req[r].at \notin Wrote => NoSession(r)
           /\ req[r].at \notin {"write_deletion", "reply"} => \A a \in Accounts : users[a].by # r
           /\ req[r].at \notin Wrote /\ (req[r].at \in {"list_sessions", "delete_sessions"} =>
                                           req[r].op \notin {"recover", "undo"})
                  => NoAccount(r)
<1>1. WritesOK(r) /\ SweepOK(r) /\ ClosingOK(r)
    BY DEF Access, Knows
<1> QED
    BY <1>1 DEF WritesOK, SweepOK, ClosingOK, NoSession, NoAccount, Wrote, Recovering

LEMMA NoIssueYet ==
    ASSUME Access, NEW r \in Requests,
           req[r].at \notin {"insert_session", "write_sessions", "write_recovery",
                             "tell_owner", "failed"}
    PROVE  req[r].issue = None
  BY DEF Access, Knows, IssueOK

LEMMA TokenStays ==
    ASSUME Access, NEW r \in Requests, rotated' = rotated,
           req'[r].op = req[r].op, req'[r].token = req[r].token, req'[r].fresh = req[r].fresh
    PROVE  TokenOK(r)'
  BY DEF Access, Knows, TokenOK

(* A step after which r has still written nothing and holds nothing.         *)
LEMMA QuietKnows ==
    ASSUME Inv, NEW r \in Requests, NoSession(r)', NoAccount(r)', TokenOK(r)', PasswordOK(r)',
           req'[r].issue = None, req'[r].op \in Issuing => req'[r].fresh \in SessionIds,
           req'[r].op = "refresh" => req'[r].at \notin {"insert_session", "write_sessions"},
           req'[r].at = "write_recovery" => req'[r].op \in {"ask_recovery", "recover"},
           req'[r].at \notin {"delete_sessions", "delete_recoveries", "retire_user"},
           req'[r].at \in Closing \cup {"find_deletion"} => req'[r].op = "undo"
    PROVE  Knows(r)'
<1>1. ~Inserted(r)'
    BY DEF Inserted, NoSession
<1>2. WritesOK(r)' /\ RefreshOK(r)' /\ IssueOK(r)'
    BY <1>1 DEF NoSession, WritesOK, RefreshOK, Holding, IssueOK
<1>3. SweepOK(r)' /\ ClosingOK(r)'
    BY DEF NoAccount, SweepOK, ClosingOK
<1> QED
    BY <1>2, <1>3 DEF Knows

LEMMA ReadStatement ==
    ASSUME NEW r \in Requests, UNCHANGED <<now, tables, history>>,
           \A q \in Requests \ {r} : req'[q] = req[q]
    PROVE  /\ Statement(r) /\ rotated' = rotated /\ credentials' = credentials
           /\ NoSession(r) => NoSession(r)'
           /\ NoAccount(r) => NoAccount(r)'
  BY DEF tables, history, Statement, SessionMove, CredentialMove, UserMove,
         NoSession, NoAccount

LEMMA PasswordSilent ==
    ASSUME NEW r \in Requests,
           req'[r].at \notin {"list_sessions", "find_recovery", "set_password"}
    PROVE  PasswordOK(r)'
  BY DEF PasswordOK

-----------------------------------------------------------------------------
(* The reads of r                                                            *)

LEMMA ResolveKnows ==
    ASSUME Inv, Access, NEW r \in Requests, Resolve(r)
    PROVE  Statement(r) /\ Knows(r)'
<1>1. /\ req[r].at = "resolve" /\ req[r] \in RequestState /\ PlaceFits(req[r], "resolve")
      /\ UNCHANGED <<now, tables, history>>
    BY HandlerAt DEF Resolve
<1>2. req[r].op \in {"logout_all", "delete", "undo"} /\ req[r].issue = None
    BY <1>1, NoIssueYet DEF PlaceFits, OpsAt
<1>3. NoSession(r) /\ NoAccount(r)
    BY <1>1, NothingWritten DEF Wrote
<1>4. CASE Reply(r)
    <2>1. /\ req'[r].at = "reply" /\ req'[r].op = req[r].op /\ req'[r].token = req[r].token
          /\ req'[r].fresh = req[r].fresh /\ req'[r].issue = None
          /\ \A q \in Requests \ {r} : req'[q] = req[q]
        BY <1>4, GotoValues DEF Reply, Places
    <2>2. Statement(r) /\ NoSession(r)' /\ NoAccount(r)' /\ TokenOK(r)'
        BY <1>1, <1>3, <2>1, ReadStatement, TokenStays
    <2>3. PasswordOK(r)'
        BY <2>1, PasswordSilent
    <2> QED
        BY <1>2, <2>1, <2>2, <2>3, QuietKnows DEF Issuing, Closing
<1>5. CASE ~Reply(r)
    <2> DEFINE s == Session[req[r].token]
               place == CASE req[r].op = "logout_all" -> "find_credential"
                          [] req[r].op = "delete" -> "schedule"
                          [] req[r].op = "undo" -> "find_deletion"
    <2>1. req' = [req EXCEPT ![r].account = s.owner, ![r].at = place]
        BY <1>5 DEF Resolve
    <2>2. /\ place \in {"find_credential", "schedule", "find_deletion"}
          /\ place = "find_deletion" => req[r].op = "undo"
        BY <1>2
    <2> HIDE DEF s, place
    <2>3. /\ req'[r].at = place /\ req'[r].op = req[r].op /\ req'[r].token = req[r].token
          /\ req'[r].fresh = req[r].fresh /\ req'[r].issue = req[r].issue
          /\ \A q \in Requests \ {r} : req'[q] = req[q]
        BY <2>1, RequestType DEF RequestState
    <2>4. Statement(r) /\ NoSession(r)' /\ NoAccount(r)' /\ TokenOK(r)'
        BY <1>1, <1>3, <2>3, ReadStatement, TokenStays
    <2>5. PasswordOK(r)'
        BY <2>2, <2>3, PasswordSilent
    <2> QED
        BY <1>2, <2>2, <2>3, <2>4, <2>5, QuietKnows DEF Issuing, Closing
<1> QED
    BY <1>4, <1>5

(* A handler that answers before it has written anything.                    *)
LEMMA PlainReply ==
    ASSUME Inv, Access, NEW r \in Requests, Reply(r), UNCHANGED <<now, tables, history>>,
           NoSession(r), NoAccount(r)
    PROVE  Statement(r) /\ Knows(r)'
<1>1. /\ req'[r].at = "reply" /\ req'[r].op = req[r].op /\ req'[r].token = req[r].token
      /\ req'[r].fresh = req[r].fresh /\ req'[r].issue = None
      /\ \A q \in Requests \ {r} : req'[q] = req[q]
    BY GotoValues DEF Reply, Places
<1>2. Statement(r) /\ NoSession(r)' /\ NoAccount(r)' /\ TokenOK(r)'
    BY <1>1, ReadStatement, TokenStays
<1>3. PasswordOK(r)'
    BY <1>1, PasswordSilent
<1>4. req[r].op \in Issuing => req[r].fresh \in SessionIds
    BY RequestType DEF HandlerOK, ValuesOK
<1> QED
    BY <1>1, <1>2, <1>3, <1>4, QuietKnows DEF Closing

LEMMA FindCredentialKnows ==
    ASSUME Inv, Access, NEW r \in Requests, FindCredential(r)
    PROVE  Statement(r) /\ Knows(r)'
<1>1. /\ req[r].at = "find_credential" /\ req[r] \in RequestState
      /\ PlaceFits(req[r], "find_credential") /\ UNCHANGED <<now, tables, history>>
    BY HandlerAt DEF FindCredential
<1>2. /\ req[r].op \in {"sign_in", "logout_all", "ask_recovery", "recover"}
      /\ req[r].account \in Accounts /\ req[r].issue = None
    BY <1>1, NoIssueYet DEF PlaceFits, OpsAt, Accounted
<1>3. NoSession(r) /\ NoAccount(r)
    BY <1>1, NothingWritten DEF Wrote
<1>4. CASE Reply(r)
    BY <1>1, <1>3, <1>4, PlainReply
<1>5. CASE ~Reply(r)
    <2> DEFINE place == IF req[r].op \in {"sign_in", "logout_all"} THEN "list_sessions"
                                                                   ELSE "find_recovery"
    <2>1. /\ Seen(credentials, r)[req[r].account] # None
          /\ req[r].op = "sign_in" => Seen(credentials, r)[req[r].account] = req[r].password
          /\ Goto(r, place)
        BY <1>5 DEF FindCredential
    <2>2. Known(r, req[r].account) # None
          /\ (req[r].op = "sign_in" => Known(r, req[r].account) = req[r].password)
        BY <1>2, <2>1, RowsRead
    <2>3. place \in {"list_sessions", "find_recovery"} /\ place \in Places
          /\ (place = "list_sessions" => req[r].op # "recover")
        BY DEF Places
    <2> HIDE DEF place
    <2>4. /\ req'[r].at = place /\ req'[r].op = req[r].op /\ req'[r].token = req[r].token
          /\ req'[r].fresh = req[r].fresh /\ req'[r].issue = None
          /\ req'[r].account = req[r].account /\ req'[r].password = req[r].password
          /\ \A q \in Requests \ {r} : req'[q] = req[q]
        BY <1>2, <2>1, <2>3, GotoValues
    <2>5. /\ Statement(r) /\ NoSession(r)' /\ NoAccount(r)' /\ TokenOK(r)'
          /\ credentials' = credentials
        BY <1>1, <1>3, <2>4, ReadStatement, TokenStays
    <2>6. PasswordOK(r)'
        BY <2>2, <2>3, <2>4, <2>5 DEF PasswordOK, Known
    <2>7. req[r].op \in Issuing => req[r].fresh \in SessionIds
        BY RequestType DEF HandlerOK, ValuesOK
    <2> QED
        BY <2>3, <2>4, <2>5, <2>6, <2>7, QuietKnows DEF Closing
<1> QED
    BY <1>4, <1>5

LEMMA FindRecoveryKnows ==
    ASSUME Inv, Access, NEW r \in Requests, FindRecovery(r)
    PROVE  Statement(r) /\ Knows(r)'
<1>1. /\ req[r].at = "find_recovery" /\ req[r] \in RequestState
      /\ PlaceFits(req[r], "find_recovery") /\ UNCHANGED <<now, tables, history>>
    BY HandlerAt DEF FindRecovery
<1>2. /\ req[r].op \in {"ask_recovery", "recover"} /\ req[r].account \in Accounts
      /\ req[r].issue = None /\ (req[r].op \in Issuing => req[r].fresh \in SessionIds)
    BY <1>1, NoIssueYet, RequestType DEF PlaceFits, OpsAt, Accounted, HandlerOK, ValuesOK
<1>3. NoSession(r) /\ NoAccount(r)
    BY <1>1, NothingWritten DEF Wrote
<1>4. CASE Reply(r)
    BY <1>1, <1>3, <1>4, PlainReply
<1>5. CASE ~Reply(r)
    <2> DEFINE After(c, ok) ==
                   CASE req[r].op = "ask_recovery" /\ ok -> "insert_recovery"
                     [] req[r].op = "recover" /\ ok -> "set_password"
                     [] OTHER -> IF c = None THEN "reply" ELSE "write_recovery"
               Becomes(c, ok) == IF c = None THEN None ELSE Answered(r, c, ok)
               Take(c, ok) ==
                   req' = [req EXCEPT ![r] = Going([req[r] EXCEPT !.recovery = c,
                                                                  !.becomes = Becomes(c, ok)],
                                                   After(c, ok))]
    <2>1. \A c : CodeAccepted(Seen(recoveries, r)[c], c, req[r].code, req[r].now) \in BOOLEAN
        BY DEF CodeAccepted
    <2>2. PICK c \in OpenRecoveries(r) \cup {None}, ok \in BOOLEAN : Take(c, ok)
        BY <1>5, <2>1 DEF FindRecovery
    <2>3. After(c, ok) \in {"insert_recovery", "set_password", "write_recovery", "reply"}
        BY <1>2
    <2>4. Becomes(c, ok) \in RecoveryRow \cup {None} /\ c \in RecoveryIds \cup {None}
        BY <2>2, OpenRecoveryType
    <2> DEFINE becomes == Becomes(c, ok)
               q == [req[r] EXCEPT !.recovery = c, !.becomes = becomes]
               place == After(c, ok)
    <2>5. req' = [req EXCEPT ![r] = Going(q, place)]
        BY <2>2
    <2> HIDE DEF becomes, After
    <2>13. becomes \in RecoveryRow \cup {None}
        BY <2>4 DEF becomes
    <2>14. q \in RequestState
        BY ZenonT(60), <1>1, <2>4, <2>13 DEF RequestState
    <2>15. /\ q.op = req[r].op /\ q.fresh = req[r].fresh
           /\ q.account = req[r].account /\ q.token = req[r].token
        BY <1>1 DEF RequestState
    <2>16. q.issue = req[r].issue /\ q.password = req[r].password
        BY <1>1 DEF RequestState
    <2>6. /\ q \in RequestState /\ q.op = req[r].op /\ q.fresh = req[r].fresh
          /\ q.account = req[r].account /\ q.token = req[r].token /\ q.issue = req[r].issue
          /\ q.password = req[r].password
        BY <2>14, <2>15, <2>16
    <2>7. q.crossed = req[r].crossed
        BY <1>1 DEF RequestState
    <2> HIDE DEF q, place
    <2>8. place \in {"insert_recovery", "set_password", "write_recovery", "reply"}
          /\ place \in Places
        BY <2>3 DEF Places, place
    <2>9. /\ req'[r].at = place /\ req'[r].op = req[r].op /\ req'[r].token = req[r].token
          /\ req'[r].fresh = req[r].fresh /\ req'[r].issue = None
          /\ place # "reply" => req'[r].account = req[r].account
          /\ \A p \in Requests \ {r} : req'[p] = req[p]
        BY ZenonT(60), <1>2, <2>5, <2>6, <2>8, GoingValues
    <2>10. req'[r].crossed = req[r].crossed
        BY <2>5, <2>6, <2>7, <2>8, GoingValues
    <2>11. /\ Statement(r) /\ NoSession(r)' /\ NoAccount(r)' /\ TokenOK(r)'
           /\ credentials' = credentials
        BY <1>1, <1>3, <2>9, ReadStatement, TokenStays
    <2>12. PasswordOK(r)'
        <3>1. PasswordOK(r)
            BY DEF Access, Knows
        <3> QED
            BY <1>1, <2>8, <2>9, <2>10, <2>11, <3>1 DEF PasswordOK, Known
    <2> QED
        BY <1>2, <2>8, <2>9, <2>11, <2>12, QuietKnows DEF Closing
<1> QED
    BY <1>4, <1>5

LEMMA FindScheduledKnows ==
    ASSUME Inv, Access, NEW r \in Requests, FindScheduled(r) \/ FindContact(r)
    PROVE  Statement(r) /\ Knows(r)'
<1>1. /\ req[r].at \in {"find_scheduled", "find_contact"}
      /\ UNCHANGED <<now, tables, history>>
    BY DEF FindScheduled, FindContact, At
<1>2. PICK place \in {"reply", "failed", "delete_credential"} :
         Goto(r, place) /\ (place = "delete_credential" => req[r].at = "find_contact")
    BY <1>1 DEF FindScheduled, FindContact, At
<1>3. NoSession(r) /\ NoAccount(r) /\ req[r].issue = None
    BY <1>1, NothingWritten, NoIssueYet DEF Wrote
<1>4. /\ req'[r].at = place /\ req'[r].op = req[r].op /\ req'[r].token = req[r].token
      /\ req'[r].fresh = req[r].fresh /\ req'[r].issue = None
      /\ \A q \in Requests \ {r} : req'[q] = req[q]
    BY <1>2, <1>3, GotoValues DEF Places
<1>5. Statement(r) /\ NoSession(r)' /\ NoAccount(r)' /\ TokenOK(r)'
    BY <1>1, <1>3, <1>4, ReadStatement, TokenStays
<1>6. PasswordOK(r)'
    BY <1>2, <1>4, PasswordSilent
<1>7. req[r].op \in Issuing => req[r].fresh \in SessionIds
    BY RequestType DEF HandlerOK, ValuesOK
<1>8. place \in Closing => req[r].op = "undo"
    BY <1>2 DEF Access, Knows, ClosingOK, Closing
<1> QED
    BY <1>2, <1>4, <1>5, <1>6, <1>7, <1>8, QuietKnows

LEMMA FindDeletionKnows ==
    ASSUME Inv, Access, NEW r \in Requests, FindDeletion(r)
    PROVE  Statement(r) /\ Knows(r)'
<1>1. req[r].at = "find_deletion" /\ UNCHANGED <<now, tables, history>>
    BY DEF FindDeletion, At
<1>2. NoSession(r) /\ NoAccount(r) /\ req[r].issue = None
    BY <1>1, NothingWritten, NoIssueYet DEF Wrote
<1>3. CASE Reply(r)
    BY <1>1, <1>2, <1>3, PlainReply
<1>4. CASE ~Reply(r)
    <2> DEFINE open == Seen(deletions, r)[req[r].account]
    <2>1. PICK status \in {"cancelled", "completed"}, place \in {"write_deletion", "find_contact"} :
             req' = [req EXCEPT ![r].closing = [open EXCEPT !.status = status], ![r].at = place]
        BY <1>4 DEF FindDeletion
    <2> DEFINE closing == [open EXCEPT !.status = status]
    <2>2. req' = [req EXCEPT ![r].closing = closing, ![r].at = place]
        BY <2>1
    <2> HIDE DEF closing
    <2>3. /\ req'[r].at = place /\ req'[r].op = req[r].op /\ req'[r].token = req[r].token
          /\ req'[r].fresh = req[r].fresh /\ req'[r].issue = None
          /\ \A q \in Requests \ {r} : req'[q] = req[q]
        BY <1>2, <2>2, RequestType DEF RequestState
    <2>4. Statement(r) /\ NoSession(r)' /\ NoAccount(r)' /\ TokenOK(r)'
        BY <1>1, <1>2, <2>3, ReadStatement, TokenStays
    <2>5. PasswordOK(r)'
        BY <2>1, <2>3, PasswordSilent
    <2>6. req[r].op \in Issuing => req[r].fresh \in SessionIds
        BY RequestType DEF HandlerOK, ValuesOK
    <2>7. req[r].op = "undo"
        BY <1>1 DEF Access, Knows, ClosingOK
    <2> QED
        BY <2>1, <2>3, <2>4, <2>5, <2>6, <2>7, QuietKnows
<1> QED
    BY <1>3, <1>4

LEMMA FindSessionKnows ==
    ASSUME Inv, Access, NEW r \in Requests, FindSession(r)
    PROVE  Statement(r) /\ Knows(r)'
<1> DEFINE s == Seen(sessions, r)[req[r].token]
           q == [req[r] EXCEPT !.account = s.owner]
           One(row) == [NoRows EXCEPT ![req[r].token] = row]
<1>1. /\ req[r].at = "find_session" /\ req[r] \in RequestState
      /\ PlaceFits(req[r], "find_session") /\ UNCHANGED <<now, tables, history>>
    BY HandlerAt DEF FindSession
<1>2. /\ req[r].op \in {"refresh", "logout"} /\ req[r].token \in SessionIds
      /\ req[r].issue = None
    BY <1>1, NoIssueYet DEF PlaceFits, OpsAt
<1>3. NoSession(r) /\ NoAccount(r)
    BY <1>1, NothingWritten DEF Wrote
<1>4. req[r].op \in Issuing => req[r].fresh \in SessionIds
    BY RequestType DEF HandlerOK, ValuesOK
<1>5. CASE Reply(r)
    BY <1>1, <1>3, <1>5, PlainReply
<1>6. CASE ~Reply(r)
    <2>1. s # None
        BY <1>6 DEF FindSession
    <2>2. s = sessions[req[r].token].row
        BY <1>2, <1>3, RowsRead DEF NoSession
    <2>3. s \in SessionRow /\ s.owner \in Accounts
        BY <1>2, <2>1, <2>2, Typed DEF Versions, SessionRow
    <2>4. /\ q \in RequestState /\ q.op = req[r].op /\ q.fresh = req[r].fresh
          /\ q.token = req[r].token /\ q.issue = None /\ q.at = "find_session"
        BY <1>1, <1>2, <2>3 DEF RequestState
    <2>5. q.crossed = req[r].crossed
        BY <1>1 DEF RequestState
    <2>6. CASE req[r].op = "logout"
        <3> DEFINE writes == One(Revoked(s))
        <3>1. Write(r, q, writes, "reply")
            BY <1>6, <2>6 DEF FindSession
        <3>2. Revoked(s) \in SessionRow
            BY <2>3, RowRules
        <3>3. writes \in [SessionIds -> SessionRow \cup {None}]
            BY <3>2 DEF NoRows
        <3> HIDE DEF q, writes
        <3>4. /\ req'[r].at \in {"reply", "write_sessions"} /\ req'[r].op = "logout"
              /\ req'[r].token = req[r].token /\ req'[r].fresh = req[r].fresh
              /\ req'[r].issue = None
              /\ \A p \in Requests \ {r} : req'[p] = req[p]
            BY <2>4, <2>6, <3>1, <3>3, WriteValues DEF Places
        <3>5. Statement(r) /\ NoSession(r)' /\ NoAccount(r)' /\ TokenOK(r)'
            BY <1>1, <1>3, <2>6, <3>4, ReadStatement, TokenStays
        <3>6. PasswordOK(r)'
            BY <3>4, PasswordSilent
        <3> QED
            BY <3>4, <3>5, <3>6, QuietKnows DEF Issuing, Closing
    <2>7. CASE req[r].op = "refresh"
        <3> DEFINE issue == Rotated(s, req[r].now)
                   writes == One(Superseded(s))
        <3>1. /\ MayRefresh(s, req[r].now)
              /\ req' = [req EXCEPT ![r] = [q EXCEPT !.issue = issue, !.writes = writes,
                                                     !.at = "insert_session"]]
            BY <1>6, <2>7 DEF FindSession
        <3>2. Superseded(s) \in SessionRow /\ issue \in SessionRow
            BY <1>1, <2>3, RowRules DEF RequestState
        <3>3. issue.owner = s.owner /\ issue.under = s.under
            BY <2>3 DEF Rotated, SessionRow
        <3>4. writes \in [SessionIds -> SessionRow \cup {None}] /\ writes[req[r].token] # None
            BY <1>2, <3>2, AccessNoRowAssumption DEF NoRows
        <3>5. s.status = "active"
            BY <3>1 DEF MayRefresh
        <3> HIDE DEF s, issue, writes, q
        <3>6. /\ req'[r].at = "insert_session" /\ req'[r].op = "refresh"
              /\ req'[r].token = req[r].token /\ req'[r].fresh = req[r].fresh
              /\ req'[r].issue = issue /\ req'[r].writes = writes
              /\ \A p \in Requests \ {r} : req'[p] = req[p]
            BY <2>4, <2>7, <3>1, <3>2, <3>4, RequestType DEF RequestState
        <3>7. req'[r].crossed = req[r].crossed
            BY <2>4, <2>5, <3>1, RequestType DEF RequestState
        <3>8. /\ Statement(r) /\ NoSession(r)' /\ NoAccount(r)' /\ TokenOK(r)'
              /\ sessions' = sessions /\ credentials' = credentials
              /\ rotated' = rotated /\ excused' = excused
            BY <1>1, <1>3, <2>7, <3>6, ReadStatement, TokenStays DEF tables, history
        <3>9. PasswordOK(r)'
            BY <3>6, PasswordSilent
        <3>10. \A t \in SessionIds \ {req[r].token} : rotated[t] # req[r].token
            <4>1. SUFFICES ASSUME NEW t \in SessionIds \ {req[r].token},
                                  rotated[t] = req[r].token
                           PROVE  FALSE
                OBVIOUS
            <4>2. Dead(sessions[req[r].token].row)
                BY <1>2, <4>1, AccessNullAssumption DEF Access, RotationsOK
            <4> QED
                BY <2>1, <2>2, <3>5, <4>2 DEF Dead
        <3>11. RefreshOK(r)'
            BY <3>4, <3>6, <3>8, <3>10 DEF RefreshOK
        <3>12. ~Inserted(r)'
            BY <1>4, <2>7, <3>6, <3>8 DEF Inserted, NoSession, Issuing
        <3>13. Unexcused(r)' => issue.under = Known(r, issue.owner)
            <4>1. SUFFICES ASSUME req[r].token \notin excused
                           PROVE  issue.under = Known(r, issue.owner)
                BY <3>6, <3>8 DEF Unexcused
            <4>2. IsLive(req[r].token) /\ Session[req[r].token] = s
                BY <1>2, <2>1, <2>2, <3>5, RowsRead DEF IsLive
            <4>3. s.under = credentials[s.owner].row
                BY <1>2, <2>3, <4>1, <4>2, RowsRead DEF Access, RecoverySignsOut
            <4>4. Known(r, s.owner) = s.under
                BY <1>3, <2>3, <4>3 DEF Known, NoAccount
            <4> QED
                BY <3>3, <4>4
        <3>14. IssueOK(r)'
            <4>1. Unexcused(r)' => Current(r, req[r].issue)'
                BY <3>6, <3>8, <3>13 DEF Current, Known
            <4> QED
                BY <3>6, <3>12, <4>1 DEF IssueOK
        <3>15. WritesOK(r)' /\ SweepOK(r)' /\ ClosingOK(r)'
            BY <3>6, <3>8 DEF WritesOK, NoSession, SweepOK, NoAccount, ClosingOK, Closing
        <3> QED
            BY <3>8, <3>9, <3>11, <3>14, <3>15 DEF Knows
    <2> QED
        BY <1>2, <2>6, <2>7
<1> QED
    BY <1>5, <1>6

(* Sign-out everywhere only revokes; sign-in and recovery make the new       *)
(* session ready, with the password they have just checked or set.           *)
LEMMA ListSessionsKnows ==
    ASSUME Inv, Access, NEW r \in Requests, ListSessions(r)
    PROVE  Statement(r) /\ Knows(r)'
<1> DEFINE held == OwnSessions(r)
           new == Issued(req[r].account, req[r].password, req[r].now)
           all == [s \in DOMAIN held \cup {req[r].fresh} |->
                       IF s = req[r].fresh THEN new ELSE held[s]]
           q == [req[r] EXCEPT !.issue = new]
<1>1. /\ req[r].at = "list_sessions" /\ req[r] \in RequestState /\ InputsOK(req[r])
      /\ PlaceFits(req[r], "list_sessions") /\ UNCHANGED <<now, tables, history>>
    BY HandlerAt DEF ListSessions
<1>2. /\ req[r].op \in {"sign_in", "logout_all", "recover"} /\ req[r].account \in Accounts
      /\ req[r].now \in Nat /\ req[r].issue = None
    BY <1>1, NoIssueYet DEF PlaceFits, OpsAt, Accounted, RequestState
<1>3. NoSession(r) /\ (req[r].op # "recover" => NoAccount(r))
      /\ \A a \in Accounts : users[a].by # r
    BY <1>1, <1>2, NothingWritten DEF Wrote
<1>4. req[r].op \in Issuing => req[r].fresh \in SessionIds
    BY RequestType DEF HandlerOK, ValuesOK
<1>5. DOMAIN held \subseteq SessionIds /\ \A s \in DOMAIN held : held[s] \in SessionRow
    BY OwnSessionsType
<1>6. CASE req[r].op = "logout_all"
    <2>1. Write(r, req[r], EndedByAll(held), "reply")
        BY <1>6 DEF ListSessions
    <2> HIDE DEF held
    <2> DEFINE writes == EndedByAll(held)
    <2>2. writes \in [SessionIds -> SessionRow \cup {None}]
        BY <1>5, EndedAreDead
    <2> HIDE DEF writes
    <2>3. Write(r, req[r], writes, "reply")
        BY <2>1 DEF writes
    <2>4. /\ req'[r].at \in {"reply", "write_sessions"} /\ req'[r].op = "logout_all"
          /\ req'[r].token = req[r].token /\ req'[r].fresh = req[r].fresh
          /\ req'[r].issue = None
          /\ \A p \in Requests \ {r} : req'[p] = req[p]
        BY <1>1, <1>2, <1>6, <2>2, <2>3, WriteValues DEF Places
    <2>5. Statement(r) /\ NoSession(r)' /\ NoAccount(r)' /\ TokenOK(r)'
        BY <1>1, <1>3, <1>6, <2>4, ReadStatement, TokenStays
    <2>6. PasswordOK(r)'
        BY <2>4, PasswordSilent
    <2> QED
        BY <2>4, <2>5, <2>6, QuietKnows DEF Issuing, Closing
<1>7. CASE req[r].op \in {"sign_in", "recover"}
    <2>1. /\ req[r].password \in Passwords /\ req[r].fresh \in SessionIds
          /\ req[r].op \in Issuing
        BY <1>1, <1>4, <1>7 DEF InputsOK, Issuing
    <2>2. new \in SessionRow /\ new.owner = req[r].account /\ new.under = req[r].password
        BY <1>2, <2>1, IssuedType DEF Issued
    <2> HIDE DEF new
    <2>3. /\ q \in RequestState /\ q.op = req[r].op /\ q.fresh = req[r].fresh
          /\ q.issue = new /\ q.token = req[r].token /\ q.account = req[r].account
        BY <1>1, <2>2 DEF RequestState
    <2>4. q.crossed = req[r].crossed
        BY <1>1 DEF RequestState
    <2>5. \E writes \in [SessionIds -> SessionRow \cup {None}] :
             /\ \/ /\ req[r].op = "recover" /\ writes = EndedByRecovery(held)
                   /\ req'[r].at \in {"write_recovery", "write_sessions"}
                   /\ req'[r].at # "write_sessions" => \A s \in SessionIds : writes[s] = None
                \/ req[r].op = "sign_in" /\ req'[r].at = "insert_session"
             /\ req'[r].writes = writes
             /\ req'[r].op = req[r].op /\ req'[r].token = req[r].token
             /\ req'[r].fresh = req[r].fresh /\ req'[r].issue = new
             /\ req'[r].account = req[r].account /\ req'[r].crossed = req[r].crossed
             /\ \A p \in Requests \ {r} : req'[p] = req[p]
        <3>1. CASE req[r].op = "recover"
            <4>1. Write(r, q, EndedByRecovery(held), "write_recovery")
                BY <3>1 DEF ListSessions, new
            <4> HIDE DEF held, q
            <4> DEFINE writes == EndedByRecovery(held)
            <4>2. writes \in [SessionIds -> SessionRow \cup {None}]
                BY <1>5, EndedAreDead
            <4> HIDE DEF writes
            <4>3. Write(r, q, writes, "write_recovery") /\ "write_recovery" \in Places
                BY <4>1 DEF writes, Places
            <4>4. /\ req'[r].at \in {"write_recovery", "write_sessions"}
                  /\ req'[r].at # "write_sessions" => \A s \in SessionIds : writes[s] = None
                  /\ req'[r].op = q.op /\ req'[r].token = q.token
                  /\ req'[r].fresh = q.fresh /\ req'[r].issue = q.issue
                  /\ req'[r].account = q.account /\ req'[r].writes = writes
                  /\ \A p \in Requests \ {r} : req'[p] = req[p]
                BY <2>3, <4>2, <4>3, WriteValues
            <4>5. req'[r].crossed = q.crossed
                BY <2>3, <4>2, <4>3, WriteValues
            <4> QED
                BY <2>3, <2>4, <3>1, <4>2, <4>4, <4>5 DEF writes
        <3>2. CASE req[r].op = "sign_in"
            <4>1. PICK gone \in Evictions(all, req[r].fresh) :
                     req' = [req EXCEPT ![r] = [q EXCEPT !.writes = Capped(all, gone),
                                                         !.at = "insert_session"]]
                BY <3>2 DEF ListSessions, new
            <4>2. gone \in SUBSET DOMAIN all
                BY DEF Evictions, Live
            <4>3. DOMAIN all \subseteq SessionIds /\ \A s \in DOMAIN all : all[s] \in SessionRow
                BY <1>5, <2>1, <2>2
            <4> HIDE DEF all, q
            <4> DEFINE writes == Capped(all, gone)
            <4>4. writes \in [SessionIds -> SessionRow \cup {None}]
                BY <4>2, <4>3, EndedAreDead
            <4>5. req' = [req EXCEPT ![r] = [q EXCEPT !.writes = writes,
                                                      !.at = "insert_session"]]
                BY <4>1
            <4> HIDE DEF writes
            <4>6. /\ req'[r].at = "insert_session"
                  /\ req'[r].op = q.op /\ req'[r].token = q.token
                  /\ req'[r].fresh = q.fresh /\ req'[r].issue = q.issue
                  /\ req'[r].account = q.account /\ req'[r].writes = writes
                  /\ \A p \in Requests \ {r} : req'[p] = req[p]
                BY <2>3, <4>4, <4>5, RequestType DEF RequestState
            <4>7. req'[r].crossed = q.crossed
                BY <2>3, <4>5, RequestType DEF RequestState
            <4> QED
                BY <2>3, <2>4, <3>2, <4>4, <4>6, <4>7
        <3> QED
            BY <1>7, <3>1, <3>2
    <2>6. PICK writes \in [SessionIds -> SessionRow \cup {None}] :
             /\ \/ /\ req[r].op = "recover" /\ writes = EndedByRecovery(held)
                   /\ req'[r].at \in {"write_recovery", "write_sessions"}
                   /\ req'[r].at # "write_sessions" => \A s \in SessionIds : writes[s] = None
                \/ req[r].op = "sign_in" /\ req'[r].at = "insert_session"
             /\ req'[r].writes = writes
             /\ req'[r].op = req[r].op /\ req'[r].token = req[r].token
             /\ req'[r].fresh = req[r].fresh /\ req'[r].issue = new
             /\ req'[r].account = req[r].account /\ req'[r].crossed = req[r].crossed
             /\ \A p \in Requests \ {r} : req'[p] = req[p]
        BY <2>5
    <2> HIDE DEF q, all
    <2>7. /\ Statement(r) /\ NoSession(r)' /\ TokenOK(r)'
          /\ sessions' = sessions /\ credentials' = credentials /\ users' = users
          /\ rotated' = rotated /\ excused' = excused
        BY <1>1, <1>3, <2>6, ReadStatement, TokenStays DEF tables, history
    <2>8. PasswordOK(r)' /\ RefreshOK(r)' /\ WritesOK(r)'
        BY <1>7, <2>6, <2>7 DEF PasswordOK, RefreshOK, WritesOK, NoSession
    <2>9. IssueOK(r)'
        <3>1. ~Inserted(r)'
            BY <2>1, <2>6, <2>7 DEF Inserted, NoSession
        <3>2. PasswordOK(r)
            BY DEF Access, Knows
        <3>3. Unexcused(r)' => ~req[r].crossed
            BY <2>6 DEF Unexcused
        <3>4. Unexcused(r)' => Known(r, req[r].account) = req[r].password
            BY <1>1, <1>7, <3>2, <3>3 DEF PasswordOK
        <3>5. Unexcused(r)' => Current(r, req[r].issue)'
            BY <2>2, <2>6, <2>7, <3>4 DEF Current, Known
        <3> QED
            BY <2>6, <3>1, <3>5 DEF IssueOK
    <2>10. ClosingOK(r)'
        BY <1>3, <2>6, <2>7 DEF ClosingOK, Closing
    <2>11. SweepOK(r)'
        <3>1. CASE req[r].op = "sign_in"
            BY <1>3, <2>7, <3>1 DEF SweepOK, NoAccount
        <3>2. CASE req[r].op = "recover"
            <4>1. SweepOK(r)
                BY DEF Access, Knows
            <4>2. ASSUME NEW a \in Accounts, credentials[a].by = r
                  PROVE  a = req[r].account
                BY <1>1, <4>1, <4>2 DEF SweepOK
            <4>3. ASSUME NEW s \in SessionIds, Sweeping(req[r].account, s)
                  PROVE  writes[s] # None
                <5>1. /\ sessions[s].row \in SessionRow /\ sessions[s].row # None
                      /\ sessions[s].row.status = "active"
                      /\ sessions[s].row.owner = req[r].account
                    BY <4>3, Typed DEF Sweeping, Dead, Versions
                <5>2. Seen(sessions, r)[s] = sessions[s].row
                    BY <1>3, RowsRead DEF NoSession
                <5>3. s \in DOMAIN held /\ held[s] = sessions[s].row
                    BY <5>1, <5>2 DEF OwnSessions
                <5>4. writes[s] = Revoked(held[s])
                    BY <2>6, <3>2, <5>1, <5>3 DEF EndedByRecovery
                <5>5. Revoked(held[s]) \in SessionRow
                    BY <5>1, <5>3, RowRules
                <5> QED
                    BY <5>4, <5>5, AccessNoRowAssumption
            <4>4. \A s \in SessionIds : Sweeping(req[r].account, s)' =>
                      Sweeping(req[r].account, s)
                BY <2>6, <2>7 DEF Sweeping
            <4>5. \A s \in SessionIds : Sweeping(req[r].account, s)' => Swept(r, s)'
                BY <2>6, <3>2, <4>3, <4>4 DEF Swept
            <4>6. \A a \in Accounts : credentials'[a].by = r => a = req'[r].account
                BY <2>6, <2>7, <4>2
            <4> QED
                BY <2>6, <3>2, <4>5, <4>6 DEF SweepOK, Recovering, Sweeping
        <3> QED
            BY <1>7, <3>1, <3>2
    <2> QED
        BY <2>7, <2>8, <2>9, <2>10, <2>11 DEF Knows
<1> QED
    BY <1>2, <1>6, <1>7

-----------------------------------------------------------------------------
(* The writes of r                                                           *)

LEMMA InsertSessionKnows ==
    ASSUME Inv, Access, NEW r \in Requests, InsertSession(r)
    PROVE  Statement(r) /\ Knows(r)'
<1> DEFINE f == req[r].fresh
<1>1. /\ req[r].at = "insert_session" /\ req[r] \in RequestState
      /\ ValuesOK(req[r]) /\ PlaceFits(req[r], "insert_session")
      /\ UNCHANGED <<now, users, credentials, recoveries, deletions, notices, history>>
    BY HandlerAt DEF InsertSession
<1>2. req[r].op \in Issuing /\ f \in SessionIds /\ req[r].issue \in SessionRow
    BY <1>1 DEF PlaceFits, OpsAt, ValuesOK
<1>3. sessions[f].row = None /\ sessions[f].by \in {None, r}
    BY <1>2, RequestType DEF FreshOK
<1>4. /\ sessions'[f] = [row |-> None, next |-> req[r].issue, by |-> r]
      /\ \A s \in SessionIds \ {f} : sessions'[s] = sessions[s]
    BY <1>2, <1>3, Typed DEF InsertSession, Put
<1>5. PICK place \in {"write_sessions", "tell_owner", "reply"} :
         /\ Goto(r, place)
         /\ place = "tell_owner" => req[r].op = "recover"
         /\ place # "write_sessions" => \A s \in SessionIds : req[r].writes[s] = None
    BY DEF InsertSession, Writing, Pending
<1>6. /\ req'[r].at = place /\ req'[r].op = req[r].op /\ req'[r].token = req[r].token
      /\ req'[r].fresh = f /\ req'[r].issue \in {None, req[r].issue}
      /\ place # "reply" => /\ req'[r].writes = req[r].writes
                            /\ req'[r].account = req[r].account
      /\ \A q \in Requests \ {r} : req'[q] = req[q]
    BY <1>5, GotoValues DEF Places
<1>7. req'[r].crossed = req[r].crossed /\ (place = "reply" => req'[r].issue = None)
    BY <1>5, GotoValues DEF Places
<1>8. /\ credentials' = credentials /\ users' = users
      /\ rotated' = rotated /\ excused' = excused
    BY <1>1 DEF history
<1>9. /\ TokenOK(r) /\ WritesOK(r) /\ RefreshOK(r) /\ IssueOK(r) /\ SweepOK(r)
      /\ ClosingOK(r)
    BY DEF Access, Knows
<1>10. Statement(r)
    BY <1>2, <1>3, <1>4, <1>6, <1>8
    DEF Statement, SessionMove, CredentialMove, UserMove
<1>11. TokenOK(r)' /\ PasswordOK(r)'
    BY <1>5, <1>6, <1>8, TokenStays, PasswordSilent
<1>12. WritesOK(r)'
    BY <1>2, <1>4, <1>5, <1>6, <1>9 DEF WritesOK, Wrote
<1>13. RefreshOK(r)'
    <2>1. SUFFICES ASSUME req[r].op = "refresh"
                   PROVE  /\ \/ Ended(r, req[r].token)'
                             \/ req'[r].at # "reply" /\ req'[r].writes[req[r].token] # None
                          /\ \A s \in SessionIds \ {req[r].token} :
                                rotated[s] = req[r].token => req[r].crossed
        BY <1>5, <1>6, <1>7, <1>8 DEF RefreshOK, Ended
    <2>2. /\ req[r].token \in SessionIds /\ req[r].token # f
        BY <1>2, <1>9, <2>1 DEF TokenOK
    <2>3. /\ Ended(r, req[r].token) \/ req[r].writes[req[r].token] # None
          /\ \A s \in SessionIds \ {req[r].token} :
                rotated[s] = req[r].token => req[r].crossed
        BY <1>1, <1>9, <2>1 DEF RefreshOK, Holding
    <2>4. Ended(r, req[r].token) => Ended(r, req[r].token)'
        BY <1>4, <1>6, <2>2 DEF Ended
    <2> QED
        BY <1>5, <1>6, <2>2, <2>3, <2>4
<1>14. IssueOK(r)'
    <2>1. Unexcused(r)' => Unexcused(r)
        BY <1>6, <1>7, <1>8 DEF Unexcused
    <2>2. req[r].issue # None
        BY <1>2, AccessNoRowAssumption
    <2>3. Unexcused(r)' => req[r].issue.under = Known(r, req[r].issue.owner)
        BY <1>9, <2>1, <2>2 DEF IssueOK, Current
    <2>4. Unexcused(r)' /\ req'[r].issue # None => Current(r, req[r].issue)'
        BY <1>6, <1>8, <2>3 DEF Current, Known
    <2>5. Unexcused(r)' => Current(r, sessions[req[r].fresh].next)'
        BY <1>4, <1>6, <1>8, <2>3 DEF Current, Known
    <2> QED
        BY <1>5, <1>6, <1>7, <2>4, <2>5 DEF IssueOK
<1>15. SweepOK(r)'
    <2>1. ASSUME NEW a \in Accounts, credentials[a].by = r
          PROVE  /\ req[r].op = "recover" /\ a = req[r].account
                 /\ \A s \in SessionIds : Sweeping(a, s) =>
                        sessions[s].by = r /\ Dead(sessions[s].next)
        BY <1>1, <1>9, <2>1 DEF SweepOK, Swept
    <2>2. ASSUME NEW a \in Accounts, NEW s \in SessionIds, Sweeping(a, s)'
          PROVE  Sweeping(a, s) /\ s # f
        BY <1>3, <1>4, <1>8, <2>2 DEF Sweeping, Dead
    <2>3. ASSUME NEW a \in Accounts, credentials[a].by = r, NEW s \in SessionIds,
                 Sweeping(a, s)'
          PROVE  Swept(r, s)'
        <3>1. sessions[s].by = r /\ Dead(sessions[s].next) /\ s # f
            BY <2>1, <2>2, <2>3
        <3> QED
            BY <1>4, <3>1 DEF Swept
    <2> QED
        BY <1>5, <1>6, <1>8, <2>1, <2>3 DEF SweepOK, Recovering
<1>16. ClosingOK(r)'
    BY <1>1, <1>5, <1>6, <1>8, <1>9 DEF ClosingOK, Closing
<1> QED
    BY <1>10, <1>11, <1>12, <1>13, <1>14, <1>15, <1>16 DEF Knows

LEMMA WriteSessionKnows ==
    ASSUME Inv, Access, NEW r \in Requests, NEW s \in SessionIds, WriteSession(r, s)
    PROVE  Statement(r) /\ Knows(r)'
<1> DEFINE row == req[r].writes[s]
           writes == [req[r].writes EXCEPT ![s] = None]
           then == IF req[r].op = "recover" THEN "write_recovery" ELSE "reply"
<1>1. /\ req[r].at = "write_sessions" /\ req[r] \in RequestState /\ ValuesOK(req[r])
      /\ UNCHANGED <<now, users, credentials, recoveries, deletions, notices, history>>
    BY HandlerAt DEF WriteSession
<1>2. /\ row # None /\ row.status # "active" /\ sessions[s].by \in {None, r}
    BY <1>1 DEF WriteSession, Pending, FreeFor, ValuesOK
<1>3. /\ \A t \in SessionIds \ {s} : sessions'[t] = sessions[t]
      /\ \/ Seen(sessions, r)[s] = None /\ sessions'[s] = sessions[s]
         \/ /\ Seen(sessions, r)[s] # None
            /\ sessions'[s] = [row |-> sessions[s].row, next |-> row, by |-> r]
    BY Typed DEF WriteSession, Put
<1>4. Seen(sessions, r)[s] = IF sessions[s].by = r THEN sessions[s].next ELSE sessions[s].row
    BY RowsRead
<1>5. /\ writes \in [SessionIds -> SessionRow \cup {None}] /\ then \in Places
      /\ writes[s] = None /\ \A t \in SessionIds \ {s} : writes[t] = req[r].writes[t]
      /\ then \in {"write_recovery", "reply"}
      /\ then = "write_recovery" => req[r].op = "recover"
    BY <1>1 DEF RequestState, Places
<1>6. Write(r, req[r], writes, then)
    BY DEF WriteSession
<1> HIDE DEF row, writes, then
<1>7. /\ req'[r].at \in {then, "write_sessions"}
      /\ req'[r].at # "write_sessions" => \A t \in SessionIds : writes[t] = None
      /\ req'[r].op = req[r].op /\ req'[r].token = req[r].token
      /\ req'[r].fresh = req[r].fresh /\ req'[r].issue \in {None, req[r].issue}
      /\ req'[r].at # "reply" => /\ req'[r].writes = writes
                                 /\ req'[r].account = req[r].account
      /\ req'[r].at = "reply" => req'[r].issue = None
      /\ \A q \in Requests \ {r} : req'[q] = req[q]
    BY <1>1, <1>5, <1>6, WriteValues
<1>8. req'[r].crossed = req[r].crossed
    BY <1>1, <1>5, <1>6, WriteValues
<1>9. /\ credentials' = credentials /\ users' = users
      /\ rotated' = rotated /\ excused' = excused
    BY <1>1 DEF history
<1>10. /\ TokenOK(r) /\ WritesOK(r) /\ RefreshOK(r) /\ IssueOK(r) /\ SweepOK(r)
       /\ ClosingOK(r)
    BY DEF Access, Knows
<1>11. Statement(r)
    BY <1>2, <1>3, <1>7, <1>9
    DEF Statement, SessionMove, CredentialMove, UserMove, Dead
<1>12. TokenOK(r)' /\ PasswordOK(r)'
    BY <1>5, <1>7, <1>9, TokenStays, PasswordSilent
<1>13. \/ sessions'[s] = sessions[s] /\ Seen(sessions, r)[s] = None
       \/ /\ sessions'[s].by = r /\ Dead(sessions'[s].next)
          /\ sessions'[s].row = sessions[s].row
          /\ \/ req[r].op \in Issuing /\ s = req[r].fresh
             \/ sessions[s].row # None
    BY <1>2, <1>3, <1>4, <1>10 DEF WritesOK, Dead
<1>14. WritesOK(r)'
    <2>1. req'[r].at \in Wrote
        BY <1>5, <1>7 DEF Wrote
    <2> QED
        BY <1>3, <1>7, <1>10, <1>13, <2>1 DEF WritesOK
<1>15. RefreshOK(r)'
    <2>1. SUFFICES ASSUME req[r].op = "refresh"
                   PROVE  /\ \/ Ended(r, req[r].token)'
                             \/ /\ req'[r].at = "write_sessions"
                                /\ writes[req[r].token] # None
                          /\ \A t \in SessionIds \ {req[r].token} :
                                rotated[t] = req[r].token => req[r].crossed
        BY <1>5, <1>7, <1>8, <1>9 DEF RefreshOK, Ended
    <2>2. req[r].token \in SessionIds /\ rotated[req[r].token] # None
        BY <1>10, <2>1 DEF TokenOK
    <2>3. /\ Ended(r, req[r].token) \/ req[r].writes[req[r].token] # None
          /\ \A t \in SessionIds \ {req[r].token} :
                rotated[t] = req[r].token => req[r].crossed
        BY <1>1, <1>10, <2>1 DEF RefreshOK, Holding
    <2>4. CASE s # req[r].token
        <3>1. Ended(r, req[r].token) => Ended(r, req[r].token)'
            BY <1>3, <1>7, <2>2, <2>4 DEF Ended
        <3> QED
            BY <1>5, <1>7, <2>2, <2>3, <2>4, <3>1
    <2>5. CASE s = req[r].token
        <3>1. CASE sessions'[s] = sessions[s] /\ Seen(sessions, r)[s] = None
            <4>1. sessions[s].row = None => Dead(sessions[s].next)
                BY <2>2, <2>5 DEF Access, RotationsOK
            <4>2. Dead(sessions[s].next) /\ (sessions[s].by = r \/ Dead(sessions[s].row))
                BY <1>4, <3>1, <4>1 DEF Dead
            <4> QED
                BY <1>7, <2>3, <2>5, <3>1, <4>2 DEF Ended
        <3>2. CASE sessions'[s].by = r /\ Dead(sessions'[s].next)
            BY <1>7, <2>3, <2>5, <3>2 DEF Ended
        <3> QED
            BY <1>13, <3>1, <3>2
    <2> QED
        BY <2>4, <2>5
<1>16. IssueOK(r)'
    <2>1. Unexcused(r)' => Unexcused(r)
        BY <1>7, <1>8, <1>9 DEF Unexcused
    <2>2. Unexcused(r)' /\ req'[r].issue # None => Current(r, req[r].issue)'
        BY <1>7, <1>9, <1>10, <2>1 DEF IssueOK, Current, Known
    <2>3. req'[r].issue # None => req'[r].at \in {"write_sessions", "write_recovery"}
        BY <1>5, <1>7
    <2>4. ASSUME Inserted(r)', ~Dead(sessions[req[r].fresh].next)', Unexcused(r)'
          PROVE  Current(r, sessions[req[r].fresh].next)'
        <3>1. req[r].op \in Issuing /\ req[r].fresh \in SessionIds
            BY <1>1, <1>7, <2>4 DEF Inserted, ValuesOK
        <3>2. sessions'[req[r].fresh] = sessions[req[r].fresh]
            BY <1>3, <1>7, <1>13, <2>4, <3>1
        <3>3. Inserted(r) /\ ~Dead(sessions[req[r].fresh].next)
            BY <1>7, <2>4, <3>2 DEF Inserted
        <3> QED
            BY <1>7, <1>9, <1>10, <2>1, <2>4, <3>2, <3>3 DEF IssueOK, Current, Known
    <2> QED
        BY <2>2, <2>3, <2>4 DEF IssueOK
<1>17. SweepOK(r)'
    <2>1. ASSUME NEW a \in Accounts, credentials[a].by = r
          PROVE  /\ req[r].op = "recover" /\ a = req[r].account
                 /\ \A t \in SessionIds : Sweeping(a, t) => Swept(r, t)
        BY <1>1, <1>10, <2>1 DEF SweepOK
    <2>2. ASSUME NEW a \in Accounts, credentials[a].by = r, NEW t \in SessionIds,
                 Sweeping(a, t)'
          PROVE  Swept(r, t)'
        <3>1. Sweeping(a, t)
            BY <1>3, <1>9, <1>13, <2>2 DEF Sweeping
        <3>2. Swept(r, t) /\ sessions[t].row # None
            BY <2>1, <2>2, <3>1 DEF Sweeping, Dead
        <3>3. CASE t # s
            BY <1>3, <1>5, <1>7, <2>1, <2>2, <3>2, <3>3 DEF Swept
        <3>4. CASE t = s
            BY <1>4, <1>13, <3>2, <3>4 DEF Swept, Dead
        <3> QED
            BY <3>3, <3>4
    <2> QED
        BY <1>5, <1>7, <1>9, <2>1, <2>2 DEF SweepOK, Recovering
<1>18. ClosingOK(r)'
    BY <1>1, <1>5, <1>7, <1>9, <1>10 DEF ClosingOK, Closing
<1> QED
    BY <1>11, <1>12, <1>14, <1>15, <1>16, <1>17, <1>18 DEF Knows

LEMMA SetPasswordKnows ==
    ASSUME Inv, Access, NEW r \in Requests, SetPassword(r)
    PROVE  Statement(r) /\ Knows(r)'
<1> DEFINE b == req[r].account
<1>1. /\ req[r].at = "set_password" /\ req[r] \in RequestState /\ InputsOK(req[r])
      /\ ValuesOK(req[r]) /\ PlaceFits(req[r], "set_password")
      /\ UNCHANGED <<now, users, sessions, recoveries, deletions, notices, history>>
    BY HandlerAt DEF SetPassword
<1>2. /\ req[r].op = "recover" /\ b \in Accounts /\ req[r].password \in Passwords
      /\ req[r].fresh \in SessionIds /\ req[r].issue = None
    BY <1>1, NoIssueYet DEF PlaceFits, OpsAt, Accounted, InputsOK, ValuesOK, Issuing
<1>3. NoSession(r) /\ NoAccount(r)
    BY <1>1, NothingWritten DEF Wrote
<1>4. credentials[b].by = None /\ Known(r, b) = credentials[b].row
    BY <1>2, <1>3 DEF SetPassword, FreeFor, NoAccount, Known
<1>5. /\ \A a \in Accounts \ {b} : credentials'[a] = credentials[a]
      /\ \/ credentials[b].row = None /\ credentials'[b] = credentials[b]
         \/ /\ credentials[b].row # None
            /\ credentials'[b] = [row |-> credentials[b].row, next |-> req[r].password,
                                  by |-> r]
    BY <1>2, <1>4, Typed, RowsRead DEF SetPassword, Put
<1>6. /\ req'[r].at = "list_sessions" /\ req'[r].op = "recover"
      /\ req'[r].token = req[r].token /\ req'[r].fresh = req[r].fresh
      /\ req'[r].issue = None /\ req'[r].account = b /\ req'[r].password = req[r].password
      /\ \A q \in Requests \ {r} : req'[q] = req[q]
    BY <1>2, GotoValues DEF SetPassword, Places
<1>7. req'[r].crossed = req[r].crossed
    BY GotoValues DEF SetPassword, Places
<1>8. /\ sessions' = sessions /\ users' = users
      /\ rotated' = rotated /\ excused' = excused
    BY <1>1 DEF history
<1>9. Statement(r)
    BY <1>2, <1>4, <1>5, <1>6, <1>8
    DEF Statement, SessionMove, CredentialMove, UserMove
<1>10. TokenOK(r)'
    BY <1>2, <1>6, <1>8, TokenStays
<1>11. PasswordOK(r)'
    <2>1. ~req[r].crossed => credentials[b].row # None
        BY <1>1, <1>2, <1>4 DEF Access, Knows, PasswordOK
    <2>2. ~req[r].crossed => Known(r, b)' = req[r].password
        BY <1>5, <1>6, <2>1 DEF Known
    <2> QED
        BY <1>6, <1>7, <2>2 DEF PasswordOK, Known
<1>12. WritesOK(r)' /\ RefreshOK(r)' /\ IssueOK(r)'
    BY <1>2, <1>3, <1>6, <1>8 DEF NoSession, WritesOK, RefreshOK, IssueOK, Inserted
<1>13. SweepOK(r)'
    <2>1. \A a \in Accounts : credentials'[a].by = r => a = b
        BY <1>3, <1>5 DEF NoAccount
    <2> QED
        BY <1>6, <2>1 DEF SweepOK, Recovering
<1>14. ClosingOK(r)'
    BY <1>3, <1>6, <1>8 DEF ClosingOK, Closing, NoAccount
<1> QED
    BY <1>9, <1>10, <1>11, <1>12, <1>13, <1>14 DEF Knows

(* A statement on a table none of this is about, by a handler that has       *)
(* written nothing that is.                                                  *)
LEMMA AsideKnows ==
    ASSUME Inv, Access, NEW r \in Requests, InsertRecovery(r) \/ Schedule(r)
    PROVE  Statement(r) /\ Knows(r)'
<1>1. /\ req[r].at \in {"insert_recovery", "schedule"}
      /\ req[r].at = "insert_recovery" => req[r].op = "ask_recovery"
      /\ UNCHANGED <<users, credentials, sessions, rotated, excused>>
    BY HandlerAt DEF InsertRecovery, Schedule, history, At, PlaceFits, OpsAt
<1>2. PICK place \in {"reply", "write_recovery", "find_scheduled"} :
         Goto(r, place) /\ (place = "write_recovery" => req[r].op = "ask_recovery")
    BY <1>1 DEF InsertRecovery, Schedule, Reply, At
<1>3. NoSession(r) /\ NoAccount(r) /\ req[r].issue = None
    BY <1>1, NothingWritten, NoIssueYet DEF Wrote
<1>4. /\ req'[r].at = place /\ req'[r].op = req[r].op /\ req'[r].token = req[r].token
      /\ req'[r].fresh = req[r].fresh /\ req'[r].issue = None
      /\ \A q \in Requests \ {r} : req'[q] = req[q]
    BY <1>2, <1>3, GotoValues DEF Places
<1>5. Statement(r) /\ NoSession(r)' /\ NoAccount(r)' /\ TokenOK(r)'
    BY <1>1, <1>3, <1>4, TokenStays
    DEF Statement, SessionMove, CredentialMove, UserMove, NoSession, NoAccount
<1>6. PasswordOK(r)'
    BY <1>2, <1>4, PasswordSilent
<1>7. req[r].op \in Issuing => req[r].fresh \in SessionIds
    BY RequestType DEF HandlerOK, ValuesOK
<1> QED
    BY <1>2, <1>4, <1>5, <1>6, <1>7, QuietKnows DEF Closing

(* A handler that goes on with what it has written.                          *)
LEMMA CarryKnows ==
    ASSUME Inv, Access, NEW r \in Requests,
           req[r].at \in {"write_recovery", "tell_owner", "delete_recoveries", "retire_user",
                          "write_deletion"},
           UNCHANGED <<credentials, sessions, rotated, excused>>, UserMove(r),
           NEW place \in {"insert_session", "reply", "failed", "retire_user", "write_deletion"},
           Goto(r, place),
           req[r].op = "recover" => place \in {"insert_session", "reply", "failed"},
           req[r].op = "undo" => place \in {"retire_user", "write_deletion", "reply"},
           place \in Closing => req[r].at \in Closing,
           place = "retire_user" => req[r].at = "delete_recoveries",
           \A a \in Accounts : users'[a].by = r =>
               place \in {"write_deletion", "reply"} /\ Retired(r, a)
    PROVE  Statement(r) /\ Knows(r)'
<1>1. /\ req'[r].at = place /\ req'[r].op = req[r].op /\ req'[r].token = req[r].token
      /\ req'[r].fresh = req[r].fresh /\ req'[r].issue \in {None, req[r].issue}
      /\ place = "reply" => req'[r].issue = None
      /\ place # "reply" => req'[r].account = req[r].account
      /\ \A q \in Requests \ {r} : req'[q] = req[q]
    BY GotoValues DEF Places
<1>2. req'[r].crossed = req[r].crossed
    BY GotoValues DEF Places
<1>3. /\ TokenOK(r) /\ WritesOK(r) /\ RefreshOK(r) /\ IssueOK(r) /\ SweepOK(r)
      /\ ClosingOK(r)
    BY DEF Access, Knows
<1>4. Statement(r) /\ TokenOK(r)' /\ PasswordOK(r)'
    BY <1>1, TokenStays, PasswordSilent
    DEF Statement, SessionMove, CredentialMove
<1>5. req[r].op # "refresh"
    <2>1. req[r].at = "tell_owner" => req[r].op = "recover"
        BY RequestType DEF HandlerOK, PlaceFits, OpsAt
    <2> QED
        BY <1>3, <2>1 DEF RefreshOK, ClosingOK, Closing
<1>6. WritesOK(r)' /\ RefreshOK(r)'
    BY <1>1, <1>3, <1>5 DEF WritesOK, RefreshOK, Wrote
<1>7. IssueOK(r)'
    <2>1. Unexcused(r)' => Unexcused(r)
        BY <1>1, <1>2 DEF Unexcused
    <2>2. req'[r].issue # None => place \in {"insert_session", "failed"}
        BY <1>1, <1>3 DEF IssueOK, Closing
    <2>3. Unexcused(r)' /\ req'[r].issue # None => Current(r, req[r].issue)'
        BY <1>1, <1>3, <2>1 DEF IssueOK, Current, Known
    <2>4. Inserted(r)' = Inserted(r)
        BY <1>1 DEF Inserted
    <2>5. Inserted(r)' /\ ~Dead(sessions[req[r].fresh].next)' /\ Unexcused(r)' =>
             Current(r, sessions[req[r].fresh].next)'
        BY <1>1, <1>3, <2>1, <2>4 DEF IssueOK, Current, Known
    <2> QED
        BY <1>1, <2>2, <2>3, <2>5 DEF IssueOK
<1>8. SweepOK(r)'
    <2>1. ASSUME NEW a \in Accounts, credentials[a].by = r
          PROVE  /\ req[r].op \in {"recover", "undo"} /\ a = req[r].account
                 /\ \A s \in SessionIds : Sweeping(a, s) =>
                        sessions[s].by = r /\ Dead(sessions[s].next)
        BY <1>3, <2>1 DEF SweepOK, Swept
    <2>2. \A a \in Accounts, s \in SessionIds : Sweeping(a, s)' = Sweeping(a, s)
        BY DEF Sweeping
    <2> QED
        BY <1>1, <2>1, <2>2 DEF SweepOK, Swept, Recovering
<1>9. ClosingOK(r)'
    <2>1. place \in Closing => req[r].op = "undo"
        BY <1>3 DEF ClosingOK
    <2>2. place = "retire_user" => Retired(r, req[r].account)
        BY <1>3 DEF ClosingOK
    <2> QED
        BY <1>1, <2>1, <2>2 DEF ClosingOK, Retired
<1> QED
    BY <1>4, <1>6, <1>7, <1>8, <1>9 DEF Knows

LEMMA CarriedKnows ==
    ASSUME Inv, Access, NEW r \in Requests,
           \/ WriteRecovery(r) \/ TellOwner(r) \/ DeleteRecoveries(r) \/ RetireUser(r)
           \/ WriteDeletion(r)
    PROVE  Statement(r) /\ Knows(r)'
<1>1. /\ UNCHANGED <<credentials, sessions, rotated, excused>>
      /\ req[r].at \in {"write_recovery", "tell_owner", "delete_recoveries", "retire_user",
                        "write_deletion"}
    BY DEF WriteRecovery, TellOwner, DeleteRecoveries, RetireUser, WriteDeletion, history, At
<1>2. ClosingOK(r) /\ PlaceFits(req[r], req[r].at)
    BY RequestType DEF Access, Knows, HandlerOK
<1>3. CASE WriteRecovery(r)
    <2>1. req[r].at = "write_recovery" /\ users' = users
        BY <1>3 DEF WriteRecovery, At
    <2>2. PICK place \in {"insert_session", "reply", "failed"} : Goto(r, place)
        BY <1>3 DEF WriteRecovery, AfterRecovery
    <2>3. \A a \in Accounts : users[a].by # r
        BY <2>1, NothingWritten
    <2>4. req[r].op # "undo"
        BY <2>1 DEF Access, Knows, RefreshOK
    <2> QED
        BY <1>1, <2>1, <2>2, <2>3, <2>4, CarryKnows DEF UserMove, Closing
<1>4. CASE TellOwner(r)
    <2>1. req[r].at = "tell_owner" /\ users' = users
        BY <1>4 DEF TellOwner, At
    <2>2. PICK place \in {"reply", "failed"} : Goto(r, place)
        BY <1>4 DEF TellOwner, Reply
    <2>3. \A a \in Accounts : users[a].by # r
        BY <2>1, NothingWritten
    <2>4. req[r].op = "recover"
        BY <1>2, <2>1 DEF PlaceFits, OpsAt
    <2> QED
        BY <1>1, <2>1, <2>2, <2>3, <2>4, CarryKnows DEF UserMove, Closing
<1>5. CASE DeleteRecoveries(r)
    <2>1. req[r].at = "delete_recoveries" /\ users' = users /\ Goto(r, "retire_user")
        BY <1>5 DEF DeleteRecoveries, At
    <2>2. \A a \in Accounts : users[a].by # r
        BY <2>1, NothingWritten
    <2>3. req[r].op = "undo"
        BY <1>2, <2>1 DEF ClosingOK, Closing
    <2> QED
        BY <1>1, <2>1, <2>2, <2>3, CarryKnows DEF UserMove, Closing
<1>6. CASE RetireUser(r)
    <2>1. /\ req[r].at = "retire_user" /\ Goto(r, "write_deletion")
          /\ users' = Put(users, req[r].account, r, "deleted")
          /\ users[req[r].account].by \in {None, r}
        BY <1>6 DEF RetireUser, At, FreeFor
    <2>2. \A a \in Accounts : users[a].by # r
        BY <2>1, NothingWritten
    <2>3. req[r].op = "undo" /\ Retired(r, req[r].account)
        BY <1>2, <2>1 DEF ClosingOK, Closing
    <2>4. \A a \in Accounts : \/ users'[a] = users[a]
                              \/ /\ a = req[r].account /\ users'[a].by = r
                                 /\ users'[a].row = users[a].row
        BY <2>1, Typed DEF Put
    <2>5. UserMove(r) /\ \A a \in Accounts : users'[a].by = r => Retired(r, a)
        BY <2>1, <2>2, <2>3, <2>4 DEF UserMove
    <2> QED
        BY <1>1, <2>1, <2>3, <2>5, CarryKnows DEF Closing
<1>7. CASE WriteDeletion(r)
    <2>1. req[r].at = "write_deletion" /\ users' = users /\ Goto(r, "reply")
        BY <1>7 DEF WriteDeletion, At, Reply
    <2>2. req[r].op = "undo" /\ \A a \in Accounts : users[a].by = r => Retired(r, a)
        BY <1>2, <2>1 DEF ClosingOK, Closing
    <2> QED
        BY <1>1, <2>1, <2>2, CarryKnows DEF UserMove, Closing
<1> QED
    BY <1>3, <1>4, <1>5, <1>6, <1>7

LEMMA DeleteCredentialKnows ==
    ASSUME Inv, Access, NEW r \in Requests, DeleteCredential(r)
    PROVE  Statement(r) /\ Knows(r)'
<1> DEFINE b == req[r].account
<1>1. /\ req[r].at = "delete_credential" /\ PlaceFits(req[r], "delete_credential")
      /\ UNCHANGED <<now, users, sessions, recoveries, deletions, notices, history>>
    BY HandlerAt DEF DeleteCredential
<1>2. b \in Accounts /\ req[r].op = "undo" /\ req[r].issue = None
    BY <1>1, NoIssueYet DEF PlaceFits, Accounted, Access, Knows, ClosingOK, Closing
<1>3. NoSession(r) /\ NoAccount(r)
    BY <1>1, NothingWritten DEF Wrote
<1>4. /\ credentials[b].by \in {None, r}
      /\ \A a \in Accounts \ {b} : credentials'[a] = credentials[a]
      /\ credentials'[b] = [row |-> credentials[b].row, next |-> None, by |-> r]
    BY <1>2, Typed DEF DeleteCredential, FreeFor, Put
<1>5. /\ req'[r].at = "delete_sessions" /\ req'[r].op = "undo"
      /\ req'[r].token = req[r].token /\ req'[r].fresh = req[r].fresh
      /\ req'[r].issue = None /\ req'[r].account = b
      /\ \A q \in Requests \ {r} : req'[q] = req[q]
    BY <1>2, GotoValues DEF DeleteCredential, Places
<1>6. /\ sessions' = sessions /\ users' = users
      /\ rotated' = rotated /\ excused' = excused
    BY <1>1 DEF history
<1>7. Statement(r) /\ TokenOK(r)' /\ PasswordOK(r)'
    BY <1>2, <1>4, <1>5, <1>6, TokenStays, PasswordSilent
    DEF Statement, SessionMove, CredentialMove, UserMove
<1>8. WritesOK(r)' /\ RefreshOK(r)' /\ IssueOK(r)'
    BY <1>3, <1>5, <1>6 DEF NoSession, WritesOK, RefreshOK, IssueOK, Inserted, Issuing
<1>9. SweepOK(r)'
    <2>1. \A a \in Accounts : credentials'[a].by = r => a = b
        BY <1>3, <1>4 DEF NoAccount
    <2> QED
        BY <1>5, <2>1 DEF SweepOK
<1>10. ClosingOK(r)'
    BY <1>2, <1>3, <1>4, <1>5, <1>6 DEF ClosingOK, Closing, NoAccount, Retired
<1> QED
    BY <1>7, <1>8, <1>9, <1>10 DEF Knows

LEMMA DeleteSessionsKnows ==
    ASSUME Inv, Access, NEW r \in Requests, DeleteSessions(r)
    PROVE  Statement(r) /\ Knows(r)'
<1> DEFINE b == req[r].account
           own == Own(sessions, r)
<1>1. /\ req[r].at = "delete_sessions" /\ PlaceFits(req[r], "delete_sessions")
      /\ UNCHANGED <<now, users, credentials, recoveries, deletions, notices, history>>
    BY HandlerAt DEF DeleteSessions
<1>2. b \in Accounts /\ req[r].op = "undo" /\ req[r].issue = None /\ Retired(r, b)
    BY <1>1, NoIssueYet DEF PlaceFits, Accounted, Access, Knows, ClosingOK, Closing
<1>3. NoSession(r) /\ \A a \in Accounts : users[a].by # r
    BY <1>1, NothingWritten DEF Wrote
<1>4. \A s \in SessionIds :
         /\ Seen(sessions, r)[s] = sessions[s].row
         /\ s \in own <=> sessions[s].row # None /\ sessions[s].row.owner = b
    BY <1>3, RowsRead, Typed DEF NoSession, Own
<1>5. ASSUME NEW s \in SessionIds
      PROVE  \/ sessions'[s] = sessions[s] /\ s \notin own
             \/ /\ sessions[s].by \in {None, r} /\ sessions'[s].by = r
                /\ sessions'[s].row = sessions[s].row /\ sessions'[s].next = None
    BY Typed DEF DeleteSessions, FreeFor, WithoutOwn
<1> HIDE DEF own
<1>6. /\ req'[r].at = "delete_recoveries" /\ req'[r].op = "undo"
      /\ req'[r].token = req[r].token /\ req'[r].fresh = req[r].fresh
      /\ req'[r].issue = None /\ req'[r].account = b
      /\ \A q \in Requests \ {r} : req'[q] = req[q]
    BY <1>2, GotoValues DEF DeleteSessions, Places
<1>7. /\ credentials' = credentials /\ users' = users
      /\ rotated' = rotated /\ excused' = excused
    BY <1>1 DEF history
<1>8. Statement(r) /\ TokenOK(r)' /\ PasswordOK(r)'
    BY <1>2, <1>5, <1>6, <1>7, TokenStays, PasswordSilent
    DEF Statement, SessionMove, CredentialMove, UserMove, Dead
<1>9. WritesOK(r)' /\ RefreshOK(r)' /\ IssueOK(r)'
    BY <1>3, <1>5, <1>6
    DEF NoSession, WritesOK, Wrote, Dead, RefreshOK, IssueOK, Inserted, Issuing
<1>10. SweepOK(r)'
    <2>1. \A a \in Accounts : credentials'[a].by = r => a = b
        BY <1>1, <1>7 DEF Access, Knows, SweepOK
    <2>2. ASSUME NEW s \in SessionIds, Sweeping(b, s)'
          PROVE  sessions'[s].by = r /\ Dead(sessions'[s].next)
        <3>1. sessions'[s].row = sessions[s].row
            BY <1>5
        <3>2. s \in own
            BY <1>4, <1>6, <2>2, <3>1 DEF Sweeping, Dead
        <3> QED
            BY <1>5, <3>2 DEF Dead
    <2> QED
        BY <1>6, <2>1, <2>2 DEF SweepOK, Swept, Sweeping
<1>11. ClosingOK(r)'
    BY <1>2, <1>3, <1>6, <1>7 DEF ClosingOK, Closing, Retired
<1> QED
    BY <1>8, <1>9, <1>10, <1>11 DEF Knows

-----------------------------------------------------------------------------
(* Every step keeps what the handlers know                                   *)

LEMMA StartKnows ==
    ASSUME Inv, Access, NEW r \in Requests, NEW q \in RequestState, Start(r, q),
           q.at \in {"find_credential", "find_session", "resolve"}, q.issue = None,
           q.op \in Issuing => q.fresh \in SessionIds /\ rotated[q.fresh] = None,
           q.op \notin Issuing => q.fresh = None,
           q.op = "refresh" => q.token \in SessionIds /\ rotated[q.token] # None
    PROVE  Statement(r) /\ Knows(r)'
<1> DEFINE p == [q EXCEPT !.now = now]
<1>1. req' = [req EXCEPT ![r] = p]
    BY DEF Start
<1>2. /\ p.at = q.at /\ p.op = q.op /\ p.issue = None /\ p.fresh = q.fresh
      /\ p.token = q.token
    BY DEF RequestState
<1> HIDE DEF p
<1>3. /\ req'[r].at = q.at /\ req'[r].op = q.op /\ req'[r].issue = None
      /\ req'[r].fresh = q.fresh /\ req'[r].token = q.token
      /\ \A o \in Requests \ {r} : req'[o] = req[o]
    BY <1>1, <1>2, RequestType
<1>4. /\ req[r].at = "idle"
      /\ UNCHANGED <<users, credentials, sessions, rotated, excused>>
    BY DEF Start, At, tables
<1>5. NoSession(r) /\ NoAccount(r)
    BY <1>4, NothingWritten DEF Wrote
<1>6. Statement(r) /\ NoSession(r)' /\ NoAccount(r)'
    BY <1>3, <1>4, <1>5
    DEF Statement, SessionMove, CredentialMove, UserMove, NoSession, NoAccount
<1>7. TokenOK(r)' /\ PasswordOK(r)'
    BY <1>3, <1>4 DEF TokenOK, PasswordOK
<1> QED
    BY <1>3, <1>6, <1>7, QuietKnows DEF Closing

LEMMA BeginKnows ==
    ASSUME Inv, Access, NEW r \in Requests, Begin(r)
    PROVE  Statement(r) /\ Knows(r)'
<1>1. ASSUME FreshSessions # {}
      PROVE  NewSession \in SessionIds /\ rotated[NewSession] = None
    BY <1>1 DEF NewSession, FreshSessions
<1>2. \A s \in SessionIds : Session[s] # None => rotated[s] # None
    BY RowsRead DEF Access, RotationsOK
<1>3. ASSUME NEW a \in Accounts, NEW p \in Passwords, BeginSignIn(r, a, p)
      PROVE  Statement(r) /\ Knows(r)'
    <2> DEFINE q == [Idle EXCEPT !.at = "find_credential", !.op = "sign_in", !.account = a,
                                 !.password = p, !.fresh = NewSession]
    <2>1. Start(r, q) /\ NewSession \in SessionIds /\ rotated[NewSession] = None
        BY <1>1, <1>3 DEF BeginSignIn
    <2>2. /\ q \in RequestState /\ q.at = "find_credential" /\ q.op = "sign_in"
          /\ q.fresh = NewSession /\ q.issue = None
        BY ZenonT(60), <2>1 DEF Idle, RequestState, Places, Ops, NoRows
    <2> HIDE DEF q
    <2> QED
        BY <2>1, <2>2, StartKnows DEF Issuing
<1>4. ASSUME NEW a \in Accounts, BeginAskRecovery(r, a)
      PROVE  Statement(r) /\ Knows(r)'
    <2> DEFINE c == CHOOSE c \in FreshRecoveries : TRUE
               q == [Idle EXCEPT !.at = "find_credential", !.op = "ask_recovery",
                                 !.account = a, !.code = c]
    <2>1. Start(r, q) /\ c \in RecoveryIds
        BY <1>4 DEF BeginAskRecovery, FreshRecoveries
    <2> HIDE DEF c
    <2>2. /\ q \in RequestState /\ q.at = "find_credential" /\ q.op = "ask_recovery"
          /\ q.fresh = None /\ q.issue = None
        BY <2>1 DEF Idle, RequestState, Places, Ops, NoRows
    <2> HIDE DEF q
    <2> QED
        BY <2>1, <2>2, StartKnows DEF Issuing
<1>5. ASSUME NEW a \in Accounts, NEW c \in RecoveryIds \cup {None}, NEW p \in Passwords,
             BeginRecover(r, a, c, p)
      PROVE  Statement(r) /\ Knows(r)'
    <2> DEFINE q == [Idle EXCEPT !.at = "find_credential", !.op = "recover", !.account = a,
                                 !.code = c, !.password = p, !.fresh = NewSession]
    <2>1. Start(r, q) /\ NewSession \in SessionIds /\ rotated[NewSession] = None
        BY <1>1, <1>5 DEF BeginRecover
    <2>2. /\ q \in RequestState /\ q.at = "find_credential" /\ q.op = "recover"
          /\ q.fresh = NewSession /\ q.issue = None
        BY ZenonT(60), <2>1 DEF Idle, RequestState, Places, Ops, NoRows
    <2> HIDE DEF q
    <2> QED
        BY <2>1, <2>2, StartKnows DEF Issuing
<1>6. ASSUME NEW s \in SessionIds, BeginRefresh(r, s)
      PROVE  Statement(r) /\ Knows(r)'
    <2> DEFINE q == [Idle EXCEPT !.at = "find_session", !.op = "refresh", !.token = s,
                                 !.fresh = NewSession]
    <2>1. /\ Start(r, q) /\ NewSession \in SessionIds /\ rotated[NewSession] = None
          /\ rotated[s] # None
        BY <1>1, <1>2, <1>6 DEF BeginRefresh
    <2>2. /\ q \in RequestState /\ q.at = "find_session" /\ q.op = "refresh"
          /\ q.token = s /\ q.fresh = NewSession /\ q.issue = None
        BY ZenonT(60), <2>1 DEF Idle, RequestState, Places, Ops, NoRows
    <2> HIDE DEF q
    <2> QED
        BY <2>1, <2>2, StartKnows DEF Issuing
<1>7. ASSUME NEW s \in SessionIds, BeginLogout(r, s)
      PROVE  Statement(r) /\ Knows(r)'
    <2> DEFINE q == [Idle EXCEPT !.at = "find_session", !.op = "logout", !.token = s]
    <2>1. Start(r, q)
        BY <1>7 DEF BeginLogout
    <2>2. /\ q \in RequestState /\ q.at = "find_session" /\ q.op = "logout"
          /\ q.fresh = None /\ q.issue = None
        BY DEF Idle, RequestState, Places, Ops, NoRows
    <2> HIDE DEF q
    <2> QED
        BY <2>1, <2>2, StartKnows DEF Issuing
<1>8. ASSUME NEW s \in SessionIds, NEW op \in {"logout_all", "delete", "undo"},
             BeginAsMember(r, op, s)
      PROVE  Statement(r) /\ Knows(r)'
    <2> DEFINE q == [Idle EXCEPT !.at = "resolve", !.op = op, !.token = s]
    <2>1. Start(r, q)
        BY <1>8 DEF BeginAsMember
    <2>2. /\ q \in RequestState /\ q.at = "resolve" /\ q.op = op
          /\ q.fresh = None /\ q.issue = None
        BY DEF Idle, RequestState, Places, Ops, NoRows
    <2> HIDE DEF q
    <2> QED
        BY <2>1, <2>2, StartKnows DEF Issuing
<1> QED
    BY <1>3, <1>4, <1>5, <1>6, <1>7, <1>8 DEF Begin

LEMMA ReadKnows ==
    ASSUME Inv, Access, NEW r \in Requests, Read(r)
    PROVE  Statement(r) /\ Knows(r)'
  BY ResolveKnows, FindCredentialKnows, FindSessionKnows, ListSessionsKnows,
     FindRecoveryKnows, FindScheduledKnows, FindDeletionKnows DEF Read

LEMMA ChangeKnows ==
    ASSUME Inv, Access, NEW r \in Requests, Change(r)
    PROVE  Statement(r) /\ Knows(r)'
  BY InsertSessionKnows, WriteSessionKnows, SetPasswordKnows, AsideKnows, CarriedKnows,
     DeleteCredentialKnows, DeleteSessionsKnows DEF Change

LEMMA StillAccess ==
    ASSUME Access, UNCHANGED <<users, credentials, sessions, req, rotated, excused>>
    PROVE  Access'
<1>1. ASSUME NEW q \in Requests
      PROVE  Knows(q)'
    <2>1. Knows(q)
        BY DEF Access
    <2>2. \A a : Known(q, a)' = Known(q, a) /\ Retired(q, a)' = Retired(q, a)
        BY DEF Known, Retired
    <2>3. \A s : Ended(q, s)' = Ended(q, s) /\ Swept(q, s)' = Swept(q, s)
        BY DEF Ended, Swept
    <2>4. TokenOK(q)'
        BY <2>1 DEF Knows, TokenOK
    <2>5. WritesOK(q)'
        BY <2>1 DEF Knows, WritesOK
    <2>6. RefreshOK(q)'
        BY <2>1, <2>3 DEF Knows, RefreshOK, Holding, Inserted
    <2>7. PasswordOK(q)'
        BY <2>1, <2>2 DEF Knows, PasswordOK
    <2>8. IssueOK(q)'
        BY <2>1, <2>2 DEF Knows, IssueOK, Unexcused, Current, Inserted
    <2>9. SweepOK(q)'
        BY <2>1, <2>3 DEF Knows, SweepOK, Sweeping
    <2>10. ClosingOK(q)'
        BY <2>1, <2>2 DEF Knows, ClosingOK
    <2> QED
        BY <2>4, <2>5, <2>6, <2>7, <2>8, <2>9, <2>10 DEF Knows
<1>2. RotationsOK' /\ GoneOK'
    BY DEF Access, RotationsOK, GoneOK
<1>3. SingleUse' /\ RecoverySignsOut'
    BY DEF Access, SingleUse, RecoverySignsOut, IsLive, Session, Password, Stored
<1> QED
    BY <1>1, <1>2, <1>3 DEF Access

LEMMA NextAccess == Inv /\ Inv' /\ Access /\ [Next]_vars => Access'
<1> SUFFICES ASSUME Inv, Inv', Access, [Next]_vars PROVE Access'
    OBVIOUS
<1>1. ASSUME NEW r \in Requests, Begin(r) \/ Read(r) \/ Change(r)
      PROVE  Access'
    BY <1>1, BeginKnows, ReadKnows, ChangeKnows, StatementKeeps
<1>2. ASSUME NEW r \in Requests, CommitRequest(r) \/ Throw(r) \/ Crash(r)
      PROVE  Access'
    BY <1>2, EndKeeps DEF CommitRequest, Throw, Crash, Ending, At
<1>3. CASE Tick \/ UNCHANGED vars
    BY <1>3, StillAccess DEF Tick, vars, tables, history
<1> QED
    BY <1>1, <1>2, <1>3 DEF Next

LEMMA InitAccess == Init => Access
<1> SUFFICES ASSUME Init PROVE Access
    OBVIOUS
<1> DEFINE i == Idle
<1>1. i.at = "idle" /\ i.op = "logout" /\ i.fresh = None /\ i.issue = None
    BY DEF Idle
<1> HIDE DEF i
<1>2. /\ \A r \in Requests : req[r] = i
      /\ \A a \in Accounts : users[a] = Settled("active")
      /\ \A a \in Accounts : credentials[a] \in {Settled(p) : p \in Passwords}
      /\ \A s \in SessionIds : sessions[s] = Settled(None) /\ rotated[s] = None
    BY DEF Init, i
<1>3. /\ \A a \in Accounts : users[a].by = None /\ users[a].row = "active"
      /\ \A a \in Accounts : credentials[a].by = None /\ credentials[a].row # None
      /\ \A s \in SessionIds : sessions[s].by = None /\ sessions[s].row = None
    BY <1>2, AccessNullAssumption DEF Settled
<1>4. ASSUME NEW q \in Requests
      PROVE  Knows(q)
    <2>1. q # None /\ req[q] = i
        BY <1>2, AccessNullAssumption
    <2>2. TokenOK(q) /\ WritesOK(q) /\ RefreshOK(q) /\ PasswordOK(q)
        BY <1>1, <1>3, <2>1 DEF TokenOK, Issuing, WritesOK, RefreshOK, PasswordOK
    <2>3. IssueOK(q) /\ SweepOK(q) /\ ClosingOK(q)
        BY <1>1, <1>3, <2>1 DEF IssueOK, Inserted, Issuing, SweepOK, ClosingOK, Closing
    <2> QED
        BY <2>2, <2>3 DEF Knows
<1>5. RotationsOK /\ GoneOK
    BY <1>2, <1>3 DEF RotationsOK, GoneOK
<1>6. \A s \in SessionIds : ~IsLive(s)
    <2>1. \A s \in SessionIds : Session[s] = None
        BY DEF Init, Session, Stored, Settled
    <2> QED
        BY <2>1 DEF IsLive
<1>7. SingleUse /\ RecoverySignsOut
    BY <1>2, <1>6 DEF SingleUse, RecoverySignsOut
<1> QED
    BY <1>4, <1>5, <1>7 DEF Access

LEMMA AccessInvariance == Spec => []Access
<1>1. Init => Inv /\ Access
    BY InitInv, InitAccess
<1>2. Inv /\ Access /\ [Next]_vars => (Inv /\ Access)'
    BY NextInv, NextAccess
<1> QED
    BY <1>1, <1>2, PTL DEF Spec

(* A refreshed session is dead once its refresh has committed, and two       *)
(* sessions refreshed from the same one were refreshed by requests in flight *)
(* together: a refresh that comes after reads a row that is no longer live.  *)
THEOREM TokensAreUsedOnce == Spec => []SingleUse
<1>1. Access => SingleUse
    BY DEF Access
<1> QED
    BY <1>1, AccessInvariance, PTL

(* Every live session that no crossing excuses was opened with the password  *)
(* its account has now.  The handler that replaces it lists the sessions     *)
(* after its write and revokes each one it finds; a session it could not     *)
(* find commits while it is in flight, and is excused.                       *)
THEOREM RecoveryAlwaysSignsOut == Spec => []RecoverySignsOut
<1>1. Access => RecoverySignsOut
    BY DEF Access
<1> QED
    BY <1>1, AccessInvariance, PTL

(* A deleted account has no password, so by the theorem above no session     *)
(* but an excused one: a live one would have been opened with no password.   *)
THEOREM DeletionRemovesAccess == Spec => []DeletedHasNoAccess
<1>1. ASSUME Inv, Access
      PROVE  DeletedHasNoAccess
    <2>1. SUFFICES ASSUME NEW a \in Accounts, UserState[a] = "deleted"
                   PROVE  /\ Password[a] = None
                          /\ \A s \in SessionIds : IsLive(s) /\ Session[s].owner = a =>
                                 s \in excused
        BY DEF DeletedHasNoAccess
    <2>2. Password[a] = None
        BY <1>1, <2>1, RowsRead DEF Access, GoneOK
    <2>3. ASSUME NEW s \in SessionIds, IsLive(s), Session[s].owner = a, s \notin excused
          PROVE  FALSE
        <3>1. Session[s].under = None
            BY <1>1, <2>2, <2>3 DEF Access, RecoverySignsOut
        <3>2. Session[s] \in SessionRow
            BY <1>1, <2>3, RowsRead, Typed DEF IsLive, Versions
        <3> QED
            BY <3>1, <3>2, AccessNullAssumption DEF SessionRow
    <2> QED
        BY <2>2, <2>3
<1> QED
    BY <1>1, Invariance, AccessInvariance, PTL
=============================================================================
