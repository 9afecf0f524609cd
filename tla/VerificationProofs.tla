------------------------- MODULE VerificationProofs -------------------------
(***************************************************************************)
(* Theorems about Verification, for any accounts, attempts and vendor      *)
(* sessions, any results, and any number of requests in flight at once:    *)
(* the types, that it implements IdentityLife, that what was sent to the   *)
(* vendor is complete, and that an identity agrees with its attempt.       *)
(***************************************************************************)
EXTENDS Verification, TLAPS

-----------------------------------------------------------------------------
(* Tables and rules *)

LEMMA TableTypes ==
    ASSUME NEW K, NEW Rows, NEW r \in Requests, NEW table \in [K -> Versions(Rows, Requests)]
    PROVE  /\ Seen(table, r) \in [K -> Rows]
           /\ \A k \in K, row \in Rows : Put(table, k, r, row) \in [K -> Versions(Rows, Requests)]
           /\ Commit(table, r) \in [K -> Versions(Rows, Requests)]
           /\ Rollback(table, r) \in [K -> Versions(Rows, Requests)]
  BY DEF Seen, Put, Commit, Rollback, Settled, Versions

LEMMA OutcomeType ==
    ASSUME NEW result, NEW anomaly
    PROVE  DecideVerificationOutcome(result, anomaly) \in {"pass", "fail", "manual_review"}
  BY DEF DecideVerificationOutcome

LEMMA MovesType ==
    ASSUME NEW event \in IdentityEvents
    PROVE  IdentityMoves[event].to \in IdentityStates
  BY DEF IdentityEvents, IdentityMoves, IdentityMove, IdentityStates

LEMMA AttemptMovesType ==
    ASSUME NEW event \in DOMAIN AttemptMoves
    PROVE  AttemptMoves[event].to \in AttemptStates
  BY DEF AttemptMoves, IdentityMove, AttemptStates, LiveAttempt, TerminalAttempt

(* What a decision of the provider asks of the two machines.                 *)
LEMMA EventsOf ==
    ASSUME NEW decision \in {"pass", "fail", "manual_review"}
    PROVE  /\ decision \in Decisions
           /\ AttemptEventOf[decision] \in DOMAIN AttemptMoves
           /\ IdentityEventOf[decision] \in IdentityEvents
  BY DEF Decisions, AttemptEventOf, AttemptMoves, IdentityEventOf, IdentityEvents,
     IdentityMoves

-----------------------------------------------------------------------------
(* The invariant *)

(* One move of the machine, from one generation to the next.                 *)
LegalMove(from, to) ==
    \E event \in IdentityEvents :
        from \in IdentityMoves[event].from /\ to = IdentityMoves[event].to
Legal(row, next) ==
    LegalMove(row.state, next.state) /\ next.generation = row.generation + 1

Holding == {"insert_attempt", "write_attempt", "reply"}
Deciding == {"find_open", "fetch_result", "write_identity"}

(* What a handler's local values are at its place.                           *)
HandlerOK(r) ==
    LET q == req[r] IN
    /\ q.at # "idle" => q.account \in Accounts /\ q.id \in AttemptIds
    /\ q.at \in Deciding => q.was \in IdentityRow
    /\ q.at = "find_identity" /\ q.op # "start" => q.read \in AttemptRow
    /\ q.at = "fetch_result" => q.read \in AttemptRow
    /\ q.at \in {"start_session", "write_identity", "insert_attempt", "write_attempt"} =>
           q.becomes \in AttemptRow
    /\ q.at = "write_identity" => LegalMove(q.was.state, q.to)

(* A row that has the generation a handler read is the row it read.          *)
WasOK(r) ==
    req[r].at \in Deciding =>
        LET row == identity[req[r].account].row IN
        /\ req[r].was.generation <= row.generation
        /\ req[r].was.generation = row.generation => req[r].was.state = row.state

(* A request writes the identity of its own account alone, by a legal move.  *)
HoldsOK(r) ==
    \A u \in Accounts : identity[u].by = r =>
        /\ req[r].account = u /\ req[r].at \in Holding
        /\ Legal(identity[u].row, identity[u].next)

Known(r) == HandlerOK(r) /\ WasOK(r) /\ HoldsOK(r)

Inv == TypeOK /\ \A r \in Requests : Known(r)

-----------------------------------------------------------------------------
(* What one request's step leaves to the others *)

OnlyRequest(r) ==
    /\ req' \in [Requests -> RequestState]
    /\ \A q \in Requests \ {r} : req'[q] = req[q]

(* Generations only rise, and a row held by another request stays as it is.  *)
IdentityStep(r) ==
    /\ identity' \in [Accounts -> Versions(IdentityRow, Requests)]
    /\ \A u \in Accounts :
          /\ identity'[u].row = identity[u].row
             \/ identity'[u].row.generation > identity[u].row.generation
          /\ \A q \in Requests \ {r} :
                identity'[u].by = q => identity'[u] = identity[u]

LEMMA OthersKnow ==
    ASSUME Inv, NEW r \in Requests, OnlyRequest(r), IdentityStep(r),
           NEW q \in Requests \ {r}
    PROVE  Known(q)'
<1>1. req'[q] = req[q] /\ Known(q) /\ req[q] \in RequestState
    BY DEF Inv, TypeOK, OnlyRequest
<1>2. HandlerOK(q)'
    BY <1>1 DEF Known, HandlerOK
<1>3. WasOK(q)'
    <2>1. SUFFICES ASSUME req[q].at \in Deciding
                   PROVE  LET row == identity'[req[q].account].row IN
                          /\ req[q].was.generation <= row.generation
                          /\ req[q].was.generation = row.generation =>
                                 req[q].was.state = row.state
        BY <1>1 DEF WasOK
    <2>2. req[q].account \in Accounts /\ req[q].was \in IdentityRow
        BY <1>1, <2>1 DEF Known, HandlerOK, Deciding
    <2> DEFINE u == req[q].account
    <2>3. /\ req[q].was.generation <= identity[u].row.generation
          /\ req[q].was.generation = identity[u].row.generation =>
                 req[q].was.state = identity[u].row.state
        BY <1>1, <2>1 DEF Known, WasOK
    <2>4. /\ req[q].was.generation \in Nat
          /\ identity[u].row.generation \in Nat /\ identity'[u].row.generation \in Nat
        BY <2>2 DEF Inv, TypeOK, IdentityStep, Versions, IdentityRow
    <2>5. identity'[u].row = identity[u].row
          \/ identity'[u].row.generation > identity[u].row.generation
        BY <2>2 DEF IdentityStep
    <2> QED
        BY <2>3, <2>4, <2>5
<1>4. HoldsOK(q)'
    BY <1>1 DEF Known, HoldsOK, IdentityStep
<1> QED
    BY <1>2, <1>3, <1>4 DEF Known

LEMMA SameIdentity ==
    ASSUME Inv, NEW r \in Requests, UNCHANGED identity
    PROVE  IdentityStep(r)
  BY DEF Inv, TypeOK, IdentityStep

LEMMA RequestType ==
    ASSUME Inv, NEW r \in Requests
    PROVE  req \in [Requests -> RequestState] /\ req[r] \in RequestState /\ Known(r)
  BY DEF Inv, TypeOK

LEMMA Moved ==
    ASSUME Inv, NEW r \in Requests, NEW q \in RequestState, req' = [req EXCEPT ![r] = q]
    PROVE  OnlyRequest(r) /\ req'[r] = q
  BY RequestType DEF OnlyRequest

LEMMA IdleType == Idle \in RequestState /\ Idle.at = "idle"
  BY DEF Idle, RequestState, Ops, Places, IdentityStates

(* The rest of the types: what is neither the identity nor a request.        *)
OtherTypes ==
    /\ attempts \in [AttemptIds -> Versions(AttemptRow \cup {None}, Requests)]
    /\ provider \in [SessionIds -> [attempt : AttemptIds \cup {None},
                                    result : Results \cup {None}]]
    /\ opened \in [Accounts -> Seq(AttemptIds)]
    /\ overtaken \subseteq AttemptIds

LEMMA StepKeepsInv ==
    ASSUME Inv, NEW r \in Requests, OnlyRequest(r), IdentityStep(r), OtherTypes', Known(r)'
    PROVE  Inv'
<1>1. TypeOK'
    BY DEF TypeOK, OnlyRequest, IdentityStep, OtherTypes
<1> QED
    BY <1>1, OthersKnow DEF Inv

LEMMA SameOthers ==
    ASSUME Inv, UNCHANGED <<attempts, provider, opened, overtaken>>
    PROVE  OtherTypes'
  BY DEF Inv, TypeOK, OtherTypes

(* A handler that does not hold the identity and does not write it, holds    *)
(* nothing of it still.                                                      *)
LEMMA HoldsNothing ==
    ASSUME Inv, NEW r \in Requests, req[r].at \notin Holding, UNCHANGED identity
    PROVE  HoldsOK(r)'
<1>1. \A u \in Accounts : identity[u].by # r
    BY RequestType DEF Known, HoldsOK
<1> QED
    BY <1>1 DEF HoldsOK

(* The reply of a handler: what it holds, it still holds.                    *)
LEMMA ReplyStep ==
    ASSUME Inv, NEW r \in Requests, req[r].at # "idle", Reply(r)
    PROVE  /\ OnlyRequest(r) /\ HandlerOK(r)' /\ WasOK(r)'
           /\ req'[r].at = "reply" /\ req'[r].account = req[r].account
<1> DEFINE q == [Idle EXCEPT !.at = "reply", !.op = req[r].op, !.account = req[r].account,
                             !.id = req[r].id]
<1>1. req[r] \in RequestState /\ req[r].account \in Accounts /\ req[r].id \in AttemptIds
    BY RequestType DEF Known, HandlerOK
<1>2. q \in RequestState
    <2>1. "reply" \in Places
        BY DEF Places
    <2> QED
        BY <1>1, <2>1, IdleType DEF RequestState
<1>3. q.at = "reply" /\ q.account = req[r].account /\ q.id = req[r].id
    BY IdleType DEF RequestState
<1>4. req' = [req EXCEPT ![r] = q]
    BY DEF Reply
<1> HIDE DEF q
<1>5. OnlyRequest(r) /\ req'[r] = q
    BY <1>2, <1>4, Moved
<1> QED
    BY <1>1, <1>3, <1>5 DEF HandlerOK, WasOK, Deciding

(* A refusal before anything was written.                                    *)
LEMMA RefuseStep ==
    ASSUME Inv, NEW r \in Requests, req[r].at \notin Holding \cup {"idle"}, Reply(r),
           UNCHANGED identity, OtherTypes'
    PROVE  Inv'
<1>1. OnlyRequest(r) /\ HandlerOK(r)' /\ WasOK(r)'
    BY ReplyStep
<1>2. Known(r)'
    BY <1>1, HoldsNothing DEF Known
<1> QED
    BY <1>1, <1>2, SameIdentity, StepKeepsInv

-----------------------------------------------------------------------------
(* The steps of a request *)

LEMMA BeginStep ==
    ASSUME Inv, NEW r \in Requests, NEW q \in RequestState,
           q.at \in {"find_identity", "find_attempt"}, q.at = "find_identity" => q.op = "start",
           q.account \in Accounts, q.id \in AttemptIds, Begin(r, q)
    PROVE  Inv'
<1>1. /\ req' = [req EXCEPT ![r] = q] /\ req[r].at = "idle"
      /\ UNCHANGED <<identity, attempts, provider, opened, overtaken>>
    BY DEF Begin, At, tables
<1>2. OnlyRequest(r) /\ req'[r] = q
    BY <1>1, Moved
<1>3. HandlerOK(r)' /\ WasOK(r)'
    BY <1>2 DEF HandlerOK, WasOK, Deciding
<1>4. HoldsOK(r)'
    BY <1>1, HoldsNothing DEF Holding
<1>5. OtherTypes' /\ IdentityStep(r)
    BY <1>1, SameOthers, SameIdentity
<1> QED
    BY <1>2, <1>3, <1>4, <1>5, StepKeepsInv DEF Known

LEMMA AskStep ==
    ASSUME Inv, NEW r \in Requests, Ask(r)
    PROVE  Inv'
<1>1. {"find_identity", "find_attempt"} \subseteq Places
    BY DEF Places
<1>2. ASSUME NEW u \in Accounts, BeginStart(r, u)
      PROVE  Inv'
    <2> DEFINE a == CHOOSE x \in FreshAttempts : TRUE
               q == [Idle EXCEPT !.at = "find_identity", !.account = u, !.id = a]
    <2>1. a \in AttemptIds
        BY <1>2 DEF BeginStart, FreshAttempts
    <2>2. Begin(r, q)
        BY <1>2 DEF BeginStart
    <2> HIDE DEF a
    <2>3. q \in RequestState
        BY <1>1, <2>1, IdleType DEF RequestState
    <2>4. q.at = "find_identity" /\ q.op = "start" /\ q.account = u /\ q.id = a
        BY DEF Idle
    <2> HIDE DEF q
    <2> QED
        BY <2>1, <2>2, <2>3, <2>4, BeginStep
<1>3. ASSUME NEW u \in Accounts, NEW a \in AttemptIds,
             NEW op \in {"capture", "submit", "result"}, BeginOn(r, op, u, a)
      PROVE  Inv'
    <2> DEFINE q == [Idle EXCEPT !.at = "find_attempt", !.op = op, !.account = u, !.id = a]
    <2>1. op \in Ops
        BY DEF Ops
    <2>2. Begin(r, q)
        BY <1>3 DEF BeginOn
    <2>3. q \in RequestState
        BY <1>1, <2>1, IdleType DEF RequestState
    <2>4. q.at = "find_attempt" /\ q.account = u /\ q.id = a
        BY DEF Idle
    <2> HIDE DEF q
    <2> QED
        BY <2>2, <2>3, <2>4, BeginStep
<1> QED
    BY <1>2, <1>3 DEF Ask

LEMMA FindIdentityStep ==
    ASSUME Inv, NEW r \in Requests, FindIdentity(r)
    PROVE  Inv'
<1> DEFINE was == Seen(identity, r)[req[r].account]
           place == IF req[r].op = "start" THEN "find_open" ELSE "fetch_result"
           q == [req[r] EXCEPT !.was = was, !.at = place]
<1>1. /\ req[r] \in RequestState /\ Known(r) /\ req[r].at = "find_identity"
      /\ req[r].account \in Accounts /\ req[r].id \in AttemptIds
      /\ req[r].op # "start" => req[r].read \in AttemptRow
    BY RequestType DEF FindIdentity, At, Known, HandlerOK
<1>2. UNCHANGED <<identity, attempts, provider, opened, overtaken>>
    BY DEF FindIdentity, tables
<1>3. was = identity[req[r].account].row /\ was \in IdentityRow
    <2>1. identity \in [Accounts -> Versions(IdentityRow, Requests)]
        BY DEF Inv, TypeOK
    <2>2. identity[req[r].account].by # r
        BY <1>1 DEF Known, HoldsOK, Holding
    <2> QED
        BY <1>1, <2>1, <2>2 DEF Seen, Versions
<1>4. place \in {"find_open", "fetch_result"} /\ (place = "fetch_result" => req[r].op # "start")
    OBVIOUS
<1>5. place \in Places
    BY DEF Places
<1> HIDE DEF was, place
<1>6. q \in RequestState
    BY <1>1, <1>3, <1>5 DEF RequestState
<1>7. /\ q.at = place /\ q.was = was /\ q.account = req[r].account /\ q.id = req[r].id
      /\ q.read = req[r].read /\ q.op = req[r].op
    BY <1>1 DEF RequestState
<1>8. req' = [req EXCEPT ![r] = q]
    BY <1>1, RequestType DEF FindIdentity, RequestState, was, place
<1> HIDE DEF q
<1>9. OnlyRequest(r) /\ req'[r] = q
    BY <1>6, <1>8, Moved
<1>10. HandlerOK(r)'
    BY <1>1, <1>3, <1>4, <1>7, <1>9 DEF HandlerOK, Deciding
<1>11. WasOK(r)'
    <2>1. was.generation \in Nat
        BY <1>3 DEF IdentityRow
    <2> QED
        BY <1>2, <1>3, <1>7, <1>9, <2>1 DEF WasOK
<1>12. HoldsOK(r)'
    BY <1>1, <1>2, HoldsNothing DEF Holding
<1>13. OtherTypes' /\ IdentityStep(r)
    BY <1>2, SameOthers, SameIdentity
<1> QED
    BY <1>9, <1>10, <1>11, <1>12, <1>13, StepKeepsInv DEF Known

LEMMA FindOpenStep ==
    ASSUME Inv, NEW r \in Requests, FindOpen(r)
    PROVE  Inv'
<1>1. /\ req[r] \in RequestState /\ Known(r) /\ req[r].at = "find_open"
      /\ req[r].account \in Accounts /\ req[r].id \in AttemptIds /\ req[r].was \in IdentityRow
    BY RequestType DEF FindOpen, At, Known, HandlerOK, Deciding
<1>2. UNCHANGED <<identity, attempts, provider, opened, overtaken>>
    BY DEF FindOpen, tables
<1>3. CASE Reply(r)
    BY <1>1, <1>2, <1>3, RefuseStep, SameOthers DEF Holding
<1>4. CASE ~Reply(r)
    <2> DEFINE event == "submit_verification"
               to == IdentityMoves[event].to
               becomes == Planned(req[r].account)
               q == [req[r] EXCEPT !.to = to, !.becomes = becomes, !.at = "write_identity"]
    <2>1. /\ MayMoveIdentity(req[r].was.state, event, 0, FALSE)
          /\ req' = [req EXCEPT ![r].to = to, ![r].becomes = becomes, ![r].at = "write_identity"]
        BY <1>4 DEF FindOpen
    <2>2. event \in IdentityEvents
        BY DEF IdentityEvents, IdentityMoves
    <2>3. LegalMove(req[r].was.state, to)
        BY <2>1, <2>2 DEF LegalMove, MayMoveIdentity
    <2>4. to \in IdentityStates
        BY <2>2, MovesType
    <2>5. becomes \in AttemptRow
        <3>1. AttemptMoves["begin_capture"].to \in AttemptStates
            BY AttemptMovesType DEF AttemptMoves
        <3> QED
            BY <1>1, <3>1 DEF Planned, AttemptRow
    <2>6. "write_identity" \in Places
        BY DEF Places
    <2> HIDE DEF event, to, becomes
    <2>7. q \in RequestState
        BY <1>1, <2>4, <2>5, <2>6 DEF RequestState
    <2>8. /\ q.at = "write_identity" /\ q.was = req[r].was /\ q.account = req[r].account
          /\ q.id = req[r].id /\ q.to = to /\ q.becomes = becomes
        BY <1>1 DEF RequestState
    <2>9. req' = [req EXCEPT ![r] = q]
        BY <1>1, <2>1, RequestType DEF RequestState
    <2> HIDE DEF q
    <2>10. OnlyRequest(r) /\ req'[r] = q
        BY <2>7, <2>9, Moved
    <2>11. HandlerOK(r)'
        BY <1>1, <2>3, <2>5, <2>8, <2>10 DEF HandlerOK, Deciding
    <2>12. WasOK(r)'
        BY <1>1, <1>2, <2>8, <2>10 DEF Known, WasOK, Deciding
    <2>13. HoldsOK(r)'
        BY <1>1, <1>2, HoldsNothing DEF Holding
    <2>14. OtherTypes' /\ IdentityStep(r)
        BY <1>2, SameOthers, SameIdentity
    <2> QED
        BY <2>10, <2>11, <2>12, <2>13, <2>14, StepKeepsInv DEF Known
<1> QED
    BY <1>3, <1>4

(* A request that only goes on with an attempt: everything but its place and *)
(* the row it read and will write stays.                                     *)
LEMMA WorkStep ==
    ASSUME Inv, NEW r \in Requests, req[r].at \notin Holding \cup {"idle"},
           NEW q \in RequestState, req' = [req EXCEPT ![r] = q],
           q.account = req[r].account, q.id = req[r].id,
           q.at \in {"find_identity", "start_session", "write_attempt"},
           q.at = "find_identity" => q.read \in AttemptRow,
           q.at # "find_identity" => q.becomes \in AttemptRow,
           UNCHANGED identity, OtherTypes'
    PROVE  Inv'
<1>1. req[r].account \in Accounts /\ req[r].id \in AttemptIds
    BY RequestType DEF Known, HandlerOK
<1>2. OnlyRequest(r) /\ req'[r] = q
    BY Moved
<1>3. HandlerOK(r)' /\ WasOK(r)'
    BY <1>1, <1>2 DEF HandlerOK, WasOK, Deciding
<1>4. HoldsOK(r)'
    BY HoldsNothing
<1> QED
    BY <1>2, <1>3, <1>4, SameIdentity, StepKeepsInv DEF Known

LEMMA FindAttemptStep ==
    ASSUME Inv, NEW r \in Requests, FindAttempt(r)
    PROVE  Inv'
<1> DEFINE row == Seen(attempts, r)[req[r].id]
<1>1. /\ req[r] \in RequestState /\ Known(r) /\ req[r].at = "find_attempt"
      /\ req[r].account \in Accounts /\ req[r].id \in AttemptIds
    BY RequestType DEF FindAttempt, At, Known, HandlerOK
<1>2. UNCHANGED <<identity, attempts, provider, opened, overtaken>> /\ OtherTypes'
    BY SameOthers DEF FindAttempt, tables
<1>3. row \in AttemptRow \cup {None}
    <2>1. Seen(attempts, r) \in [AttemptIds -> AttemptRow \cup {None}]
        BY TableTypes DEF Inv, TypeOK
    <2> QED
        BY <1>1, <2>1
<1>4. {"find_identity", "start_session", "write_attempt"} \subseteq Places
    BY DEF Places
<1> DEFINE Take(becomes, place) ==
        req' = [req EXCEPT ![r].read = row, ![r].becomes = becomes, ![r].at = place]
<1>5. ASSUME row # None, NEW place \in {"find_identity", "start_session", "write_attempt"},
             NEW becomes \in AttemptRow \cup {None},
             place # "find_identity" => becomes \in AttemptRow, Take(becomes, place)
      PROVE  Inv'
    <2> DEFINE q == [req[r] EXCEPT !.read = row, !.becomes = becomes, !.at = place]
    <2>1. row \in AttemptRow
        BY <1>3, <1>5
    <2>2. req' = [req EXCEPT ![r] = q]
        BY <1>1, <1>5, RequestType DEF RequestState
    <2> HIDE DEF row
    <2>3. q \in RequestState
        BY <1>1, <1>4, <2>1 DEF RequestState
    <2>4. /\ q.at = place /\ q.account = req[r].account /\ q.id = req[r].id
          /\ q.read = row /\ q.becomes = becomes
        BY <1>1 DEF RequestState
    <2> HIDE DEF q
    <2> QED
        BY <1>1, <1>2, <1>5, <2>1, <2>2, <2>3, <2>4, WorkStep DEF Holding
<1>6. CASE Reply(r)
    BY <1>1, <1>2, <1>6, RefuseStep DEF Holding
<1>7. ASSUME row # None, NEW check \in REQUIRED_CHECKS,
             Take(Captured(row, check), "write_attempt")
      PROVE  Inv'
    <2>1. row \in AttemptRow
        BY <1>3, <1>7
    <2>2. AttemptMoves["record_capture"].to \in AttemptStates
        BY AttemptMovesType DEF AttemptMoves
    <2>3. Captured(row, check) \in AttemptRow
        <3> HIDE DEF row
        <3> QED
            BY <2>1, <2>2 DEF Captured, AttemptRow
    <2> QED
        BY <1>5, <1>7, <2>3
<1>8. ASSUME row # None,
             Take([row EXCEPT !.state = AttemptMoves["submit_to_provider"].to],
                  "start_session")
      PROVE  Inv'
    <2>1. row \in AttemptRow
        BY <1>3, <1>8
    <2>2. AttemptMoves["submit_to_provider"].to \in AttemptStates
        BY AttemptMovesType DEF AttemptMoves
    <2>3. [row EXCEPT !.state = AttemptMoves["submit_to_provider"].to] \in AttemptRow
        <3> HIDE DEF row
        <3> QED
            BY <2>1, <2>2 DEF AttemptRow
    <2> QED
        BY <1>5, <1>8, <2>3
<1>9. ASSUME row # None, Take(None, "find_identity")
      PROVE  Inv'
    BY <1>5, <1>9
<1> QED
    BY <1>6, <1>7, <1>8, <1>9 DEF FindAttempt

LEMMA StartSessionStep ==
    ASSUME Inv, NEW r \in Requests, StartSession(r)
    PROVE  Inv'
<1>1. /\ req[r] \in RequestState /\ Known(r) /\ req[r].at = "start_session"
      /\ req[r].id \in AttemptIds /\ req[r].becomes \in AttemptRow
    BY RequestType DEF StartSession, At, Known, HandlerOK
<1>2. UNCHANGED <<identity, attempts, opened, overtaken>>
    BY DEF StartSession, tables
<1>3. CASE Reply(r) /\ UNCHANGED provider
    BY <1>1, <1>2, <1>3, RefuseStep, SameOthers DEF Holding
<1>4. CASE /\ FreshSessions # {}
           /\ provider' = [provider EXCEPT ![NewSession].attempt = req[r].id]
           /\ req' = [req EXCEPT ![r].becomes.reference = NewSession,
                                 ![r].becomes.session = NewSession, ![r].at = "write_attempt"]
    <2> DEFINE becomes == [req[r].becomes EXCEPT !.reference = NewSession,
                                                !.session = NewSession]
               q == [req[r] EXCEPT !.becomes = becomes, !.at = "write_attempt"]
    <2>1. NewSession \in SessionIds
        BY <1>4 DEF NewSession, FreshSessions
    <2>2. OtherTypes'
        BY <1>1, <1>2, <1>4, <2>1 DEF Inv, TypeOK, OtherTypes
    <2>3. becomes \in AttemptRow
        BY <1>1, <2>1 DEF AttemptRow
    <2>4. req' = [req EXCEPT ![r] = q]
        BY <1>1, <1>4, RequestType DEF RequestState
    <2>5. "write_attempt" \in Places
        BY DEF Places
    <2> HIDE DEF becomes
    <2>6. q \in RequestState
        BY <1>1, <2>3, <2>5 DEF RequestState
    <2>7. /\ q.at = "write_attempt" /\ q.account = req[r].account /\ q.id = req[r].id
          /\ q.becomes = becomes
        BY <1>1 DEF RequestState
    <2> HIDE DEF q
    <2> QED
        BY <1>1, <1>2, <2>2, <2>3, <2>4, <2>6, <2>7, WorkStep DEF Holding
<1> QED
    BY <1>3, <1>4 DEF StartSession

(* The move a provider's result decides is one of the machine's.             *)
LEMMA FetchResultStep ==
    ASSUME Inv, NEW r \in Requests, FetchResult(r)
    PROVE  Inv'
<1>1. /\ req[r] \in RequestState /\ Known(r) /\ req[r].at = "fetch_result"
      /\ req[r].account \in Accounts /\ req[r].id \in AttemptIds
      /\ req[r].read \in AttemptRow /\ req[r].was \in IdentityRow
    BY RequestType DEF FetchResult, At, Known, HandlerOK, Deciding
<1>2. UNCHANGED <<identity, attempts, opened, overtaken>>
    BY DEF FetchResult, tables
<1>3. CASE Reply(r) /\ UNCHANGED provider
    BY <1>1, <1>2, <1>3, RefuseStep, SameOthers DEF Holding
<1>4. ASSUME NEW result \in Results, OtherTypes', Complete(r, result)
      PROVE  Inv'
    <2> DEFINE decision == DecideVerificationOutcome(result, "none")
               event == EventFor(result, req[r].read)
               to == IdentityMoves[event].to
               state == AttemptMoves[AttemptEventOf[decision]].to
               becomes == Completed(req[r].read, result)
               q == [req[r] EXCEPT !.to = to, !.becomes = becomes, !.at = "write_identity"]
    <2>3. OtherTypes'
        BY <1>4
    <2>4. decision \in {"pass", "fail", "manual_review"}
        BY OutcomeType
    <2>5. event \in IdentityEvents
        <3>1. IdentityEventOf[decision] \in IdentityEvents
            BY <2>4, EventsOf
        <3>2. "flag_for_review" \in IdentityEvents
            BY DEF IdentityEvents, IdentityMoves
        <3> QED
            BY <3>1, <3>2 DEF EventFor
    <2>6. decision \in Decisions /\ state \in AttemptStates
        BY <2>4, EventsOf, AttemptMovesType
    <2>7. to \in IdentityStates
        BY <2>5, MovesType
    <2>8. CASE Reply(r)
        BY <1>1, <1>2, <2>3, <2>8, RefuseStep DEF Holding
    <2>9. CASE ~Reply(r)
        <3>1. /\ MayMoveIdentity(req[r].was.state, event, ConfidenceOf(result), FALSE)
              /\ req' = [req EXCEPT ![r].to = to, ![r].becomes = becomes,
                                    ![r].at = "write_identity"]
            BY <1>4, <2>9 DEF Complete
        <3>2. LegalMove(req[r].was.state, to)
            BY <2>5, <3>1 DEF LegalMove, MayMoveIdentity
        <3> HIDE DEF event, to
        <3>3. becomes \in AttemptRow
            <4>1. becomes = [req[r].read EXCEPT !.state = state, !.decision = decision,
                                               !.reference = result.reference]
                BY DEF Completed
            <4>2. result.reference \in References
                BY <1>4, ResultsAssumption
            <4> HIDE DEF becomes, state, decision
            <4> QED
                BY <1>1, <2>6, <4>1, <4>2 DEF AttemptRow
        <3> HIDE DEF decision, state
        <3>4. "write_identity" \in Places
            BY DEF Places
        <3>5. req' = [req EXCEPT ![r] = q]
            BY <1>1, <3>1, RequestType DEF RequestState
        <3> HIDE DEF becomes
        <3>6. q \in RequestState
            BY <1>1, <2>7, <3>3, <3>4 DEF RequestState
        <3>7. /\ q.at = "write_identity" /\ q.was = req[r].was /\ q.account = req[r].account
              /\ q.id = req[r].id /\ q.to = to /\ q.becomes = becomes
            BY <1>1 DEF RequestState
        <3> HIDE DEF q
        <3>8. OnlyRequest(r) /\ req'[r] = q
            BY <3>5, <3>6, Moved
        <3>9. HandlerOK(r)'
            BY <1>1, <3>2, <3>3, <3>7, <3>8 DEF HandlerOK, Deciding
        <3>10. WasOK(r)'
            BY <1>1, <1>2, <3>7, <3>8 DEF Known, WasOK, Deciding
        <3>11. HoldsOK(r)'
            BY <1>1, <1>2, HoldsNothing DEF Holding
        <3> QED
            BY <1>2, <2>3, <3>8, <3>9, <3>10, <3>11, SameIdentity, StepKeepsInv DEF Known
    <2> QED
        BY <2>8, <2>9
<1>5. ASSUME NEW s \in SessionIds,
             NEW result \in IF provider[s].result = None THEN Results
                            ELSE {provider[s].result},
             provider' = [provider EXCEPT ![s].result = result], Complete(r, result)
      PROVE  Inv'
    <2>1. result \in Results
        BY DEF Inv, TypeOK
    <2>2. OtherTypes'
        BY <1>2, <1>5, <2>1 DEF Inv, TypeOK, OtherTypes
    <2> QED
        BY <1>4, <1>5, <2>1, <2>2
<1>6. ASSUME NEW result \in Results, Complete(r, result), UNCHANGED provider
      PROVE  Inv'
    <2>1. OtherTypes'
        BY <1>2, <1>6 DEF Inv, TypeOK, OtherTypes
    <2> QED
        BY <1>4, <1>6, <2>1
<1> QED
    BY <1>3, <1>5, <1>6 DEF FetchResult

(* The compare-and-set: the row it finds is the one the move was planned on. *)
LEMMA WriteIdentityStep ==
    ASSUME Inv, NEW r \in Requests, WriteIdentity(r)
    PROVE  Inv'
<1> DEFINE u == req[r].account
           row == Seen(identity, r)[u]
           next == [state |-> req[r].to, generation |-> row.generation + 1,
                    latest |-> req[r].id]
           place == IF req[r].op = "start" THEN "insert_attempt" ELSE "write_attempt"
           q == [req[r] EXCEPT !.at = place]
<1>1. /\ req[r] \in RequestState /\ Known(r) /\ req[r].at = "write_identity"
      /\ u \in Accounts /\ req[r].id \in AttemptIds /\ req[r].becomes \in AttemptRow
      /\ req[r].was \in IdentityRow /\ LegalMove(req[r].was.state, req[r].to)
    BY RequestType DEF WriteIdentity, At, Known, HandlerOK, Deciding
<1>2. UNCHANGED <<attempts, provider, opened, overtaken>> /\ OtherTypes'
    BY SameOthers DEF WriteIdentity
<1>3. CASE Reply(r) /\ UNCHANGED identity
    BY <1>1, <1>2, <1>3, RefuseStep DEF Holding
<1>4. CASE /\ MayWrite(row, req[r].was)
           /\ identity' = Put(identity, u, r, next)
           /\ Goto(r, place)
    <2>1. identity \in [Accounts -> Versions(IdentityRow, Requests)]
        BY DEF Inv, TypeOK
    <2>2. \A x \in Accounts : identity[x].by # r
        BY <1>1 DEF Known, HoldsOK, Holding
    <2>3. row = identity[u].row /\ row \in IdentityRow /\ identity[u].by # r
        BY <1>1, <2>1, <2>2 DEF Seen, Versions
    <2>4. row.state = req[r].was.state
        BY <1>1, <1>4, <2>3 DEF MayWrite, Known, WasOK, Deciding
    <2>5. Legal(row, next)
        BY <1>1, <2>4 DEF Legal
    <2>6. next \in IdentityRow
        BY <1>1, <2>3 DEF IdentityRow, RequestState
    <2> HIDE DEF next
    <2>7. /\ identity' \in [Accounts -> Versions(IdentityRow, Requests)]
          /\ identity'[u] = [row |-> row, next |-> next, by |-> r]
          /\ \A x \in Accounts \ {u} : identity'[x] = identity[x]
        <3>1. identity' \in [Accounts -> Versions(IdentityRow, Requests)]
            BY <1>1, <1>4, <2>1, <2>6, TableTypes
        <3> HIDE DEF row
        <3> QED
            BY <1>1, <1>4, <2>1, <2>3, <3>1 DEF Put
    <2> HIDE DEF row
    <2>8. IdentityStep(r)
        <3>1. \A x \in Accounts : identity'[x].row = identity[x].row
            BY <2>3, <2>7
        <3>2. \A x \in Accounts, p \in Requests \ {r} :
                 identity'[x].by = p => identity'[x] = identity[x]
            BY <2>7
        <3> QED
            BY <2>7, <3>1, <3>2 DEF IdentityStep
    <2>9. place \in {"insert_attempt", "write_attempt"}
        OBVIOUS
    <2>10. {"insert_attempt", "write_attempt"} \subseteq Places
        BY DEF Places
    <2>11. req' = [req EXCEPT ![r] = q]
        BY <1>1, <1>4, RequestType DEF Goto, RequestState
    <2> HIDE DEF place
    <2>12. q \in RequestState
        BY <1>1, <2>9, <2>10 DEF RequestState
    <2>13. /\ q.at = place /\ q.account = u /\ q.id = req[r].id
           /\ q.becomes = req[r].becomes
        BY <1>1 DEF RequestState
    <2> HIDE DEF q, u
    <2>14. OnlyRequest(r) /\ req'[r] = q
        BY <2>11, <2>12, Moved
    <2>15. HandlerOK(r)' /\ WasOK(r)'
        BY <1>1, <2>9, <2>13, <2>14 DEF HandlerOK, WasOK, Deciding
    <2>16. HoldsOK(r)'
        <3>1. \A x \in Accounts : identity'[x].by = r => x = u
            BY <2>2, <2>7
        <3>2. Legal(identity'[u].row, identity'[u].next)
            BY <2>5, <2>7
        <3> QED
            BY <2>9, <2>13, <2>14, <3>1, <3>2 DEF HoldsOK, Holding
    <2> QED
        BY <1>2, <2>8, <2>14, <2>15, <2>16, StepKeepsInv DEF Known
<1> QED
    BY <1>3, <1>4 DEF WriteIdentity

(* The last write of a request: what it holds of the identity, it keeps.     *)
LEMMA LastWriteStep ==
    ASSUME Inv, NEW r \in Requests, req[r].at \in Holding, Reply(r), UNCHANGED identity,
           OtherTypes'
    PROVE  Inv'
<1>1. /\ OnlyRequest(r) /\ HandlerOK(r)' /\ WasOK(r)'
      /\ req'[r].at = "reply" /\ req'[r].account = req[r].account
    BY ReplyStep DEF Holding
<1>2. HoldsOK(r)'
    BY <1>1, RequestType DEF Known, HoldsOK, Holding
<1> QED
    BY <1>1, <1>2, SameIdentity, StepKeepsInv DEF Known

LEMMA InsertAttemptStep ==
    ASSUME Inv, NEW r \in Requests, InsertAttempt(r)
    PROVE  Inv'
<1>1. /\ req[r].at = "insert_attempt" /\ req[r].id \in AttemptIds
      /\ req[r].becomes \in AttemptRow
      /\ attempts \in [AttemptIds -> Versions(AttemptRow \cup {None}, Requests)]
    BY RequestType DEF InsertAttempt, At, Known, HandlerOK, Inv, TypeOK
<1>2. attempts' \in [AttemptIds -> Versions(AttemptRow \cup {None}, Requests)]
    BY <1>1, TableTypes DEF InsertAttempt
<1>3. OtherTypes'
    BY <1>2 DEF InsertAttempt, Inv, TypeOK, OtherTypes
<1> QED
    BY <1>1, <1>3, LastWriteStep DEF InsertAttempt, Holding

LEMMA WriteAttemptStep ==
    ASSUME Inv, NEW r \in Requests, WriteAttempt(r)
    PROVE  Inv'
<1>1. /\ req[r].at = "write_attempt" /\ req[r].id \in AttemptIds
      /\ req[r].becomes \in AttemptRow
      /\ attempts \in [AttemptIds -> Versions(AttemptRow \cup {None}, Requests)]
    BY RequestType DEF WriteAttempt, At, Known, HandlerOK, Inv, TypeOK
<1>2. Put(attempts, req[r].id, r, req[r].becomes)
        \in [AttemptIds -> Versions(AttemptRow \cup {None}, Requests)]
    BY <1>1, TableTypes
<1>3. /\ attempts' \in [AttemptIds -> Versions(AttemptRow \cup {None}, Requests)]
      /\ overtaken' \subseteq AttemptIds
    BY <1>1, <1>2 DEF WriteAttempt, Inv, TypeOK
<1>4. OtherTypes'
    BY <1>3 DEF WriteAttempt, Inv, TypeOK, OtherTypes
<1> QED
    BY <1>1, <1>4, LastWriteStep DEF WriteAttempt, Holding

(* What the end of a request leaves of its writes: the account it held has   *)
(* moved one generation on, or stayed, and nothing is held by it.            *)
LEMMA EndStep ==
    ASSUME Inv, NEW r \in Requests, req' = [req EXCEPT ![r] = Idle],
           identity' = Commit(identity, r) \/ identity' = Rollback(identity, r),
           OtherTypes'
    PROVE  Inv'
<1>1. identity \in [Accounts -> Versions(IdentityRow, Requests)] /\ HoldsOK(r)
    BY RequestType DEF Inv, TypeOK, Known
<1>2. OnlyRequest(r) /\ req'[r].at = "idle"
    BY IdleType, Moved
<1>3. HandlerOK(r)' /\ WasOK(r)'
    BY <1>2 DEF HandlerOK, WasOK, Deciding
<1>4. identity' \in [Accounts -> Versions(IdentityRow, Requests)]
    <2>1. /\ Commit(identity, r) \in [Accounts -> Versions(IdentityRow, Requests)]
          /\ Rollback(identity, r) \in [Accounts -> Versions(IdentityRow, Requests)]
        BY <1>1, TableTypes
    <2> QED
        BY <2>1
<1>5. ASSUME NEW u \in Accounts
      PROVE  /\ identity'[u].row = identity[u].row
                \/ identity'[u].row.generation > identity[u].row.generation
             /\ identity'[u] = identity[u] \/ identity'[u].by = None
             /\ identity'[u].by # r
    <2>1. CASE identity[u].by # r
        <3>1. identity'[u] = identity[u]
            BY <1>1, <2>1 DEF Commit, Rollback
        <3> QED
            BY <2>1, <3>1
    <2>2. CASE identity[u].by = r
        <3>1. /\ identity[u].next.generation = identity[u].row.generation + 1
              /\ identity[u].row.generation \in Nat
            BY <1>1, <2>2 DEF HoldsOK, Legal, Versions, IdentityRow
        <3>2. identity'[u] \in {Settled(identity[u].next), Settled(identity[u].row)}
            BY <1>1, <2>2 DEF Commit, Rollback
        <3>3. /\ identity'[u].row \in {identity[u].next, identity[u].row}
              /\ identity'[u].by = None
            BY <3>2 DEF Settled
        <3> QED
            BY <3>1, <3>3, NullAssumption
    <2> QED
        BY <2>1, <2>2
<1>6. IdentityStep(r)
    BY <1>4, <1>5, NullAssumption DEF IdentityStep
<1>7. HoldsOK(r)'
    BY <1>5 DEF HoldsOK
<1> QED
    BY <1>2, <1>3, <1>6, <1>7, StepKeepsInv DEF Known

LEMMA CommitStep ==
    ASSUME Inv, NEW r \in Requests, CommitRequest(r)
    PROVE  Inv'
<1>1. /\ attempts \in [AttemptIds -> Versions(AttemptRow \cup {None}, Requests)]
      /\ opened \in [Accounts -> Seq(AttemptIds)] /\ req[r].id \in AttemptIds
    BY RequestType DEF CommitRequest, At, Known, HandlerOK, Inv, TypeOK
<1>2. attempts' \in [AttemptIds -> Versions(AttemptRow \cup {None}, Requests)]
    BY <1>1, TableTypes DEF CommitRequest
<1>3. opened' \in [Accounts -> Seq(AttemptIds)]
    <2>1. \A u \in Accounts : Append(opened[u], req[r].id) \in Seq(AttemptIds)
        BY <1>1
    <2> QED
        BY <1>1, <2>1 DEF CommitRequest
<1>4. OtherTypes'
    BY <1>2, <1>3 DEF CommitRequest, Inv, TypeOK, OtherTypes
<1> QED
    BY <1>4, EndStep DEF CommitRequest

LEMMA AbortStep ==
    ASSUME Inv, NEW r \in Requests, Abort(r)
    PROVE  Inv'
<1>1. attempts \in [AttemptIds -> Versions(AttemptRow \cup {None}, Requests)]
    BY DEF Inv, TypeOK
<1>2. attempts' \in [AttemptIds -> Versions(AttemptRow \cup {None}, Requests)]
    BY <1>1, TableTypes DEF Abort
<1>3. OtherTypes'
    BY <1>2 DEF Abort, Inv, TypeOK, OtherTypes
<1> QED
    BY <1>3, EndStep DEF Abort

-----------------------------------------------------------------------------
(* The invariant holds *)

LEMMA InitInv == Init => Inv
<1> SUFFICES ASSUME Init PROVE Inv
    OBVIOUS
<1>1. identity \in [Accounts -> Versions(IdentityRow, Requests)]
      /\ \A u \in Accounts : identity[u].by = None
    <2>1. [state |-> "unverified", generation |-> 1, latest |-> None] \in IdentityRow
        BY DEF IdentityRow, IdentityStates
    <2> QED
        BY <2>1 DEF Init, Versions, Settled
<1>2. req = [r \in Requests |-> Idle] /\ req \in [Requests -> RequestState]
    BY IdleType DEF Init
<1>3. TypeOK
    BY <1>1, <1>2 DEF Init, TypeOK, Versions, Settled
<1>4. ASSUME NEW r \in Requests
      PROVE  Known(r)
    <2>1. req[r].at = "idle"
        BY <1>2, IdleType
    <2> QED
        BY <1>1, <2>1, NullAssumption DEF Known, HandlerOK, WasOK, HoldsOK, Deciding
<1> QED
    BY <1>3, <1>4 DEF Inv

LEMMA NextInv == Inv /\ [Next]_vars => Inv'
<1> SUFFICES ASSUME Inv, [Next]_vars PROVE Inv'
    OBVIOUS
<1>1. CASE UNCHANGED vars
    BY <1>1 DEF vars, tables, Inv, TypeOK, Known, HandlerOK, WasOK, HoldsOK
<1>2. ASSUME NEW r \in Requests, Ask(r) \/ Handle(r) \/ CommitRequest(r) \/ Abort(r)
      PROVE  Inv'
    BY <1>2, AskStep, FindIdentityStep, FindOpenStep, FindAttemptStep, StartSessionStep,
       FetchResultStep, WriteIdentityStep, InsertAttemptStep, WriteAttemptStep, CommitStep,
       AbortStep DEF Handle
<1> QED
    BY <1>1, <1>2 DEF Next

LEMMA Invariance == Spec => []Inv
  BY InitInv, NextInv, PTL DEF Spec

(* Every table, request and history keeps its type, for any accounts,        *)
(* attempts, sessions and requests.                                          *)
THEOREM VerificationTypeSafety == Spec => []TypeOK
<1>1. Inv => TypeOK
    BY DEF Inv
<1> QED
    BY <1>1, Invariance, PTL

-----------------------------------------------------------------------------
(* The refinement *)

StateOf == [u \in Accounts |-> Identity[u].state]
GenerationOf == [u \in Accounts |-> Identity[u].generation]

LEMMA LifeInit == Init => Life!Init
<1> SUFFICES ASSUME Init PROVE Life!Init
    OBVIOUS
<1>1. \A u \in Accounts : Identity[u] = [state |-> "unverified", generation |-> 1,
                                         latest |-> None]
    BY DEF Init, Identity, Stored, Settled
<1> QED
    BY <1>1 DEF Life!Init

(* Only a commit changes what is stored.                                     *)
LEMMA StoredKept ==
    ASSUME Inv, NEW r \in Requests, Ask(r) \/ Handle(r) \/ Abort(r)
    PROVE  Identity' = Identity
<1>1. /\ identity \in [Accounts -> Versions(IdentityRow, Requests)]
      /\ DOMAIN identity = Accounts
    BY DEF Inv, TypeOK
<1>2. CASE Abort(r)
    <2>1. DOMAIN identity' = Accounts /\ \A u \in Accounts : identity'[u].row = identity[u].row
        BY <1>1, <1>2 DEF Abort, Rollback, Settled
    <2> QED
        BY <1>1, <2>1 DEF Identity, Stored
<1>3. CASE WriteIdentity(r)
    <2>1. DOMAIN identity' = Accounts /\ \A u \in Accounts : identity'[u].row = identity[u].row
        BY <1>1, <1>3 DEF WriteIdentity, Put
    <2> QED
        BY <1>1, <2>1 DEF Identity, Stored
<1>4. CASE Ask(r) \/ (Handle(r) /\ ~WriteIdentity(r))
    <2>1. identity' = identity
        BY <1>4 DEF Ask, BeginStart, BeginOn, Begin, Handle, FindIdentity, FindOpen,
           FindAttempt, StartSession, FetchResult, InsertAttempt, WriteAttempt, tables
    <2> QED
        BY <2>1 DEF Identity, Stored
<1> QED
    BY <1>2, <1>3, <1>4

LEMMA CommitMoves ==
    ASSUME Inv, NEW r \in Requests, CommitRequest(r)
    PROVE  Life!Next \/ (StateOf' = StateOf /\ GenerationOf' = GenerationOf)
<1> DEFINE u == req[r].account
<1>1. /\ identity \in [Accounts -> Versions(IdentityRow, Requests)]
      /\ u \in Accounts /\ HoldsOK(r)
    BY RequestType DEF CommitRequest, At, Known, HandlerOK, Inv, TypeOK
<1>2. \A x \in Accounts \ {u} : identity'[x] = identity[x]
    BY <1>1 DEF CommitRequest, Commit, HoldsOK
<1>3. \A x \in Accounts \ {u} : Identity'[x] = Identity[x]
    BY <1>1, <1>2 DEF CommitRequest, Commit, Identity, Stored
<1>4. CASE identity[u].by # r
    <2>1. Identity'[u] = Identity[u]
        BY <1>1, <1>4 DEF CommitRequest, Commit, Identity, Stored
    <2> QED
        BY <1>3, <2>1 DEF StateOf, GenerationOf
<1>5. CASE identity[u].by = r
    <2>1. Legal(Identity[u], Identity'[u])
        BY <1>1, <1>5 DEF HoldsOK, CommitRequest, Commit, Settled, Identity, Stored
    <2>2. PICK event \in IdentityEvents :
             /\ Identity[u].state \in IdentityMoves[event].from
             /\ Identity'[u].state = IdentityMoves[event].to
             /\ Identity'[u].generation = Identity[u].generation + 1
        BY <2>1 DEF Legal, LegalMove
    <2>3. /\ StateOf' = [StateOf EXCEPT ![u] = IdentityMoves[event].to]
          /\ GenerationOf' = [GenerationOf EXCEPT ![u] = @ + 1]
          /\ StateOf[u] \in IdentityMoves[event].from
        BY <1>1, <1>3, <2>2 DEF StateOf, GenerationOf
    <2>4. Life!IdentityEvents = IdentityEvents /\ Life!IdentityMoves = IdentityMoves
        BY DEF Life!IdentityEvents, IdentityEvents, Life!IdentityMoves, IdentityMoves,
           Life!IdentityMove, IdentityMove, Life!IdentityStates, IdentityStates
    <2>5. Life!Move(u, event)
        BY <2>3, <2>4 DEF Life!Move, StateOf, GenerationOf
    <2> QED
        BY <1>1, <2>4, <2>5 DEF Life!Next
<1> QED
    BY <1>4, <1>5

(* Whatever requests run beside each other, and wherever they stop, an       *)
(* account's identity makes one legal move at a time: Verification           *)
(* implements IdentityLife.                                                  *)
THEOREM ImplementsIdentityLife == Spec => FollowsIdentityLife
<1>1. Inv /\ [Next]_vars => [Life!Next]_<<StateOf, GenerationOf>>
    <2> SUFFICES ASSUME Inv, Next \/ UNCHANGED vars
                 PROVE  Life!Next \/ (StateOf' = StateOf /\ GenerationOf' = GenerationOf)
        OBVIOUS
    <2>1. CASE UNCHANGED vars
        BY <2>1 DEF vars, tables, StateOf, GenerationOf, Identity, Stored
    <2>2. ASSUME NEW r \in Requests, Ask(r) \/ Handle(r) \/ Abort(r)
          PROVE  StateOf' = StateOf /\ GenerationOf' = GenerationOf
        BY <2>2, StoredKept DEF StateOf, GenerationOf
    <2> QED
        BY <2>1, <2>2, CommitMoves DEF Next
<1> QED
    BY <1>1, LifeInit, Invariance, PTL DEF Spec, FollowsIdentityLife, Life!Spec, StateOf,
       GenerationOf

-----------------------------------------------------------------------------
(* What is sent is complete *)

(* The state an attempt is given by the result of its session.               *)
Outcome(result) == AttemptMoves[AttemptEventOf[DecideVerificationOutcome(result, "none")]].to

(* A row of attempt a that was sent is complete, and p has its session.      *)
GoodIn(p, a, row) ==
    row \in AttemptRow \ {None} /\ row.state \notin {"initiated", "capturing"} =>
        /\ row.captured = REQUIRED_CHECKS
        /\ row.session # None /\ p[row.session].attempt = a
        /\ row.state = "awaiting_provider" => row.reference = row.session
        /\ row.state # "awaiting_provider" =>
               /\ p[row.session].result # None
               /\ DecidedBy(row, p[row.session].result)

(* The rows a request read and will write are good, too.                     *)
Works(r) ==
    LET q == req[r] IN
    /\ q.at = "find_identity" /\ q.op # "start" =>
           q.read # None /\ GoodIn(provider, q.id, q.read)
    /\ q.at = "fetch_result" => q.read # None /\ GoodIn(provider, q.id, q.read)
    /\ q.at = "start_session" => /\ q.becomes.captured = REQUIRED_CHECKS
                                 /\ q.becomes.state = "awaiting_provider"
    /\ q.at \in {"write_identity", "insert_attempt", "write_attempt"} =>
           GoodIn(provider, q.id, q.becomes)

AttemptsGood == \A a \in AttemptIds : /\ GoodIn(provider, a, attempts[a].row)
                                      /\ GoodIn(provider, a, attempts[a].next)

SentInv == Inv /\ AttemptsGood /\ \A r \in Requests : Works(r)

(* A session at the provider is for one attempt, and has one result, for     *)
(* good.                                                                     *)
SessionsKept == \A s \in SessionIds :
    /\ provider[s].attempt # None => provider'[s].attempt = provider[s].attempt
    /\ provider[s].result # None => provider'[s].result = provider[s].result

LEMMA StaysGood ==
    ASSUME SessionsKept, NEW a \in AttemptIds, NEW row, GoodIn(provider, a, row)
    PROVE  GoodIn(provider', a, row)
  BY NullAssumption DEF SessionsKept, GoodIn, AttemptRow

(* A step of request r: rows of attempts are kept or good, and r's are good. *)
LEMMA SentStep ==
    ASSUME SentInv, Inv', NEW r \in Requests, \A q \in Requests \ {r} : req'[q] = req[q],
           SessionsKept, Works(r)',
           \A a \in AttemptIds : \A row \in {attempts'[a].row, attempts'[a].next} :
               row \in {attempts[a].row, attempts[a].next} \/ GoodIn(provider', a, row)
    PROVE  SentInv'
<1>1. AttemptsGood'
    BY StaysGood DEF SentInv, AttemptsGood
<1>2. ASSUME NEW q \in Requests \ {r}
      PROVE  Works(q)'
    <2>1. req'[q] = req[q] /\ Works(q) /\ HandlerOK(q)
        BY DEF SentInv, Inv, Known
    <2>2. req[q].at # "idle" => req[q].id \in AttemptIds
        BY <2>1 DEF HandlerOK
    <2> QED
        BY <2>1, <2>2, StaysGood DEF Works
<1> QED
    BY <1>1, <1>2 DEF SentInv

LEMMA SameRows ==
    ASSUME UNCHANGED attempts, NEW a \in AttemptIds,
           NEW row \in {attempts'[a].row, attempts'[a].next}
    PROVE  row \in {attempts[a].row, attempts[a].next}
  OBVIOUS

(* A handler that has answered, or only begun, has no rows to answer for.    *)
LEMMA NothingInHand ==
    ASSUME NEW r \in Requests,
           req'[r].at \in {"idle", "find_attempt", "find_open", "reply"}
           \/ (req'[r].at = "find_identity" /\ req'[r].op = "start")
    PROVE  Works(r)'
  BY DEF Works

LEMMA ReplyAt ==
    ASSUME Inv, NEW r \in Requests, Reply(r)
    PROVE  req'[r].at = "reply"
  BY RequestType DEF Reply, Idle

(* Each action, whose new values the invariant has already typed.            *)
LEMMA AskSends ==
    ASSUME SentInv, Inv', NEW r \in Requests, Ask(r)
    PROVE  SentInv'
<1>1. UNCHANGED <<attempts, provider>>
    BY DEF Ask, BeginStart, BeginOn, Begin, tables
<1>2. ASSUME NEW q, Begin(r, q)
      PROVE  (\A p \in Requests \ {r} : req'[p] = req[p]) /\ req'[r] = q
    BY <1>2 DEF Begin, SentInv, Inv, TypeOK
<1>3. PICK q : /\ Begin(r, q)
               /\ q.at = "find_attempt" \/ (q.at = "find_identity" /\ q.op = "start")
    <2>1. ASSUME NEW u \in Accounts, BeginStart(r, u)
          PROVE  \E q : Begin(r, q) /\ q.at = "find_identity" /\ q.op = "start"
        <3> DEFINE q == [Idle EXCEPT !.at = "find_identity", !.account = u,
                                     !.id = CHOOSE a \in FreshAttempts : TRUE]
        <3>1. q.at = "find_identity" /\ q.op = "start"
            BY DEF Idle
        <3>2. Begin(r, q)
            BY <2>1 DEF BeginStart
        <3> HIDE DEF q
        <3> QED
            BY <3>1, <3>2
    <2>2. ASSUME NEW u \in Accounts, NEW a \in AttemptIds,
                 NEW op \in {"capture", "submit", "result"}, BeginOn(r, op, u, a)
          PROVE  \E q : Begin(r, q) /\ q.at = "find_attempt"
        <3> DEFINE q == [Idle EXCEPT !.at = "find_attempt", !.op = op, !.account = u,
                                     !.id = a]
        <3>1. q.at = "find_attempt"
            BY DEF Idle
        <3>2. Begin(r, q)
            BY <2>2 DEF BeginOn
        <3> HIDE DEF q
        <3> QED
            BY <3>1, <3>2
    <2> QED
        BY <2>1, <2>2 DEF Ask
<1>4. Works(r)'
    BY <1>2, <1>3, NothingInHand
<1> QED
    BY <1>1, <1>2, <1>3, <1>4, SentStep, SameRows DEF SessionsKept

LEMMA ReadSends ==
    ASSUME SentInv, Inv', NEW r \in Requests, FindIdentity(r) \/ FindOpen(r)
    PROVE  SentInv'
<1>1. /\ UNCHANGED <<attempts, provider>> /\ Works(r)
      /\ req \in [Requests -> RequestState] /\ req[r] \in RequestState
    BY DEF FindIdentity, FindOpen, tables, SentInv, Inv, TypeOK
<1>2. \A q \in Requests \ {r} : req'[q] = req[q]
    BY <1>1 DEF FindIdentity, FindOpen, Reply
<1>3. Works(r)'
    <2>1. CASE Reply(r)
        BY <2>1, ReplyAt, NothingInHand DEF SentInv
    <2>2. CASE FindIdentity(r)
        <3>1. /\ req[r].at = "find_identity" /\ req'[r].read = req[r].read
              /\ req'[r].id = req[r].id /\ req'[r].op = req[r].op
              /\ req'[r].at = IF req[r].op = "start" THEN "find_open" ELSE "fetch_result"
            BY <1>1, <2>2 DEF FindIdentity, At, RequestState
        <3> QED
            BY <1>1, <3>1 DEF Works
    <2>3. CASE FindOpen(r) /\ ~Reply(r)
        <3> DEFINE to == IdentityMoves["submit_verification"].to
                   becomes == Planned(req[r].account)
        <3>3. req' = [req EXCEPT ![r].to = to, ![r].becomes = becomes,
                                 ![r].at = "write_identity"]
            BY <2>3 DEF FindOpen
        <3> HIDE DEF to, becomes
        <3>4. req'[r].at = "write_identity" /\ req'[r].becomes = becomes
            BY <1>1, <3>3 DEF RequestState
        <3>1. req'[r].at = "write_identity" /\ req'[r].becomes = Planned(req[r].account)
            BY <3>4 DEF becomes
        <3>2. Planned(req[r].account).state = "capturing"
            BY DEF Planned, AttemptMoves, IdentityMove
        <3> QED
            BY <3>1, <3>2 DEF Works, GoodIn
    <2> QED
        BY <2>1, <2>2, <2>3
<1> QED
    BY <1>1, <1>2, <1>3, SentStep, SameRows DEF SessionsKept

LEMMA FindAttemptSends ==
    ASSUME SentInv, Inv', NEW r \in Requests, FindAttempt(r)
    PROVE  SentInv'
<1> DEFINE row == Seen(attempts, r)[req[r].id]
           Take(becomes, place) ==
               req' = [req EXCEPT ![r].read = row, ![r].becomes = becomes, ![r].at = place]
<1>1. /\ UNCHANGED <<attempts, provider>> /\ req[r].at = "find_attempt"
      /\ req \in [Requests -> RequestState] /\ req[r] \in RequestState
      /\ req[r].id \in AttemptIds
    BY DEF FindAttempt, At, tables, SentInv, Inv, TypeOK, Known, HandlerOK
<1>2. \A q \in Requests \ {r} : req'[q] = req[q]
    BY <1>1 DEF FindAttempt, Reply
<1>3. GoodIn(provider, req[r].id, row) /\ row \in AttemptRow \cup {None}
    <2>1. /\ attempts \in [AttemptIds -> Versions(AttemptRow \cup {None}, Requests)]
          /\ AttemptsGood
        BY DEF SentInv, Inv, TypeOK
    <2>2. row \in {attempts[req[r].id].row, attempts[req[r].id].next}
        BY <1>1, <2>1 DEF Seen
    <2>3. Seen(attempts, r) \in [AttemptIds -> AttemptRow \cup {None}]
        BY <2>1, TableTypes
    <2> HIDE DEF row
    <2> QED
        BY <1>1, <2>1, <2>2, <2>3 DEF AttemptsGood, row
<1>4. ASSUME NEW becomes, NEW place, Take(becomes, place)
      PROVE  /\ req'[r].at = place /\ req'[r].becomes = becomes /\ req'[r].read = row
             /\ req'[r].id = req[r].id
    <2> HIDE DEF row
    <2> QED
        BY <1>1, <1>4 DEF RequestState
<1>5. Works(r)'
    <2>1. CASE Reply(r)
        BY <2>1, ReplyAt, NothingInHand DEF SentInv
    <2>2. ASSUME NEW check \in REQUIRED_CHECKS, row # None,
                 Take(Captured(row, check), "write_attempt")
          PROVE  Works(r)'
        <3>1. row \in AttemptRow
            BY <1>3, <2>2
        <3>2. AttemptMoves["record_capture"].to = "capturing"
            BY DEF AttemptMoves, IdentityMove
        <3>3. Captured(row, check).state = "capturing"
            <4> HIDE DEF row
            <4> QED
                BY <3>1, <3>2 DEF Captured, AttemptRow
        <3>4. req'[r].at = "write_attempt" /\ req'[r].becomes = Captured(row, check)
            BY <1>4, <2>2
        <3> HIDE DEF row
        <3> QED
            BY <3>3, <3>4 DEF Works, GoodIn
    <2>3. ASSUME row # None, MaySubmit(row),
                 Take([row EXCEPT !.state = AttemptMoves["submit_to_provider"].to],
                      "start_session")
          PROVE  Works(r)'
        <3>1. row \in AttemptRow
            BY <1>3, <2>3
        <3>2. row.captured = REQUIRED_CHECKS
            BY <2>3, <3>1 DEF MaySubmit, MayMoveAttempt, AttemptRow
        <3>3. /\ req'[r].at = "start_session"
              /\ req'[r].becomes = [row EXCEPT !.state = AttemptMoves["submit_to_provider"].to]
            BY <1>4, <2>3
        <3>4. AttemptMoves["submit_to_provider"].to = "awaiting_provider"
            BY DEF AttemptMoves, IdentityMove
        <3> HIDE DEF row
        <3>5. /\ req'[r].becomes.captured = REQUIRED_CHECKS
              /\ req'[r].becomes.state = "awaiting_provider"
            BY <3>1, <3>2, <3>3, <3>4 DEF AttemptRow
        <3> QED
            BY <3>3, <3>5 DEF Works
    <2>4. ASSUME row # None, Take(None, "find_identity")
          PROVE  Works(r)'
        <3>1. req'[r].at = "find_identity" /\ req'[r].read = row /\ req'[r].id = req[r].id
            BY <1>4, <2>4
        <3> HIDE DEF row
        <3> QED
            BY <1>1, <1>3, <2>4, <3>1 DEF Works
    <2> QED
        BY <2>1, <2>2, <2>3, <2>4 DEF FindAttempt
<1> QED
    BY <1>1, <1>2, <1>5, SentStep, SameRows DEF SessionsKept

LEMMA StartSessionSends ==
    ASSUME SentInv, Inv', NEW r \in Requests, StartSession(r)
    PROVE  SentInv'
<1>1. /\ UNCHANGED attempts /\ req[r].at = "start_session"
      /\ req \in [Requests -> RequestState] /\ req[r] \in RequestState
      /\ req[r].id \in AttemptIds /\ req[r].becomes \in AttemptRow
      /\ req[r].becomes.captured = REQUIRED_CHECKS
      /\ req[r].becomes.state = "awaiting_provider"
      /\ provider \in [SessionIds -> [attempt : AttemptIds \cup {None},
                                      result : Results \cup {None}]]
    BY DEF StartSession, At, tables, SentInv, Inv, TypeOK, Known, HandlerOK, Works
<1>2. \A q \in Requests \ {r} : req'[q] = req[q]
    BY <1>1 DEF StartSession, Reply
<1>3. CASE Reply(r) /\ UNCHANGED provider
    <2>1. SessionsKept /\ Works(r)'
        BY <1>3, ReplyAt, NothingInHand DEF SentInv, SessionsKept
    <2> QED
        BY <1>1, <1>2, <2>1, SentStep, SameRows
<1>4. CASE /\ FreshSessions # {}
           /\ provider' = [provider EXCEPT ![NewSession].attempt = req[r].id]
           /\ req' = [req EXCEPT ![r].becomes.reference = NewSession,
                                  ![r].becomes.session = NewSession, ![r].at = "write_attempt"]
    <2>1. NewSession \in SessionIds /\ provider[NewSession].attempt = None
        BY <1>4 DEF NewSession, FreshSessions
    <2> DEFINE s == NewSession
    <2> HIDE DEF s
    <2>2. SessionsKept /\ provider'[s].attempt = req[r].id
        BY <1>1, <1>4, <2>1 DEF SessionsKept, s
    <2>3. /\ req'[r].at = "write_attempt" /\ req'[r].id = req[r].id
          /\ req'[r].becomes = [req[r].becomes EXCEPT !.reference = s, !.session = s]
        BY <1>1, <1>4 DEF RequestState, s
    <2>4. /\ req'[r].becomes.session = s /\ req'[r].becomes.captured = REQUIRED_CHECKS
          /\ req'[r].becomes.reference = s /\ req'[r].becomes.state = "awaiting_provider"
        BY <1>1, <2>3 DEF AttemptRow
    <2>5. s # None
        BY <2>1, NullAssumption DEF s
    <2>6. Works(r)'
        BY <2>2, <2>3, <2>4, <2>5 DEF Works, GoodIn
    <2> QED
        BY <1>1, <1>2, <2>2, <2>6, SentStep, SameRows
<1> QED
    BY <1>3, <1>4 DEF StartSession

(* What a result makes of the row of an attempt.                             *)
LEMMA CompletedAs ==
    ASSUME NEW result, NEW row \in AttemptRow
    PROVE  LET becomes == Completed(row, result)
           IN  /\ becomes.captured = row.captured /\ becomes.session = row.session
               /\ becomes.owner = row.owner
               /\ DecidedBy(becomes, result)
               /\ becomes.state = Outcome(result) /\ becomes.state # "awaiting_provider"
               /\ result.reference \in References => becomes \in AttemptRow
<1> DEFINE decision == DecideVerificationOutcome(result, "none")
<1>1. decision \in {"pass", "fail", "manual_review"}
    BY OutcomeType
<1> HIDE DEF decision
<1>2. /\ AttemptMoves[AttemptEventOf[decision]].to \in {"passed", "failed", "manual_review"}
      /\ decision \in Decisions
    BY <1>1 DEF AttemptMoves, AttemptEventOf, IdentityMove, Decisions
<1>3. AttemptMoves[AttemptEventOf[decision]].to \in AttemptStates
    BY <1>2 DEF AttemptStates, TerminalAttempt
<1> DEFINE to == AttemptMoves[AttemptEventOf[decision]].to
<1>4. /\ Completed(row, result) = [row EXCEPT !.state = to, !.decision = decision,
                                              !.reference = result.reference]
      /\ Outcome(result) = to
    BY DEF Completed, Outcome, decision
<1> HIDE DEF to
<1>5. /\ to \in AttemptStates /\ to # "awaiting_provider" /\ decision \in Decisions
    BY <1>2, <1>3 DEF to
<1>6. \A becomes : DecidedBy(becomes, result) <=> /\ becomes.reference = result.reference
                                                 /\ becomes.decision = decision
    BY DEF DecidedBy, decision
<1> QED
    BY <1>4, <1>5, <1>6 DEF AttemptRow

(* Only an attempt that waits for its result is completed with one.          *)
LEMMA CompletesWhatWaits ==
    ASSUME Inv, NEW r \in Requests, NEW result, Complete(r, result), ~Reply(r)
    PROVE  /\ req[r].read.state = "awaiting_provider"
           /\ req'[r].at = "write_identity" /\ req'[r].id = req[r].id
           /\ req'[r].becomes = Completed(req[r].read, result)
<1> DEFINE decision == DecideVerificationOutcome(result, "none")
           becomes == Completed(req[r].read, result)
           to == IdentityMoves[EventFor(result, req[r].read)].to
<1>1. /\ MayMoveAttempt(req[r].read.state, AttemptEventOf[decision], req[r].read.captured,
                        decision, FALSE)
      /\ req' = [req EXCEPT ![r].to = to, ![r].becomes = becomes, ![r].at = "write_identity"]
    BY DEF Complete
<1>2. req[r].read.state = "awaiting_provider"
    <2>1. decision \in {"pass", "fail", "manual_review"}
        BY OutcomeType
    <2> HIDE DEF decision
    <2>2. AttemptMoves[AttemptEventOf[decision]].from = {"awaiting_provider"}
        BY <2>1 DEF AttemptMoves, AttemptEventOf, IdentityMove
    <2> QED
        BY <1>1, <2>2 DEF MayMoveAttempt
<1> HIDE DEF becomes, to
<1>3. /\ req'[r].at = "write_identity" /\ req'[r].becomes = becomes
      /\ req'[r].id = req[r].id
    BY <1>1 DEF RequestState, Inv, TypeOK
<1> QED
    BY <1>2, <1>3 DEF becomes

(* A result is of an attempt that was sent: what it closes stays complete.   *)
LEMMA FetchResultSends ==
    ASSUME SentInv, Inv', NEW r \in Requests, FetchResult(r)
    PROVE  SentInv'
<1>1. /\ UNCHANGED attempts /\ req[r].at = "fetch_result"
      /\ req \in [Requests -> RequestState] /\ req[r] \in RequestState
      /\ req[r].id \in AttemptIds /\ req[r].read \in AttemptRow
      /\ req[r].read # None /\ GoodIn(provider, req[r].id, req[r].read)
      /\ provider \in [SessionIds -> [attempt : AttemptIds \cup {None},
                                      result : Results \cup {None}]]
    BY DEF FetchResult, At, tables, SentInv, Inv, TypeOK, Known, HandlerOK, Works
<1>2. \A q \in Requests \ {r} : req'[q] = req[q]
    BY <1>1 DEF FetchResult, Complete, Reply
<1>3. CASE Reply(r) /\ UNCHANGED provider
    <2>1. Works(r)' /\ SessionsKept
        BY <1>3, ReplyAt, NothingInHand DEF SentInv, SessionsKept
    <2> QED
        BY <1>1, <1>2, <2>1, SentStep, SameRows
<1> DEFINE s == req[r].read.reference
<1>4. CASE s \in References \ SessionIds /\ UNCHANGED provider
           /\ \E result \in Results : Complete(r, result)
    <2>1. Reply(r)
        BY <1>1, <1>4, CompletesWhatWaits DEF GoodIn, AttemptRow, SentInv
    <2> QED
        BY <1>3, <1>4, <2>1
<1>5. ASSUME NEW result \in IF provider[s].result = None THEN Results ELSE {provider[s].result},
             s \in SessionIds, provider' = [provider EXCEPT ![s].result = result],
             Complete(r, result)
      PROVE  SentInv'
    <2> HIDE DEF s
    <2>1. /\ SessionsKept /\ provider'[s].result = result /\ result # None
          /\ provider'[s].attempt = provider[s].attempt
        BY <1>1, <1>5, NullAssumption DEF SessionsKept
    <2>2. CASE Reply(r)
        <3>1. Works(r)'
            BY <2>2, ReplyAt, NothingInHand DEF SentInv
        <3> QED
            BY <1>1, <1>2, <2>1, <3>1, SentStep, SameRows
    <2>3. CASE ~Reply(r)
        <3> DEFINE becomes == Completed(req[r].read, result)
        <3>1. /\ req[r].read.state = "awaiting_provider"
              /\ req'[r].at = "write_identity" /\ req'[r].id = req[r].id
              /\ req'[r].becomes = becomes
            BY <1>1, <1>5, <2>3, CompletesWhatWaits DEF SentInv
        <3>2. /\ s = req[r].read.session /\ req[r].read.captured = REQUIRED_CHECKS
              /\ provider[s].attempt = req[r].id
            BY <1>1, <3>1 DEF GoodIn, s
        <3>3. /\ becomes.captured = REQUIRED_CHECKS /\ becomes.session = s
              /\ DecidedBy(becomes, result) /\ becomes.state # "awaiting_provider"
            BY <1>1, <3>2, CompletedAs
        <3> HIDE DEF becomes
        <3>4. GoodIn(provider', req[r].id, becomes)
            BY <1>5, <2>1, <3>2, <3>3, NullAssumption DEF GoodIn
        <3>5. Works(r)'
            BY <3>1, <3>4 DEF Works
        <3> QED
            BY <1>1, <1>2, <2>1, <3>5, SentStep, SameRows
    <2> QED
        BY <2>2, <2>3
<1> QED
    BY <1>3, <1>4, <1>5 DEF FetchResult

LEMMA WriteIdentitySends ==
    ASSUME SentInv, Inv', NEW r \in Requests, WriteIdentity(r)
    PROVE  SentInv'
<1>1. /\ UNCHANGED <<attempts, provider>> /\ Works(r) /\ req[r].at = "write_identity"
      /\ req \in [Requests -> RequestState] /\ req[r] \in RequestState
    BY DEF WriteIdentity, At, SentInv, Inv, TypeOK
<1>2. \A q \in Requests \ {r} : req'[q] = req[q]
    BY <1>1 DEF WriteIdentity, Reply, Goto
<1>3. CASE Reply(r)
    <2>1. Works(r)'
        BY <1>3, ReplyAt, NothingInHand DEF SentInv
    <2> QED
        BY <1>1, <1>2, <2>1, SentStep, SameRows DEF SessionsKept
<1>4. CASE ~Reply(r)
    <2>1. /\ req'[r].at \in {"insert_attempt", "write_attempt"}
          /\ req'[r].id = req[r].id /\ req'[r].becomes = req[r].becomes
        BY <1>1, <1>4 DEF WriteIdentity, Goto, RequestState
    <2>2. Works(r)'
        BY <1>1, <2>1 DEF Works
    <2> QED
        BY <1>1, <1>2, <2>2, SentStep, SameRows DEF SessionsKept
<1> QED
    BY <1>3, <1>4

LEMMA WriteAttemptSends ==
    ASSUME SentInv, Inv', NEW r \in Requests, InsertAttempt(r) \/ WriteAttempt(r)
    PROVE  SentInv'
<1>1. /\ UNCHANGED provider /\ Reply(r) /\ req[r].at \in {"insert_attempt", "write_attempt"}
      /\ req \in [Requests -> RequestState] /\ req[r].id \in AttemptIds
      /\ GoodIn(provider, req[r].id, req[r].becomes)
      /\ attempts \in [AttemptIds -> Versions(AttemptRow \cup {None}, Requests)]
    BY DEF InsertAttempt, WriteAttempt, At, SentInv, Inv, TypeOK, Known, HandlerOK, Works
<1>2. \A q \in Requests \ {r} : req'[q] = req[q]
    BY <1>1 DEF Reply
<1>3. Works(r)'
    BY <1>1, ReplyAt, NothingInHand DEF SentInv
<1>4. attempts' \in {attempts, Put(attempts, req[r].id, r, req[r].becomes)}
    BY DEF InsertAttempt, WriteAttempt
<1>5. ASSUME NEW a \in AttemptIds, NEW row \in {attempts'[a].row, attempts'[a].next}
      PROVE  row \in {attempts[a].row, attempts[a].next} \/ GoodIn(provider', a, row)
    <2>1. CASE attempts' = attempts
        BY <1>5, <2>1
    <2>2. CASE attempts' = Put(attempts, req[r].id, r, req[r].becomes)
        <3>1. a # req[r].id => attempts'[a] = attempts[a]
            BY <1>1, <2>2 DEF Put
        <3>2. a = req[r].id => attempts'[a].row = attempts[a].row
                               /\ attempts'[a].next = req[r].becomes
            BY <1>1, <2>2 DEF Put
        <3> QED
            BY <1>1, <1>5, <3>1, <3>2
    <2> QED
        BY <1>4, <2>1, <2>2
<1> QED
    BY <1>1, <1>2, <1>3, <1>5, SentStep DEF SessionsKept

LEMMA EndSends ==
    ASSUME SentInv, Inv', NEW r \in Requests, CommitRequest(r) \/ Abort(r)
    PROVE  SentInv'
<1>1. /\ UNCHANGED provider /\ req' = [req EXCEPT ![r] = Idle]
      /\ req \in [Requests -> RequestState]
      /\ attempts \in [AttemptIds -> Versions(AttemptRow \cup {None}, Requests)]
      /\ attempts' = Commit(attempts, r) \/ attempts' = Rollback(attempts, r)
    BY DEF CommitRequest, Abort, SentInv, Inv, TypeOK
<1>2. (\A q \in Requests \ {r} : req'[q] = req[q]) /\ req'[r].at = "idle"
    BY <1>1, IdleType
<1>3. Works(r)'
    BY <1>2, NothingInHand
<1>4. ASSUME NEW a \in AttemptIds, NEW row \in {attempts'[a].row, attempts'[a].next}
      PROVE  row \in {attempts[a].row, attempts[a].next}
    BY <1>1, <1>4 DEF Commit, Rollback, Settled
<1> QED
    BY <1>1, <1>2, <1>3, <1>4, SentStep DEF SessionsKept

LEMMA SentInitially == Init => SentInv
<1> SUFFICES ASSUME Init PROVE SentInv
    OBVIOUS
<1>1. Inv
    BY InitInv
<1>2. AttemptsGood
    <2>1. \A a \in AttemptIds : attempts[a].row = None /\ attempts[a].next = None
        BY DEF Init, Settled
    <2> QED
        BY <2>1 DEF AttemptsGood, GoodIn
<1>3. \A r \in Requests : Works(r)
    BY DEF Init, Idle, Works
<1> QED
    BY <1>1, <1>2, <1>3 DEF SentInv

LEMMA SentNext == SentInv /\ [Next]_vars => SentInv'
<1> SUFFICES ASSUME SentInv, [Next]_vars PROVE SentInv'
    OBVIOUS
<1>1. Inv'
    BY NextInv DEF SentInv
<1>2. CASE UNCHANGED vars
    BY <1>1, <1>2 DEF vars, tables, SentInv, AttemptsGood, Works
<1>3. ASSUME NEW r \in Requests, Ask(r) \/ Handle(r) \/ CommitRequest(r) \/ Abort(r)
      PROVE  SentInv'
    BY <1>1, <1>3, AskSends, ReadSends, FindAttemptSends, StartSessionSends, FetchResultSends,
       WriteIdentitySends, WriteAttemptSends, EndSends DEF Handle
<1> QED
    BY <1>2, <1>3 DEF Next

(* What was sent to the vendor is complete; while it waits it names a session *)
(* of its own, and once settled what the result of such a session named:     *)
(* whichever of the concurrent captures, submissions and polls was kept.     *)
THEOREM AlwaysSentComplete == Spec => []SubmittedIsComplete
<1>1. SentInv => SubmittedIsComplete
    <2> SUFFICES ASSUME SentInv, NEW a \in AttemptIds, Attempt[a] # None,
                        Attempt[a].state \notin {"initiated", "capturing"}
                 PROVE  LET row == Attempt[a]
                            own == {s \in SessionIds : provider[s].attempt = a}
                        IN  /\ row.captured = REQUIRED_CHECKS
                            /\ IF row.state = "awaiting_provider" THEN row.reference \in own
                               ELSE \E s \in own : /\ provider[s].result # None
                                                   /\ DecidedBy(row, provider[s].result)
        BY DEF SubmittedIsComplete
    <2>1. attempts \in [AttemptIds -> Versions(AttemptRow \cup {None}, Requests)]
        BY DEF SentInv, Inv, TypeOK
    <2>2. Attempt[a] = attempts[a].row /\ Attempt[a] \in AttemptRow
        BY <2>1 DEF Attempt, Stored, Versions
    <2>3. GoodIn(provider, a, attempts[a].row)
        BY DEF SentInv, AttemptsGood
    <2> DEFINE s == Attempt[a].session
    <2>4. s \in SessionIds /\ provider[s].attempt = a
        BY <2>2, <2>3 DEF GoodIn, AttemptRow
    <2> QED
        BY <2>2, <2>3, <2>4 DEF GoodIn
<1> QED
    BY <1>1, SentInitially, SentNext, PTL DEF Spec

-----------------------------------------------------------------------------
(* An identity and the attempt it names *)

Settling == {"passed", "failed", "manual_review"}
Sending == {"capturing", "awaiting_provider"}

(* A row that was sent has a session, and one that is settled is settled as  *)
(* the result of its session decides: of one session there is one result.    *)
SettledAs(p, row) ==
    row # None =>
        /\ row.state \in Sending \cup Settling
        /\ row.state = "capturing" <=> row.session = None
        /\ row.state = "awaiting_provider" => row.reference = row.session
        /\ row.state \in Settling => /\ p[row.session].result # None
                                     /\ row.state = Outcome(p[row.session].result)

Agrees(state, attempt) ==
    \/ state = "pending" /\ attempt \in Sending
    \/ state = "verified" /\ attempt = "passed"
    \/ state = "verification_failed" /\ attempt = "failed"
    \/ state = "review_required" /\ attempt = "manual_review"

(* What is stored: the identity agrees with its latest attempt, but for one  *)
(* taken back out of the review.                                             *)
AgreesOK(u) ==
    LET i == identity[u].row IN
    \/ i.state = "unverified" /\ i.latest = None
    \/ /\ i.latest \in AttemptIds
       /\ attempts[i.latest].row # None /\ attempts[i.latest].row.owner = u
       /\ \/ Agrees(i.state, attempts[i.latest].row.state)
          \/ i.state = "review_required" /\ i.latest \in overtaken

(* An identity being written will agree with the attempt its writer is about *)
(* to write, or has written, or has found closed another way.                *)
MovesOK(u) ==
    LET r == identity[u].by
        next == identity[u].next
    IN
    r # None =>
        /\ req[r].account = u /\ next.latest = req[r].id
        /\ identity[u].row.state # "review_required" /\ req[r].op \in {"start", "result"}
        /\ req[r].at \in {"insert_attempt", "write_attempt"} =>
               Agrees(next.state, req[r].becomes.state)
        /\ req[r].at = "reply" =>
               \/ /\ attempts[req[r].id].by = r
                  /\ Agrees(next.state, attempts[req[r].id].next.state)
               \/ /\ next.state = "review_required" /\ req[r].id \in overtaken
                  /\ attempts[req[r].id].by # r
                  /\ attempts[req[r].id].row # None /\ attempts[req[r].id].row.owner = u

(* An attempt being written: a new one, or one that keeps its owner and,     *)
(* unless it is set aside, its session; only with its identity is it settled.*)
AttemptOK(a) ==
    LET r == attempts[a].by
        row == attempts[a].row
        next == attempts[a].next
    IN
    /\ SettledAs(provider, row) /\ SettledAs(provider, next)
    /\ r # None =>
        /\ req[r].id = a /\ req[r].at = "reply"
        /\ next # None /\ next.owner = req[r].account
        /\ row = None \/ next.state \in Settling => identity[req[r].account].by = r
        /\ row # None =>
            /\ row.owner = next.owner
            /\ next.state \notin Settling =>
                   /\ row.state \notin TerminalAttempt
                   /\ row.state = "manual_review" => a \in overtaken
            /\ a \notin overtaken /\ row.session # None => next.session = row.session

(* A request that starts has its attempt to itself, which is not stored yet. *)
StartOK(r) ==
    LET q == req[r] IN
    q.at # "idle" /\ q.op = "start" =>
        /\ q.at \in {"find_identity", "find_open", "write_identity", "insert_attempt", "reply"}
        /\ attempts[q.id].row = None /\ attempts[q.id].by \in {None, r}
        /\ \A p \in Requests \ {r} : req[p].id # q.id
        /\ q.at \in {"write_identity", "insert_attempt"} => q.becomes = Planned(q.account)
        /\ q.at = "write_identity" => q.to = "pending" /\ q.was.state # "review_required"
        /\ q.at = "insert_attempt" => identity[q.account].by = r

(* One on a stored attempt has read it, and knows its session still unless   *)
(* the attempt was set aside since.                                          *)
ReadOK(r) ==
    LET q == req[r]
        row == attempts[q.id].row
    IN
    q.at # "idle" /\ q.op # "start" =>
        /\ q.at \notin {"find_open", "insert_attempt"} /\ row # None
        /\ q.at \notin {"find_attempt", "reply"} =>
            /\ q.read \in AttemptRow /\ q.read # None
            /\ q.read.owner = q.account /\ row.owner = q.account
            /\ SettledAs(provider, q.read)
            /\ q.read.session # None /\ q.id \notin overtaken => row.session = q.read.session

(* And what it will write: a capture or a submission leaves the attempt on   *)
(* its way, a result settles it together with the identity.                  *)
WriteOK(r) ==
    LET q == req[r] IN
    q.at \notin {"idle", "find_attempt", "reply"} /\ q.op # "start" =>
        \/ /\ q.op # "result" /\ q.at \in {"start_session", "write_attempt"}
           /\ q.read.state = "capturing"
           /\ q.becomes.owner = q.account /\ q.becomes.state \in Sending
           /\ q.at = "start_session" => q.becomes.state = "awaiting_provider"
           /\ q.at = "write_attempt" => SettledAs(provider, q.becomes)
        \/ q.op = "result" /\ q.at \in {"find_identity", "fetch_result"}
        \/ /\ q.op = "result" /\ q.at \in {"write_identity", "write_attempt"}
           /\ q.read.state = "awaiting_provider" /\ q.becomes.state \in Settling
           /\ q.becomes.owner = q.account /\ q.becomes.session = q.read.session
           /\ SettledAs(provider, q.becomes)
           /\ q.at = "write_identity" =>
                  q.was.state # "review_required" /\ Agrees(q.to, q.becomes.state)
           /\ q.at = "write_attempt" => identity[q.account].by = r

HandlingOK(r) == StartOK(r) /\ ReadOK(r) /\ WriteOK(r)

Agreed ==
    /\ \A u \in Accounts : AgreesOK(u) /\ MovesOK(u)
    /\ \A a \in AttemptIds : AttemptOK(a)
    /\ \A r \in Requests : HandlingOK(r)

(* Results are given once.                                                   *)
ResultsKept == \A s \in SessionIds :
    provider[s].result # None => provider'[s].result = provider[s].result

LEMMA SettledKept ==
    ASSUME ResultsKept, NEW row \in AttemptRow \cup {None}, SettledAs(provider, row)
    PROVE  SettledAs(provider', row)
<1>1. CASE row = None
    BY <1>1 DEF SettledAs
<1>2. CASE row # None /\ row.state \in Settling
    <2>1. row.session \in SessionIds
        BY <1>2 DEF SettledAs, AttemptRow, Settling
    <2> QED
        BY <1>2, <2>1 DEF SettledAs, ResultsKept
<1>3. CASE row # None /\ row.state \notin Settling
    BY <1>3 DEF SettledAs
<1> QED
    BY <1>1, <1>2, <1>3

(* What a request before its last writes holds: nothing.                     *)
LEMMA HoldsNeither ==
    ASSUME Inv, Agreed, NEW r \in Requests
    PROVE  /\ req[r].at \notin Holding => \A u \in Accounts : identity[u].by # r
           /\ req[r].at # "reply" => \A a \in AttemptIds : attempts[a].by # r
<1>1. r # None
    BY NullAssumption
<1> QED
    BY <1>1, RequestType DEF Known, HoldsOK, Agreed, AttemptOK

LEMMA TablesType ==
    ASSUME Inv
    PROVE  /\ identity \in [Accounts -> Versions(IdentityRow, Requests)]
           /\ attempts \in [AttemptIds -> Versions(AttemptRow \cup {None}, Requests)]
           /\ provider \in [SessionIds -> [attempt : AttemptIds \cup {None},
                                           result : Results \cup {None}]]
  BY DEF Inv, TypeOK

LEMMA AtWork ==
    ASSUME Inv, Agreed, NEW r \in Requests, req[r].at # "idle"
    PROVE  /\ req[r] \in RequestState /\ req[r].account \in Accounts /\ req[r].id \in AttemptIds
           /\ HandlingOK(r) /\ AttemptOK(req[r].id) /\ AgreesOK(req[r].account)
           /\ MovesOK(req[r].account)
           /\ attempts[req[r].id].row \in AttemptRow \cup {None}
           /\ attempts[req[r].id].next \in AttemptRow \cup {None}
<1>1. req[r] \in RequestState /\ req[r].account \in Accounts /\ req[r].id \in AttemptIds
    BY RequestType DEF Known, HandlerOK
<1> QED
    BY <1>1, TablesType DEF Agreed, Versions

(* How the parts of the invariant are kept, each from the little it speaks of. *)
LEMMA MovesKept ==
    ASSUME NEW u, NEW p, NEW a, MovesOK(u), identity'[u] = identity[u], p = identity[u].by,
           p # None => req'[p] = req[p] /\ a = req[p].id,
           a \in overtaken => a \in overtaken',
           p # None /\ req[p].at = "reply" =>
               \/ attempts'[a] = attempts[a]
               \/ /\ attempts[a].by # p /\ attempts'[a].by # p
                  /\ attempts[a].row # None => /\ attempts'[a].row # None
                                              /\ attempts'[a].row.owner = attempts[a].row.owner
    PROVE  MovesOK(u)'
<1>1. CASE p = None
    BY <1>1 DEF MovesOK
<1>2. CASE p # None
    <2>1. /\ identity'[u].by = p /\ req'[p] = req[p] /\ req[p].id = a
          /\ identity'[u].next = identity[u].next /\ identity'[u].row = identity[u].row
        BY <1>2
    <2>2. /\ req[p].account = u /\ identity[u].next.latest = req[p].id
          /\ identity[u].row.state # "review_required" /\ req[p].op \in {"start", "result"}
          /\ req[p].at \in {"insert_attempt", "write_attempt"} =>
                 Agrees(identity[u].next.state, req[p].becomes.state)
        BY <1>2 DEF MovesOK
    <2>3. req[p].at = "reply" =>
              \/ /\ attempts[a].by = p
                 /\ Agrees(identity[u].next.state, attempts[a].next.state)
              \/ /\ identity[u].next.state = "review_required" /\ a \in overtaken
                 /\ attempts[a].by # p
                 /\ attempts[a].row # None /\ attempts[a].row.owner = u
        BY <1>2, <2>1 DEF MovesOK
    <2>4. req[p].at = "reply" =>
              \/ /\ attempts'[a].by = p
                 /\ Agrees(identity[u].next.state, attempts'[a].next.state)
              \/ /\ identity[u].next.state = "review_required" /\ a \in overtaken'
                 /\ attempts'[a].by # p
                 /\ attempts'[a].row # None /\ attempts'[a].row.owner = u
        BY <1>2, <2>3
    <2> QED
        BY <2>1, <2>2, <2>4 DEF MovesOK
<1> QED
    BY <1>1, <1>2

LEMMA MovesNow ==
    ASSUME NEW u, NEW r, NEW a, identity'[u].by = r, identity'[u].next.latest = a,
           identity'[u].row.state # "review_required",
           req'[r].account = u, req'[r].id = a, req'[r].op \in {"start", "result"},
           req'[r].at = "reply", attempts'[a].by = r,
           Agrees(identity'[u].next.state, attempts'[a].next.state)
    PROVE  MovesOK(u)'
  BY DEF MovesOK

LEMMA AttemptKept ==
    ASSUME NEW a, NEW p, AttemptOK(a), attempts'[a] = attempts[a], p = attempts[a].by,
           p # None => /\ req'[p] = req[p]
                       /\ LET u == req[p].account
                          IN  identity[u].by = p => identity'[u].by = p,
           SettledAs(provider', attempts[a].row), SettledAs(provider', attempts[a].next),
           overtaken \subseteq overtaken', a \in overtaken' => a \in overtaken \/ p = None
    PROVE  AttemptOK(a)'
<1>1. CASE p = None
    BY <1>1 DEF AttemptOK
<1>2. CASE p # None
    BY <1>2 DEF AttemptOK
<1> QED
    BY <1>1, <1>2

LEMMA AttemptNow ==
    ASSUME NEW a, NEW r, NEW row, NEW next, NEW u,
           attempts'[a].row = row, attempts'[a].next = next, attempts'[a].by = r,
           SettledAs(provider', row), SettledAs(provider', next),
           req'[r].id = a, req'[r].at = "reply", req'[r].account = u,
           next # None, next.owner = u,
           row = None \/ next.state \in Settling => identity'[u].by = r,
           row # None =>
               /\ row.owner = u
               /\ next.state \notin Settling =>
                      /\ row.state \notin TerminalAttempt
                      /\ row.state = "manual_review" => a \in overtaken'
               /\ a \notin overtaken' /\ row.session # None => next.session = row.session
    PROVE  AttemptOK(a)'
  BY DEF AttemptOK

(* A request that has come to its answer says nothing but that its attempt   *)
(* is its own, or stored.                                                    *)
LEMMA HandlingAtReply ==
    ASSUME NEW r, NEW a, HandlingOK(r), req[r].at # "idle", req'[r].at = "reply",
           req'[r].op = req[r].op, req[r].id = a, req'[r].id = a,
           \A p \in Requests \ {r} : req'[p] = req[p],
           attempts'[a].row = attempts[a].row, attempts'[a].by \in {attempts[a].by, r}
    PROVE  HandlingOK(r)'
<1>1. CASE req[r].op = "start"
    <2>1. /\ attempts[a].row = None /\ attempts[a].by \in {None, r}
          /\ \A p \in Requests \ {r} : req[p].id # a
        BY <1>1 DEF HandlingOK, StartOK
    <2>2. /\ attempts'[a].row = None /\ attempts'[a].by \in {None, r}
          /\ \A p \in Requests \ {r} : req'[p].id # a
        BY <2>1
    <2>3. StartOK(r)'
        BY <2>2 DEF StartOK
    <2> QED
        BY <1>1, <2>3 DEF HandlingOK, ReadOK, WriteOK
<1>2. CASE req[r].op # "start"
    <2>1. attempts'[a].row # None
        BY <1>2 DEF HandlingOK, ReadOK
    <2> QED
        BY <1>2, <2>1 DEF HandlingOK, StartOK, ReadOK, WriteOK
<1> QED
    BY <1>1, <1>2

(* A step that writes no row.                                                *)
LEMMA WorkAgrees ==
    ASSUME Inv, Agreed, NEW r \in Requests, NEW q \in RequestState,
           req' = [req EXCEPT ![r] = q], UNCHANGED <<identity, attempts, overtaken>>,
           req[r].at \notin Holding, ResultsKept,
           \A p \in Requests \ {r} :
               req[p].at # "idle" /\ req[p].op = "start" => q.id # req[p].id,
           HandlingOK(r)'
    PROVE  Agreed'
<1>1. req'[r] = q /\ \A p \in Requests \ {r} : req'[p] = req[p]
    BY Moved DEF OnlyRequest
<1>2. /\ \A u \in Accounts : identity[u].by # r
      /\ \A a \in AttemptIds : attempts[a].by # r
    BY HoldsNeither DEF Holding
<1>3. ASSUME NEW u \in Accounts
      PROVE  AgreesOK(u)' /\ MovesOK(u)'
    <2>1. AgreesOK(u) /\ MovesOK(u) /\ identity[u].by \in Requests \cup {None}
        BY TablesType DEF Agreed, Versions
    <2>2. AgreesOK(u)'
        BY <2>1 DEF AgreesOK
    <2>3. identity[u].by # None => req'[identity[u].by] = req[identity[u].by]
        BY <1>1, <1>2, <2>1
    <2>4. MovesOK(u)'
        BY <2>1, <2>3, MovesKept
    <2> QED
        BY <2>2, <2>4
<1>4. ASSUME NEW a \in AttemptIds
      PROVE  AttemptOK(a)'
    <2>1. AttemptOK(a) /\ attempts[a] \in Versions(AttemptRow \cup {None}, Requests)
        BY TablesType DEF Agreed
    <2>2. SettledAs(provider', attempts[a].row) /\ SettledAs(provider', attempts[a].next)
        BY <2>1, SettledKept DEF AttemptOK, Versions
    <2>3. attempts[a].by # None => req'[attempts[a].by] = req[attempts[a].by]
        BY <1>1, <1>2, <2>1 DEF Versions
    <2> QED
        BY <2>1, <2>2, <2>3, AttemptKept
<1>5. ASSUME NEW p \in Requests, p # r
      PROVE  HandlingOK(p)'
    <2>1. HandlingOK(p) /\ req'[p] = req[p] /\ req[p] \in RequestState
        BY <1>1, <1>5, RequestType DEF Agreed
    <2>2. StartOK(p)'
        BY <1>1, <2>1 DEF HandlingOK, StartOK
    <2>3. ReadOK(p)'
        BY <2>1, SettledKept DEF HandlingOK, ReadOK
    <2>4. req[p].becomes \in AttemptRow \cup {None}
        BY <2>1 DEF RequestState
    <2>5. WriteOK(p)'
        BY <2>1, <2>4, SettledKept DEF HandlingOK, WriteOK
    <2> QED
        BY <2>2, <2>3, <2>5 DEF HandlingOK
<1> QED
    BY <1>3, <1>4, <1>5 DEF Agreed

LEMMA ReplyRecord ==
    ASSUME Inv, NEW r \in Requests, req[r].at # "idle", Reply(r)
    PROVE  \E q \in RequestState :
              /\ req' = [req EXCEPT ![r] = q] /\ q.at = "reply" /\ q.op = req[r].op
              /\ q.id = req[r].id /\ q.account = req[r].account
<1> DEFINE q == [Idle EXCEPT !.at = "reply", !.op = req[r].op, !.account = req[r].account,
                             !.id = req[r].id]
<1>1. req[r] \in RequestState
    BY RequestType
<1>2. q \in RequestState
    <2>1. "reply" \in Places
        BY DEF Places
    <2> QED
        BY <1>1, <2>1, IdleType DEF RequestState
<1>3. q.at = "reply" /\ q.op = req[r].op /\ q.id = req[r].id /\ q.account = req[r].account
    BY DEF Idle
<1>4. req' = [req EXCEPT ![r] = q]
    BY DEF Reply
<1> HIDE DEF q
<1> QED
    BY <1>2, <1>3, <1>4

(* A refusal.                                                                *)
LEMMA RefusalAgrees ==
    ASSUME Inv, Agreed, NEW r \in Requests, req[r].at \notin Holding \cup {"idle"}, Reply(r),
           UNCHANGED <<identity, attempts, overtaken>>, ResultsKept
    PROVE  Agreed'
<1>1. PICK q \in RequestState :
              /\ req' = [req EXCEPT ![r] = q] /\ q.at = "reply" /\ q.op = req[r].op
              /\ q.id = req[r].id /\ q.account = req[r].account
    BY ReplyRecord
<1>2. req'[r] = q /\ \A p \in Requests \ {r} : req'[p] = req[p]
    BY <1>1, Moved DEF OnlyRequest
<1>3. HandlingOK(r)
    BY DEF Agreed
<1>4. HandlingOK(r)'
    BY <1>1, <1>2, <1>3, HandlingAtReply
<1>5. \A p \in Requests \ {r} :
          req[p].at # "idle" /\ req[p].op = "start" => q.id # req[p].id
    BY <1>1 DEF Agreed, HandlingOK, StartOK
<1> QED
    BY <1>1, <1>4, <1>5, WorkAgrees DEF Holding

LEMMA AskAgrees ==
    ASSUME Inv, Agreed, NEW r \in Requests, Ask(r)
    PROVE  Agreed'
<1>1. /\ UNCHANGED <<identity, attempts, provider, overtaken>> /\ req[r].at = "idle"
    BY DEF Ask, BeginStart, BeginOn, Begin, At, tables
<1>2. ResultsKept /\ req[r].at \notin Holding
    BY <1>1 DEF ResultsKept, Holding
<1>3. {"find_identity", "find_attempt"} \subseteq Places
    BY DEF Places
<1>4. ASSUME NEW u \in Accounts, BeginStart(r, u)
      PROVE  Agreed'
    <2> DEFINE a == CHOOSE x \in FreshAttempts : TRUE
               q == [Idle EXCEPT !.at = "find_identity", !.account = u, !.id = a]
    <2>1. /\ a \in AttemptIds /\ attempts[a] = Settled(None)
          /\ \A p \in Requests : req[p].id # a
        BY <1>4 DEF BeginStart, FreshAttempts
    <2>2. req' = [req EXCEPT ![r] = q]
        BY <1>4 DEF BeginStart, Begin
    <2> HIDE DEF a
    <2>3. q \in RequestState
        BY <1>3, <2>1, IdleType DEF RequestState
    <2>4. q.at = "find_identity" /\ q.op = "start" /\ q.account = u /\ q.id = a
        BY DEF Idle
    <2> HIDE DEF q
    <2>5. req'[r] = q /\ \A p \in Requests \ {r} : req'[p] = req[p]
        BY <2>2, <2>3, Moved DEF OnlyRequest
    <2>6. StartOK(r)' /\ ReadOK(r)' /\ WriteOK(r)'
        BY <1>1, <2>1, <2>4, <2>5 DEF StartOK, ReadOK, WriteOK, Settled
    <2> QED
        BY <1>1, <1>2, <2>1, <2>2, <2>3, <2>4, <2>6, WorkAgrees DEF HandlingOK
<1>5. ASSUME NEW u \in Accounts, NEW a \in AttemptIds,
             NEW op \in {"capture", "submit", "result"}, BeginOn(r, op, u, a)
      PROVE  Agreed'
    <2> DEFINE q == [Idle EXCEPT !.at = "find_attempt", !.op = op, !.account = u, !.id = a]
    <2>1. op \in Ops
        BY DEF Ops
    <2>2. req' = [req EXCEPT ![r] = q] /\ Attempt[a] # None
        BY <1>5 DEF BeginOn, Begin
    <2>3. q \in RequestState
        BY <1>3, <2>1, IdleType DEF RequestState
    <2>4. q.at = "find_attempt" /\ q.op = op /\ q.account = u /\ q.id = a
        BY DEF Idle
    <2> HIDE DEF q
    <2>5. req'[r] = q
        BY <2>2, <2>3, Moved
    <2>6. attempts[a].row # None
        BY <2>2, TablesType DEF Attempt, Stored
    <2>7. StartOK(r)' /\ ReadOK(r)' /\ WriteOK(r)'
        BY <1>1, <2>4, <2>5, <2>6 DEF StartOK, ReadOK, WriteOK
    <2>8. \A p \in Requests \ {r} :
              req[p].at # "idle" /\ req[p].op = "start" => q.id # req[p].id
        BY <2>4, <2>6 DEF Agreed, HandlingOK, StartOK
    <2> QED
        BY <1>1, <1>2, <2>2, <2>3, <2>7, <2>8, WorkAgrees DEF HandlingOK
<1> QED
    BY <1>4, <1>5 DEF Ask

(* A request that goes on with the attempt it is on.                         *)
LEMMA GoesOnAgrees ==
    ASSUME Inv, Agreed, NEW r \in Requests, NEW q \in RequestState,
           req' = [req EXCEPT ![r] = q], q.id = req[r].id, req[r].at \notin Holding \cup {"idle"},
           UNCHANGED <<identity, attempts, overtaken>>, ResultsKept, HandlingOK(r)'
    PROVE  Agreed'
<1>1. \A p \in Requests \ {r} :
          req[p].at # "idle" /\ req[p].op = "start" => q.id # req[p].id
    BY DEF Agreed, HandlingOK, StartOK
<1> QED
    BY <1>1, WorkAgrees

LEMMA FindIdentityAgrees ==
    ASSUME Inv, Agreed, NEW r \in Requests, FindIdentity(r)
    PROVE  Agreed'
<1> DEFINE was == Seen(identity, r)[req[r].account]
           place == IF req[r].op = "start" THEN "find_open" ELSE "fetch_result"
           q == [req[r] EXCEPT !.was = was, !.at = place]
<1>1. /\ req[r] \in RequestState /\ req[r].at = "find_identity" /\ HandlingOK(r)
      /\ req[r].account \in Accounts
      /\ UNCHANGED <<identity, attempts, provider, overtaken>>
    BY AtWork DEF FindIdentity, At, tables
<1>2. was \in IdentityRow
    <2>1. identity \in [Accounts -> Versions(IdentityRow, Requests)]
        BY TablesType
    <2> QED
        BY <1>1, <2>1, TableTypes DEF Seen, Versions
<1>3. place \in Places
    BY DEF Places
<1>4. req' = [req EXCEPT ![r] = q]
    BY <1>1, RequestType DEF FindIdentity, RequestState
<1> HIDE DEF was
<1>5. /\ q \in RequestState /\ q.at = place /\ q.account = req[r].account /\ q.id = req[r].id
      /\ q.read = req[r].read /\ q.op = req[r].op
    BY <1>1, <1>2, <1>3 DEF RequestState
<1> HIDE DEF q
<1>6. req'[r] = q /\ \A p \in Requests \ {r} : req'[p] = req[p]
    BY <1>4, <1>5, Moved DEF OnlyRequest
<1>7. StartOK(r)'
    BY <1>1, <1>5, <1>6 DEF HandlingOK, StartOK
<1>8. ReadOK(r)'
    BY <1>1, <1>5, <1>6 DEF HandlingOK, ReadOK
<1>9. WriteOK(r)'
    BY <1>1, <1>5, <1>6 DEF HandlingOK, WriteOK
<1> QED
    BY <1>1, <1>4, <1>5, <1>7, <1>8, <1>9, GoesOnAgrees DEF HandlingOK, ResultsKept, Holding

LEMMA FindOpenAgrees ==
    ASSUME Inv, Agreed, NEW r \in Requests, FindOpen(r)
    PROVE  Agreed'
<1>1. /\ req[r] \in RequestState /\ req[r].at = "find_open" /\ HandlingOK(r)
      /\ req[r].account \in Accounts /\ ResultsKept
      /\ UNCHANGED <<identity, attempts, overtaken>>
    BY AtWork DEF FindOpen, At, tables, ResultsKept
<1>2. req[r].op = "start"
    BY <1>1 DEF HandlingOK, ReadOK
<1>3. CASE Reply(r)
    BY <1>1, <1>3, RefusalAgrees DEF Holding
<1>4. CASE ~Reply(r)
    <2> DEFINE becomes == Planned(req[r].account)
               q == [req[r] EXCEPT !.to = "pending", !.becomes = becomes, !.at = "write_identity"]
    <2>1. /\ MayMoveIdentity(req[r].was.state, "submit_verification", 0, FALSE)
          /\ req' = [req EXCEPT ![r].to = IdentityMoves["submit_verification"].to,
                                ![r].becomes = becomes, ![r].at = "write_identity"]
        BY <1>4 DEF FindOpen
    <2>2. /\ IdentityMoves["submit_verification"].to = "pending"
          /\ "review_required" \notin IdentityMoves["submit_verification"].from
        BY DEF IdentityMoves, IdentityMove
    <2>3. becomes \in AttemptRow /\ "pending" \in IdentityStates /\ "write_identity" \in Places
        <3>1. AttemptMoves["begin_capture"].to \in AttemptStates
            BY AttemptMovesType DEF AttemptMoves
        <3> QED
            BY <1>1, <3>1 DEF Planned, AttemptRow, IdentityStates, Places
    <2>4. req[r].was.state # "review_required"
        BY <2>1, <2>2 DEF MayMoveIdentity
    <2> HIDE DEF becomes
    <2>5. req' = [req EXCEPT ![r] = q]
        BY <1>1, <2>1, <2>2, RequestType DEF RequestState
    <2>6. /\ q \in RequestState /\ q.at = "write_identity" /\ q.account = req[r].account
          /\ q.id = req[r].id /\ q.op = req[r].op /\ q.to = "pending" /\ q.becomes = becomes
          /\ q.was = req[r].was
        BY <1>1, <2>3 DEF RequestState
    <2> HIDE DEF q
    <2>7. req'[r] = q /\ \A p \in Requests \ {r} : req'[p] = req[p]
        BY <2>5, <2>6, Moved DEF OnlyRequest
    <2>8. StartOK(r)'
        BY <1>1, <1>2, <2>4, <2>6, <2>7 DEF HandlingOK, StartOK, becomes
    <2>9. ReadOK(r)' /\ WriteOK(r)'
        BY <1>2, <2>6, <2>7 DEF ReadOK, WriteOK
    <2> QED
        BY <1>1, <2>5, <2>6, <2>8, <2>9, GoesOnAgrees DEF HandlingOK, Holding
<1> QED
    BY <1>3, <1>4

LEMMA FindAttemptAgrees ==
    ASSUME Inv, Agreed, NEW r \in Requests, FindAttempt(r)
    PROVE  Agreed'
<1>1. /\ req[r] \in RequestState /\ req[r].at = "find_attempt" /\ HandlingOK(r)
      /\ req[r].account \in Accounts /\ req[r].id \in AttemptIds /\ ResultsKept
      /\ UNCHANGED <<identity, attempts, provider, overtaken>>
    BY AtWork DEF FindAttempt, At, tables, ResultsKept
<1>2. req[r].op # "start"
    BY <1>1 DEF HandlingOK, StartOK
<1>3. PICK row : row = attempts[req[r].id].row
    OBVIOUS
<1>4. Seen(attempts, r)[req[r].id] = row
    BY <1>1, <1>3, HoldsNeither, TablesType DEF Seen
<1>5. row \in AttemptRow \cup {None} /\ SettledAs(provider, row)
    BY <1>1, <1>3, AtWork DEF AttemptOK
<1>6. ASSUME NEW becomes \in AttemptRow \cup {None},
             NEW place \in {"write_attempt", "start_session", "find_identity"},
             req' = [req EXCEPT ![r].read = row, ![r].becomes = becomes, ![r].at = place],
             row # None, row.owner = req[r].account,
             \/ place = "find_identity" /\ req[r].op = "result"
             \/ /\ place # "find_identity" /\ req[r].op # "result" /\ row.state = "capturing"
                /\ becomes.owner = req[r].account /\ becomes.state \in Sending
                /\ place = "start_session" => becomes.state = "awaiting_provider"
                /\ place = "write_attempt" => SettledAs(provider, becomes)
      PROVE  Agreed'
    <2> DEFINE q == [req[r] EXCEPT !.read = row, !.becomes = becomes, !.at = place]
    <2>1. req' = [req EXCEPT ![r] = q]
        BY <1>1, <1>6, RequestType DEF RequestState
    <2>2. place \in Places /\ place \notin {"idle", "find_open", "insert_attempt", "find_attempt", "reply"}
        BY DEF Places
    <2>3. /\ q \in RequestState /\ q.at = place /\ q.account = req[r].account
          /\ q.id = req[r].id /\ q.op = req[r].op /\ q.read = row /\ q.becomes = becomes
        BY <1>1, <1>5, <2>2 DEF RequestState
    <2> HIDE DEF q
    <2>4. req'[r] = q
        BY <2>1, <2>3, Moved
    <2>5. StartOK(r)'
        BY <1>2, <2>3, <2>4 DEF StartOK
    <2>6. ReadOK(r)'
        <3>1. row \in AttemptRow
            BY <1>5, <1>6
        <3> QED
            BY <1>1, <1>3, <1>5, <1>6, <2>2, <2>3, <2>4, <3>1 DEF ReadOK
    <2>7. WriteOK(r)'
        BY <1>1, <1>6, <2>2, <2>3, <2>4 DEF WriteOK
    <2> QED
        BY <1>1, <2>1, <2>3, <2>5, <2>6, <2>7, GoesOnAgrees DEF HandlingOK, Holding
<1>7. CASE Reply(r)
    BY <1>1, <1>7, RefusalAgrees DEF Holding
<1>8. ASSUME NEW check \in REQUIRED_CHECKS, row # None, row.owner = req[r].account,
             req[r].op = "capture", MayCapture(row),
             req' = [req EXCEPT ![r].read = row, ![r].becomes = Captured(row, check),
                                ![r].at = "write_attempt"]
      PROVE  Agreed'
    <2>1. row.state = "capturing" /\ row \in AttemptRow /\ row.session = None
        BY <1>5, <1>8
           DEF MayCapture, MayMoveAttempt, AttemptMoves, IdentityMove, SettledAs
    <2> DEFINE becomes == Captured(row, check)
    <2>2. /\ becomes \in AttemptRow /\ becomes.state = "capturing" /\ becomes.session = None
          /\ becomes.owner = row.owner
        <3>1. AttemptMoves["record_capture"].to = "capturing" /\ "capturing" \in AttemptStates
            BY DEF AttemptMoves, IdentityMove, AttemptStates, LiveAttempt
        <3> QED
            BY <2>1, <3>1 DEF Captured, AttemptRow
    <2>3. SettledAs(provider, becomes)
        <3> HIDE DEF becomes
        <3> QED
            BY <2>2 DEF SettledAs, Sending, Settling
    <2> QED
        BY <1>6, <1>8, <2>1, <2>2, <2>3 DEF Sending
<1>9. ASSUME row # None, row.owner = req[r].account, req[r].op = "submit", MaySubmit(row),
             req' = [req EXCEPT ![r].read = row,
                                ![r].becomes = [row EXCEPT !.state = AttemptMoves["submit_to_provider"].to],
                                ![r].at = "start_session"]
      PROVE  Agreed'
    <2>1. row.state = "capturing" /\ row \in AttemptRow
        BY <1>5, <1>9
           DEF MaySubmit, MayMoveAttempt, AttemptMoves, IdentityMove, SettledAs
    <2> DEFINE becomes == [row EXCEPT !.state = AttemptMoves["submit_to_provider"].to]
    <2>2. becomes \in AttemptRow /\ becomes.state = "awaiting_provider" /\ becomes.owner = row.owner
        <3>1. AttemptMoves["submit_to_provider"].to = "awaiting_provider"
              /\ "awaiting_provider" \in AttemptStates
            BY DEF AttemptMoves, IdentityMove, AttemptStates, LiveAttempt
        <3> QED
            BY <2>1, <3>1 DEF AttemptRow
    <2> QED
        BY <1>6, <1>9, <2>1, <2>2 DEF Sending
<1>10. ASSUME row # None, row.owner = req[r].account, req[r].op = "result",
              req' = [req EXCEPT ![r].read = row, ![r].becomes = None, ![r].at = "find_identity"]
       PROVE  Agreed'
    BY <1>6, <1>10
<1> QED
    BY <1>4, <1>7, <1>8, <1>9, <1>10 DEF FindAttempt

LEMMA StartSessionAgrees ==
    ASSUME Inv, Agreed, NEW r \in Requests, StartSession(r)
    PROVE  Agreed'
<1>1. /\ req[r] \in RequestState /\ req[r].at = "start_session" /\ HandlingOK(r)
      /\ UNCHANGED <<identity, attempts, overtaken>>
      /\ req[r].becomes \in AttemptRow
    BY AtWork, RequestType DEF StartSession, At, tables, Known, HandlerOK
<1>2. ResultsKept
    <2>1. \A s : provider' = [provider EXCEPT ![s].attempt = req[r].id] => ResultsKept
        BY TablesType DEF ResultsKept
    <2>2. UNCHANGED provider => ResultsKept
        BY DEF ResultsKept
    <2> QED
        BY <2>1, <2>2 DEF StartSession
<1>3. CASE Reply(r)
    BY <1>1, <1>2, <1>3, RefusalAgrees DEF Holding
<1>4. CASE ~Reply(r)
    <2>1. PICK s \in SessionIds :
              req' = [req EXCEPT ![r].becomes.reference = s, ![r].becomes.session = s,
                                 ![r].at = "write_attempt"]
        BY <1>4 DEF StartSession, NewSession, FreshSessions
    <2> DEFINE becomes == [req[r].becomes EXCEPT !.reference = s, !.session = s]
               q == [req[r] EXCEPT !.becomes = becomes, !.at = "write_attempt"]
    <2>2. /\ req[r].op # "start" /\ req[r].op # "result" /\ req[r].read.state = "capturing"
          /\ req[r].becomes.owner = req[r].account /\ req[r].becomes.state = "awaiting_provider"
        BY <1>1 DEF HandlingOK, StartOK, WriteOK
    <2>3. /\ becomes \in AttemptRow /\ becomes.state = "awaiting_provider" /\ becomes.session = s
          /\ becomes.owner = req[r].account /\ becomes.reference = s
        BY <1>1, <2>2 DEF AttemptRow
    <2>4. s # None
        BY NullAssumption
    <2> HIDE DEF becomes
    <2>5. SettledAs(provider', becomes)
        BY <2>3, <2>4 DEF SettledAs, Sending, Settling
    <2>6. req' = [req EXCEPT ![r] = q]
        BY <1>1, <2>1, RequestType DEF RequestState, becomes
    <2>7. /\ q \in RequestState /\ q.at = "write_attempt" /\ q.account = req[r].account
          /\ q.id = req[r].id /\ q.op = req[r].op /\ q.read = req[r].read /\ q.becomes = becomes
        BY <1>1, <2>3 DEF RequestState, Places
    <2> HIDE DEF q
    <2>8. req'[r] = q
        BY <2>6, <2>7, Moved
    <2>9. StartOK(r)'
        BY <2>2, <2>7, <2>8 DEF StartOK
    <2>10. ReadOK(r)'
        <3>1. /\ req[r].read \in AttemptRow /\ req[r].read # None
              /\ attempts[req[r].id].row # None
              /\ req[r].read.owner = req[r].account
              /\ attempts[req[r].id].row.owner = req[r].account
              /\ SettledAs(provider, req[r].read)
              /\ req[r].read.session # None /\ req[r].id \notin overtaken =>
                     attempts[req[r].id].row.session = req[r].read.session
            BY <1>1, <2>2 DEF HandlingOK, ReadOK
        <3>2. SettledAs(provider', req[r].read)
            BY <1>2, <3>1, SettledKept
        <3> QED
            BY <1>1, <2>7, <2>8, <3>1, <3>2 DEF ReadOK
    <2>11. WriteOK(r)'
        BY <2>2, <2>3, <2>5, <2>7, <2>8 DEF WriteOK, Sending
    <2> QED
        BY <1>1, <1>2, <2>6, <2>7, <2>9, <2>10, <2>11, GoesOnAgrees DEF HandlingOK, Holding
<1> QED
    BY <1>3, <1>4

(* The escalation is handed two attempts, and looks for three failures.      *)
LEMMA TwoAreNotThree ==
    ASSUME NEW x, NEW y
    PROVE  ~EscalateAfterRepeatedFailure(<<x, y>>)
<1>1. Len(<<x, y>>) = 2
    OBVIOUS
<1>2. TrailingFailures(<<x, y>>) \subseteq 1..2
    BY DEF TrailingFailures
<1> QED
    BY <1>1, <1>2 DEF EscalateAfterRepeatedFailure, ConsecutiveFailuresBeforeReview

(* A result settles the attempt, and moves the identity to agree.            *)
LEMMA CompletionAgrees ==
    ASSUME NEW result, NEW row
    PROVE  LET decision == DecideVerificationOutcome(result, "none")
               event == EventFor(result, row)
           IN  /\ Outcome(result) \in Settling /\ decision \in Decisions
               /\ Agrees(IdentityMoves[event].to, Outcome(result))
               /\ "review_required" \notin IdentityMoves[event].from
               /\ AttemptMoves[AttemptEventOf[decision]].from = {"awaiting_provider"}
               /\ IdentityMoves[event].to \in IdentityStates
<1> DEFINE decision == DecideVerificationOutcome(result, "none")
<1>1. decision \in {"pass", "fail", "manual_review"}
    BY OutcomeType
<1>2. EventFor(result, row) = IdentityEventOf[decision]
    BY TwoAreNotThree DEF EventFor
<1> HIDE DEF decision
<1>3. CASE decision = "pass"
    BY <1>2, <1>3 DEF Outcome, decision, Settling, Decisions, Agrees, IdentityMoves, IdentityMove,
       AttemptMoves, AttemptEventOf, IdentityEventOf, IdentityStates
<1>4. CASE decision = "fail"
    BY <1>2, <1>4 DEF Outcome, decision, Settling, Decisions, Agrees, IdentityMoves, IdentityMove,
       AttemptMoves, AttemptEventOf, IdentityEventOf, IdentityStates
<1>5. CASE decision = "manual_review"
    BY <1>2, <1>5 DEF Outcome, decision, Settling, Decisions, Agrees, IdentityMoves, IdentityMove,
       AttemptMoves, AttemptEventOf, IdentityEventOf, IdentityStates
<1> QED
    BY <1>1, <1>3, <1>4, <1>5 DEF decision

LEMMA FetchResultAgrees ==
    ASSUME Inv, Agreed, NEW r \in Requests, FetchResult(r)
    PROVE  Agreed'
<1>1. /\ req[r] \in RequestState /\ req[r].at = "fetch_result" /\ HandlingOK(r)
      /\ req[r].read \in AttemptRow /\ req[r].was \in IdentityRow
      /\ UNCHANGED <<identity, attempts, overtaken>>
    BY AtWork, RequestType DEF FetchResult, At, tables, Known, HandlerOK, Deciding
<1>2. CASE Reply(r) /\ UNCHANGED provider
    BY <1>1, <1>2, RefusalAgrees DEF Holding, ResultsKept
<1> DEFINE s == req[r].read.reference
<1>3. /\ req[r].op = "result" /\ SettledAs(provider, req[r].read) /\ req[r].read # None
    BY <1>1 DEF HandlingOK, StartOK, WriteOK, ReadOK
<1>4. CASE s \in References \ SessionIds /\ UNCHANGED provider
           /\ \E result \in Results : Complete(r, result)
    <2>1. Reply(r)
        BY <1>1, <1>3, <1>4, CompletesWhatWaits, NullAssumption
           DEF SettledAs, AttemptRow
    <2> QED
        BY <1>2, <1>4, <2>1
<1>5. ASSUME NEW result \in IF provider[s].result = None THEN Results ELSE {provider[s].result},
             s \in SessionIds, provider' = [provider EXCEPT ![s].result = result],
             Complete(r, result)
      PROVE  Agreed'
    <2>1. s \in SessionIds
        BY <1>5
    <2>2. provider' = [provider EXCEPT ![s].result = result] /\ Complete(r, result)
        BY <1>5
    <2>3. result # None /\ provider'[s].result = result /\ ResultsKept
        BY <1>5, <2>1, <2>2, TablesType, NullAssumption DEF ResultsKept
    <2>4. CASE Reply(r)
        BY <1>1, <2>3, <2>4, RefusalAgrees DEF Holding
    <2>5. CASE ~Reply(r)
        <3> DEFINE decision == DecideVerificationOutcome(result, "none")
                   event == EventFor(result, req[r].read)
                   to == IdentityMoves[event].to
                   becomes == Completed(req[r].read, result)
                   q == [req[r] EXCEPT !.to = to, !.becomes = becomes, !.at = "write_identity"]
        <3>1. /\ MayMoveAttempt(req[r].read.state, AttemptEventOf[decision], req[r].read.captured,
                                decision, FALSE)
              /\ MayMoveIdentity(req[r].was.state, event, ConfidenceOf(result), FALSE)
              /\ req' = [req EXCEPT ![r].to = to, ![r].becomes = becomes,
                                    ![r].at = "write_identity"]
            BY <2>2, <2>5 DEF Complete
        <3>2. /\ Outcome(result) = AttemptMoves[AttemptEventOf[decision]].to
              /\ Outcome(result) \in Settling /\ decision \in Decisions
              /\ Agrees(to, Outcome(result)) /\ to \in IdentityStates
              /\ "review_required" \notin IdentityMoves[event].from
              /\ AttemptMoves[AttemptEventOf[decision]].from = {"awaiting_provider"}
            BY CompletionAgrees DEF Outcome
        <3>3. req[r].read.state = "awaiting_provider" /\ req[r].was.state # "review_required"
            BY <3>1, <3>2 DEF MayMoveAttempt, MayMoveIdentity
        <3> HIDE DEF decision, event
        <3>4. Outcome(result) \in AttemptStates
            BY <3>2 DEF Settling, AttemptStates, TerminalAttempt
        <3>5. /\ becomes \in AttemptRow /\ becomes.state = Outcome(result)
              /\ becomes.owner = req[r].read.owner
              /\ becomes.session = s /\ req[r].read.session = s
            <4>1. result.reference \in References
                BY <1>5, TablesType, NullAssumption, ResultsAssumption
            <4>2. req[r].read.session = s
                BY <1>3, <3>3 DEF SettledAs
            <4> QED
                BY <1>1, <4>1, <4>2, CompletedAs
        <3> HIDE DEF to, becomes
        <3>6. req' = [req EXCEPT ![r] = q]
            BY <1>1, <3>1, RequestType DEF RequestState
        <3>7. /\ q \in RequestState /\ q.at = "write_identity" /\ q.account = req[r].account
              /\ q.id = req[r].id /\ q.op = req[r].op /\ q.read = req[r].read /\ q.was = req[r].was
              /\ q.to = to /\ q.becomes = becomes
            BY <1>1, <3>2, <3>5 DEF RequestState, Places
        <3> HIDE DEF q
        <3>8. req'[r] = q
            BY <3>6, <3>7, Moved
        <3>9. req[r].op = "result"
            BY <1>1 DEF HandlingOK, StartOK, WriteOK
        <3>10. /\ req[r].read # None /\ attempts[req[r].id].row # None
               /\ req[r].read.owner = req[r].account
               /\ attempts[req[r].id].row.owner = req[r].account
               /\ SettledAs(provider, req[r].read)
               /\ req[r].read.session # None /\ req[r].id \notin overtaken =>
                      attempts[req[r].id].row.session = req[r].read.session
            BY <1>1, <3>9 DEF HandlingOK, ReadOK
        <3>11. SettledAs(provider', becomes) /\ SettledAs(provider', req[r].read)
            <4>1. becomes.session # None
                BY <2>1, <3>5, NullAssumption
            <4>2. /\ becomes.state \notin {"capturing", "awaiting_provider"}
                  /\ becomes.state \in Settling
                BY <3>2, <3>5 DEF Settling
            <4> QED
                BY <1>1, <2>3, <3>5, <3>10, <4>1, <4>2, SettledKept DEF SettledAs
        <3>12. StartOK(r)'
            BY <3>7, <3>8, <3>9 DEF StartOK
        <3>13. ReadOK(r)'
            <4>1. req'[r].read = req[r].read /\ req'[r].id = req[r].id
                  /\ req'[r].account = req[r].account /\ req'[r].at = "write_identity"
                BY <3>7, <3>8
            <4> QED
                BY <1>1, <3>10, <3>11, <4>1 DEF ReadOK
        <3>14. WriteOK(r)'
            BY <3>2, <3>3, <3>5, <3>7, <3>8, <3>9, <3>10, <3>11 DEF WriteOK
        <3> QED
            BY <1>1, <2>3, <3>6, <3>7, <3>12, <3>13, <3>14, GoesOnAgrees DEF HandlingOK, Holding
    <2> QED
        BY <2>4, <2>5
<1> QED
    BY <1>2, <1>4, <1>5 DEF FetchResult

LEMMA WriteIdentityAgrees ==
    ASSUME Inv, Agreed, NEW r \in Requests, WriteIdentity(r)
    PROVE  Agreed'
<1>1. /\ req[r] \in RequestState /\ req[r].at = "write_identity" /\ HandlingOK(r)
      /\ UNCHANGED <<attempts, provider, overtaken>>
      /\ Known(r)
    BY AtWork, RequestType DEF WriteIdentity, At
<1>2. CASE Reply(r) /\ UNCHANGED identity
    BY <1>1, <1>2, RefusalAgrees DEF Holding, ResultsKept
<1>3. CASE ~(Reply(r) /\ UNCHANGED identity)
    <2>1. PICK u \in Accounts : u = req[r].account
        BY <1>1, AtWork
    <2>2. identity[u].by = None
        BY <1>1, <1>3, <2>1, HoldsNeither DEF WriteIdentity, FreeFor, Holding
    <2>3. Seen(identity, r)[u] = identity[u].row
        BY <2>2, TablesType, NullAssumption DEF Seen
    <2> DEFINE next == [state |-> req[r].to, generation |-> identity[u].row.generation + 1,
                        latest |-> req[r].id]
               place == IF req[r].op = "start" THEN "insert_attempt" ELSE "write_attempt"
               q == [req[r] EXCEPT !.at = place]
    <2>4. /\ identity[u].row.generation = req[r].was.generation
          /\ identity' = Put(identity, u, r, next)
          /\ req' = [req EXCEPT ![r].at = place]
        BY <1>3, <2>1, <2>3 DEF WriteIdentity, MayWrite, Goto
    <2>5. /\ identity'[u].by = r /\ identity'[u].next = next
          /\ identity'[u].row = identity[u].row
          /\ \A v \in Accounts \ {u} : identity'[v] = identity[v]
        BY <2>4, TablesType DEF Put
    <2>6. /\ next.state = req[r].to /\ next.latest = req[r].id
        OBVIOUS
    <2>7. identity[u].row.state = req[r].was.state
        BY <1>1, <2>1, <2>4 DEF Known, WasOK, Deciding
    <2>8. /\ req[r].was.state # "review_required"
          /\ Agrees(req[r].to, req[r].becomes.state)
        <3>1. CASE req[r].op = "start"
            <4>1. /\ req[r].was.state # "review_required" /\ req[r].to = "pending"
                  /\ req[r].becomes = Planned(req[r].account)
                BY <1>1, <3>1 DEF HandlingOK, StartOK
            <4>2. Planned(req[r].account).state = "capturing"
                BY DEF Planned, AttemptMoves, IdentityMove
            <4> QED
                BY <4>1, <4>2 DEF Agrees, Sending
        <3>2. CASE req[r].op # "start"
            BY <1>1, <3>2 DEF HandlingOK, WriteOK
        <3> QED
            BY <3>1, <3>2
    <2> HIDE DEF next
    <2>9. place \in Places /\ place \in {"insert_attempt", "write_attempt"}
        BY DEF Places
    <2>10. req' = [req EXCEPT ![r] = q]
        BY <2>4, RequestType
    <2>11. /\ q \in RequestState /\ q.at = place /\ q.account = u /\ q.id = req[r].id
           /\ q.op = req[r].op /\ q.read = req[r].read /\ q.becomes = req[r].becomes
        BY <1>1, <2>1, <2>9 DEF RequestState
    <2> HIDE DEF q
    <2>12. req'[r] = q /\ \A p \in Requests \ {r} : req'[p] = req[p]
        BY <2>10, <2>11, Moved DEF OnlyRequest
    <2>13. /\ \A v \in Accounts : identity[v].by # r
           /\ \A a \in AttemptIds : attempts[a].by # r
        BY <1>1, HoldsNeither DEF Holding
    <2>14. ASSUME NEW v \in Accounts
           PROVE  AgreesOK(v)' /\ MovesOK(v)'
        <3>1. AgreesOK(v) /\ MovesOK(v) /\ identity[v].by \in Requests \cup {None}
              /\ identity'[v].row = identity[v].row
            BY <2>5, TablesType DEF Agreed, Versions
        <3>2. AgreesOK(v)'
            BY <1>1, <3>1 DEF AgreesOK
        <3>3. CASE v = u
            <4>1. req[r].op \in {"start", "result"}
                BY <1>1 DEF HandlingOK, WriteOK
            <4>2. MovesOK(u)'
                BY <2>5, <2>6, <2>7, <2>8, <2>9, <2>11, <2>12, <4>1 DEF MovesOK
            <4> QED
                BY <3>2, <3>3, <4>2
        <3>4. CASE v # u
            <4>1. /\ identity'[v] = identity[v]
                  /\ identity[v].by # None => req'[identity[v].by] = req[identity[v].by]
                BY <2>5, <2>12, <2>13, <3>1, <3>4
            <4>2. MovesOK(v)'
                BY <1>1, <3>1, <4>1, MovesKept
            <4> QED
                BY <3>2, <4>2
        <3> QED
            BY <3>3, <3>4
    <2>15. ASSUME NEW a \in AttemptIds
           PROVE  AttemptOK(a)'
        <3>1. AttemptOK(a) /\ attempts[a].by \in Requests \cup {None}
            BY TablesType DEF Agreed, Versions
        <3>2. attempts[a].by # None => /\ req'[attempts[a].by] = req[attempts[a].by]
                                       /\ req[attempts[a].by].account \in Accounts
            BY <2>12, <2>13, <3>1, AtWork DEF AttemptOK
        <3>3. \A v \in Accounts, p \in Requests \ {r} : identity[v].by = p => identity'[v].by = p
            BY <2>2, <2>5, NullAssumption
        <3> QED
            BY <1>1, <2>13, <3>1, <3>2, <3>3 DEF AttemptOK
    <2>16. ASSUME NEW p \in Requests, p # r
           PROVE  HandlingOK(p)'
        <3>1. /\ HandlingOK(p) /\ req'[p] = req[p]
              /\ req[p].at # "idle" => req[p].account \in Accounts
            BY <2>12, <2>16, AtWork DEF Agreed
        <3>2. \A v \in Accounts : identity[v].by = p => identity'[v].by = p
            BY <2>2, <2>5, <2>16, NullAssumption
        <3>3. StartOK(p)'
            BY <1>1, <2>11, <2>12, <3>1, <3>2 DEF HandlingOK, StartOK
        <3>4. ReadOK(p)' /\ WriteOK(p)'
            BY <1>1, <3>1, <3>2 DEF HandlingOK, ReadOK, WriteOK
        <3> QED
            BY <3>3, <3>4 DEF HandlingOK
    <2>17. StartOK(r)'
        BY <1>1, <2>1, <2>5, <2>11, <2>12 DEF HandlingOK, StartOK
    <2>18. ReadOK(r)'
        BY <1>1, <2>1, <2>11, <2>12 DEF HandlingOK, ReadOK
    <2>19. WriteOK(r)'
        BY <1>1, <2>1, <2>5, <2>11, <2>12 DEF HandlingOK, WriteOK
    <2> QED
        BY <2>12, <2>14, <2>15, <2>16, <2>17, <2>18, <2>19 DEF Agreed, HandlingOK
<1> QED
    BY <1>2, <1>3

(* A request that answers without having written its attempt.                *)
LEMMA UnwrittenAgrees ==
    ASSUME Inv, Agreed, NEW r \in Requests, NEW a \in AttemptIds, NEW u \in Accounts,
           req[r].at = "write_attempt", Reply(r), a = req[r].id, u = req[r].account,
           attempts[a].by = None, attempts[a].row # None, attempts[a].row.owner = u,
           UNCHANGED <<identity, attempts, provider, overtaken>>,
           \/ identity[u].next.state = "review_required" /\ a \in overtaken
           \/ \A v \in Accounts : identity[v].by # r
    PROVE  Agreed'
<1>1. PICK q \in RequestState :
              /\ req' = [req EXCEPT ![r] = q] /\ q.at = "reply" /\ q.op = req[r].op
              /\ q.id = a /\ q.account = u
    BY ReplyRecord
<1>2. req'[r] = q /\ \A p \in Requests \ {r} : req'[p] = req[p]
    BY <1>1, Moved DEF OnlyRequest
<1>3. HandlingOK(r) /\ r # None
    BY NullAssumption DEF Agreed
<1>4. ASSUME NEW v \in Accounts
      PROVE  AgreesOK(v)' /\ MovesOK(v)'
    <2>1. AgreesOK(v) /\ MovesOK(v) /\ identity[v].by \in Requests \cup {None}
        BY TablesType DEF Agreed, Versions
    <2>2. AgreesOK(v)'
        BY <2>1 DEF AgreesOK
    <2>3. CASE identity[v].by = r
        <3>1. u = v /\ identity[v].next.latest = a
              /\ identity[v].row.state # "review_required" /\ req[r].op \in {"start", "result"}
            BY <1>3, <2>1, <2>3 DEF MovesOK
        <3>2. MovesOK(v)'
            BY <1>1, <1>2, <1>3, <2>3, <3>1 DEF MovesOK
        <3> QED
            BY <2>2, <3>2
    <2>4. CASE identity[v].by # r
        BY <1>2, <2>1, <2>2, <2>4 DEF MovesOK
    <2> QED
        BY <2>3, <2>4
<1>5. ASSUME NEW b \in AttemptIds
      PROVE  AttemptOK(b)'
    <2>1. AttemptOK(b) /\ attempts[b].by \in Requests \cup {None} /\ attempts[b].by # r
        BY <1>3, TablesType, HoldsNeither DEF Agreed, Versions
    <2> QED
        BY <1>2, <2>1 DEF AttemptOK
<1>6. ASSUME NEW p \in Requests, p # r
      PROVE  HandlingOK(p)'
    <2>1. HandlingOK(p) /\ req'[p] = req[p]
        BY <1>2, <1>6 DEF Agreed
    <2>2. StartOK(p)'
        BY <1>1, <1>2, <2>1 DEF HandlingOK, StartOK
    <2> QED
        BY <2>1, <2>2 DEF HandlingOK, ReadOK, WriteOK
<1>7. HandlingOK(r)'
    BY <1>1, <1>2, <1>3, HandlingAtReply
<1> QED
    BY <1>2, <1>4, <1>5, <1>6, <1>7 DEF Agreed

(* The last statement of a request puts a row over the one that is stored.   *)
LEMMA PutAgrees ==
    ASSUME Inv, Agreed, NEW r \in Requests, NEW a \in AttemptIds, NEW next \in AttemptRow,
           NEW u \in Accounts,
           req[r].at \in {"insert_attempt", "write_attempt"}, Reply(r),
           a = req[r].id, u = req[r].account, next = req[r].becomes,
           attempts[a].by = None, attempts' = Put(attempts, a, r, next),
           UNCHANGED <<identity, provider>>, overtaken \subseteq overtaken',
           SettledAs(provider, next), next.owner = u,
           attempts[a].row = None \/ next.state \in Settling => identity[u].by = r,
           attempts[a].row # None =>
               /\ attempts[a].row.owner = u
               /\ next.state \notin Settling =>
                      /\ attempts[a].row.state \notin TerminalAttempt
                      /\ attempts[a].row.state = "manual_review" => a \in overtaken'
               /\ a \notin overtaken' /\ attempts[a].row.session # None =>
                      next.session = attempts[a].row.session
    PROVE  Agreed'
<1>1. PICK q \in RequestState :
              /\ req' = [req EXCEPT ![r] = q] /\ q.at = "reply" /\ q.op = req[r].op
              /\ q.id = a /\ q.account = u
    BY ReplyRecord
<1>2. req'[r] = q /\ \A p \in Requests \ {r} : req'[p] = req[p]
    BY <1>1, Moved DEF OnlyRequest
<1>3. /\ attempts'[a] = [row |-> attempts[a].row, next |-> next, by |-> r]
      /\ \A b \in AttemptIds \ {a} : attempts'[b] = attempts[b]
      /\ \A b \in AttemptIds : attempts'[b].row = attempts[b].row
    BY TablesType DEF Put
<1>4. HandlingOK(r) /\ next # None /\ r # None
    BY NullAssumption, NoAttemptAssumption DEF Agreed
<1>5. ASSUME NEW v \in Accounts
      PROVE  AgreesOK(v)' /\ MovesOK(v)'
    <2>1. AgreesOK(v) /\ MovesOK(v) /\ identity[v].by \in Requests \cup {None}
        BY TablesType DEF Agreed, Versions
    <2>2. AgreesOK(v)'
        BY <1>3, <2>1 DEF AgreesOK
    <2>3. CASE identity[v].by = r
        <3>1. /\ u = v /\ identity[v].next.latest = a
              /\ identity[v].row.state # "review_required" /\ req[r].op \in {"start", "result"}
              /\ Agrees(identity[v].next.state, next.state)
            BY <1>4, <2>1, <2>3 DEF MovesOK
        <3>2. attempts'[a].by = r /\ attempts'[a].next = next
            BY <1>3
        <3>3. /\ identity'[v] = identity[v] /\ req'[r] = q
              /\ q.account = v /\ q.id = a /\ q.op = req[r].op /\ q.at = "reply"
            BY <1>1, <1>2, <3>1
        <3>4. MovesOK(v)'
            BY <2>3, <3>1, <3>2, <3>3, MovesNow
        <3> QED
            BY <2>2, <3>4
    <2>4. CASE identity[v].by # r
        <3>1. PICK p : p = identity[v].by
            OBVIOUS
        <3>2. p # None => p \in Requests /\ p # r /\ req'[p] = req[p]
            BY <1>2, <2>1, <2>4, <3>1
        <3>3. PICK b : b = req[p].id
            OBVIOUS
        <3>4. p # None /\ req[p].at = "reply" => b \in AttemptIds
            BY <3>2, <3>3, AtWork
        <3>5. b = a => attempts[b].by # p \/ p = None
            BY <3>1
        <3>6. b = a => attempts'[b].by = r /\ attempts'[b].row = attempts[b].row
            BY <1>3
        <3>7. b \in AttemptIds /\ b # a => attempts'[b] = attempts[b]
            BY <1>3
        <3>8. MovesOK(v)'
            BY <2>1, <3>1, <3>2, <3>3, <3>4, <3>5, <3>6, <3>7, MovesKept
        <3> QED
            BY <2>2, <3>8
    <2> QED
        BY <2>3, <2>4
<1>6. ASSUME NEW b \in AttemptIds
      PROVE  AttemptOK(b)'
    <2>1. AttemptOK(b) /\ attempts[b].by \in Requests \cup {None}
        BY TablesType DEF Agreed, Versions
    <2>2. CASE b = a
        <3>1. /\ attempts'[a].row = attempts[a].row /\ attempts'[a].next = next
              /\ attempts'[a].by = r
            BY <1>3
        <3>2. req'[r].id = a /\ req'[r].at = "reply" /\ req'[r].account = u
            BY <1>1, <1>2
        <3>3. SettledAs(provider', attempts[a].row) /\ SettledAs(provider', next)
            BY <2>1, <2>2 DEF AttemptOK
        <3>4. identity'[u].by = identity[u].by
            OBVIOUS
        <3>5. AttemptOK(a)'
            BY <1>4, <3>1, <3>2, <3>3, <3>4, AttemptNow
        <3> QED
            BY <2>2, <3>5
    <2>3. CASE b # a
        <3>1. attempts[b].by # r
            BY <2>1, <2>3, <1>4 DEF AttemptOK
        <3>2. attempts[b].by # None => req'[attempts[b].by] = req[attempts[b].by]
            BY <1>2, <2>1, <3>1
        <3>3. attempts'[b] = attempts[b]
            BY <1>3, <2>3
        <3> QED
            BY <2>1, <3>2, <3>3 DEF AttemptOK
    <2> QED
        BY <2>2, <2>3
<1>7. ASSUME NEW p \in Requests, p # r
      PROVE  HandlingOK(p)'
    <2>1. /\ HandlingOK(p) /\ req'[p] = req[p]
          /\ req[p].at # "idle" => req[p].id \in AttemptIds
        BY <1>2, <1>7, AtWork DEF Agreed
    <2>2. StartOK(p)'
        <3>1. SUFFICES ASSUME req[p].at # "idle", req[p].op = "start"
                       PROVE  StartOK(p)'
            BY <2>1 DEF StartOK
        <3>2. req[p].id # a
            BY <1>7, <2>1, <3>1 DEF HandlingOK, StartOK
        <3>3. attempts'[req[p].id] = attempts[req[p].id]
            BY <1>3, <2>1, <3>1, <3>2
        <3> QED
            BY <1>1, <1>2, <2>1, <3>3 DEF HandlingOK, StartOK
    <2>3. ReadOK(p)'
        <3>1. SUFFICES ASSUME req[p].at # "idle", req[p].op # "start"
                       PROVE  ReadOK(p)'
            BY <2>1 DEF ReadOK
        <3>2. attempts'[req[p].id].row = attempts[req[p].id].row
            BY <1>3, <2>1, <3>1
        <3> QED
            BY <2>1, <3>2 DEF HandlingOK, ReadOK
    <2>4. WriteOK(p)'
        BY <2>1 DEF HandlingOK, WriteOK
    <2> QED
        BY <2>2, <2>3, <2>4 DEF HandlingOK
<1>8. HandlingOK(r)'
    <2>1. attempts'[a].by = r /\ attempts'[a].row = attempts[a].row
        BY <1>3
    <2>2. req'[r].at = "reply" /\ req'[r].op = req[r].op /\ req'[r].id = a /\ req[r].at # "idle"
        BY <1>1, <1>2
    <2> QED
        BY <1>2, <1>4, <2>1, <2>2, HandlingAtReply
<1> QED
    BY <1>5, <1>6, <1>7, <1>8 DEF Agreed

LEMMA InsertAttemptAgrees ==
    ASSUME Inv, Agreed, NEW r \in Requests, InsertAttempt(r)
    PROVE  Agreed'
<1>1. /\ req[r] \in RequestState /\ req[r].at = "insert_attempt" /\ HandlingOK(r) /\ Reply(r)
      /\ UNCHANGED <<identity, provider, overtaken>>
    BY AtWork DEF InsertAttempt, At
<1>2. PICK a \in AttemptIds, u \in Accounts : a = req[r].id /\ u = req[r].account
    BY <1>1, AtWork
<1>3. /\ attempts[a].by = None /\ attempts' = Put(attempts, a, r, req[r].becomes)
    BY <1>1, <1>2, HoldsNeither DEF InsertAttempt, FreeFor
<1>4. /\ req[r].op = "start" /\ attempts[a].row = None
      /\ req[r].becomes = Planned(u) /\ identity[u].by = r
    BY <1>1, <1>2 DEF HandlingOK, StartOK, ReadOK
<1>5. AttemptMoves["begin_capture"].to = "capturing" /\ "capturing" \in AttemptStates
    BY DEF AttemptMoves, IdentityMove, AttemptStates, LiveAttempt
<1>6. Planned(u) \in AttemptRow
    BY <1>5 DEF Planned, AttemptRow
<1>7. SettledAs(provider, Planned(u)) /\ Planned(u).owner = u
    BY <1>5 DEF Planned, SettledAs, Sending, Settling
<1> QED
    BY <1>1, <1>2, <1>3, <1>4, <1>6, <1>7, PutAgrees

(* A request that finds its attempt closed another way writes nothing; the   *)
(* attempt was set aside then.                                               *)
LEMMA WriteAttemptAgrees ==
    ASSUME Inv, Agreed, NEW r \in Requests, WriteAttempt(r)
    PROVE  Agreed'
<1>1. /\ req[r] \in RequestState /\ req[r].at = "write_attempt" /\ HandlingOK(r) /\ Reply(r)
      /\ UNCHANGED <<identity, provider>> /\ req[r].becomes \in AttemptRow
    BY AtWork, RequestType DEF WriteAttempt, At, Known, HandlerOK
<1>2. PICK a \in AttemptIds, u \in Accounts : a = req[r].id /\ u = req[r].account
    BY <1>1, AtWork
<1> DEFINE row == attempts[a].row
           becomes == req[r].becomes
<1>3. attempts[a].by = None /\ Seen(attempts, r)[a] = row
    BY <1>1, <1>2, HoldsNeither, TablesType DEF WriteAttempt, FreeFor, Seen
<1>4. req[r].op # "start"
    BY <1>1 DEF HandlingOK, StartOK
<1>5. /\ req[r].read # None /\ row # None /\ row.owner = u /\ req[r].read.owner = u
      /\ SettledAs(provider, req[r].read) /\ SettledAs(provider, row)
      /\ req[r].read.session # None /\ a \notin overtaken => row.session = req[r].read.session
    BY <1>1, <1>2, <1>4 DEF HandlingOK, ReadOK, Agreed, AttemptOK
<1>6. becomes.owner = u /\ SettledAs(provider, becomes)
    BY <1>1, <1>2, <1>4 DEF HandlingOK, WriteOK
<1>7. CASE MayPatch(row, becomes)
    <2>1. /\ attempts' = Put(attempts, a, r, becomes)
          /\ overtaken' = overtaken \cup {b \in {a} : row # req[r].read}
        BY <1>2, <1>3, <1>7 DEF WriteAttempt
    <2>2. overtaken \subseteq overtaken' /\ (a \notin overtaken' => row = req[r].read)
        BY <2>1
    <2>3. CASE req[r].op # "result"
        <3>1. req[r].read.state = "capturing" /\ becomes.state \in Sending
            BY <1>1, <1>4, <2>3 DEF HandlingOK, WriteOK
        <3>2. req[r].read.session = None /\ becomes.state \notin Settling
            BY <1>5, <3>1 DEF SettledAs, Sending, Settling
        <3>3. row.state \notin TerminalAttempt
            BY <1>7, <3>1 DEF MayPatch, IsOpenAttempt, Sending, TerminalAttempt
        <3> HIDE DEF row, becomes
        <3>4. row.state = "manual_review" => a \in overtaken'
            BY <2>2, <3>1
        <3>5. a \notin overtaken' => row.session = None
            BY <2>2, <3>2
        <3> QED
            BY <1>1, <1>2, <1>3, <1>5, <1>6, <2>1, <2>2, <3>2, <3>3, <3>4, <3>5, PutAgrees DEF row, becomes
    <2>4. CASE req[r].op = "result"
        <3>1. /\ becomes.state \in Settling /\ becomes.session = req[r].read.session
              /\ identity[u].by = r
            BY <1>1, <1>2, <2>4 DEF HandlingOK, WriteOK
        <3> HIDE DEF row, becomes
        <3>2. a \notin overtaken' => row.session = becomes.session
            BY <2>2, <3>1
        <3> QED
            BY <1>1, <1>2, <1>3, <1>5, <1>6, <2>1, <2>2, <3>1, <3>2, PutAgrees DEF row, becomes
    <2> QED
        BY <2>3, <2>4
<1>8. CASE ~MayPatch(row, becomes)
    <2>1. UNCHANGED <<attempts, overtaken>>
        BY <1>2, <1>3, <1>8 DEF WriteAttempt
    <2>2. row.state \in TerminalAttempt /\ becomes.state \notin TerminalAttempt
        BY <1>8 DEF MayPatch, IsOpenAttempt
    <2>3. CASE req[r].op = "result"
        <3>1. /\ becomes.state \in Settling /\ becomes.session = req[r].read.session
              /\ identity[u].by = r /\ req[r].read.state = "awaiting_provider"
            BY <1>1, <1>2, <2>3 DEF HandlingOK, WriteOK
        <3>2. becomes.state = "manual_review"
            BY <2>2, <3>1 DEF Settling, TerminalAttempt
        <3>3. req[r].read.session # None
            BY <1>5, <3>1 DEF SettledAs
        <3>4. row.state \in Settling
            BY <1>5, <2>2 DEF SettledAs, Sending, TerminalAttempt, Settling
        <3>5. row.state = Outcome(provider[row.session].result)
            BY <1>5, <3>4 DEF SettledAs
        <3>6. becomes # None
            BY <1>1, NoAttemptAssumption
        <3>7. becomes.state = Outcome(provider[becomes.session].result)
            BY <1>6, <3>1, <3>6 DEF SettledAs
        <3>8. a \in overtaken
            <4>1. row.state # becomes.state
                BY <2>2
            <4> HIDE DEF row, becomes
            <4>2. row.session # becomes.session
                BY <3>5, <3>7, <4>1
            <4> QED
                BY <1>5, <3>1, <3>3, <4>2
        <3>9. identity[u].next.state = "review_required"
            <4>1. /\ Agrees(identity[u].next.state, becomes.state)
                BY <1>1, <3>1, NullAssumption DEF Agreed, MovesOK
            <4> QED
                BY <3>2, <4>1 DEF Agrees, Sending
        <3> QED
            BY <1>1, <1>2, <1>3, <1>5, <2>1, <2>3, <3>8, <3>9, UnwrittenAgrees
    <2>4. CASE req[r].op # "result"
        <3>1. req[r].becomes.state \in Sending /\ \A v \in Accounts : identity[v].by # r
            <4>1. req[r].becomes.state \in Sending
                BY <1>1, <1>4, <2>4 DEF HandlingOK, WriteOK
            <4>2. \A v \in Accounts : identity[v].by # r
                BY <1>4, <2>4, NullAssumption DEF Agreed, MovesOK
            <4> QED
                BY <4>1, <4>2
        <3> QED
            BY <1>1, <1>2, <1>3, <1>5, <2>1, <2>4, <3>1, UnwrittenAgrees
    <2> QED
        BY <2>3, <2>4
<1> QED
    BY <1>7, <1>8

LEMMA GenerationType ==
    ASSUME Inv, NEW u \in Accounts
    PROVE  identity[u].row.generation \in Nat
  BY DEF Inv, TypeOK, Versions, IdentityRow

(* The end of a request: what it wrote is stored together, or forgotten.     *)
LEMMA EndAgrees ==
    ASSUME Inv, Agreed, NEW r \in Requests, CommitRequest(r) \/ Abort(r)
    PROVE  Agreed'
<1>1. /\ req'[r] = Idle /\ Idle.at = "idle" /\ Idle.id = None
      /\ \A p \in Requests \ {r} : req'[p] = req[p]
      /\ req[r].at # "idle" /\ UNCHANGED <<provider, overtaken>> /\ r # None
    BY RequestType, NullAssumption DEF CommitRequest, Abort, At, Idle
<1> DEFINE Stores(kept, table, now) ==
               \A k \in kept : table[k].by = r =>
                   now[k].row = table[k].next /\ now[k].next = table[k].next /\ now[k].by = None
           Forgets(kept, table, now) ==
               \A k \in kept : table[k].by = r =>
                   now[k].row = table[k].row /\ now[k].next = table[k].row /\ now[k].by = None
           Committed == /\ req[r].at = "reply"
                        /\ Stores(Accounts, identity, identity')
                        /\ Stores(AttemptIds, attempts, attempts')
           RolledBack == /\ Forgets(Accounts, identity, identity')
                         /\ Forgets(AttemptIds, attempts, attempts')
<1>2. Committed \/ RolledBack
    <2>1. CASE CommitRequest(r)
        BY <2>1, TablesType DEF CommitRequest, Commit, Settled, At
    <2>2. CASE Abort(r)
        BY <2>2, TablesType DEF Abort, Rollback, Settled
    <2> QED
        BY <2>1, <2>2
<1>3. /\ \A v \in Accounts : identity[v].by # r => identity'[v] = identity[v]
      /\ \A v \in Accounts : identity[v].by = r => identity'[v].by = None
      /\ \A b \in AttemptIds : attempts[b].by # r => attempts'[b] = attempts[b]
      /\ \A b \in AttemptIds : attempts[b].by = r =>
             /\ attempts'[b].by = None /\ attempts'[b].next = attempts'[b].row
             /\ attempts'[b].row \in {attempts[b].row, attempts[b].next}
    <2>1. /\ \A v \in Accounts : identity[v].by # r => identity'[v] = identity[v]
          /\ \A b \in AttemptIds : attempts[b].by # r => attempts'[b] = attempts[b]
        BY TablesType DEF CommitRequest, Abort, Commit, Rollback
    <2>2. CASE Committed
        BY <2>1, <2>2
    <2>3. CASE RolledBack
        BY <2>1, <2>3
    <2> QED
        BY <1>2, <2>2, <2>3
<1>4. PICK a \in AttemptIds, u \in Accounts : a = req[r].id /\ u = req[r].account
    BY <1>1, AtWork
<1>5. ASSUME NEW b \in AttemptIds
      PROVE  /\ AttemptOK(b) /\ attempts[b].by \in Requests \cup {None}
             /\ attempts[b].by = r => b = a /\ req[r].at = "reply"
    BY <1>1, <1>4, TablesType DEF Agreed, AttemptOK, Versions
<1>6. ASSUME NEW v \in Accounts
      PROVE  /\ AgreesOK(v) /\ MovesOK(v) /\ identity[v].by \in Requests \cup {None}
             /\ identity[v].by = r => v = u
    <2>1. AgreesOK(v) /\ MovesOK(v) /\ identity[v].by \in Requests \cup {None}
        BY TablesType DEF Agreed, Versions
    <2>2. identity[v].by = r => req[r].account = v
        BY <1>1, <2>1 DEF MovesOK
    <2> QED
        BY <1>4, <2>1, <2>2
(* A stored attempt stays stored, is its owner's, and unless it is set aside *)
(* keeps its session.                                                        *)
<1>7. ASSUME NEW b \in AttemptIds, attempts[b].row # None
      PROVE  /\ attempts'[b].row # None /\ attempts'[b].row.owner = attempts[b].row.owner
             /\ b \notin overtaken /\ attempts[b].row.session # None =>
                    attempts'[b].row.session = attempts[b].row.session
    <2>1. CASE attempts[b].by # r
        BY <1>3, <1>7, <2>1
    <2>2. CASE attempts[b].by = r
        BY <1>1, <1>3, <1>5, <1>7, <2>2 DEF AttemptOK
    <2> QED
        BY <2>1, <2>2
<1>8. ASSUME NEW b \in AttemptIds
      PROVE  AttemptOK(b)'
    <2>1. CASE attempts[b].by = r
        BY <1>1, <1>3, <1>5, <2>1 DEF AttemptOK
    <2>2. CASE attempts[b].by = None
        BY <1>1, <1>3, <1>5, <2>2 DEF AttemptOK
    <2>3. CASE attempts[b].by \in Requests \ {r}
        <3> DEFINE p == attempts[b].by
        <3>1. req'[p] = req[p] /\ p # None /\ attempts'[b] = attempts[b]
            BY <1>1, <1>3, <2>3, NullAssumption
        <3>2. req[p].account \in Accounts
            BY <1>5, <2>3, <3>1, AtWork DEF AttemptOK
        <3>3. identity[req[p].account].by = p => identity'[req[p].account].by = p
            BY <1>3, <2>3, <3>2
        <3> QED
            BY <1>1, <1>5, <3>1, <3>3 DEF AttemptOK
    <2> QED
        BY <1>5, <2>1, <2>2, <2>3
<1>9. ASSUME NEW v \in Accounts
      PROVE  MovesOK(v)'
    <2>1. CASE identity[v].by = r
        BY <1>3, <2>1 DEF MovesOK
    <2>2. CASE identity[v].by = None
        BY <1>1, <1>3, <2>2 DEF MovesOK
    <2>3. CASE identity[v].by \in Requests \ {r}
        <3>1. PICK p \in Requests \ {r} : p = identity[v].by
            BY <2>3
        <3>2. PICK b : b = req[p].id
            OBVIOUS
        <3>3. req'[p] = req[p] /\ p # None /\ identity'[v] = identity[v]
            BY <1>1, <1>3, <2>3, <3>1, NullAssumption
        <3>4. req[p].at = "reply" => b \in AttemptIds
            BY <3>2, AtWork
        <3>5. b \in AttemptIds /\ attempts[b].by # r => attempts'[b] = attempts[b]
            BY <1>3
        <3>6. b \in AttemptIds /\ attempts[b].by = r => attempts'[b].by = None
            BY <1>3
        <3>7. b \in AttemptIds /\ attempts[b].row # None =>
                  attempts'[b].row # None /\ attempts'[b].row.owner = attempts[b].row.owner
            BY <1>7
        <3>8. overtaken' = overtaken /\ MovesOK(v) /\ p # r
            BY <1>1, <1>6
        <3> QED
            BY <3>1, <3>2, <3>3, <3>4, <3>5, <3>6, <3>7, <3>8, MovesKept
    <2> QED
        BY <1>6, <2>1, <2>2, <2>3
<1>10. ASSUME NEW v \in Accounts
       PROVE  AgreesOK(v)'
    <2>1. CASE identity'[v].row = identity[v].row
        <3> DEFINE i == identity[v].row
        <3>1. CASE i.state = "unverified" /\ i.latest = None
            BY <2>1, <3>1 DEF AgreesOK
        <3>2. CASE ~(i.state = "unverified" /\ i.latest = None)
            <4>1. PICK b \in AttemptIds : b = i.latest
                BY <1>6, <3>2 DEF AgreesOK
            <4>2. /\ attempts[b].row # None /\ attempts[b].row.owner = v
                  /\ \/ Agrees(i.state, attempts[b].row.state)
                     \/ i.state = "review_required" /\ b \in overtaken
                BY <1>6, <3>2, <4>1 DEF AgreesOK
            <4>3. \/ Agrees(i.state, attempts'[b].row.state)
                  \/ i.state = "review_required" /\ b \in overtaken
                <5>1. CASE attempts'[b].row = attempts[b].row
                    BY <4>2, <5>1
                <5>2. CASE attempts'[b].row # attempts[b].row
                    <6>1. /\ attempts[b].by = r /\ attempts'[b].row = attempts[b].next
                          /\ b = a /\ req[r].at = "reply" /\ Committed
                        BY <1>2, <1>3, <1>5, <5>2
                    <6>2. /\ attempts[b].next.owner = u /\ v = u /\ attempts[b].next # None
                          /\ attempts[b].next.state \in Sending \cup Settling
                        BY <1>1, <1>4, <1>5, <4>2, <6>1 DEF AttemptOK, SettledAs
                    <6>3. identity[u].by # r
                        <7> SUFFICES ASSUME identity[u].by = r PROVE FALSE
                            OBVIOUS
                        <7>1. identity'[u].row = identity[u].next
                            BY <1>4, <6>1
                        <7>2. /\ identity[u].next.generation = identity[u].row.generation + 1
                              /\ identity[u].row.generation \in Nat
                            BY <1>4, RequestType, GenerationType DEF Known, HoldsOK, Legal
                        <7> QED
                            BY <2>1, <6>2, <7>1, <7>2
                    <6>4. attempts[b].next.state \in Sending
                        BY <1>1, <1>4, <1>5, <6>1, <6>2, <6>3 DEF AttemptOK
                    <6>5. /\ attempts[b].row.state \notin TerminalAttempt
                          /\ attempts[b].row.state = "manual_review" => b \in overtaken
                        BY <1>1, <1>5, <4>2, <6>1, <6>4 DEF AttemptOK, Sending, Settling
                    <6> QED
                        BY <4>2, <6>1, <6>4, <6>5 DEF Agrees, TerminalAttempt
                <5> QED
                    BY <5>1, <5>2
            <4> QED
                BY <1>1, <1>7, <2>1, <4>1, <4>2, <4>3 DEF AgreesOK
        <3> QED
            BY <3>1, <3>2
    <2>2. CASE identity'[v].row # identity[v].row
        <3>1. /\ identity[v].by = r /\ req[r].at = "reply"
              /\ identity'[v].row = identity[v].next
              /\ attempts[a].by = r => attempts'[a].row = attempts[a].next
            BY <1>2, <1>3, <2>2
        <3> DEFINE next == identity[v].next
        <3>2. identity'[v].row = next /\ next.latest = a /\ v = u
            BY <1>1, <1>4, <1>6, <3>1 DEF MovesOK
        <3>3. \/ /\ attempts[a].by = r /\ Agrees(next.state, attempts[a].next.state)
              \/ /\ next.state = "review_required" /\ a \in overtaken
                 /\ attempts[a].row # None /\ attempts[a].row.owner = v
            BY <1>1, <1>4, <1>6, <3>1 DEF MovesOK
        <3>4. CASE attempts[a].by = r /\ Agrees(next.state, attempts[a].next.state)
            <4>1. attempts[a].next # None /\ attempts[a].next.owner = req[r].account
                BY <1>1, <1>5, <3>4 DEF AttemptOK
            <4>2. attempts'[a].row = attempts[a].next /\ req[r].account = v
                BY <1>4, <3>1, <3>2, <3>4
            <4> QED
                BY <3>2, <3>4, <4>1, <4>2 DEF AgreesOK
        <3>5. CASE /\ next.state = "review_required" /\ a \in overtaken
                   /\ attempts[a].row # None /\ attempts[a].row.owner = v
            BY <1>1, <1>7, <3>2, <3>5 DEF AgreesOK
        <3> QED
            BY <3>3, <3>4, <3>5
    <2> QED
        BY <2>1, <2>2
<1>11. ASSUME NEW p \in Requests
       PROVE  HandlingOK(p)'
    <2>1. CASE p = r
        BY <1>1, <2>1 DEF HandlingOK, StartOK, ReadOK, WriteOK
    <2>2. CASE p # r
        <3>1. /\ HandlingOK(p) /\ req'[p] = req[p]
              /\ req[p].at # "idle" => req[p].id \in AttemptIds /\ req[p].account \in Accounts
            BY <1>1, <2>2, AtWork DEF Agreed
        <3>2. /\ \A v \in Accounts : identity[v].by = p => identity'[v].by = p
            BY <1>3, <2>2
        <3>3. StartOK(p)'
            <4>1. SUFFICES ASSUME req[p].at # "idle", req[p].op = "start"
                           PROVE  StartOK(p)'
                BY <3>1 DEF StartOK
            <4>2. req[p].id # a
                BY <1>4, <2>2, <3>1, <4>1 DEF HandlingOK, StartOK
            <4>3. attempts'[req[p].id] = attempts[req[p].id]
                BY <1>3, <1>5, <3>1, <4>1, <4>2
            <4>4. req[p].id # None
                BY <3>1, <4>1, NullAssumption
            <4> QED
                BY <1>1, <3>1, <3>2, <4>3, <4>4 DEF HandlingOK, StartOK
        <3>4. ReadOK(p)'
            <4>1. SUFFICES ASSUME req[p].at # "idle", req[p].op # "start"
                           PROVE  ReadOK(p)'
                BY <3>1 DEF ReadOK
            <4>2. PICK b \in AttemptIds : b = req[p].id
                BY <3>1, <4>1
            <4>3. attempts[b].row # None
                BY <3>1, <4>1, <4>2 DEF HandlingOK, ReadOK
            <4> QED
                BY <1>1, <1>7, <3>1, <4>1, <4>2, <4>3 DEF HandlingOK, ReadOK
        <3>5. WriteOK(p)'
            BY <1>1, <3>1, <3>2 DEF HandlingOK, WriteOK
        <3> QED
            BY <3>3, <3>4, <3>5 DEF HandlingOK
    <2> QED
        BY <2>1, <2>2
<1> QED
    BY <1>8, <1>9, <1>10, <1>11 DEF Agreed

LEMMA AgreedInitially == Init => Agreed
<1> SUFFICES ASSUME Init PROVE Agreed
    OBVIOUS
<1>1. \A r \in Requests : req[r].at = "idle"
    BY DEF Init, Idle
<1>2. \A u \in Accounts : /\ identity[u].by = None
                          /\ identity[u].row.state = "unverified" /\ identity[u].row.latest = None
    BY DEF Init, Settled
<1>3. \A a \in AttemptIds : attempts[a].row = None /\ attempts[a].next = None
                            /\ attempts[a].by = None
    BY DEF Init, Settled
<1>4. \A u \in Accounts : AgreesOK(u) /\ MovesOK(u)
    BY <1>2 DEF AgreesOK, MovesOK
<1>5. \A a \in AttemptIds : AttemptOK(a)
    BY <1>3 DEF AttemptOK, SettledAs
<1>6. \A r \in Requests : HandlingOK(r)
    BY <1>1 DEF HandlingOK, StartOK, ReadOK, WriteOK
<1> QED
    BY <1>4, <1>5, <1>6 DEF Agreed

LEMMA AgreedNext == Inv /\ Agreed /\ [Next]_vars => Agreed'
<1> SUFFICES ASSUME Inv, Agreed, [Next]_vars PROVE Agreed'
    OBVIOUS
<1>1. CASE UNCHANGED vars
    <2>1. UNCHANGED <<identity, attempts, provider, req, overtaken>>
        BY <1>1 DEF vars, tables
    <2>2. ASSUME NEW u \in Accounts PROVE AgreesOK(u)' /\ MovesOK(u)'
        <3>1. AgreesOK(u) /\ MovesOK(u)
            BY DEF Agreed
        <3>2. MovesOK(u)'
            BY <2>1, <3>1, MovesKept
        <3> QED
            BY <2>1, <3>1, <3>2 DEF AgreesOK
    <2>3. ASSUME NEW a \in AttemptIds PROVE AttemptOK(a)'
        <3>1. AttemptOK(a)
            BY DEF Agreed
        <3>2. SettledAs(provider', attempts[a].row) /\ SettledAs(provider', attempts[a].next)
            BY <2>1, <3>1 DEF AttemptOK
        <3> QED
            BY <2>1, <3>1, <3>2, AttemptKept
    <2>4. ASSUME NEW p \in Requests PROVE HandlingOK(p)'
        <3>1. HandlingOK(p)
            BY DEF Agreed
        <3>2. StartOK(p)'
            BY <2>1, <3>1 DEF HandlingOK, StartOK
        <3>3. ReadOK(p)'
            BY <2>1, <3>1 DEF HandlingOK, ReadOK
        <3>4. WriteOK(p)'
            BY <2>1, <3>1 DEF HandlingOK, WriteOK
        <3> QED
            BY <3>2, <3>3, <3>4 DEF HandlingOK
    <2> QED
        BY <2>2, <2>3, <2>4 DEF Agreed
<1>2. ASSUME NEW r \in Requests, Ask(r) \/ Handle(r) \/ CommitRequest(r) \/ Abort(r)
      PROVE  Agreed'
    BY <1>2, AskAgrees, FindIdentityAgrees, FindOpenAgrees, FindAttemptAgrees,
       StartSessionAgrees, FetchResultAgrees, WriteIdentityAgrees, InsertAttemptAgrees,
       WriteAttemptAgrees, EndAgrees DEF Handle
<1> QED
    BY <1>1, <1>2 DEF Next

(* The identity and the attempt it names were always moved together: what an *)
(* account is, its latest attempt came to, whatever requests and crashes ran *)
(* between the two writes; but for an attempt that a capture or a submission *)
(* overtaken by the result took back out of the review.                      *)
THEOREM IdentityAlwaysAgrees == Spec => []IdentityAgreesWithAttempt
<1>1. Inv /\ Agreed => IdentityAgreesWithAttempt
    <2> SUFFICES ASSUME Inv, Agreed, NEW u \in Accounts
                 PROVE  LET i == Identity[u]
                            state == IF i.latest = None THEN None ELSE Attempt[i.latest].state
                        IN  CASE i.state = "unverified" -> i.latest = None
                              [] i.state = "pending" -> state \in LiveAttempt
                              [] i.state = "verified" -> state = "passed"
                              [] i.state = "verification_failed" -> state = "failed"
                              [] i.state = "review_required" ->
                                     \/ state = "manual_review"
                                     \/ state = "failed" /\ FailsRepeatedly(u)
                                     \/ i.latest \in overtaken
                              [] OTHER -> FALSE
        BY DEF IdentityAgreesWithAttempt
    <2>1. /\ Identity[u] = identity[u].row /\ AgreesOK(u)
          /\ \A a \in AttemptIds : Attempt[a] = attempts[a].row
        BY TablesType DEF Identity, Attempt, Stored, Agreed
    <2>2. CASE Identity[u].state = "unverified" /\ Identity[u].latest = None
        BY <2>2
    <2>3. CASE ~(Identity[u].state = "unverified" /\ Identity[u].latest = None)
        <3>1. /\ Identity[u].latest \in AttemptIds /\ Identity[u].latest # None
              /\ \/ Agrees(Identity[u].state, Attempt[Identity[u].latest].state)
                 \/ /\ Identity[u].state = "review_required"
                    /\ Identity[u].latest \in overtaken
            BY <2>1, <2>3, NullAssumption DEF AgreesOK
        <3> QED
            BY <3>1 DEF Agrees, Sending, LiveAttempt
    <2> QED
        BY <2>2, <2>3
<1> QED
    BY <1>1, AgreedInitially, AgreedNext, InitInv, NextInv, PTL DEF Spec
=============================================================================
