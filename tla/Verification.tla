---------------------------- MODULE Verification ----------------------------
(***************************************************************************)
(* Identity verification: the four routes of verification.ts over the      *)
(* identity row and the attempts, with the provider they call.             *)
(*                                                                         *)
(* The identity is written by compare-and-set on its generation; an        *)
(* attempt is written whole from the row the request read, refused only    *)
(* when that would reopen a closed one, and no caller looks at the answer. *)
(* A session opened at the provider is not undone by a rollback.           *)
(***************************************************************************)
EXTENDS FiniteSets, IdentityRules

CONSTANTS
    Accounts,
    AttemptIds,     \* the attempts that may ever be opened
    SessionIds,     \* the sessions that may ever be opened at the provider
    Requests,       \* requests in flight at once; slots are reused
    References,     \* the handles a provider may put on its results
    Results,        \* the results a provider may give
    None            \* SQL NULL: no such row, no value

ASSUME NullAssumption ==
    None \notin Requests \cup AttemptIds \cup SessionIds \cup References \cup Results
ASSUME ResultsAssumption ==
    \A result \in Results : /\ result.confidence \in Int
                            /\ DOMAIN result.checks \subseteq Checks
                            /\ result.reference \in References

VARIABLES
    identity,       \* app.identity_state by user_id
    attempts,       \* app.verification_attempts by attempt_id
    provider,       \* the provider's sessions: the attempt each is for, and its result
    req,            \* the handler of each request: its place and its local values
    opened,         \* history: each account's attempts in the order they were opened
    overtaken       \* history: attempts written over a row that had changed since it was read

tables == <<identity, attempts>>
vars == <<tables, provider, req, opened, overtaken>>

INSTANCE RowVersions WITH Nobody <- None

Identity == Stored(identity)
Attempt == Stored(attempts)

-----------------------------------------------------------------------------
(* Rows and requests *)

IdentityRow == [state : IdentityStates, generation : Nat, latest : AttemptIds \cup {None}]
(* The column provider_reference names the session an attempt was submitted  *)
(* to until the result overwrites it with a handle of its own; session is a  *)
(* history of what it named before.                                          *)
Decisions == DOMAIN AttemptEventOf
AttemptRow == [owner : Accounts, state : AttemptStates, captured : SUBSET REQUIRED_CHECKS,
               reference : SessionIds \cup References \cup {None},
               session : SessionIds \cup {None}, decision : Decisions \cup {None}]
ASSUME NoAttemptAssumption == None \notin AttemptRow

Ops == {"start", "capture", "submit", "result"}
Places == {"idle", "find_identity", "find_open", "find_attempt", "start_session",
           "fetch_result", "write_identity", "insert_attempt", "write_attempt", "reply"}

RequestState ==
    [at : Places, op : Ops, account : Accounts \cup {None}, id : AttemptIds \cup {None},
     was : IdentityRow \cup {None}, read : AttemptRow \cup {None},
     to : IdentityStates, becomes : AttemptRow \cup {None}]

Idle == [at |-> "idle", op |-> "start", account |-> None, id |-> None,
         was |-> None, read |-> None, to |-> "unverified",
         becomes |-> None]

At(r, place) == req[r].at = place
Goto(r, place) == req' = [req EXCEPT ![r].at = place]
(* A handler that has answered keeps no more than what it wrote. *)
Reply(r) == req' = [req EXCEPT ![r] = [Idle EXCEPT !.at = "reply", !.op = req[r].op,
                                                   !.account = req[r].account,
                                                   !.id = req[r].id]]

Begin(r, q) ==
    /\ At(r, "idle")
    /\ req' = [req EXCEPT ![r] = q]
    /\ UNCHANGED <<tables, provider, opened, overtaken>>

FreshAttempts == {a \in AttemptIds : /\ attempts[a] = Settled(None)
                                     /\ \A q \in Requests : req[q].id # a}

FreshSessions == {s \in SessionIds : provider[s].attempt = None}
NewSession == CHOOSE s \in FreshSessions : TRUE

BeginStart(r, u) ==
    /\ FreshAttempts # {}
    /\ Begin(r, [Idle EXCEPT !.at = "find_identity", !.account = u,
                             !.id = CHOOSE a \in FreshAttempts : TRUE])

BeginOn(r, op, u, a) ==
    /\ Attempt[a] # None
    /\ Begin(r, [Idle EXCEPT !.at = "find_attempt", !.op = op, !.account = u, !.id = a])

-----------------------------------------------------------------------------
(* The handlers, statement by statement *)

FindIdentity(r) ==
    /\ At(r, "find_identity")
    /\ req' = [req EXCEPT ![r].was = Seen(identity, r)[req[r].account],
                          ![r].at = IF req[r].op = "start" THEN "find_open"
                                                           ELSE "fetch_result"]
    /\ UNCHANGED <<tables, provider, opened, overtaken>>

(* planVerificationStart, then beginCapture on the attempt it plans.  The    *)
(* daily limit counts the attempts it is given, which is the open one alone. *)
OpenOf(u, r) ==
    LET seen == Seen(attempts, r)
    IN  {a \in AttemptIds : seen[a] # None /\ seen[a].owner = u /\ IsOpenAttempt(seen[a].state)}

Planned(u) == [owner |-> u, state |-> AttemptMoves["begin_capture"].to, captured |-> {},
               reference |-> None, session |-> None, decision |-> None]

FindOpen(r) ==
    /\ At(r, "find_open")
    /\ IF \/ OpenOf(req[r].account, r) # {}
          \/ ~MayMoveIdentity(req[r].was.state, "submit_verification", 0, FALSE)
       THEN Reply(r)
       ELSE req' = [req EXCEPT ![r].to = IdentityMoves["submit_verification"].to,
                               ![r].becomes = Planned(req[r].account),
                               ![r].at = "write_identity"]
    /\ UNCHANGED <<tables, provider, opened, overtaken>>

(* recordCapture; a retake of the same artefact too soon is refused.         *)
Captured(row, check) == [row EXCEPT !.state = AttemptMoves["record_capture"].to,
                                    !.captured = @ \cup {check}]
MayCapture(row) == MayMoveAttempt(row.state, "record_capture", row.captured, None, FALSE)

MaySubmit_Partial(row) == row.state = "capturing"   \* mutant: half-captured attempts are sent
MaySubmit(row) == MayMoveAttempt(row.state, "submit_to_provider", row.captured, None, FALSE)

(* resolveAttempt, and what each route does with the attempt before a write. *)
FindAttempt(r) ==
    /\ At(r, "find_attempt")
    /\ LET row == Seen(attempts, r)[req[r].id]
           take(becomes, place) ==
               req' = [req EXCEPT ![r].read = row, ![r].becomes = becomes, ![r].at = place]
       IN  \/ /\ \/ row = None
                 \/ row.owner # req[r].account
                 \/ req[r].op = "capture" /\ ~MayCapture(row)
                 \/ req[r].op = "capture" /\ row.captured # {}      \* the cooldown
                 \/ req[r].op = "submit" /\ ~MaySubmit(row)
              /\ Reply(r)
           \/ /\ row # None
              /\ row.owner = req[r].account
              /\ \/ /\ req[r].op = "capture" /\ MayCapture(row)
                    /\ \E check \in REQUIRED_CHECKS : take(Captured(row, check), "write_attempt")
                 \/ /\ req[r].op = "submit" /\ MaySubmit(row)
                    /\ take([row EXCEPT !.state = AttemptMoves["submit_to_provider"].to],
                            "start_session")
                 \/ /\ req[r].op = "result"
                    /\ take(None, "find_identity")
    /\ UNCHANGED <<tables, provider, opened, overtaken>>

(* The provider opens a session for the attempt, or fails.                   *)
StartSession(r) ==
    /\ At(r, "start_session")
    /\ \/ Reply(r) /\ UNCHANGED provider
       \/ /\ FreshSessions # {}
          /\ provider' = [provider EXCEPT ![NewSession].attempt = req[r].id]
          /\ req' = [req EXCEPT ![r].becomes.reference = NewSession,
                                 ![r].becomes.session = NewSession,
                                 ![r].at = "write_attempt"]
    /\ UNCHANGED <<tables, opened, overtaken>>

(* completeFromProvider and the escalation after it, which is handed the     *)
(* attempt as it was read and as it is now.  The result's own handle is what *)
(* the attempt is written with.                                              *)
EventFor(result, prior) ==
    LET decision == DecideVerificationOutcome(result, "none")
        completed == AttemptMoves[AttemptEventOf[decision]].to
    IN  IF EscalateAfterRepeatedFailure(<<prior.state, completed>>)
        THEN "flag_for_review" ELSE IdentityEventOf[decision]

Completed(row, result) ==
    LET decision == DecideVerificationOutcome(result, "none")
    IN  [row EXCEPT !.state = AttemptMoves[AttemptEventOf[decision]].to,
                    !.decision = decision, !.reference = result.reference]

Complete(r, result) ==
    LET decision == DecideVerificationOutcome(result, "none")
        row == req[r].read
        event == EventFor(result, row)
    IN  IF /\ MayMoveAttempt(row.state, AttemptEventOf[decision], row.captured, decision,
                             FALSE)
           /\ MayMoveIdentity(req[r].was.state, event, ConfidenceOf(result), FALSE)
        THEN req' = [req EXCEPT
               ![r].to = IdentityMoves[event].to,
               ![r].becomes = Completed(row, result),
               ![r].at = "write_identity"]
        ELSE Reply(r)

(* A provider that has a result for a session gives it to whoever asks; one  *)
(* that was never started, or is not finished, or fails, gives none.  Asked  *)
(* about a handle of its own it may answer anything.                         *)
FetchResult(r) ==
    /\ At(r, "fetch_result")
    /\ LET s == req[r].read.reference
       IN  \/ Reply(r) /\ UNCHANGED provider
           \/ /\ s \in SessionIds
              /\ \E result \in IF provider[s].result = None THEN Results
                                                            ELSE {provider[s].result} :
                    /\ provider' = [provider EXCEPT ![s].result = result]
                    /\ Complete(r, result)
           \/ /\ s \in References \ SessionIds
              /\ \E result \in Results : Complete(r, result)
              /\ UNCHANGED provider
    /\ UNCHANGED <<tables, opened, overtaken>>

(* UPDATE .. WHERE generation = the one that was read.                       *)
MayWrite_Blind(row, was) == TRUE    \* mutant: the generation is not in the WHERE clause
MayWrite(row, was) == row.generation = was.generation

WriteIdentity(r) ==
    /\ At(r, "write_identity") /\ FreeFor(identity, req[r].account, r)
    /\ LET row == Seen(identity, r)[req[r].account]
       IN  IF MayWrite(row, req[r].was)
           THEN /\ identity' = Put(identity, req[r].account, r,
                                   [state |-> req[r].to, generation |-> row.generation + 1,
                                    latest |-> req[r].id])
                /\ Goto(r, IF req[r].op = "start" THEN "insert_attempt" ELSE "write_attempt")
           ELSE Reply(r) /\ UNCHANGED identity
    /\ UNCHANGED <<attempts, provider, opened, overtaken>>

(* The unique index over an account's open attempts: the statement waits for *)
(* whoever is writing one of them, and one that violates it is a throw.      *)
InsertAttempt(r) ==
    /\ At(r, "insert_attempt")
    /\ \A a \in AttemptIds : FreeFor(attempts, a, r)
    /\ OpenOf(req[r].account, r) = {}
    /\ attempts' = Put(attempts, req[r].id, r, req[r].becomes)
    /\ Reply(r)
    /\ UNCHANGED <<identity, provider, opened, overtaken>>

(* The patch carries every field; it may not move a closed attempt to open.  *)
MayPatch(row, becomes) == IsOpenAttempt(row.state) \/ ~IsOpenAttempt(becomes.state)

WriteAttempt(r) ==
    /\ At(r, "write_attempt") /\ FreeFor(attempts, req[r].id, r)
    /\ LET row == Seen(attempts, r)[req[r].id]
       IN  IF MayPatch(row, req[r].becomes)
           THEN /\ attempts' = Put(attempts, req[r].id, r, req[r].becomes)
                /\ overtaken' = overtaken \cup {a \in {req[r].id} : row # req[r].read}
           ELSE UNCHANGED <<attempts, overtaken>>
    /\ Reply(r)
    /\ UNCHANGED <<identity, provider, opened>>

-----------------------------------------------------------------------------
(* The end of a request *)

CommitRequest(r) ==
    /\ At(r, "reply")
    /\ identity' = Commit(identity, r)
    /\ attempts' = Commit(attempts, r)
    /\ opened' = [u \in Accounts |->
                     IF req[r].op = "start" /\ req[r].account = u
                        /\ attempts[req[r].id].by = r
                     THEN Append(opened[u], req[r].id) ELSE opened[u]]
    /\ req' = [req EXCEPT ![r] = Idle]
    /\ UNCHANGED <<provider, overtaken>>

(* A throw or a crash, at any place.                                         *)
Abort(r) ==
    /\ ~At(r, "idle")
    /\ identity' = Rollback(identity, r)
    /\ attempts' = Rollback(attempts, r)
    /\ req' = [req EXCEPT ![r] = Idle]
    /\ UNCHANGED <<provider, opened, overtaken>>

-----------------------------------------------------------------------------
(* Sign-up wrote the identity row, unverified at generation 1.               *)
Init ==
    /\ identity = [u \in Accounts |-> Settled([state |-> "unverified", generation |-> 1,
                                               latest |-> None])]
    /\ attempts = [a \in AttemptIds |-> Settled(None)]
    /\ provider = [s \in SessionIds |-> [attempt |-> None, result |-> None]]
    /\ req = [r \in Requests |-> Idle]
    /\ opened = [u \in Accounts |-> <<>>]
    /\ overtaken = {}

Ask(r) ==
    \E u \in Accounts :
        \/ BeginStart(r, u)
        \/ \E a \in AttemptIds, op \in {"capture", "submit", "result"} : BeginOn(r, op, u, a)

Handle(r) == \/ FindIdentity(r) \/ FindOpen(r) \/ FindAttempt(r) \/ StartSession(r)
             \/ FetchResult(r) \/ WriteIdentity(r) \/ InsertAttempt(r) \/ WriteAttempt(r)

Next == \E r \in Requests : \/ Ask(r) \/ Handle(r)
                            \/ CommitRequest(r) \/ Abort(r)

Spec == Init /\ [][Next]_vars

-----------------------------------------------------------------------------
(* Properties *)

TypeOK ==
    /\ identity \in [Accounts -> Versions(IdentityRow, Requests)]
    /\ attempts \in [AttemptIds -> Versions(AttemptRow \cup {None}, Requests)]
    /\ provider \in [SessionIds -> [attempt : AttemptIds \cup {None},
                                    result : Results \cup {None}]]
    /\ req \in [Requests -> RequestState]
    /\ opened \in [Accounts -> Seq(AttemptIds)]
    /\ overtaken \subseteq AttemptIds

FailsRepeatedly(u) ==
    EscalateAfterRepeatedFailure([i \in DOMAIN opened[u] |-> Attempt[opened[u][i]].state])

(* The identity and the attempt it names were always moved together: an      *)
(* account is verified by an attempt that passed, failed by one that failed, *)
(* pending on a live one, and under review on one held for a reviewer or at  *)
(* the end of repeated failure.  A capture or a submission read before the   *)
(* review began and written after it takes the attempt back out of the       *)
(* review; such attempts are set aside.                                      *)
IdentityAgreesWithAttempt ==
    \A u \in Accounts :
        LET i == Identity[u]
            state == IF i.latest = None THEN None ELSE Attempt[i.latest].state
        IN  CASE i.state = "unverified" -> i.latest = None
              [] i.state = "pending" -> state \in LiveAttempt
              [] i.state = "verified" -> state = "passed"
              [] i.state = "verification_failed" -> state = "failed"
              [] i.state = "review_required" ->
                     \/ state = "manual_review"
                     \/ state = "failed" /\ FailsRepeatedly(u)
                     \/ i.latest \in overtaken
              [] OTHER -> FALSE

(* What was sent to the provider is complete.  While it waits it names a     *)
(* session opened for it, which is where its result will be asked for; once  *)
(* it is settled, by the result of such a session, it names what that result *)
(* named: whichever of the concurrent captures, submissions and polls was    *)
(* kept, no attempt is decided by the result of another.                     *)
DecidedBy(row, result) ==
    /\ row.reference = result.reference
    /\ row.decision = DecideVerificationOutcome(result, "none")
SubmittedIsComplete ==
    \A a \in AttemptIds :
        LET row == Attempt[a]
            own == {s \in SessionIds : provider[s].attempt = a}
        IN  row # None /\ row.state \notin {"initiated", "capturing"} =>
                /\ row.captured = REQUIRED_CHECKS
                /\ IF row.state = "awaiting_provider" THEN row.reference \in own
                   ELSE \E s \in own : /\ provider[s].result # None
                                       /\ DecidedBy(row, provider[s].result)

(* The identity moves as IdentityLife says: by the kernel's machine, each    *)
(* move from the state and generation that is stored when it commits.        *)
Life == INSTANCE IdentityLife WITH
            state <- [u \in Accounts |-> Identity[u].state],
            generation <- [u \in Accounts |-> Identity[u].generation]
FollowsIdentityLife == Life!Spec

(* "repeated failure escalates to a person": the third failed attempt in a   *)
(* row puts the account under review.                                        *)
RepeatedFailureIsReviewed ==
    \A u \in Accounts : FailsRepeatedly(u) => Identity[u].state = "review_required"
=============================================================================
