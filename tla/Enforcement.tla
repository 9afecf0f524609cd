---------------------------- MODULE Enforcement ----------------------------
(***************************************************************************)
(* Moderation cases, decisions, reversals and the account standing they    *)
(* write: service/src/routes/moderation.ts and moderation-workspace.ts     *)
(* over the decisions of the moderation package, the statements of the     *)
(* moderation store and the compare-and-set of PostgresAccountStanding.    *)
(*                                                                         *)
(* A moderator's request is one transaction of several statements.  The    *)
(* decision is taken on the account state read early in the request; the   *)
(* generation its write is conditional on is read late.  A refusal is a    *)
(* returned error, so it commits what was written before it.               *)
(***************************************************************************)
EXTENDS Integers, FiniteSets, AccountMachine

CONSTANTS
    Accounts,
    CaseIds,        \* the cases that may ever be opened
    DecisionIds,    \* the decisions that may ever be recorded
    Requests,       \* moderators' requests in flight at once; slots are reused
    Offered,        \* the actions moderators take, of Actions
    Removals,       \* the sets of capabilities a moderator may name
    None            \* SQL NULL: no such row, no value

Actions == {"warn", "restrict", "suspend", "ban", "clear"}
ASSUME OfferedAssumption == Offered \subseteq Actions
ASSUME RemovalsAssumption == Removals \subseteq SUBSET Capabilities
ASSUME EnforcementNoneAssumption ==
    /\ None \notin Accounts /\ None \notin CaseIds /\ None \notin DecisionIds
    /\ None \notin Requests /\ None \notin Nat /\ None \notin AccountStates
    /\ None \notin Actions \cup AccountEvents

VARIABLES
    cases,      \* app.cases by case_id
    decisions,  \* app.decisions by decision_id
    audit,      \* the decision's own row of app.audit_log: the state it led to
    standing,   \* app.account_standing by user_id
    req         \* the handler of each request: its place and its local values

tables == <<cases, decisions, audit, standing>>
vars == <<cases, decisions, audit, standing, req>>

INSTANCE RowVersions WITH Nobody <- None

CaseOf == Stored(cases)
Decision == Stored(decisions)
AuditedState == Stored(audit)
Standing == Stored(standing)

-----------------------------------------------------------------------------
(* Rows *)

(* The account event of an action, and the event that lifts it. *)
EventOf(action) == IF action \in {"restrict", "suspend", "ban"} THEN action ELSE None
LiftOf(action) == CASE action = "restrict" -> "lift_restriction"
                    [] action = "suspend" -> "reinstate"
                    [] action = "ban" -> "lift_ban"
                    [] OTHER -> None

(* Assignment and review are steps the decision takes in memory: a stored    *)
(* case is open until a decision resolves it, and no route moves it again.   *)
CaseRow == [subject : Accounts, resolution : DecisionIds \cup {None}]
IsOpen(row) == row.resolution = None

DecisionRow == [case : CaseIds, action : Actions, removed : SUBSET Capabilities,
                reverses : DecisionIds \cup {None}]

StandingRow == [state : AccountStates, capabilities : SUBSET Capabilities,
                decision : DecisionIds \cup {None}, generation : Nat]

(* Sign-up of a deleted account that must be reviewed: suspended, by nobody. *)
ReentryHold == [state |-> "suspended", capabilities |-> Granted["suspended"],
                decision |-> None, generation |-> 1]

ASSUME EnforcementRowAssumption ==
    None \notin CaseRow /\ None \notin DecisionRow /\ None \notin StandingRow

(* An account with no standing row is in the machine's initial state. *)
StateOf_Judged(row) ==              \* mutant: a row no decision wrote is not read
    IF row = None \/ row.decision = None THEN "active" ELSE row.state
StateOf(row) == IF row = None THEN "active" ELSE row.state
GenerationOf(row) == IF row = None THEN None ELSE row.generation

-----------------------------------------------------------------------------
(* Requests *)

Ops == {"open", "decide", "reverse", "view"}
Places == {"idle", "insert_case", "find_case", "load_decisions", "read_standing",
           "insert_decision", "update_case", "find_standing", "upsert_standing",
           "flush_audit", "reply", "failed"}
Replies == {None, "opened", "viewed", "recorded", "not_found", "refused", "conflict"}

RequestState ==
    [at : Places, op : Ops, case : CaseIds \cup {None}, account : Accounts \cup {None},
     id : DecisionIds \cup {None}, action : Actions, removed : SUBSET Capabilities,
     reverses : DecisionIds \cup {None}, lead : BOOLEAN,
     to : AccountStates, generation : Nat \cup {None}, reply : Replies]

Idle == [at |-> "idle", op |-> "view", case |-> None, account |-> None, id |-> None,
         action |-> "clear", removed |-> {}, reverses |-> None, lead |-> FALSE,
         to |-> "active", generation |-> None, reply |-> None]

At(r, place) == req[r].at = place
Goto(r, place) == req' = [req EXCEPT ![r].at = place]
Answer(r, reply) == req' = [req EXCEPT ![r].at = "reply", ![r].reply = reply]

Start(r, q) ==
    /\ At(r, "idle")
    /\ req' = [req EXCEPT ![r] = q]
    /\ UNCHANGED tables

(* Ids are fresh UUIDs, opaque to the code: which unused one is drawn is of  *)
(* no consequence.                                                           *)
FreshCases == {c \in CaseIds : /\ cases[c] = Settled(None)
                               /\ \A q \in Requests : req[q].op = "open" => req[q].case # c}
FreshDecisions == {d \in DecisionIds : /\ decisions[d] = Settled(None)
                                       /\ \A q \in Requests : req[q].id # d}

(* POST /v1/moderation/cases from a report, or the safety recorder's review. *)
(* Triage of the report is not saved, so a report can open a case again.     *)
BeginOpen(r, a) ==
    /\ FreshCases # {}
    /\ Start(r, [Idle EXCEPT !.at = "insert_case", !.op = "open", !.account = a,
                             !.case = CHOOSE c \in FreshCases : TRUE])

BeginView(r, c) ==
    Start(r, [Idle EXCEPT !.at = "find_case", !.op = "view", !.case = c])

BeginDecide(r, c, action, removed) ==
    /\ FreshDecisions # {}
    /\ Start(r, [Idle EXCEPT !.at = "find_case", !.op = "decide", !.case = c,
                             !.id = CHOOSE d \in FreshDecisions : TRUE,
                             !.action = action, !.removed = removed])

(* Only a lead may lift a ban, so it matters who asks for a reversal. *)
BeginReverse(r, c, original, lead) ==
    /\ FreshDecisions \ {original} # {}
    /\ Start(r, [Idle EXCEPT !.at = "find_case", !.op = "reverse", !.case = c,
                             !.id = CHOOSE d \in FreshDecisions \ {original} : TRUE,
                             !.reverses = original, !.lead = lead])

-----------------------------------------------------------------------------
(* Reading: the case, its decisions, the subject's standing *)

Case(r) == Seen(cases, r)[req[r].case]
SubjectStanding(r) == Seen(standing, r)[req[r].account]

InsertCase(r) ==
    /\ At(r, "insert_case")
    /\ cases' = Put(cases, req[r].case, r, [subject |-> req[r].account, resolution |-> None])
    /\ Answer(r, "opened")
    /\ UNCHANGED <<decisions, audit, standing>>

(* assignCase refuses a resolved case; the workspace reads it all the same. *)
FindCase(r) ==
    /\ At(r, "find_case")
    /\ IF Case(r) = None THEN Answer(r, "not_found")
       ELSE IF req[r].op = "decide" /\ ~IsOpen(Case(r)) THEN Answer(r, "refused")
       ELSE req' = [req EXCEPT ![r].account = Case(r).subject,
                               ![r].at = IF req[r].op = "decide" THEN "read_standing"
                                                                 ELSE "load_decisions"]
    /\ UNCHANGED tables

DecisionsOn(table, c) == {d \in DecisionIds : table[d] # None /\ table[d].case = c}

(* loadDecisions throws when a decision has no row in the audit log. *)
HistoryIsWhole(r) ==
    \A d \in DecisionsOn(Seen(decisions, r), req[r].case) : Seen(audit, r)[d] # None

MayLift(lift, lead) == lift = "lift_ban" => lead

LoadDecisions(r) ==
    /\ At(r, "load_decisions")
    /\ LET known == DecisionsOn(Seen(decisions, r), req[r].case)
           original == Seen(decisions, r)[req[r].reverses]
       IN  IF ~HistoryIsWhole(r) THEN Goto(r, "failed")
           ELSE IF req[r].op = "view" THEN Answer(r, "viewed")
           ELSE IF req[r].reverses \notin known THEN Answer(r, "not_found")
           ELSE IF ~MayLift(LiftOf(original.action), req[r].lead) THEN Answer(r, "refused")
           ELSE Goto(r, "read_standing")
    /\ UNCHANGED tables

(* The event a request would apply to the account, None for a warning. *)
EventAsked(r) ==
    IF req[r].op = "decide" THEN EventOf(req[r].action)
                            ELSE LiftOf(Seen(decisions, r)[req[r].reverses].action)

(* applyDecision and applyReversal: a sanction names only what the state     *)
(* grants and may lose, and the account machine allows the move; a reversal  *)
(* of a warning or a clearance has nothing to lift.                          *)
Permitted_Unchecked(state, event, removed) == TRUE      \* mutant: the machine is not asked
Permitted(state, event, removed) ==
    /\ removed \subseteq Granted[state] \ Unrestrictable
    /\ MayMove(state, event, removed)

ReadStanding(r) ==
    /\ At(r, "read_standing")
    /\ LET state == StateOf(SubjectStanding(r))
           event == EventAsked(r)
           take(to) == req' = [req EXCEPT ![r].to = to, ![r].at = "insert_decision"]
       IN  IF event = None
             THEN IF req[r].op = "decide" THEN take(state) ELSE Answer(r, "refused")
             ELSE IF Permitted(state, event, req[r].removed)
                    THEN take(Moves[event].to)
                    ELSE Answer(r, "refused")
    /\ UNCHANGED tables

-----------------------------------------------------------------------------
(* Writing: the decision, the case, the standing, the audit rows *)

(* A reversal is recorded as a clear and leaves the case alone. *)
AfterDecision(op) == IF op = "decide" THEN "update_case" ELSE "find_standing"

InsertDecision(r) ==
    /\ At(r, "insert_decision")
    /\ decisions' = Put(decisions, req[r].id, r,
         [case |-> req[r].case, action |-> req[r].action,
          removed |-> IF EventAsked(r) = None THEN {} ELSE req[r].removed,
          reverses |-> req[r].reverses])
    /\ Goto(r, AfterDecision(req[r].op))
    /\ UNCHANGED <<cases, audit, standing>>

(* updateCase names no expected state: the last writer's resolution stays. *)
AfterCase_Unaudited(event) ==       \* mutant: only a sanction flushes the audit rows
    IF event = None THEN "reply" ELSE "find_standing"
AfterCase(event) == IF event = None THEN "flush_audit" ELSE "find_standing"

UpdateCase(r) ==
    /\ At(r, "update_case") /\ FreeFor(cases, req[r].case, r)
    /\ cases' = Put(cases, req[r].case, r, [Case(r) EXCEPT !.resolution = req[r].id])
    /\ Goto(r, AfterCase(EventAsked(r)))
    /\ UNCHANGED <<decisions, audit, standing>>

FindStanding(r) ==
    /\ At(r, "find_standing")
    /\ req' = [req EXCEPT ![r].generation = GenerationOf(SubjectStanding(r)),
                          ![r].at = "upsert_standing"]
    /\ UNCHANGED tables

NewStanding(r, generation) ==
    [state |-> req[r].to, capabilities |-> CapabilitiesFor(req[r].to, req[r].removed),
     decision |-> req[r].id, generation |-> generation]

(* INSERT ... ON CONFLICT DO UPDATE ... WHERE generation = expected. *)
Applies(stored, expected) == stored = None \/ stored.generation = expected

(* A write that does not apply is a conflict, and a conflict is a returned   *)
(* error: the decision and the resolved case commit, the audit rows do not.  *)
IsConflict_Ignored(applies) == FALSE            \* mutant: the row count is not looked at
IsConflict(applies) == ~applies

UpsertStanding(r) ==
    /\ At(r, "upsert_standing") /\ FreeFor(standing, req[r].account, r)
    /\ LET stored == SubjectStanding(r)
           applies == Applies(stored, req[r].generation)
           next == IF stored = None THEN 1 ELSE stored.generation + 1
       IN  /\ standing' = IF applies
                            THEN Put(standing, req[r].account, r, NewStanding(r, next))
                            ELSE standing
           /\ IF IsConflict(applies) THEN Answer(r, "conflict") ELSE Goto(r, "flush_audit")
    /\ UNCHANGED <<cases, decisions, audit>>

StateAudited_Before(r) == StateOf(Standing[req[r].account])  \* mutant: fromState for toState
StateAudited(r) == req[r].to

FlushAudit(r) ==
    /\ At(r, "flush_audit")
    /\ audit' = Put(audit, req[r].id, r, StateAudited(r))
    /\ Answer(r, "recorded")
    /\ UNCHANGED <<cases, decisions, standing>>

-----------------------------------------------------------------------------
(* The end of a transaction: whatever the handler answers is committed. *)

CommitRequest(r) ==
    /\ At(r, "reply")
    /\ cases' = Commit(cases, r)
    /\ decisions' = Commit(decisions, r)
    /\ audit' = Commit(audit, r)
    /\ standing' = Commit(standing, r)
    /\ req' = [req EXCEPT ![r] = Idle]

RollbackRequest(r) ==
    /\ cases' = Rollback(cases, r)
    /\ decisions' = Rollback(decisions, r)
    /\ audit' = Rollback(audit, r)
    /\ standing' = Rollback(standing, r)
    /\ req' = [req EXCEPT ![r] = Idle]

Throw(r) == At(r, "failed") /\ RollbackRequest(r)
Crash(r) == ~At(r, "idle") /\ RollbackRequest(r)

-----------------------------------------------------------------------------

Init ==
    /\ cases = [c \in CaseIds |-> Settled(None)]
    /\ decisions = [d \in DecisionIds |-> Settled(None)]
    /\ audit = [d \in DecisionIds |-> Settled(None)]
    /\ standing \in [Accounts -> {Settled(None), Settled(ReentryHold)}]
    /\ req = [r \in Requests |-> Idle]

Begin(r) ==
    \/ \E a \in Accounts : BeginOpen(r, a)
    \/ \E c \in CaseIds :
         \/ BeginView(r, c)
         \/ \E action \in Offered, removed \in Removals : BeginDecide(r, c, action, removed)
         \/ \E original \in DecisionIds, lead \in BOOLEAN : BeginReverse(r, c, original, lead)

Step(r) ==
    \/ InsertCase(r) \/ FindCase(r) \/ LoadDecisions(r) \/ ReadStanding(r)
    \/ InsertDecision(r) \/ UpdateCase(r) \/ FindStanding(r) \/ UpsertStanding(r)
    \/ FlushAudit(r) \/ CommitRequest(r) \/ Throw(r)

Next == \E r \in Requests : Begin(r) \/ Step(r) \/ Crash(r)

Spec == Init /\ [][Next]_vars

-----------------------------------------------------------------------------
(* What is claimed of what is committed *)

State == [a \in Accounts |-> StateOf(Standing[a])]
Recorded(d) == Decision[d] # None
Subject(d) == CaseOf[Decision[d].case].subject
IsSanction(d) == EventOf(Decision[d].action) # None \/ Decision[d].reverses # None

(* Every table holds rows of its type, and every handler is at one of its    *)
(* places with local values of theirs.                                       *)
TypeOK ==
    /\ cases \in [CaseIds -> Versions(CaseRow \cup {None}, Requests)]
    /\ decisions \in [DecisionIds -> Versions(DecisionRow \cup {None}, Requests)]
    /\ audit \in [DecisionIds -> Versions(AccountStates \cup {None}, Requests)]
    /\ standing \in [Accounts -> Versions(StandingRow \cup {None}, Requests)]
    /\ req \in [Requests -> RequestState]

(* A standing is always attributable: whatever requests raced, the decision  *)
(* it names is on record, about this account, and its own audit row names    *)
(* the state the account is in and its removals explain what it lost.        *)
StandingIsExplained ==
    \A a \in Accounts :
        Standing[a] # None /\ Standing[a] # ReentryHold =>
            LET d == Standing[a].decision
            IN  /\ d # None /\ Recorded(d) /\ Subject(d) = a
                /\ AuditedState[d] = Standing[a].state
                /\ Standing[a].capabilities =
                       CapabilitiesFor(Standing[a].state, Decision[d].removed)

(* No audited sanction or lift is lost: with each one that commits, and with *)
(* nothing else, the generation of its account's standing rises by one.      *)
Applied(a) == {d \in DecisionIds : /\ Recorded(d) /\ IsSanction(d) /\ Subject(d) = a
                                   /\ AuditedState[d] # None}
Generation(a) == IF Standing[a] = None THEN 0 ELSE Standing[a].generation
EverySanctionCounts ==
    [][\A a \in Accounts : Generation(a)' - Generation(a) =
                               Cardinality(Applied(a)') - Cardinality(Applied(a))]_vars

(* A case is resolved by a decision taken on it, never by a reversal, and a  *)
(* case on which a decision was recorded is resolved and stays so.           *)
ResolvedByDecision ==
    \A c \in CaseIds :
        LET taken == {d \in DecisionIds : /\ Recorded(d) /\ Decision[d].case = c
                                          /\ Decision[d].reverses = None}
        IN  /\ taken # {} => CaseOf[c].resolution # None
            /\ CaseOf[c] # None /\ CaseOf[c].resolution # None =>
                   CaseOf[c].resolution \in taken

(* A re-entering account held for review leaves the hold only by a ban: no   *)
(* decision was taken that a reversal could answer.                          *)
HoldEndsInBan ==
    [][\A a \in Accounts :
          Standing[a] = ReentryHold /\ Standing'[a] # ReentryHold =>
              Standing'[a].state = "banned"]_vars

(* With one moderator at a time, accounts move by the account machine.       *)
Promise == INSTANCE AccountStanding WITH state <- State
FollowsMachine == Promise!Spec

(* With one moderator at a time, a decision has its row in the audit log.    *)
(* (A decision that commits without its audit rows is the one outcome the    *)
(* audit table exists to make impossible, says routes/moderation.ts.)        *)
DecisionIsAudited == \A d \in DecisionIds : Recorded(d) => AuditedState[d] # None

(* With one moderator at a time, a case takes one decision and is answered   *)
(* by reversals after that.                                                  *)
OneDecisionPerCase ==
    \A d, e \in DecisionIds :
        /\ Recorded(d) /\ Recorded(e) /\ Decision[d].case = Decision[e].case
        /\ Decision[d].reverses = None /\ Decision[e].reverses = None
        => d = e

(* A ban ends by a lead's reversal of a ban, and in no other way.            *)
BanStep ==
    \A a \in Accounts :
        State[a] = "banned" /\ State'[a] # "banned" =>
            \E r \in Requests :
                /\ req[r].lead /\ req[r].id = Standing'[a].decision
                /\ Decision[req[r].reverses].action = "ban"
BanStands == [][BanStep]_vars
=============================================================================
