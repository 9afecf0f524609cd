------------------------- MODULE EnforcementProofs -------------------------
(***************************************************************************)
(* Theorems about Enforcement, for any accounts, cases, decisions and      *)
(* number of moderators at work at once, and about MCEnforcement's         *)
(* behaviours in which no two of them have worked at once yet.             *)
(***************************************************************************)
EXTENDS MCEnforcement, FiniteSetTheorems, TLAPS

-----------------------------------------------------------------------------
(* Tables *)

(* What a transaction reads of a table of Rows are Rows. *)
LEMMA SeenType ==
    ASSUME NEW K, NEW Rows, NEW tx, NEW table \in [K -> Versions(Rows, Requests)]
    PROVE  Seen(table, tx) \in [K -> Rows]
  BY DEF Seen, Versions

(* Writing one of Rows keeps a table one of Rows. *)
LEMMA PutType ==
    ASSUME NEW K, NEW Rows, NEW tx \in Requests, NEW row \in Rows, NEW k \in K,
           NEW table \in [K -> Versions(Rows, Requests)]
    PROVE  Put(table, k, tx, row) \in [K -> Versions(Rows, Requests)]
  BY DEF Put, Versions

(* So do the ends of a transaction. *)
LEMMA EndType ==
    ASSUME NEW K, NEW Rows, NEW tx \in Requests,
           NEW table \in [K -> Versions(Rows, Requests)]
    PROVE  /\ Commit(table, tx) \in [K -> Versions(Rows, Requests)]
           /\ Rollback(table, tx) \in [K -> Versions(Rows, Requests)]
  BY DEF Commit, Rollback, Settled, Versions

-----------------------------------------------------------------------------
(* The invariant *)

(* Where a handler has written nothing yet, and where it is taking a         *)
(* decision on a case it has read.                                           *)
Reading == {"idle", "insert_case", "find_case", "load_decisions", "read_standing",
            "insert_decision"}
Deciding == {"read_standing", "insert_decision", "update_case", "find_standing",
             "upsert_standing", "flush_audit"}

(* The case of q is on record, about the account of q.                       *)
CaseIsRead(q) ==
    /\ q.case \in CaseIds /\ cases[q.case].row # None
    /\ cases[q.case].row.subject = q.account

(* What a handler's local values are at its place.                           *)
HandlerOK(r) ==
    LET q == req[r]
    IN  /\ q.op \in {"decide", "reverse"} => q.id \in DecisionIds
        /\ q.op = "decide" => q.reverses = None
        /\ q.op = "reverse" => q.removed = {} /\ q.reverses \in DecisionIds
        /\ q.at = "insert_case" => /\ q.op = "open" /\ q.case \in CaseIds
                                   /\ q.account \in Accounts
                                   /\ cases[q.case] = Settled(None)
        /\ q.at = "find_case" => q.op # "open" /\ q.case \in CaseIds
        /\ q.at = "load_decisions" => q.op \in {"reverse", "view"} /\ CaseIsRead(q)
        /\ q.at \in Deciding => q.op \in {"decide", "reverse"} /\ CaseIsRead(q)
        /\ q.at = "update_case" => q.op = "decide"

(* What a handler has written of its decision, at its place.                 *)
DecisionOK(r) ==
    LET q == req[r]
        own == decisions[q.id]
    IN  /\ q.op \in {"decide", "reverse"} /\ q.at \in Reading => own = Settled(None)
        /\ q.op = "reverse" /\ q.at \in {"read_standing", "insert_decision"} =>
             decisions[q.reverses].row # None
        /\ q.at \in Deciding \ Reading =>
             own.by = r /\ own.next # None /\ own.next.case = q.case
        /\ q.at = "update_case" /\ EventOf(q.action) # None => own.next.removed = q.removed
        /\ q.at \in {"find_standing", "upsert_standing"} => own.next.removed = q.removed

HoldsNothing(r) ==
    /\ \A c \in CaseIds : cases[c].by # r
    /\ \A d \in DecisionIds : decisions[d].by # r /\ audit[d].by # r
    /\ \A a \in Accounts : standing[a].by # r

(* Requests in flight at once draw different ids.                            *)
IdsDiffer ==
    \A r, q \in Requests : r # q =>
        /\ req[r].id # None => req[r].id # req[q].id
        /\ req[r].op = "open" /\ req[q].op = "open" => req[r].case # req[q].case

(* A case stays about its subject, and resolved once it is.                  *)
CaseKept(old, new) ==
    old # None => /\ new # None /\ new.subject = old.subject
                  /\ old.resolution # None => new.resolution # None
CasesKept == \A c \in CaseIds : CaseKept(cases[c].row, cases[c].next)

(* A decision is written once, by the request that drew its id, and then its *)
(* audit row by the same request.                                            *)
WrittenOnce ==
    \A d \in DecisionIds :
        /\ decisions[d].by # None =>
             decisions[d].row = None /\ decisions[d].next # None /\ req[decisions[d].by].id = d
        /\ audit[d].by # None => decisions[d].by = audit[d].by
        /\ audit[d].row # None => decisions[d].row # None

(* What a committed standing rests on is committed; what an uncommitted one  *)
(* will rest on was written by the same request.                             *)
Explained(a) ==
    LET row == standing[a].row
        d == row.decision
    IN  /\ d \in DecisionIds /\ decisions[d].row # None
        /\ cases[decisions[d].row.case].row # None
        /\ cases[decisions[d].row.case].row.subject = a
        /\ audit[d].row = row.state
        /\ row.capabilities = CapabilitiesFor(row.state, decisions[d].row.removed)

WillBeExplained(a, r) ==
    LET q == req[r]
        row == standing[a].next
        own == decisions[q.id]
    IN  /\ q.at \in {"flush_audit", "reply"} /\ q.account = a /\ CaseIsRead(q)
        /\ q.id \in DecisionIds /\ own.by = r /\ own.next # None
        /\ own.next.case = q.case /\ own.next.removed = q.removed
        /\ row # None /\ row.state = q.to /\ row.decision = q.id
        /\ row.capabilities = CapabilitiesFor(q.to, q.removed)
        /\ q.at = "reply" => audit[q.id].by = r /\ audit[q.id].next = q.to

StandingsExplained ==
    \A a \in Accounts :
        /\ standing[a].row \notin {None, ReentryHold} => Explained(a)
        /\ \A r \in Requests : standing[a].by = r => WillBeExplained(a, r)

Inv ==
    /\ TypeOK
    /\ \A r \in Requests : HandlerOK(r) /\ DecisionOK(r)
    /\ \A r \in Requests : req[r].at \in Reading => HoldsNothing(r)
    /\ IdsDiffer
    /\ CasesKept
    /\ WrittenOnce
    /\ StandingsExplained

LEMMA IdleType ==
    /\ Idle \in RequestState
    /\ Idle.at = "idle" /\ Idle.op = "view" /\ Idle.id = None
  BY DEF Idle, RequestState, Places, Ops, Replies, Actions, AccountStates

LEMMA HoldType == ReentryHold \in StandingRow
  BY DEF ReentryHold, StandingRow, Capabilities, AccountStates, Granted

LEMMA InitInv == Init => Inv
<1> SUFFICES ASSUME Init PROVE Inv
  OBVIOUS
<1>1. TypeOK
  BY IdleType, HoldType DEF Init, TypeOK, Versions, Settled
<1>2. \A r \in Requests : HandlerOK(r) /\ DecisionOK(r)
  BY IdleType DEF Init, HandlerOK, DecisionOK, Deciding
<1>3. \A r \in Requests : HoldsNothing(r)
  BY EnforcementNoneAssumption DEF Init, HoldsNothing, Settled
<1>4. IdsDiffer
  BY IdleType DEF Init, IdsDiffer
<1>5. CasesKept /\ WrittenOnce
  BY DEF Init, CasesKept, CaseKept, WrittenOnce, Settled
<1>6. StandingsExplained
  BY EnforcementNoneAssumption DEF Init, StandingsExplained, Settled
<1> QED
  BY <1>1, <1>2, <1>3, <1>4, <1>5, <1>6 DEF Inv

-----------------------------------------------------------------------------
(* What a handler writes *)

(* A step of request r, or its loss. *)
Acts(r) == Begin(r) \/ Step(r) \/ Crash(r)

Commits(r) ==
    /\ cases' = Commit(cases, r) /\ decisions' = Commit(decisions, r)
    /\ audit' = Commit(audit, r) /\ standing' = Commit(standing, r)
    /\ req' = [req EXCEPT ![r] = Idle] /\ At(r, "reply")
RollsBack(r) ==
    /\ cases' = Rollback(cases, r) /\ decisions' = Rollback(decisions, r)
    /\ audit' = Rollback(audit, r) /\ standing' = Rollback(standing, r)
    /\ req' = [req EXCEPT ![r] = Idle]
Reads(r) ==
    /\ \/ FindCase(r) \/ LoadDecisions(r) \/ ReadStanding(r) \/ FindStanding(r)
    /\ UNCHANGED tables

(* The ways a request steps, by what they do to the tables.                  *)
LEMMA Ways ==
    ASSUME NEW r \in Requests, Acts(r)
    PROVE  \/ Begin(r) \/ Reads(r) \/ Commits(r) \/ RollsBack(r)
           \/ InsertCase(r) \/ InsertDecision(r) \/ UpdateCase(r)
           \/ UpsertStanding(r) \/ FlushAudit(r)
  BY DEF Acts, Step, Reads, Commits, RollsBack, CommitRequest, RollbackRequest, Throw,
         Crash, FindCase, LoadDecisions, ReadStanding, FindStanding

LEMMA BeginReads == ASSUME NEW r \in Requests, Begin(r) PROVE UNCHANGED tables
  BY DEF Begin, BeginOpen, BeginView, BeginDecide, BeginReverse, Start

(* What every transaction reads are rows.                                    *)
LEMMA ReadType ==
    ASSUME TypeOK, NEW r \in Requests
    PROVE  /\ Seen(cases, r) \in [CaseIds -> CaseRow \cup {None}]
           /\ Seen(decisions, r) \in [DecisionIds -> DecisionRow \cup {None}]
           /\ Seen(standing, r) \in [Accounts -> StandingRow \cup {None}]
           /\ req[r] \in RequestState
  BY SeenType DEF TypeOK

(* The account of a request that has read its case is one.                   *)
LEMMA AccountRead ==
    ASSUME TypeOK, NEW q, CaseIsRead(q)
    PROVE  q.account \in Accounts
<1>1. cases[q.case].row \in CaseRow
  BY DEF CaseIsRead, TypeOK, Versions
<1> QED
  BY <1>1 DEF CaseIsRead, CaseRow

(* Machine and record agree on their states and capabilities.                *)
LEMMA MachineType ==
    /\ \A event \in AccountEvents : Moves[event].to \in AccountStates
    /\ \A action \in Actions : /\ EventOf(action) # None => EventOf(action) \in AccountEvents
                               /\ LiftOf(action) # None => LiftOf(action) \in AccountEvents
    /\ \A s \in AccountStates : \A removed : CapabilitiesFor(s, removed) \in SUBSET Capabilities
<1>1. \A event \in AccountEvents : Moves[event].to \in AccountStates
  BY DEF AccountEvents, Moves, Move, AccountStates
<1>2. \A action \in Actions : /\ EventOf(action) # None => EventOf(action) \in AccountEvents
                              /\ LiftOf(action) # None => LiftOf(action) \in AccountEvents
  BY DEF Actions, EventOf, LiftOf, AccountEvents, Moves
<1>3. \A s \in AccountStates : \A removed : CapabilitiesFor(s, removed) \in SUBSET Capabilities
  BY DEF CapabilitiesFor, Capabilities
<1> QED
  BY <1>1, <1>2, <1>3

-----------------------------------------------------------------------------
(* Cases *)

WritesCase(r) ==
    \E row \in CaseRow :
        /\ req[r].case \in CaseIds /\ FreeFor(cases, req[r].case, r)
        /\ CaseKept(Seen(cases, r)[req[r].case], row)
        /\ cases[req[r].case] = Settled(None) => req[r].op = "open"
        /\ cases' = Put(cases, req[r].case, r, row)

LEMMA CaseWrites ==
    ASSUME Inv, NEW r \in Requests, Acts(r)
    PROVE  \/ UNCHANGED cases
           \/ Commits(r)
           \/ RollsBack(r)
           \/ WritesCase(r)
<1>1. CASE InsertCase(r)
  <2> DEFINE row == [subject |-> req[r].account, resolution |-> None]
  <2>1. /\ req[r].case \in CaseIds /\ req[r].account \in Accounts /\ req[r].op = "open"
        /\ cases[req[r].case] = Settled(None)
    BY <1>1 DEF Inv, HandlerOK, InsertCase, At
  <2>2. row \in CaseRow
    BY <2>1 DEF CaseRow
  <2>3. /\ FreeFor(cases, req[r].case, r)
        /\ Seen(cases, r)[req[r].case] = None
    BY <2>1 DEF FreeFor, Settled, Seen, Inv, TypeOK
  <2>4. cases' = Put(cases, req[r].case, r, row)
    BY <1>1 DEF InsertCase
  <2> HIDE DEF row
  <2> QED
    BY <2>1, <2>2, <2>3, <2>4 DEF WritesCase, CaseKept
<1>2. CASE UpdateCase(r)
  <2> DEFINE old == Case(r)
             row == [old EXCEPT !.resolution = req[r].id]
  <2>1. req[r].op = "decide" /\ CaseIsRead(req[r]) /\ req[r].id \in DecisionIds
    BY <1>2 DEF Inv, HandlerOK, UpdateCase, At, Deciding
  <2>2. cases[req[r].case].row # None /\ CaseKept(cases[req[r].case].row, cases[req[r].case].next)
    BY <2>1 DEF CaseIsRead, Inv, CasesKept
  <2>3. old \in CaseRow
    <3>1. old \in CaseRow \cup {None}
      BY <2>1, ReadType DEF Inv, Case, CaseIsRead
    <3>2. old # None
      BY <2>1, <2>2 DEF Case, Seen, CaseKept, CaseIsRead, Inv, TypeOK
    <3> QED
      BY <3>1, <3>2
  <2>4. row \in CaseRow /\ row.subject = old.subject /\ row.resolution = req[r].id
    BY <2>1, <2>3 DEF CaseRow
  <2>5. /\ FreeFor(cases, req[r].case, r) /\ cases' = Put(cases, req[r].case, r, row)
    BY <1>2 DEF UpdateCase
  <2>6. CaseKept(old, row)
    BY <2>1, <2>4, EnforcementNoneAssumption, EnforcementRowAssumption DEF CaseKept
  <2>7. old = Seen(cases, r)[req[r].case]
    BY DEF Case
  <2>8. cases[req[r].case] # Settled(None) /\ req[r].case \in CaseIds
    BY <2>1, <2>2 DEF Settled, CaseIsRead
  <2> HIDE DEF old, row
  <2> QED
    BY <2>4, <2>5, <2>6, <2>7, <2>8 DEF WritesCase
<1>3. CASE Begin(r) \/ Reads(r)
  BY <1>3, BeginReads DEF Reads, tables
<1>4. CASE InsertDecision(r) \/ UpsertStanding(r) \/ FlushAudit(r)
  BY <1>4 DEF InsertDecision, UpsertStanding, FlushAudit
<1>5. CASE Commits(r) \/ RollsBack(r)
  BY <1>5 DEF Commits, RollsBack
<1> QED
  BY <1>1, <1>2, <1>3, <1>4, <1>5, Ways

(* How a step of r leaves a case.                                            *)
CaseMoves(r, c) ==
    \/ cases'[c] = cases[c]
    \/ cases[c].by = r /\ cases'[c].by = None /\ (Commits(r) \/ RollsBack(r))
    \/ /\ req[r].case = c /\ cases'[c].by = r
       /\ cases[c] = Settled(None) => req[r].op = "open"

(* What a case becomes is what it was, kept.                                 *)
LEMMA CaseRowStep ==
    ASSUME Inv, NEW r \in Requests, Acts(r), NEW c \in CaseIds
    PROVE  /\ cases' \in [CaseIds -> Versions(CaseRow \cup {None}, Requests)]
           /\ CaseKept(cases[c].row, cases'[c].row)
           /\ CaseKept(cases'[c].row, cases'[c].next)
           /\ CaseMoves(r, c)
<1> USE DEF CaseMoves
<1>1. /\ cases \in [CaseIds -> Versions(CaseRow \cup {None}, Requests)]
      /\ CaseKept(cases[c].row, cases[c].next)
  BY DEF Inv, TypeOK, CasesKept
<1>2. CASE UNCHANGED cases
  BY <1>1, <1>2 DEF CaseKept
<1>3. CASE Commits(r) \/ RollsBack(r)
  <2>1. cases' \in [CaseIds -> Versions(CaseRow \cup {None}, Requests)]
    <3>1. /\ Commit(cases, r) \in [CaseIds -> Versions(CaseRow \cup {None}, Requests)]
          /\ Rollback(cases, r) \in [CaseIds -> Versions(CaseRow \cup {None}, Requests)]
      BY <1>1, EndType
    <3> QED
      BY <1>3, <3>1 DEF Commits, RollsBack
  <2>2. \/ cases'[c] = cases[c]
        \/ cases[c].by = r /\ cases'[c] \in {Settled(cases[c].next), Settled(cases[c].row)}
    BY <1>1, <1>3 DEF Commit, Rollback, Commits, RollsBack
  <2> QED
    BY <1>1, <1>3, <2>1, <2>2 DEF CaseKept, Settled
<1>4. CASE WritesCase(r)
  <2>1. PICK row \in CaseRow :
          /\ req[r].case \in CaseIds /\ FreeFor(cases, req[r].case, r)
          /\ CaseKept(Seen(cases, r)[req[r].case], row)
          /\ cases[req[r].case] = Settled(None) => req[r].op = "open"
          /\ cases' = Put(cases, req[r].case, r, row)
    BY <1>4 DEF WritesCase
  <2>2. cases' \in [CaseIds -> Versions(CaseRow \cup {None}, Requests)]
    <3>1. row \in CaseRow \cup {None}
      OBVIOUS
    <3> QED
      BY <1>1, <2>1, <3>1, PutType, Zenon
  <2>3. CASE c # req[r].case
    BY <1>1, <2>1, <2>2, <2>3 DEF Put, CaseKept
  <2>4. CASE c = req[r].case
    <3>1. cases'[c] = [row |-> cases[c].row, next |-> row, by |-> r]
      BY <1>1, <2>1, <2>4 DEF Put
    <3>2. CaseKept(cases[c].row, row)
      BY <1>1, <2>1, <2>4 DEF Seen, CaseKept, FreeFor
    <3> QED
      BY <2>1, <2>2, <2>4, <3>1, <3>2 DEF CaseKept
  <2> QED
    BY <2>3, <2>4
<1> QED
  BY <1>2, <1>3, <1>4, CaseWrites

-----------------------------------------------------------------------------
(* Decisions and their audit rows *)

LEMMA EventAskedType ==
    ASSUME Inv, NEW r \in Requests, req[r].at \in Deciding
    PROVE  /\ req[r].op = "decide" => EventAsked(r) = EventOf(req[r].action)
           /\ (req[r].op = "decide" \/ req[r].at \in {"read_standing", "insert_decision"})
                /\ EventAsked(r) # None => EventAsked(r) \in AccountEvents
<1>1. req[r].op \in {"decide", "reverse"} /\ req[r].action \in Actions
  BY ReadType DEF Inv, HandlerOK, RequestState
<1>2. CASE req[r].op = "decide"
  BY <1>1, <1>2, MachineType DEF EventAsked
<1>3. CASE req[r].op = "reverse" /\ req[r].at \in {"read_standing", "insert_decision"}
  <2> DEFINE d == req[r].reverses
  <2>1. d \in DecisionIds /\ decisions[d].row # None /\ decisions[d].by = None
    <3>1. d \in DecisionIds
      BY <1>3 DEF Inv, HandlerOK
    <3>2. decisions[d].row # None
      BY <1>3 DEF Inv, DecisionOK
    <3> QED
      BY <3>1, <3>2 DEF Inv, WrittenOnce
  <2>2. Seen(decisions, r)[d] = decisions[d].row /\ decisions[d].row \in DecisionRow
    BY <2>1, EnforcementNoneAssumption DEF Seen, Inv, TypeOK, Versions
  <2>3. Seen(decisions, r)[d].action \in Actions
    BY <2>2 DEF DecisionRow
  <2> QED
    BY <1>1, <1>3, <2>3, MachineType DEF EventAsked
<1> QED
  BY <1>1, <1>2, <1>3

WritesDecision(r) ==
    \E row \in DecisionRow :
        /\ At(r, "insert_decision") /\ req[r].id \in DecisionIds
        /\ decisions[req[r].id] = Settled(None)
        /\ row.case = req[r].case
        /\ req[r].op = "reverse" \/ EventAsked(r) # None => row.removed = req[r].removed
        /\ decisions' = Put(decisions, req[r].id, r, row)

LEMMA DecisionWrites ==
    ASSUME Inv, NEW r \in Requests, Acts(r)
    PROVE  \/ UNCHANGED decisions
           \/ Commits(r)
           \/ RollsBack(r)
           \/ WritesDecision(r)
<1>1. CASE InsertDecision(r)
  <2> DEFINE row == [case |-> req[r].case, action |-> req[r].action,
                     removed |-> IF EventAsked(r) = None THEN {} ELSE req[r].removed,
                     reverses |-> req[r].reverses]
  <2>1. At(r, "insert_decision")
    BY <1>1 DEF InsertDecision
  <2>2. /\ req[r].op \in {"decide", "reverse"} /\ req[r].case \in CaseIds
        /\ req[r].op = "reverse" => req[r].removed = {}
        /\ req[r].id \in DecisionIds
    BY <2>1 DEF Inv, HandlerOK, At, Deciding, CaseIsRead
  <2>3. decisions[req[r].id] = Settled(None)
    BY <2>1, <2>2 DEF Inv, DecisionOK, At, Reading
  <2>4. /\ req[r].action \in Actions /\ req[r].removed \in SUBSET Capabilities
        /\ req[r].reverses \in DecisionIds \cup {None}
    BY ReadType DEF Inv, RequestState
  <2>5. row \in DecisionRow /\ row.case = req[r].case
        /\ (req[r].op = "reverse" \/ EventAsked(r) # None => row.removed = req[r].removed)
    BY <2>2, <2>4 DEF DecisionRow
  <2>6. decisions' = Put(decisions, req[r].id, r, row)
    BY <1>1 DEF InsertDecision
  <2> HIDE DEF row
  <2> QED
    BY <2>1, <2>2, <2>3, <2>5, <2>6 DEF WritesDecision
<1>2. CASE Begin(r) \/ Reads(r)
  BY <1>2, BeginReads DEF Reads, tables
<1>3. CASE InsertCase(r) \/ UpdateCase(r) \/ UpsertStanding(r) \/ FlushAudit(r)
  BY <1>3 DEF InsertCase, UpdateCase, UpsertStanding, FlushAudit
<1>4. CASE Commits(r) \/ RollsBack(r)
  BY <1>4 DEF Commits, RollsBack
<1> QED
  BY <1>1, <1>2, <1>3, <1>4, Ways

WritesAudit(r) ==
    /\ At(r, "flush_audit") /\ req[r].id \in DecisionIds
    /\ decisions[req[r].id].by = r
    /\ audit' = Put(audit, req[r].id, r, req[r].to)

LEMMA AuditWrites ==
    ASSUME Inv, NEW r \in Requests, Acts(r)
    PROVE  \/ UNCHANGED audit
           \/ Commits(r)
           \/ RollsBack(r)
           \/ WritesAudit(r)
<1>1. CASE FlushAudit(r)
  <2>1. At(r, "flush_audit") /\ audit' = Put(audit, req[r].id, r, req[r].to)
    BY <1>1 DEF FlushAudit, StateAudited
  <2>2. req[r].id \in DecisionIds
    BY <2>1 DEF Inv, HandlerOK, At, Deciding
  <2>3. decisions[req[r].id].by = r
    BY <2>1 DEF Inv, DecisionOK, At, Deciding, Reading
  <2> QED
    BY <2>1, <2>2, <2>3 DEF WritesAudit
<1>2. CASE Begin(r) \/ Reads(r)
  BY <1>2, BeginReads DEF Reads, tables
<1>3. CASE InsertCase(r) \/ UpdateCase(r) \/ UpsertStanding(r) \/ InsertDecision(r)
  BY <1>3 DEF InsertCase, UpdateCase, UpsertStanding, InsertDecision
<1>4. CASE Commits(r) \/ RollsBack(r)
  BY <1>4 DEF Commits, RollsBack
<1> QED
  BY <1>1, <1>2, <1>3, <1>4, Ways

(* Standing: the compare-and-set writes the standing decided on.             *)
WritesStanding(r) ==
    \E generation \in Nat :
        /\ At(r, "upsert_standing") /\ req[r].account \in Accounts
        /\ NewStanding(r, generation) \in StandingRow
        /\ standing' = Put(standing, req[r].account, r, NewStanding(r, generation))

LEMMA StandingWrites ==
    ASSUME Inv, NEW r \in Requests, Acts(r)
    PROVE  \/ UNCHANGED standing
           \/ Commits(r)
           \/ RollsBack(r)
           \/ WritesStanding(r)
<1>1. CASE UpsertStanding(r)
  <2>1. At(r, "upsert_standing")
    BY <1>1 DEF UpsertStanding
  <2>2. req[r].account \in Accounts
    BY <2>1, AccountRead DEF Inv, HandlerOK, At, Deciding
  <2>3. PICK next : next = IF SubjectStanding(r) = None THEN 1
                           ELSE SubjectStanding(r).generation + 1
    OBVIOUS
  <2>4. next \in Nat
    <3>1. SubjectStanding(r) \in StandingRow \cup {None}
      BY <2>2, ReadType DEF Inv, SubjectStanding
    <3> QED
      BY <2>3, <3>1 DEF StandingRow
  <2>5. /\ req[r].to \in AccountStates /\ req[r].removed \in SUBSET Capabilities
        /\ req[r].id \in DecisionIds \cup {None}
    BY ReadType DEF Inv, RequestState
  <2>6. NewStanding(r, next) \in StandingRow
    BY <2>4, <2>5, MachineType DEF NewStanding, StandingRow
  <2>7. UNCHANGED standing \/ standing' = Put(standing, req[r].account, r, NewStanding(r, next))
    BY <1>1, <2>3 DEF UpsertStanding
  <2> QED
    BY <2>1, <2>2, <2>4, <2>6, <2>7 DEF WritesStanding
<1>2. CASE Begin(r) \/ Reads(r)
  BY <1>2, BeginReads DEF Reads, tables
<1>3. CASE InsertCase(r) \/ UpdateCase(r) \/ FlushAudit(r) \/ InsertDecision(r)
  BY <1>3 DEF InsertCase, UpdateCase, FlushAudit, InsertDecision
<1>4. CASE Commits(r) \/ RollsBack(r)
  BY <1>4 DEF Commits, RollsBack
<1> QED
  BY <1>1, <1>2, <1>3, <1>4, Ways

-----------------------------------------------------------------------------
(* What a handler remembers *)

SameRequest(r) ==
    /\ req'[r].op = req[r].op /\ req'[r].id = req[r].id /\ req'[r].case = req[r].case
    /\ req'[r].removed = req[r].removed /\ req'[r].reverses = req[r].reverses
    /\ req'[r].action = req[r].action

Typed == req' \in [Requests -> RequestState]
OthersStay(r) == \A q \in Requests \ {r} : req'[q] = req[q]

LEMMA MoveType ==
    ASSUME req \in [Requests -> RequestState], NEW r \in Requests
    PROVE  /\ \A place \in Places : Goto(r, place) =>
                /\ Typed /\ OthersStay(r) /\ SameRequest(r)
                /\ req'[r] = [req[r] EXCEPT !.at = place]
           /\ \A reply \in Replies : Answer(r, reply) =>
                /\ Typed /\ OthersStay(r) /\ SameRequest(r)
                /\ req'[r].at = "reply" /\ req'[r].to = req[r].to
                /\ req'[r].account = req[r].account
<1>1. ASSUME NEW place \in Places, Goto(r, place)
      PROVE  /\ Typed /\ OthersStay(r) /\ SameRequest(r)
             /\ req'[r] = [req[r] EXCEPT !.at = place]
  BY <1>1 DEF Goto, RequestState, Typed, OthersStay, SameRequest
<1>2. ASSUME NEW reply \in Replies, Answer(r, reply)
      PROVE  /\ Typed /\ OthersStay(r) /\ SameRequest(r)
             /\ req'[r].at = "reply" /\ req'[r].to = req[r].to
             /\ req'[r].account = req[r].account
  <2> DEFINE q == [req[r] EXCEPT !.at = "reply", !.reply = reply]
  <2>1. q \in RequestState
    BY ZenonT(60) DEF RequestState, Places
  <2>2. /\ q.op = req[r].op /\ q.id = req[r].id /\ q.case = req[r].case
        /\ q.removed = req[r].removed /\ q.reverses = req[r].reverses
        /\ q.action = req[r].action /\ q.at = "reply" /\ q.to = req[r].to
        /\ q.account = req[r].account
    BY DEF RequestState
  <2>3. req' = [req EXCEPT ![r] = q]
    BY <1>2, Zenon DEF Answer
  <2> HIDE DEF q
  <2> QED
    BY <2>1, <2>2, <2>3 DEF Typed, OthersStay, SameRequest
<1> QED
  BY <1>1, <1>2

(* A request that begins is one, with ids nobody else has.                   *)
Begun(r, q) ==
    /\ q \in RequestState /\ req[r].at = "idle"
    /\ req' = [req EXCEPT ![r] = q]
    /\ q.case \in CaseIds
    /\ \/ /\ q.at = "insert_case" /\ q.op = "open" /\ q.account \in Accounts
          /\ q.case \in FreshCases /\ q.id = None
       \/ q.at = "find_case" /\ q.op = "view" /\ q.id = None
       \/ /\ q.at = "find_case" /\ q.op = "decide" /\ q.id \in FreshDecisions
          /\ q.reverses = None
       \/ /\ q.at = "find_case" /\ q.op = "reverse" /\ q.id \in FreshDecisions
          /\ q.reverses \in DecisionIds /\ q.removed = {}

LEMMA BeginStep ==
    ASSUME Inv, NEW r \in Requests, Begin(r)
    PROVE  \E q : Begun(r, q)
<1>idle. /\ Idle.removed = {} /\ Idle.reverses = None /\ Idle.id = None
         /\ Idle.action = "clear"
  BY DEF Idle
<1>1. ASSUME NEW a \in Accounts, BeginOpen(r, a)
      PROVE  \E q : Begun(r, q)
  <2>1. PICK c \in FreshCases : c = CHOOSE d \in FreshCases : TRUE
    BY <1>1 DEF BeginOpen
  <2> DEFINE q == [Idle EXCEPT !.at = "insert_case", !.op = "open", !.account = a,
                               !.case = c]
  <2>2. c \in CaseIds
    BY <2>1 DEF FreshCases
  <2>3. /\ q \in RequestState /\ q.at = "insert_case" /\ q.op = "open" /\ q.account = a
        /\ q.case = c /\ q.id = None
    BY ZenonT(60), <2>2, IdleType DEF RequestState, Places, Ops
  <2>4. req' = [req EXCEPT ![r] = q] /\ req[r].at = "idle"
    BY <1>1, <2>1 DEF BeginOpen, Start, At
  <2> HIDE DEF q
  <2> QED
    BY <2>1, <2>2, <2>3, <2>4 DEF Begun
<1>2. ASSUME NEW c \in CaseIds, BeginView(r, c)
      PROVE  \E q : Begun(r, q)
  <2> DEFINE q == [Idle EXCEPT !.at = "find_case", !.op = "view", !.case = c]
  <2>1. q \in RequestState /\ q.at = "find_case" /\ q.op = "view" /\ q.case = c /\ q.id = None
    BY ZenonT(60), IdleType DEF RequestState, Places, Ops
  <2>2. req' = [req EXCEPT ![r] = q] /\ req[r].at = "idle"
    BY <1>2 DEF BeginView, Start, At
  <2> HIDE DEF q
  <2> QED
    BY <2>1, <2>2 DEF Begun
<1>3. ASSUME NEW c \in CaseIds, NEW action \in Offered, NEW removed \in Removals,
             BeginDecide(r, c, action, removed)
      PROVE  \E q : Begun(r, q)
  <2>1. PICK d \in FreshDecisions : d = CHOOSE e \in FreshDecisions : TRUE
    BY <1>3 DEF BeginDecide
  <2> DEFINE q == [Idle EXCEPT !.at = "find_case", !.op = "decide", !.case = c,
                               !.id = d, !.action = action, !.removed = removed]
  <2>2. d \in DecisionIds /\ action \in Actions /\ removed \in SUBSET Capabilities
    BY <2>1, OfferedAssumption, RemovalsAssumption DEF FreshDecisions
  <2>3. /\ q \in RequestState /\ q.at = "find_case" /\ q.op = "decide" /\ q.case = c
        /\ q.id = d /\ q.reverses = None
    BY <2>2, <1>idle, IdleType DEF RequestState, Places, Ops
  <2>4. req' = [req EXCEPT ![r] = q] /\ req[r].at = "idle"
    BY <1>3, <2>1 DEF BeginDecide, Start, At
  <2> HIDE DEF q
  <2> QED
    BY <2>1, <2>2, <2>3, <2>4 DEF Begun
<1>4. ASSUME NEW c \in CaseIds, NEW original \in DecisionIds, NEW lead \in BOOLEAN,
             BeginReverse(r, c, original, lead)
      PROVE  \E q : Begun(r, q)
  <2> DEFINE fresh == FreshDecisions \ {original}
  <2>1. PICK d \in fresh : d = CHOOSE e \in fresh : TRUE
    BY <1>4 DEF BeginReverse
  <2> DEFINE q == [Idle EXCEPT !.at = "find_case", !.op = "reverse", !.case = c,
                               !.id = d, !.reverses = original, !.lead = lead]
  <2>2. d \in DecisionIds /\ d \in FreshDecisions
    BY <2>1 DEF FreshDecisions
  <2>3. /\ q \in RequestState /\ q.at = "find_case" /\ q.op = "reverse" /\ q.case = c
        /\ q.id = d /\ q.reverses = original /\ q.removed = {}
    BY <2>2, <1>idle, IdleType DEF RequestState, Places, Ops
  <2>4. req' = [req EXCEPT ![r] = q] /\ req[r].at = "idle"
    BY <1>4, <2>1 DEF BeginReverse, Start, At
  <2> HIDE DEF q
  <2> QED
    BY <2>2, <2>3, <2>4 DEF Begun
<1> QED
  BY <1>1, <1>2, <1>3, <1>4 DEF Begin

(* Every step of a request past its beginning keeps what was asked.          *)
Keeps(r) == Typed /\ OthersStay(r) /\ SameRequest(r)

LEMMA FindCaseStep ==
    ASSUME Inv, NEW r \in Requests, FindCase(r)
    PROVE  /\ Keeps(r)
           /\ \/ req'[r].at = "reply"
              \/ /\ req[r].op = "decide" /\ req'[r].at = "read_standing"
                 /\ cases[req[r].case].row # None /\ IsOpen(cases[req[r].case].row)
                 /\ req'[r].account = cases[req[r].case].row.subject
              \/ /\ req[r].op # "decide" /\ req'[r].at = "load_decisions"
                 /\ cases[req[r].case].row # None
                 /\ req'[r].account = cases[req[r].case].row.subject
<1> DEFINE place == IF req[r].op = "decide" THEN "read_standing" ELSE "load_decisions"
           row == Case(r)
<1>1. req \in [Requests -> RequestState] /\ req[r].at = "find_case"
  BY DEF Inv, TypeOK, FindCase, At
<1>2. req[r].case \in CaseIds /\ cases[req[r].case].by # r
  BY <1>1 DEF Inv, HandlerOK, HoldsNothing, Reading
<1>3. row = cases[req[r].case].row /\ row \in CaseRow \cup {None}
  BY <1>2, ReadType DEF Case, Seen, Inv, TypeOK
<1>4. \/ Answer(r, "not_found") \/ Answer(r, "refused")
      \/ /\ row # None /\ req' = [req EXCEPT ![r].account = row.subject, ![r].at = place]
         /\ req[r].op = "decide" => IsOpen(row)
  BY DEF FindCase
<1>5. CASE Answer(r, "not_found") \/ Answer(r, "refused")
  BY <1>1, <1>5, MoveType DEF Keeps, Replies
<1>6. CASE /\ row # None /\ req' = [req EXCEPT ![r].account = row.subject, ![r].at = place]
           /\ req[r].op = "decide" => IsOpen(row)
  <2> DEFINE q == [req[r] EXCEPT !.account = row.subject, !.at = place]
  <2>1. row.subject \in Accounts /\ place \in Places
    BY <1>3, <1>6 DEF CaseRow, Places
  <2>2. q \in RequestState
    BY ZenonT(60), <1>1, <2>1 DEF RequestState
  <2>3. /\ q.op = req[r].op /\ q.id = req[r].id /\ q.case = req[r].case
        /\ q.removed = req[r].removed /\ q.reverses = req[r].reverses
        /\ q.action = req[r].action /\ q.at = place /\ q.account = row.subject
    BY <1>1 DEF RequestState
  <2>4. req' = [req EXCEPT ![r] = q]
    BY <1>6, Zenon
  <2>5. Keeps(r) /\ req'[r].at = place /\ req'[r].account = row.subject
    <3> HIDE DEF q, place, row
    <3> QED
      BY <1>1, <2>2, <2>3, <2>4 DEF Keeps, Typed, OthersStay, SameRequest
  <2> QED
    BY <1>3, <1>6, <2>5
<1> QED
  BY <1>4, <1>5, <1>6

LEMMA LoadDecisionsStep ==
    ASSUME Inv, NEW r \in Requests, LoadDecisions(r)
    PROVE  /\ Keeps(r)
           /\ req'[r].account = req[r].account
           /\ \/ req'[r].at \in {"reply", "failed"}
              \/ /\ req'[r].at = "read_standing" /\ req[r].op = "reverse"
                 /\ decisions[req[r].reverses].row # None
                 /\ decisions[req[r].reverses].row.case = req[r].case
<1>1. req \in [Requests -> RequestState] /\ req[r].at = "load_decisions"
  BY DEF Inv, TypeOK, LoadDecisions, At
<1>2. /\ req[r].op \in {"reverse", "view"}
      /\ \A d \in DecisionIds : decisions[d].by # r
  BY <1>1 DEF Inv, HandlerOK, HoldsNothing, Reading
<1>3. \/ Goto(r, "failed") \/ Answer(r, "viewed") \/ Answer(r, "not_found")
      \/ Answer(r, "refused")
      \/ /\ Goto(r, "read_standing") /\ req[r].op # "view"
         /\ req[r].reverses \in DecisionsOn(Seen(decisions, r), req[r].case)
  BY DEF LoadDecisions
<1>4. CASE \/ Answer(r, "viewed") \/ Answer(r, "not_found") \/ Answer(r, "refused")
  BY <1>1, <1>4, MoveType DEF Keeps, Replies
<1>5. CASE Goto(r, "failed")
  <2>1. Keeps(r) /\ req'[r] = [req[r] EXCEPT !.at = "failed"]
    BY <1>1, <1>5, MoveType DEF Keeps, Places
  <2> QED
    BY <1>1, <2>1 DEF RequestState
<1>6. CASE /\ Goto(r, "read_standing") /\ req[r].op # "view"
           /\ req[r].reverses \in DecisionsOn(Seen(decisions, r), req[r].case)
  <2>1. Keeps(r) /\ req'[r] = [req[r] EXCEPT !.at = "read_standing"]
    BY <1>1, <1>6, MoveType DEF Keeps, Places
  <2>2. req'[r].at = "read_standing" /\ req'[r].account = req[r].account
    BY <1>1, <2>1 DEF RequestState
  <2>3. /\ decisions[req[r].reverses].row # None
        /\ decisions[req[r].reverses].row.case = req[r].case
    BY <1>2, <1>6 DEF DecisionsOn, Seen, Inv, TypeOK
  <2> QED
    BY <1>2, <1>6, <2>1, <2>2, <2>3
<1> QED
  BY <1>3, <1>4, <1>5, <1>6

LEMMA ReadStandingStep ==
    ASSUME Inv, NEW r \in Requests, ReadStanding(r)
    PROVE  /\ Keeps(r)
           /\ req'[r].account = req[r].account
           /\ req'[r].at \in {"reply", "insert_decision"}
<1> DEFINE state == StateOf(SubjectStanding(r))
<1>1. req \in [Requests -> RequestState] /\ req[r].at = "read_standing"
  BY DEF Inv, TypeOK, ReadStanding, At
<1>2. /\ CaseIsRead(req[r])
      /\ EventAsked(r) # None => EventAsked(r) \in AccountEvents
  BY <1>1, EventAskedType DEF Inv, HandlerOK, Deciding
<1>3. state \in AccountStates
  <2>1. SubjectStanding(r) \in StandingRow \cup {None}
    BY <1>2, AccountRead, ReadType DEF Inv, SubjectStanding
  <2> QED
    BY <2>1 DEF StateOf, StandingRow, AccountStates
<1>4. \/ Answer(r, "refused")
      \/ \E to \in AccountStates :
            req' = [req EXCEPT ![r].to = to, ![r].at = "insert_decision"]
  <2>1. CASE EventAsked(r) = None
    BY <1>3, <2>1 DEF ReadStanding
  <2>2. CASE EventAsked(r) # None
    BY <1>2, <2>2, MachineType DEF ReadStanding
  <2> QED
    BY <2>1, <2>2
<1>5. CASE Answer(r, "refused")
  BY <1>1, <1>5, MoveType DEF Keeps, Replies
<1>6. ASSUME NEW to \in AccountStates,
             req' = [req EXCEPT ![r].to = to, ![r].at = "insert_decision"]
      PROVE  Keeps(r) /\ req'[r].account = req[r].account /\ req'[r].at = "insert_decision"
  <2> DEFINE q == [req[r] EXCEPT !.to = to, !.at = "insert_decision"]
  <2>1. q \in RequestState
    BY ZenonT(60), <1>1 DEF RequestState, Places
  <2>2. /\ q.op = req[r].op /\ q.id = req[r].id /\ q.case = req[r].case
        /\ q.removed = req[r].removed /\ q.reverses = req[r].reverses
        /\ q.action = req[r].action /\ q.at = "insert_decision"
        /\ q.account = req[r].account
    BY <1>1 DEF RequestState
  <2>3. req' = [req EXCEPT ![r] = q]
    BY <1>6, Zenon
  <2> HIDE DEF q
  <2> QED
    BY <1>1, <2>1, <2>2, <2>3 DEF Keeps, Typed, OthersStay, SameRequest
<1> HIDE DEF state
<1> QED
  BY <1>4, <1>5, <1>6

LEMMA WritingSteps ==
    ASSUME Inv, NEW r \in Requests
    PROVE  /\ InsertCase(r) => Keeps(r) /\ req'[r].at = "reply"
           /\ InsertDecision(r) =>
                /\ Keeps(r) /\ req'[r].account = req[r].account /\ req'[r].to = req[r].to
                /\ req'[r].at = IF req[r].op = "decide" THEN "update_case"
                                                        ELSE "find_standing"
           /\ UpdateCase(r) =>
                /\ Keeps(r) /\ req'[r].account = req[r].account /\ req'[r].to = req[r].to
                /\ req'[r].at = IF EventOf(req[r].action) = None THEN "flush_audit"
                                                                 ELSE "find_standing"
           /\ UpsertStanding(r) =>
                /\ Keeps(r)
                /\ \/ req'[r].at = "reply" /\ UNCHANGED standing
                   \/ /\ req'[r].at = "flush_audit" /\ req'[r].to = req[r].to
                      /\ req'[r].account = req[r].account
           /\ FlushAudit(r) =>
                /\ Keeps(r) /\ req'[r].at = "reply" /\ req'[r].to = req[r].to
                /\ req'[r].account = req[r].account
<1>1. req \in [Requests -> RequestState]
  BY DEF Inv, TypeOK
<1>2. ASSUME NEW place \in Places, Goto(r, place)
      PROVE  /\ Keeps(r) /\ req'[r].at = place /\ req'[r].account = req[r].account
             /\ req'[r].to = req[r].to
  <2>1. Keeps(r) /\ req'[r] = [req[r] EXCEPT !.at = place]
    BY <1>1, <1>2, MoveType DEF Keeps
  <2> QED
    BY <1>1, <2>1 DEF RequestState
<1>3. ASSUME NEW reply \in Replies, Answer(r, reply)
      PROVE  /\ Keeps(r) /\ req'[r].at = "reply" /\ req'[r].account = req[r].account
             /\ req'[r].to = req[r].to
  BY <1>1, <1>3, MoveType DEF Keeps
<1>4. InsertCase(r) => Keeps(r) /\ req'[r].at = "reply"
  BY <1>3 DEF InsertCase, Replies
<1>5. ASSUME InsertDecision(r)
      PROVE  /\ Keeps(r) /\ req'[r].account = req[r].account /\ req'[r].to = req[r].to
             /\ req'[r].at = IF req[r].op = "decide" THEN "update_case"
                                                     ELSE "find_standing"
  BY <1>2, <1>5 DEF InsertDecision, AfterDecision, Places
<1>6. ASSUME UpdateCase(r)
      PROVE  /\ Keeps(r) /\ req'[r].account = req[r].account /\ req'[r].to = req[r].to
             /\ req'[r].at = IF EventOf(req[r].action) = None THEN "flush_audit"
                                                              ELSE "find_standing"
  <2>1. EventAsked(r) = EventOf(req[r].action)
    BY <1>6, EventAskedType DEF UpdateCase, At, Deciding, Inv, HandlerOK
  <2> QED
    BY <1>2, <1>6, <2>1 DEF UpdateCase, AfterCase, Places
<1>7. ASSUME UpsertStanding(r)
      PROVE  /\ Keeps(r)
             /\ \/ req'[r].at = "reply" /\ UNCHANGED standing
                \/ /\ req'[r].at = "flush_audit" /\ req'[r].to = req[r].to
                   /\ req'[r].account = req[r].account
  <2>1. \/ Answer(r, "conflict") /\ UNCHANGED standing
        \/ Goto(r, "flush_audit")
    BY <1>7 DEF UpsertStanding, IsConflict
  <2> QED
    BY <1>2, <1>3, <2>1 DEF Places, Replies
<1>8. ASSUME FlushAudit(r)
      PROVE  /\ Keeps(r) /\ req'[r].at = "reply" /\ req'[r].to = req[r].to
             /\ req'[r].account = req[r].account
  BY <1>3, <1>8 DEF FlushAudit, Replies
<1> QED
  BY <1>4, <1>5, <1>6, <1>7, <1>8

LEMMA FindStandingStep ==
    ASSUME Inv, NEW r \in Requests, FindStanding(r)
    PROVE  /\ Keeps(r) /\ req'[r].at = "upsert_standing"
           /\ req'[r].account = req[r].account /\ req[r].at = "find_standing"
           /\ req'[r].to = req[r].to /\ req'[r].generation = GenerationOf(SubjectStanding(r))
<1> DEFINE g == GenerationOf(SubjectStanding(r))
           q == [req[r] EXCEPT !.generation = g, !.at = "upsert_standing"]
<1>1. req \in [Requests -> RequestState] /\ req[r].at = "find_standing"
  BY DEF Inv, TypeOK, FindStanding, At
<1>2. g \in Nat \cup {None}
  <2>1. SubjectStanding(r) \in StandingRow \cup {None}
    BY <1>1, AccountRead, ReadType DEF Inv, SubjectStanding, HandlerOK, Deciding
  <2> QED
    BY <2>1 DEF GenerationOf, StandingRow
<1>3. q \in RequestState
  BY ZenonT(60), <1>1, <1>2 DEF RequestState, Places
<1>4. /\ q.op = req[r].op /\ q.id = req[r].id /\ q.case = req[r].case
      /\ q.removed = req[r].removed /\ q.reverses = req[r].reverses
      /\ q.action = req[r].action /\ q.at = "upsert_standing"
      /\ q.account = req[r].account /\ q.to = req[r].to /\ q.generation = g
  BY <1>1 DEF RequestState
<1>5. req' = [req EXCEPT ![r] = q]
  BY Zenon DEF FindStanding
<1> HIDE DEF q
<1> QED
  BY <1>1, <1>3, <1>4, <1>5 DEF Keeps, Typed, OthersStay, SameRequest

(* Only the handler that steps changes; it begins, ends, or keeps what was   *)
(* asked.                                                                    *)
LEMMA RequestStep ==
    ASSUME Inv, NEW r \in Requests, Acts(r)
    PROVE  /\ Typed /\ OthersStay(r)
           /\ \/ \E q : Begun(r, q)
              \/ (Commits(r) \/ RollsBack(r)) /\ req'[r] = Idle
              \/ Keeps(r)
<1>1. CASE Begin(r)
  <2>1. PICK q : Begun(r, q)
    BY <1>1, BeginStep
  <2> QED
    BY <2>1 DEF Begun, Typed, OthersStay, Inv, TypeOK
<1>2. CASE Commits(r) \/ RollsBack(r)
  <2>1. req' = [req EXCEPT ![r] = Idle]
    BY <1>2 DEF Commits, RollsBack
  <2> QED
    BY <1>2, <2>1, IdleType DEF Typed, OthersStay, Inv, TypeOK
<1>3. CASE Keeps(r)
  BY <1>3 DEF Keeps
<1>4. CASE Reads(r)
  BY <1>3, <1>4, FindCaseStep, LoadDecisionsStep, ReadStandingStep, FindStandingStep
     DEF Reads
<1>5. CASE \/ InsertCase(r) \/ InsertDecision(r) \/ UpdateCase(r)
           \/ UpsertStanding(r) \/ FlushAudit(r)
  BY <1>3, <1>5, WritingSteps
<1> QED
  BY <1>1, <1>2, <1>4, <1>5, Ways

(* Ids stay apart.                                                           *)
LEMMA IdsDifferStep ==
    ASSUME Inv, NEW r \in Requests, Acts(r)
    PROVE  IdsDiffer'
<1> SUFFICES ASSUME NEW p \in Requests, NEW q \in Requests, p # q
             PROVE  /\ req'[p].id # None => req'[p].id # req'[q].id
                    /\ req'[p].op = "open" /\ req'[q].op = "open" =>
                         req'[p].case # req'[q].case
  BY DEF IdsDiffer
<1>1. /\ req[p].id # None => req[p].id # req[q].id
      /\ req[p].op = "open" /\ req[q].op = "open" => req[p].case # req[q].case
  BY DEF Inv, IdsDiffer
<1>2. OthersStay(r)
  BY RequestStep
<1>3. ASSUME NEW b, Begun(r, b)
      PROVE  /\ req'[p].id # None => req'[p].id # req'[q].id
             /\ req'[p].op = "open" /\ req'[q].op = "open" =>
                  req'[p].case # req'[q].case
  <2>1. req'[r] = b
    BY <1>3 DEF Begun, Inv, TypeOK
  <2>2. \A s \in Requests : /\ b.id # None => req[s].id # b.id
                            /\ b.op = "open" /\ req[s].op = "open" => req[s].case # b.case
    BY <1>3 DEF Begun, FreshCases, FreshDecisions
  <2> QED
    BY <1>1, <1>2, <2>1, <2>2 DEF OthersStay
<1>4. CASE req'[r] = Idle
  BY <1>1, <1>2, <1>4, IdleType DEF OthersStay
<1>5. CASE Keeps(r)
  BY <1>1, <1>2, <1>5 DEF OthersStay, Keeps, SameRequest
<1> QED
  BY <1>3, <1>4, <1>5, RequestStep

-----------------------------------------------------------------------------
(* What becomes of decisions and audit rows *)

(* How a step of r leaves a decision.                                        *)
DecisionMoves(r, d) ==
    \/ decisions'[d] = decisions[d]
    \/ /\ decisions[d].by = r
       /\ \/ Commits(r) /\ decisions'[d] = Settled(decisions[d].next)
          \/ RollsBack(r) /\ decisions'[d] = Settled(None)
    \/ /\ At(r, "insert_decision") /\ InsertDecision(r) /\ req[r].id = d
       /\ decisions[d] = Settled(None)
       /\ decisions'[d].row = None /\ decisions'[d].by = r
       /\ decisions'[d].next # None /\ decisions'[d].next.case = req[r].case
       /\ req[r].op = "reverse" \/ EventAsked(r) # None =>
            decisions'[d].next.removed = req[r].removed

(* A committed decision does not change; an uncommitted one is committed     *)
(* with its writer; a new one is written by the request that drew its id.    *)
LEMMA DecisionRowStep ==
    ASSUME Inv, NEW r \in Requests, Acts(r), NEW d \in DecisionIds
    PROVE  /\ decisions' \in [DecisionIds -> Versions(DecisionRow \cup {None}, Requests)]
           /\ decisions[d].row # None => decisions'[d] = decisions[d]
           /\ DecisionMoves(r, d)
<1> USE DEF DecisionMoves
<1>1. /\ decisions \in [DecisionIds -> Versions(DecisionRow \cup {None}, Requests)]
      /\ decisions[d].by # None => decisions[d].row = None
      /\ r # None
  BY EnforcementNoneAssumption DEF Inv, TypeOK, WrittenOnce
<1>2. CASE UNCHANGED decisions
  BY <1>1, <1>2
<1>3. CASE Commits(r) \/ RollsBack(r)
  <2>1. decisions' \in [DecisionIds -> Versions(DecisionRow \cup {None}, Requests)]
    <3>1. /\ Commit(decisions, r) \in
               [DecisionIds -> Versions(DecisionRow \cup {None}, Requests)]
          /\ Rollback(decisions, r) \in
               [DecisionIds -> Versions(DecisionRow \cup {None}, Requests)]
      BY <1>1, EndType
    <3> QED
      BY <1>3, <3>1 DEF Commits, RollsBack
  <2>2. \/ decisions'[d] = decisions[d]
        \/ /\ decisions[d].by = r
           /\ \/ Commits(r) /\ decisions'[d] = Settled(decisions[d].next)
              \/ RollsBack(r) /\ decisions'[d] = Settled(decisions[d].row)
    BY <1>1, <1>3 DEF Commit, Rollback, Commits, RollsBack
  <2> QED
    BY <1>1, <2>1, <2>2
<1>4. CASE WritesDecision(r)
  <2>1. PICK row \in DecisionRow :
          /\ At(r, "insert_decision") /\ req[r].id \in DecisionIds
          /\ decisions[req[r].id] = Settled(None)
          /\ row.case = req[r].case
          /\ req[r].op = "reverse" \/ EventAsked(r) # None => row.removed = req[r].removed
          /\ decisions' = Put(decisions, req[r].id, r, row)
    BY <1>4 DEF WritesDecision
  <2>2. decisions' \in [DecisionIds -> Versions(DecisionRow \cup {None}, Requests)]
    <3>1. row \in DecisionRow \cup {None}
      OBVIOUS
    <3> QED
      BY <1>1, <2>1, <3>1, PutType, Zenon
  <2>3. row # None
    BY EnforcementRowAssumption
  <2>4. InsertDecision(r)
    <3>1. ~Reads(r) /\ ~Commits(r) /\ ~InsertCase(r) /\ ~UpdateCase(r)
          /\ ~UpsertStanding(r) /\ ~FlushAudit(r)
      BY <2>1 DEF At, Reads, Commits, InsertCase, UpdateCase, UpsertStanding, FlushAudit,
                  FindCase, LoadDecisions, ReadStanding, FindStanding
    <3>2. decisions' # decisions
      <4>1. decisions'[req[r].id].by = r /\ decisions[req[r].id].by = None
        BY <1>1, <2>1 DEF Put, Settled
      <4> QED
        BY <1>1, <4>1
    <3>3. ~Begin(r)
      BY <3>2, BeginReads DEF tables
    <3>4. ~RollsBack(r)
      <4>1. decisions'[req[r].id].by = r
        BY <1>1, <2>1 DEF Put
      <4> QED
        BY <1>1, <2>1, <4>1 DEF RollsBack, Rollback, Settled
    <3> QED
      BY <3>1, <3>3, <3>4, Ways
  <2>5. CASE d # req[r].id
    <3>1. decisions'[d] = decisions[d]
      BY <1>1, <2>1, <2>5 DEF Put
    <3> QED
      BY <2>2, <3>1
  <2>6. CASE d = req[r].id
    <3>1. decisions'[d] = [row |-> decisions[d].row, next |-> row, by |-> r]
      BY <1>1, <2>1, <2>6 DEF Put
    <3>2. decisions[d] = Settled(None) /\ decisions[d].row = None
      BY <2>1, <2>6 DEF Settled
    <3> QED
      BY <2>1, <2>2, <2>3, <2>4, <2>6, <3>1, <3>2
  <2> QED
    BY <2>5, <2>6
<1> QED
  BY <1>2, <1>3, <1>4, DecisionWrites

(* How a step of r leaves an audit row.                                      *)
AuditMoves(r, d) ==
    \/ audit'[d] = audit[d]
    \/ /\ audit[d].by = r
       /\ \/ Commits(r) /\ audit'[d] = Settled(audit[d].next)
          \/ RollsBack(r) /\ audit'[d] = Settled(audit[d].row)
    \/ /\ At(r, "flush_audit") /\ req[r].id = d /\ decisions[d].by = r
       /\ audit'[d] = [row |-> audit[d].row, next |-> req[r].to, by |-> r]

(* An audit row is written with its decision and committed with it.          *)
LEMMA AuditRowStep ==
    ASSUME Inv, NEW r \in Requests, Acts(r), NEW d \in DecisionIds
    PROVE  /\ audit' \in [DecisionIds -> Versions(AccountStates \cup {None}, Requests)]
           /\ AuditMoves(r, d)
<1> USE DEF AuditMoves
<1>1. audit \in [DecisionIds -> Versions(AccountStates \cup {None}, Requests)]
  BY DEF Inv, TypeOK
<1>2. CASE Commits(r) \/ RollsBack(r)
  <2>1. /\ Commit(audit, r) \in [DecisionIds -> Versions(AccountStates \cup {None}, Requests)]
        /\ Rollback(audit, r) \in
             [DecisionIds -> Versions(AccountStates \cup {None}, Requests)]
    BY <1>1, EndType
  <2>2. \/ audit'[d] = audit[d]
        \/ /\ audit[d].by = r
           /\ \/ Commits(r) /\ audit'[d] = Settled(audit[d].next)
              \/ RollsBack(r) /\ audit'[d] = Settled(audit[d].row)
    BY <1>1, <1>2 DEF Commit, Rollback, Commits, RollsBack
  <2> QED
    BY <1>2, <2>1, <2>2 DEF Commits, RollsBack
<1>3. CASE WritesAudit(r)
  <2>1. audit' \in [DecisionIds -> Versions(AccountStates \cup {None}, Requests)]
    <3>1. req[r].to \in AccountStates \cup {None} /\ req[r].id \in DecisionIds
      BY <1>3, ReadType DEF Inv, RequestState, WritesAudit
    <3> QED
      BY <1>1, <1>3, <3>1, PutType, Zenon DEF WritesAudit
  <2>2. CASE d # req[r].id
    BY <1>1, <1>3, <2>1, <2>2 DEF WritesAudit, Put
  <2>3. CASE d = req[r].id
    BY <1>1, <1>3, <2>1, <2>3 DEF WritesAudit, Put
  <2> QED
    BY <2>2, <2>3
<1> QED
  BY <1>1, <1>2, <1>3, AuditWrites

(* The ends of a transaction settle everything it wrote.                     *)
LEMMA EndsSettle ==
    ASSUME TypeOK, NEW r \in Requests, Commits(r) \/ RollsBack(r)
    PROVE  /\ \A c \in CaseIds : cases'[c].by # r
           /\ \A d \in DecisionIds : decisions'[d].by # r /\ audit'[d].by # r
           /\ \A a \in Accounts : standing'[a].by # r
  BY EnforcementNoneAssumption
     DEF Commits, RollsBack, TypeOK, Commit, Rollback, Settled

(* How a step of r leaves a standing.                                        *)
StandingMoves(r, a) ==
    \/ standing'[a] = standing[a]
    \/ /\ standing[a].by = r
       /\ \/ Commits(r) /\ standing'[a] = Settled(standing[a].next)
          \/ RollsBack(r) /\ standing'[a] = Settled(standing[a].row)
    \/ \E row \in StandingRow :
         /\ At(r, "upsert_standing") /\ req[r].account = a /\ row.state = req[r].to
         /\ row.capabilities = CapabilitiesFor(req[r].to, req[r].removed)
         /\ row.decision = req[r].id
         /\ standing'[a] = [row |-> standing[a].row, next |-> row, by |-> r]

(* A standing is written by the compare-and-set, and ends with its writer.   *)
LEMMA StandingRowStep ==
    ASSUME Inv, NEW r \in Requests, Acts(r), NEW a \in Accounts
    PROVE  /\ standing' \in [Accounts -> Versions(StandingRow \cup {None}, Requests)]
           /\ StandingMoves(r, a)
<1> USE DEF StandingMoves
<1>1. standing \in [Accounts -> Versions(StandingRow \cup {None}, Requests)]
  BY DEF Inv, TypeOK
<1>2. CASE Commits(r) \/ RollsBack(r)
  <2>1. /\ Commit(standing, r) \in [Accounts -> Versions(StandingRow \cup {None}, Requests)]
        /\ Rollback(standing, r) \in [Accounts -> Versions(StandingRow \cup {None}, Requests)]
    BY <1>1, EndType
  <2>2. \/ standing'[a] = standing[a]
        \/ /\ standing[a].by = r
           /\ \/ Commits(r) /\ standing'[a] = Settled(standing[a].next)
              \/ RollsBack(r) /\ standing'[a] = Settled(standing[a].row)
    BY <1>1, <1>2 DEF Commit, Rollback, Commits, RollsBack
  <2> QED
    BY <1>2, <2>1, <2>2 DEF Commits, RollsBack
<1>3. CASE WritesStanding(r)
  <2>1. PICK generation \in Nat :
          /\ At(r, "upsert_standing") /\ req[r].account \in Accounts
          /\ NewStanding(r, generation) \in StandingRow
          /\ standing' = Put(standing, req[r].account, r, NewStanding(r, generation))
    BY <1>3 DEF WritesStanding
  <2> DEFINE row == NewStanding(r, generation)
  <2>2. standing' \in [Accounts -> Versions(StandingRow \cup {None}, Requests)]
    <3>1. row \in StandingRow \cup {None}
      BY <2>1
    <3> HIDE DEF row
    <3> QED
      BY <1>1, <2>1, <3>1, PutType, Zenon DEF row
  <2>3. row \in StandingRow /\ standing' = Put(standing, req[r].account, r, row)
    BY <2>1
  <2>4. CASE a # req[r].account
    <3> HIDE DEF row
    <3>1. standing'[a] = standing[a]
      BY <1>1, <2>3, <2>4 DEF Put
    <3> QED
      BY <2>2, <3>1
  <2>5. CASE a = req[r].account
    <3>1. standing'[a] = [row |-> standing[a].row, next |-> row, by |-> r]
      <4> HIDE DEF row
      <4> QED
        BY <1>1, <2>3, <2>5 DEF Put
    <3>2. /\ row.state = req[r].to /\ row.decision = req[r].id
          /\ row.capabilities = CapabilitiesFor(req[r].to, req[r].removed)
      BY DEF NewStanding
    <3> HIDE DEF row
    <3> QED
      BY <2>1, <2>2, <2>3, <2>5, <3>1, <3>2
  <2> QED
    BY <2>4, <2>5
<1> QED
  BY <1>1, <1>2, <1>3, StandingWrites

(* A request that holds a row went on from where it was.                     *)
LEMMA HolderKeeps ==
    ASSUME Inv, NEW r \in Requests, Acts(r), ~HoldsNothing(r)'
    PROVE  Keeps(r)
<1>1. ASSUME NEW q, Begun(r, q)
      PROVE  FALSE
  <2>1. Begin(r) \/ Keeps(r) \/ Commits(r) \/ RollsBack(r)
    BY RequestStep, Ways, FindCaseStep, LoadDecisionsStep, ReadStandingStep,
       FindStandingStep, WritingSteps DEF Reads
  <2>2. req[r].at = "idle" /\ HoldsNothing(r)
    BY <1>1 DEF Begun, Inv, Reading
  <2>3. Acts(r) => Begin(r) \/ RollsBack(r)
    BY <2>2, Ways DEF Reads, Commits, InsertCase, UpdateCase, InsertDecision, At,
       UpsertStanding, FlushAudit, FindCase, LoadDecisions, ReadStanding, FindStanding
  <2>4. CASE Begin(r)
    BY <2>2, <2>4, BeginReads DEF tables, HoldsNothing
  <2>5. CASE RollsBack(r)
    BY <2>5, EndsSettle DEF Inv, HoldsNothing
  <2> QED
    BY <2>3, <2>4, <2>5
<1>2. CASE Commits(r) \/ RollsBack(r)
  BY <1>2, EndsSettle DEF Inv, HoldsNothing
<1> QED
  BY <1>1, <1>2, RequestStep

LEMMA WrittenOnceStep ==
    ASSUME Inv, NEW r \in Requests, Acts(r)
    PROVE  WrittenOnce'
<1> SUFFICES ASSUME NEW d \in DecisionIds
             PROVE  /\ decisions'[d].by # None =>
                         /\ decisions'[d].row = None /\ decisions'[d].next # None
                         /\ req'[decisions'[d].by].id = d
                    /\ audit'[d].by # None => decisions'[d].by = audit'[d].by
                    /\ audit'[d].row # None => decisions'[d].row # None
  BY DEF WrittenOnce
<1>0. /\ decisions[d].by # None =>
           decisions[d].row = None /\ decisions[d].next # None
             /\ req[decisions[d].by].id = d
      /\ audit[d].by # None => decisions[d].by = audit[d].by
      /\ audit[d].row # None => decisions[d].row # None
      /\ decisions[d].by \in Requests \cup {None} /\ r # None
  BY EnforcementNoneAssumption DEF Inv, WrittenOnce, TypeOK, Versions
<1>m. DecisionMoves(r, d) /\ AuditMoves(r, d)
  BY DecisionRowStep, AuditRowStep
<1>1. decisions'[d].by # None =>
        /\ decisions'[d].row = None /\ decisions'[d].next # None
        /\ req'[decisions'[d].by].id = d
  <2> SUFFICES ASSUME decisions'[d].by # None
               PROVE  /\ decisions'[d].row = None /\ decisions'[d].next # None
                      /\ req'[decisions'[d].by].id = d
    OBVIOUS
  <2>1. \/ decisions'[d] = decisions[d]
        \/ /\ req[r].id = d /\ decisions'[d].by = r
           /\ decisions'[d].row = None /\ decisions'[d].next # None
    BY <1>m DEF DecisionMoves, Settled
  <2>2. ASSUME NEW p \in Requests, p = decisions'[d].by
        PROVE  req'[p].id = req[p].id
    <3>1. CASE p = r
      <4>1. ~HoldsNothing(r)'
        BY <2>2, <3>1 DEF HoldsNothing
      <4> QED
        BY <3>1, <4>1, HolderKeeps DEF Keeps, SameRequest
    <3>2. CASE p # r
      BY <2>2, <3>2, RequestStep DEF OthersStay
    <3> QED
      BY <3>1, <3>2
  <2> QED
    BY <1>0, <2>1, <2>2
<1>2. audit'[d].by # None => decisions'[d].by = audit'[d].by
  <2>1. CASE Commits(r) \/ RollsBack(r)
    <3>1. audit'[d].by # r /\ (audit'[d] = audit[d] \/ audit'[d].by = None)
      <4>1. audit'[d].by # r
        BY <2>1, EndsSettle DEF Inv
      <4> QED
        BY <4>1, <1>m DEF AuditMoves, Settled
    <3>2. decisions'[d].by # r /\ (decisions'[d] = decisions[d] \/ decisions[d].by = r)
      <4>1. decisions'[d].by # r
        BY <2>1, EndsSettle DEF Inv
      <4> QED
        BY <4>1, <1>m DEF DecisionMoves
    <3> QED
      BY <1>0, <3>1, <3>2
  <2>2. CASE ~(Commits(r) \/ RollsBack(r))
    <3>1. \/ audit'[d] = audit[d]
          \/ audit'[d].by = r /\ decisions[d].by = r
      BY <2>2, <1>m DEF AuditMoves
    <3>2. \/ decisions'[d] = decisions[d]
          \/ decisions[d].by = None
      BY <2>2, <1>m DEF DecisionMoves, Settled
    <3> QED
      BY <1>0, <3>1, <3>2
  <2> QED
    BY <2>1, <2>2
<1>3. audit'[d].row # None => decisions'[d].row # None
  <2>1. CASE audit[d].row # None
    BY <1>0, <2>1, DecisionRowStep
  <2>2. CASE audit[d].row = None /\ audit'[d].row # None
    <3>1. Commits(r) /\ audit[d].by = r
      BY <2>2, <1>m DEF AuditMoves, Settled
    <3>2. decisions' = Commit(decisions, r) /\ decisions[d].by = r
      BY <1>0, <3>1 DEF Commits
    <3>3. decisions'[d] = Settled(decisions[d].next)
      BY <3>2 DEF Commit, Inv, TypeOK
    <3> QED
      BY <1>0, <3>2, <3>3 DEF Settled
  <2> QED
    BY <2>1, <2>2
<1> QED
  BY <1>1, <1>2, <1>3

-----------------------------------------------------------------------------
(* What handlers know, kept *)

(* A case on record stays on record, about its subject.                      *)
LEMMA CaseStays ==
    ASSUME Inv, NEW r \in Requests, Acts(r), NEW c \in CaseIds, cases[c].row # None
    PROVE  cases'[c].row # None /\ cases'[c].row.subject = cases[c].row.subject
<1>1. CaseKept(cases[c].row, cases'[c].row)
  BY CaseRowStep
<1> QED
  BY <1>1 DEF CaseKept

LEMMA OthersKnow ==
    ASSUME Inv, NEW r \in Requests, Acts(r), NEW p \in Requests, p # r
    PROVE  HandlerOK(p)' /\ DecisionOK(p)'
<1>1. req'[p] = req[p]
  BY RequestStep DEF OthersStay
<1>2. HandlerOK(p) /\ DecisionOK(p) /\ r # None /\ p # None
  BY EnforcementNoneAssumption DEF Inv
<1>3. req[p].id # None => req[p].id # req[r].id
  BY DEF Inv, IdsDiffer
<1>4. CaseIsRead(req[p]) => CaseIsRead(req[p])'
  BY <1>1, CaseStays DEF CaseIsRead
<1>5. ASSUME req[p].at = "insert_case"
      PROVE  cases'[req[p].case] = Settled(None)
  <2>1. /\ req[p].op = "open" /\ req[p].case \in CaseIds
        /\ cases[req[p].case] = Settled(None)
    BY <1>2, <1>5 DEF HandlerOK
  <2>2. CaseMoves(r, req[p].case)
    BY <2>1, CaseRowStep
  <2>3. req[r].op = "open" => req[p].case # req[r].case
    BY <2>1 DEF Inv, IdsDiffer
  <2> QED
    BY <1>2, <2>1, <2>2, <2>3 DEF CaseMoves, Settled
<1>6. HandlerOK(p)'
  BY <1>1, <1>2, <1>4, <1>5 DEF HandlerOK, CaseIsRead, Settled
<1>7. ASSUME req[p].op \in {"decide", "reverse"}
      PROVE  /\ decisions[req[p].id] = Settled(None) \/ decisions[req[p].id].by = p =>
                  decisions'[req[p].id] = decisions[req[p].id]
  <2>1. req[p].id \in DecisionIds
    BY <1>2, <1>7 DEF HandlerOK
  <2>2. DecisionMoves(r, req[p].id)
    BY <2>1, DecisionRowStep
  <2>3. req[p].id # req[r].id
    BY <1>3, <2>1, EnforcementNoneAssumption
  <2> QED
    BY <1>2, <2>2, <2>3 DEF DecisionMoves, Settled
<1>8. ASSUME req[p].op = "reverse", decisions[req[p].reverses].row # None
      PROVE  decisions'[req[p].reverses].row # None
  <2>1. req[p].reverses \in DecisionIds
    BY <1>2, <1>8 DEF HandlerOK
  <2> QED
    BY <1>8, <2>1, DecisionRowStep
<1>9. req[p].at \in Deciding => req[p].op \in {"decide", "reverse"}
  BY <1>2 DEF HandlerOK
<1>10. DecisionOK(p)'
  BY <1>1, <1>2, <1>7, <1>8, <1>9 DEF DecisionOK, Settled, Deciding, Reading
<1> QED
  BY <1>6, <1>10

(* Where no decision is being taken, a handler has little to know.           *)
LEMMA SettledHandler ==
    ASSUME Inv, NEW r \in Requests, Keeps(r), req'[r].at \in {"reply", "failed"}
    PROVE  HandlerOK(r)' /\ DecisionOK(r)'
<1>1. HandlerOK(r)
  BY DEF Inv
<1> QED
  BY <1>1 DEF HandlerOK, DecisionOK, Keeps, SameRequest, Deciding, Reading

LEMMA BeginKnows ==
    ASSUME Inv, NEW r \in Requests, Begin(r)
    PROVE  HandlerOK(r)' /\ DecisionOK(r)'
<1>1. PICK q : Begun(r, q)
  BY BeginStep
<1>2. req'[r] = q
  BY <1>1 DEF Begun, Inv, TypeOK
<1>3. UNCHANGED <<cases, decisions>>
  BY BeginReads DEF tables
<1>4. HandlerOK(r)'
  BY <1>1, <1>2, <1>3 DEF HandlerOK, Begun, Deciding, FreshCases, FreshDecisions
<1>5. DecisionOK(r)'
  BY <1>1, <1>2, <1>3 DEF DecisionOK, Begun, Deciding, Reading, FreshDecisions
<1> QED
  BY <1>4, <1>5

LEMMA ReadsKnow ==
    ASSUME Inv, NEW r \in Requests, Reads(r)
    PROVE  HandlerOK(r)' /\ DecisionOK(r)'
<1>1. HandlerOK(r) /\ DecisionOK(r) /\ UNCHANGED <<cases, decisions>>
  BY DEF Inv, Reads, tables
<1>2. CASE req'[r].at \in {"reply", "failed"}
  BY <1>2, SettledHandler, FindCaseStep, LoadDecisionsStep, ReadStandingStep,
     FindStandingStep DEF Reads
<1>3. CASE FindCase(r) /\ req'[r].at \notin {"reply", "failed"}
  <2>1. /\ Keeps(r) /\ req[r].at = "find_case" /\ req[r].case \in CaseIds
        /\ req[r].op # "open" /\ cases[req[r].case].row # None
        /\ req'[r].account = cases[req[r].case].row.subject
        /\ \/ req[r].op = "decide" /\ req'[r].at = "read_standing"
           \/ req[r].op # "decide" /\ req'[r].at = "load_decisions"
    BY <1>1, <1>3, FindCaseStep DEF FindCase, At, HandlerOK
  <2>2. req[r].op \in {"decide", "reverse", "view"}
    BY <2>1, ReadType DEF Inv, RequestState, Ops
  <2>3. HandlerOK(r)'
    BY <1>1, <2>1, <2>2 DEF HandlerOK, CaseIsRead, Keeps, SameRequest, Deciding
  <2>4. DecisionOK(r)'
    BY <1>1, <2>1, <2>2 DEF DecisionOK, Keeps, SameRequest, Deciding, Reading
  <2> QED
    BY <2>3, <2>4
<1>4. CASE LoadDecisions(r) /\ req'[r].at \notin {"reply", "failed"}
  <2>1. /\ Keeps(r) /\ req[r].at = "load_decisions" /\ req'[r].account = req[r].account
        /\ req'[r].at = "read_standing" /\ req[r].op = "reverse"
        /\ decisions[req[r].reverses].row # None
    BY <1>4, LoadDecisionsStep DEF LoadDecisions, At
  <2>2. HandlerOK(r)'
    BY <1>1, <2>1 DEF HandlerOK, CaseIsRead, Keeps, SameRequest, Deciding
  <2>3. DecisionOK(r)'
    BY <1>1, <2>1 DEF DecisionOK, Keeps, SameRequest, Deciding, Reading
  <2> QED
    BY <2>2, <2>3
<1>5. CASE ReadStanding(r) /\ req'[r].at \notin {"reply", "failed"}
  <2>1. /\ Keeps(r) /\ req[r].at = "read_standing" /\ req'[r].account = req[r].account
        /\ req'[r].at = "insert_decision"
    BY <1>5, ReadStandingStep DEF ReadStanding, At
  <2>2. HandlerOK(r)'
    BY <1>1, <2>1 DEF HandlerOK, CaseIsRead, Keeps, SameRequest, Deciding
  <2>3. DecisionOK(r)'
    BY <1>1, <2>1 DEF DecisionOK, Keeps, SameRequest, Deciding, Reading
  <2> QED
    BY <2>2, <2>3
<1>6. CASE FindStanding(r)
  <2>1. /\ Keeps(r) /\ req[r].at = "find_standing" /\ req'[r].account = req[r].account
        /\ req'[r].at = "upsert_standing"
    BY <1>6, FindStandingStep
  <2>2. HandlerOK(r)'
    BY <1>1, <2>1 DEF HandlerOK, CaseIsRead, Keeps, SameRequest, Deciding
  <2>3. DecisionOK(r)'
    BY <1>1, <2>1 DEF DecisionOK, Keeps, SameRequest, Deciding, Reading
  <2> QED
    BY <2>2, <2>3
<1> QED
  BY <1>2, <1>3, <1>4, <1>5, <1>6 DEF Reads

LEMMA WritesKnow ==
    ASSUME Inv, NEW r \in Requests,
           \/ InsertCase(r) \/ InsertDecision(r) \/ UpdateCase(r)
           \/ UpsertStanding(r) \/ FlushAudit(r)
    PROVE  HandlerOK(r)' /\ DecisionOK(r)'
<1>1. HandlerOK(r) /\ DecisionOK(r) /\ r # None /\ Acts(r)
  BY EnforcementNoneAssumption DEF Inv, Acts, Step
<1>2. CASE InsertCase(r) \/ FlushAudit(r)
  BY <1>2, SettledHandler, WritingSteps
<1>3. CASE InsertDecision(r)
  <2>1. /\ Keeps(r) /\ req'[r].account = req[r].account /\ UNCHANGED cases
        /\ req'[r].at = IF req[r].op = "decide" THEN "update_case" ELSE "find_standing"
    BY <1>3, WritingSteps DEF InsertDecision
  <2>2. /\ req[r].at = "insert_decision" /\ req[r].op \in {"decide", "reverse"}
        /\ req[r].id \in DecisionIds /\ CaseIsRead(req[r])
    BY <1>1, <1>3 DEF InsertDecision, At, HandlerOK, Deciding
  <2>3. decisions[req[r].id] = Settled(None) /\ decisions'[req[r].id].by = r
    BY <1>1, <1>3, <2>2 DEF DecisionOK, Reading, InsertDecision, Put, Inv, TypeOK
  <2>4. DecisionMoves(r, req[r].id)
    BY <1>1, <2>2, DecisionRowStep
  <2>5. /\ decisions'[req[r].id].next # None
        /\ decisions'[req[r].id].next.case = req[r].case
        /\ req[r].op = "reverse" \/ EventAsked(r) # None =>
             decisions'[req[r].id].next.removed = req[r].removed
    BY <1>1, <2>3, <2>4 DEF DecisionMoves, Settled
  <2>6. req[r].op = "decide" => EventAsked(r) = EventOf(req[r].action)
    BY <2>2, EventAskedType DEF Deciding
  <2>7. HandlerOK(r)'
    BY <1>1, <2>1, <2>2 DEF HandlerOK, CaseIsRead, Keeps, SameRequest, Deciding
  <2>8. DecisionOK(r)'
    BY <1>1, <2>1, <2>2, <2>3, <2>5, <2>6
       DEF DecisionOK, Keeps, SameRequest, Deciding, Reading
  <2> QED
    BY <2>7, <2>8
<1>4. CASE UpdateCase(r)
  <2>1. /\ Keeps(r) /\ req'[r].account = req[r].account /\ UNCHANGED decisions
        /\ req'[r].at = IF EventOf(req[r].action) = None THEN "flush_audit"
                                                         ELSE "find_standing"
    BY <1>4, WritingSteps DEF UpdateCase
  <2>2. /\ req[r].at = "update_case" /\ req[r].op = "decide"
        /\ req[r].id \in DecisionIds /\ CaseIsRead(req[r])
    BY <1>1, <1>4 DEF UpdateCase, At, HandlerOK, Deciding
  <2>3. /\ cases'[req[r].case].row # None
        /\ cases'[req[r].case].row.subject = req[r].account
    BY <1>1, <2>2, CaseStays DEF CaseIsRead
  <2>4. HandlerOK(r)'
    BY <1>1, <2>1, <2>2, <2>3 DEF HandlerOK, CaseIsRead, Keeps, SameRequest, Deciding
  <2>5. DecisionOK(r)'
    BY <1>1, <2>1, <2>2 DEF DecisionOK, Keeps, SameRequest, Deciding, Reading
  <2> QED
    BY <2>4, <2>5
<1>5. CASE UpsertStanding(r)
  <2>1. /\ Keeps(r) /\ UNCHANGED <<cases, decisions>> /\ req[r].at = "upsert_standing"
        /\ \/ req'[r].at = "reply"
           \/ req'[r].at = "flush_audit" /\ req'[r].account = req[r].account
    BY <1>5, WritingSteps DEF UpsertStanding, At
  <2>2. HandlerOK(r)'
    BY <1>1, <2>1 DEF HandlerOK, CaseIsRead, Keeps, SameRequest, Deciding
  <2>3. DecisionOK(r)'
    BY <1>1, <2>1 DEF DecisionOK, Keeps, SameRequest, Deciding, Reading
  <2> QED
    BY <2>2, <2>3
<1> QED
  BY <1>2, <1>3, <1>4, <1>5

(* Every handler knows what it must after every step.                        *)
LEMMA HandlersKnow ==
    ASSUME Inv, NEW r \in Requests, Acts(r)
    PROVE  (\A p \in Requests : HandlerOK(p) /\ DecisionOK(p))'
<1>1. CASE Commits(r) \/ RollsBack(r)
  <2>1. req'[r] = Idle
    BY <1>1 DEF Commits, RollsBack, Inv, TypeOK
  <2>2. HandlerOK(r)' /\ DecisionOK(r)'
    BY <2>1, IdleType DEF HandlerOK, DecisionOK, Deciding
  <2> QED
    BY <2>2, OthersKnow
<1>2. CASE \/ InsertCase(r) \/ InsertDecision(r) \/ UpdateCase(r)
           \/ UpsertStanding(r) \/ FlushAudit(r)
  BY <1>2, WritesKnow, OthersKnow
<1>3. CASE Begin(r)
  BY <1>3, BeginKnows, OthersKnow
<1>4. CASE Reads(r)
  BY <1>4, ReadsKnow, OthersKnow
<1> QED
  BY <1>1, <1>2, <1>3, <1>4, Ways

(* A handler that has only read holds nothing.                               *)
LEMMA HoldsNothingStep ==
    ASSUME Inv, NEW r \in Requests, Acts(r), NEW p \in Requests, req'[p].at \in Reading
    PROVE  HoldsNothing(p)'
<1>1. CASE p # r
  <2>1. HoldsNothing(p) /\ p # None
    BY <1>1, RequestStep, EnforcementNoneAssumption DEF OthersStay, Inv
  <2>2. ASSUME NEW c \in CaseIds
        PROVE  cases'[c].by # p
    <3>1. CaseMoves(r, c)
      BY CaseRowStep
    <3> QED
      BY <1>1, <2>1, <3>1 DEF CaseMoves, HoldsNothing
  <2>3. ASSUME NEW d \in DecisionIds
        PROVE  decisions'[d].by # p /\ audit'[d].by # p
    <3>1. DecisionMoves(r, d) /\ AuditMoves(r, d)
      BY DecisionRowStep, AuditRowStep
    <3> QED
      BY <1>1, <2>1, <3>1 DEF DecisionMoves, AuditMoves, HoldsNothing, Settled
  <2>4. ASSUME NEW a \in Accounts
        PROVE  standing'[a].by # p
    <3>1. StandingMoves(r, a)
      BY StandingRowStep
    <3>2. CASE \E row : standing'[a] = [row |-> standing[a].row, next |-> row, by |-> r]
      BY <1>1, <3>2
    <3>3. CASE standing'[a] = standing[a]
      BY <2>1, <3>3 DEF HoldsNothing
    <3>4. ASSUME NEW row, standing'[a] = Settled(row)
          PROVE  standing'[a].by # p
      BY <2>1, <3>4 DEF Settled
    <3> QED
      BY <3>1, <3>2, <3>3, <3>4 DEF StandingMoves
  <2> QED
    BY <2>2, <2>3, <2>4 DEF HoldsNothing
<1>2. CASE p = r
  <2>1. CASE Commits(r) \/ RollsBack(r)
    BY <1>2, <2>1, EndsSettle DEF Inv, HoldsNothing
  <2>2. CASE Begin(r)
    <3>1. PICK q : Begun(r, q)
      BY <2>2, BeginStep
    <3>2. HoldsNothing(r) /\ UNCHANGED tables
      BY <2>2, <3>1, BeginReads DEF Begun, Inv, Reading
    <3> QED
      BY <1>2, <3>2 DEF HoldsNothing, tables
  <2>3. CASE Reads(r)
    <3>1. req[r].at \in Reading
      BY <1>2, <2>3, FindStandingStep
         DEF Reads, FindCase, LoadDecisions, ReadStanding, At, Reading
    <3>2. HoldsNothing(r) /\ UNCHANGED tables
      BY <2>3, <3>1 DEF Inv, Reads
    <3> QED
      BY <1>2, <3>2 DEF HoldsNothing, tables
  <2>4. CASE \/ InsertCase(r) \/ InsertDecision(r) \/ UpdateCase(r)
             \/ UpsertStanding(r) \/ FlushAudit(r)
    BY <1>2, <2>4, WritingSteps DEF Reading
  <2> QED
    BY <2>1, <2>2, <2>3, <2>4, Ways
<1> QED
  BY <1>1, <1>2

-----------------------------------------------------------------------------
(* Standings stay explained *)

(* A committed standing stays explained: the decision, the case and the      *)
(* audit row it rests on are committed, and no statement changes them.       *)
LEMMA ExplanationStays ==
    ASSUME Inv, NEW r \in Requests, Acts(r), NEW a \in Accounts,
           standing'[a].row = standing[a].row, Explained(a)
    PROVE  Explained(a)'
<1> DEFINE d == standing[a].row.decision
           c == decisions[d].row.case
<1>1. /\ d \in DecisionIds /\ decisions[d].row # None
      /\ cases[c].row # None /\ cases[c].row.subject = a
      /\ audit[d].row = standing[a].row.state
      /\ standing[a].row.capabilities =
             CapabilitiesFor(standing[a].row.state, decisions[d].row.removed)
  BY DEF Explained
<1>2. decisions'[d] = decisions[d]
  BY <1>1, DecisionRowStep
<1>3. c \in CaseIds
  BY <1>1 DEF Inv, TypeOK, Versions, DecisionRow
<1>4. cases'[c].row # None /\ cases'[c].row.subject = a
  BY <1>1, <1>3, CaseStays
<1>5. audit'[d].row = audit[d].row
  <2>1. decisions[d].by # r /\ audit[d].by # r
    <3> HIDE DEF d, c
    <3>1. decisions[d].by = None /\ (audit[d].by # None => decisions[d].by = audit[d].by)
      BY <1>1 DEF Inv, WrittenOnce
    <3> QED
      BY <3>1, EnforcementNoneAssumption
  <2>2. AuditMoves(r, d)
    BY <1>1, AuditRowStep
  <2> QED
    BY <2>1, <2>2 DEF AuditMoves
<1> QED
  BY <1>1, <1>2, <1>4, <1>5 DEF Explained

(* A standing is explained when it is committed: everything it rests on is   *)
(* committed with it.                                                        *)
LEMMA ExplanationIsCommitted ==
    ASSUME Inv, NEW r \in Requests, Commits(r), NEW a \in Accounts,
           standing[a].by = r
    PROVE  Explained(a)'
<1> DEFINE q == req[r]
           row == standing[a].next
<1>1. WillBeExplained(a, r) /\ q.at = "reply" /\ Acts(r)
  BY DEF Inv, StandingsExplained, Commits, At, Acts, Step, CommitRequest
<1>2. /\ q.account = a /\ q.case \in CaseIds /\ cases[q.case].row # None
      /\ cases[q.case].row.subject = a
      /\ q.id \in DecisionIds /\ decisions[q.id].by = r
      /\ decisions[q.id].next.case = q.case /\ decisions[q.id].next.removed = q.removed
      /\ decisions[q.id].next # None
      /\ row.state = q.to /\ row.decision = q.id
      /\ row.capabilities = CapabilitiesFor(q.to, q.removed)
      /\ audit[q.id].by = r /\ audit[q.id].next = q.to
  BY <1>1 DEF WillBeExplained, CaseIsRead
<1>3. /\ standing'[a] = Settled(standing[a].next)
      /\ decisions'[q.id] = Settled(decisions[q.id].next)
      /\ audit'[q.id] = Settled(audit[q.id].next)
  BY <1>2 DEF Commits, Commit, Inv, TypeOK
<1>4. /\ standing'[a].row = row /\ decisions'[q.id].row = decisions[q.id].next
      /\ audit'[q.id].row = q.to
  BY <1>2, <1>3 DEF Settled
<1>5. cases'[q.case].row # None /\ cases'[q.case].row.subject = a
  BY <1>1, <1>2, CaseStays
<1> HIDE DEF row, q
<1> QED
  BY <1>2, <1>4, <1>5 DEF Explained

(* What an uncommitted standing will rest on stays with its writer.          *)
LEMMA OthersWillBeExplained ==
    ASSUME Inv, NEW r \in Requests, Acts(r), NEW a \in Accounts,
           NEW p \in Requests, p # r, standing[a].by = p, standing'[a] = standing[a]
    PROVE  WillBeExplained(a, p)'
<1> DEFINE q == req[p]
<1>1. WillBeExplained(a, p) /\ req'[p] = q
  BY RequestStep DEF OthersStay, Inv, StandingsExplained
<1>2. /\ q.case \in CaseIds /\ cases[q.case].row # None
      /\ cases[q.case].row.subject = q.account
      /\ q.id \in DecisionIds /\ decisions[q.id].by = p
      /\ q.at = "reply" => audit[q.id].by = p
  BY <1>1 DEF WillBeExplained, CaseIsRead
<1>3. decisions'[q.id] = decisions[q.id]
  <2>1. DecisionMoves(r, q.id)
    BY <1>2, DecisionRowStep
  <2> QED
    BY <1>2, <2>1, EnforcementNoneAssumption DEF DecisionMoves, Settled
<1>4. q.at = "reply" => audit'[q.id] = audit[q.id]
  <2>1. AuditMoves(r, q.id)
    BY <1>2, AuditRowStep
  <2> QED
    BY <1>2, <2>1 DEF AuditMoves
<1>5. cases'[q.case].row # None /\ cases'[q.case].row.subject = q.account
  BY <1>2, CaseStays
<1> QED
  BY <1>1, <1>2, <1>3, <1>4, <1>5 DEF WillBeExplained, CaseIsRead

LEMMA UpsertExplains ==
    ASSUME Inv, NEW r \in Requests, UpsertStanding(r), NEW a \in Accounts,
           standing'[a].by = r
    PROVE  WillBeExplained(a, r)'
<1> DEFINE q == req[r]
<1>1. /\ q.at = "upsert_standing" /\ UNCHANGED <<cases, decisions, audit>>
      /\ Acts(r) /\ r # None
  BY EnforcementNoneAssumption DEF UpsertStanding, At, Acts, Step
<1>2. standing[a].by # r
  BY <1>1 DEF Inv, StandingsExplained, WillBeExplained
<1>3. PICK row \in StandingRow :
        /\ q.account = a /\ row.state = q.to /\ row.decision = q.id
        /\ row.capabilities = CapabilitiesFor(q.to, q.removed)
        /\ standing'[a].next = row
  <2>1. StandingMoves(r, a)
    BY <1>1, StandingRowStep
  <2>2. standing'[a] # standing[a]
    BY <1>2
  <2>3. PICK row \in StandingRow :
          /\ q.account = a /\ row.state = q.to /\ row.decision = q.id
          /\ row.capabilities = CapabilitiesFor(q.to, q.removed)
          /\ standing'[a] = [row |-> standing[a].row, next |-> row, by |-> r]
    BY <1>2, <2>1, <2>2, Zenon DEF StandingMoves
  <2>4. standing'[a].next = row
    BY <2>3
  <2> QED
    BY <2>3, <2>4
<1>4. /\ Keeps(r) /\ req'[r].at = "flush_audit" /\ req'[r].to = q.to
      /\ req'[r].account = q.account
  BY <1>2, WritingSteps
<1>5. /\ CaseIsRead(q) /\ q.id \in DecisionIds
      /\ decisions[q.id].by = r /\ decisions[q.id].next # None
      /\ decisions[q.id].next.case = q.case /\ decisions[q.id].next.removed = q.removed
  BY <1>1 DEF Inv, HandlerOK, DecisionOK, Deciding, Reading
<1>6. /\ standing'[a].next # None /\ standing'[a].next.state = q.to
      /\ standing'[a].next.decision = q.id
      /\ standing'[a].next.capabilities = CapabilitiesFor(q.to, q.removed)
  BY <1>3, EnforcementRowAssumption
<1> QED
  BY <1>1, <1>3, <1>4, <1>5, <1>6 DEF WillBeExplained, CaseIsRead, Keeps, SameRequest

LEMMA FlushExplains ==
    ASSUME Inv, NEW r \in Requests, FlushAudit(r), NEW a \in Accounts,
           standing'[a].by = r
    PROVE  WillBeExplained(a, r)'
<1> DEFINE q == req[r]
<1>1. /\ UNCHANGED <<cases, decisions, standing>>
      /\ audit' = Put(audit, q.id, r, q.to)
  BY DEF FlushAudit, StateAudited
<1>2. WillBeExplained(a, r)
  BY <1>1 DEF Inv, StandingsExplained
<1>3. /\ Keeps(r) /\ req'[r].at = "reply" /\ req'[r].to = q.to
      /\ req'[r].account = q.account
  BY WritingSteps
<1>4. q.id \in DecisionIds
  BY <1>2 DEF WillBeExplained
<1>5. audit'[q.id].by = r /\ audit'[q.id].next = q.to
  BY <1>1, <1>4 DEF Put, Inv, TypeOK
<1> QED
  BY <1>1, <1>2, <1>3, <1>5 DEF WillBeExplained, CaseIsRead, Keeps, SameRequest

LEMMA OwnWillBeExplained ==
    ASSUME Inv, NEW r \in Requests, Acts(r), NEW a \in Accounts, standing'[a].by = r
    PROVE  WillBeExplained(a, r)'
<1>1. CASE Commits(r) \/ RollsBack(r)
  BY <1>1, EndsSettle DEF Inv
<1>2. CASE UpsertStanding(r)
  BY <1>2, UpsertExplains
<1>3. CASE FlushAudit(r)
  BY <1>3, FlushExplains
<1>4. CASE Begin(r) \/ Reads(r) \/ InsertCase(r) \/ InsertDecision(r) \/ UpdateCase(r)
  <2>1. UNCHANGED standing
    BY <1>4, BeginReads DEF Reads, tables, InsertCase, InsertDecision, UpdateCase
  <2>2. req[r].at \in {"flush_audit", "reply"}
    BY <2>1 DEF Inv, StandingsExplained, WillBeExplained
  <2> QED
    BY <1>4, <2>2 DEF Begin, BeginOpen, BeginView, BeginDecide, BeginReverse, Start, At,
       Reads, FindCase, LoadDecisions, ReadStanding, FindStanding, InsertCase,
       InsertDecision, UpdateCase
<1> QED
  BY <1>1, <1>2, <1>3, <1>4, Ways

LEMMA StandingsExplainedStep ==
    ASSUME Inv, NEW r \in Requests, Acts(r)
    PROVE  StandingsExplained'
<1> SUFFICES ASSUME NEW a \in Accounts
             PROVE  /\ standing'[a].row \notin {None, ReentryHold} => Explained(a)'
                    /\ \A p \in Requests : standing'[a].by = p => WillBeExplained(a, p)'
  BY DEF StandingsExplained
<1>1. StandingMoves(r, a)
  BY StandingRowStep
<1>2. ASSUME standing'[a].row \notin {None, ReentryHold}
      PROVE  Explained(a)'
  <2>1. CASE standing'[a].row = standing[a].row
    BY <1>2, <2>1, ExplanationStays DEF Inv, StandingsExplained
  <2>2. CASE standing[a].by = r /\ Commits(r)
    BY <2>2, ExplanationIsCommitted
  <2>3. CASE RollsBack(r) /\ standing'[a] = Settled(standing[a].row)
    <3>1. standing'[a].row = standing[a].row
      BY <2>3 DEF Settled
    <3> QED
      BY <2>1, <3>1
  <2>4. ASSUME NEW row, standing'[a] = [row |-> standing[a].row, next |-> row, by |-> r]
        PROVE  Explained(a)'
    <3>1. standing'[a].row = standing[a].row
      BY <2>4
    <3> QED
      BY <2>1, <3>1
  <2>5. CASE standing'[a] = standing[a]
    BY <2>1, <2>5
  <2> QED
    BY <1>1, <2>2, <2>3, <2>4, <2>5, Zenon DEF StandingMoves
<1>3. ASSUME NEW p \in Requests, standing'[a].by = p
      PROVE  WillBeExplained(a, p)'
  <2>1. CASE p = r
    BY <1>3, <2>1, OwnWillBeExplained
  <2>2. CASE p # r
    <3>1. CASE standing'[a] = standing[a]
      BY <1>3, <2>2, <3>1, OthersWillBeExplained
    <3>2. ASSUME NEW row, standing'[a] = Settled(row)
          PROVE  FALSE
      BY <1>3, <3>2, EnforcementNoneAssumption DEF Settled
    <3>3. CASE \E row : standing'[a] = [row |-> standing[a].row, next |-> row, by |-> r]
      BY <1>3, <2>2, <3>3
    <3> QED
      BY <1>1, <3>1, <3>2, <3>3 DEF StandingMoves
  <2> QED
    BY <2>1, <2>2
<1> QED
  BY <1>2, <1>3

-----------------------------------------------------------------------------
(* The theorems *)

LEMMA TypeStep ==
    ASSUME Inv, NEW r \in Requests, Acts(r)
    PROVE  TypeOK'
<1>1. cases' \in [CaseIds -> Versions(CaseRow \cup {None}, Requests)]
  <2>1. CASE CaseIds = {}
    BY <2>1, CaseWrites DEF Inv, TypeOK, Commits, RollsBack, Commit, Rollback, WritesCase
  <2>2. ASSUME NEW c \in CaseIds
        PROVE  cases' \in [CaseIds -> Versions(CaseRow \cup {None}, Requests)]
    BY CaseRowStep
  <2> QED
    BY <2>1, <2>2
<1>2. decisions' \in [DecisionIds -> Versions(DecisionRow \cup {None}, Requests)]
  <2>1. CASE DecisionIds = {}
    BY <2>1, DecisionWrites
       DEF Inv, TypeOK, Commits, RollsBack, Commit, Rollback, WritesDecision
  <2>2. ASSUME NEW d \in DecisionIds
        PROVE  decisions' \in [DecisionIds -> Versions(DecisionRow \cup {None}, Requests)]
    BY DecisionRowStep
  <2> QED
    BY <2>1, <2>2
<1>3. audit' \in [DecisionIds -> Versions(AccountStates \cup {None}, Requests)]
  <2>1. CASE DecisionIds = {}
    BY <2>1, AuditWrites
       DEF Inv, TypeOK, Commits, RollsBack, Commit, Rollback, WritesAudit
  <2>2. ASSUME NEW d \in DecisionIds
        PROVE  audit' \in [DecisionIds -> Versions(AccountStates \cup {None}, Requests)]
    BY AuditRowStep
  <2> QED
    BY <2>1, <2>2
<1>4. standing' \in [Accounts -> Versions(StandingRow \cup {None}, Requests)]
  <2>1. CASE Accounts = {}
    BY <2>1, StandingWrites
       DEF Inv, TypeOK, Commits, RollsBack, Commit, Rollback, WritesStanding
  <2>2. ASSUME NEW a \in Accounts
        PROVE  standing' \in [Accounts -> Versions(StandingRow \cup {None}, Requests)]
    BY StandingRowStep
  <2> QED
    BY <2>1, <2>2
<1>5. Typed
  BY RequestStep
<1> QED
  BY <1>1, <1>2, <1>3, <1>4, <1>5 DEF TypeOK, Typed

LEMMA InvStep == Inv /\ [Next]_vars => Inv'
<1> SUFFICES ASSUME Inv, [Next]_vars
             PROVE  Inv'
  OBVIOUS
<1>1. ASSUME NEW r \in Requests, Acts(r)
      PROVE  Inv'
  <2>1. TypeOK'
    BY <1>1, TypeStep
  <2>2. (\A p \in Requests : HandlerOK(p) /\ DecisionOK(p))'
    BY <1>1, HandlersKnow
  <2>3. (\A p \in Requests : req[p].at \in Reading => HoldsNothing(p))'
    <3>1. ASSUME NEW p \in Requests, req'[p].at \in Reading
          PROVE  HoldsNothing(p)'
      BY <1>1, <3>1, HoldsNothingStep
    <3> QED
      BY <3>1
  <2>4. IdsDiffer' /\ WrittenOnce' /\ StandingsExplained'
    BY <1>1, IdsDifferStep, WrittenOnceStep, StandingsExplainedStep
  <2>5. CasesKept'
    <3>1. ASSUME NEW c \in CaseIds
          PROVE  CaseKept(cases'[c].row, cases'[c].next)
      BY <1>1, CaseRowStep
    <3> QED
      BY <3>1 DEF CasesKept
  <2> QED
    BY <2>1, <2>2, <2>3, <2>4, <2>5 DEF Inv
<1>2. CASE UNCHANGED vars
  <2> USE <1>2 DEF vars
  <2>1. TypeOK'
    BY DEF Inv, TypeOK
  <2>2. ASSUME NEW r \in Requests
        PROVE  /\ HandlerOK(r)' /\ DecisionOK(r)'
               /\ req'[r].at \in Reading => HoldsNothing(r)'
    <3>1. HandlerOK(r)'
      BY DEF Inv, HandlerOK, CaseIsRead
    <3>2. DecisionOK(r)'
      BY DEF Inv, DecisionOK
    <3>3. req'[r].at \in Reading => HoldsNothing(r)'
      BY DEF Inv, HoldsNothing
    <3> QED
      BY <3>1, <3>2, <3>3
  <2>3. (IdsDiffer /\ CasesKept /\ WrittenOnce)'
    BY DEF Inv, IdsDiffer, CasesKept, WrittenOnce
  <2>4. StandingsExplained'
    <3>1. ASSUME NEW a \in Accounts, Explained(a)
          PROVE  Explained(a)'
      BY <3>1 DEF Explained
    <3>2. ASSUME NEW a \in Accounts, NEW r \in Requests, WillBeExplained(a, r)
          PROVE  WillBeExplained(a, r)'
      BY <3>2 DEF WillBeExplained, CaseIsRead
    <3> QED
      BY <3>1, <3>2 DEF Inv, StandingsExplained
  <2> QED
    BY <2>1, <2>2, <2>3, <2>4 DEF Inv
<1>3. Next => \E r \in Requests : Acts(r)
  BY DEF Next, Acts
<1> QED
  BY <1>1, <1>2, <1>3

LEMMA InvAlways == Spec => []Inv
  BY InitInv, InvStep, PTL DEF Spec

(* Whatever requests race, whichever refuses and wherever one is lost, every *)
(* table holds rows of its type and every handler is at one of its places.   *)
THEOREM EnforcementTypeSafety == Spec => []TypeOK
<1>1. Inv => TypeOK
  BY DEF Inv
<1> QED
  BY <1>1, InvAlways, PTL

(* For any number of moderators at work at once: no account is ever in a     *)
(* state, or short of a capability, that its committed standing does not     *)
(* attribute to a recorded decision about it, audited with that outcome.     *)
(* This is what createEnforcedState writes decision_id for, and what the     *)
(* compare-and-set and the order of the audit rows are relied on for.        *)
THEOREM AlwaysExplained == Spec => []StandingIsExplained
<1>1. Inv => StandingIsExplained
  <2> SUFFICES ASSUME Inv, NEW a \in Accounts,
                      Standing[a] # None, Standing[a] # ReentryHold
               PROVE  LET d == Standing[a].decision
                      IN  /\ d # None /\ Recorded(d) /\ Subject(d) = a
                          /\ AuditedState[d] = Standing[a].state
                          /\ Standing[a].capabilities =
                                 CapabilitiesFor(Standing[a].state, Decision[d].removed)
    BY DEF StandingIsExplained
  <2> DEFINE d == standing[a].row.decision
  <2>1. Standing[a] = standing[a].row
    BY DEF Standing, Stored, Inv, TypeOK
  <2>2. Explained(a)
    BY <2>1 DEF Inv, StandingsExplained
  <2>3. d \in DecisionIds /\ decisions[d].row # None
    BY <2>2 DEF Explained
  <2>4. decisions[d].row.case \in CaseIds
    BY <2>3 DEF Inv, TypeOK, Versions, DecisionRow
  <2>5. /\ Decision[d] = decisions[d].row /\ AuditedState[d] = audit[d].row
        /\ CaseOf[decisions[d].row.case] = cases[decisions[d].row.case].row
    BY <2>3, <2>4 DEF Decision, AuditedState, CaseOf, Stored, Inv, TypeOK
  <2> QED
    BY <2>1, <2>2, <2>3, <2>5, EnforcementNoneAssumption DEF Explained, Recorded, Subject
<1> QED
  BY <1>1, InvAlways, PTL

-----------------------------------------------------------------------------
(* Every sanction counts *)

(* The request applies a sanction or lifts one.                              *)
Sanctions(q) == q.op = "reverse" \/ EventOf(q.action) # None

(* What a request has written of a sanction, and what it has not: the audit  *)
(* row comes last, after the standing one generation on.                     *)
Counted(r) ==
    LET q == req[r]
    IN  /\ q.at \in {"find_standing", "upsert_standing"} => Sanctions(q)
        /\ q.at = "flush_audit" /\ Sanctions(q) => standing[q.account].by = r
        /\ \A d \in DecisionIds :
             /\ decisions[d].by = r =>
                  /\ CaseIsRead(q) /\ q.op \in {"decide", "reverse"}
                  /\ decisions[d].next.case = q.case
                  /\ decisions[d].next.action = q.action
                  /\ decisions[d].next.reverses = q.reverses
             /\ audit[d].by = r =>
                  /\ q.at = "reply" /\ audit[d].next # None
                  /\ Sanctions(q) => standing[q.account].by = r
        /\ \A a \in Accounts : standing[a].by = r =>
             Sanctions(q) /\ standing[a].next.generation = Generation(a) + 1

(* The case of a decision on record is on record.                            *)
Filed == \A d \in DecisionIds :
             decisions[d].row # None => cases[decisions[d].row.case].row # None

Tallied ==
    /\ Filed
    /\ \A r \in Requests : Counted(r)
    /\ \A a \in Accounts : IsFiniteSet(Applied(a))

(* The tables committed, read row by row.                                    *)
AppliedIn(cs, ds, as, a) ==
    {d \in DecisionIds :
        /\ ds[d].row # None /\ as[d].row # None
        /\ EventOf(ds[d].row.action) # None \/ ds[d].row.reverses # None
        /\ cs[ds[d].row.case].row.subject = a}
GenerationIn(row) == IF row = None THEN 0 ELSE row.generation

LEMMA AppliedRows ==
    ASSUME TypeOK, NEW a \in Accounts
    PROVE  /\ Applied(a) = AppliedIn(cases, decisions, audit, a)
           /\ Generation(a) = GenerationIn(standing[a].row)
           /\ Generation(a) \in Nat
<1>1. /\ \A d \in DecisionIds : Decision[d] = decisions[d].row /\ AuditedState[d] = audit[d].row
      /\ \A c \in CaseIds : CaseOf[c] = cases[c].row
      /\ Standing[a] = standing[a].row
  BY DEF TypeOK, Decision, AuditedState, CaseOf, Standing, Stored
<1>2. \A d \in DecisionIds : decisions[d].row # None => decisions[d].row.case \in CaseIds
  BY DEF TypeOK, Versions, DecisionRow
<1>3. \A d \in DecisionIds : d \in Applied(a) <=> d \in AppliedIn(cases, decisions, audit, a)
  BY <1>1, <1>2 DEF Applied, AppliedIn, Recorded, IsSanction, Subject
<1>4. standing[a].row = None \/ standing[a].row.generation \in Nat
  BY DEF TypeOK, Versions, StandingRow
<1> QED
  BY <1>1, <1>3, <1>4 DEF Applied, AppliedIn, Generation, GenerationIn

LEMMA AppliedRowsNext ==
    ASSUME TypeOK', NEW a \in Accounts
    PROVE  /\ Applied(a)' = AppliedIn(cases', decisions', audit', a)
           /\ Generation(a)' = GenerationIn(standing'[a].row)
<1>1. /\ \A d \in DecisionIds : Decision'[d] = decisions'[d].row /\ AuditedState'[d] = audit'[d].row
      /\ \A c \in CaseIds : CaseOf'[c] = cases'[c].row
      /\ Standing'[a] = standing'[a].row
  BY DEF TypeOK, Decision, AuditedState, CaseOf, Standing, Stored
<1>2. \A d \in DecisionIds : decisions'[d].row # None => decisions'[d].row.case \in CaseIds
  BY DEF TypeOK, Versions, DecisionRow
<1>3. \A d \in DecisionIds : d \in Applied(a)' <=> d \in AppliedIn(cases', decisions', audit', a)
  BY <1>1, <1>2 DEF Applied, AppliedIn, Recorded, IsSanction, Subject
<1> QED
  BY <1>1, <1>3 DEF Applied, AppliedIn, Generation, GenerationIn

(* The compare-and-set writes nothing, and is a conflict, or one generation  *)
(* on, over a row no other request holds.                                    *)
LEMMA UpsertSets ==
    ASSUME Inv, NEW r \in Requests, UpsertStanding(r)
    PROVE  LET a == req[r].account
           IN  /\ req[r].at = "upsert_standing" /\ a \in Accounts /\ standing[a].by = None
               /\ req'[r].account = a
               /\ \/ /\ UNCHANGED standing /\ req'[r].at = "reply"
                     /\ ~Applies(standing[a].row, req[r].generation)
                  \/ /\ req'[r].at = "flush_audit"
                     /\ standing'[a].row = standing[a].row /\ standing'[a].by = r
                     /\ standing'[a].next = NewStanding(r, GenerationIn(standing[a].row) + 1)
                     /\ standing'[a].next.generation = GenerationIn(standing[a].row) + 1
                     /\ \A b \in Accounts \ {a} : standing'[b] = standing[b]
<1> DEFINE a == req[r].account
<1>1. req[r].at = "upsert_standing" /\ FreeFor(standing, a, r)
  BY DEF UpsertStanding, At
<1>2. a \in Accounts
  BY <1>1, AccountRead DEF Inv, HandlerOK, Deciding
<1>3. standing[a].by = None
  BY <1>1, <1>2 DEF Inv, StandingsExplained, WillBeExplained, FreeFor
<1>4. standing \in [Accounts -> Versions(StandingRow \cup {None}, Requests)]
  BY DEF Inv, TypeOK
<1>5. SubjectStanding(r) = standing[a].row
  BY <1>2, <1>3, <1>4, EnforcementNoneAssumption DEF SubjectStanding, Seen
<1>6. CASE ~Applies(standing[a].row, req[r].generation)
  <2>1. Answer(r, "conflict") /\ UNCHANGED standing
    BY <1>5, <1>6 DEF UpsertStanding, IsConflict
  <2>2. req'[r].at = "reply" /\ req'[r].account = a
    BY <2>1, MoveType DEF Inv, TypeOK, Replies
  <2> QED
    BY <1>1, <1>2, <1>3, <1>6, <2>1, <2>2
<1>7. CASE Applies(standing[a].row, req[r].generation)
  <2> DEFINE n == GenerationIn(standing[a].row) + 1
             row == NewStanding(r, n)
  <2>1. n = IF standing[a].row = None THEN 1 ELSE standing[a].row.generation + 1
    BY DEF GenerationIn
  <2>2. Goto(r, "flush_audit") /\ standing' = Put(standing, a, r, row)
    BY <1>5, <1>7, <2>1 DEF UpsertStanding, IsConflict
  <2>3. req'[r] = [req[r] EXCEPT !.at = "flush_audit"]
    BY <2>2, MoveType DEF Inv, TypeOK, Places
  <2>4. req'[r].at = "flush_audit" /\ req'[r].account = a
    BY <2>3 DEF Inv, TypeOK, RequestState
  <2>5. row.generation = n
    BY DEF NewStanding
  <2> HIDE DEF n, row
  <2>6. /\ standing'[a] = [row |-> standing[a].row, next |-> row, by |-> r]
        /\ \A b \in Accounts \ {a} : standing'[b] = standing[b]
    BY <1>2, <1>4, <2>2 DEF Put
  <2> QED
    BY <1>1, <1>2, <1>3, <2>4, <2>5, <2>6 DEF n, row
<1> QED
  BY <1>6, <1>7

(* What one request has written stays while another steps.                   *)
LEMMA HeldStays ==
    ASSUME Inv, NEW r \in Requests, Acts(r), NEW p \in Requests, p # r
    PROVE  /\ \A d \in DecisionIds :
                /\ decisions[d].by = p \/ decisions'[d].by = p => decisions'[d] = decisions[d]
                /\ audit[d].by = p \/ audit'[d].by = p => audit'[d] = audit[d]
           /\ \A a \in Accounts :
                standing[a].by = p \/ standing'[a].by = p => standing'[a] = standing[a]
<1>0. p # None /\ r # None
  BY EnforcementNoneAssumption
<1>1. ASSUME NEW d \in DecisionIds, decisions[d].by = p \/ decisions'[d].by = p
      PROVE  decisions'[d] = decisions[d]
  <2>1. DecisionMoves(r, d)
    BY DecisionRowStep
  <2> QED
    BY <1>0, <1>1, <2>1 DEF DecisionMoves, Settled
<1>2. ASSUME NEW d \in DecisionIds, audit[d].by = p \/ audit'[d].by = p
      PROVE  audit'[d] = audit[d]
  <2>1. AuditMoves(r, d)
    BY AuditRowStep
  <2>2. audit[d].by = p => decisions[d].by = p
    BY <1>0 DEF Inv, WrittenOnce
  <2> QED
    BY <1>0, <1>2, <2>1, <2>2 DEF AuditMoves, Settled
<1>3. ASSUME NEW a \in Accounts, standing[a].by = p \/ standing'[a].by = p
      PROVE  standing'[a] = standing[a]
  <2>1. CASE UpsertStanding(r)
    BY <1>0, <1>3, <2>1, UpsertSets
  <2>2. CASE Commits(r) \/ RollsBack(r)
    <3>1. standing' \in {Commit(standing, r), Rollback(standing, r)}
      BY <2>2 DEF Commits, RollsBack
    <3> QED
      BY <1>0, <1>3, <3>1 DEF Commit, Rollback, Settled, Inv, TypeOK
  <2>3. CASE Begin(r) \/ Reads(r) \/ InsertCase(r) \/ InsertDecision(r) \/ UpdateCase(r)
             \/ FlushAudit(r)
    BY <2>3, BeginReads DEF Reads, tables, InsertCase, InsertDecision, UpdateCase, FlushAudit
  <2> QED
    BY <2>1, <2>2, <2>3, Ways
<1> QED
  BY <1>1, <1>2, <1>3

(* Only a commit changes the rows committed.                                 *)
LEMMA RowsCommitted ==
    ASSUME Inv, NEW r \in Requests, Acts(r), ~Commits(r)
    PROVE  /\ \A d \in DecisionIds : /\ decisions'[d].row = decisions[d].row
                                   /\ audit'[d].row = audit[d].row
           /\ \A a \in Accounts : standing'[a].row = standing[a].row
           /\ \A c \in CaseIds : cases'[c].row = cases[c].row
<1>1. ASSUME NEW d \in DecisionIds
      PROVE  decisions'[d].row = decisions[d].row /\ audit'[d].row = audit[d].row
  <2>1. DecisionMoves(r, d) /\ AuditMoves(r, d)
    BY DecisionRowStep, AuditRowStep
  <2>2. decisions[d].by = r => decisions[d].row = None
    BY EnforcementNoneAssumption DEF Inv, WrittenOnce
  <2> QED
    BY <2>1, <2>2 DEF DecisionMoves, AuditMoves, Settled
<1>2. ASSUME NEW a \in Accounts
      PROVE  standing'[a].row = standing[a].row
  <2>1. CASE UpsertStanding(r)
    BY <2>1, UpsertSets
  <2>2. CASE RollsBack(r)
    BY <2>2 DEF RollsBack, Rollback, Settled, Inv, TypeOK
  <2>3. CASE Begin(r) \/ Reads(r) \/ InsertCase(r) \/ InsertDecision(r) \/ UpdateCase(r)
             \/ FlushAudit(r)
    BY <2>3, BeginReads DEF Reads, tables, InsertCase, InsertDecision, UpdateCase, FlushAudit
  <2> QED
    BY <2>1, <2>2, <2>3, Ways
<1>3. ASSUME NEW c \in CaseIds
      PROVE  cases'[c].row = cases[c].row
  <2>1. CASE WritesCase(r)
    <3>1. PICK row : cases' = Put(cases, req[r].case, r, row)
      BY <2>1 DEF WritesCase
    <3> QED
      BY <3>1 DEF Put, Inv, TypeOK
  <2>2. CASE RollsBack(r)
    BY <2>2 DEF RollsBack, Rollback, Settled, Inv, TypeOK
  <2> QED
    BY <2>1, <2>2, CaseWrites
<1> QED
  BY <1>1, <1>2, <1>3

LEMMA OthersCounted ==
    ASSUME Inv, Tallied, NEW r \in Requests, Acts(r), NEW p \in Requests, p # r, TypeOK'
    PROVE  Counted(p)'
<1>1. Counted(p) /\ req'[p] = req[p] /\ p # None
  BY RequestStep, EnforcementNoneAssumption DEF Tallied, OthersStay
<1>2. CaseIsRead(req[p]) => CaseIsRead(req[p])'
  BY <1>1, CaseStays DEF CaseIsRead
<1>3. /\ \A d \in DecisionIds :
           /\ decisions'[d].by = p => decisions'[d] = decisions[d]
           /\ audit'[d].by = p => audit'[d] = audit[d]
      /\ \A a \in Accounts :
           standing[a].by = p \/ standing'[a].by = p => standing'[a] = standing[a]
  BY HeldStays
<1>4. \A a \in Accounts : standing'[a] = standing[a] => Generation(a)' = Generation(a)
  BY AppliedRows, AppliedRowsNext DEF Inv
<1>5. req[p].at \in {"flush_audit"} => req[p].account \in Accounts
  BY AccountRead DEF Inv, HandlerOK, Deciding
<1>6. (\E d \in DecisionIds : decisions[d].by = p) => req[p].account \in Accounts
  BY <1>1, AccountRead DEF Counted, Inv
<1>7. \A d \in DecisionIds : audit[d].by = p => decisions[d].by = p
  BY <1>1 DEF Inv, WrittenOnce
<1>8. (\A d \in DecisionIds :
             /\ decisions[d].by = p =>
                  /\ CaseIsRead(req[p]) /\ req[p].op \in {"decide", "reverse"}
                  /\ decisions[d].next.case = req[p].case
                  /\ decisions[d].next.action = req[p].action
                  /\ decisions[d].next.reverses = req[p].reverses)'
  BY <1>1, <1>2, <1>3 DEF Counted, CaseIsRead
<1>9. (\A d \in DecisionIds :
             audit[d].by = p =>
                  /\ req[p].at = "reply" /\ audit[d].next # None
                  /\ Sanctions(req[p]) => standing[req[p].account].by = p)'
  BY <1>1, <1>3, <1>6, <1>7 DEF Counted, Sanctions
<1>10. (\A a \in Accounts : standing[a].by = p =>
             Sanctions(req[p]) /\ standing[a].next.generation = Generation(a) + 1)'
  BY <1>1, <1>3, <1>4 DEF Counted, Sanctions
<1>11. (/\ req[p].at \in {"find_standing", "upsert_standing"} => Sanctions(req[p])
        /\ req[p].at = "flush_audit" /\ Sanctions(req[p]) => standing[req[p].account].by = p)'
  BY <1>1, <1>3, <1>5 DEF Counted, Sanctions
<1> QED
  BY <1>8, <1>9, <1>10, <1>11 DEF Counted

(* A request that reads, or has not begun, has written nothing.              *)
LEMMA NothingCounted ==
    ASSUME NEW r \in Requests, HoldsNothing(r)',
           req'[r].at \notin {"find_standing", "upsert_standing", "flush_audit"}
    PROVE  Counted(r)'
  BY DEF HoldsNothing, Counted

LEMMA OwnCounted ==
    ASSUME Inv, Tallied, NEW r \in Requests, Acts(r), TypeOK'
    PROVE  Counted(r)'
<1> DEFINE q == req[r]
<1>1. Counted(r) /\ HandlerOK(r) /\ (q.at \in Reading => HoldsNothing(r)) /\ r # None
  BY EnforcementNoneAssumption DEF Tallied, Inv
<1>2. \A a \in Accounts : standing'[a] = standing[a] => Generation(a)' = Generation(a)
  BY AppliedRows, AppliedRowsNext DEF Inv
<1>3. CASE Commits(r) \/ RollsBack(r)
  <2>1. req'[r] = Idle
    BY <1>3 DEF Commits, RollsBack, Inv, TypeOK
  <2>2. HoldsNothing(r)'
    BY <1>3, EndsSettle DEF Inv, HoldsNothing
  <2> QED
    BY <2>1, <2>2, IdleType, NothingCounted
<1>4. CASE Begin(r)
  <2>1. PICK b : Begun(r, b)
    BY <1>4, BeginStep
  <2>2. req'[r].at \in {"insert_case", "find_case"} /\ q.at = "idle"
    BY <2>1 DEF Begun, Inv, TypeOK
  <2>3. HoldsNothing(r)'
    BY <1>1, <1>4, <2>2, BeginReads DEF Reading, HoldsNothing, tables
  <2> QED
    BY <2>2, <2>3, NothingCounted
<1>5. CASE FindCase(r) \/ LoadDecisions(r) \/ ReadStanding(r) \/ InsertCase(r)
  <2>1. /\ req'[r].at \in {"reply", "failed", "read_standing", "load_decisions",
                           "insert_decision"}
        /\ UNCHANGED <<decisions, audit, standing>>
    BY <1>5, FindCaseStep, LoadDecisionsStep, ReadStandingStep, WritingSteps
       DEF FindCase, LoadDecisions, ReadStanding, InsertCase, tables
  <2>2. q.at \in Reading
    BY <1>5 DEF FindCase, LoadDecisions, ReadStanding, InsertCase, At, Reading
  <2>3. CASE req'[r].at \in Reading
    BY <2>1, <2>3, HoldsNothingStep, NothingCounted
  <2>4. CASE req'[r].at \notin Reading
    BY <1>1, <2>1, <2>2 DEF HoldsNothing, Counted
  <2> QED
    BY <2>3, <2>4
<1>6. CASE FindStanding(r)
  <2>1. /\ Keeps(r) /\ req'[r].at = "upsert_standing" /\ req'[r].account = q.account
        /\ q.at = "find_standing" /\ UNCHANGED tables
    BY <1>6, FindStandingStep DEF FindStanding
  <2> QED
    BY <1>1, <1>2, <2>1
       DEF Counted, Keeps, SameRequest, Sanctions, CaseIsRead, tables
<1>7. CASE InsertDecision(r)
  <2>1. /\ Keeps(r) /\ req'[r].account = q.account /\ q.at = "insert_decision"
        /\ req'[r].at = IF q.op = "decide" THEN "update_case" ELSE "find_standing"
        /\ UNCHANGED <<cases, audit, standing>>
    BY <1>7, WritingSteps DEF InsertDecision, At
  <2>2. /\ HoldsNothing(r) /\ CaseIsRead(q) /\ q.op \in {"decide", "reverse"}
        /\ q.id \in DecisionIds
    BY <1>1, <2>1 DEF Reading, HandlerOK, Deciding
  <2> DEFINE row == [case |-> q.case, action |-> q.action,
                     removed |-> IF EventAsked(r) = None THEN {} ELSE q.removed,
                     reverses |-> q.reverses]
  <2>3. decisions' = Put(decisions, q.id, r, row)
    BY <1>7 DEF InsertDecision
  <2>4. row.case = q.case /\ row.action = q.action /\ row.reverses = q.reverses
    OBVIOUS
  <2> HIDE DEF row
  <2>5. /\ decisions'[q.id].next = row
        /\ \A d \in DecisionIds \ {q.id} : decisions'[d] = decisions[d]
    BY <2>2, <2>3 DEF Put, Inv, TypeOK
  <2>6. \A d \in DecisionIds : decisions'[d].by = r => d = q.id
    BY <2>2, <2>5 DEF HoldsNothing
  <2> QED
    BY <2>1, <2>2, <2>4, <2>5, <2>6
       DEF Counted, Keeps, SameRequest, Sanctions, CaseIsRead, HoldsNothing
<1>8. CASE UpdateCase(r)
  <2>1. /\ Keeps(r) /\ req'[r].account = q.account /\ q.at = "update_case"
        /\ req'[r].at = IF EventOf(q.action) = None THEN "flush_audit" ELSE "find_standing"
        /\ UNCHANGED <<decisions, audit, standing>> /\ q.op = "decide"
    BY <1>1, <1>8, WritingSteps DEF UpdateCase, At, HandlerOK
  <2>2. CaseIsRead(q) => CaseIsRead(q)'
    BY <2>1, CaseStays DEF CaseIsRead, Keeps, SameRequest
  <2> QED
    BY <1>1, <1>2, <2>1, <2>2 DEF Counted, Keeps, SameRequest, Sanctions, CaseIsRead
<1>9. CASE UpsertStanding(r)
  <2>1. /\ Keeps(r) /\ UNCHANGED <<cases, decisions, audit>> /\ q.at = "upsert_standing"
        /\ \A d \in DecisionIds : audit[d].by # r
        /\ \A a \in Accounts : standing[a].by # r
        /\ q.account \in Accounts /\ Sanctions(q) /\ req'[r].account = q.account
    <3>1. \A a \in Accounts : standing[a].by # r
      BY <1>9, UpsertSets DEF Inv, StandingsExplained, WillBeExplained
    <3> QED
      BY <1>1, <1>9, <3>1, UpsertSets, WritingSteps DEF UpsertStanding, Counted
  <2>2. CASE UNCHANGED standing /\ req'[r].at = "reply"
    BY <1>1, <2>1, <2>2 DEF Counted, Keeps, SameRequest, Sanctions, CaseIsRead
  <2>3. CASE ~(UNCHANGED standing /\ req'[r].at = "reply")
    <3>1. /\ req'[r].at = "flush_audit"
          /\ standing'[q.account].row = standing[q.account].row
          /\ standing'[q.account].by = r
          /\ standing'[q.account].next.generation =
                 GenerationIn(standing[q.account].row) + 1
          /\ \A b \in Accounts \ {q.account} : standing'[b] = standing[b]
      BY <1>9, <2>3, UpsertSets
    <3>2. ASSUME NEW a \in Accounts, standing'[a].by = r
          PROVE  standing'[a].next.generation = Generation(a)' + 1
      <4>1. a = q.account
        BY <2>1, <3>1, <3>2
      <4>2. Generation(a)' = GenerationIn(standing[a].row)
        BY <3>1, <4>1, AppliedRowsNext
      <4> QED
        BY <3>1, <4>1, <4>2
    <3> QED
      BY <1>1, <2>1, <3>1, <3>2
         DEF Counted, Keeps, SameRequest, Sanctions, CaseIsRead
  <2> QED
    BY <2>2, <2>3
<1>10. CASE FlushAudit(r)
  <2>1. /\ Keeps(r) /\ req'[r].at = "reply" /\ req'[r].account = q.account
        /\ q.at = "flush_audit" /\ UNCHANGED <<cases, decisions, standing>>
        /\ audit' = Put(audit, q.id, r, q.to) /\ q.to \in AccountStates
    BY <1>10, WritingSteps, ReadType DEF FlushAudit, At, StateAudited, Inv, RequestState
  <2>2. /\ \A d \in DecisionIds : audit'[d].by = r => audit'[d].next # None
        /\ Sanctions(q) => standing[q.account].by = r
    BY <1>1, <2>1, EnforcementNoneAssumption DEF Counted, Put, Inv, TypeOK
  <2> QED
    BY <1>1, <1>2, <2>1, <2>2 DEF Counted, Keeps, SameRequest, Sanctions, CaseIsRead
<1> QED
  BY <1>3, <1>4, <1>5, <1>6, <1>7, <1>8, <1>9, <1>10, Ways DEF Reads

LEMMA FiledStep ==
    ASSUME Inv, Tallied, NEW r \in Requests, Acts(r)
    PROVE  Filed'
<1> SUFFICES ASSUME NEW d \in DecisionIds, decisions'[d].row # None
             PROVE  cases'[decisions'[d].row.case].row # None
  BY DEF Filed
<1>1. CASE decisions[d].row # None
  <2>1. decisions'[d] = decisions[d] /\ cases[decisions[d].row.case].row # None
    BY <1>1, DecisionRowStep DEF Tallied, Filed
  <2>2. decisions[d].row.case \in CaseIds
    BY <1>1 DEF Inv, TypeOK, Versions, DecisionRow
  <2> QED
    BY <2>1, <2>2, CaseStays
<1>2. CASE decisions[d].row = None
  <2>1. DecisionMoves(r, d)
    BY DecisionRowStep
  <2>2. decisions[d].by = r /\ decisions'[d].row = decisions[d].next
    BY <1>2, <2>1 DEF DecisionMoves, Settled
  <2>3. CaseIsRead(req[r]) /\ decisions[d].next.case = req[r].case
    BY <2>2 DEF Tallied, Counted
  <2> QED
    BY <2>2, <2>3, CaseStays DEF CaseIsRead
<1> QED
  BY <1>1, <1>2

(* What a step does to the count of an account's sanctions and to its        *)
(* generation.                                                               *)
Tally(a) ==
    \/ Applied(a)' = Applied(a) /\ Generation(a)' = Generation(a)
    \/ \E d : /\ d \notin Applied(a) /\ Applied(a)' = Applied(a) \cup {d}
              /\ Generation(a)' = Generation(a) + 1

LEMMA CommittedTally ==
    ASSUME Inv, Tallied, NEW r \in Requests, Commits(r), TypeOK', NEW a \in Accounts
    PROVE  Tally(a)
<1> DEFINE q == req[r]
           In(d) == d \in AppliedIn(cases, decisions, audit, a)
           InNext(d) == d \in AppliedIn(cases', decisions', audit', a)
<1>1. /\ Acts(r) /\ q.at = "reply" /\ Counted(r) /\ HandlerOK(r) /\ r # None
      /\ cases' = Commit(cases, r) /\ decisions' = Commit(decisions, r)
      /\ audit' = Commit(audit, r) /\ standing' = Commit(standing, r)
  BY EnforcementNoneAssumption
     DEF Commits, At, Acts, Step, CommitRequest, Tallied, Inv
<1>2. ASSUME NEW d \in DecisionIds, decisions[d].by # r
      PROVE  InNext(d) <=> In(d)
  <2>1. audit[d].by # r
    BY <1>1, <1>2 DEF Inv, WrittenOnce
  <2>2. decisions'[d] = decisions[d] /\ audit'[d] = audit[d]
    BY <1>1, <1>2, <2>1 DEF Commit, Inv, TypeOK
  <2>3. decisions[d].row # None =>
          cases'[decisions[d].row.case].row.subject = cases[decisions[d].row.case].row.subject
    <3>1. decisions[d].row # None => decisions[d].row.case \in CaseIds
      BY DEF Inv, TypeOK, Versions, DecisionRow
    <3> QED
      BY <1>1, <3>1, CaseStays DEF Tallied, Filed
  <2> QED
    BY <2>2, <2>3 DEF AppliedIn
<1>3. ASSUME NEW d \in DecisionIds, decisions[d].by = r
      PROVE  /\ d = q.id /\ ~In(d)
             /\ InNext(d) <=> audit[d].by = r /\ Sanctions(q) /\ q.account = a
  <2>1. d = q.id /\ decisions[d].row = None /\ decisions[d].next # None /\ audit[d].row = None
    BY <1>1, <1>3 DEF Inv, WrittenOnce
  <2>2. /\ CaseIsRead(q) /\ q.op \in {"decide", "reverse"}
        /\ decisions[d].next.case = q.case /\ decisions[d].next.action = q.action
        /\ decisions[d].next.reverses = q.reverses
    BY <1>1, <1>3 DEF Counted
  <2>3. decisions'[d].row = decisions[d].next
    BY <1>1, <1>3 DEF Commit, Settled, Inv, TypeOK
  <2>4. audit'[d].row # None <=> audit[d].by = r
    BY <1>1, <2>1 DEF Commit, Settled, Inv, TypeOK, Counted
  <2>5. Sanctions(q) <=> EventOf(q.action) # None \/ q.reverses # None
    BY <1>1, <2>2, EnforcementNoneAssumption DEF Sanctions, HandlerOK
  <2>6. cases'[q.case].row.subject = q.account
    BY <1>1, <2>2, CaseStays DEF CaseIsRead
  <2> QED
    BY <2>1, <2>2, <2>3, <2>4, <2>5, <2>6 DEF AppliedIn
<1>4. /\ Applied(a) = AppliedIn(cases, decisions, audit, a)
      /\ Applied(a)' = AppliedIn(cases', decisions', audit', a)
      /\ Generation(a) = GenerationIn(standing[a].row)
      /\ Generation(a)' = GenerationIn(standing'[a].row)
  BY AppliedRows, AppliedRowsNext DEF Inv
<1>5. CASE standing[a].by = r
  <2>1. /\ Sanctions(q) /\ standing[a].next.generation = Generation(a) + 1
        /\ q.account = a /\ q.id \in DecisionIds /\ decisions[q.id].by = r
        /\ audit[q.id].by = r /\ standing[a].next # None
    BY <1>1, <1>5 DEF Counted, Inv, StandingsExplained, WillBeExplained
  <2>2. standing'[a].row = standing[a].next
    BY <1>1, <1>5 DEF Commit, Settled, Inv, TypeOK
  <2>3. Generation(a)' = Generation(a) + 1
    BY <1>4, <2>1, <2>2 DEF GenerationIn
  <2>4. ~In(q.id) /\ InNext(q.id)
    BY <1>3, <2>1
  <2>5. \A d \in DecisionIds : d # q.id => (InNext(d) <=> In(d))
    BY <1>2, <1>3
  <2>6. AppliedIn(cases', decisions', audit', a) =
            AppliedIn(cases, decisions, audit, a) \cup {q.id}
    <3>1. /\ AppliedIn(cases', decisions', audit', a) \subseteq DecisionIds
          /\ AppliedIn(cases, decisions, audit, a) \subseteq DecisionIds
      BY DEF AppliedIn
    <3> QED
      BY <2>1, <2>4, <2>5, <3>1
  <2> QED
    BY <1>4, <2>3, <2>4, <2>6 DEF Tally
<1>6. CASE standing[a].by # r
  <2>1. standing'[a] = standing[a]
    BY <1>1, <1>6 DEF Commit, Inv, TypeOK
  <2>2. \A d \in DecisionIds : InNext(d) <=> In(d)
    BY <1>1, <1>2, <1>3, <1>6 DEF Counted
  <2>3. AppliedIn(cases', decisions', audit', a) = AppliedIn(cases, decisions, audit, a)
    <3>1. /\ AppliedIn(cases', decisions', audit', a) \subseteq DecisionIds
          /\ AppliedIn(cases, decisions, audit, a) \subseteq DecisionIds
      BY DEF AppliedIn
    <3> QED
      BY <2>2, <3>1
  <2> QED
    BY <1>4, <2>1, <2>3 DEF Tally
<1> QED
  BY <1>5, <1>6

LEMMA UncommittedTally ==
    ASSUME Inv, Tallied, NEW r \in Requests, Acts(r), ~Commits(r), TypeOK',
           NEW a \in Accounts
    PROVE  Tally(a)
<1>1. /\ \A d \in DecisionIds : decisions'[d].row = decisions[d].row
                               /\ audit'[d].row = audit[d].row
      /\ standing'[a].row = standing[a].row
  BY RowsCommitted
<1>3. ASSUME NEW d \in DecisionIds, decisions[d].row # None
      PROVE  cases'[decisions[d].row.case].row.subject = cases[decisions[d].row.case].row.subject
  <2>1. decisions[d].row.case \in CaseIds
    BY <1>3 DEF Inv, TypeOK, Versions, DecisionRow
  <2> QED
    BY <1>3, <2>1, CaseStays DEF Tallied, Filed
<1>4. AppliedIn(cases', decisions', audit', a) = AppliedIn(cases, decisions, audit, a)
  <2>1. \A d \in DecisionIds : d \in AppliedIn(cases', decisions', audit', a) <=>
                                   d \in AppliedIn(cases, decisions, audit, a)
    BY <1>1, <1>3 DEF AppliedIn
  <2> QED
    BY <2>1 DEF AppliedIn
<1> QED
  BY <1>1, <1>4, AppliedRows, AppliedRowsNext DEF Tally, Inv

LEMMA TalliedStep ==
    ASSUME Inv, Tallied, [Next]_vars
    PROVE  Tallied' /\ \A a \in Accounts : Tally(a)
<1>1. Inv'
  BY InvStep
<1>2. ASSUME NEW r \in Requests, Acts(r)
      PROVE  Tallied' /\ \A a \in Accounts : Tally(a)
  <2>1. \A a \in Accounts : Tally(a)
    BY <1>1, <1>2, CommittedTally, UncommittedTally DEF Inv
  <2>2. ASSUME NEW a \in Accounts
        PROVE  IsFiniteSet(Applied(a))'
    <3>1. IsFiniteSet(Applied(a)) /\ Tally(a)
      BY <2>1 DEF Tallied
    <3> QED
      BY <3>1, FS_AddElement DEF Tally
  <2>3. \A p \in Requests : Counted(p)'
    BY <1>1, <1>2, OwnCounted, OthersCounted DEF Inv
  <2> QED
    BY <1>2, <2>1, <2>2, <2>3, FiledStep DEF Tallied
<1>3. CASE UNCHANGED vars
  <2>1. \A a \in Accounts : Applied(a)' = Applied(a) /\ Generation(a)' = Generation(a)
    BY <1>1, <1>3, AppliedRows, AppliedRowsNext DEF vars, Inv
  <2>2. Filed'
    BY <1>3 DEF vars, Tallied, Filed
  <2>3. ASSUME NEW p \in Requests
        PROVE  Counted(p)'
    <3>1. Counted(p)
      BY DEF Tallied
    <3> QED
      BY <1>3, <2>1, <3>1 DEF vars, Counted, CaseIsRead, Sanctions
  <2> QED
    BY <2>1, <2>2, <2>3 DEF Tallied, Tally
<1> QED
  BY <1>2, <1>3 DEF Next, Acts

LEMMA InitTallied == Init => Tallied
<1> SUFFICES ASSUME Init PROVE Tallied
  OBVIOUS
<1>1. Inv
  BY InitInv
<1>2. \A d \in DecisionIds : decisions[d].row = None
  BY DEF Init, Settled
<1>3. ASSUME NEW a \in Accounts
      PROVE  IsFiniteSet(Applied(a))
  <2>1. Applied(a) = {}
    BY <1>1, <1>2, AppliedRows DEF Inv, AppliedIn
  <2> QED
    BY <2>1, FS_EmptySet
<1>4. ASSUME NEW r \in Requests
      PROVE  Counted(r)
  <2>1. HoldsNothing(r) /\ req[r].at = "idle"
    BY IdleType, EnforcementNoneAssumption DEF Init, HoldsNothing, Settled
  <2> QED
    BY <2>1 DEF HoldsNothing, Counted
<1> QED
  BY <1>2, <1>3, <1>4 DEF Tallied, Filed

LEMMA TalliedAlways == Spec => [](Inv /\ Tallied)
<1>1. Inv /\ Tallied /\ [Next]_vars => (Inv /\ Tallied)'
  BY InvStep, TalliedStep
<1> QED
  BY <1>1, InitInv, InitTallied, PTL DEF Spec

(* For any number of moderators at work at once: no sanction or lift that    *)
(* commits with its audit row is lost to another's write, and a generation   *)
(* rises for nothing else.  This is what the compare-and-set on generation   *)
(* in PostgresAccountStanding is for.                                        *)
THEOREM SanctionsAlwaysCount == Spec => EverySanctionCounts
<1>1. ASSUME Inv, Tallied, [Next]_vars, NEW a \in Accounts
      PROVE  Generation(a)' - Generation(a) = Cardinality(Applied(a)') - Cardinality(Applied(a))
  <2>1. Tally(a) /\ IsFiniteSet(Applied(a)) /\ Generation(a) \in Nat
    BY <1>1, TalliedStep, AppliedRows DEF Tallied, Inv
  <2>2. Cardinality(Applied(a)) \in Nat
    BY <2>1, FS_CardinalityType
  <2>3. CASE Applied(a)' = Applied(a) /\ Generation(a)' = Generation(a)
    BY <2>1, <2>2, <2>3
  <2>4. ASSUME NEW d, d \notin Applied(a), Applied(a)' = Applied(a) \cup {d},
               Generation(a)' = Generation(a) + 1
        PROVE  Generation(a)' - Generation(a) =
                   Cardinality(Applied(a)') - Cardinality(Applied(a))
    <3>1. Cardinality(Applied(a)') = Cardinality(Applied(a)) + 1
      BY <2>1, <2>4, FS_AddElement
    <3> QED
      BY <2>1, <2>2, <2>4, <3>1
  <2> QED
    BY <2>1, <2>3, <2>4 DEF Tally
<1>2. Inv /\ Tallied /\ [Next]_vars =>
        [\A a \in Accounts : Generation(a)' - Generation(a) =
                                 Cardinality(Applied(a)') - Cardinality(Applied(a))]_vars
  BY <1>1
<1> QED
  BY <1>2, TalliedAlways, PTL DEF Spec, EverySanctionCounts

-----------------------------------------------------------------------------
(* A hold ends in a ban *)

(* The account is held: no decision has applied to it, so the decisions      *)
(* recorded about it are warnings and clearances, and a request that acts on *)
(* it either applies nothing or bans, on the one generation there has been.  *)
Acting == {"insert_decision", "update_case", "find_standing", "upsert_standing", "flush_audit"}
HoldKept(a) ==
    /\ \A d \in DecisionIds :
         decisions[d].row # None /\ cases[decisions[d].row.case].row.subject = a =>
             LiftOf(decisions[d].row.action) = None
    /\ \A r \in Requests : req[r].account = a =>
         LET q == req[r]
         IN  /\ q.at \in Acting => /\ q.op = "decide"
                                   /\ EventOf(q.action) # None => q.to = "banned"
             /\ q.at = "upsert_standing" => q.generation = 1
             /\ q.at \in {"flush_audit", "reply"} /\ q.id \in DecisionIds
                  /\ decisions[q.id].by = r =>
                    /\ q.op = "decide"
                    /\ EventOf(q.action) # None => q.to = "banned" /\ standing[a].by = r

(* What a reversal lifts was decided on its own case.                        *)
Reversing == \A r \in Requests :
    req[r].op = "reverse" /\ req[r].at \in {"read_standing", "insert_decision"} =>
        decisions[req[r].reverses].row.case = req[r].case

Holds ==
    /\ Reversing
    /\ \A a \in Accounts : standing[a].row = ReentryHold => HoldKept(a)

LEMMA HoldRow ==
    /\ ReentryHold.state = "suspended" /\ ReentryHold.generation = 1
    /\ ReentryHold.decision = None /\ ReentryHold # None /\ StateOf(ReentryHold) = "suspended"
  BY HoldType, EnforcementRowAssumption DEF ReentryHold, StateOf

LEMMA LiftsNothing == \A action \in Actions : LiftOf(action) = None <=> EventOf(action) = None
  BY EnforcementNoneAssumption DEF Actions, LiftOf, EventOf, AccountEvents, Moves

(* A standing committed since is some decision's, so no account is put back  *)
(* on hold.                                                                  *)
LEMMA HoldWasHeld ==
    ASSUME Inv, NEW r \in Requests, Acts(r), NEW a \in Accounts
    PROVE  /\ standing'[a].row = ReentryHold => standing[a].row = ReentryHold
           /\ standing[a].by = r /\ Commits(r) =>
                standing'[a].row = standing[a].next /\ standing'[a].row # ReentryHold
           /\ standing[a].by # r \/ ~Commits(r) => standing'[a].row = standing[a].row
<1>1. CASE ~Commits(r)
  BY <1>1, RowsCommitted
<1>2. CASE Commits(r)
  <2>1. standing' = Commit(standing, r)
    BY <1>2 DEF Commits
  <2>2. CASE standing[a].by # r
    BY <1>2, <2>1, <2>2 DEF Commit, Inv, TypeOK
  <2>3. CASE standing[a].by = r
    <3>1. standing'[a].row = standing[a].next
      BY <2>1, <2>3 DEF Commit, Settled, Inv, TypeOK
    <3>2. standing[a].next.decision \in DecisionIds
      BY <2>3 DEF Inv, StandingsExplained, WillBeExplained
    <3> QED
      BY <1>2, <2>3, <3>1, <3>2, HoldRow, EnforcementNoneAssumption
  <2> QED
    BY <2>2, <2>3
<1> QED
  BY <1>1, <1>2

(* From a hold, a decision that applies anything is a ban, and no reversal   *)
(* has anything to lift.                                                     *)
LEMMA ReadsHold ==
    ASSUME Inv, Holds, NEW r \in Requests, ReadStanding(r), req'[r].at = "insert_decision",
           standing[req[r].account].row = ReentryHold
    PROVE  req[r].op = "decide" /\ (EventOf(req[r].action) # None => req'[r].to = "banned")
<1> DEFINE q == req[r]
<1>1. /\ q.at = "read_standing" /\ q \in RequestState /\ req \in [Requests -> RequestState]
      /\ q.op \in {"decide", "reverse"} /\ CaseIsRead(q) /\ HoldsNothing(r)
      /\ q.action \in Actions
  BY DEF ReadStanding, At, Inv, HandlerOK, Deciding, Reading, TypeOK, RequestState
<1>2. q.account \in Accounts
  BY <1>1, AccountRead DEF Inv
<1>3. SubjectStanding(r) = ReentryHold
  BY <1>1, <1>2 DEF SubjectStanding, Seen, HoldsNothing, Inv, TypeOK
<1>4. StateOf(SubjectStanding(r)) = "suspended"
  BY <1>3, HoldRow
<1>5. ~Answer(r, "refused")
  BY <1>1, MoveType DEF Replies
<1>6. CASE q.op = "reverse"
  <2>1. /\ q.reverses \in DecisionIds /\ decisions[q.reverses].row # None
        /\ decisions[q.reverses].row.case = q.case
    BY <1>1, <1>6 DEF Holds, Reversing, Inv, HandlerOK, DecisionOK
  <2>2. cases[decisions[q.reverses].row.case].row.subject = q.account
    BY <1>1, <2>1 DEF CaseIsRead
  <2>3. LiftOf(decisions[q.reverses].row.action) = None
    BY <1>2, <2>1, <2>2 DEF Holds, HoldKept
  <2>4. Seen(decisions, r)[q.reverses] = decisions[q.reverses].row
    BY <1>1, <2>1 DEF Seen, HoldsNothing, Inv, TypeOK
  <2>5. EventAsked(r) = None
    BY <1>6, <2>3, <2>4 DEF EventAsked
  <2> QED
    BY <1>5, <1>6, <2>5 DEF ReadStanding
<1>7. CASE q.op = "decide" /\ EventOf(q.action) # None
  <2>1. EventAsked(r) = EventOf(q.action)
    BY <1>7 DEF EventAsked
  <2>2. MayMove("suspended", EventOf(q.action), q.removed)
    BY <1>4, <1>5, <1>7, <2>1 DEF ReadStanding, Permitted
  <2>3. EventOf(q.action) = "ban"
    BY <1>1, <1>7, <2>2 DEF MayMove, EventOf, Moves, Move, Actions
  <2>4. Moves["ban"].to = "banned"
    BY DEF Moves, Move
  <2>5. req' = [req EXCEPT ![r].to = "banned", ![r].at = "insert_decision"]
    BY <1>5, <1>7, <2>1, <2>3, <2>4 DEF ReadStanding
  <2>6. req'[r].to = "banned"
    BY <1>1, <2>5 DEF RequestState
  <2> QED
    BY <1>7, <2>6
<1> QED
  BY <1>1, <1>6, <1>7

LEMMA ReversingStep ==
    ASSUME Inv, Holds, NEW r \in Requests, Acts(r)
    PROVE  Reversing'
<1> SUFFICES ASSUME NEW p \in Requests, req'[p].op = "reverse",
                    req'[p].at \in {"read_standing", "insert_decision"}
             PROVE  decisions'[req'[p].reverses].row.case = req'[p].case
  BY DEF Reversing
<1>1. ASSUME req[p].op = "reverse", req[p].at \in {"read_standing", "insert_decision"}
      PROVE  decisions'[req[p].reverses].row.case = req[p].case
  <2>1. /\ req[p].reverses \in DecisionIds /\ decisions[req[p].reverses].row # None
        /\ decisions[req[p].reverses].row.case = req[p].case
    BY <1>1 DEF Holds, Reversing, Inv, HandlerOK, DecisionOK
  <2> QED
    BY <2>1, DecisionRowStep
<1>2. CASE p # r
  BY <1>1, <1>2, RequestStep DEF OthersStay
<1>3. CASE p = r
  <2>1. CASE Begin(r)
    <3>1. PICK q : Begun(r, q)
      BY <2>1, BeginStep
    <3> QED
      BY <1>3, <3>1 DEF Begun, Inv, TypeOK
  <2>2. CASE Commits(r) \/ RollsBack(r)
    BY <1>3, <2>2, IdleType DEF Commits, RollsBack, Inv, TypeOK
  <2>3. CASE FindCase(r)
    BY <1>3, <2>3, FindCaseStep DEF Keeps, SameRequest
  <2>4. CASE LoadDecisions(r)
    <3>1. /\ Keeps(r) /\ decisions[req[r].reverses].row.case = req[r].case
          /\ UNCHANGED decisions
      BY <1>3, <2>4, LoadDecisionsStep DEF LoadDecisions, tables
    <3> QED
      BY <1>3, <3>1 DEF Keeps, SameRequest
  <2>5. CASE ReadStanding(r)
    <3>1. Keeps(r) /\ req[r].at = "read_standing"
      BY <2>5, ReadStandingStep DEF ReadStanding, At
    <3> QED
      BY <1>1, <1>3, <3>1 DEF Keeps, SameRequest
  <2>6. CASE \/ FindStanding(r) \/ InsertCase(r) \/ InsertDecision(r) \/ UpdateCase(r)
             \/ UpsertStanding(r) \/ FlushAudit(r)
    BY <1>3, <2>6, FindStandingStep, WritingSteps
  <2> QED
    BY <2>1, <2>2, <2>3, <2>4, <2>5, <2>6, Ways DEF Reads
<1> QED
  BY <1>2, <1>3

(* What a request that acts on a held account may have done.                 *)
Mild(r, a) ==
    LET q == req[r]
    IN  /\ q.at \in Acting => /\ q.op = "decide"
                              /\ EventOf(q.action) # None => q.to = "banned"
        /\ q.at = "upsert_standing" => q.generation = 1
        /\ q.at \in {"flush_audit", "reply"} /\ q.id \in DecisionIds
             /\ decisions[q.id].by = r =>
               /\ q.op = "decide"
               /\ EventOf(q.action) # None => q.to = "banned" /\ standing[a].by = r

LEMMA OwnMild ==
    ASSUME Inv, Tallied, Holds, NEW r \in Requests, Acts(r), NEW a \in Accounts,
           standing[a].row = ReentryHold, req'[r].account = a
    PROVE  Mild(r, a)'
<1> DEFINE q == req[r]
<1>1. /\ HandlerOK(r) /\ DecisionOK(r) /\ Counted(r) /\ r # None
      /\ q.at \in Reading => HoldsNothing(r)
      /\ q.account = a => Mild(r, a)
      /\ standing[a].by = r => q.at \in {"flush_audit", "reply"}
  BY EnforcementNoneAssumption
     DEF Tallied, Inv, Holds, HoldKept, Mild, StandingsExplained, WillBeExplained
<1>2. CASE Begin(r)
  <2>1. PICK b : Begun(r, b)
    BY <1>2, BeginStep
  <2>2. req'[r].at \in {"insert_case", "find_case"}
    BY <2>1 DEF Begun, Inv, TypeOK
  <2> QED
    BY <2>2 DEF Mild, Acting
<1>3. CASE Commits(r) \/ RollsBack(r)
  BY <1>3, IdleType DEF Commits, RollsBack, Inv, TypeOK, Mild, Acting
<1>4. CASE FindCase(r) \/ LoadDecisions(r) \/ InsertCase(r)
  <2>1. /\ req'[r].at \in {"reply", "failed", "read_standing", "load_decisions"}
        /\ UNCHANGED decisions /\ q.at \in Reading
    BY <1>4, FindCaseStep, LoadDecisionsStep, WritingSteps
       DEF FindCase, LoadDecisions, InsertCase, tables, At, Reading
  <2> QED
    BY <1>1, <2>1 DEF Mild, Acting, HoldsNothing
<1>5. CASE ReadStanding(r)
  <2>1. /\ Keeps(r) /\ q.account = a /\ req'[r].at \in {"reply", "insert_decision"}
        /\ q.at \in Reading /\ UNCHANGED decisions
    BY <1>5, ReadStandingStep DEF ReadStanding, At, Reading, tables
  <2>2. CASE req'[r].at = "reply"
    BY <1>1, <2>1, <2>2 DEF Mild, Acting, HoldsNothing
  <2>3. CASE req'[r].at = "insert_decision"
    <3>1. q.op = "decide" /\ (EventOf(q.action) # None => req'[r].to = "banned")
      BY <1>5, <2>1, <2>3, ReadsHold
    <3> QED
      BY <2>1, <2>3, <3>1 DEF Mild, Acting, Keeps, SameRequest
  <2> QED
    BY <2>1, <2>2, <2>3
<1>6. CASE InsertDecision(r)
  <2>1. /\ Keeps(r) /\ q.account = a /\ req'[r].to = q.to /\ q.at = "insert_decision"
        /\ req'[r].at = IF q.op = "decide" THEN "update_case" ELSE "find_standing"
    BY <1>6, WritingSteps DEF InsertDecision, At
  <2> QED
    BY <1>1, <2>1 DEF Mild, Acting, Keeps, SameRequest
<1>7. CASE UpdateCase(r)
  <2>1. /\ Keeps(r) /\ q.account = a /\ req'[r].to = q.to /\ q.at = "update_case"
        /\ req'[r].at = IF EventOf(q.action) = None THEN "flush_audit" ELSE "find_standing"
    BY <1>7, WritingSteps DEF UpdateCase, At
  <2> QED
    BY <1>1, <2>1 DEF Mild, Acting, Keeps, SameRequest
<1>8. CASE FindStanding(r)
  <2>1. /\ Keeps(r) /\ q.account = a /\ req'[r].to = q.to /\ q.at = "find_standing"
        /\ req'[r].at = "upsert_standing"
        /\ req'[r].generation = GenerationOf(SubjectStanding(r))
    BY <1>8, FindStandingStep
  <2>2. SubjectStanding(r) = ReentryHold
    BY <1>1, <2>1 DEF SubjectStanding, Seen, Inv, TypeOK
  <2>3. req'[r].generation = 1
    BY <2>1, <2>2, HoldRow DEF GenerationOf
  <2> QED
    BY <1>1, <2>1, <2>3 DEF Mild, Acting, Keeps, SameRequest
<1>9. CASE UpsertStanding(r)
  <2>1. /\ q.account = a /\ q.at = "upsert_standing" /\ Keeps(r)
        /\ UNCHANGED decisions
    BY <1>9, UpsertSets, WritingSteps DEF UpsertStanding
  <2>2. Applies(standing[a].row, q.generation)
    BY <1>1, <2>1, HoldRow DEF Mild, Applies
  <2>3. req'[r].at = "flush_audit" /\ standing'[a].by = r
    BY <1>9, <2>1, <2>2, UpsertSets
  <2>4. req'[r].to = q.to
    BY <1>9, <2>3, WritingSteps
  <2> QED
    BY <1>1, <2>1, <2>3, <2>4 DEF Mild, Acting, Keeps, SameRequest
<1>10. CASE FlushAudit(r)
  <2>1. /\ Keeps(r) /\ q.account = a /\ req'[r].to = q.to /\ q.at = "flush_audit"
        /\ req'[r].at = "reply" /\ UNCHANGED <<decisions, standing>>
    BY <1>10, WritingSteps DEF FlushAudit, At
  <2> QED
    BY <1>1, <2>1 DEF Mild, Acting, Keeps, SameRequest
<1> QED
  BY <1>2, <1>3, <1>4, <1>5, <1>6, <1>7, <1>8, <1>9, <1>10, Ways DEF Reads

LEMMA HoldKeptStep ==
    ASSUME Inv, Tallied, Holds, NEW r \in Requests, Acts(r), NEW a \in Accounts,
           standing'[a].row = ReentryHold
    PROVE  HoldKept(a)'
<1>1. standing[a].row = ReentryHold /\ HoldKept(a) /\ ~(standing[a].by = r /\ Commits(r))
  BY HoldWasHeld DEF Holds
<1>2. ASSUME NEW d \in DecisionIds, decisions'[d].row # None,
             cases'[decisions'[d].row.case].row.subject = a
      PROVE  LiftOf(decisions'[d].row.action) = None
  <2>1. CASE decisions[d].row # None
    <3>1. decisions'[d] = decisions[d] /\ decisions[d].row.case \in CaseIds
      BY <2>1, DecisionRowStep DEF Inv, TypeOK, Versions, DecisionRow
    <3>2. cases[decisions[d].row.case].row # None
      BY <2>1 DEF Tallied, Filed
    <3>3. cases[decisions[d].row.case].row.subject = a
      BY <1>2, <3>1, <3>2, CaseStays
    <3> QED
      BY <1>1, <2>1, <3>1, <3>3 DEF HoldKept
  <2>2. CASE decisions[d].row = None
    <3>1. DecisionMoves(r, d)
      BY DecisionRowStep
    <3>2. decisions[d].by = r /\ Commits(r) /\ decisions'[d].row = decisions[d].next
      BY <1>2, <2>2, <3>1 DEF DecisionMoves, Settled
    <3>3. /\ CaseIsRead(req[r]) /\ decisions[d].next.case = req[r].case
          /\ decisions[d].next.action = req[r].action /\ req[r].id = d
          /\ req[r].at = "reply" /\ req[r].action \in Actions
      BY <3>2, ReadType, EnforcementNoneAssumption
         DEF Tallied, Counted, Inv, WrittenOnce, Commits, At, RequestState
    <3>4. req[r].account = a
      BY <1>2, <3>2, <3>3, CaseStays DEF CaseIsRead
    <3>5. EventOf(req[r].action) = None
      BY <1>1, <3>2, <3>3, <3>4 DEF HoldKept
    <3> QED
      BY <3>2, <3>3, <3>5, LiftsNothing
  <2> QED
    BY <2>1, <2>2
<1>3. ASSUME NEW p \in Requests, req'[p].account = a
      PROVE  Mild(p, a)'
  <2>1. CASE p = r
    BY <1>1, <1>3, <2>1, OwnMild
  <2>2. CASE p # r
    <3>1. req'[p] = req[p] /\ Mild(p, a)
      BY <1>1, <1>3, <2>2, RequestStep DEF OthersStay, HoldKept, Mild
    <3>2. /\ \A d \in DecisionIds : decisions'[d].by = p => decisions'[d] = decisions[d]
          /\ standing[a].by = p => standing'[a] = standing[a]
      BY <2>2, HeldStays
    <3> QED
      BY <3>1, <3>2 DEF Mild
  <2> QED
    BY <2>1, <2>2
<1> QED
  BY <1>2, <1>3 DEF HoldKept, Mild

LEMMA HoldsStep ==
    ASSUME Inv, Tallied, Holds, [Next]_vars
    PROVE  Holds'
<1>1. ASSUME NEW r \in Requests, Acts(r)
      PROVE  Holds'
  <2>1. ASSUME NEW a \in Accounts, standing'[a].row = ReentryHold
        PROVE  HoldKept(a)'
    BY <1>1, <2>1, HoldKeptStep
  <2> QED
    BY <1>1, <2>1, ReversingStep DEF Holds
<1>2. CASE UNCHANGED vars
  BY <1>2 DEF vars, Holds, Reversing, HoldKept
<1> QED
  BY <1>1, <1>2 DEF Next, Acts

LEMMA HoldsAlways == Spec => [](Inv /\ Tallied /\ Holds)
<1>1. Init => Holds
  <2> SUFFICES ASSUME Init PROVE Holds
    OBVIOUS
  <2>1. Inv /\ \A r \in Requests : req[r] = Idle
    BY InitInv DEF Init
  <2>2. \A d \in DecisionIds : decisions[d].row = None
    BY DEF Init, Settled
  <2> QED
    BY <2>1, <2>2, IdleType DEF Holds, Reversing, HoldKept, Acting
<1>2. Inv /\ Tallied /\ Holds /\ [Next]_vars => (Inv /\ Tallied /\ Holds)'
  BY InvStep, TalliedStep, HoldsStep
<1> QED
  BY <1>1, <1>2, InitInv, InitTallied, PTL DEF Spec

(* For any number of moderators at work at once: an account a re-entry put   *)
(* on hold leaves the hold by a ban and by nothing else, whatever warnings,  *)
(* clearances and reversals are recorded about it meanwhile.                 *)
THEOREM HoldAlwaysEndsInBan == Spec => HoldEndsInBan
<1> DEFINE Leaves(a) ==
        Standing[a] = ReentryHold /\ Standing'[a] # ReentryHold => Standing'[a].state = "banned"
<1>1. ASSUME Inv, Tallied, Holds, [Next]_vars, NEW a \in Accounts
      PROVE  Leaves(a)
  <2>1. Standing[a] = standing[a].row
    BY <1>1 DEF Standing, Stored, Inv, TypeOK
  <2>2. Standing'[a] = standing'[a].row
    BY <1>1, InvStep DEF Standing, Stored, Inv, TypeOK
  <2>3. ASSUME NEW r \in Requests, Acts(r), standing[a].row = ReentryHold,
               standing'[a].row # ReentryHold
        PROVE  standing'[a].row.state = "banned"
    <3>1. /\ standing[a].by = r /\ Commits(r) /\ standing'[a].row = standing[a].next
          /\ HoldKept(a)
      BY <1>1, <2>3, HoldWasHeld DEF Holds
    <3>2. /\ WillBeExplained(a, r) /\ req[r].at = "reply" /\ Sanctions(req[r])
      BY <1>1, <3>1 DEF Inv, StandingsExplained, Commits, At, Tallied, Counted
    <3>3. /\ req[r].account = a /\ req[r].id \in DecisionIds /\ decisions[req[r].id].by = r
          /\ standing[a].next.state = req[r].to
      BY <3>2 DEF WillBeExplained
    <3>4. req[r].op = "decide" /\ (EventOf(req[r].action) # None => req[r].to = "banned")
      BY <3>1, <3>2, <3>3 DEF HoldKept
    <3> QED
      BY <3>1, <3>2, <3>3, <3>4 DEF Sanctions
  <2>4. CASE UNCHANGED vars
    BY <2>1, <2>2, <2>4 DEF vars
  <2> QED
    BY <1>1, <2>1, <2>2, <2>3, <2>4 DEF Next, Acts
<1> HIDE DEF Leaves
<1>2. Inv /\ Tallied /\ Holds /\ [Next]_vars => [\A a \in Accounts : Leaves(a)]_vars
  BY <1>1
<1>3. [\A a \in Accounts : Leaves(a)]_vars =>
        [\A a \in Accounts :
            Standing[a] = ReentryHold /\ Standing'[a] # ReentryHold =>
                Standing'[a].state = "banned"]_vars
  BY DEF Leaves
<1> QED
  BY <1>2, <1>3, HoldsAlways, PTL DEF Spec, HoldEndsInBan

-----------------------------------------------------------------------------
(* One moderator at a time *)

(* The account machine allows a to reach the state from the one committed.   *)
Legal(a, to) ==
    \E event \in AccountEvents :
        StateOf(standing[a].row) \in Moves[event].from /\ to = Moves[event].to

(* What a request read is what is committed still, so it will apply the      *)
(* event it checked, meet no conflict and resolve an open case.              *)
Steady(r) ==
    LET q == req[r]
    IN  /\ q.at \in Acting \ {"flush_audit"} /\ Sanctions(q) => Legal(q.account, q.to)
        /\ q.at = "upsert_standing" => q.generation = GenerationOf(standing[q.account].row)
        /\ q.op = "decide" /\ q.at \in Deciding => IsOpen(cases[q.case].row)
        /\ q.op = "decide" /\ q.at \in {"find_standing", "upsert_standing", "flush_audit"} =>
             cases[q.case].by = r
        /\ q.at = "reply" => \A d \in DecisionIds : decisions[d].by = r =>
             /\ audit[d].by = r
             /\ q.op = "decide" => cases[q.case].by = r /\ IsOpen(cases[q.case].row)
        /\ \A a \in Accounts : standing[a].by = r => Legal(a, q.to)
        /\ \A c \in CaseIds : cases[c].by = r =>
             /\ c = q.case /\ cases[c].next # None
             /\ \/ cases[c].row = None /\ cases[c].next.resolution = None /\ q.op = "open"
                \/ /\ cases[c].next.resolution = q.id /\ q.op = "decide"
                   /\ decisions[q.id].by = r

Alone == \A r, p \in Requests : ~At(r, "idle") /\ ~At(p, "idle") => r = p

(* What is committed: the decision a case is resolved by is the one decision *)
(* taken on it, and every decision has its audit row.                        *)
Taken(d, c) == /\ decisions[d].row # None /\ decisions[d].row.case = c
               /\ decisions[d].row.reverses = None
Resolved ==
    \A c \in CaseIds :
        /\ \A d \in DecisionIds : Taken(d, c) => cases[c].row.resolution = d
        /\ cases[c].row # None /\ cases[c].row.resolution # None =>
             \E d \in DecisionIds : cases[c].row.resolution = d /\ Taken(d, c)
Audited == \A d \in DecisionIds : decisions[d].row # None => audit[d].row # None

Serial ==
    /\ overlapped \in BOOLEAN /\ IsFiniteSet(Busy)
    /\ ~overlapped => /\ Alone /\ Resolved /\ Audited
                      /\ \A r \in Requests : Steady(r)

(* Where a handler has nothing written and no state in hand.                 *)
LEMMA FreshIsSteady ==
    ASSUME NEW r \in Requests, HoldsNothing(r)', HandlerOK(r)',
           req'[r].at \in {"idle", "insert_case", "find_case", "load_decisions", "reply",
                           "failed"}
    PROVE  Steady(r)'
  BY DEF HoldsNothing, HandlerOK, Steady, Acting, Deciding

(* With no two requests under way, the others are idle.                      *)
LEMMA OneBusy ==
    ASSUME Inv, Serial, NEW r \in Requests, Acts(r),
           overlapped' = (overlapped \/ Cardinality(Busy') > 1)
    PROVE  /\ overlapped' \in BOOLEAN /\ IsFiniteSet(Busy')
           /\ ~overlapped' => ~overlapped /\ Alone' /\
                              \A p \in Requests \ {r} : req'[p].at = "idle" /\ req[p].at = "idle"
<1>1. IsFiniteSet(Busy')
  <2>1. Busy' \in SUBSET (Busy \cup {r})
    BY RequestStep DEF Busy, OthersStay, At
  <2>2. IsFiniteSet(Busy \cup {r})
    BY FS_AddElement DEF Serial
  <2> QED
    BY <2>1, <2>2, FS_Subset
<1>2. overlapped' \in BOOLEAN /\ (~overlapped' => ~overlapped /\ ~(Cardinality(Busy') > 1))
  BY DEF Serial
<1>3. ASSUME ~overlapped', NEW p \in Requests, NEW q \in Requests, p # q,
             ~At(p, "idle")', ~At(q, "idle")'
      PROVE  FALSE
  <2>1. {p, q} \in SUBSET Busy'
    BY <1>3 DEF Busy
  <2>2. Cardinality({p, q}) = 2
    <3>1. IsFiniteSet({p}) /\ Cardinality({p}) = 1
      <4>1. {p} = {} \cup {p} /\ p \notin {}
        OBVIOUS
      <4>2. IsFiniteSet({}) /\ Cardinality({}) = 0
        BY FS_EmptySet
      <4>3. /\ IsFiniteSet({} \cup {p})
            /\ Cardinality({} \cup {p}) = IF p \in {} THEN Cardinality({})
                                                       ELSE Cardinality({}) + 1
        BY <4>2, FS_AddElement, Zenon
      <4> QED
        BY <4>1, <4>2, <4>3
    <3>2. {p, q} = {p} \cup {q}
      OBVIOUS
    <3> QED
      BY <1>3, <3>1, <3>2, FS_AddElement
  <2>3. Cardinality({p, q}) <= Cardinality(Busy') /\ Cardinality(Busy') \in Nat
    BY <1>1, <2>1, FS_Subset, FS_CardinalityType
  <2> QED
    BY <1>2, <1>3, <2>2, <2>3
<1>4. ASSUME ~overlapped', NEW p \in Requests \ {r}
      PROVE  req'[p].at = "idle" /\ req[p].at = "idle"
  <2>1. req'[p] = req[p] /\ Alone
    BY <1>2, <1>4, RequestStep DEF OthersStay, Serial
  <2>2. CASE req[p].at # "idle"
    <3>1. req[r].at = "idle"
      BY <1>4, <2>1, <2>2 DEF Alone, At
    <3>2. Begin(r)
      BY <3>1 DEF Acts, Step, Crash, Throw, CommitRequest, InsertCase, UpdateCase, At,
         InsertDecision, UpsertStanding, FlushAudit, FindCase, LoadDecisions, ReadStanding,
         FindStanding
    <3>3. PICK b : Begun(r, b)
      BY <3>2, BeginStep
    <3>4. req'[r].at # "idle"
      BY <3>3 DEF Begun, Inv, TypeOK
    <3>5. ~At(p, "idle")' /\ ~At(r, "idle")'
      BY <2>1, <2>2, <3>4 DEF At
    <3> QED
      BY <1>3, <1>4, <3>5
  <2> QED
    BY <2>1, <2>2
<1> QED
  BY <1>1, <1>2, <1>3, <1>4 DEF Alone

(* What the machine allowed of the standing read is legal of the one         *)
(* committed.                                                                *)
LEMMA ReadsLegal ==
    ASSUME Inv, NEW r \in Requests, ReadStanding(r), req'[r].at = "insert_decision",
           Sanctions(req[r])
    PROVE  Legal(req[r].account, req'[r].to)
<1> DEFINE q == req[r]
           state == StateOf(SubjectStanding(r))
           event == EventAsked(r)
<1>1. /\ q.at = "read_standing" /\ q \in RequestState /\ req \in [Requests -> RequestState]
      /\ q.op \in {"decide", "reverse"} /\ CaseIsRead(q) /\ HoldsNothing(r)
  BY DEF ReadStanding, At, Inv, HandlerOK, Deciding, Reading, TypeOK
<1>2. q.account \in Accounts
  BY <1>1, AccountRead DEF Inv
<1>3. state = StateOf(standing[q.account].row)
  BY <1>1, <1>2 DEF SubjectStanding, Seen, HoldsNothing, Inv, TypeOK
<1>4. ~Answer(r, "refused")
  BY <1>1, MoveType DEF Replies
<1>5. event # None /\ event \in AccountEvents
  <2>1. event # None
    BY <1>1, <1>4 DEF ReadStanding, EventAsked, Sanctions
  <2> QED
    BY <1>1, <2>1, EventAskedType DEF Deciding
<1>6. /\ MayMove(state, event, q.removed)
      /\ req' = [req EXCEPT ![r].to = Moves[event].to, ![r].at = "insert_decision"]
  BY <1>4, <1>5 DEF ReadStanding, Permitted
<1>7. req'[r].to = Moves[event].to
  BY <1>1, <1>6 DEF RequestState
<1> QED
  BY <1>3, <1>5, <1>6, <1>7 DEF Legal, MayMove

LEMMA OwnSteady ==
    ASSUME Inv, Tallied, Inv', NEW r \in Requests, Acts(r), Steady(r)
    PROVE  Steady(r)'
<1> DEFINE q == req[r]
<1>1. /\ HandlerOK(r) /\ DecisionOK(r) /\ Counted(r) /\ r # None /\ HandlerOK(r)'
      /\ q.at \in Reading => HoldsNothing(r)
      /\ req'[r].at \in Reading => HoldsNothing(r)'
      /\ \A a \in Accounts : standing[a].by = r => q.at \in {"flush_audit", "reply"}
  BY EnforcementNoneAssumption DEF Tallied, Inv, StandingsExplained, WillBeExplained
<1>2. CASE Begin(r)
  <2>1. PICK b : Begun(r, b)
    BY <1>2, BeginStep
  <2>2. req'[r].at \in {"insert_case", "find_case"}
    BY <2>1 DEF Begun, Inv, TypeOK
  <2> QED
    BY <1>1, <2>2, FreshIsSteady DEF Reading
<1>3. CASE Commits(r) \/ RollsBack(r)
  <2>1. req'[r].at = "idle"
    BY <1>3, IdleType DEF Commits, RollsBack, Inv, TypeOK
  <2> QED
    BY <1>1, <2>1, FreshIsSteady DEF Reading
<1>4. CASE /\ Reads(r) /\ q.at \in Reading
           /\ req'[r].at \in {"load_decisions", "reply", "failed"}
  <2>1. HoldsNothing(r)'
    BY <1>1, <1>4 DEF Reads, tables, HoldsNothing
  <2> QED
    BY <1>1, <1>4, <2>1, FreshIsSteady
<1>5. CASE FindCase(r)
  <2>1. q.at \in Reading
    BY <1>5 DEF FindCase, At, Reading
  <2>2. CASE req'[r].at = "read_standing"
    <3>1. /\ q.op = "decide" /\ IsOpen(cases[q.case].row) /\ Keeps(r)
          /\ UNCHANGED cases
      BY <1>5, <2>2, FindCaseStep DEF FindCase, tables
    <3> QED
      BY <1>1, <2>2, <3>1
         DEF Steady, Acting, Keeps, SameRequest, Reading, HoldsNothing, IsOpen
  <2>3. CASE req'[r].at # "read_standing"
    BY <1>4, <1>5, <2>1, <2>3, FindCaseStep DEF Reads, FindCase
  <2> QED
    BY <2>2, <2>3
<1>6. CASE LoadDecisions(r)
  <2>1. q.at \in Reading
    BY <1>6 DEF LoadDecisions, At, Reading
  <2>2. CASE req'[r].at = "read_standing"
    <3>1. q.op = "reverse" /\ Keeps(r)
      BY <1>6, <2>2, LoadDecisionsStep
    <3> QED
      BY <1>1, <2>2, <3>1 DEF Steady, Acting, Keeps, SameRequest, Reading, HoldsNothing
  <2>3. CASE req'[r].at # "read_standing"
    BY <1>4, <1>6, <2>1, <2>3, LoadDecisionsStep DEF Reads, LoadDecisions
  <2> QED
    BY <2>2, <2>3
<1>7. CASE ReadStanding(r)
  <2>1. q.at = "read_standing" /\ Keeps(r) /\ UNCHANGED tables /\ req'[r].account = q.account
    BY <1>7, ReadStandingStep DEF ReadStanding, At
  <2>2. CASE req'[r].at = "insert_decision"
    <3>1. Sanctions(q) => Legal(q.account, req'[r].to)
      BY <1>7, <2>2, ReadsLegal
    <3>2. q.op = "decide" => IsOpen(cases[q.case].row)
      BY <2>1 DEF Steady, Deciding
    <3> QED
      BY <1>1, <2>1, <2>2, <3>1, <3>2
         DEF Steady, Acting, Keeps, SameRequest, Reading, HoldsNothing, tables, Legal,
             Sanctions, Deciding
  <2>3. CASE req'[r].at # "insert_decision"
    BY <1>4, <1>7, <2>1, <2>3, ReadStandingStep DEF Reads, Reading
  <2> QED
    BY <2>2, <2>3
<1>8. CASE InsertCase(r)
  <2>1. /\ q.at = "insert_case" /\ Keeps(r) /\ req'[r].at = "reply" /\ q.op = "open"
        /\ UNCHANGED <<decisions, audit, standing>> /\ HoldsNothing(r)
        /\ q.case \in CaseIds /\ cases[q.case] = Settled(None)
    BY <1>1, <1>8, WritingSteps DEF InsertCase, At, Reading, HandlerOK
  <2>2. cases' = Put(cases, q.case, r, [subject |-> q.account, resolution |-> None])
    BY <1>8 DEF InsertCase
  <2>3. \A c \in CaseIds : cases'[c].by = r =>
           /\ c = q.case /\ cases'[c].row = None /\ cases'[c].next.resolution = None
    BY <2>1, <2>2 DEF Put, HoldsNothing, Settled, Inv, TypeOK
  <2>4. \A c \in CaseIds : cases'[c].by = r => cases'[c].next # None
    <3>1. [subject |-> q.account, resolution |-> None] \in CaseRow
      BY <1>1, <2>1 DEF HandlerOK, CaseRow
    <3> QED
      BY <2>1, <2>2, <3>1, EnforcementRowAssumption DEF Put, HoldsNothing, Inv, TypeOK
  <2> QED
    BY <2>1, <2>3, <2>4 DEF Steady, Acting, Keeps, SameRequest, HoldsNothing, Deciding
<1>9. CASE InsertDecision(r)
  <2>1. /\ q.at = "insert_decision" /\ Keeps(r) /\ req'[r].account = q.account
        /\ req'[r].at = IF q.op = "decide" THEN "update_case" ELSE "find_standing"
        /\ req'[r].to = q.to
        /\ UNCHANGED <<cases, audit, standing>> /\ HoldsNothing(r)
    BY <1>1, <1>9, WritingSteps DEF InsertDecision, At, Reading
  <2> QED
    BY <1>1, <2>1
       DEF Steady, Acting, Keeps, SameRequest, HoldsNothing, Deciding, Legal, Sanctions,
           IsOpen
<1>10. CASE UpdateCase(r)
  <2>1. /\ q.at = "update_case" /\ Keeps(r) /\ req'[r].account = q.account
        /\ req'[r].at = IF EventOf(q.action) = None THEN "flush_audit" ELSE "find_standing"
        /\ req'[r].to = q.to /\ q.op = "decide"
        /\ UNCHANGED <<decisions, audit, standing>>
        /\ CaseIsRead(q) /\ q.id \in DecisionIds /\ decisions[q.id].by = r
    BY <1>1, <1>10, WritingSteps
       DEF UpdateCase, At, HandlerOK, DecisionOK, Deciding, Reading
  <2> DEFINE row == [Case(r) EXCEPT !.resolution = q.id]
  <2>2. cases' = Put(cases, q.case, r, row)
    BY <1>10 DEF UpdateCase
  <2>3. Case(r) \in CaseRow
    <3>1. Case(r) \in CaseRow \cup {None}
      BY <2>1, ReadType DEF Inv, Case, CaseIsRead
    <3>2. CaseKept(cases[q.case].row, cases[q.case].next) /\ cases[q.case].row # None
      BY <2>1 DEF CaseIsRead, Inv, CasesKept
    <3>3. Case(r) # None
      BY <2>1, <3>2 DEF Case, Seen, CaseKept, CaseIsRead, Inv, TypeOK
    <3> QED
      BY <3>1, <3>3
  <2>4. row.resolution = q.id /\ row # None
    <3>1. row \in CaseRow /\ row.resolution = q.id
      BY <2>1, <2>3 DEF CaseRow
    <3> QED
      BY <3>1, EnforcementRowAssumption
  <2> HIDE DEF row
  <2>5. /\ cases'[q.case] = [row |-> cases[q.case].row, next |-> row, by |-> r]
        /\ \A c \in CaseIds \ {q.case} : cases'[c] = cases[c]
    BY <2>1, <2>2 DEF Put, Inv, TypeOK, CaseIsRead
  <2>6. IsOpen(cases[q.case].row) /\ \A c \in CaseIds : cases[c].by = r => c = q.case
    BY <2>1 DEF Steady, Deciding
  <2>7. /\ cases'[q.case].by = r /\ cases'[q.case].row = cases[q.case].row
        /\ cases'[q.case].next = row
    BY <2>5
  <2>8. \A c \in CaseIds : cases'[c].by = r => c = q.case
    BY <2>5, <2>6
  <2>9. (\A c \in CaseIds : cases[c].by = r =>
             /\ c = q.case /\ cases[c].next # None
             /\ cases[c].next.resolution = q.id /\ q.op = "decide"
             /\ decisions[q.id].by = r)'
    BY <2>1, <2>4, <2>7, <2>8 DEF Keeps, SameRequest
  <2> QED
    BY <1>1, <2>1, <2>6, <2>7, <2>9
       DEF Steady, Acting, Keeps, SameRequest, Legal, Sanctions, IsOpen
<1>11. CASE FindStanding(r)
  <2>1. /\ Keeps(r) /\ req'[r].account = q.account /\ req'[r].to = q.to
        /\ q.at = "find_standing" /\ req'[r].at = "upsert_standing" /\ UNCHANGED tables
        /\ req'[r].generation = GenerationOf(SubjectStanding(r))
        /\ q.account \in Accounts
    BY <1>1, <1>11, FindStandingStep, AccountRead DEF FindStanding, HandlerOK, Deciding, Inv
  <2>2. SubjectStanding(r) = standing[q.account].row
    BY <1>1, <2>1 DEF SubjectStanding, Seen, Inv, TypeOK
  <2> QED
    BY <2>1, <2>2
       DEF Steady, Acting, Keeps, SameRequest, Legal, Sanctions, IsOpen, tables, Deciding
<1>12. CASE UpsertStanding(r)
  <2>1. /\ q.at = "upsert_standing" /\ Keeps(r) /\ q.account \in Accounts
        /\ UNCHANGED <<cases, decisions, audit>>
        /\ Sanctions(q) /\ Legal(q.account, q.to)
        /\ Applies(standing[q.account].row, q.generation)
    <3>1. q.at = "upsert_standing" /\ Keeps(r) /\ q.account \in Accounts
      BY <1>12, UpsertSets, WritingSteps
    <3> QED
      BY <1>1, <1>12, <3>1 DEF Counted, Steady, Acting, Applies, GenerationOf, UpsertStanding
  <2>2. /\ req'[r].at = "flush_audit" /\ req'[r].account = q.account
        /\ standing'[q.account].row = standing[q.account].row
        /\ \A b \in Accounts \ {q.account} : standing'[b] = standing[b]
    BY <1>12, <2>1, UpsertSets
  <2>3. req'[r].to = q.to
    BY <1>12, <2>2, WritingSteps
  <2>4. \A a \in Accounts : standing'[a].by = r => a = q.account
    BY <1>1, <2>1, <2>2
  <2>5. Legal(q.account, q.to) => StateOf(standing[q.account].row) = StateOf(standing'[q.account].row)
    BY <2>2
  <2>6. \E event \in AccountEvents :
            /\ StateOf(standing'[q.account].row) \in Moves[event].from
            /\ req'[r].to = Moves[event].to
    BY <2>1, <2>3, <2>5 DEF Legal
  <2>7. (\A a \in Accounts : standing[a].by = r => Legal(a, req[r].to))'
    BY <2>4, <2>6 DEF Legal
  <2>8. (\A c \in CaseIds : cases[c].by = r =>
             /\ c = req[r].case /\ cases[c].next # None
             /\ \/ cases[c].row = None /\ cases[c].next.resolution = None /\ req[r].op = "open"
                \/ /\ cases[c].next.resolution = req[r].id /\ req[r].op = "decide"
                   /\ decisions[req[r].id].by = r)'
    BY <2>1 DEF Steady, Keeps, SameRequest
  <2>9. q.op = "decide" => cases'[q.case].by = r /\ IsOpen(cases'[q.case].row)
    BY <2>1 DEF Steady, Deciding
  <2> QED
    BY <2>1, <2>2, <2>7, <2>8, <2>9 DEF Steady, Acting, Keeps, SameRequest
<1>13. CASE FlushAudit(r)
  <2>1. /\ q.at = "flush_audit" /\ Keeps(r) /\ req'[r].at = "reply" /\ req'[r].to = q.to
        /\ UNCHANGED <<cases, decisions, standing>> /\ audit' = Put(audit, q.id, r, q.to)
        /\ q.id \in DecisionIds
    BY <1>1, <1>13, WritingSteps DEF FlushAudit, At, StateAudited, HandlerOK, Deciding
  <2>2. \A d \in DecisionIds : decisions[d].by = r => d = q.id
    BY <1>1 DEF Inv, WrittenOnce
  <2>3. audit'[q.id].by = r
    BY <2>1 DEF Put, Inv, TypeOK
  <2>4. q.op = "decide" => cases[q.case].by = r /\ IsOpen(cases[q.case].row)
    BY <2>1 DEF Steady, Deciding
  <2>5. (\A a \in Accounts : standing[a].by = r => Legal(a, req[r].to))'
    BY <2>1 DEF Steady, Legal
  <2>6. (\A c \in CaseIds : cases[c].by = r =>
             /\ c = req[r].case /\ cases[c].next # None
             /\ \/ cases[c].row = None /\ cases[c].next.resolution = None /\ req[r].op = "open"
                \/ /\ cases[c].next.resolution = req[r].id /\ req[r].op = "decide"
                   /\ decisions[req[r].id].by = r)'
    BY <2>1 DEF Steady, Keeps, SameRequest
  <2> QED
    BY <2>1, <2>2, <2>3, <2>4, <2>5, <2>6 DEF Steady, Acting, Keeps, SameRequest, Deciding
<1> QED
  BY <1>2, <1>3, <1>5, <1>6, <1>7, <1>8, <1>9, <1>10, <1>11, <1>12, <1>13, Ways DEF Reads

(* What a lone request commits is whole.                                     *)
LEMMA CommitIsWhole ==
    ASSUME Inv, Tallied, NEW r \in Requests, Commits(r), Steady(r), Resolved, Audited
    PROVE  Resolved' /\ Audited'
<1> DEFINE q == req[r]
<1>1. /\ Acts(r) /\ q.at = "reply" /\ r # None /\ HandlerOK(r) /\ Counted(r)
      /\ cases' = Commit(cases, r) /\ decisions' = Commit(decisions, r)
      /\ audit' = Commit(audit, r)
  BY EnforcementNoneAssumption
     DEF Commits, At, Acts, Step, CommitRequest, Tallied, Inv
<1>2. ASSUME NEW d \in DecisionIds
      PROVE  /\ decisions[d].by # r => decisions'[d] = decisions[d] /\ audit'[d] = audit[d]
             /\ decisions[d].by = r =>
                  /\ d = q.id /\ decisions[d].row = None /\ audit[d].by = r
                  /\ decisions'[d].row = decisions[d].next /\ decisions[d].next # None
                  /\ audit'[d].row # None
                  /\ decisions[d].next.case = q.case /\ q.case \in CaseIds
                  /\ decisions[d].next.reverses = q.reverses /\ q.op \in {"decide", "reverse"}
                  /\ q.op = "decide" => cases[q.case].by = r /\ IsOpen(cases[q.case].row)
  <2>1. CASE decisions[d].by # r
    <3>1. audit[d].by # r
      BY <1>1, <2>1 DEF Inv, WrittenOnce
    <3> QED
      BY <1>1, <2>1, <3>1 DEF Commit, Inv, TypeOK
  <2>2. CASE decisions[d].by = r
    <3>1. /\ d = q.id /\ decisions[d].row = None /\ decisions[d].next # None
          /\ audit[d].by = r
          /\ q.op = "decide" => cases[q.case].by = r /\ IsOpen(cases[q.case].row)
      BY <1>1, <2>2 DEF Inv, WrittenOnce, Steady
    <3>2. /\ CaseIsRead(q) /\ q.op \in {"decide", "reverse"}
          /\ decisions[d].next.case = q.case /\ decisions[d].next.reverses = q.reverses
          /\ audit[d].next # None
      BY <1>1, <2>2, <3>1 DEF Counted
    <3>3. decisions'[d].row = decisions[d].next /\ audit'[d].row = audit[d].next
      BY <1>1, <2>2, <3>1 DEF Commit, Settled, Inv, TypeOK
    <3> QED
      BY <2>2, <3>1, <3>2, <3>3 DEF CaseIsRead
  <2> QED
    BY <2>1, <2>2
<1>3. Audited'
  BY <1>2 DEF Audited
<1>4. ASSUME NEW c \in CaseIds
      PROVE  /\ cases[c].by # r => cases'[c] = cases[c]
             /\ cases[c].by = r => cases'[c].row = cases[c].next
  BY <1>1 DEF Commit, Settled, Inv, TypeOK
<1>5. ASSUME NEW c \in CaseIds, NEW d \in DecisionIds, Taken(d, c)'
      PROVE  cases'[c].row.resolution = d
  <2>1. CASE decisions[d].by # r
    <3>1. Taken(d, c) /\ cases[c].row.resolution = d /\ cases[c].row # None
      BY <1>2, <1>5, <2>1 DEF Taken, Resolved, Tallied, Filed
    <3>2. cases[c].by # r
      <4> SUFFICES ASSUME cases[c].by = r PROVE FALSE
        OBVIOUS
      <4>1. c = q.case /\ q.op = "decide" /\ decisions[q.id].by = r
        BY <3>1 DEF Steady
      <4>2. q.id \in DecisionIds
        BY <1>1, <4>1 DEF HandlerOK
      <4>3. cases[c].row.resolution = None
        BY <1>2, <4>1, <4>2 DEF IsOpen
      <4> QED
        BY <3>1, <4>3, EnforcementNoneAssumption
    <3> QED
      BY <1>4, <3>1, <3>2
  <2>2. CASE decisions[d].by = r
    <3>1. d = q.id /\ q.case = c /\ q.reverses = None /\ q.op \in {"decide", "reverse"}
      BY <1>2, <1>5, <2>2 DEF Taken
    <3>2. q.op = "decide"
      BY <1>1, <3>1, EnforcementNoneAssumption DEF HandlerOK
    <3>3. cases[c].by = r
      BY <1>2, <2>2, <3>1, <3>2
    <3>4. cases[c].next.resolution = q.id
      BY <3>2, <3>3 DEF Steady
    <3> QED
      BY <1>4, <3>1, <3>3, <3>4
  <2> QED
    BY <2>1, <2>2
<1>6. ASSUME NEW c \in CaseIds, cases'[c].row # None, cases'[c].row.resolution # None
      PROVE  \E d \in DecisionIds : cases'[c].row.resolution = d /\ Taken(d, c)'
  <2>1. CASE cases[c].by # r
    <3>1. cases'[c] = cases[c]
      BY <1>4, <2>1
    <3>2. PICK d \in DecisionIds : cases[c].row.resolution = d /\ Taken(d, c)
      BY <1>6, <3>1 DEF Resolved
    <3>3. decisions'[d] = decisions[d]
      BY <1>2, <3>2 DEF Taken
    <3>4. cases'[c].row.resolution = d /\ Taken(d, c)'
      BY <3>1, <3>2, <3>3 DEF Taken
    <3> QED
      BY <3>4
  <2>2. CASE cases[c].by = r
    <3>1. /\ cases'[c].row = cases[c].next /\ c = q.case
          /\ cases[c].next.resolution = q.id /\ q.op = "decide" /\ decisions[q.id].by = r
      BY <1>4, <1>6, <2>2 DEF Steady
    <3>2. q.id \in DecisionIds /\ q.reverses = None
      BY <1>1, <3>1 DEF HandlerOK
    <3>3. /\ decisions'[q.id].row # None /\ decisions'[q.id].row.case = c
          /\ decisions'[q.id].row.reverses = None
      BY <1>2, <3>1, <3>2
    <3>4. PICK d \in DecisionIds : d = q.id
      BY <3>2
    <3>5. cases'[c].row.resolution = d /\ Taken(d, c)'
      BY <3>1, <3>3, <3>4 DEF Taken
    <3> QED
      BY <3>5
  <2> QED
    BY <2>1, <2>2
<1> QED
  BY <1>3, <1>5, <1>6 DEF Resolved

LEMMA SerialStep ==
    ASSUME Inv, Tallied, Serial, [MCNext]_MCVars
    PROVE  Serial'
<1>0. Inv'
  <2>1. [Next]_vars
    BY DEF MCNext, MCVars
  <2> QED
    BY <2>1, InvStep
<1>1. ASSUME NEW r \in Requests, Acts(r),
             overlapped' = (overlapped \/ Cardinality(Busy') > 1)
      PROVE  Serial'
  <2>1. /\ overlapped' \in BOOLEAN /\ IsFiniteSet(Busy')
        /\ ~overlapped' => ~overlapped /\ Alone' /\
                           \A p \in Requests \ {r} : req'[p].at = "idle" /\ req[p].at = "idle"
    BY <1>1, OneBusy
  <2>2. ASSUME ~overlapped'
        PROVE  Resolved' /\ Audited'
    <3>1. Resolved /\ Audited /\ Steady(r)
      BY <2>1, <2>2 DEF Serial
    <3>2. CASE Commits(r)
      BY <3>1, <3>2, CommitIsWhole
    <3>3. CASE ~Commits(r)
      <4>1. /\ \A d \in DecisionIds : /\ decisions'[d].row = decisions[d].row
                                      /\ audit'[d].row = audit[d].row
            /\ \A c \in CaseIds : cases'[c].row = cases[c].row
        BY <1>1, <3>3, RowsCommitted
      <4> QED
        BY <3>1, <4>1 DEF Resolved, Audited, Taken
    <3> QED
      BY <3>2, <3>3
  <2>3. ASSUME ~overlapped', NEW p \in Requests
        PROVE  Steady(p)'
    <3>1. CASE p = r
      BY <1>0, <1>1, <2>1, <2>3, <3>1, OwnSteady DEF Serial
    <3>2. CASE p # r
      BY <1>0, <2>1, <2>3, <3>2, FreshIsSteady DEF Inv, Reading
    <3> QED
      BY <3>1, <3>2
  <2> QED
    BY <2>1, <2>2, <2>3 DEF Serial
<1>2. CASE UNCHANGED MCVars
  BY <1>2 DEF MCVars, vars, Serial, Busy, At, Alone, Resolved, Audited, Taken, Steady, Legal,
     Sanctions
<1> QED
  BY <1>1, <1>2 DEF MCNext, Next, Acts

LEMMA SerialInit == MCInit => Serial
<1> SUFFICES ASSUME MCInit PROVE Serial
  OBVIOUS
<1>1. /\ Inv /\ ~overlapped /\ overlapped \in BOOLEAN
      /\ \A r \in Requests : req[r] = Idle
      /\ \A d \in DecisionIds : decisions[d].row = None
      /\ \A c \in CaseIds : cases[c].row = None
  BY InitInv DEF MCInit, Init, Settled
<1>2. Busy = {} /\ Alone
  BY <1>1, IdleType DEF Busy, Alone, At
<1>3. IsFiniteSet(Busy)
  BY <1>2, FS_EmptySet
<1>4. \A r \in Requests : Steady(r)
  <2>1. \A r \in Requests : HoldsNothing(r) /\ req[r].at = "idle"
    BY <1>1, IdleType DEF Inv, Reading
  <2> QED
    BY <2>1 DEF HoldsNothing, Steady, Acting, Deciding
<1>5. Resolved /\ Audited
  BY <1>1 DEF Resolved, Audited, Taken
<1> QED
  BY <1>1, <1>2, <1>3, <1>4, <1>5 DEF Serial

LEMMA SerialAlways == MCSpec => [](Inv /\ Tallied /\ Serial)
<1>1. MCInit => Inv /\ Tallied /\ Serial
  BY InitInv, InitTallied, SerialInit DEF MCInit
<1>2. Inv /\ Tallied /\ Serial /\ [MCNext]_MCVars => (Inv /\ Tallied /\ Serial)'
  <2>1. [MCNext]_MCVars => [Next]_vars
    BY DEF MCNext, MCVars
  <2> QED
    BY <2>1, InvStep, TalliedStep, SerialStep
<1> QED
  BY <1>1, <1>2, PTL DEF MCSpec

(* With one moderator at a time, for any number of cases and decisions: a    *)
(* decision that commits has its audit rows, it is the only one of its case, *)
(* and the case is resolved by it.  Everything routes/moderation.ts says of  *)
(* the record holds then, so whatever breaks it is the overlap.              *)
THEOREM RecordIsWholeAlone == MCSpec => []SerialRecordIsWhole
<1>1. Inv /\ Tallied /\ Serial => SerialRecordIsWhole
  <2> SUFFICES ASSUME Inv, Tallied, Resolved, Audited
               PROVE  DecisionIsAudited /\ OneDecisionPerCase /\ ResolvedByDecision
    BY DEF Serial, SerialRecordIsWhole
  <2>1. /\ \A d \in DecisionIds : /\ Decision[d] = decisions[d].row
                                  /\ AuditedState[d] = audit[d].row
        /\ \A c \in CaseIds : CaseOf[c] = cases[c].row
    BY DEF Inv, TypeOK, Decision, AuditedState, CaseOf, Stored
  <2>2. \A d \in DecisionIds : decisions[d].row # None => decisions[d].row.case \in CaseIds
    BY DEF Inv, TypeOK, Versions, DecisionRow
  <2>3. DecisionIsAudited
    BY <2>1 DEF DecisionIsAudited, Recorded, Audited
  <2>4. OneDecisionPerCase
    <3> SUFFICES ASSUME NEW d \in DecisionIds, NEW e \in DecisionIds,
                        Recorded(d), Recorded(e), Decision[d].case = Decision[e].case,
                        Decision[d].reverses = None, Decision[e].reverses = None
                 PROVE  d = e
      BY DEF OneDecisionPerCase
    <3> DEFINE c == decisions[d].row.case
    <3>1. Taken(d, c) /\ Taken(e, c) /\ c \in CaseIds
      BY <2>1, <2>2 DEF Taken, Recorded
    <3> QED
      BY <3>1 DEF Resolved
  <2>5. ASSUME NEW c \in CaseIds, NEW d \in DecisionIds
        PROVE  Taken(d, c) <=> /\ Recorded(d) /\ Decision[d].case = c
                               /\ Decision[d].reverses = None
    BY <2>1 DEF Taken, Recorded
  <2>6. ASSUME NEW c \in CaseIds, NEW d \in DecisionIds, Taken(d, c)
        PROVE  CaseOf[c].resolution # None
    BY <2>1, <2>6, EnforcementNoneAssumption DEF Resolved
  <2>7. ASSUME NEW c \in CaseIds, CaseOf[c] # None, CaseOf[c].resolution # None
        PROVE  CaseOf[c].resolution \in DecisionIds /\ Taken(CaseOf[c].resolution, c)
    BY <2>1, <2>7 DEF Resolved
  <2>8. ResolvedByDecision
    BY <2>5, <2>6, <2>7 DEF ResolvedByDecision
  <2> QED
    BY <2>3, <2>4, <2>8
<1> QED
  BY <1>1, SerialAlways, PTL

LEMMA StateRows ==
    /\ TypeOK => State = [a \in Accounts |-> StateOf(standing[a].row)]
    /\ TypeOK' => State' = [a \in Accounts |-> StateOf(standing'[a].row)]
<1>1. TypeOK => \A a \in Accounts : Standing[a] = standing[a].row
  BY DEF Standing, Stored, TypeOK
<1>2. TypeOK' => \A a \in Accounts : Standing'[a] = standing'[a].row
  BY DEF Standing, Stored, TypeOK
<1> QED
  BY <1>1, <1>2 DEF State

(* With one moderator at a time, an account moves by an event the account    *)
(* machine of the kernel allows it, and by nothing else: the routes          *)
(* implement AccountStanding.                                                *)
THEOREM FollowsMachineAlone == MCSpec => SerialFollowsMachine
<1>1. MCInit => Promise!Init
  <2> SUFFICES ASSUME MCInit PROVE Promise!Init
    OBVIOUS
  <2>1. State = [a \in Accounts |-> StateOf(standing[a].row)]
    BY InitInv, StateRows DEF MCInit, Inv
  <2>2. \A a \in Accounts : StateOf(standing[a].row) \in {"active", "suspended"}
    <3>1. \A a \in Accounts : standing[a].row \in {None, ReentryHold}
      BY DEF MCInit, Init, Settled
    <3> QED
      BY <3>1, HoldRow DEF StateOf
  <2> QED
    BY <2>1, <2>2 DEF Promise!Init
<1>2. ASSUME Inv, Tallied, Serial, [MCNext]_MCVars, ~overlapped'
      PROVE  [Promise!Next]_State
  <2>0. Inv'
    <3>1. [Next]_vars
      BY <1>2 DEF MCNext, MCVars
    <3> QED
      BY <1>2, <3>1, InvStep
  <2>1. /\ State = [a \in Accounts |-> StateOf(standing[a].row)]
        /\ State' = [a \in Accounts |-> StateOf(standing'[a].row)]
    BY <1>2, <2>0, StateRows DEF Inv
  <2>2. CASE UNCHANGED MCVars
    BY <2>1, <2>2 DEF MCVars, vars
  <2>3. ASSUME NEW r \in Requests, Acts(r),
               overlapped' = (overlapped \/ Cardinality(Busy') > 1)
        PROVE  [Promise!Next]_State
    <3>1. Steady(r)
      BY <1>2, <2>3, OneBusy DEF Serial
    <3>2. CASE \A a \in Accounts : standing'[a].row = standing[a].row
      BY <2>1, <3>2
    <3>3. ASSUME NEW a \in Accounts, standing'[a].row # standing[a].row
          PROVE  Promise!Next
      <4>1. standing[a].by = r /\ Commits(r) /\ standing'[a].row = standing[a].next
        BY <1>2, <2>3, <3>3, HoldWasHeld
      <4>2. /\ req[r].account = a /\ standing[a].next # None
            /\ standing[a].next.state = req[r].to
        BY <1>2, <4>1 DEF Inv, StandingsExplained, WillBeExplained
      <4>3. PICK event \in AccountEvents :
              /\ StateOf(standing[a].row) \in Moves[event].from /\ req[r].to = Moves[event].to
        BY <3>1, <4>1 DEF Steady, Legal
      <4>4. StateOf(standing'[a].row) = Moves[event].to
        BY <4>1, <4>2, <4>3 DEF StateOf
      <4>5. ASSUME NEW b \in Accounts \ {a}
            PROVE  standing'[b].row = standing[b].row
        <5>1. standing[b].by # r
          BY <1>2, <4>2 DEF Inv, StandingsExplained, WillBeExplained
        <5> QED
          BY <1>2, <2>3, <5>1, HoldWasHeld
      <4>6. State' = [State EXCEPT ![a] = Moves[event].to]
        BY <2>1, <4>4, <4>5
      <4>7. State[a] \in Moves[event].from
        BY <2>1, <4>3
      <4> QED
        BY <4>6, <4>7 DEF Promise!Next, Promise!Apply, Promise!Moves, Promise!Move,
           Promise!AccountEvents, Moves, Move, AccountEvents
    <3> QED
      BY <3>2, <3>3
  <2> QED
    BY <1>2, <2>2, <2>3 DEF MCNext, Next, Acts
<1>3. Inv /\ Tallied /\ Serial /\ [MCNext]_MCVars =>
        [~overlapped' => [Promise!Next]_State]_MCVars
  BY <1>2
<1> QED
  BY <1>1, <1>3, SerialAlways, PTL DEF MCSpec, SerialFollowsMachine
=============================================================================
