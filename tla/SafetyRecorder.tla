-------------------------- MODULE SafetyRecorder ----------------------------
(***************************************************************************)
(* The safety recorder of the service: what it does with a behaviour a     *)
(* route observed, inside that route's transaction.  The signals and the   *)
(* assessments are tables; what was observed, the ledgers that corroborate *)
(* and the campaigns already opened are the memory of the process, which   *)
(* no rollback touches and a restart empties.                              *)
(*                                                                         *)
(* An action runs from one await to the next, but for the work between two *)
(* folds, which it cuts in two.                                            *)
(***************************************************************************)
EXTENDS Sequences, RiskRules

CONSTANTS
    Users,
    Behaviours,         \* what the routes may observe: [kind, by, of]
    Instants,           \* the hours at which anything happens
    Requests,           \* requests in flight at once; slots are reused
    Paired,             \* whether the deployment has a pairing secret
    ClusterSize,        \* MASS_REPORT_CLUSTER_SIZE
    MaxFoldAttempts,    \* MAX_FOLD_ATTEMPTS
    Capacity,           \* SIGNAL_LEDGER_CAPACITY, and the rows a replay reads
    SignalsPerRun,      \* MAX_SIGNALS_PER_RUN
    MaxObserved,        \* bound: behaviours observed in all, fewer than a seam holds
    MaxRestarts,        \* bound: restarts of the process
    None                \* SQL NULL: no such row

ObservedKinds == {"like", "message_burst", "unmatch", "report"}

ASSUME BehavioursAssumption ==
    \A b \in Behaviours : /\ b.kind \in ObservedKinds /\ {b.by, b.of} \subseteq Users
                          /\ b.kind \in {"unmatch", "report"} => b.by # b.of
ASSUME InstantsAssumption == Instants \subseteq Nat /\ Paired \in BOOLEAN
ASSUME BoundsAssumption == {MaxFoldAttempts, Capacity, SignalsPerRun} \subseteq Nat \ {0}
ASSUME ClusterAssumption == IsFiniteSet(Users) /\ ClusterSize \in Nat

VARIABLES
    assessments,    \* app.risk_assessments by subject_id
    signals,        \* app.risk_signals: the committed rows about each subject
    cases,          \* mass_report_campaign cases committed, by target and reporter
    memory,         \* the recorder's own: observed, ledger, seeded, opened
    req,            \* each request inside observe()
    clock,          \* the time of day
    past            \* history: observed, restarts, unfolded, lost, broken, late, missed

vars == <<assessments, signals, cases, memory, req, past, clock>>

INSTANCE RowVersions WITH Nobody <- None

Assessment == Stored(assessments)

-----------------------------------------------------------------------------
(* Signals, rows and requests *)

(* With a pairing secret the recorder runs the paired detector as well.      *)
Catalogue == IF Paired THEN PairedDetectors ELSE SAFETY_DETECTORS

(* A conversation and a match are named by the counterpart.                  *)
Signal(detector, subject, actor, entity, at) ==
    [detector |-> detector, kind |-> PairedDetectors[detector].kind, subject |-> subject,
     actor |-> actor, entity |-> entity, at |-> at]

(* What the seam may hold.  The pairing of a report is what moderation       *)
(* publishes of a report about one the reporter was matched with.            *)
Observation(kind, by, of, at) == [kind |-> kind, by |-> by, of |-> of, at |-> at]
Observations == {Observation(b.kind, b.by, b.of, t) : b \in Behaviours, t \in Instants}
                \cup {Observation("pairing", b.by, b.of, t) :
                          b \in {x \in Behaviours : x.kind = "report"}, t \in Instants}

(* The signals the detectors draw from what was observed about a subject in  *)
(* the last seven days: all of it, each time, whether or not they drew them  *)
(* before, but no more than a run may emit.                                  *)
WIDE_WINDOW_HOURS == 168
First(found) == {i \in found : Cardinality({j \in found : j <= i}) <= SignalsPerRun}

DetectedOf(s, observed, now) ==
    LET held(kind) == {i \in DOMAIN observed : /\ observed[i].kind = kind
                                               /\ observed[i].at >= now - WIDE_WINDOW_HOURS}
        of(kind) == {i \in held(kind) : observed[i].of = s /\ observed[i].by # s}
        bursts == {i \in held("message_burst") : observed[i].by = s}
        paired == {i \in of("pairing") : \E j \in of("unmatch") :
                       observed[j].by = observed[i].by /\ observed[j].at <= observed[i].at}
    IN  {Signal("message_burst", s, s, observed[i].of, now) :
            i \in {j \in bursts : \A k \in bursts : j <= k}}
        \cup {Signal("unmatch_by_counterparty", s, s, observed[i].by, observed[i].at) :
                 i \in First(of("unmatch"))}
        \cup {Signal("report_against", s, observed[i].by, s, observed[i].at) :
                 i \in First(of("report"))}
        \cup {Signal("unmatch_report", s, s, observed[i].by, observed[i].at) :
                 i \in {j \in First(paired) : Paired}}

AllSignals ==
    LET by(kind) == {b \in Behaviours : b.kind = kind}
    IN  {Signal("message_burst", b.by, b.by, b.of, t) : b \in by("message_burst"), t \in Instants}
        \cup {Signal("unmatch_by_counterparty", b.of, b.of, b.by, t) :
                 b \in by("unmatch"), t \in Instants}
        \cup {Signal("report_against", b.of, b.by, b.of, t) : b \in by("report"), t \in Instants}
        \cup {Signal("unmatch_report", b.of, b.of, b.by, t) :
                 b \in {x \in by("report") : Paired}, t \in Instants}
Ledgers == [AllSignals -> Nat]
NoSignals == [x \in AllSignals |-> 0]
Plus(ledger, signal) == [ledger EXCEPT ![signal] = @ + 1]

(* The newest of the signals that n counts, as many as a ledger holds: by    *)
(* instant, and at one instant by rank.  Among those of one instant and one  *)
(* rank the cut falls anywhere.                                              *)
Newest(n, rank) ==
    LET newer(y, x) == \/ y.at > x.at
                       \/ y.at = x.at /\ rank[y.detector] > rank[x.detector]
        ahead(x) == Copies(n, {y \in AllSignals : newer(y, x)})
        level(x) == Copies(n, {y \in AllSignals : ~newer(x, y)})
        cut == {x \in AllSignals : ahead(x) < Capacity /\ Capacity < level(x)}
        kept(some) == [x \in AllSignals |-> CASE x \in cut -> some[x]
                                               [] x \notin cut /\ ahead(x) < Capacity -> n[x]
                                               [] OTHER -> 0]
    IN  IF Copies(n, AllSignals) <= Capacity THEN {n}
        ELSE {kept(some) : some \in {f \in [cut -> 0..Capacity] : \A x \in cut :
                                        f[x] <= n[x] /\ Copies(f, cut) = Capacity - ahead(x)}}

(* The ledger is sorted by time and detector and drops from its front; the   *)
(* query for a replay reads the latest first and takes the detectors of one  *)
(* instant the other way round.                                              *)
LedgerRank == [unmatch_by_counterparty |-> 1, unmatch_report |-> 2, report_against |-> 3,
               message_burst |-> 4]
RowRank == [d \in DOMAIN LedgerRank |-> 5 - LedgerRank[d]]
AppendSignal(ledger, signal) == Newest(Plus(ledger, signal), LedgerRank)
AsBag(ledger) == [x \in {y \in AllSignals : ledger[y] > 0} |-> ledger[x]]

EvaluatedSubjects(b) ==
    CASE b.kind \in {"like", "message_burst"} -> <<b.by>>
      [] b.kind = "unmatch" -> <<b.by, b.of>>
      [] b.kind = "report" -> <<b.of, b.by>>

AssessmentRow == [state : RiskStates, detectors : SUBSET DOMAIN Catalogue, generation : Nat]
ASSUME NullAssumption == None \notin Requests \cup AssessmentRow
EmptyRiskRecord == [state |-> "normal", detectors |-> {}, generation |-> 0]

Places == {"idle", "evaluate", "seed", "seeded", "fold", "upsert", "raise", "mark", "reply"}

RequestState ==
    [at : Places, todo : Seq(Users), pending : SUBSET AllSignals,
     signal : AllSignals \cup {None}, ledger : Ledgers, attempt : 0..MaxFoldAttempts,
     was : AssessmentRow \cup {None}, members : SUBSET Users, offered : Users \cup {None},
     logged : Ledgers, raised : SUBSET (Users \X Users), gaveUp : SUBSET AllSignals]

Idle == [at |-> "idle", todo |-> <<>>, pending |-> {}, signal |-> None,
         ledger |-> NoSignals, attempt |-> 0, was |-> None, members |-> {}, offered |-> None,
         logged |-> NoSignals, raised |-> {}, gaveUp |-> {}]

At(r, place) == req[r].at = place
Subject(r) == Head(req[r].todo)

EmptyMemory == [observed |-> <<>>, ledger |-> [u \in Users |-> NoSignals],
                seeded |-> {}, opened |-> {}]

-----------------------------------------------------------------------------
(* observe: the transport publishes, then each subject is evaluated.         *)

(* The seam listens to the recorder's own transport.  The pairing of a       *)
(* report is published on the stream of the service, which the seam never    *)
(* subscribes to.                                                            *)
Delivered_Stream(b, t) ==           \* mutant: the seam hears the service's stream
    IF b.kind = "like" THEN <<>>
    ELSE IF b.kind # "report" THEN <<Observation(b.kind, b.by, b.of, t)>>
    ELSE <<Observation("pairing", b.by, b.of, t), Observation(b.kind, b.by, b.of, t)>>
Delivered(b, t) == IF b.kind = "like" THEN <<>> ELSE <<Observation(b.kind, b.by, b.of, t)>>

(* A behaviour is of the time its request began, which may be past when it   *)
(* is observed; nobody does the same to the same person twice at one         *)
(* instant.  Likes are too few to be a burst, and no other detector reads    *)
(* them.                                                                     *)
ObservedLater(u, t) == \E i \in DOMAIN memory.observed :
    memory.observed[i].kind = "report" /\ memory.observed[i].of = u /\ memory.observed[i].at > t

Observe(r, b) ==
    /\ At(r, "idle") /\ past.observed < MaxObserved
    /\ \E t \in Instants :
          /\ t <= clock
          /\ \A i \in DOMAIN memory.observed :
                 memory.observed[i] # Observation(b.kind, b.by, b.of, t)
          /\ memory' = [memory EXCEPT !.observed = @ \o Delivered(b, t)]
          /\ past' = [past EXCEPT
                         !.observed = @ + 1,
                         !.late = @ \cup {u \in {b.of} : b.kind = "report" /\ ObservedLater(u, t)}]
    /\ req' = [req EXCEPT ![r].todo = EvaluatedSubjects(b), ![r].at = "evaluate"]
    /\ UNCHANGED <<assessments, signals, cases, clock>>

(* detect, on what the process has observed so far.                          *)
Detect(r) == req' = [req EXCEPT
    ![r].pending = DetectedOf(Subject(r), memory.observed, clock),
    ![r].ledger = NoSignals, ![r].at = "fold"]

(* seedLedger: a subject counts as seeded before its rows are read.          *)
Evaluate(r) ==
    /\ At(r, "evaluate")
    /\ \/ /\ req[r].todo = <<>>
          /\ req' = [req EXCEPT ![r].at = "reply"]
          /\ UNCHANGED memory
       \/ /\ req[r].todo # <<>> /\ Subject(r) \in memory.seeded
          /\ Detect(r)
          /\ UNCHANGED memory
       \/ /\ req[r].todo # <<>> /\ Subject(r) \notin memory.seeded
          /\ memory' = [memory EXCEPT !.seeded = @ \cup {Subject(r)}]
          /\ req' = [req EXCEPT ![r].at = "seed"]
    /\ UNCHANGED <<assessments, signals, cases, past, clock>>

FindSignalsFor(r) ==
    /\ At(r, "seed")
    /\ \E rows \in Newest([x \in AllSignals |-> IF x.subject = Subject(r)
                                                  THEN signals[x] + req[r].logged[x] ELSE 0],
                           RowRank) :
          req' = [req EXCEPT ![r].ledger = rows, ![r].at = "seeded"]
    /\ UNCHANGED <<assessments, signals, cases, memory, past, clock>>

(* The replayed ledger replaces whatever was folded meanwhile.               *)
SeedLedger(r) ==
    /\ At(r, "seeded")
    /\ memory' = [memory EXCEPT !.ledger[Subject(r)] = req[r].ledger]
    /\ Detect(r)
    /\ UNCHANGED <<assessments, signals, cases, past, clock>>

-----------------------------------------------------------------------------
(* foldSignal: the ledger is read once, the assessment before every attempt, *)
(* and the signal is stored on the first.                                    *)

(* The catalogue runs in order, and each detector through what was observed  *)
(* in the order it was observed.                                             *)
CatalogueOrder == [message_burst |-> 1, unmatch_by_counterparty |-> 2, report_against |-> 3,
                   unmatch_report |-> 4]
Arrived(x) == {i \in DOMAIN memory.observed : x \in DetectedOf(x.subject, <<memory.observed[i]>>, x.at)}
FirstOf(found) ==
    {x \in found : \A y \in found :
        \/ CatalogueOrder[x.detector] < CatalogueOrder[y.detector]
        \/ x.detector = y.detector /\ \A j \in Arrived(y) : \E i \in Arrived(x) : i <= j}

FoldNext(r) ==
    /\ At(r, "fold")
    /\ IF req[r].pending = {}
       THEN req' = [req EXCEPT ![r].todo = Tail(@), ![r].ledger = NoSignals,
                               ![r].signal = None, ![r].was = None, ![r].attempt = 0,
                               ![r].at = "evaluate"]
       ELSE \E x \in FirstOf(req[r].pending) :
                req' = [req EXCEPT ![r].pending = @ \ {x}, ![r].signal = x,
                                   ![r].ledger = memory.ledger[Subject(r)],
                                   ![r].was = Seen(assessments, r)[Subject(r)],
                                   ![r].attempt = 1, ![r].logged = Plus(@, x),
                                   ![r].at = "upsert"]
    /\ UNCHANGED <<assessments, signals, cases, memory, past, clock>>

(* applySignal on the record that was read.                                  *)
ApplySignal(was, signal, ledger) ==
    LET record == IF was = None THEN EmptyRiskRecord ELSE was
    IN  [state |-> AssessSignal(record.state, Catalogue, signal, AsBag(ledger)),
         detectors |-> IF signal.kind = "report_against" THEN record.detectors
                       ELSE record.detectors \cup {signal.detector},
         generation |-> record.generation + 1]

(* A row that was not there may only be inserted, and one that was there     *)
(* only be replaced at the generation that was read.                         *)
MayUpsert_Blind(row, was) == TRUE       \* mutant: last write wins
MayUpsert(row, was) == IF was = None THEN row = None
                       ELSE row # None /\ row.generation = was.generation

UpsertAssessment(r) ==
    /\ At(r, "upsert") /\ FreeFor(assessments, Subject(r), r)
    /\ LET s == Subject(r)
           row == Seen(assessments, r)[s]
           signal == req[r].signal
           cluster == MassReport(AsBag(req[r].ledger), signal, ClusterSize)
       IN  \/ /\ MayUpsert(row, req[r].was)
              /\ assessments' = Put(assessments, s, r,
                                    ApplySignal(req[r].was, signal, req[r].ledger))
              /\ \E ledger \in AppendSignal(req[r].ledger, signal) :
                    /\ memory' = [memory EXCEPT !.ledger[s] = ledger]
                    /\ past' = [past EXCEPT !.missed = @ \cup
                           {x \in AllSignals : /\ x.kind = "report_against"
                                              /\ ledger[x] < Plus(req[r].ledger, signal)[x]}]
              /\ req' = [req EXCEPT ![r].members = cluster, ![r].at = "raise"]
           \/ /\ ~MayUpsert(row, req[r].was)
              /\ req' = [req EXCEPT
                            ![r].was = row,
                            ![r].attempt = AtMost(@ + 1, MaxFoldAttempts),
                            ![r].gaveUp = @ \cup {x \in {signal} :
                                                     req[r].attempt = MaxFoldAttempts},
                            ![r].at = IF req[r].attempt = MaxFoldAttempts
                                      THEN "fold" ELSE "upsert"]
              /\ UNCHANGED <<assessments, memory, past>>
    /\ UNCHANGED <<signals, cases, clock>>

(* raiseCampaignCases: a case about each reporter this process has not yet   *)
(* opened one about, and a note of it once the case is written.              *)
Unopened(r) == {u \in req[r].members : <<Subject(r), u>> \notin memory.opened}

InsertCase(r) ==
    /\ At(r, "raise")
    /\ IF Unopened(r) = {}
       THEN req' = [req EXCEPT ![r].members = {}, ![r].at = "fold"]
       ELSE LET u == CHOOSE x \in Unopened(r) : TRUE
            IN  req' = [req EXCEPT ![r].raised = @ \cup {<<Subject(r), u>>},
                                   ![r].members = @ \ {u}, ![r].offered = u,
                                   ![r].at = "mark"]
    /\ UNCHANGED <<assessments, signals, cases, memory, past, clock>>

MarkOpened(r) ==
    /\ At(r, "mark")
    /\ memory' = [memory EXCEPT !.opened = @ \cup {<<Subject(r), req[r].offered>>}]
    /\ req' = [req EXCEPT ![r].offered = None, ![r].at = "raise"]
    /\ UNCHANGED <<assessments, signals, cases, past, clock>>

-----------------------------------------------------------------------------
(* The end of a request.  A statement that fails takes the route's whole     *)
(* transaction with it, and what the memory took in stays there.             *)

Evaluating(r) == {req[r].todo[i] : i \in DOMAIN req[r].todo}
                 \cup {x.subject : x \in {y \in AllSignals : req[r].logged[y] > 0}}

CommitRequest(r) ==
    /\ At(r, "reply")
    /\ assessments' = Commit(assessments, r)
    /\ signals' = [x \in AllSignals |-> signals[x] + req[r].logged[x]]
    /\ cases' = [p \in Users \X Users |-> IF p \in req[r].raised THEN cases[p] + 1 ELSE cases[p]]
    /\ past' = [past EXCEPT !.unfolded = @ \cup req[r].gaveUp]
    /\ req' = [req EXCEPT ![r] = Idle]
    /\ UNCHANGED <<memory, clock>>

Fail(r) ==
    /\ ~At(r, "idle")
    /\ assessments' = Rollback(assessments, r)
    /\ memory' = IF At(r, "seed") THEN [memory EXCEPT !.seeded = @ \ {Subject(r)}] ELSE memory
    /\ past' = [past EXCEPT !.broken = @ \cup Evaluating(r),
                            !.lost = @ \cup {x \in AllSignals : /\ x.kind # "report_against"
                                                                 /\ req[r].logged[x] > 0}]
    /\ req' = [req EXCEPT ![r] = Idle]
    /\ UNCHANGED <<signals, cases, clock>>

Restart ==
    /\ past.restarts < MaxRestarts
    /\ assessments' = [u \in Users |-> Settled(assessments[u].row)]
    /\ memory' = EmptyMemory
    /\ past' = [past EXCEPT !.restarts = @ + 1,
                            !.broken = {x.subject : x \in {y \in AllSignals : signals[y] > 0}}]
    /\ req' = [r \in Requests |-> Idle]
    /\ UNCHANGED <<signals, cases, clock>>

-----------------------------------------------------------------------------
Init ==
    /\ assessments = [u \in Users |-> Settled(None)]
    /\ signals = NoSignals
    /\ cases = [p \in Users \X Users |-> 0]
    /\ memory = EmptyMemory
    /\ req = [r \in Requests |-> Idle]
    /\ clock \in Instants /\ \A t \in Instants : clock <= t
    /\ past = [observed |-> 0, restarts |-> 0, unfolded |-> {}, lost |-> {}, broken |-> {},
               late |-> {}, missed |-> {}]

Handle(r) == \/ \E b \in Behaviours : Observe(r, b)
             \/ Evaluate(r) \/ FindSignalsFor(r) \/ SeedLedger(r) \/ FoldNext(r)
             \/ UpsertAssessment(r) \/ InsertCase(r) \/ MarkOpened(r)

Tick ==
    /\ \E t \in Instants : t > clock /\ clock' = t
    /\ UNCHANGED <<assessments, signals, cases, memory, req, past>>

Next == \/ \E r \in Requests : Handle(r) \/ CommitRequest(r) \/ Fail(r)
        \/ Restart \/ Tick

Spec == Init /\ [][Next]_vars

-----------------------------------------------------------------------------
(* Properties *)

TypeOK ==
    /\ assessments \in [Users -> Versions(AssessmentRow \cup {None}, Requests)]
    /\ signals \in Ledgers
    /\ cases \in [Users \X Users -> Nat]
    /\ memory \in [observed : Seq(Observations), ledger : [Users -> Ledgers],
                   seeded : SUBSET Users, opened : SUBSET (Users \X Users)]
    /\ req \in [Requests -> RequestState]
    /\ past \in [observed : Nat, restarts : Nat, unfolded : SUBSET AllSignals,
                 lost : SUBSET AllSignals, broken : SUBSET Users, late : SUBSET Users,
                 missed : SUBSET AllSignals]
    /\ clock \in Instants

Recorded(u) == {x \in AllSignals : x.subject = u /\ signals[x] > 0}

(* Nobody is at risk on one detector's word, however often it speaks, nor on *)
(* what others report of them: behind an assessment that rose are signals of *)
(* two detectors, neither of them the report pattern.  One at least is       *)
(* stored; the other was, or was drawn by a request that failed: the ledger  *)
(* keeps what a rollback took from the table, and another request may count  *)
(* it as corroboration.                                                      *)
Heard(u) == Recorded(u) \cup {x \in past.lost : x.subject = u}
RiskIsCorroborated ==
    \A u \in Users :
        Assessment[u] # None /\ Assessment[u].state # "normal" =>
            /\ Cardinality({x.detector : x \in Heard(u)} \ {"report_against"}) >= 2
            /\ {x.detector : x \in Recorded(u)} \ {"report_against"} # {}

(* No signal is lost between two requests that fold at once: whatever was    *)
(* stored is in the assessment, unless its request gave up after its last    *)
(* attempt and said so.                                                      *)
SignalsAreFolded ==
    \A u \in Users : \A x \in Recorded(u) \ past.unfolded :
        /\ Assessment[u] # None
        /\ x.kind = "report_against" \/ x.detector \in Assessment[u].detectors

(* Once the reports that make a campaign of one of them are stored, those    *)
(* of the week before it, and no request is still evaluating their subject,  *)
(* each of their reporters is in front of a moderator.  Excused are a report *)
(* observed before an earlier one was, which its window leaves out, one a    *)
(* full ledger dropped or a fold gave up, and what a rollback or a restart   *)
(* took from memory.                                                         *)
CampaignIsCased ==
    \A u \in Users \ (past.broken \cup past.late) :
        LET reports == {x \in Recorded(u) : x.kind = "report_against"}
        IN  \A x \in reports :
                LET campaign == {y \in reports : Within(y, x, CORROBORATION_WINDOW_HOURS)}
                IN  /\ Cardinality({y.actor : y \in campaign}) >= ClusterSize
                    /\ campaign \cap (past.unfolded \cup past.missed) = {}
                    /\ \A r \in Requests : u \notin Evaluating(r)
                    => \A y \in campaign : cases[<<u, y.actor>>] > 0

(* Nobody is taken past elevated, in a deployment with a pairing secret      *)
(* either.  The paired detector could do it, but what it joins is published  *)
(* where the seam does not listen, so what is learnt never reaches the       *)
(* moderators by itself.                                                     *)
StaysBelowHigh ==
    \A u \in Users : Assessment[u] # None => Assessment[u].state \in {"normal", "elevated"}

=============================================================================
