----------------------------- MODULE RiskProofs ------------------------------
(***************************************************************************)
(* What the risk rules make of any signal, for every score, every number   *)
(* of detectors that agree and every number of repetitions; and what the   *)
(* safety recorder makes of the signals it draws, for every number of      *)
(* people, of behaviours and of requests that fold at once.                *)
(*                                                                         *)
(* Three invariants carry the recorder: Low, that nothing of a pairing is  *)
(* ever drawn and no row a request may still commit is above elevated;     *)
(* AllFolded, that every signal a request stored is in the row it holds,   *)
(* about to be folded or given up; and Grounded, that every ledger         *)
(* accounts for the signals that corroborate.                              *)
(***************************************************************************)
EXTENDS SafetyRecorder, FiniteSetTheorems, SequenceTheorems, TLAPS

(* Only decay and a review lower a risk: what a signal or a crossed          *)
(* threshold leads to is an escalation, from whatever state.                 *)
THEOREM SignalsOnlyEscalate ==
    ASSUME NEW state \in RiskStates,
           NEW event \in RiskEvents \ {"decay", "manual_reassess", "reset_after_review"},
           NEW score \in Int, NEW detectors \in Nat, NEW days \in Nat, NEW assessor \in BOOLEAN,
           NEW to \in RiskMoves(state, event, score, detectors, days, assessor)
    PROVE  IsEscalation(state, to)
<1>1. CASE event = "signal_observed"
    BY <1>1 DEF RiskMoves, RiskStates, IsEscalation, RISK_RANK
<1>2. CASE event = "threshold_crossed"
    BY <1>2 DEF RiskMoves, RiskStates, IsEscalation, RISK_RANK
<1> QED
    BY <1>1, <1>2 DEF RiskEvents

(* One detector alone moves nobody, however often it fires: a detector that  *)
(* is corroboration_only waits for a second one.                             *)
THEOREM OneDetectorMovesNobody ==
    ASSUME NEW state \in RiskStates, NEW author, NEW repetitions \in Nat,
           author.escalation = "corroboration_only", NEW detectors \in {0, 1}
    PROVE  AssessRisk(state, author, detectors, repetitions) = state
<1>1. ~MayEscalateAlone(author, detectors)
    BY DEF MayEscalateAlone
<1> QED
    BY <1>1 DEF AssessRisk

LEMMA OwnDetectors ==
    ASSUME NEW d \in Detectors
    PROVE  /\ SAFETY_DETECTORS[d].escalation = "corroboration_only"
           /\ SAFETY_DETECTORS[d].weight \in 30..50
           /\ SAFETY_DETECTORS[d].reliability \in {"low", "medium"}
<1>1. d \in {"like_burst", "message_burst", "profile_churn", "unmatch_by_counterparty",
             "identity_reuse", "report_against"}
    BY DEF Detectors, SAFETY_DETECTORS
<1> QED
    BY <1>1 DEF SAFETY_DETECTORS, Author

LEMMA OwnScores ==
    ASSUME NEW d \in Detectors
    PROVE  UnaidedScore(SAFETY_DETECTORS[d]) \in Nat /\ UnaidedScore(SAFETY_DETECTORS[d]) <= 4250
<1> DEFINE author == SAFETY_DETECTORS[d]
<1>1. author.weight \in 30..50 /\ author.reliability \in {"low", "medium"}
    BY OwnDetectors
<1>2. RELIABILITY_DISCOUNT[author.reliability] \in {70, 85}
    BY <1>1 DEF RELIABILITY_DISCOUNT
<1>3. CASE RELIABILITY_DISCOUNT[author.reliability] = 70
    BY <1>1, <1>3 DEF UnaidedScore
<1>4. CASE RELIABILITY_DISCOUNT[author.reliability] = 85
    BY <1>1, <1>4 DEF UnaidedScore
<1> QED
    BY <1>2, <1>3, <1>4

LEMMA RepeatedIsBounded ==
    ASSUME NEW repetitions \in Nat
    PROVE  AtMost(100 + repetitions * REPEAT_STEP, REPEAT_MULTIPLIER_CAP) \in 100..125
BY DEF AtMost, REPEAT_STEP, REPEAT_MULTIPLIER_CAP

LEMMA ProductIsBounded ==
    ASSUME NEW a \in Nat, NEW b \in Nat, NEW m \in Nat, NEW n \in Nat, a <= m, b <= n
    PROVE  a * b \in Nat /\ a * b <= m * n
<1>1. a * b <= m * b
    OBVIOUS
<1>2. m * b <= m * n
    OBVIOUS
<1> QED
    BY <1>1, <1>2

(* However often a detector of the service fires and however many agree, the *)
(* score it can reach is short of what a high risk takes.                    *)
LEMMA OwnScoreStaysLow ==
    ASSUME NEW d \in Detectors, NEW detectors \in Nat, NEW repetitions \in Nat
    PROVE  /\ EffectiveScore(SAFETY_DETECTORS[d], detectors, repetitions) \in Nat
           /\ EffectiveScore(SAFETY_DETECTORS[d], detectors, repetitions) < GATE.high
<1> DEFINE unaided == UnaidedScore(SAFETY_DETECTORS[d])
           factor == AtMost(100 + repetitions * REPEAT_STEP, REPEAT_MULTIPLIER_CAP)
<1>0. UnaidedScore(SAFETY_DETECTORS[d]) \in Nat /\ UnaidedScore(SAFETY_DETECTORS[d]) <= 4250
    BY OwnScores
<1>1. unaided \in Nat /\ unaided <= 4250
    BY <1>0
<1>2. factor \in Nat /\ factor <= 125
    BY RepeatedIsBounded
<1> HIDE DEF unaided, factor
<1>3. unaided * factor \in Nat /\ unaided * factor <= 4250 * 125
    BY <1>1, <1>2, ProductIsBounded
<1>4. PICK repeated \in Nat : repeated = unaided * factor /\ repeated <= 531250
    BY <1>3
<1>5. EffectiveScore(SAFETY_DETECTORS[d], detectors, repetitions) =
        IF detectors < 2 THEN AtMost(repeated * 100, SINGLE_DETECTOR_SCORE_CEILING)
                         ELSE AtMost(repeated * CORROBORATION_MULTIPLIER, One)
    BY <1>4 DEF EffectiveScore, unaided, factor
<1>6. GATE.high = 70000000
    BY DEF GATE, Hundredths
<1> QED
    BY <1>4, <1>5, <1>6 DEF AtMost, SINGLE_DETECTOR_SCORE_CEILING, Hundredths,
       CORROBORATION_MULTIPLIER, One

LEMMA OwnDetectorsStopBelowHigh ==
    ASSUME NEW state \in {"normal", "elevated"}, NEW d \in Detectors,
           NEW detectors \in Nat, NEW repetitions \in Nat
    PROVE  AssessRisk(state, SAFETY_DETECTORS[d], detectors, repetitions) \in {"normal", "elevated"}
<1> DEFINE score == EffectiveScore(SAFETY_DETECTORS[d], detectors, repetitions)
           moves == RiskMoves(state, SelectEvent(state, score, detectors >= 2), score,
                              detectors, 0, FALSE)
<1>1. score \in Nat /\ score < GATE.high /\ GATE.high \in Nat
    BY OwnScoreStaysLow DEF GATE, Hundredths
<1> HIDE DEF score
<1>2. SelectEvent(state, score, detectors >= 2) = "signal_observed"
    BY <1>1 DEF SelectEvent
<1>3. moves \in {{}, {"elevated"}}
    BY <1>1, <1>2 DEF RiskMoves
<1>4. AssessRisk(state, SAFETY_DETECTORS[d], detectors, repetitions) \in moves \cup {state}
    BY DEF AssessRisk, score
<1> QED
    BY <1>3, <1>4

(* The score of the paired detector when another agrees: 69 of a hundred at  *)
(* once, and past 70 as soon as it repeats.                                  *)
LEMMA PairedScore ==
    ASSUME NEW detectors \in Nat, NEW repetitions \in Nat, detectors >= 2
    PROVE  /\ EffectiveScore(PairedDetectors["unmatch_report"], detectors, repetitions) \in Nat
           /\ EffectiveScore(PairedDetectors["unmatch_report"], detectors, repetitions) < GATE.critical
           /\ EffectiveScore(PairedDetectors["unmatch_report"], detectors, repetitions) >= GATE.high
                 <=> repetitions >= 1
<1> DEFINE author == PairedDetectors["unmatch_report"]
           factor == AtMost(100 + repetitions * REPEAT_STEP, REPEAT_MULTIPLIER_CAP)
<1>1. author.weight = 60 /\ author.reliability = "high"
    BY DEF PairedDetectors, Author, Detectors, SAFETY_DETECTORS
<1>2. UnaidedScore(author) = 6000
    BY <1>1 DEF UnaidedScore, RELIABILITY_DISCOUNT
<1>3. factor \in 100..125 /\ (factor >= 105 <=> repetitions >= 1)
    BY DEF AtMost, REPEAT_STEP, REPEAT_MULTIPLIER_CAP
<1>4. EffectiveScore(author, detectors, repetitions)
         = AtMost(6000 * factor * CORROBORATION_MULTIPLIER, One)
    BY <1>2 DEF EffectiveScore
<1> HIDE DEF factor
<1>5. EffectiveScore(author, detectors, repetitions) = 690000 * factor
    BY <1>3, <1>4 DEF AtMost, One, CORROBORATION_MULTIPLIER
<1>6. repetitions = 0 => factor = 100
    BY DEF factor, AtMost, REPEAT_STEP, REPEAT_MULTIPLIER_CAP
<1> QED
    BY <1>3, <1>5, <1>6 DEF GATE, Hundredths

(* What a pairing secret adds.  Below high, the detectors of every deployment*)
(* leave a person below high, however often they fire and however many       *)
(* agree.  The paired one reaches high, and no further, exactly when it      *)
(* repeats and another detector agrees.                                      *)
THEOREM OnlyThePairedDetectorReachesHigh ==
    ASSUME NEW state \in {"normal", "elevated"}, NEW d \in DOMAIN PairedDetectors,
           NEW detectors \in Nat, NEW repetitions \in Nat
    PROVE  /\ AssessRisk(state, PairedDetectors[d], detectors, repetitions)
                 \in {"normal", "elevated", "high"}
           /\ AssessRisk(state, PairedDetectors[d], detectors, repetitions) = "high"
                 <=> d = "unmatch_report" /\ detectors >= 2 /\ repetitions >= 1
<1>1. CASE d \in Detectors
    <2>1. PairedDetectors[d] = SAFETY_DETECTORS[d] /\ d # "unmatch_report"
        BY <1>1 DEF PairedDetectors, Detectors, SAFETY_DETECTORS
    <2> QED
        BY <1>1, <2>1, OwnDetectorsStopBelowHigh
<1>2. CASE d = "unmatch_report"
    <2> DEFINE author == PairedDetectors["unmatch_report"]
               score == EffectiveScore(author, detectors, repetitions)
               moves == RiskMoves(state, SelectEvent(state, score, detectors >= 2), score,
                                  detectors, 0, FALSE)
    <2>1. author.escalation = "corroboration_only"
        BY DEF PairedDetectors, Author, Detectors, SAFETY_DETECTORS
    <2>2. CASE detectors < 2
        <3>1. detectors \in {0, 1} /\ state \in RiskStates
            BY <2>2 DEF RiskStates
        <3>2. AssessRisk(state, author, detectors, repetitions) = state
            BY <2>1, <3>1, OneDetectorMovesNobody
        <3> QED
            BY <1>2, <2>2, <3>2
    <2>3. CASE detectors >= 2
        <3>1. /\ score \in Nat /\ score < GATE.critical /\ (score >= GATE.high <=> repetitions >= 1)
              /\ GATE.high = 70000000 /\ GATE.elevated = 50000000 /\ GATE.critical = 90000000
            BY <2>3, PairedScore DEF GATE, Hundredths
        <3>5. MayEscalateAlone(author, detectors) /\ state # "critical"
            BY <2>3 DEF MayEscalateAlone
        <3>2. AssessRisk(state, author, detectors, repetitions)
                 = IF moves # {} THEN CHOOSE to \in moves : TRUE ELSE state
            BY <3>5 DEF AssessRisk
        <3> HIDE DEF score
        <3>3. CASE repetitions >= 1
            <4>1. moves = {"high"}
                BY <2>3, <3>1, <3>3 DEF RiskMoves, SelectEvent
            <4> QED
                BY <1>2, <2>3, <3>2, <3>3, <4>1
        <3>4. CASE repetitions = 0
            <4>1. moves \in {{}, {"elevated"}}
                BY <2>3, <3>1, <3>4 DEF RiskMoves, SelectEvent
            <4>2. AssessRisk(state, author, detectors, repetitions) \in {"normal", "elevated"}
                BY <3>2, <4>1
            <4> QED
                BY <1>2, <3>4, <4>2
        <3> QED
            BY <3>3, <3>4
    <2> QED
        BY <2>2, <2>3
<1> QED
    BY <1>1, <1>2 DEF PairedDetectors

(* The stored catalogue cannot be measured: no detector of the service that  *)
(* does not depend on reports reaches a state that counts, with the paired   *)
(* detector or without it.                                                   *)
THEOREM NothingIsMeasurable == ~Measurable(SAFETY_DETECTORS) /\ ~Measurable(PairedDetectors)
<1>1. ASSUME NEW d \in Detectors
      PROVE  HighestReachableFromNormal(SAFETY_DETECTORS[d]) \notin CountedStates
    <2> DEFINE unaided == UnaidedScore(SAFETY_DETECTORS[d])
    <2>0. UnaidedScore(SAFETY_DETECTORS[d]) \in Nat /\ UnaidedScore(SAFETY_DETECTORS[d]) <= 4250
        BY <1>1, OwnScores
    <2>1. unaided \in Nat /\ unaided <= 4250
        BY <2>0
    <2> HIDE DEF unaided
    <2>2. unaided * REPEAT_MULTIPLIER_CAP * CORROBORATION_MULTIPLIER <= 61093750
        BY <2>1 DEF REPEAT_MULTIPLIER_CAP, CORROBORATION_MULTIPLIER
    <2>3. HighestReachableFromNormal(SAFETY_DETECTORS[d]) \in {"elevated", "normal"}
        BY <2>1, <2>2 DEF HighestReachableFromNormal, AtMost, One, GATE, Hundredths, unaided,
           REPEAT_MULTIPLIER_CAP, CORROBORATION_MULTIPLIER
    <2> QED
        BY <2>3 DEF CountedStates
<1>2. ~Measurable(SAFETY_DETECTORS)
    BY <1>1 DEF Measurable, Detectors
<1>3. ASSUME NEW d \in DOMAIN PairedDetectors, ~PairedDetectors[d].dependsOnReports
      PROVE  d \in Detectors /\ PairedDetectors[d] = SAFETY_DETECTORS[d]
    BY <1>3 DEF PairedDetectors, Author
<1>4. ~Measurable(PairedDetectors)
    BY <1>1, <1>3 DEF Measurable
<1> QED
    BY <1>2, <1>4
-----------------------------------------------------------------------------
(* Signals *)

Heeded == {"message_burst", "unmatch_by_counterparty", "report_against", "unmatch_report"}

LEMMA CatalogueFacts ==
    /\ \A d \in DOMAIN Catalogue : Catalogue[d] = PairedDetectors[d]
    /\ Heeded \ {"unmatch_report"} \subseteq DOMAIN Catalogue
    /\ Paired => "unmatch_report" \in DOMAIN Catalogue
    /\ Heeded \subseteq DOMAIN PairedDetectors
    /\ PairedDetectors["message_burst"].kind = "message_velocity"
    /\ PairedDetectors["unmatch_by_counterparty"].kind = "unmatch_by_counterparty"
    /\ PairedDetectors["report_against"].kind = "report_against"
    /\ PairedDetectors["unmatch_report"].kind = "unmatch_then_report"
<1>1. Detectors = {"like_burst", "message_burst", "profile_churn", "unmatch_by_counterparty",
                   "identity_reuse", "report_against"}
    BY DEF Detectors, SAFETY_DETECTORS
<1>2. DOMAIN PairedDetectors = Detectors \cup {"unmatch_report"}
    BY DEF PairedDetectors
<1>3. \A d \in Detectors : PairedDetectors[d] = SAFETY_DETECTORS[d]
    BY DEF PairedDetectors
<1>4. PairedDetectors["unmatch_report"].kind = "unmatch_then_report"
    BY <1>1 DEF PairedDetectors, Author
<1>5. /\ SAFETY_DETECTORS["message_burst"].kind = "message_velocity"
      /\ SAFETY_DETECTORS["unmatch_by_counterparty"].kind = "unmatch_by_counterparty"
      /\ SAFETY_DETECTORS["report_against"].kind = "report_against"
    BY DEF SAFETY_DETECTORS, Author
<1> QED
    BY <1>1, <1>2, <1>3, <1>4, <1>5 DEF Catalogue, Heeded, Detectors

(* No detector of either catalogue moves anybody by itself.                  *)
LEMMA CatalogueWaits ==
    ASSUME NEW d \in DOMAIN Catalogue
    PROVE  Catalogue[d].escalation = "corroboration_only"
<1>1. CASE d \in Detectors
    <2>1. Catalogue[d] = SAFETY_DETECTORS[d]
        BY <1>1 DEF Catalogue, PairedDetectors
    <2> QED
        BY <1>1, <2>1, OwnDetectors
<1>2. CASE d \notin Detectors
    <2>1. d = "unmatch_report" /\ Catalogue[d] = PairedDetectors[d]
        BY <1>2 DEF Catalogue, PairedDetectors, Detectors
    <2> QED
        BY <1>2, <2>1 DEF PairedDetectors, Author
<1> QED
    BY <1>1, <1>2

LEMMA SignalFacts ==
    ASSUME NEW x \in AllSignals
    PROVE  /\ x.subject \in Users /\ x.actor \in Users /\ x.at \in Instants
           /\ x.detector \in DOMAIN Catalogue /\ x.detector \in Heeded
           /\ x.kind = "report_against" <=> x.detector = "report_against"
           /\ x.kind = PairedDetectors[x.detector].kind
           /\ x.kind # "report_against" =>
                  x = Signal(x.detector, x.subject, x.subject, x.entity, x.at)
<1>1. PICK d \in Heeded, s \in Users, actor \in Users, entity \in Users, t \in Instants :
          /\ x = Signal(d, s, actor, entity, t)
          /\ d # "report_against" => actor = s
          /\ d = "unmatch_report" => Paired
    BY BehavioursAssumption DEF AllSignals, Heeded
<1>2. /\ x.subject = s /\ x.detector = d /\ x.kind = PairedDetectors[d].kind
      /\ x.actor = actor /\ x.entity = entity /\ x.at = t
    BY <1>1 DEF Signal
<1> QED
    BY <1>1, <1>2, CatalogueFacts DEF Heeded

LEMMA ObservedFacts ==
    ASSUME NEW o \in Observations
    PROVE  \E b \in Behaviours : /\ o.by = b.by /\ o.of = b.of /\ o.at \in Instants
                                 /\ \/ o.kind = b.kind
                                    \/ o.kind = "pairing" /\ b.kind = "report"
BY DEF Observations, Observation

LEMMA DetectedFacts ==
    ASSUME NEW s \in Users, NEW observed \in Seq(Observations), NEW now \in Instants,
           NEW x \in DetectedOf(s, observed, now)
    PROVE  /\ x \in AllSignals /\ x.subject = s
           /\ x.detector = "unmatch_report" =>
                  \E i \in DOMAIN observed : observed[i].kind = "pairing"
<1>1. \A i \in DOMAIN observed : observed[i] \in Observations
    OBVIOUS
<1>2. ASSUME NEW i \in DOMAIN observed, observed[i].kind = "message_burst", observed[i].by = s,
             x = Signal("message_burst", s, s, observed[i].of, now)
      PROVE  x \in AllSignals /\ x.subject = s /\ x.detector # "unmatch_report"
    <2>1. PICK b \in Behaviours : b.kind = "message_burst" /\ b.by = s /\ b.of = observed[i].of
        BY <1>1, <1>2, ObservedFacts
    <2>2. x = Signal("message_burst", b.by, b.by, b.of, now)
        BY <1>2, <2>1
    <2> QED
        BY <1>2, <2>1, <2>2 DEF AllSignals, Signal
<1>3. ASSUME NEW i \in DOMAIN observed, observed[i].kind = "unmatch", observed[i].of = s,
             x = Signal("unmatch_by_counterparty", s, s, observed[i].by, observed[i].at)
      PROVE  x \in AllSignals /\ x.subject = s /\ x.detector # "unmatch_report"
    <2>1. PICK b \in Behaviours : /\ b.kind = "unmatch" /\ b.of = s /\ b.by = observed[i].by
                                  /\ observed[i].at \in Instants
        BY <1>1, <1>3, ObservedFacts
    <2>2. x = Signal("unmatch_by_counterparty", b.of, b.of, b.by, observed[i].at)
        BY <1>3, <2>1
    <2> QED
        BY <1>3, <2>1, <2>2 DEF AllSignals, Signal
<1>4. ASSUME NEW i \in DOMAIN observed, observed[i].kind = "report", observed[i].of = s,
             x = Signal("report_against", s, observed[i].by, s, observed[i].at)
      PROVE  x \in AllSignals /\ x.subject = s /\ x.detector # "unmatch_report"
    <2>1. PICK b \in Behaviours : /\ b.kind = "report" /\ b.of = s /\ b.by = observed[i].by
                                  /\ observed[i].at \in Instants
        BY <1>1, <1>4, ObservedFacts
    <2>2. x = Signal("report_against", b.of, b.by, b.of, observed[i].at)
        BY <1>4, <2>1
    <2> QED
        BY <1>4, <2>1, <2>2 DEF AllSignals, Signal
<1>5. ASSUME NEW i \in DOMAIN observed, observed[i].kind = "pairing", observed[i].of = s, Paired,
             x = Signal("unmatch_report", s, s, observed[i].by, observed[i].at)
      PROVE  x \in AllSignals /\ x.subject = s
    <2>1. PICK b \in Behaviours : /\ b.kind = "report" /\ b.of = s /\ b.by = observed[i].by
                                  /\ observed[i].at \in Instants
        BY <1>1, <1>5, ObservedFacts, BehavioursAssumption DEF ObservedKinds
    <2>2. x = Signal("unmatch_report", b.of, b.of, b.by, observed[i].at)
        BY <1>5, <2>1
    <2> QED
        BY <1>5, <2>1, <2>2 DEF AllSignals, Signal
<1>6. \/ \E i \in DOMAIN observed : /\ observed[i].kind = "message_burst" /\ observed[i].by = s
                                    /\ x = Signal("message_burst", s, s, observed[i].of, now)
      \/ \E i \in DOMAIN observed :
             /\ observed[i].kind = "unmatch" /\ observed[i].of = s
             /\ x = Signal("unmatch_by_counterparty", s, s, observed[i].by, observed[i].at)
      \/ \E i \in DOMAIN observed :
             /\ observed[i].kind = "report" /\ observed[i].of = s
             /\ x = Signal("report_against", s, observed[i].by, s, observed[i].at)
      \/ \E i \in DOMAIN observed :
             /\ observed[i].kind = "pairing" /\ observed[i].of = s /\ Paired
             /\ x = Signal("unmatch_report", s, s, observed[i].by, observed[i].at)
    BY DEF DetectedOf, First
<1> QED
    BY <1>2, <1>3, <1>4, <1>5, <1>6

LEMMA LedgerFacts ==
    /\ NoSignals \in Ledgers
    /\ \A x \in AllSignals : NoSignals[x] = 0
    /\ \A ledger \in Ledgers, x \in AllSignals :
          /\ Plus(ledger, x) \in Ledgers
          /\ Plus(ledger, x)[x] > 0
          /\ \A y \in AllSignals : y # x => Plus(ledger, x)[y] = ledger[y]
          /\ \A y \in AllSignals : ledger[y] > 0 => Plus(ledger, x)[y] > 0
BY DEF NoSignals, Ledgers, Plus

(* The newest of what is counted is counted, wherever the cut falls.         *)
LEMMA NewestFacts ==
    ASSUME NEW n \in Ledgers, NEW rank, NEW kept \in Newest(n, rank)
    PROVE  /\ kept \in Ledgers
           /\ \A x \in AllSignals : kept[x] > 0 => n[x] > 0
<1>1. CASE kept = n
    BY <1>1
<1>2. CASE kept # n
    <2>1. PICK cut \in SUBSET AllSignals, out \in SUBSET AllSignals :
              \E some \in [cut -> 0..Capacity] :
                  /\ \A x \in cut : some[x] <= n[x]
                  /\ kept = [x \in AllSignals |-> CASE x \in cut -> some[x]
                                                     [] x \notin cut /\ x \notin out -> n[x]
                                                     [] OTHER -> 0]
        <3> DEFINE newer(y, x) == \/ y.at > x.at
                                  \/ y.at = x.at /\ rank[y.detector] > rank[x.detector]
                   ahead(x) == Copies(n, {y \in AllSignals : newer(y, x)})
                   level(x) == Copies(n, {y \in AllSignals : ~newer(x, y)})
                   cut == {x \in AllSignals : ahead(x) < Capacity /\ Capacity < level(x)}
                   out == {x \in AllSignals : ~(ahead(x) < Capacity)}
        <3>1. PICK some \in [cut -> 0..Capacity] :
                  /\ \A x \in cut : some[x] <= n[x]
                  /\ kept = [x \in AllSignals |-> CASE x \in cut -> some[x]
                                                     [] x \notin cut /\ ahead(x) < Capacity -> n[x]
                                                     [] OTHER -> 0]
            BY <1>2 DEF Newest
        <3> HIDE DEF ahead, level
        <3>2. kept = [x \in AllSignals |-> CASE x \in cut -> some[x]
                                              [] x \notin cut /\ x \notin out -> n[x]
                                              [] OTHER -> 0]
            BY <3>1
        <3>3. cut \in SUBSET AllSignals /\ out \in SUBSET AllSignals
            OBVIOUS
        <3> HIDE DEF cut, out
        <3> QED
            BY <3>1, <3>2, <3>3
    <2> PICK some \in [cut -> 0..Capacity] :
                  /\ \A x \in cut : some[x] <= n[x]
                  /\ kept = [x \in AllSignals |-> CASE x \in cut -> some[x]
                                                     [] x \notin cut /\ x \notin out -> n[x]
                                                     [] OTHER -> 0]
        BY <2>1
    <2>2. \A x \in AllSignals : n[x] \in Nat
        BY DEF Ledgers
    <2>3. \A x \in cut : some[x] \in Nat
        BY BoundsAssumption
    <2>4. ASSUME NEW x \in AllSignals
          PROVE  kept[x] \in Nat /\ kept[x] <= n[x]
        BY <2>2, <2>3
    <2> QED
        BY <2>2, <2>4 DEF Ledgers
<1> QED
    BY <1>1, <1>2

LEMMA PlusKeeps ==
    ASSUME NEW ledger \in Ledgers, NEW x \in AllSignals
    PROVE  /\ \A y \in AllSignals : y # x => Plus(ledger, x)[y] = ledger[y]
           /\ \A y \in AllSignals : ledger[y] > 0 => Plus(ledger, x)[y] > 0
  BY LedgerFacts

(* What one signal adds to a ledger is that signal and nothing else.         *)
LEMMA AppendedFacts ==
    ASSUME NEW ledger \in Ledgers, NEW x \in AllSignals, NEW kept \in AppendSignal(ledger, x)
    PROVE  /\ kept \in Ledgers
           /\ \A y \in AllSignals : kept[y] > 0 => y = x \/ ledger[y] > 0
<1>1. Plus(ledger, x) \in Ledgers
    BY LedgerFacts
<1>2. kept \in Ledgers /\ \A y \in AllSignals : kept[y] > 0 => Plus(ledger, x)[y] > 0
    BY <1>1, NewestFacts DEF AppendSignal
<1> QED
    BY <1>2, PlusKeeps

(* What is added to a ledger of what is stored.                              *)
LEMMA AddedFacts ==
    ASSUME NEW m \in Nat, NEW n \in Nat
    PROVE  m + n \in Nat /\ (m + n > 0 <=> m > 0 \/ n > 0)
  OBVIOUS

LEMMA CopiesAreCounted ==
    ASSUME NEW bag, NEW some, IsFiniteSet(some), \A e \in some : bag[e] \in Nat
    PROVE  Copies(bag, some) \in Nat
<1> DEFINE of(e) == {e} \X (1..bag[e])
           each == {of(e) : e \in some}
           f == [e \in some |-> of(e)]
<1>1. \A e \in some : IsFiniteSet(of(e))
    <2> SUFFICES ASSUME NEW e \in some PROVE IsFiniteSet(of(e))
        OBVIOUS
    <2>1. IsFiniteSet(1..bag[e])
        <3>1. bag[e] \in Int
            OBVIOUS
        <3> QED
            BY <3>1, FS_Interval
    <2>2. IsFiniteSet({e})
        BY FS_Singleton
    <2> QED
        BY <2>1, <2>2, FS_Product
<1>2. Copies(bag, some) = Cardinality(UNION each)
    BY DEF Copies
<1> HIDE DEF of
<1>3. f \in Surjection(some, each)
    BY DEF Surjection
<1>4. \A t \in each : IsFiniteSet(t)
    BY <1>1
<1> HIDE DEF f, each
<1>5. IsFiniteSet(each)
    BY <1>3, FS_Surjection
<1>6. IsFiniteSet(UNION each)
    BY <1>4, <1>5, FS_UNION
<1> QED
    BY <1>2, <1>6, FS_CardinalityType

(* A ledger repeats a signal at finitely many instants of a day.             *)
LEMMA RepetitionsAreCounted ==
    ASSUME NEW ledger \in Ledgers, NEW x \in AllSignals, x.kind # "report_against"
    PROVE  Repetitions(AsBag(ledger), x) \in Nat
<1> DEFINE bag == AsBag(ledger)
           same == {e \in Recent(bag, x) : /\ Within(e, x, REPEAT_WINDOW_HOURS)
                                           /\ e.detector = x.detector
                                           /\ e.subject = x.subject
                                           /\ SameBehaviour(e, x)}
           day == (x.at - REPEAT_WINDOW_HOURS)..x.at
           then(t) == Signal(x.detector, x.subject, x.subject, x.entity, t)
           all == {then(t) : t \in day}
<1>1. x.at \in Nat
    BY SignalFacts, InstantsAssumption
<1>2. ASSUME NEW e \in same
      PROVE  e \in all /\ bag[e] \in Nat
    <2>1. e \in AllSignals /\ ledger[e] > 0 /\ bag[e] = ledger[e]
        BY DEF Recent, BagToSet, AsBag
    <2>2. e.detector = x.detector /\ e.subject = x.subject /\ e.kind = x.kind /\ e.entity = x.entity
        BY DEF SameBehaviour
    <2>3. e = then(e.at) /\ e.at \in Nat
        BY <2>1, <2>2, SignalFacts, InstantsAssumption
    <2>4. e.at \in day
        BY <1>1, <2>3 DEF Within, REPEAT_WINDOW_HOURS
    <2> QED
        BY <2>1, <2>3, <2>4 DEF Ledgers
<1>3. IsFiniteSet(day)
    BY <1>1, FS_Interval DEF REPEAT_WINDOW_HOURS
<1>4. IsFiniteSet(all)
    <2> DEFINE f == [t \in day |-> then(t)]
    <2> HIDE DEF then, day
    <2>1. f \in Surjection(day, all)
        BY DEF Surjection
    <2> HIDE DEF f, all
    <2> QED
        BY <1>3, <2>1, FS_Surjection
<1>5. IsFiniteSet(same)
    BY <1>2, <1>4, FS_Subset
<1>6. Copies(bag, same) \in Nat
    BY <1>2, <1>5, CopiesAreCounted
<1> QED
    BY <1>6 DEF Repetitions

(* How many detectors agree is counted among four.                           *)
LEMMA CorroboratingIsCounted ==
    ASSUME NEW ledger \in Ledgers, NEW x \in AllSignals
    PROVE  /\ IsFiniteSet(Corroborating(AsBag(ledger), x))
           /\ Cardinality(Corroborating(AsBag(ledger), x)) \in Nat
<1>1. Corroborating(AsBag(ledger), x) \subseteq Heeded
    BY SignalFacts DEF Corroborating, Recent, BagToSet, AsBag
<1>2. IsFiniteSet(Heeded)
    <2>1. IsFiniteSet({"message_burst"})
        BY FS_Singleton
    <2>2. IsFiniteSet({"message_burst"} \cup {"unmatch_by_counterparty"})
        BY <2>1, FS_AddElement
    <2>3. IsFiniteSet({"message_burst"} \cup {"unmatch_by_counterparty"} \cup {"report_against"})
        BY <2>2, FS_AddElement
    <2>4. IsFiniteSet({"message_burst"} \cup {"unmatch_by_counterparty"} \cup {"report_against"}
                      \cup {"unmatch_report"})
        BY <2>3, FS_AddElement
    <2>5. Heeded = {"message_burst"} \cup {"unmatch_by_counterparty"} \cup {"report_against"}
                   \cup {"unmatch_report"}
        BY DEF Heeded
    <2> QED
        BY <2>4, <2>5
<1>3. IsFiniteSet(Corroborating(AsBag(ledger), x))
    BY <1>1, <1>2, FS_Subset
<1> QED
    BY <1>3, FS_CardinalityType

-----------------------------------------------------------------------------
(* The types, and where a request is *)

AtSubject == {"seed", "seeded", "fold", "upsert", "raise", "mark"}
Folding == {"fold", "upsert", "raise", "mark"}

(* What a request's local values are at its place.                           *)
PlaceOK(r) ==
    LET q == req[r] IN
    /\ q.at = "idle" => q = Idle
    /\ q.at \in AtSubject => q.todo # <<>>
    /\ q.at \in Folding => \A x \in q.pending : x.subject = Head(q.todo)
    /\ q.at = "upsert" => /\ q.signal \in AllSignals /\ q.signal.subject = Head(q.todo)
                          /\ q.logged[q.signal] > 0
    /\ q.at = "mark" => q.offered \in Users

(* A request evaluates each subject once, and stores no signal about one     *)
(* before it comes to it.                                                    *)
TodoOK(r) ==
    LET q == req[r] IN
    /\ q.todo = <<>> \/ Len(q.todo) \in {1, 2}
    /\ Len(q.todo) = 2 => q.todo[1] # q.todo[2]
    /\ \A x \in AllSignals : q.logged[x] > 0 =>
          /\ q.at \in {"evaluate", "seed", "seeded"} =>
                 \A i \in 1..Len(q.todo) : q.todo[i] # x.subject
          /\ q.at \in Folding /\ Len(q.todo) = 2 => q.todo[2] # x.subject

Base == TypeOK /\ \A r \in Requests : PlaceOK(r) /\ TodoOK(r)

OnlyRequest(r) ==
    /\ req' \in [Requests -> RequestState]
    /\ \A q \in Requests \ {r} : req'[q] = req[q]

TablesSame == UNCHANGED <<assessments, signals, cases, clock>>

LEMMA BaseTypes ==
    ASSUME Base
    PROVE  /\ assessments \in [Users -> Versions(AssessmentRow \cup {None}, Requests)]
           /\ signals \in Ledgers /\ cases \in [Users \X Users -> Nat]
           /\ memory.observed \in Seq(Observations) /\ memory.seeded \in SUBSET Users
           /\ memory.ledger \in [Users -> Ledgers]
           /\ memory.opened \in SUBSET (Users \X Users)
           /\ req \in [Requests -> RequestState]
           /\ past.observed \in Nat /\ past.restarts \in Nat
           /\ past.unfolded \in SUBSET AllSignals /\ past.lost \in SUBSET AllSignals
           /\ past.broken \in SUBSET Users /\ past.late \in SUBSET Users
           /\ past.missed \in SUBSET AllSignals /\ clock \in Instants
  BY DEF Base, TypeOK

LEMMA BaseRequest ==
    ASSUME Base, NEW r \in Requests
    PROVE  /\ req[r] \in RequestState /\ PlaceOK(r) /\ TodoOK(r)
           /\ req[r].at \in Places /\ req[r].todo \in Seq(Users)
           /\ req[r].pending \in SUBSET AllSignals /\ req[r].ledger \in Ledgers
           /\ req[r].was \in AssessmentRow \cup {None} /\ req[r].members \in SUBSET Users
           /\ req[r].logged \in Ledgers /\ req[r].raised \in SUBSET (Users \X Users)
           /\ req[r].gaveUp \in SUBSET AllSignals
<1>1. req[r] \in RequestState
    BY DEF Base, TypeOK
<1> QED
    BY <1>1 DEF Base, RequestState

(* A step of r alone keeps the rest where it was.                            *)
LEMMA StepKeepsBase ==
    ASSUME Base, NEW r \in Requests, OnlyRequest(r), PlaceOK(r)', TodoOK(r)', TypeOK'
    PROVE  Base'
<1>1. \A p \in Requests \ {r} : PlaceOK(p)' /\ TodoOK(p)'
    BY DEF Base, OnlyRequest, PlaceOK, TodoOK
<1> QED
    BY <1>1 DEF Base

LEMMA TypesKept ==
    ASSUME Base, req' \in [Requests -> RequestState], TablesSame,
           UNCHANGED memory \/ memory' \in [observed : Seq(Observations),
                   ledger : [Users -> Ledgers],
                   seeded : SUBSET Users, opened : SUBSET (Users \X Users)],
           UNCHANGED past
    PROVE  TypeOK'
  BY DEF Base, TypeOK, TablesSame

LEMMA IdleFacts ==
    /\ Idle \in RequestState /\ Idle.at = "idle" /\ Idle.todo = <<>> /\ Idle.logged = NoSignals
    /\ Idle.gaveUp = {} /\ Idle.raised = {}
  BY LedgerFacts, BoundsAssumption DEF Idle, RequestState, Places

LEMMA SubjectFacts ==
    ASSUME Base, NEW r \in Requests, req[r].todo # <<>>
    PROVE  /\ Subject(r) \in Users /\ Subject(r) = req[r].todo[1]
           /\ Len(req[r].todo) \in {1, 2}
           /\ Tail(req[r].todo) \in Seq(Users)
           /\ Len(Tail(req[r].todo)) = Len(req[r].todo) - 1
           /\ Len(req[r].todo) = 1 => Tail(req[r].todo) = <<>>
           /\ Len(req[r].todo) = 2 => Tail(req[r].todo)[1] = req[r].todo[2]
<1>1. req[r].todo \in Seq(Users) /\ Len(req[r].todo) \in {1, 2}
    BY BaseRequest DEF TodoOK
<1>2. /\ Subject(r) \in Users /\ Subject(r) = req[r].todo[1]
      /\ Tail(req[r].todo) \in Seq(Users)
      /\ Len(Tail(req[r].todo)) = Len(req[r].todo) - 1
    BY <1>1 DEF Subject
<1>3. Len(req[r].todo) = 1 => Tail(req[r].todo) = <<>>
    <2>1. Len(req[r].todo) = 1 => Len(Tail(req[r].todo)) = 0
        BY <1>2
    <2> QED
        BY <1>2, <2>1, EmptySeq
<1>4. Len(req[r].todo) = 2 => Tail(req[r].todo)[1] = req[r].todo[2]
    BY <1>1
<1> QED
    BY <1>1, <1>2, <1>3, <1>4

LEMMA Moved ==
    ASSUME Base, NEW r \in Requests, NEW q \in RequestState, req' = [req EXCEPT ![r] = q]
    PROVE  OnlyRequest(r) /\ req'[r] = q
  BY BaseTypes DEF OnlyRequest

LEMMA MemoryType ==
    ASSUME Base
    PROVE  memory \in [observed : Seq(Observations), ledger : [Users -> Ledgers],
                       seeded : SUBSET Users, opened : SUBSET (Users \X Users)]
  BY DEF Base, TypeOK

LEMMA ObserveBase ==
    ASSUME Base, NEW r \in Requests, NEW b \in Behaviours, Observe(r, b)
    PROVE  /\ Base' /\ OnlyRequest(r) /\ TablesSame
           /\ req'[r] = [Idle EXCEPT !.todo = EvaluatedSubjects(b), !.at = "evaluate"]
           /\ req[r] = Idle
           /\ UNCHANGED <<past.unfolded, past.lost, past.broken, memory.ledger, memory.opened>>
           /\ \E t \in Instants : memory'.observed = memory.observed \o Delivered(b, t)
<1> DEFINE todo == EvaluatedSubjects(b)
           q == [Idle EXCEPT !.todo = todo, !.at = "evaluate"]
<1>1. req[r] = Idle /\ TablesSame /\ req' = [req EXCEPT ![r].todo = todo, ![r].at = "evaluate"]
    BY BaseRequest DEF Observe, At, PlaceOK, TablesSame
<1>2. /\ todo \in Seq(Users)
      /\ Len(todo) = 1 \/ (Len(todo) = 2 /\ todo[1] # todo[2])
    <2>1. b.by \in Users /\ b.of \in Users
        BY BehavioursAssumption
    <2>2. CASE b.kind \in {"like", "message_burst"}
        BY <2>1, <2>2 DEF EvaluatedSubjects
    <2>3. CASE b.kind \in {"unmatch", "report"}
        <3>1. b.by # b.of
            BY <2>3, BehavioursAssumption
        <3>2. todo \in {<<b.by, b.of>>, <<b.of, b.by>>}
            BY <2>3 DEF EvaluatedSubjects
        <3> HIDE DEF todo
        <3>3. CASE todo = <<b.by, b.of>>
            BY <2>1, <3>1, <3>3
        <3>4. CASE todo = <<b.of, b.by>>
            BY <2>1, <3>1, <3>4
        <3> QED
            BY <3>2, <3>3, <3>4
    <2> QED
        BY <2>2, <2>3, BehavioursAssumption DEF ObservedKinds
<1> HIDE DEF todo
<1>3. /\ q \in RequestState /\ q.at = "evaluate" /\ q.todo = todo
      /\ q.logged = NoSignals
    BY <1>2, IdleFacts DEF RequestState, Places
<1>4. req' = [req EXCEPT ![r] = q]
    BY <1>1, BaseTypes
<1> HIDE DEF q
<1>5. OnlyRequest(r) /\ req'[r] = q
    BY <1>3, <1>4, Moved
<1>6. PlaceOK(r)' /\ TodoOK(r)'
    BY <1>2, <1>3, <1>5, LedgerFacts DEF PlaceOK, TodoOK, AtSubject, Folding
<1>7. /\ memory' \in [observed : Seq(Observations), ledger : [Users -> Ledgers],
                      seeded : SUBSET Users, opened : SUBSET (Users \X Users)]
      /\ UNCHANGED <<memory.ledger, memory.opened>>
      /\ \E t \in Instants : memory'.observed = memory.observed \o Delivered(b, t)
    <2>1. PICK t \in Instants : memory' = [memory EXCEPT !.observed = @ \o Delivered(b, t)]
        BY DEF Observe
    <2>2. Delivered(b, t) \in Seq(Observations)
        <3>1. Observation(b.kind, b.by, b.of, t) \in Observations
            BY DEF Observations
        <3> QED
            BY <3>1 DEF Delivered
    <2>3. memory.observed \o Delivered(b, t) \in Seq(Observations)
        BY <2>2, BaseTypes
    <2> HIDE DEF Delivered
    <2> QED
        BY <2>1, <2>3, MemoryType
<1>8. /\ past' \in [observed : Nat, restarts : Nat, unfolded : SUBSET AllSignals,
                    lost : SUBSET AllSignals, broken : SUBSET Users, late : SUBSET Users,
                    missed : SUBSET AllSignals]
      /\ UNCHANGED <<past.unfolded, past.lost, past.broken>>
    <2>1. PICK more \in SUBSET {b.of} :
              past' = [past EXCEPT !.observed = @ + 1, !.late = @ \cup more]
        BY DEF Observe
    <2> DEFINE observed == past.observed + 1
               late == past.late \cup more
    <2>2. late \in SUBSET Users /\ observed \in Nat
        BY <2>1, BaseTypes, BehavioursAssumption
    <2>4. past' = [past EXCEPT !.observed = observed, !.late = late]
        BY <2>1
    <2> HIDE DEF observed, late
    <2>3. past \in [observed : Nat, restarts : Nat, unfolded : SUBSET AllSignals,
                    lost : SUBSET AllSignals, broken : SUBSET Users, late : SUBSET Users,
                    missed : SUBSET AllSignals]
        BY DEF Base, TypeOK
    <2> QED
        BY <2>2, <2>3, <2>4
<1>9. TypeOK'
    BY <1>1, <1>5, <1>7, <1>8 DEF Base, TypeOK, TablesSame, OnlyRequest
<1> QED
    BY <1>1, <1>5, <1>6, <1>7, <1>8, <1>9, StepKeepsBase DEF q, todo

(* What Detect leaves.                                                       *)
Detected(r) == [req[r] EXCEPT !.pending = DetectedOf(Subject(r), memory.observed, clock),
                              !.ledger = NoSignals, !.at = "fold"]

LEMMA DetectMoves ==
    ASSUME Base, NEW r \in Requests, req[r].at \in {"evaluate", "seeded"}, req[r].todo # <<>>,
           Detect(r)
    PROVE  /\ OnlyRequest(r) /\ req'[r] = Detected(r)
           /\ req'[r].at = "fold" /\ req'[r].todo = req[r].todo
           /\ req'[r].logged = req[r].logged /\ req'[r].gaveUp = req[r].gaveUp
           /\ req'[r].raised = req[r].raised
           /\ PlaceOK(r)' /\ TodoOK(r)'
<1> DEFINE pending == DetectedOf(Subject(r), memory.observed, clock)
           q == [req[r] EXCEPT !.pending = pending, !.ledger = NoSignals, !.at = "fold"]
<1>1. Subject(r) \in Users /\ Subject(r) = Head(req[r].todo)
    BY SubjectFacts DEF Subject
<1>2. pending \in SUBSET AllSignals /\ \A x \in pending : x.subject = Head(req[r].todo)
    BY <1>1, BaseTypes, DetectedFacts
<1>3. req' = [req EXCEPT ![r].pending = pending, ![r].ledger = NoSignals, ![r].at = "fold"]
    BY DEF Detect
<1> HIDE DEF pending
<1>4. /\ q \in RequestState /\ q.at = "fold" /\ q.todo = req[r].todo /\ q.pending = pending
      /\ q.logged = req[r].logged /\ q.gaveUp = req[r].gaveUp /\ q.raised = req[r].raised
    BY ZenonT(60), <1>2, BaseRequest, LedgerFacts DEF RequestState, Places
<1>5. req' = [req EXCEPT ![r] = q]
    BY <1>3, BaseTypes
<1> HIDE DEF q
<1>6. OnlyRequest(r) /\ req'[r] = q
    BY <1>4, <1>5, Moved
<1>7. PlaceOK(r)'
    BY <1>2, <1>4, <1>6 DEF PlaceOK, AtSubject, Folding
<1>8. TodoOK(r)'
    BY <1>4, <1>6, BaseRequest DEF TodoOK, Folding
<1> QED
    BY <1>4, <1>6, <1>7, <1>8 DEF q, pending, Detected

(* A step that leaves the tables, the record of the past and what a request  *)
(* has stored and raised; what else it does is its own place.                *)
Quiet(r) ==
    /\ OnlyRequest(r) /\ TablesSame /\ UNCHANGED past
    /\ req'[r].logged = req[r].logged /\ req'[r].gaveUp = req[r].gaveUp

LEMMA EvaluateBase ==
    ASSUME Base, NEW r \in Requests, Evaluate(r)
    PROVE  /\ Base' /\ Quiet(r) /\ req'[r].at \in {"reply", "seed", "fold"}
           /\ req'[r].raised = req[r].raised
           /\ UNCHANGED <<memory.ledger, memory.opened, memory.observed>>
<1>1. req[r].at = "evaluate" /\ TablesSame /\ UNCHANGED past
    BY DEF Evaluate, At, TablesSame
<1>2. CASE req[r].todo = <<>> /\ req' = [req EXCEPT ![r].at = "reply"] /\ UNCHANGED memory
    <2> DEFINE q == [req[r] EXCEPT !.at = "reply"]
    <2>1. /\ q \in RequestState /\ q.at = "reply" /\ q.todo = req[r].todo
          /\ q.logged = req[r].logged /\ q.gaveUp = req[r].gaveUp /\ q.raised = req[r].raised
        BY BaseRequest DEF RequestState, Places
    <2>2. req' = [req EXCEPT ![r] = q]
        BY <1>2, BaseTypes
    <2> HIDE DEF q
    <2>3. OnlyRequest(r) /\ req'[r] = q
        BY <2>1, <2>2, Moved
    <2>4. PlaceOK(r)' /\ TodoOK(r)'
        BY <1>2, <2>1, <2>3 DEF PlaceOK, TodoOK, AtSubject, Folding
    <2>5. TypeOK'
        BY <1>1, <1>2, <2>3, TypesKept DEF OnlyRequest
    <2> QED
        BY <1>1, <1>2, <2>1, <2>3, <2>4, <2>5, StepKeepsBase DEF Quiet
<1>3. CASE req[r].todo # <<>> /\ Detect(r) /\ UNCHANGED memory
    <2>1. TypeOK'
        BY <1>1, <1>3, DetectMoves, TypesKept DEF OnlyRequest
    <2> QED
        BY <1>1, <1>3, <2>1, DetectMoves, StepKeepsBase DEF Quiet
<1>4. CASE /\ req[r].todo # <<>>
           /\ memory' = [memory EXCEPT !.seeded = @ \cup {Subject(r)}]
           /\ req' = [req EXCEPT ![r].at = "seed"]
    <2> DEFINE q == [req[r] EXCEPT !.at = "seed"]
    <2>1. /\ q \in RequestState /\ q.at = "seed" /\ q.todo = req[r].todo
          /\ q.logged = req[r].logged /\ q.gaveUp = req[r].gaveUp /\ q.raised = req[r].raised
        BY BaseRequest DEF RequestState, Places
    <2>2. req' = [req EXCEPT ![r] = q]
        BY <1>4, BaseTypes
    <2> HIDE DEF q
    <2>3. OnlyRequest(r) /\ req'[r] = q
        BY <2>1, <2>2, Moved
    <2>4. PlaceOK(r)'
        BY <1>4, <2>1, <2>3 DEF PlaceOK, AtSubject, Folding
    <2>5. TodoOK(r)'
        BY <1>1, <2>1, <2>3, BaseRequest DEF TodoOK, Folding
    <2>6. Subject(r) \in Users
        BY <1>4, SubjectFacts
    <2>7. /\ memory' \in [observed : Seq(Observations), ledger : [Users -> Ledgers],
                          seeded : SUBSET Users, opened : SUBSET (Users \X Users)]
          /\ UNCHANGED <<memory.ledger, memory.opened, memory.observed>>
        BY <1>4, <2>6, MemoryType
    <2>8. TypeOK'
        BY <1>1, <2>3, <2>7, TypesKept DEF OnlyRequest
    <2> QED
        BY <1>1, <2>1, <2>3, <2>4, <2>5, <2>7, <2>8, StepKeepsBase DEF Quiet
<1> QED
    BY <1>2, <1>3, <1>4 DEF Evaluate

LEMMA FindSignalsBase ==
    ASSUME Base, NEW r \in Requests, FindSignalsFor(r)
    PROVE  /\ Base' /\ Quiet(r) /\ req'[r].at = "seeded" /\ req'[r].todo = req[r].todo
           /\ req'[r].raised = req[r].raised /\ UNCHANGED memory
           /\ \A x \in AllSignals : req'[r].ledger[x] > 0 => signals[x] > 0
<1> DEFINE s == Subject(r)
           stored == [x \in AllSignals |->
                          IF x.subject = s THEN signals[x] + req[r].logged[x] ELSE 0]
<1>1. /\ req[r].at = "seed" /\ TablesSame /\ UNCHANGED <<past, memory>>
      /\ req[r].todo # <<>>
    BY BaseRequest DEF FindSignalsFor, At, TablesSame, PlaceOK, AtSubject
<1>2. ASSUME NEW x \in AllSignals
      PROVE  /\ signals[x] \in Nat /\ req[r].logged[x] \in Nat
             /\ x.subject = s => req[r].logged[x] = 0
    <2>1. signals[x] \in Nat /\ req[r].logged[x] \in Nat
        BY BaseTypes, BaseRequest DEF Ledgers
    <2>2. s = req[r].todo[1] /\ 1 \in 1..Len(req[r].todo)
        BY <1>1, SubjectFacts
    <2>3. req[r].logged[x] > 0 => x.subject # s
        BY <1>1, <2>2, BaseRequest DEF TodoOK
    <2> QED
        BY <2>1, <2>3
<1> HIDE DEF s
<1>3. stored \in Ledgers /\ \A x \in AllSignals : stored[x] > 0 => signals[x] > 0
    BY <1>2 DEF Ledgers
<1>4. PICK ledger \in Newest(stored, RowRank) :
          req' = [req EXCEPT ![r].ledger = ledger, ![r].at = "seeded"]
    BY DEF FindSignalsFor, s
<1> HIDE DEF stored
<1>11. ledger \in Ledgers /\ \A x \in AllSignals : ledger[x] > 0 => signals[x] > 0
    BY <1>3, NewestFacts
<1> DEFINE q == [req[r] EXCEPT !.ledger = ledger, !.at = "seeded"]
<1>5. /\ q \in RequestState /\ q.at = "seeded" /\ q.todo = req[r].todo /\ q.ledger = ledger
      /\ q.logged = req[r].logged /\ q.gaveUp = req[r].gaveUp /\ q.raised = req[r].raised
    BY ZenonT(60), <1>11, BaseRequest DEF RequestState, Places
<1>6. req' = [req EXCEPT ![r] = q]
    BY <1>4, BaseTypes
<1> HIDE DEF q
<1>7. OnlyRequest(r) /\ req'[r] = q
    BY <1>5, <1>6, Moved
<1>8. PlaceOK(r)'
    BY <1>1, <1>5, <1>7 DEF PlaceOK, Folding
<1>9. TodoOK(r)'
    BY <1>1, <1>5, <1>7, BaseRequest DEF TodoOK, Folding
<1>10. TypeOK'
    BY <1>1, <1>7, TypesKept DEF OnlyRequest
<1> QED
    BY <1>1, <1>11, <1>5, <1>7, <1>8, <1>9, <1>10, StepKeepsBase DEF Quiet

LEMMA SeedLedgerBase ==
    ASSUME Base, NEW r \in Requests, SeedLedger(r)
    PROVE  /\ Base' /\ Quiet(r) /\ req[r].at = "seeded" /\ req'[r].at = "fold"
           /\ req'[r].raised = req[r].raised /\ UNCHANGED <<memory.opened, memory.observed>>
           /\ Subject(r) \in Users
           /\ memory'.ledger = [memory.ledger EXCEPT ![Subject(r)] = req[r].ledger]
<1>1. /\ req[r].at = "seeded" /\ TablesSame /\ UNCHANGED past /\ Detect(r)
      /\ req[r].todo # <<>> /\ req[r].ledger \in Ledgers
      /\ memory' = [memory EXCEPT !.ledger[Subject(r)] = req[r].ledger]
    BY BaseRequest DEF SeedLedger, At, TablesSame, PlaceOK, AtSubject
<1>2. Subject(r) \in Users
    BY <1>1, SubjectFacts
<1>3. /\ memory' \in [observed : Seq(Observations), ledger : [Users -> Ledgers],
                      seeded : SUBSET Users, opened : SUBSET (Users \X Users)]
      /\ UNCHANGED <<memory.opened, memory.observed>>
      /\ memory'.ledger = [memory.ledger EXCEPT ![Subject(r)] = req[r].ledger]
    BY <1>1, <1>2, MemoryType
<1>4. TypeOK'
    BY <1>1, <1>3, DetectMoves, TypesKept DEF OnlyRequest
<1> QED
    BY <1>1, <1>2, <1>3, <1>4, DetectMoves, StepKeepsBase DEF Quiet

LEMMA FoldEndBase ==
    ASSUME Base, NEW r \in Requests, FoldNext(r), req[r].pending = {}
    PROVE  /\ Base' /\ Quiet(r) /\ req'[r].at = "evaluate"
           /\ req'[r].raised = req[r].raised /\ UNCHANGED memory
<1> DEFINE todo == Tail(req[r].todo)
           q == [req[r] EXCEPT !.todo = todo, !.ledger = NoSignals, !.signal = None,
                               !.was = None, !.attempt = 0, !.at = "evaluate"]
<1>1. /\ req[r].at = "fold" /\ TablesSame /\ UNCHANGED <<past, memory>>
      /\ req[r].todo # <<>>
    BY BaseRequest DEF FoldNext, At, TablesSame, PlaceOK, AtSubject
<1>2. req' = [req EXCEPT ![r].todo = Tail(@), ![r].ledger = NoSignals, ![r].signal = None,
                         ![r].was = None, ![r].attempt = 0, ![r].at = "evaluate"]
    BY DEF FoldNext
<1>3. /\ todo \in Seq(Users)
      /\ todo = <<>> \/ Len(todo) = 1
      /\ Len(todo) = 1 => Len(req[r].todo) = 2 /\ todo[1] = req[r].todo[2]
    BY <1>1, SubjectFacts
<1> HIDE DEF todo
<1>10. 0 \in 0..MaxFoldAttempts
    BY BoundsAssumption
<1>4. /\ q \in RequestState /\ q.at = "evaluate" /\ q.todo = todo
      /\ q.logged = req[r].logged /\ q.gaveUp = req[r].gaveUp /\ q.raised = req[r].raised
    BY ZenonT(60), <1>3, <1>10, BaseRequest, LedgerFacts DEF RequestState, Places
<1>5. req' = [req EXCEPT ![r] = q]
    BY <1>2, BaseTypes DEF todo
<1> HIDE DEF q
<1>6. OnlyRequest(r) /\ req'[r] = q
    BY <1>4, <1>5, Moved
<1>7. PlaceOK(r)'
    BY <1>4, <1>6 DEF PlaceOK, AtSubject, Folding
<1>8. TodoOK(r)'
    <2>1. \A x \in AllSignals : req[r].logged[x] > 0 =>
              (Len(req[r].todo) = 2 => req[r].todo[2] # x.subject)
        BY <1>1, BaseRequest DEF TodoOK, Folding
    <2>2. Len(todo) = 1 => 1..Len(todo) = {1}
        OBVIOUS
    <2>3. todo = <<>> => 1..Len(todo) = {}
        OBVIOUS
    <2> QED
        BY <1>3, <1>4, <1>6, <2>1, <2>2, <2>3 DEF TodoOK, Folding
<1>9. TypeOK'
    BY <1>1, <1>6, TypesKept DEF OnlyRequest
<1> QED
    BY <1>1, <1>4, <1>6, <1>7, <1>8, <1>9, StepKeepsBase DEF Quiet

LEMMA FoldBase ==
    ASSUME Base, NEW r \in Requests, FoldNext(r), req[r].pending # {}
    PROVE  /\ Base' /\ OnlyRequest(r) /\ TablesSame /\ UNCHANGED <<past, memory>>
           /\ Subject(r) \in Users /\ req'[r].todo = req[r].todo /\ req'[r].at = "upsert"
           /\ req'[r].ledger = memory.ledger[Subject(r)]
           /\ req'[r].was = Seen(assessments, r)[Subject(r)]
           /\ req'[r].gaveUp = req[r].gaveUp /\ req'[r].raised = req[r].raised
           /\ req'[r].signal \in AllSignals /\ req'[r].signal.subject = Subject(r)
           /\ req'[r].logged = Plus(req[r].logged, req'[r].signal)
           /\ req[r].at = "fold"
           /\ req'[r].pending = req[r].pending \ {req'[r].signal}
           /\ req'[r].signal \in FirstOf(req[r].pending)
<1> DEFINE s == Subject(r)
<1>1. /\ req[r].at = "fold" /\ TablesSame /\ UNCHANGED <<past, memory>>
      /\ req[r].todo # <<>> /\ s \in Users /\ s = Head(req[r].todo)
    BY BaseRequest, SubjectFacts DEF FoldNext, At, TablesSame, PlaceOK, AtSubject, Subject
<1>2. PICK x \in FirstOf(req[r].pending) :
          req' = [req EXCEPT ![r].pending = @ \ {x}, ![r].signal = x,
                             ![r].ledger = memory.ledger[s], ![r].was = Seen(assessments, r)[s],
                             ![r].attempt = 1, ![r].logged = Plus(@, x), ![r].at = "upsert"]
    BY DEF FoldNext
<1>3. x \in AllSignals /\ x.subject = s
    BY <1>1, <1>2, BaseRequest DEF FirstOf, PlaceOK, Folding
<1> DEFINE was == Seen(assessments, r)[s]
           ledger == memory.ledger[s]
           logged == Plus(req[r].logged, x)
           pending == req[r].pending \ {x}
           q == [req[r] EXCEPT !.pending = pending, !.signal = x, !.ledger = ledger,
                               !.was = was, !.attempt = 1, !.logged = logged, !.at = "upsert"]
<1>4. was \in AssessmentRow \cup {None}
    BY <1>1, BaseTypes DEF Seen, Versions
<1>5. /\ ledger \in Ledgers /\ logged \in Ledgers /\ logged[x] > 0
      /\ 1 \in 0..MaxFoldAttempts
      /\ \A y \in AllSignals : y # x => logged[y] = req[r].logged[y]
    <2>1. ledger \in Ledgers
        BY <1>1, BaseTypes
    <2>2. req[r].logged \in Ledgers
        BY BaseRequest
    <2> HIDE DEF ledger
    <2>3. /\ logged \in Ledgers /\ logged[x] > 0
          /\ \A y \in AllSignals : y # x => logged[y] = req[r].logged[y]
        BY <1>3, <2>2, LedgerFacts
    <2>4. 1 \in 0..MaxFoldAttempts
        BY BoundsAssumption
    <2> QED
        BY <2>1, <2>3, <2>4
<1>6. /\ pending \in SUBSET AllSignals
      /\ \A y \in pending : y.subject = Head(req[r].todo)
    BY <1>1, BaseRequest DEF PlaceOK, Folding
<1>7. req' = [req EXCEPT ![r].pending = pending, ![r].signal = x, ![r].ledger = ledger,
                         ![r].was = was, ![r].attempt = 1, ![r].logged = logged,
                         ![r].at = "upsert"]
    BY <1>2
<1> HIDE DEF was, ledger, logged, pending, s
<1>15. /\ "upsert" \in Places /\ pending \in SUBSET AllSignals /\ x \in AllSignals \cup {None}
       /\ ledger \in Ledgers /\ 1 \in 0..MaxFoldAttempts /\ was \in AssessmentRow \cup {None}
       /\ logged \in Ledgers /\ req[r] \in RequestState
    BY <1>3, <1>4, <1>5, <1>6, BaseRequest DEF Places
<1>16. q \in RequestState
    BY <1>15 DEF RequestState
<1>8. /\ q.at = "upsert" /\ q.todo = req[r].todo /\ q.signal = x
      /\ q.pending = pending
    BY BaseRequest DEF RequestState
<1>9. /\ q.logged = logged /\ q.gaveUp = req[r].gaveUp /\ q.raised = req[r].raised
      /\ q.was = was /\ q.ledger = ledger
    BY BaseRequest DEF RequestState
<1>10. req' = [req EXCEPT ![r] = q]
    BY <1>7, BaseTypes
<1> HIDE DEF q
<1>11. OnlyRequest(r) /\ req'[r] = q
    BY <1>16, <1>10, Moved
<1>12. PlaceOK(r)'
    BY <1>1, <1>3, <1>5, <1>6, <1>8, <1>9, <1>11 DEF PlaceOK, AtSubject, Folding
<1>13. TodoOK(r)'
    <2>1. TodoOK(r) /\ (Len(req[r].todo) = 2 => req[r].todo[2] # x.subject)
        BY <1>1, <1>3, BaseRequest, SubjectFacts DEF s, TodoOK
    <2>2. \A y \in AllSignals : logged[y] > 0 => y = x \/ req[r].logged[y] > 0
        BY <1>5
    <2> QED
        BY <1>1, <1>8, <1>9, <1>11, <2>1, <2>2 DEF TodoOK, Folding
<1>14. TypeOK'
    BY <1>1, <1>11, TypesKept DEF OnlyRequest
<1> QED
    BY <1>1, <1>2, <1>3, <1>8, <1>9, <1>11, <1>12, <1>13, <1>14, StepKeepsBase
       DEF was, ledger, logged, pending, s

LEMMA RefusedBase ==
    ASSUME Base, NEW r \in Requests, UpsertAssessment(r),
           ~MayUpsert(Seen(assessments, r)[Subject(r)], req[r].was)
    PROVE  /\ Base' /\ OnlyRequest(r) /\ TablesSame /\ UNCHANGED <<past, memory>>
           /\ Subject(r) \in Users /\ req'[r].todo = req[r].todo
           /\ req'[r].at \in {"fold", "upsert"} /\ req[r].at = "upsert"
           /\ req'[r].was = Seen(assessments, r)[Subject(r)]
           /\ req'[r].raised = req[r].raised /\ req'[r].logged = req[r].logged
           /\ req'[r].signal = req[r].signal /\ req'[r].ledger = req[r].ledger
           /\ req'[r].pending = req[r].pending
           /\ req'[r].at = "upsert" => req'[r].gaveUp = req[r].gaveUp
           /\ req'[r].at = "fold" => req'[r].gaveUp = req[r].gaveUp \cup {req[r].signal}
<1> DEFINE was == Seen(assessments, r)[Subject(r)]
           attempt == AtMost(req[r].attempt + 1, MaxFoldAttempts)
           gaveUp == req[r].gaveUp \cup
                         {x \in {req[r].signal} : req[r].attempt = MaxFoldAttempts}
           at == IF req[r].attempt = MaxFoldAttempts THEN "fold" ELSE "upsert"
           q == [req[r] EXCEPT !.was = was, !.attempt = attempt, !.gaveUp = gaveUp, !.at = at]
<1>1. /\ req[r].at = "upsert" /\ TablesSame /\ UNCHANGED <<past, memory>>
      /\ req[r].todo # <<>> /\ req[r].signal \in AllSignals
      /\ req' = [req EXCEPT ![r].was = was, ![r].attempt = AtMost(@ + 1, MaxFoldAttempts),
                            ![r].gaveUp = @ \cup {x \in {req[r].signal} :
                                                      req[r].attempt = MaxFoldAttempts},
                            ![r].at = at]
    BY BaseRequest DEF UpsertAssessment, At, TablesSame, PlaceOK, AtSubject
<1>2. Subject(r) \in Users
    BY <1>1, SubjectFacts
<1>3. was \in AssessmentRow \cup {None}
    BY <1>2, BaseTypes DEF Seen, Versions
<1>4. attempt \in 0..MaxFoldAttempts
    <2>1. req[r].attempt \in 0..MaxFoldAttempts
        BY BaseRequest DEF RequestState
    <2> QED
        BY <2>1, BoundsAssumption DEF AtMost
<1>5. /\ gaveUp \in SUBSET AllSignals /\ at \in {"fold", "upsert"}
      /\ at = "upsert" => gaveUp = req[r].gaveUp
      /\ at = "fold" => gaveUp = req[r].gaveUp \cup {req[r].signal}
    BY <1>1, BaseRequest
<1>6. at \in Places
    BY <1>5 DEF Places
<1>7. req' = [req EXCEPT ![r].was = was, ![r].attempt = attempt, ![r].gaveUp = gaveUp,
                         ![r].at = at]
    BY <1>1, BaseTypes
<1> HIDE DEF was, attempt, gaveUp, at
<1>8. q \in RequestState
    BY ZenonT(60), <1>3, <1>4, <1>5, <1>6, BaseRequest DEF RequestState
<1>9. /\ q.at = at /\ q.was = was /\ q.gaveUp = gaveUp /\ q.todo = req[r].todo
      /\ q.pending = req[r].pending /\ q.signal = req[r].signal /\ q.ledger = req[r].ledger
      /\ q.logged = req[r].logged /\ q.raised = req[r].raised
    BY BaseRequest DEF RequestState
<1>10. req' = [req EXCEPT ![r] = q]
    BY <1>7, BaseTypes
<1> HIDE DEF q
<1>11. OnlyRequest(r) /\ req'[r] = q
    BY <1>8, <1>10, Moved
<1>12. PlaceOK(r)'
    BY ZenonT(60), <1>1, <1>5, <1>9, <1>11, BaseRequest DEF PlaceOK, AtSubject, Folding
<1>13. TodoOK(r)'
    <2>1. /\ req[r].todo = <<>> \/ Len(req[r].todo) \in {1, 2}
          /\ Len(req[r].todo) = 2 => req[r].todo[1] # req[r].todo[2]
          /\ \A x \in AllSignals : req[r].logged[x] > 0 =>
                 (Len(req[r].todo) = 2 => req[r].todo[2] # x.subject)
        BY <1>1, BaseRequest DEF TodoOK, Folding
    <2>2. req'[r].todo = req[r].todo /\ req'[r].logged = req[r].logged
          /\ req'[r].at \notin {"evaluate", "seed", "seeded"}
        BY <1>5, <1>9, <1>11
    <2> QED
        BY <2>1, <2>2 DEF TodoOK
<1>14. TypeOK'
    BY <1>1, <1>11, TypesKept DEF OnlyRequest
<1> QED
    BY <1>1, <1>2, <1>5, <1>9, <1>11, <1>12, <1>13, <1>14, StepKeepsBase DEF was

LEMMA AssessSignalType ==
    ASSUME NEW state \in RiskStates, NEW ledger, NEW signal
    PROVE  AssessSignal(state, Catalogue, signal, ledger) \in RiskStates
<1>1. ASSUME NEW author, NEW detectors, NEW repetitions
      PROVE  AssessRisk(state, author, detectors, repetitions) \in RiskStates
    <2> DEFINE score == EffectiveScore(author, detectors, repetitions)
               event == SelectEvent(state, score, detectors >= 2)
               moves == RiskMoves(state, event, score, detectors, 0, FALSE)
    <2>1. event \in {"threshold_crossed", "signal_observed"}
        BY DEF SelectEvent
    <2>2. moves \in {{}, {"elevated"}, {"high"}, {"critical"}}
        <3> HIDE DEF score, event
        <3>1. CASE event = "threshold_crossed"
            BY <3>1 DEF RiskMoves, RiskStates
        <3>2. CASE event = "signal_observed"
            BY <3>2 DEF RiskMoves, RiskStates
        <3> QED
            BY <2>1, <3>1, <3>2
    <2>3. AssessRisk(state, author, detectors, repetitions) \in moves \cup {state}
        BY DEF AssessRisk
    <2> HIDE DEF moves
    <2> QED
        BY <2>2, <2>3 DEF RiskStates
<1> QED
    BY <1>1 DEF AssessSignal

LEMMA ApplyType ==
    ASSUME NEW was \in AssessmentRow \cup {None}, NEW x \in AllSignals, NEW ledger
    PROVE  /\ ApplySignal(was, x, ledger) \in AssessmentRow
           /\ LET record == IF was = None THEN EmptyRiskRecord ELSE was
                  next == ApplySignal(was, x, ledger)
              IN  /\ next.state = AssessSignal(record.state, Catalogue, x, AsBag(ledger))
                  /\ next.generation = record.generation + 1
                  /\ record.detectors \subseteq next.detectors
                  /\ x.kind = "report_against" \/ x.detector \in next.detectors
                  /\ record \in AssessmentRow
<1> DEFINE record == IF was = None THEN EmptyRiskRecord ELSE was
<1>1. record \in AssessmentRow
    BY DEF EmptyRiskRecord, AssessmentRow, RiskStates
<1>2. record.state \in RiskStates /\ record.generation \in Nat
      /\ record.detectors \in SUBSET DOMAIN Catalogue
    BY <1>1 DEF AssessmentRow
<1> HIDE DEF record
<1>3. AssessSignal(record.state, Catalogue, x, AsBag(ledger)) \in RiskStates
    BY <1>2, AssessSignalType
<1>4. x.detector \in DOMAIN Catalogue
    BY SignalFacts DEF Detectors, Catalogue
<1>5. ApplySignal(was, x, ledger) =
          [state |-> AssessSignal(record.state, Catalogue, x, AsBag(ledger)),
           detectors |-> IF x.kind = "report_against" THEN record.detectors
                         ELSE record.detectors \cup {x.detector},
           generation |-> record.generation + 1]
    BY DEF ApplySignal, record
<1>6. /\ ApplySignal(was, x, ledger).state
             = AssessSignal(record.state, Catalogue, x, AsBag(ledger))
      /\ ApplySignal(was, x, ledger).generation = record.generation + 1
      /\ record.detectors \subseteq ApplySignal(was, x, ledger).detectors
      /\ x.kind = "report_against" \/ x.detector \in ApplySignal(was, x, ledger).detectors
    BY <1>5
<1>7. ApplySignal(was, x, ledger) \in AssessmentRow
    BY <1>2, <1>3, <1>4, <1>5 DEF AssessmentRow
<1> QED
    BY <1>1, <1>6, <1>7 DEF record

LEMMA PutFacts ==
    ASSUME NEW table \in [Users -> Versions(AssessmentRow \cup {None}, Requests)],
           NEW s \in Users, NEW r \in Requests, NEW row \in AssessmentRow \cup {None}
    PROVE  /\ Put(table, s, r, row) \in [Users -> Versions(AssessmentRow \cup {None}, Requests)]
           /\ Put(table, s, r, row)[s] = [row |-> table[s].row, next |-> row, by |-> r]
           /\ \A u \in Users \ {s} : Put(table, s, r, row)[u] = table[u]
  BY DEF Put, Versions

LEMMA ClusterFacts ==
    ASSUME NEW ledger, NEW x \in AllSignals
    PROVE  MassReport(AsBag(ledger), x, ClusterSize) \in SUBSET Users
  BY SignalFacts DEF MassReport, Recent, AsBag, BagToSet

LEMMA AppliedBase ==
    ASSUME Base, NEW r \in Requests, UpsertAssessment(r),
           MayUpsert(Seen(assessments, r)[Subject(r)], req[r].was)
    PROVE  /\ Base' /\ OnlyRequest(r) /\ UNCHANGED <<signals, cases>>
           /\ UNCHANGED <<past.unfolded, past.lost, past.broken>>
           /\ UNCHANGED <<memory.opened, memory.observed>>
           /\ Subject(r) \in Users /\ req'[r].todo = req[r].todo
           /\ req'[r].at = "raise" /\ req[r].at = "upsert"
           /\ req[r].signal \in AllSignals /\ req[r].signal.subject = Subject(r)
           /\ FreeFor(assessments, Subject(r), r)
           /\ assessments' = Put(assessments, Subject(r), r,
                                 ApplySignal(req[r].was, req[r].signal, req[r].ledger))
           /\ \E ledger \in AppendSignal(req[r].ledger, req[r].signal) :
                  memory'.ledger = [memory.ledger EXCEPT ![Subject(r)] = ledger]
           /\ req'[r].raised = req[r].raised /\ req'[r].logged = req[r].logged
           /\ req'[r].gaveUp = req[r].gaveUp /\ req'[r].pending = req[r].pending
<1> DEFINE s == Subject(r)
           x == req[r].signal
           cluster == MassReport(AsBag(req[r].ledger), x, ClusterSize)
           row == ApplySignal(req[r].was, x, req[r].ledger)
           q == [req[r] EXCEPT !.members = cluster, !.at = "raise"]
<1>1. /\ req[r].at = "upsert" /\ req[r].todo # <<>> /\ x \in AllSignals
      /\ x.subject = Head(req[r].todo) /\ UNCHANGED <<signals, cases, clock>>
    BY BaseRequest DEF UpsertAssessment, At, PlaceOK, AtSubject
<1>2. PICK ledger \in AppendSignal(req[r].ledger, x) :
      /\ FreeFor(assessments, s, r)
      /\ assessments' = Put(assessments, s, r, row)
      /\ memory' = [memory EXCEPT !.ledger[s] = ledger]
      /\ \E missed \in SUBSET AllSignals : past' = [past EXCEPT !.missed = @ \cup missed]
      /\ req' = [req EXCEPT ![r].members = cluster, ![r].at = "raise"]
    BY DEF UpsertAssessment
<1>3. s \in Users /\ x.subject = s
    BY <1>1, SubjectFacts DEF Subject
<1>4. cluster \in SUBSET Users /\ ledger \in Ledgers /\ row \in AssessmentRow
    <2>1. req[r].was \in AssessmentRow \cup {None} /\ req[r].ledger \in Ledgers
        BY BaseRequest
    <2> QED
        BY <1>1, <1>2, <2>1, ClusterFacts, AppendedFacts, ApplyType
<1>5. /\ assessments' \in [Users -> Versions(AssessmentRow \cup {None}, Requests)]
    BY <1>2, <1>3, <1>4, BaseTypes, PutFacts
<1> HIDE DEF cluster, row, s, x
<1>6. /\ memory' \in [observed : Seq(Observations), ledger : [Users -> Ledgers],
                      seeded : SUBSET Users, opened : SUBSET (Users \X Users)]
      /\ UNCHANGED <<memory.opened, memory.observed>>
      /\ memory'.ledger = [memory.ledger EXCEPT ![s] = ledger]
    BY <1>2, <1>3, <1>4, MemoryType
<1>14. /\ past' \in [observed : Nat, restarts : Nat, unfolded : SUBSET AllSignals,
                     lost : SUBSET AllSignals, broken : SUBSET Users, late : SUBSET Users,
                     missed : SUBSET AllSignals]
       /\ UNCHANGED <<past.unfolded, past.lost, past.broken>>
    BY <1>2 DEF Base, TypeOK
<1>7. q \in RequestState
    BY ZenonT(60), <1>4, BaseRequest DEF RequestState, Places
<1>8. /\ q.at = "raise" /\ q.todo = req[r].todo /\ q.pending = req[r].pending
      /\ q.logged = req[r].logged /\ q.gaveUp = req[r].gaveUp /\ q.raised = req[r].raised
    BY BaseRequest DEF RequestState
<1>9. req' = [req EXCEPT ![r] = q]
    BY <1>2, BaseTypes
<1> HIDE DEF q
<1>10. OnlyRequest(r) /\ req'[r] = q
    BY <1>7, <1>9, Moved
<1>11. PlaceOK(r)'
    BY <1>1, <1>8, <1>10, BaseRequest DEF PlaceOK, AtSubject, Folding
<1>12. TodoOK(r)'
    <2>1. /\ req[r].todo = <<>> \/ Len(req[r].todo) \in {1, 2}
          /\ Len(req[r].todo) = 2 => req[r].todo[1] # req[r].todo[2]
          /\ \A y \in AllSignals : req[r].logged[y] > 0 =>
                 (Len(req[r].todo) = 2 => req[r].todo[2] # y.subject)
        BY <1>1, BaseRequest DEF TodoOK, Folding
    <2>2. /\ req'[r].todo = req[r].todo /\ req'[r].logged = req[r].logged
          /\ req'[r].at \notin {"evaluate", "seed", "seeded"}
        BY <1>8, <1>10
    <2> QED
        BY <2>1, <2>2 DEF TodoOK
<1>13. TypeOK'
    BY <1>1, <1>5, <1>6, <1>10, <1>14 DEF Base, TypeOK, OnlyRequest
<1> QED
    BY <1>1, <1>2, <1>3, <1>6, <1>8, <1>10, <1>11, <1>12, <1>13, <1>14, StepKeepsBase
       DEF s, x, row

LEMMA InsertCaseBase ==
    ASSUME Base, NEW r \in Requests, InsertCase(r)
    PROVE  /\ Base' /\ Quiet(r) /\ UNCHANGED memory
           /\ req[r].at = "raise" /\ req'[r].at \in {"fold", "mark"}
<1>1. /\ req[r].at = "raise" /\ TablesSame /\ UNCHANGED <<past, memory>> /\ req[r].todo # <<>>
      /\ \A x \in req[r].pending : x.subject = Head(req[r].todo)
    BY BaseRequest DEF InsertCase, At, TablesSame, PlaceOK, AtSubject, Folding
<1>2. /\ req[r].todo = <<>> \/ Len(req[r].todo) \in {1, 2}
      /\ Len(req[r].todo) = 2 => req[r].todo[1] # req[r].todo[2]
      /\ \A y \in AllSignals : req[r].logged[y] > 0 =>
             (Len(req[r].todo) = 2 => req[r].todo[2] # y.subject)
    BY <1>1, BaseRequest DEF TodoOK, Folding
<1>3. ASSUME NEW q \in RequestState, req' = [req EXCEPT ![r] = q], q.at \in {"fold", "mark"},
             q.at = "mark" => q.offered \in Users, q.todo = req[r].todo,
             q.pending = req[r].pending, q.logged = req[r].logged, q.gaveUp = req[r].gaveUp
      PROVE  Base' /\ Quiet(r) /\ req'[r].at \in {"fold", "mark"}
    <2>1. OnlyRequest(r) /\ req'[r] = q
        BY <1>3, Moved
    <2>2. PlaceOK(r)'
        BY <1>1, <1>3, <2>1 DEF PlaceOK
    <2>3. TodoOK(r)'
        BY <1>2, <1>3, <2>1 DEF TodoOK
    <2>4. TypeOK'
        BY <1>1, <2>1, TypesKept DEF OnlyRequest
    <2> QED
        BY <1>1, <1>3, <2>1, <2>2, <2>3, <2>4, StepKeepsBase DEF Quiet
<1>4. CASE Unopened(r) = {}
    <2> DEFINE q == [req[r] EXCEPT !.members = {}, !.at = "fold"]
    <2>1. q \in RequestState
        BY ZenonT(60), BaseRequest DEF RequestState, Places
    <2>2. /\ q.at = "fold" /\ q.todo = req[r].todo /\ q.pending = req[r].pending
          /\ q.logged = req[r].logged /\ q.gaveUp = req[r].gaveUp
        BY BaseRequest DEF RequestState
    <2>3. req' = [req EXCEPT ![r] = q]
        BY <1>4, BaseTypes DEF InsertCase
    <2> HIDE DEF q
    <2> QED
        BY <1>1, <1>3, <2>1, <2>2, <2>3
<1>5. CASE Unopened(r) # {}
    <2> DEFINE u == CHOOSE x \in Unopened(r) : TRUE
               raised == req[r].raised \cup {<<Subject(r), u>>}
               members == req[r].members \ {u}
               q == [req[r] EXCEPT !.raised = raised, !.members = members, !.offered = u,
                                   !.at = "mark"]
    <2>1. u \in Users
        BY <1>5, BaseRequest DEF Unopened
    <2>2. raised \in SUBSET (Users \X Users) /\ members \in SUBSET Users
        <3>1. Subject(r) \in Users
            BY <1>1, SubjectFacts
        <3>2. req[r].raised \in SUBSET (Users \X Users) /\ req[r].members \in SUBSET Users
            BY BaseRequest
        <3> HIDE DEF u
        <3>3. <<Subject(r), u>> \in Users \X Users
            BY <2>1, <3>1
        <3> QED
            BY <3>2, <3>3
    <2>3. req' = [req EXCEPT ![r].raised = raised, ![r].members = members, ![r].offered = u,
                             ![r].at = "mark"]
        BY <1>5, BaseTypes DEF InsertCase
    <2> HIDE DEF u, raised, members
    <2>4. q \in RequestState
        BY ZenonT(60), <2>1, <2>2, BaseRequest DEF RequestState, Places
    <2>5. /\ q.at = "mark" /\ q.offered = u /\ q.todo = req[r].todo
          /\ q.pending = req[r].pending
          /\ q.logged = req[r].logged /\ q.gaveUp = req[r].gaveUp
        BY BaseRequest DEF RequestState
    <2>6. req' = [req EXCEPT ![r] = q]
        BY <2>3, BaseTypes
    <2> HIDE DEF q
    <2> QED
        BY <1>1, <1>3, <2>1, <2>4, <2>5, <2>6
<1> QED
    BY <1>1, <1>4, <1>5

LEMMA MarkOpenedBase ==
    ASSUME Base, NEW r \in Requests, MarkOpened(r)
    PROVE  /\ Base' /\ Quiet(r) /\ req[r].at = "mark" /\ req'[r].at = "raise"
           /\ UNCHANGED <<memory.ledger, memory.observed>>
<1> DEFINE q == [req[r] EXCEPT !.offered = None, !.at = "raise"]
<1>1. /\ req[r].at = "mark" /\ TablesSame /\ UNCHANGED past /\ req[r].todo # <<>>
      /\ \A x \in req[r].pending : x.subject = Head(req[r].todo)
      /\ req[r].offered \in Users
    BY BaseRequest DEF MarkOpened, At, TablesSame, PlaceOK, AtSubject, Folding
<1>2. /\ req[r].todo = <<>> \/ Len(req[r].todo) \in {1, 2}
      /\ Len(req[r].todo) = 2 => req[r].todo[1] # req[r].todo[2]
      /\ \A y \in AllSignals : req[r].logged[y] > 0 =>
             (Len(req[r].todo) = 2 => req[r].todo[2] # y.subject)
    BY <1>1, BaseRequest DEF TodoOK, Folding
<1>3. q \in RequestState
    BY ZenonT(60), BaseRequest DEF RequestState, Places
<1>4. /\ q.at = "raise" /\ q.todo = req[r].todo /\ q.pending = req[r].pending
      /\ q.logged = req[r].logged /\ q.gaveUp = req[r].gaveUp
    BY BaseRequest DEF RequestState
<1>5. req' = [req EXCEPT ![r] = q]
    BY BaseTypes DEF MarkOpened
<1> HIDE DEF q
<1>6. OnlyRequest(r) /\ req'[r] = q
    BY <1>3, <1>5, Moved
<1>7. Subject(r) \in Users
    BY <1>1, SubjectFacts
<1>8. memory' = [memory EXCEPT !.opened = @ \cup {<<Subject(r), req[r].offered>>}]
    BY DEF MarkOpened
<1>9. /\ memory' \in [observed : Seq(Observations), ledger : [Users -> Ledgers],
                      seeded : SUBSET Users, opened : SUBSET (Users \X Users)]
      /\ UNCHANGED <<memory.ledger, memory.observed>>
    BY <1>1, <1>7, <1>8, MemoryType
<1>10. PlaceOK(r)'
    BY <1>1, <1>4, <1>6 DEF PlaceOK
<1>11. TodoOK(r)'
    BY <1>2, <1>4, <1>6 DEF TodoOK
<1>12. TypeOK'
    BY <1>1, <1>6, <1>9, TypesKept DEF OnlyRequest
<1> QED
    BY <1>1, <1>4, <1>6, <1>9, <1>10, <1>11, <1>12, StepKeepsBase DEF Quiet

(* What Commit, Rollback and a restart leave of a row.                       *)
LEMMA EndFacts ==
    ASSUME Base, NEW u \in Users, NEW r \in Requests
    PROVE  /\ assessments[u].row \in AssessmentRow \cup {None}
           /\ assessments[u].next \in AssessmentRow \cup {None}
           /\ assessments[u].by \in Requests \cup {None}
           /\ Commit(assessments, r)[u]
                  = IF assessments[u].by = r THEN Settled(assessments[u].next) ELSE assessments[u]
           /\ Rollback(assessments, r)[u]
                  = IF assessments[u].by = r THEN Settled(assessments[u].row) ELSE assessments[u]
<1>1. assessments[u] \in Versions(AssessmentRow \cup {None}, Requests)
    BY BaseTypes
<1>2. u \in DOMAIN assessments
    BY BaseTypes
<1> QED
    BY <1>1, <1>2 DEF Versions, Commit, Rollback

LEMMA SettledFacts ==
    ASSUME NEW row
    PROVE  /\ Settled(row).row = row /\ Settled(row).next = row /\ Settled(row).by = None
           /\ row \in AssessmentRow \cup {None}
              => Settled(row) \in Versions(AssessmentRow \cup {None}, Requests)
  BY DEF Settled, Versions

LEMMA EndTypes ==
    ASSUME Base, NEW r \in Requests
    PROVE  /\ Commit(assessments, r) \in [Users -> Versions(AssessmentRow \cup {None}, Requests)]
           /\ Rollback(assessments, r) \in [Users -> Versions(AssessmentRow \cup {None}, Requests)]
           /\ [u \in Users |-> Settled(assessments[u].row)]
                  \in [Users -> Versions(AssessmentRow \cup {None}, Requests)]
<1>1. ASSUME NEW u \in Users
      PROVE  /\ Commit(assessments, r)[u] \in Versions(AssessmentRow \cup {None}, Requests)
             /\ Rollback(assessments, r)[u] \in Versions(AssessmentRow \cup {None}, Requests)
             /\ Settled(assessments[u].row) \in Versions(AssessmentRow \cup {None}, Requests)
    <2> DEFINE Rows == AssessmentRow \cup {None}
    <2> HIDE DEF Rows
    <2>1. /\ assessments[u] \in Versions(Rows, Requests)
          /\ assessments[u].row \in Rows /\ assessments[u].next \in Rows
        BY BaseTypes, EndFacts DEF Rows
    <2>2. /\ Settled(assessments[u].row) \in Versions(Rows, Requests)
          /\ Settled(assessments[u].next) \in Versions(Rows, Requests)
        BY <2>1 DEF Settled, Versions
    <2>3. /\ Commit(assessments, r)[u] \in {Settled(assessments[u].next), assessments[u]}
          /\ Rollback(assessments, r)[u] \in {Settled(assessments[u].row), assessments[u]}
        BY EndFacts
    <2> QED
        BY <2>1, <2>2, <2>3 DEF Rows
<1>2. Commit(assessments, r) = [u \in Users |-> Commit(assessments, r)[u]]
    BY BaseTypes DEF Commit
<1>3. Rollback(assessments, r) = [u \in Users |-> Rollback(assessments, r)[u]]
    BY BaseTypes DEF Rollback
<1> QED
    BY <1>1, <1>2, <1>3

LEMMA IdleBase ==
    ASSUME Base, NEW r \in Requests, req' = [req EXCEPT ![r] = Idle], TypeOK'
    PROVE  Base' /\ OnlyRequest(r) /\ req'[r] = Idle
<1>1. OnlyRequest(r) /\ req'[r] = Idle
    BY IdleFacts, Moved
<1>2. PlaceOK(r)' /\ TodoOK(r)'
    BY <1>1, IdleFacts, LedgerFacts DEF PlaceOK, TodoOK, AtSubject, Folding
<1> QED
    BY <1>1, <1>2, StepKeepsBase

LEMMA EvaluatingType ==
    ASSUME Base, NEW r \in Requests
    PROVE  Evaluating(r) \in SUBSET Users
<1>1. req[r].todo \in Seq(Users)
    BY BaseRequest
<1>2. \A i \in DOMAIN req[r].todo : req[r].todo[i] \in Users
    BY <1>1
<1>3. \A x \in AllSignals : x.subject \in Users
    BY SignalFacts
<1> QED
    BY <1>2, <1>3 DEF Evaluating

LEMMA CommitBase ==
    ASSUME Base, NEW r \in Requests, CommitRequest(r)
    PROVE  /\ Base' /\ OnlyRequest(r) /\ req'[r] = Idle /\ UNCHANGED memory
           /\ req[r].at = "reply" /\ assessments' = Commit(assessments, r)
           /\ past'.unfolded = past.unfolded \cup req[r].gaveUp /\ past'.lost = past.lost
           /\ \A x \in AllSignals : signals'[x] > 0 <=> signals[x] > 0 \/ req[r].logged[x] > 0
<1>1. /\ req[r].at = "reply" /\ UNCHANGED <<memory, clock>> /\ assessments' = Commit(assessments, r)
      /\ req' = [req EXCEPT ![r] = Idle]
    BY DEF CommitRequest, At
<1>2. ASSUME NEW x \in AllSignals
      PROVE  /\ signals[x] + req[r].logged[x] \in Nat
             /\ signals[x] + req[r].logged[x] > 0 <=> signals[x] > 0 \/ req[r].logged[x] > 0
    <2>1. signals[x] \in Nat /\ req[r].logged[x] \in Nat
        BY BaseTypes, BaseRequest DEF Ledgers
    <2> QED
        BY <2>1, AddedFacts
<1>3. signals' = [x \in AllSignals |-> signals[x] + req[r].logged[x]]
    BY DEF CommitRequest
<1>4. /\ signals' \in Ledgers
      /\ \A x \in AllSignals : signals'[x] > 0 <=> signals[x] > 0 \/ req[r].logged[x] > 0
    BY <1>2, <1>3 DEF Ledgers
<1>5. cases' \in [Users \X Users -> Nat]
    <2>1. cases' = [p \in Users \X Users |-> IF p \in req[r].raised THEN cases[p] + 1
                                                                    ELSE cases[p]]
        BY DEF CommitRequest
    <2>2. \A p \in Users \X Users : cases[p] \in Nat
        BY BaseTypes
    <2> QED
        BY <2>1, <2>2
<1>6. /\ past' \in [observed : Nat, restarts : Nat, unfolded : SUBSET AllSignals,
                    lost : SUBSET AllSignals, broken : SUBSET Users, late : SUBSET Users,
                    missed : SUBSET AllSignals]
      /\ past'.unfolded = past.unfolded \cup req[r].gaveUp /\ past'.lost = past.lost
    BY BaseRequest DEF CommitRequest, Base, TypeOK
<1>7. req' \in [Requests -> RequestState]
    BY <1>1, BaseTypes, IdleFacts
<1>8. TypeOK'
    BY <1>1, <1>4, <1>5, <1>6, <1>7, EndTypes DEF Base, TypeOK
<1> QED
    BY <1>1, <1>4, <1>6, <1>8, IdleBase

LEMMA FailBase ==
    ASSUME Base, NEW r \in Requests, Fail(r)
    PROVE  /\ Base' /\ OnlyRequest(r) /\ req'[r] = Idle /\ UNCHANGED <<signals, cases>>
           /\ memory'.ledger = memory.ledger /\ assessments' = Rollback(assessments, r)
           /\ past'.unfolded = past.unfolded
           /\ past'.lost = past.lost \cup {x \in AllSignals : /\ x.kind # "report_against"
                                                              /\ req[r].logged[x] > 0}
<1>1. /\ UNCHANGED <<signals, cases, clock>> /\ assessments' = Rollback(assessments, r)
      /\ req' = [req EXCEPT ![r] = Idle]
    BY DEF Fail
<1>2. /\ memory' \in [observed : Seq(Observations), ledger : [Users -> Ledgers],
                      seeded : SUBSET Users, opened : SUBSET (Users \X Users)]
      /\ memory'.ledger = memory.ledger
    <2>1. memory' \in {memory, [memory EXCEPT !.seeded = @ \ {Subject(r)}]}
        BY DEF Fail
    <2> QED
        BY <2>1, MemoryType
<1>3. /\ past' \in [observed : Nat, restarts : Nat, unfolded : SUBSET AllSignals,
                    lost : SUBSET AllSignals, broken : SUBSET Users, late : SUBSET Users,
                    missed : SUBSET AllSignals]
      /\ past'.unfolded = past.unfolded
      /\ past'.lost = past.lost \cup {x \in AllSignals : /\ x.kind # "report_against"
                                                         /\ req[r].logged[x] > 0}
    <2> DEFINE drawn == {x \in AllSignals : x.kind # "report_against" /\ req[r].logged[x] > 0}
               broken == Evaluating(r)
    <2>1. past' = [past EXCEPT !.broken = @ \cup broken, !.lost = @ \cup drawn]
        BY DEF Fail
    <2>2. drawn \in SUBSET AllSignals /\ broken \in SUBSET Users
        BY EvaluatingType
    <2>3. past \in [observed : Nat, restarts : Nat, unfolded : SUBSET AllSignals,
                    lost : SUBSET AllSignals, broken : SUBSET Users, late : SUBSET Users,
                    missed : SUBSET AllSignals]
        BY DEF Base, TypeOK
    <2> HIDE DEF drawn, broken
    <2>4. /\ past' \in [observed : Nat, restarts : Nat, unfolded : SUBSET AllSignals,
                        lost : SUBSET AllSignals, broken : SUBSET Users, late : SUBSET Users,
                    missed : SUBSET AllSignals]
          /\ past'.unfolded = past.unfolded /\ past'.lost = past.lost \cup drawn
        BY <2>1, <2>2, <2>3
    <2> QED
        BY <2>4 DEF drawn
<1>4. req' \in [Requests -> RequestState]
    BY <1>1, BaseTypes, IdleFacts
<1>5. TypeOK'
    BY <1>1, <1>2, <1>3, <1>4, EndTypes DEF Base, TypeOK
<1> QED
    BY <1>1, <1>2, <1>3, <1>5, IdleBase

LEMMA RestartBase ==
    ASSUME Base, Restart
    PROVE  /\ Base' /\ UNCHANGED <<signals, cases>> /\ memory' = EmptyMemory
           /\ assessments' = [u \in Users |-> Settled(assessments[u].row)]
           /\ past'.unfolded = past.unfolded /\ past'.lost = past.lost
           /\ \A r \in Requests : req'[r] = Idle
<1>1. /\ UNCHANGED <<signals, cases, clock>> /\ memory' = EmptyMemory
      /\ assessments' = [u \in Users |-> Settled(assessments[u].row)]
      /\ req' = [r \in Requests |-> Idle]
    BY DEF Restart
<1>2. memory' \in [observed : Seq(Observations), ledger : [Users -> Ledgers],
                   seeded : SUBSET Users, opened : SUBSET (Users \X Users)]
    BY <1>1, LedgerFacts DEF EmptyMemory
<1>3. /\ past' \in [observed : Nat, restarts : Nat, unfolded : SUBSET AllSignals,
                    lost : SUBSET AllSignals, broken : SUBSET Users, late : SUBSET Users,
                    missed : SUBSET AllSignals]
      /\ past'.unfolded = past.unfolded /\ past'.lost = past.lost
    <2>1. {x.subject : x \in {y \in AllSignals : signals[y] > 0}} \in SUBSET Users
        BY SignalFacts
    <2> QED
        <3> DEFINE broken == {x.subject : x \in {y \in AllSignals : signals[y] > 0}}
        <3>1. past' = [past EXCEPT !.restarts = @ + 1, !.broken = broken]
            BY DEF Restart
        <3>2. past \in [observed : Nat, restarts : Nat, unfolded : SUBSET AllSignals,
                        lost : SUBSET AllSignals, broken : SUBSET Users, late : SUBSET Users,
                    missed : SUBSET AllSignals]
            BY DEF Base, TypeOK
        <3> HIDE DEF broken
        <3>3. past.restarts + 1 \in Nat
            BY <3>2
        <3> QED
            BY <2>1, <3>1, <3>2, <3>3 DEF broken
<1>4. /\ req' \in [Requests -> RequestState] /\ \A r \in Requests : req'[r] = Idle
    BY <1>1, IdleFacts
<1>5. TypeOK'
    <2>1. assessments' \in [Users -> Versions(AssessmentRow \cup {None}, Requests)]
        <3>1. ASSUME NEW u \in Users
              PROVE  Settled(assessments[u].row) \in Versions(AssessmentRow \cup {None}, Requests)
            <4>1. assessments[u].row \in AssessmentRow \cup {None}
                BY BaseTypes DEF Versions
            <4> QED
                BY <4>1, SettledFacts
        <3> QED
            BY <1>1, <3>1
    <2> QED
        BY <1>1, <1>2, <1>3, <1>4, <2>1 DEF Base, TypeOK
<1>6. \A r \in Requests : PlaceOK(r)' /\ TodoOK(r)'
    BY <1>4, IdleFacts, LedgerFacts DEF PlaceOK, TodoOK, AtSubject, Folding
<1> QED
    BY <1>1, <1>3, <1>4, <1>5, <1>6 DEF Base

LEMMA BaseInit == Init => Base
<1> SUFFICES ASSUME Init PROVE Base
    OBVIOUS
<1>1. /\ assessments = [u \in Users |-> Settled(None)] /\ signals = NoSignals
      /\ cases = [p \in Users \X Users |-> 0] /\ memory = EmptyMemory
      /\ req = [r \in Requests |-> Idle]
      /\ past = [observed |-> 0, restarts |-> 0, unfolded |-> {}, lost |-> {}, broken |-> {},
                  late |-> {}, missed |-> {}]
      /\ clock \in Instants
    BY DEF Init
<1>2. TypeOK
    <2>1. assessments \in [Users -> Versions(AssessmentRow \cup {None}, Requests)]
        BY <1>1, SettledFacts
    <2>2. /\ signals \in Ledgers /\ cases \in [Users \X Users -> Nat]
          /\ req \in [Requests -> RequestState]
        BY <1>1, LedgerFacts, IdleFacts
    <2>3. memory \in [observed : Seq(Observations), ledger : [Users -> Ledgers],
                      seeded : SUBSET Users, opened : SUBSET (Users \X Users)]
        BY <1>1, LedgerFacts DEF EmptyMemory
    <2>4. past \in [observed : Nat, restarts : Nat, unfolded : SUBSET AllSignals,
                    lost : SUBSET AllSignals, broken : SUBSET Users, late : SUBSET Users,
                    missed : SUBSET AllSignals]
        BY <1>1
    <2> QED
        BY <1>1, <2>1, <2>2, <2>3, <2>4 DEF TypeOK
<1>3. \A r \in Requests : PlaceOK(r) /\ TodoOK(r)
    BY <1>1, IdleFacts, LedgerFacts DEF PlaceOK, TodoOK, AtSubject, Folding
<1> QED
    BY <1>2, <1>3 DEF Base

(* The clock goes on, or nothing happens.                                    *)
Still == UNCHANGED <<assessments, signals, cases, memory, req, past>>

LEMMA BaseStutter ==
    ASSUME Base, Still, clock' \in Instants
    PROVE  Base'
<1>1. TypeOK' /\ req' = req
    BY DEF Base, TypeOK, Still
<1>2. \A r \in Requests : PlaceOK(r)' /\ TodoOK(r)'
    BY <1>1 DEF Base, PlaceOK, TodoOK
<1> QED
    BY <1>1, <1>2 DEF Base

-----------------------------------------------------------------------------
(* What a step does: one request moves and leaves the tables, or it writes   *)
(* an assessment, or it ends, or the process restarts.                       *)

Local(r) ==
    /\ OnlyRequest(r) /\ TablesSame /\ UNCHANGED <<past.unfolded, past.lost>>
    /\ req'[r].at \in {"seeded", "upsert"} => Subject(r) \in Users /\ req'[r].todo = req[r].todo
    /\ req'[r].at = "upsert" => req'[r].was = Seen(assessments, r)[Subject(r)]
    /\ \A x \in AllSignals : req[r].logged[x] > 0 => req'[r].logged[x] > 0
    /\ \A x \in AllSignals : req'[r].logged[x] > 0 =>
           \/ x \in req'[r].gaveUp
           \/ req'[r].at = "upsert" /\ req'[r].signal = x
           \/ /\ req[r].logged[x] > 0 /\ x \notin req[r].gaveUp
              /\ ~(req[r].at = "upsert" /\ req[r].signal = x)
    /\ \A u \in Users, x \in AllSignals : memory'.ledger[u][x] > 0 =>
           \/ memory.ledger[u][x] > 0
           \/ req[r].at = "seeded" /\ u = Subject(r) /\ req[r].ledger[x] > 0
    /\ \A x \in AllSignals :
           req'[r].at \in {"seeded", "upsert"} /\ req'[r].ledger[x] > 0 =>
               \/ signals[x] > 0
               \/ memory.ledger[Subject(r)][x] > 0
               \/ req[r].at = "upsert" /\ req[r].ledger[x] > 0

Applied(r) == UpsertAssessment(r) /\ MayUpsert(Seen(assessments, r)[Subject(r)], req[r].was)

LEMMA QuietIsLocal ==
    ASSUME Base, NEW r \in Requests, Quiet(r), req'[r].at \notin {"seeded", "upsert"},
           req[r].at # "upsert", UNCHANGED memory.ledger
    PROVE  Local(r)
  BY DEF Quiet, Local

LEMMA HandleKinds ==
    ASSUME Base, NEW r \in Requests, Handle(r)
    PROVE  Base' /\ (Local(r) \/ Applied(r))
<1>1. ASSUME NEW b \in Behaviours, Observe(r, b)
      PROVE  Base' /\ Local(r)
    <2>1. /\ Base' /\ OnlyRequest(r) /\ TablesSame /\ req[r] = Idle
          /\ req'[r] = [Idle EXCEPT !.todo = EvaluatedSubjects(b), !.at = "evaluate"]
          /\ UNCHANGED <<past.unfolded, past.lost, memory.ledger>>
        BY <1>1, ObserveBase
    <2>2. req'[r].at = "evaluate" /\ req'[r].logged = NoSignals
        BY <2>1 DEF Idle
    <2> QED
        BY <2>1, <2>2, IdleFacts, LedgerFacts DEF Local
<1>2. CASE Evaluate(r)
    <2>1. req[r].at = "evaluate"
        BY <1>2 DEF Evaluate, At
    <2> QED
        BY <1>2, <2>1, EvaluateBase, QuietIsLocal
<1>3. CASE FindSignalsFor(r)
    <2>1. req[r].at = "seed" /\ Subject(r) \in Users
        BY <1>3, BaseRequest, SubjectFacts DEF FindSignalsFor, At, PlaceOK, AtSubject
    <2> QED
        BY <1>3, <2>1, FindSignalsBase DEF Quiet, Local
<1>4. CASE SeedLedger(r)
    <2>1. /\ Base' /\ Quiet(r) /\ req[r].at = "seeded" /\ req'[r].at = "fold"
          /\ Subject(r) \in Users
          /\ memory'.ledger = [memory.ledger EXCEPT ![Subject(r)] = req[r].ledger]
        BY <1>4, SeedLedgerBase
    <2>2. \A u \in Users : u # Subject(r) => memory'.ledger[u] = memory.ledger[u]
        BY <2>1, BaseTypes
    <2>3. memory'.ledger[Subject(r)] = req[r].ledger
        BY <2>1, BaseTypes
    <2> QED
        BY <2>1, <2>2, <2>3 DEF Quiet, Local
<1>5. CASE FoldNext(r) /\ req[r].pending = {}
    <2>1. req[r].at = "fold"
        BY <1>5 DEF FoldNext, At
    <2> QED
        BY <1>5, <2>1, FoldEndBase, QuietIsLocal
<1>6. CASE FoldNext(r) /\ req[r].pending # {}
    <2> DEFINE x == req'[r].signal
    <2>1. /\ Base' /\ OnlyRequest(r) /\ TablesSame /\ UNCHANGED <<past, memory>>
          /\ Subject(r) \in Users /\ req'[r].todo = req[r].todo /\ req'[r].at = "upsert"
          /\ req'[r].ledger = memory.ledger[Subject(r)]
          /\ req'[r].was = Seen(assessments, r)[Subject(r)]
          /\ req'[r].gaveUp = req[r].gaveUp
          /\ x \in AllSignals /\ req'[r].logged = Plus(req[r].logged, x) /\ req[r].at = "fold"
        BY <1>6, FoldBase
    <2> HIDE DEF x
    <2>2. /\ \A y \in AllSignals : y # x => req'[r].logged[y] = req[r].logged[y]
          /\ \A y \in AllSignals : req[r].logged[y] > 0 => req'[r].logged[y] > 0
        <3>1. PICK ledger \in Ledgers : ledger = req[r].logged
            BY BaseRequest
        <3>2. x \in AllSignals /\ req'[r].logged = Plus(ledger, x)
            BY <2>1, <3>1
        <3> QED
            BY <3>1, <3>2, PlusKeeps
    <2> QED
        BY <2>1, <2>2 DEF Local, x
<1>7. CASE UpsertAssessment(r) /\ ~MayUpsert(Seen(assessments, r)[Subject(r)], req[r].was)
    <2>1. /\ Base' /\ OnlyRequest(r) /\ TablesSame /\ UNCHANGED <<past, memory>>
          /\ Subject(r) \in Users /\ req'[r].todo = req[r].todo
          /\ req'[r].at \in {"fold", "upsert"} /\ req[r].at = "upsert"
          /\ req'[r].was = Seen(assessments, r)[Subject(r)]
          /\ req'[r].logged = req[r].logged
          /\ req'[r].signal = req[r].signal /\ req'[r].ledger = req[r].ledger
          /\ req'[r].at = "upsert" => req'[r].gaveUp = req[r].gaveUp
          /\ req'[r].at = "fold" => req'[r].gaveUp = req[r].gaveUp \cup {req[r].signal}
        BY <1>7, RefusedBase
    <2> QED
        BY <2>1 DEF Local
<1>8. CASE UpsertAssessment(r) /\ MayUpsert(Seen(assessments, r)[Subject(r)], req[r].was)
    BY <1>8, AppliedBase DEF Applied
<1>9. CASE InsertCase(r)
    BY <1>9, InsertCaseBase, QuietIsLocal
<1>10. CASE MarkOpened(r)
    BY <1>10, MarkOpenedBase, QuietIsLocal
<1> QED
    BY <1>1, <1>2, <1>3, <1>4, <1>5, <1>6, <1>7, <1>8, <1>9, <1>10 DEF Handle

LEMMA Steps ==
    ASSUME Base, [Next]_vars
    PROVE  /\ Base'
           /\ \/ Still
              \/ \E r \in Requests : Local(r) \/ Applied(r) \/ CommitRequest(r) \/ Fail(r)
              \/ Restart
<1>1. CASE UNCHANGED vars \/ Tick
    <2>1. Still /\ clock' \in Instants
        BY <1>1, BaseTypes DEF vars, Tick, Still
    <2> QED
        BY <2>1, BaseStutter
<1>2. ASSUME NEW r \in Requests, Handle(r)
      PROVE  Base' /\ (Local(r) \/ Applied(r))
    BY <1>2, HandleKinds
<1>3. ASSUME NEW r \in Requests, CommitRequest(r)
      PROVE  Base'
    BY <1>3, CommitBase
<1>4. ASSUME NEW r \in Requests, Fail(r)
      PROVE  Base'
    BY <1>4, FailBase
<1>5. CASE Restart
    BY <1>5, RestartBase
<1> QED
    BY <1>1, <1>2, <1>3, <1>4, <1>5 DEF Next

LEMMA BaseAlways == Spec => []Base
<1>1. Base /\ [Next]_vars => Base'
    BY Steps
<1> QED
    BY BaseInit, <1>1, PTL DEF Spec

(* Every assessment, signal and case, the recorder's memory and every        *)
(* request in flight keep their types, for any people, behaviours and        *)
(* number of requests, through failures and restarts.                        *)
THEOREM RecorderTypeSafety == Spec => []TypeOK
<1>1. Base => TypeOK
    BY DEF Base
<1> QED
    BY BaseAlways, <1>1, PTL

(* What a request sees of a row is what is committed or what it wrote.       *)
LEMMA SeenFacts ==
    ASSUME Base, NEW u \in Users, NEW r \in Requests
    PROVE  /\ Seen(assessments, r)[u] = IF assessments[u].by = r THEN assessments[u].next
                                                                ELSE assessments[u].row
           /\ assessments[u].row \in AssessmentRow \cup {None}
           /\ assessments[u].next \in AssessmentRow \cup {None}
           /\ assessments[u].by \in Requests \cup {None}
           /\ Seen(assessments, r)[u] \in AssessmentRow \cup {None}
<1>1. u \in DOMAIN assessments
    BY BaseTypes
<1> QED
    BY <1>1, EndFacts DEF Seen

(* What a write leaves of every row.                                         *)
LEMMA AppliedRows ==
    ASSUME Base, NEW r \in Requests, Applied(r)
    PROVE  LET s == Subject(r)
               next == ApplySignal(req[r].was, req[r].signal, req[r].ledger)
           IN  /\ Base' /\ OnlyRequest(r) /\ UNCHANGED <<signals, cases>>
               /\ UNCHANGED <<past.unfolded, past.lost, past.broken>>
               /\ s \in Users /\ req[r].signal \in AllSignals /\ req[r].signal.subject = s
               /\ req[r].at = "upsert" /\ req'[r].at = "raise"
               /\ req'[r].logged = req[r].logged /\ req'[r].gaveUp = req[r].gaveUp
               /\ assessments[s].by \in {None, r}
               /\ assessments'[s].row = assessments[s].row
               /\ assessments'[s].next = next /\ assessments'[s].by = r
               /\ \A u \in Users \ {s} : assessments'[u] = assessments[u]
               /\ memory'.ledger[s] \in AppendSignal(req[r].ledger, req[r].signal)
               /\ \A u \in Users \ {s} : memory'.ledger[u] = memory.ledger[u]
               /\ next \in AssessmentRow /\ next # None
<1> DEFINE s == Subject(r)
           next == ApplySignal(req[r].was, req[r].signal, req[r].ledger)
<1>1. /\ Base' /\ OnlyRequest(r) /\ UNCHANGED <<signals, cases>>
      /\ UNCHANGED <<past.unfolded, past.lost, past.broken>>
      /\ s \in Users /\ req[r].signal \in AllSignals /\ req[r].signal.subject = s
      /\ req[r].at = "upsert" /\ req'[r].at = "raise"
      /\ req'[r].logged = req[r].logged /\ req'[r].gaveUp = req[r].gaveUp
      /\ FreeFor(assessments, s, r) /\ assessments' = Put(assessments, s, r, next)
      /\ \E ledger \in AppendSignal(req[r].ledger, req[r].signal) :
             memory'.ledger = [memory.ledger EXCEPT ![s] = ledger]
    BY AppliedBase DEF Applied
<1>2. next \in AssessmentRow
    BY <1>1, BaseRequest, ApplyType
<1>3. next # None
    BY <1>2, NullAssumption
<1> HIDE DEF s, next
<1>4. /\ assessments'[s] = [row |-> assessments[s].row, next |-> next, by |-> r]
      /\ \A u \in Users \ {s} : assessments'[u] = assessments[u]
    <2>1. assessments \in [Users -> Versions(AssessmentRow \cup {None}, Requests)]
        BY BaseTypes
    <2>2. s \in Users /\ next \in AssessmentRow \cup {None}
        BY <1>1, <1>2
    <2>3. /\ Put(assessments, s, r, next)[s] = [row |-> assessments[s].row, next |-> next, by |-> r]
          /\ \A u \in Users \ {s} : Put(assessments, s, r, next)[u] = assessments[u]
        BY <2>1, <2>2, PutFacts
    <2> QED
        BY <1>1, <2>3
<1>5. assessments[s].by \in {None, r}
    BY <1>1 DEF FreeFor
<1>6. /\ memory'.ledger[s] \in AppendSignal(req[r].ledger, req[r].signal)
      /\ \A u \in Users \ {s} : memory'.ledger[u] = memory.ledger[u]
    BY <1>1, BaseTypes
<1> QED
    BY <1>1, <1>2, <1>3, <1>4, <1>5, <1>6 DEF s, next

(* What the end of a request leaves of every row.                            *)
LEMMA CommitRows ==
    ASSUME Base, NEW r \in Requests, CommitRequest(r), NEW u \in Users
    PROVE  /\ assessments[u].by = r => /\ assessments'[u].row = assessments[u].next
                                       /\ assessments'[u].next = assessments[u].next
                                       /\ assessments'[u].by = None
           /\ assessments[u].by # r => assessments'[u] = assessments[u]
  BY CommitBase, EndFacts, SettledFacts

LEMMA FailRows ==
    ASSUME Base, NEW r \in Requests, Fail(r), NEW u \in Users
    PROVE  /\ assessments[u].by = r => /\ assessments'[u].row = assessments[u].row
                                       /\ assessments'[u].next = assessments[u].row
                                       /\ assessments'[u].by = None
           /\ assessments[u].by # r => assessments'[u] = assessments[u]
  BY FailBase, EndFacts, SettledFacts

LEMMA RestartRows ==
    ASSUME Base, Restart, NEW u \in Users
    PROVE  /\ assessments'[u].row = assessments[u].row
           /\ assessments'[u].next = assessments[u].row /\ assessments'[u].by = None
  BY RestartBase, SettledFacts

-----------------------------------------------------------------------------
(* No risk above elevated *)

LowRow(row) == row = None \/ row.state \in {"normal", "elevated"}

(* The seam has heard of no pairing, so no request draws a signal from one.  *)
Unheard == \A i \in DOMAIN memory.observed : memory.observed[i].kind # "pairing"
Unpaired(r) == /\ \A x \in req[r].pending : x.detector # "unmatch_report"
               /\ req[r].at = "upsert" => req[r].signal.detector # "unmatch_report"

(* Every row a request may still commit, or build on, is below high.         *)
Low ==
    /\ \A u \in Users : LowRow(assessments[u].row) /\ LowRow(assessments[u].next)
    /\ \A r \in Requests : req[r].at = "upsert" => LowRow(req[r].was)
    /\ Unheard /\ \A r \in Requests : Unpaired(r)

LEMMA DetectUnpaired ==
    ASSUME Base, Unheard, NEW r \in Requests, req[r].at \in {"evaluate", "seeded"},
           req[r].todo # <<>>, Detect(r)
    PROVE  Unpaired(r)'
<1>1. req'[r] = Detected(r) /\ req'[r].at = "fold" /\ Subject(r) \in Users
    BY DetectMoves, SubjectFacts
<1>2. req'[r].pending = DetectedOf(Subject(r), memory.observed, clock)
    BY <1>1, BaseRequest DEF Detected, RequestState
<1>3. \A x \in req'[r].pending : x.detector # "unmatch_report"
    BY <1>1, <1>2, BaseTypes, DetectedFacts DEF Unheard
<1> QED
    BY <1>1, <1>3 DEF Unpaired

LEMMA DeliveredUnpaired ==
    ASSUME Base, Unheard, NEW b \in Behaviours, NEW t \in Instants,
           memory'.observed = memory.observed \o Delivered(b, t)
    PROVE  Unheard'
<1>1. /\ Delivered(b, t) \in Seq(Observations)
      /\ \A i \in DOMAIN Delivered(b, t) : Delivered(b, t)[i].kind # "pairing"
    <2>1. b.kind # "pairing"
        BY BehavioursAssumption DEF ObservedKinds
    <2>2. Delivered(b, t) \in {<<>>, <<Observation(b.kind, b.by, b.of, t)>>}
        BY DEF Delivered
    <2>3. /\ Observation(b.kind, b.by, b.of, t) \in Observations
          /\ Observation(b.kind, b.by, b.of, t).kind = b.kind
        <3>1. Observation(b.kind, b.by, b.of, t) \in Observations
            BY DEF Observations
        <3> QED
            BY <3>1 DEF Observation
    <2>4. CASE Delivered(b, t) = <<>>
        BY <2>4
    <2>5. CASE Delivered(b, t) = <<Observation(b.kind, b.by, b.of, t)>>
        <3> DEFINE o == Observation(b.kind, b.by, b.of, t)
        <3>1. o \in Observations /\ o.kind # "pairing"
            BY <2>1, <2>3
        <3> HIDE DEF o
        <3>2. <<o>> \in Seq(Observations) /\ \A i \in DOMAIN <<o>> : <<o>>[i].kind # "pairing"
            BY <3>1
        <3> QED
            BY <2>5, <3>2 DEF o
    <2> QED
        BY <2>2, <2>4, <2>5
<1>2. memory.observed \in Seq(Observations)
    BY BaseTypes
<1> DEFINE more == Delivered(b, t)
           all == memory.observed \o more
<1> HIDE DEF more
<1>3. ASSUME NEW i \in DOMAIN all
      PROVE  all[i].kind # "pairing"
    <2>1. CASE i \in DOMAIN memory.observed
        BY <1>1, <1>2, <2>1 DEF Unheard, more
    <2>2. CASE i \notin DOMAIN memory.observed
        <3>1. /\ i - Len(memory.observed) \in DOMAIN more
              /\ all[i] = more[i - Len(memory.observed)]
            BY <1>1, <1>2, <1>3, <2>2 DEF more
        <3> QED
            BY <1>1, <3>1 DEF more
    <2> QED
        BY <2>1, <2>2
<1> QED
    BY <1>3 DEF Unheard, more

LEMMA HandleUnpaired ==
    ASSUME Base, Unheard, NEW r \in Requests, Unpaired(r), Handle(r)
    PROVE  Unheard' /\ Unpaired(r)'
<1>0. ASSUME UNCHANGED memory.observed PROVE Unheard'
    BY <1>0 DEF Unheard
<1>1. ASSUME NEW b \in Behaviours, Observe(r, b)
      PROVE  Unheard' /\ Unpaired(r)'
    <2>1. /\ req'[r] = [Idle EXCEPT !.todo = EvaluatedSubjects(b), !.at = "evaluate"]
          /\ \E t \in Instants : memory'.observed = memory.observed \o Delivered(b, t)
        BY <1>1, ObserveBase
    <2>2. req'[r].at = "evaluate" /\ req'[r].pending = {}
        BY <2>1 DEF Idle
    <2> QED
        BY <2>1, <2>2, DeliveredUnpaired DEF Unpaired
<1>2. CASE Evaluate(r)
    <2>1. req[r].at = "evaluate" /\ UNCHANGED memory.observed
        BY <1>2, EvaluateBase DEF Evaluate, At
    <2>2. CASE req' = [req EXCEPT ![r].at = "reply"] \/ req' = [req EXCEPT ![r].at = "seed"]
        <3>1. req'[r].pending = req[r].pending /\ req'[r].at # "upsert"
            BY <2>2, BaseTypes, BaseRequest DEF RequestState
        <3> QED
            BY <1>0, <2>1, <3>1 DEF Unpaired
    <2>3. CASE req[r].todo # <<>> /\ Detect(r)
        BY <1>0, <2>1, <2>3, DetectUnpaired
    <2> QED
        BY <1>2, <2>2, <2>3 DEF Evaluate
<1>3. CASE FindSignalsFor(r)
    <2>1. PICK rows : req' = [req EXCEPT ![r].ledger = rows, ![r].at = "seeded"]
        BY <1>3 DEF FindSignalsFor
    <2>2. req'[r].pending = req[r].pending /\ req'[r].at # "upsert"
        BY <2>1, BaseTypes, BaseRequest DEF RequestState
    <2> QED
        BY <1>0, <1>3, <2>2, FindSignalsBase DEF Unpaired
<1>4. CASE SeedLedger(r)
    <2>1. /\ req[r].at = "seeded" /\ req[r].todo # <<>> /\ Detect(r) /\ UNCHANGED memory.observed
        BY <1>4, SeedLedgerBase, BaseRequest DEF SeedLedger, PlaceOK, AtSubject
    <2> QED
        BY <1>0, <2>1, DetectUnpaired
<1>5. CASE FoldNext(r)
    <2>1. CASE req[r].pending = {}
        <3>1. /\ req' = [req EXCEPT ![r].todo = Tail(@), ![r].ledger = NoSignals,
                                    ![r].signal = None, ![r].was = None, ![r].attempt = 0,
                                    ![r].at = "evaluate"]
              /\ UNCHANGED memory
            BY <1>5, <2>1 DEF FoldNext
        <3>2. req'[r].pending = req[r].pending /\ req'[r].at # "upsert"
            BY <3>1, BaseTypes, BaseRequest DEF RequestState
        <3> QED
            BY <1>0, <3>1, <3>2 DEF Unpaired
    <2>2. CASE req[r].pending # {}
        <3>1. /\ UNCHANGED memory /\ req'[r].signal \in req[r].pending
              /\ req'[r].pending \subseteq req[r].pending
            BY <1>5, <2>2, FoldBase DEF FirstOf
        <3> QED
            BY <1>0, <3>1 DEF Unpaired
    <2> QED
        BY <2>1, <2>2
<1>6. CASE UpsertAssessment(r)
    <2>1. /\ UNCHANGED memory.observed /\ req[r].at = "upsert"
          /\ req'[r].pending = req[r].pending
          /\ req'[r].at = "upsert" => req'[r].signal = req[r].signal
        BY <1>6, AppliedBase, RefusedBase
    <2> QED
        BY <1>0, <2>1 DEF Unpaired
<1>7. CASE InsertCase(r)
    <2>1. /\ UNCHANGED memory /\ req'[r].at # "upsert"
        BY <1>7, InsertCaseBase
    <2>2. req'[r].pending = req[r].pending
        <3>1. CASE Unopened(r) = {}
            BY <1>7, <3>1, BaseTypes, BaseRequest DEF InsertCase, RequestState
        <3>2. CASE Unopened(r) # {}
            <4> DEFINE u == CHOOSE x \in Unopened(r) : TRUE
            <4>1. req' = [req EXCEPT ![r].raised = @ \cup {<<Subject(r), u>>},
                                     ![r].members = @ \ {u}, ![r].offered = u,
                                     ![r].at = "mark"]
                BY <1>7, <3>2 DEF InsertCase
            <4> HIDE DEF u
            <4> QED
                BY <4>1, BaseTypes, BaseRequest DEF RequestState
        <3> QED
            BY <3>1, <3>2
    <2> QED
        BY <1>0, <2>1, <2>2 DEF Unpaired
<1>8. CASE MarkOpened(r)
    <2>1. /\ UNCHANGED memory.observed /\ req'[r].at # "upsert"
        BY <1>8, MarkOpenedBase
    <2>2. req'[r].pending = req[r].pending
        BY <1>8, BaseTypes, BaseRequest DEF MarkOpened, RequestState
    <2> QED
        BY <1>0, <2>1, <2>2 DEF Unpaired
<1> QED
    BY <1>1, <1>2, <1>3, <1>4, <1>5, <1>6, <1>7, <1>8 DEF Handle

(* Any step at all.                                                          *)
LEMMA StepUnpaired ==
    ASSUME Base, Unheard, \A r \in Requests : Unpaired(r), [Next]_vars
    PROVE  Unheard' /\ \A r \in Requests : Unpaired(r)'
<1>1. CASE UNCHANGED vars \/ Tick
    BY <1>1 DEF vars, Tick, Unheard, Unpaired
<1>2. ASSUME NEW r \in Requests, Handle(r)
      PROVE  Unheard' /\ \A q \in Requests : Unpaired(q)'
    <2>1. Unheard' /\ Unpaired(r)'
        BY <1>2, HandleUnpaired
    <2>2. OnlyRequest(r)
        BY <1>2, HandleKinds, AppliedBase DEF Local, Applied
    <2> QED
        BY <2>1, <2>2 DEF Unpaired, OnlyRequest
<1>3. ASSUME NEW r \in Requests, CommitRequest(r) \/ Fail(r)
      PROVE  Unheard' /\ \A q \in Requests : Unpaired(q)'
    <2>1. OnlyRequest(r) /\ req'[r] = Idle
        BY <1>3, CommitBase, FailBase
    <2>2. memory'.observed = memory.observed
        <3>1. memory' \in {memory, [memory EXCEPT !.seeded = @ \ {Subject(r)}]}
            BY <1>3 DEF CommitRequest, Fail
        <3> QED
            BY <3>1, MemoryType
    <2>3. Idle.at = "idle" /\ Idle.pending = {}
        BY DEF Idle
    <2> QED
        BY <2>1, <2>2, <2>3 DEF Unheard, Unpaired, OnlyRequest
<1>4. CASE Restart
    <2>1. memory'.observed = <<>> /\ \A r \in Requests : req'[r] = Idle
        BY <1>4, RestartBase DEF EmptyMemory
    <2>2. Idle.at = "idle" /\ Idle.pending = {}
        BY DEF Idle
    <2> QED
        BY <2>1, <2>2 DEF Unheard, Unpaired
<1> QED
    BY <1>1, <1>2, <1>3, <1>4 DEF Next

LEMMA ApplyStaysLow ==
    ASSUME NEW was \in AssessmentRow \cup {None}, LowRow(was), NEW x \in AllSignals,
           x.detector # "unmatch_report", NEW ledger \in Ledgers
    PROVE  LowRow(ApplySignal(was, x, ledger))
<1> DEFINE record == IF was = None THEN EmptyRiskRecord ELSE was
           next == ApplySignal(was, x, ledger)
<1>1. /\ next.state = AssessSignal(record.state, Catalogue, x, AsBag(ledger))
    BY ApplyType
<1>2. record.state \in {"normal", "elevated"}
    BY DEF LowRow, EmptyRiskRecord
<1> HIDE DEF record
<1>3. CASE x.kind = "report_against"
    BY <1>1, <1>2, <1>3 DEF AssessSignal, LowRow
<1>4. CASE x.kind # "report_against"
    <2> DEFINE m == Cardinality(Corroborating(AsBag(ledger), x))
               n == Repetitions(AsBag(ledger), x)
    <2>1. m \in Nat /\ n \in Nat
        BY <1>4, CorroboratingIsCounted, RepetitionsAreCounted
    <2>4. x.detector \in Detectors /\ Catalogue[x.detector] = SAFETY_DETECTORS[x.detector]
        <3>1. x.detector \in DOMAIN Catalogue /\ x.detector \in Heeded \ {"unmatch_report"}
            BY SignalFacts
        <3>2. x.detector \in Detectors
            BY <3>1 DEF Heeded, Detectors, SAFETY_DETECTORS
        <3> QED
            BY <3>1, <3>2, CatalogueFacts DEF PairedDetectors
    <2>2. next.state = AssessRisk(record.state, SAFETY_DETECTORS[x.detector], m, n)
        BY <1>1, <1>4, <2>4 DEF AssessSignal
    <2> HIDE DEF m, n
    <2>3. AssessRisk(record.state, SAFETY_DETECTORS[x.detector], m, n) \in {"normal", "elevated"}
        BY <1>2, <2>1, <2>4, OwnDetectorsStopBelowHigh
    <2> QED
        BY <2>2, <2>3 DEF LowRow
<1> QED
    BY <1>3, <1>4

LEMMA LowStep ==
    ASSUME Base, Low, [Next]_vars
    PROVE  Low'
<1>0. Unheard' /\ \A r \in Requests : Unpaired(r)'
    BY StepUnpaired DEF Low
<1>1. CASE Still
    BY <1>0, <1>1 DEF Low, Still
<1>2. ASSUME NEW r \in Requests, Local(r)
      PROVE  Low'
    <2>1. assessments' = assessments /\ OnlyRequest(r)
        BY <1>2 DEF Local, TablesSame
    <2>2. ASSUME NEW q \in Requests, req'[q].at = "upsert"
          PROVE  LowRow(req'[q].was)
        <3>1. CASE q = r
            <4>1. Subject(r) \in Users /\ req'[r].was = Seen(assessments, r)[Subject(r)]
                BY <1>2, <2>2, <3>1 DEF Local
            <4> QED
                BY <3>1, <4>1, SeenFacts DEF Low
        <3>2. CASE q # r
            BY <2>1, <2>2, <3>2 DEF Low, OnlyRequest
        <3> QED
            BY <3>1, <3>2
    <2> QED
        BY <1>0, <2>1, <2>2 DEF Low
<1>3. ASSUME NEW r \in Requests, Applied(r)
      PROVE  Low'
    <2> DEFINE s == Subject(r)
               next == ApplySignal(req[r].was, req[r].signal, req[r].ledger)
    <2>1. /\ OnlyRequest(r) /\ s \in Users /\ req[r].signal \in AllSignals
          /\ req[r].at = "upsert" /\ req'[r].at = "raise"
          /\ assessments'[s].row = assessments[s].row /\ assessments'[s].next = next
          /\ \A u \in Users \ {s} : assessments'[u] = assessments[u]
        BY <1>3, AppliedRows
    <2>2. LowRow(next)
        BY <2>1, BaseRequest, ApplyStaysLow DEF Low, Unpaired
    <2> HIDE DEF s, next
    <2>3. \A u \in Users : LowRow(assessments'[u].row) /\ LowRow(assessments'[u].next)
        BY <2>1, <2>2 DEF Low
    <2>4. \A q \in Requests : req'[q].at = "upsert" => LowRow(req'[q].was)
        BY <2>1 DEF Low, OnlyRequest
    <2> QED
        BY <1>0, <2>3, <2>4 DEF Low
<1>4. ASSUME NEW r \in Requests, CommitRequest(r) \/ Fail(r)
      PROVE  Low'
    <2>1. /\ OnlyRequest(r) /\ req'[r] = Idle
        BY <1>4, CommitBase, FailBase
    <2>2. ASSUME NEW u \in Users
          PROVE  LowRow(assessments'[u].row) /\ LowRow(assessments'[u].next)
        <3>1. CASE CommitRequest(r)
            BY <3>1, CommitRows DEF Low
        <3>2. CASE Fail(r)
            BY <3>2, FailRows DEF Low
        <3> QED
            BY <1>4, <3>1, <3>2
    <2>3. \A q \in Requests : req'[q].at = "upsert" => LowRow(req'[q].was)
        BY <2>1, IdleFacts DEF Low, OnlyRequest
    <2> QED
        BY <1>0, <2>2, <2>3 DEF Low
<1>5. CASE Restart
    <2>1. \A u \in Users : LowRow(assessments'[u].row) /\ LowRow(assessments'[u].next)
        BY <1>5, RestartRows DEF Low
    <2> QED
        BY <1>0, <1>5, <2>1, RestartBase, IdleFacts DEF Low
<1> QED
    BY <1>1, <1>2, <1>3, <1>4, <1>5, Steps

(* With a pairing secret or without, the recorder takes nobody past elevated,*)
(* whatever was observed of whom, in whatever order, by however many         *)
(* requests at once, through failures and restarts.  The paired detector,    *)
(* which alone could, never draws a signal: its pairings are published where *)
(* the seam does not listen.                                                 *)
THEOREM NobodyIsEverHigh == Spec => []StaysBelowHigh
<1>1. Init => Low
    <2> SUFFICES ASSUME Init PROVE Low
        OBVIOUS
    <2>1. /\ assessments = [u \in Users |-> Settled(None)] /\ req = [r \in Requests |-> Idle]
          /\ memory.observed = <<>>
        BY DEF Init, EmptyMemory
    <2>2. Idle.at = "idle" /\ Idle.pending = {}
        BY DEF Idle
    <2> QED
        BY <2>1, <2>2, SettledFacts DEF Low, LowRow, Unheard, Unpaired
<1>2. Base /\ Low /\ [Next]_vars => Low'
    BY LowStep
<1>3. Base /\ Low => StaysBelowHigh
    <2> SUFFICES ASSUME Base, Low PROVE StaysBelowHigh
        OBVIOUS
    <2>1. \A u \in Users : Assessment[u] = assessments[u].row
        BY BaseTypes DEF Assessment, Stored
    <2> QED
        BY <2>1 DEF Low, LowRow, StaysBelowHigh
<1> QED
    BY BaseAlways, <1>1, <1>2, <1>3, PTL DEF Spec

-----------------------------------------------------------------------------
(* No signal is lost between two requests                                    *)

Covers(row, x) == row # None /\ (x.kind = "report_against" \/ x.detector \in row.detectors)

Grows(row, next) ==
    /\ next # None
    /\ row # None => row.generation < next.generation /\ row.detectors \subseteq next.detectors

(* A row that was read is the row still, or an older generation of it.       *)
WasRead(was, row) ==
    was # None => /\ row # None
                  /\ was.generation <= row.generation
                  /\ was.generation = row.generation => was = row

AllFolded ==
    /\ \A u \in Users : \A x \in Recorded(u) \ past.unfolded : Covers(assessments[u].row, x)
    /\ \A u \in Users : assessments[u].by # None => Grows(assessments[u].row, assessments[u].next)
    /\ \A r \in Requests : req[r].at = "upsert" =>
           WasRead(req[r].was, Seen(assessments, r)[Subject(r)])
    /\ \A r \in Requests : \A x \in AllSignals : req[r].logged[x] > 0 =>
           \/ x \in req[r].gaveUp
           \/ req[r].at = "upsert" /\ req[r].signal = x
           \/ /\ assessments[x.subject].by = r
              /\ Covers(assessments[x.subject].next, x)

LEMMA RowFacts ==
    ASSUME NEW row \in AssessmentRow
    PROVE  row.generation \in Nat /\ row.detectors \in SUBSET DOMAIN Catalogue
  BY DEF AssessmentRow

LEMMA ReadWhenSeen ==
    ASSUME Base, NEW u \in Users, NEW r \in Requests
    PROVE  WasRead(Seen(assessments, r)[u], Seen(assessments, r)[u])
<1> DEFINE row == Seen(assessments, r)[u]
<1>1. row \in AssessmentRow \cup {None}
    BY SeenFacts
<1> HIDE DEF row
<1>2. WasRead(row, row)
    BY <1>1, RowFacts DEF WasRead
<1> QED
    BY <1>2 DEF row

(* What another request does to a row leaves what was read older.            *)
LEMMA ReadThenGrown ==
    ASSUME NEW was \in AssessmentRow \cup {None}, NEW row \in AssessmentRow \cup {None},
           NEW next \in AssessmentRow \cup {None}, WasRead(was, row), Grows(row, next)
    PROVE  WasRead(was, next)
<1>1. CASE was = None
    BY <1>1 DEF WasRead
<1>2. CASE was # None
    <2>1. row # None /\ was.generation <= row.generation
        BY <1>2 DEF WasRead
    <2>2. next # None /\ row.generation < next.generation
        BY <2>1 DEF Grows
    <2>3. was.generation \in Nat /\ row.generation \in Nat /\ next.generation \in Nat
        BY <1>2, <2>1, <2>2, RowFacts
    <2> QED
        BY <2>1, <2>2, <2>3 DEF WasRead
<1> QED
    BY <1>1, <1>2

(* The row a write puts follows the row it may replace.                      *)
LEMMA AppliedGrows ==
    ASSUME NEW was \in AssessmentRow \cup {None}, NEW row \in AssessmentRow \cup {None},
           NEW x \in AllSignals, NEW ledger \in Ledgers,
           WasRead(was, row), MayUpsert(row, was)
    PROVE  /\ Grows(row, ApplySignal(was, x, ledger))
           /\ Covers(ApplySignal(was, x, ledger), x)
           /\ \A y \in AllSignals : Covers(row, y) => Covers(ApplySignal(was, x, ledger), y)
<1> DEFINE next == ApplySignal(was, x, ledger)
<1>1. /\ next \in AssessmentRow /\ next # None
      /\ x.kind = "report_against" \/ x.detector \in next.detectors
    <2>1. next \in AssessmentRow
        BY ApplyType
    <2>2. x.kind = "report_against" \/ x.detector \in next.detectors
        BY ApplyType
    <2> QED
        BY <2>1, <2>2, NullAssumption
<1>2. CASE was = None
    <2>1. row = None
        BY <1>2 DEF MayUpsert
    <2> QED
        BY <1>1, <2>1 DEF Grows, Covers
<1>3. CASE was # None
    <2>1. row # None /\ was = row
        BY <1>3 DEF MayUpsert, WasRead
    <2>2. next.generation = was.generation + 1 /\ was.detectors \subseteq next.detectors
        BY <1>3, ApplyType
    <2>3. was.generation \in Nat
        BY <1>3, RowFacts
    <2> HIDE DEF next
    <2>4. Grows(row, next)
        BY <1>1, <2>1, <2>2, <2>3 DEF Grows
    <2>5. Covers(next, x) /\ \A y \in AllSignals : Covers(row, y) => Covers(next, y)
        BY <1>1, <2>1, <2>2 DEF Covers
    <2> QED
        BY <2>4, <2>5 DEF next
<1> QED
    BY <1>2, <1>3

LEMMA GrowsFurther ==
    ASSUME NEW row \in AssessmentRow \cup {None}, NEW mid \in AssessmentRow \cup {None},
           NEW next \in AssessmentRow \cup {None}, Grows(row, mid), Grows(mid, next)
    PROVE  Grows(row, next)
<1>1. CASE row = None
    BY <1>1 DEF Grows
<1>2. CASE row # None
    <2>1. /\ mid # None /\ next # None /\ row.generation < mid.generation
          /\ mid.generation < next.generation
          /\ row.detectors \subseteq mid.detectors /\ mid.detectors \subseteq next.detectors
        BY <1>2 DEF Grows
    <2>2. row.generation \in Nat /\ mid.generation \in Nat /\ next.generation \in Nat
        BY <1>2, <2>1, RowFacts
    <2> QED
        BY <2>1, <2>2 DEF Grows
<1> QED
    BY <1>1, <1>2

LEMMA CoversGrown ==
    ASSUME NEW row, NEW next, NEW x, Covers(row, x), Grows(row, next)
    PROVE  Covers(next, x)
  BY DEF Covers, Grows

LEMMA LocalFolds ==
    ASSUME Base, AllFolded, NEW r \in Requests, Local(r)
    PROVE  AllFolded'
<1>1. /\ UNCHANGED <<assessments, signals, past.unfolded>> /\ OnlyRequest(r)
    BY DEF Local, TablesSame
<1>2. \A u \in Users : \A x \in Recorded(u)' \ past'.unfolded : Covers(assessments'[u].row, x)
    BY <1>1 DEF AllFolded, Recorded
<1>3. \A u \in Users : assessments'[u].by # None =>
          Grows(assessments'[u].row, assessments'[u].next)
    BY <1>1 DEF AllFolded
<1>4. ASSUME NEW q \in Requests, req'[q].at = "upsert"
      PROVE  WasRead(req'[q].was, Seen(assessments', q)[Subject(q)'])
    <2>1. CASE q = r
        <3>1. /\ Subject(r) \in Users /\ req'[r].todo = req[r].todo
              /\ req'[r].was = Seen(assessments, r)[Subject(r)]
            BY <1>4, <2>1 DEF Local
        <3>2. Subject(r)' = Subject(r)
            BY <3>1 DEF Subject
        <3>3. WasRead(Seen(assessments, r)[Subject(r)], Seen(assessments, r)[Subject(r)])
            BY <3>1, ReadWhenSeen
        <3> QED
            BY <1>1, <2>1, <3>1, <3>2, <3>3
    <2>2. CASE q # r
        <3>1. req'[q] = req[q] /\ Subject(q)' = Subject(q)
            BY <1>1, <2>2 DEF OnlyRequest, Subject
        <3> QED
            BY <1>1, <1>4, <3>1 DEF AllFolded
    <2> QED
        BY <2>1, <2>2
<1>5. ASSUME NEW q \in Requests, NEW x \in AllSignals, req'[q].logged[x] > 0
      PROVE  \/ x \in req'[q].gaveUp
             \/ req'[q].at = "upsert" /\ req'[q].signal = x
             \/ /\ assessments'[x.subject].by = q
                /\ Covers(assessments'[x.subject].next, x)
    <2>1. CASE q = r
        <3>1. \/ x \in req'[r].gaveUp
              \/ req'[r].at = "upsert" /\ req'[r].signal = x
              \/ /\ req[r].logged[x] > 0 /\ x \notin req[r].gaveUp
                 /\ ~(req[r].at = "upsert" /\ req[r].signal = x)
            BY <1>5, <2>1 DEF Local
        <3> QED
            BY <1>1, <2>1, <3>1 DEF AllFolded
    <2>2. CASE q # r
        BY <1>1, <1>5, <2>2 DEF AllFolded, OnlyRequest
    <2> QED
        BY <2>1, <2>2
<1> QED
    BY <1>2, <1>3, <1>4, <1>5 DEF AllFolded

LEMMA AppliedFolds ==
    ASSUME Base, AllFolded, NEW r \in Requests, Applied(r)
    PROVE  AllFolded'
<1> DEFINE s == Subject(r)
           x == req[r].signal
           next == ApplySignal(req[r].was, x, req[r].ledger)
           seen == Seen(assessments, r)[s]
<1>1. /\ OnlyRequest(r) /\ UNCHANGED <<signals, cases, past.unfolded, past.lost>>
      /\ s \in Users /\ x \in AllSignals /\ x.subject = s
      /\ req[r].at = "upsert" /\ req'[r].at = "raise"
      /\ req'[r].logged = req[r].logged /\ req'[r].gaveUp = req[r].gaveUp
      /\ assessments[s].by \in {None, r}
      /\ assessments'[s].row = assessments[s].row
      /\ assessments'[s].next = next /\ assessments'[s].by = r
      /\ \A u \in Users \ {s} : assessments'[u] = assessments[u]
      /\ next \in AssessmentRow
    BY AppliedRows
<1>2. /\ req[r].was \in AssessmentRow \cup {None} /\ req[r].ledger \in Ledgers
      /\ seen \in AssessmentRow \cup {None} /\ assessments[s].row \in AssessmentRow \cup {None}
    BY <1>1, BaseRequest, SeenFacts
<1>3. WasRead(req[r].was, seen) /\ MayUpsert(seen, req[r].was)
    BY <1>1 DEF AllFolded, Applied
<1>4. /\ Grows(seen, next) /\ Covers(next, x)
      /\ \A y \in AllSignals : Covers(seen, y) => Covers(next, y)
    <2>1. x \in AllSignals
        BY <1>1
    <2>2. req[r].was \in AssessmentRow \cup {None} /\ seen \in AssessmentRow \cup {None}
        BY <1>2
    <2>3. req[r].ledger \in Ledgers
        BY <1>2
    <2> HIDE DEF x, seen, s
    <2>4. ASSUME NEW was \in AssessmentRow \cup {None}, NEW row \in AssessmentRow \cup {None},
                 NEW y \in AllSignals, NEW ledger \in Ledgers, NEW after,
                 WasRead(was, row), MayUpsert(row, was), after = ApplySignal(was, y, ledger)
          PROVE  /\ Grows(row, after) /\ Covers(after, y)
                 /\ \A z \in AllSignals : Covers(row, z) => Covers(after, z)
        BY <2>4, AppliedGrows
    <2> QED
        BY <2>1, <2>2, <2>3, <2>4, <1>3
<1>5. /\ assessments[s].by = r => seen = assessments[s].next
      /\ assessments[s].by # r => seen = assessments[s].row
    BY <1>1, SeenFacts
<1> HIDE DEF s, x, next, seen
<1>6. r # None
    BY NullAssumption
<1>7. Grows(assessments[s].row, next)
    <2>1. CASE assessments[s].by = r
        <3>1. Grows(assessments[s].row, seen)
            BY <1>1, <1>5, <1>6, <2>1 DEF AllFolded
        <3> QED
            BY <1>1, <1>2, <1>4, <3>1, GrowsFurther
    <2>2. CASE assessments[s].by # r
        BY <1>4, <1>5, <2>2
    <2> QED
        BY <2>1, <2>2
<1>8. \A u \in Users : \A y \in Recorded(u)' \ past'.unfolded : Covers(assessments'[u].row, y)
    <2>1. \A u \in Users : assessments'[u].row = assessments[u].row
        BY <1>1
    <2>2. \A u \in Users : Recorded(u)' = Recorded(u)
        BY <1>1 DEF Recorded
    <2> QED
        BY <1>1, <2>1, <2>2 DEF AllFolded
<1>9. \A u \in Users : assessments'[u].by # None =>
          Grows(assessments'[u].row, assessments'[u].next)
    BY <1>1, <1>7 DEF AllFolded
<1>10. ASSUME NEW q \in Requests, req'[q].at = "upsert"
       PROVE  WasRead(req'[q].was, Seen(assessments', q)[Subject(q)'])
    <2>1. q # r /\ req'[q] = req[q] /\ Subject(q)' = Subject(q)
        BY <1>1, <1>10 DEF OnlyRequest, Subject
    <2>2. Subject(q) \in Users
        BY <1>10, <2>1, BaseRequest, SubjectFacts DEF PlaceOK, AtSubject
    <2>3. Base'
        BY AppliedRows
    <2>4. Seen(assessments', q)[Subject(q)] = IF assessments'[Subject(q)].by = q
                                              THEN assessments'[Subject(q)].next
                                              ELSE assessments'[Subject(q)].row
        <3>1. Subject(q) \in DOMAIN assessments'
            BY <2>2, <2>3, BaseTypes DEF Base, TypeOK
        <3> QED
            BY <3>1 DEF Seen
    <2>5. Seen(assessments', q)[Subject(q)] = Seen(assessments, q)[Subject(q)]
        <3>1. CASE Subject(q) = s
            BY <1>1, <2>1, <2>2, <2>4, <3>1, SeenFacts, NullAssumption
        <3>2. CASE Subject(q) # s
            BY <1>1, <2>2, <2>4, <3>2, SeenFacts
        <3> QED
            BY <3>1, <3>2
    <2> QED
        BY <1>10, <2>1, <2>5 DEF AllFolded
<1>11. ASSUME NEW q \in Requests, NEW y \in AllSignals, req'[q].logged[y] > 0
       PROVE  \/ y \in req'[q].gaveUp
              \/ req'[q].at = "upsert" /\ req'[q].signal = y
              \/ /\ assessments'[y.subject].by = q
                 /\ Covers(assessments'[y.subject].next, y)
    <2>0. y.subject \in Users
        BY SignalFacts
    <2>1. CASE q = r
        <3>1. \/ y \in req[r].gaveUp
              \/ y = x
              \/ /\ assessments[y.subject].by = r
                 /\ Covers(assessments[y.subject].next, y)
            BY <1>1, <1>11, <2>1 DEF AllFolded, x
        <3>2. CASE y = x
            BY <1>1, <1>4, <2>1, <3>2
        <3>3. CASE assessments[y.subject].by = r /\ Covers(assessments[y.subject].next, y)
            <4>1. CASE y.subject = s
                BY <1>1, <1>4, <1>5, <2>1, <3>3, <4>1
            <4>2. CASE y.subject # s
                BY <1>1, <2>0, <2>1, <3>3, <4>2
            <4> QED
                BY <4>1, <4>2
        <3> QED
            BY <1>1, <2>1, <3>1, <3>2, <3>3
    <2>2. CASE q # r
        <3>1. req'[q] = req[q]
            BY <1>1, <2>2 DEF OnlyRequest
        <3>2. \/ y \in req[q].gaveUp
              \/ req[q].at = "upsert" /\ req[q].signal = y
              \/ /\ assessments[y.subject].by = q
                 /\ Covers(assessments[y.subject].next, y)
            BY <1>11, <3>1 DEF AllFolded
        <3>3. assessments[y.subject].by = q => y.subject # s
            BY <1>1, <2>2, NullAssumption
        <3> QED
            BY <1>1, <2>0, <3>1, <3>2, <3>3
    <2> QED
        BY <2>1, <2>2
<1> QED
    BY <1>8, <1>9, <1>10, <1>11 DEF AllFolded

(* What a row is to the others when the request that wrote it ends.          *)
LEMMA SeenAfter ==
    ASSUME Base, Base', NEW q \in Requests, NEW u \in Users
    PROVE  Seen(assessments', q)[u] = IF assessments'[u].by = q THEN assessments'[u].next
                                                                ELSE assessments'[u].row
<1>1. u \in DOMAIN assessments'
    BY DEF Base, TypeOK
<1> QED
    BY <1>1 DEF Seen

LEMMA CommitFolds ==
    ASSUME Base, AllFolded, NEW r \in Requests, CommitRequest(r)
    PROVE  AllFolded'
<1>1. /\ Base' /\ OnlyRequest(r) /\ req'[r] = Idle /\ req[r].at = "reply"
      /\ past'.unfolded = past.unfolded \cup req[r].gaveUp
      /\ \A x \in AllSignals : signals'[x] > 0 <=> signals[x] > 0 \/ req[r].logged[x] > 0
    BY CommitBase
<1>2. r # None
    BY NullAssumption
<1>3. ASSUME NEW u \in Users
      PROVE  /\ assessments[u].by = r => /\ assessments'[u].row = assessments[u].next
                                         /\ assessments'[u].next = assessments[u].next
                                         /\ assessments'[u].by = None
                                         /\ Grows(assessments[u].row, assessments[u].next)
             /\ assessments[u].by # r => assessments'[u] = assessments[u]
    BY <1>2, CommitRows DEF AllFolded
<1>4. ASSUME NEW u \in Users, NEW x \in Recorded(u)' \ past'.unfolded
      PROVE  Covers(assessments'[u].row, x)
    <2>1. /\ x \in AllSignals /\ x.subject = u /\ x \notin past.unfolded
          /\ x \notin req[r].gaveUp /\ (signals[x] > 0 \/ req[r].logged[x] > 0)
        BY <1>1 DEF Recorded
    <2>2. CASE signals[x] > 0
        <3>1. Covers(assessments[u].row, x)
            BY <2>1, <2>2 DEF AllFolded, Recorded
        <3> QED
            BY <1>3, <3>1, CoversGrown
    <2>3. CASE req[r].logged[x] > 0
        <3>1. assessments[u].by = r /\ Covers(assessments[u].next, x)
            BY <1>1, <2>1, <2>3 DEF AllFolded
        <3> QED
            BY <1>3, <3>1
    <2> QED
        BY <2>1, <2>2, <2>3
<1>5. \A u \in Users : assessments'[u].by # None =>
          Grows(assessments'[u].row, assessments'[u].next)
    BY <1>3 DEF AllFolded
<1>6. ASSUME NEW q \in Requests, req'[q].at = "upsert"
      PROVE  WasRead(req'[q].was, Seen(assessments', q)[Subject(q)'])
    <2> DEFINE s == Subject(q)
    <2>1. q # r /\ req'[q] = req[q] /\ Subject(q)' = s
        BY <1>1, <1>6, IdleFacts DEF OnlyRequest, Subject
    <2>2. s \in Users /\ req[q].was \in AssessmentRow \cup {None}
        BY <1>6, <2>1, BaseRequest, SubjectFacts DEF PlaceOK, AtSubject
    <2>3. WasRead(req[q].was, Seen(assessments, q)[s])
        BY <1>6, <2>1 DEF AllFolded
    <2> HIDE DEF s
    <2>4. CASE assessments[s].by = r
        <3>1. Seen(assessments', q)[s] = assessments[s].next
            BY <1>1, <1>3, <2>2, <2>4, SeenAfter
        <3>2. Seen(assessments, q)[s] = assessments[s].row
            BY <2>1, <2>2, <2>4, SeenFacts
        <3>3. Grows(assessments[s].row, assessments[s].next)
            BY <1>3, <2>2, <2>4
        <3>4. /\ assessments[s].row \in AssessmentRow \cup {None}
              /\ assessments[s].next \in AssessmentRow \cup {None}
            BY <2>2, SeenFacts
        <3>5. WasRead(req[q].was, assessments[s].next)
            BY <2>2, <2>3, <3>2, <3>3, <3>4, ReadThenGrown
        <3> QED
            BY <2>1, <3>1, <3>5
    <2>5. CASE assessments[s].by # r
        BY <1>1, <1>3, <2>1, <2>2, <2>3, <2>5, SeenAfter, SeenFacts
    <2> QED
        BY <2>4, <2>5
<1>7. ASSUME NEW q \in Requests, NEW x \in AllSignals, req'[q].logged[x] > 0
      PROVE  \/ x \in req'[q].gaveUp
             \/ req'[q].at = "upsert" /\ req'[q].signal = x
             \/ /\ assessments'[x.subject].by = q
                /\ Covers(assessments'[x.subject].next, x)
    <2>1. q # r /\ req'[q] = req[q]
        BY <1>1, <1>7, IdleFacts, LedgerFacts DEF OnlyRequest
    <2>2. \/ x \in req[q].gaveUp
          \/ req[q].at = "upsert" /\ req[q].signal = x
          \/ /\ assessments[x.subject].by = q
             /\ Covers(assessments[x.subject].next, x)
        BY <1>7, <2>1 DEF AllFolded
    <2>3. x.subject \in Users
        BY SignalFacts
    <2> QED
        BY <1>3, <2>1, <2>2, <2>3
<1> QED
    BY <1>4, <1>5, <1>6, <1>7 DEF AllFolded

LEMMA FailFolds ==
    ASSUME Base, AllFolded, NEW r \in Requests, Fail(r)
    PROVE  AllFolded'
<1>1. /\ Base' /\ OnlyRequest(r) /\ req'[r] = Idle
      /\ past'.unfolded = past.unfolded /\ UNCHANGED signals
    BY FailBase
<1>2. ASSUME NEW u \in Users
      PROVE  /\ assessments'[u].row = assessments[u].row
             /\ assessments[u].by = r => assessments'[u].by = None
             /\ assessments[u].by # r => assessments'[u] = assessments[u]
    BY FailRows
<1>3. \A u \in Users : \A x \in Recorded(u)' \ past'.unfolded : Covers(assessments'[u].row, x)
    BY <1>1, <1>2 DEF AllFolded, Recorded
<1>4. \A u \in Users : assessments'[u].by # None =>
          Grows(assessments'[u].row, assessments'[u].next)
    BY <1>2 DEF AllFolded
<1>5. ASSUME NEW q \in Requests, req'[q].at = "upsert"
      PROVE  WasRead(req'[q].was, Seen(assessments', q)[Subject(q)'])
    <2> DEFINE s == Subject(q)
    <2>1. q # r /\ req'[q] = req[q] /\ Subject(q)' = s
        BY <1>1, <1>5, IdleFacts DEF OnlyRequest, Subject
    <2>2. s \in Users
        BY <1>5, <2>1, BaseRequest, SubjectFacts DEF PlaceOK, AtSubject
    <2>3. WasRead(req[q].was, Seen(assessments, q)[s])
        BY <1>5, <2>1 DEF AllFolded
    <2> HIDE DEF s
    <2>4. Seen(assessments', q)[s] = Seen(assessments, q)[s]
        <3>1. q # None
            BY NullAssumption
        <3>2. Seen(assessments', q)[s] = IF assessments'[s].by = q THEN assessments'[s].next
                                                                   ELSE assessments'[s].row
            BY <1>1, <2>2, SeenAfter
        <3>3. Seen(assessments, q)[s] = IF assessments[s].by = q THEN assessments[s].next
                                                                 ELSE assessments[s].row
            BY <2>2, SeenFacts
        <3> QED
            BY <1>2, <2>1, <2>2, <3>1, <3>2, <3>3
    <2> QED
        BY <2>1, <2>3, <2>4
<1>6. ASSUME NEW q \in Requests, NEW x \in AllSignals, req'[q].logged[x] > 0
      PROVE  \/ x \in req'[q].gaveUp
             \/ req'[q].at = "upsert" /\ req'[q].signal = x
             \/ /\ assessments'[x.subject].by = q
                /\ Covers(assessments'[x.subject].next, x)
    <2>1. q # r /\ req'[q] = req[q]
        BY <1>1, <1>6, IdleFacts, LedgerFacts DEF OnlyRequest
    <2>2. \/ x \in req[q].gaveUp
          \/ req[q].at = "upsert" /\ req[q].signal = x
          \/ /\ assessments[x.subject].by = q
             /\ Covers(assessments[x.subject].next, x)
        BY <1>6, <2>1 DEF AllFolded
    <2>3. x.subject \in Users
        BY SignalFacts
    <2> QED
        BY <1>2, <2>1, <2>2, <2>3
<1> QED
    BY <1>3, <1>4, <1>5, <1>6 DEF AllFolded

LEMMA RestartFolds ==
    ASSUME Base, AllFolded, Restart
    PROVE  AllFolded'
<1>1. /\ past'.unfolded = past.unfolded /\ UNCHANGED signals
      /\ \A r \in Requests : req'[r] = Idle
    BY RestartBase
<1>2. \A u \in Users : assessments'[u].row = assessments[u].row /\ assessments'[u].by = None
    BY RestartRows
<1>3. \A u \in Users : \A x \in Recorded(u)' \ past'.unfolded : Covers(assessments'[u].row, x)
    BY <1>1, <1>2 DEF AllFolded, Recorded
<1>4. \A r \in Requests : req'[r].at = "idle" /\ \A x \in AllSignals : req'[r].logged[x] = 0
    BY <1>1, IdleFacts, LedgerFacts
<1> QED
    BY <1>2, <1>3, <1>4 DEF AllFolded

LEMMA StutterFolds ==
    ASSUME Base, AllFolded, Still
    PROVE  AllFolded'
<1>1. UNCHANGED <<assessments, signals, req, past>>
    BY DEF Still
<1>2. \A r \in Requests : Subject(r)' = Subject(r)
    BY <1>1 DEF Subject
<1>3. \A u \in Users : Recorded(u)' = Recorded(u)
    BY <1>1 DEF Recorded
<1> QED
    BY <1>1, <1>2, <1>3 DEF AllFolded

LEMMA FoldedInit == Init => AllFolded
<1> SUFFICES ASSUME Init PROVE AllFolded
    OBVIOUS
<1>1. /\ \A u \in Users : assessments[u].by = None
      /\ \A x \in AllSignals : signals[x] = 0
      /\ \A r \in Requests : req[r].at = "idle" /\ \A x \in AllSignals : req[r].logged[x] = 0
    BY SettledFacts, IdleFacts, LedgerFacts DEF Init
<1> QED
    BY <1>1 DEF AllFolded, Recorded

(* No signal is lost between two requests that fold into one assessment at   *)
(* once, however many they are and however often each is refused: what was   *)
(* stored is in the assessment, unless its request gave up and said so.      *)
THEOREM SignalsAreAlwaysFolded == Spec => []SignalsAreFolded
<1>1. Base /\ AllFolded /\ [Next]_vars => AllFolded'
    BY Steps, LocalFolds, AppliedFolds, CommitFolds, FailFolds, RestartFolds, StutterFolds
<1>2. Base /\ AllFolded => SignalsAreFolded
    <2> SUFFICES ASSUME Base, AllFolded PROVE SignalsAreFolded
        OBVIOUS
    <2>1. \A u \in Users : Assessment[u] = assessments[u].row
        BY BaseTypes DEF Assessment, Stored
    <2> QED
        BY <2>1 DEF AllFolded, Covers, SignalsAreFolded
<1> QED
    BY BaseAlways, FoldedInit, <1>1, <1>2, PTL DEF Spec

-----------------------------------------------------------------------------
(* Nobody at risk on one detector's word                                     *)

Risen(row) == row # None /\ row.state # "normal"

Known(x) == signals[x] > 0 \/ x \in past.lost
KnownTo(r, x) == Known(x) \/ req[r].logged[x] > 0

(* Known, or stored by the request that holds the assessment.                *)
Accounted(x) ==
    \/ Known(x)
    \/ /\ assessments[x.subject].by # None
       /\ req[assessments[x.subject].by].logged[x] > 0

Independent(x, y, u) ==
    /\ x.subject = u /\ y.subject = u /\ x.detector # y.detector
    /\ x.kind # "report_against" /\ y.kind # "report_against"

(* Two detectors speak of u, one of them in a stored signal; and the same to *)
(* a request, which sees what it stored itself.                              *)
Two(u) ==
    \E x, y \in AllSignals : Independent(x, y, u) /\ signals[x] > 0 /\ Known(y)
TwoTo(r, u) ==
    \E x, y \in AllSignals :
        Independent(x, y, u) /\ (signals[x] > 0 \/ req[r].logged[x] > 0) /\ KnownTo(r, y)

Grounded ==
    /\ \A u \in Users : Risen(assessments[u].row) => Two(u)
    /\ \A u \in Users, r \in Requests :
           assessments[u].by = r /\ Risen(assessments[u].next) => TwoTo(r, u)
    /\ \A r \in Requests : req[r].at = "upsert" /\ Risen(req[r].was) => TwoTo(r, Subject(r))
    /\ \A x \in AllSignals :
           x.kind # "report_against" /\ memory.ledger[x.subject][x] > 0 => Accounted(x)
    /\ \A r \in Requests, x \in AllSignals :
           /\ req[r].at \in {"seeded", "upsert"} /\ x.subject = Subject(r)
           /\ x.kind # "report_against" /\ req[r].ledger[x] > 0
           => Accounted(x)

(* A row rises only when a second detector speaks with the first.            *)
LEMMA RisesOnTwo ==
    ASSUME NEW was \in AssessmentRow \cup {None}, NEW x \in AllSignals, NEW ledger \in Ledgers,
           Risen(ApplySignal(was, x, ledger)), ~Risen(was)
    PROVE  /\ x.kind # "report_against"
           /\ \E e \in AllSignals : /\ ledger[e] > 0 /\ e.subject = x.subject
                                    /\ e.kind # "report_against" /\ e.detector # x.detector
<1> DEFINE record == IF was = None THEN EmptyRiskRecord ELSE was
           next == ApplySignal(was, x, ledger)
           corroborating == Corroborating(AsBag(ledger), x)
           n == Repetitions(AsBag(ledger), x)
<1>1. next.state = AssessSignal(record.state, Catalogue, x, AsBag(ledger))
    BY ApplyType
<1>2. record.state = "normal" /\ next.state # "normal"
    BY DEF Risen, EmptyRiskRecord
<1> HIDE DEF record
<1>3. x.kind # "report_against"
    BY <1>1, <1>2 DEF AssessSignal
<1>4. /\ Cardinality(corroborating) \in Nat /\ n \in Nat /\ x.detector \in DOMAIN Catalogue
      /\ IsFiniteSet(corroborating)
    BY <1>3, CorroboratingIsCounted, RepetitionsAreCounted, SignalFacts
<1>5. next.state = AssessRisk("normal", Catalogue[x.detector], Cardinality(corroborating), n)
    BY <1>1, <1>2, <1>3 DEF AssessSignal
<1>6. Cardinality(corroborating) \notin {0, 1}
    <2> HIDE DEF n
    <2>1. Catalogue[x.detector].escalation = "corroboration_only"
        BY <1>4, CatalogueWaits
    <2>2. "normal" \in RiskStates
        BY DEF RiskStates
    <2>3. SUFFICES ASSUME Cardinality(corroborating) \in {0, 1} PROVE FALSE
        OBVIOUS
    <2>4. AssessRisk("normal", Catalogue[x.detector], Cardinality(corroborating), n)
              = "normal"
        BY <1>4, <2>1, <2>2, <2>3, OneDetectorMovesNobody
    <2> QED
        BY <1>2, <1>5, <2>4
<1>7. \E d \in corroborating : d # x.detector
    <2>1. SUFFICES ASSUME corroborating \subseteq {x.detector} PROVE FALSE
        OBVIOUS
    <2>2. IsFiniteSet({x.detector}) /\ Cardinality({x.detector}) = 1
        BY FS_Singleton
    <2>3. Cardinality(corroborating) <= 1
        BY <2>1, <2>2, FS_Subset
    <2> HIDE DEF corroborating
    <2> QED
        BY <1>4, <1>6, <2>3
<1>8. PICK d \in corroborating : d # x.detector
    BY <1>7
<1>9. PICK e \in BagToSet(AsBag(ledger)) : /\ e.subject = x.subject
                                           /\ e.kind # "report_against" /\ e.detector = d
    BY <1>8 DEF Corroborating, Recent
<1>10. e \in AllSignals /\ ledger[e] > 0
    BY <1>9 DEF BagToSet, AsBag
<1> QED
    BY <1>3, <1>8, <1>9, <1>10

LEMMA KnownGrows ==
    ASSUME NEW r \in Requests, NEW u \in Users, \A x \in AllSignals : Known(x) => Known(x)',
           signals' = signals,
           \A x \in AllSignals : req[r].logged[x] > 0 => req'[r].logged[x] > 0
    PROVE  /\ Two(u) => Two(u)'
           /\ TwoTo(r, u) => TwoTo(r, u)'
           /\ \A x \in AllSignals : KnownTo(r, x) => KnownTo(r, x)'
<1>1. \A x \in AllSignals : KnownTo(r, x) => KnownTo(r, x)'
    BY DEF KnownTo
<1>2. \A x, y \in AllSignals : Independent(x, y, u)' <=> Independent(x, y, u)
    BY DEF Independent
<1> QED
    BY <1>1, <1>2 DEF Two, TwoTo

LEMMA LocalGrounds ==
    ASSUME Base, Grounded, NEW r \in Requests, Local(r)
    PROVE  Grounded'
<1>1. /\ UNCHANGED <<assessments, signals, past.lost>> /\ OnlyRequest(r)
      /\ \A x \in AllSignals : req[r].logged[x] > 0 => req'[r].logged[x] > 0
    BY DEF Local, TablesSame
<1>2. \A x \in AllSignals : Known(x) => Known(x)'
    BY <1>1 DEF Known
<1>3. ASSUME NEW q \in Requests
      PROVE  \A x \in AllSignals : req[q].logged[x] > 0 => req'[q].logged[x] > 0
    BY <1>1 DEF OnlyRequest
<1>4. ASSUME NEW x \in AllSignals, Accounted(x)
      PROVE  Accounted(x)'
    <2>1. x.subject \in Users
        BY SignalFacts
    <2>2. assessments[x.subject].by \in Requests \cup {None}
        BY <2>1, EndFacts, BaseTypes DEF Versions
    <2> QED
        BY <1>1, <1>2, <1>3, <1>4, <2>2 DEF Accounted
<1>5. ASSUME NEW q \in Requests, NEW u \in Users
      PROVE  /\ Two(u) => Two(u)'
             /\ TwoTo(q, u) => TwoTo(q, u)'
    <2>1. signals' = signals
        BY <1>1
    <2> QED
        BY <1>2, <1>3, <2>1, KnownGrows
<1>6. ASSUME NEW u \in Users, Risen(assessments'[u].row)
      PROVE  Two(u)'
    <2>1. Two(u)
        BY <1>1, <1>6 DEF Grounded, Risen
    <2> QED
        BY <1>5, <2>1
<1>7. ASSUME NEW u \in Users, NEW q \in Requests, assessments'[u].by = q,
             Risen(assessments'[u].next)
      PROVE  TwoTo(q, u)'
    <2>1. TwoTo(q, u)
        BY <1>1, <1>7 DEF Grounded, Risen
    <2> QED
        BY <1>5, <2>1
<1>8. ASSUME NEW q \in Requests, req'[q].at = "upsert", Risen(req'[q].was)
      PROVE  TwoTo(q, Subject(q))'
    <2>1. CASE q = r
        <3> DEFINE s == Subject(r)
        <3>1. s \in Users /\ req'[r].was = Seen(assessments, r)[s] /\ Subject(r)' = s
            BY <1>8, <2>1 DEF Local, Subject
        <3> HIDE DEF s
        <3>2. TwoTo(r, s)
            <4>1. CASE assessments[s].by = r
                BY <1>8, <2>1, <3>1, <4>1, SeenFacts DEF Grounded, Risen
            <4>2. CASE assessments[s].by # r
                <5>1. Two(s)
                    BY <1>8, <2>1, <3>1, <4>2, SeenFacts DEF Grounded, Risen
                <5> QED
                    BY <5>1 DEF Two, TwoTo, KnownTo
            <4> QED
                BY <4>1, <4>2
        <3>3. \A u \in Users : TwoTo(r, u) => TwoTo(r, u)'
            BY <1>5
        <3> QED
            BY <2>1, <3>1, <3>2, <3>3 DEF TwoTo, Independent
    <2>2. CASE q # r
        <3> DEFINE s == Subject(q)
        <3>1. req'[q] = req[q] /\ Subject(q)' = s
            BY <1>1, <2>2 DEF OnlyRequest, Subject
        <3>2. s \in Users
            BY <1>8, <3>1, BaseRequest, SubjectFacts DEF PlaceOK, AtSubject
        <3>3. TwoTo(q, s)
            BY <1>8, <3>1 DEF Grounded, Risen
        <3> HIDE DEF s
        <3>4. \A u \in Users : TwoTo(q, u) => TwoTo(q, u)'
            BY <1>5
        <3> QED
            BY <3>1, <3>2, <3>3, <3>4 DEF TwoTo, Independent
    <2> QED
        BY <2>1, <2>2
<1>9. ASSUME NEW x \in AllSignals, x.kind # "report_against", memory'.ledger[x.subject][x] > 0
      PROVE  Accounted(x)'
    <2>1. x.subject \in Users
        BY SignalFacts
    <2>2. \/ memory.ledger[x.subject][x] > 0
          \/ req[r].at = "seeded" /\ x.subject = Subject(r) /\ req[r].ledger[x] > 0
        BY <1>9, <2>1 DEF Local
    <2>3. Accounted(x)
        BY <1>9, <2>2 DEF Grounded
    <2> QED
        BY <1>4, <2>3
<1>10. ASSUME NEW q \in Requests, NEW x \in AllSignals,
              req'[q].at \in {"seeded", "upsert"}, x.subject = Subject(q)',
              x.kind # "report_against", req'[q].ledger[x] > 0
       PROVE  Accounted(x)'
    <2>1. CASE q = r
        <3>1. Subject(r)' = Subject(r)
            BY <1>10, <2>1 DEF Local, Subject
        <3>2. \/ signals[x] > 0
              \/ memory.ledger[x.subject][x] > 0
              \/ req[r].at = "upsert" /\ req[r].ledger[x] > 0
            BY <1>10, <2>1, <3>1 DEF Local
        <3>3. Accounted(x)
            BY <1>10, <2>1, <3>1, <3>2 DEF Grounded, Accounted, Known
        <3> QED
            BY <1>4, <3>3
    <2>2. CASE q # r
        <3>1. req'[q] = req[q] /\ Subject(q)' = Subject(q)
            BY <1>1, <2>2 DEF OnlyRequest, Subject
        <3>2. Accounted(x)
            BY <1>10, <3>1 DEF Grounded
        <3> QED
            BY <1>4, <3>2
    <2> QED
        BY <2>1, <2>2
<1> QED
    BY <1>6, <1>7, <1>8, <1>9, <1>10 DEF Grounded

LEMMA AppliedGrounds ==
    ASSUME Base, Grounded, NEW r \in Requests, Applied(r)
    PROVE  Grounded'
<1> DEFINE s == Subject(r)
           x == req[r].signal
           next == ApplySignal(req[r].was, x, req[r].ledger)
<1>1. /\ OnlyRequest(r) /\ UNCHANGED <<signals, cases, past.unfolded, past.lost>>
      /\ s \in Users /\ x \in AllSignals /\ x.subject = s
      /\ req[r].at = "upsert" /\ req'[r].at = "raise"
      /\ req'[r].logged = req[r].logged
      /\ assessments[s].by \in {None, r}
      /\ assessments'[s].row = assessments[s].row
      /\ assessments'[s].next = next /\ assessments'[s].by = r
      /\ \A u \in Users \ {s} : assessments'[u] = assessments[u]
      /\ memory'.ledger[s] \in AppendSignal(req[r].ledger, x)
      /\ \A u \in Users \ {s} : memory'.ledger[u] = memory.ledger[u]
    BY AppliedRows
<1>2. r # None
    BY NullAssumption
<1>3. req[r].logged[x] > 0
    BY <1>1, BaseRequest DEF PlaceOK
<1>4. req[r].was \in AssessmentRow \cup {None} /\ req[r].ledger \in Ledgers
    BY BaseRequest
<1>5. \A y \in AllSignals : Known(y) => Known(y)'
    BY <1>1 DEF Known
<1>6. \A q \in Requests : req'[q].logged = req[q].logged
    BY <1>1 DEF OnlyRequest
<1>7. ASSUME NEW q \in Requests, NEW u \in Users
      PROVE  /\ Two(u) => Two(u)'
             /\ TwoTo(q, u) => TwoTo(q, u)'
    <2>1. signals' = signals
        BY <1>1
    <2>2. \A z \in AllSignals : req[q].logged[z] > 0 => req'[q].logged[z] > 0
        BY <1>6
    <2> QED
        BY <1>5, <2>1, <2>2, KnownGrows
<1>8. ASSUME NEW y \in AllSignals, Accounted(y)
      PROVE  /\ Accounted(y)'
             /\ y.subject = s => KnownTo(r, y)
    <2>1. y.subject \in Users
        BY SignalFacts
    <2>2. CASE y.subject = s
        BY <1>1, <1>2, <1>5, <1>6, <1>8, <2>2 DEF Accounted, KnownTo
    <2>3. CASE y.subject # s
        <3>1. assessments[y.subject].by \in Requests \cup {None}
            BY <2>1, SeenFacts, BaseTypes DEF Versions
        <3> QED
            BY <1>1, <1>5, <1>6, <1>8, <2>1, <2>3, <3>1 DEF Accounted
    <2> QED
        BY <2>2, <2>3
<1>9. Risen(next) => TwoTo(r, s)
    <2> SUFFICES ASSUME Risen(next) PROVE TwoTo(r, s)
        OBVIOUS
    <2>1. CASE Risen(req[r].was)
        BY <1>1, <2>1 DEF Grounded
    <2>2. CASE ~Risen(req[r].was)
        <3>1. /\ x.kind # "report_against"
              /\ \E e \in AllSignals : /\ req[r].ledger[e] > 0 /\ e.subject = x.subject
                                       /\ e.kind # "report_against" /\ e.detector # x.detector
            BY <1>1, <1>4, <2>2, RisesOnTwo
        <3>2. PICK e \in AllSignals : /\ req[r].ledger[e] > 0 /\ e.subject = x.subject
                                      /\ e.kind # "report_against" /\ e.detector # x.detector
            BY <3>1
        <3>3. Accounted(e)
            BY <1>1, <3>2 DEF Grounded
        <3>4. KnownTo(r, e)
            BY <1>1, <1>8, <3>2, <3>3
        <3>6. Independent(x, e, s)
            BY <1>1, <3>1, <3>2 DEF Independent
        <3> QED
            BY <1>1, <1>3, <3>4, <3>6 DEF TwoTo
    <2> QED
        BY <2>1, <2>2
<1> HIDE DEF s, x, next
<1>10. ASSUME NEW u \in Users, Risen(assessments'[u].row)
       PROVE  Two(u)'
    <2>1. assessments'[u].row = assessments[u].row
        BY <1>1
    <2>2. Two(u)
        BY <1>10, <2>1 DEF Grounded, Risen
    <2> QED
        BY <1>7, <2>2
<1>11. ASSUME NEW u \in Users, NEW q \in Requests, assessments'[u].by = q,
              Risen(assessments'[u].next)
       PROVE  TwoTo(q, u)'
    <2>1. CASE u = s
        <3>1. q = r /\ Risen(next)
            BY <1>1, <1>11, <2>1 DEF Risen
        <3>2. TwoTo(q, u)
            BY <1>9, <2>1, <3>1
        <3> QED
            BY <1>7, <3>2
    <2>2. CASE u # s
        <3>1. TwoTo(q, u)
            BY <1>1, <1>11, <2>2 DEF Grounded, Risen
        <3> QED
            BY <1>7, <3>1
    <2> QED
        BY <2>1, <2>2
<1>12. ASSUME NEW q \in Requests, req'[q].at = "upsert", Risen(req'[q].was)
       PROVE  TwoTo(q, Subject(q))'
    <2> DEFINE t == Subject(q)
    <2>1. req'[q] = req[q] /\ Subject(q)' = t
        BY <1>1, <1>12 DEF OnlyRequest, Subject
    <2>2. t \in Users
        BY <1>12, <2>1, BaseRequest, SubjectFacts DEF PlaceOK, AtSubject
    <2>3. TwoTo(q, t)
        BY <1>12, <2>1 DEF Grounded, Risen
    <2> HIDE DEF t
    <2>4. \A u \in Users : TwoTo(q, u) => TwoTo(q, u)'
        BY <1>7
    <2> QED
        BY <2>1, <2>2, <2>3, <2>4 DEF TwoTo, Independent
<1>13. ASSUME NEW y \in AllSignals, y.kind # "report_against",
              memory'.ledger[y.subject][y] > 0
       PROVE  Accounted(y)'
    <2>1. y.subject \in Users
        BY SignalFacts
    <2>2. CASE y.subject = s
        <3>1. CASE y = x
            BY <1>1, <1>2, <1>3, <1>6, <2>2, <3>1 DEF Accounted, x
        <3>2. CASE y # x
            <4>1. memory'.ledger[s] \in AppendSignal(req[r].ledger, x) /\ memory'.ledger[s][y] > 0
                BY <1>1, <1>13, <2>2
            <4>2. req[r].ledger[y] > 0
                BY <1>1, <1>4, <3>2, <4>1, AppendedFacts
            <4>3. Accounted(y)
                BY <1>1, <1>13, <2>2, <4>2 DEF Grounded, s
            <4> QED
                BY <1>8, <4>3
        <3> QED
            BY <3>1, <3>2
    <2>3. CASE y.subject # s
        <3>1. Accounted(y)
            BY <1>1, <1>13, <2>1, <2>3 DEF Grounded
        <3> QED
            BY <1>8, <3>1
    <2> QED
        BY <2>2, <2>3
<1>14. ASSUME NEW q \in Requests, NEW y \in AllSignals,
              req'[q].at \in {"seeded", "upsert"}, y.subject = Subject(q)',
              y.kind # "report_against", req'[q].ledger[y] > 0
       PROVE  Accounted(y)'
    <2>1. req'[q] = req[q] /\ Subject(q)' = Subject(q)
        BY <1>1, <1>14 DEF OnlyRequest, Subject
    <2>2. Accounted(y)
        BY <1>14, <2>1 DEF Grounded
    <2> QED
        BY <1>8, <2>2
<1> QED
    BY <1>10, <1>11, <1>12, <1>13, <1>14 DEF Grounded

(* What both ends of a request leave grounded: what it stored of a signal    *)
(* that counts stays known, in the table or as lost.                         *)
LEMMA EndGrounds ==
    ASSUME Base, Grounded, NEW r \in Requests, OnlyRequest(r), req'[r] = Idle,
           memory'.ledger = memory.ledger,
           \A x \in AllSignals : Known(x) => Known(x)',
           \A x \in AllSignals : signals[x] > 0 => signals'[x] > 0,
           \A x \in AllSignals : x.kind # "report_against" /\ KnownTo(r, x) => Known(x)',
           \A u \in Users :
               /\ assessments[u].by = r => /\ assessments'[u].by = None
                                           /\ \/ assessments'[u].row = assessments[u].row
                                              \/ /\ assessments'[u].row = assessments[u].next
                                                 /\ \A x \in AllSignals :
                                                       req[r].logged[x] > 0 => signals'[x] > 0
               /\ assessments[u].by # r => assessments'[u] = assessments[u]
    PROVE  Grounded'
<1>1. \A q \in Requests : q # r => req'[q] = req[q] /\ Subject(q)' = Subject(q)
    BY DEF OnlyRequest, Subject
<1>2. ASSUME NEW u \in Users
      PROVE  /\ Two(u) => Two(u)'
             /\ (\A x \in AllSignals : req[r].logged[x] > 0 => signals'[x] > 0)
                    => (TwoTo(r, u) => Two(u)')
             /\ \A q \in Requests : q # r => (TwoTo(q, u) => TwoTo(q, u)')
    <2>1. \A x, y \in AllSignals : Independent(x, y, u)' <=> Independent(x, y, u)
        BY DEF Independent
    <2>2. Two(u) => Two(u)'
        BY <2>1 DEF Two
    <2>3. ASSUME \A x \in AllSignals : req[r].logged[x] > 0 => signals'[x] > 0, TwoTo(r, u)
          PROVE  Two(u)'
        <3>1. PICK x \in AllSignals, y \in AllSignals :
                  /\ Independent(x, y, u) /\ KnownTo(r, y)
                  /\ signals[x] > 0 \/ req[r].logged[x] > 0
            BY <2>3 DEF TwoTo
        <3>2. signals'[x] > 0 /\ Known(y)'
            BY <2>3, <3>1 DEF Independent
        <3> QED
            BY <2>1, <3>1, <3>2 DEF Two
    <2>4. ASSUME NEW q \in Requests, q # r, TwoTo(q, u)
          PROVE  TwoTo(q, u)'
        <3>1. PICK x \in AllSignals, y \in AllSignals :
                  /\ Independent(x, y, u) /\ KnownTo(q, y)
                  /\ signals[x] > 0 \/ req[q].logged[x] > 0
            BY <2>4 DEF TwoTo
        <3>2. req'[q].logged = req[q].logged
            BY <1>1, <2>4
        <3>3. KnownTo(q, y)' /\ (signals'[x] > 0 \/ req'[q].logged[x] > 0)
            BY <3>1, <3>2 DEF KnownTo
        <3> QED
            BY <2>1, <3>1, <3>3 DEF TwoTo
    <2> QED
        BY <2>2, <2>3, <2>4
<1>3. ASSUME NEW x \in AllSignals, x.kind # "report_against", Accounted(x)
      PROVE  Accounted(x)'
    <2>1. x.subject \in Users
        BY SignalFacts
    <2>2. assessments[x.subject].by \in Requests \cup {None}
        BY <2>1, SeenFacts, BaseTypes DEF Versions
    <2>3. CASE assessments[x.subject].by = r
        BY <1>3, <2>3 DEF Accounted, KnownTo
    <2>4. CASE assessments[x.subject].by # r
        <3>1. assessments'[x.subject] = assessments[x.subject]
            BY <2>1, <2>4
        <3> QED
            BY <1>1, <1>3, <2>2, <2>4, <3>1 DEF Accounted
    <2> QED
        BY <2>3, <2>4
<1>4. ASSUME NEW u \in Users, Risen(assessments'[u].row)
      PROVE  Two(u)'
    <2>1. CASE assessments[u].by = r
        <3>1. CASE assessments'[u].row = assessments[u].row
            <4>1. Two(u)
                BY <1>4, <3>1 DEF Grounded, Risen
            <4> QED
                BY <1>2, <4>1
        <3>2. CASE /\ assessments'[u].row = assessments[u].next
                   /\ \A x \in AllSignals : req[r].logged[x] > 0 => signals'[x] > 0
            <4>1. TwoTo(r, u)
                BY <1>4, <2>1, <3>2 DEF Grounded, Risen
            <4> QED
                BY <1>2, <3>2, <4>1
        <3> QED
            BY <2>1, <3>1, <3>2
    <2>2. CASE assessments[u].by # r
        <3>1. Two(u)
            BY <1>4, <2>2 DEF Grounded, Risen
        <3> QED
            BY <1>2, <3>1
    <2> QED
        BY <2>1, <2>2
<1>5. ASSUME NEW u \in Users, NEW q \in Requests, assessments'[u].by = q,
             Risen(assessments'[u].next)
      PROVE  TwoTo(q, u)'
    <2>1. assessments[u].by # r /\ assessments'[u] = assessments[u] /\ q # r
        BY <1>5, NullAssumption
    <2>2. TwoTo(q, u)
        BY <1>5, <2>1 DEF Grounded, Risen
    <2> QED
        BY <1>2, <2>1, <2>2
<1>6. ASSUME NEW q \in Requests, req'[q].at = "upsert", Risen(req'[q].was)
      PROVE  TwoTo(q, Subject(q))'
    <2> DEFINE t == Subject(q)
    <2>1. q # r /\ req'[q] = req[q] /\ Subject(q)' = t
        BY <1>1, <1>6, IdleFacts
    <2>2. t \in Users
        BY <1>6, <2>1, BaseRequest, SubjectFacts DEF PlaceOK, AtSubject
    <2>3. TwoTo(q, t)
        BY <1>6, <2>1 DEF Grounded, Risen
    <2> HIDE DEF t
    <2>4. \A u \in Users : TwoTo(q, u) => TwoTo(q, u)'
        BY <1>2, <2>1
    <2> QED
        BY <2>1, <2>2, <2>3, <2>4 DEF TwoTo, Independent
<1>7. ASSUME NEW x \in AllSignals, x.kind # "report_against", memory'.ledger[x.subject][x] > 0
      PROVE  Accounted(x)'
    <2>1. Accounted(x)
        BY <1>7 DEF Grounded
    <2> QED
        BY <1>3, <1>7, <2>1
<1>8. ASSUME NEW q \in Requests, NEW x \in AllSignals,
             req'[q].at \in {"seeded", "upsert"}, x.subject = Subject(q)',
             x.kind # "report_against", req'[q].ledger[x] > 0
      PROVE  Accounted(x)'
    <2>1. q # r /\ req'[q] = req[q] /\ Subject(q)' = Subject(q)
        BY <1>1, <1>8, IdleFacts
    <2>2. Accounted(x)
        BY <1>8, <2>1 DEF Grounded
    <2> QED
        BY <1>3, <1>8, <2>2
<1> QED
    BY <1>4, <1>5, <1>6, <1>7, <1>8 DEF Grounded

LEMMA CommitGrounds ==
    ASSUME Base, Grounded, NEW r \in Requests, CommitRequest(r)
    PROVE  Grounded'
<1>1. /\ OnlyRequest(r) /\ req'[r] = Idle /\ memory' = memory /\ past'.lost = past.lost
      /\ \A x \in AllSignals : signals'[x] > 0 <=> signals[x] > 0 \/ req[r].logged[x] > 0
    BY CommitBase
<1>2. \A x \in AllSignals : Known(x) => Known(x)'
    BY <1>1 DEF Known
<1>3. \A x \in AllSignals : x.kind # "report_against" /\ KnownTo(r, x) => Known(x)'
    BY <1>1, <1>2 DEF KnownTo, Known
<1>4. \A u \in Users :
          /\ assessments[u].by = r => /\ assessments'[u].by = None
                                      /\ \/ assessments'[u].row = assessments[u].row
                                         \/ /\ assessments'[u].row = assessments[u].next
                                            /\ \A x \in AllSignals :
                                                  req[r].logged[x] > 0 => signals'[x] > 0
          /\ assessments[u].by # r => assessments'[u] = assessments[u]
    BY <1>1, CommitRows
<1>5. \A x \in AllSignals : signals[x] > 0 => signals'[x] > 0
    BY <1>1
<1> QED
    BY <1>1, <1>2, <1>3, <1>4, <1>5, EndGrounds

LEMMA FailGrounds ==
    ASSUME Base, Grounded, NEW r \in Requests, Fail(r)
    PROVE  Grounded'
<1>1. /\ OnlyRequest(r) /\ req'[r] = Idle /\ memory'.ledger = memory.ledger /\ UNCHANGED signals
      /\ past'.lost = past.lost \cup {x \in AllSignals : /\ x.kind # "report_against"
                                                         /\ req[r].logged[x] > 0}
    BY FailBase
<1>2. \A x \in AllSignals : Known(x) => Known(x)'
    BY <1>1 DEF Known
<1>3. \A x \in AllSignals : x.kind # "report_against" /\ KnownTo(r, x) => Known(x)'
    BY <1>1, <1>2 DEF KnownTo, Known
<1>4. \A u \in Users :
          /\ assessments[u].by = r => /\ assessments'[u].by = None
                                      /\ assessments'[u].row = assessments[u].row
          /\ assessments[u].by # r => assessments'[u] = assessments[u]
    BY FailRows
<1> QED
    BY <1>1, <1>2, <1>3, <1>4, EndGrounds

LEMMA RestartGrounds ==
    ASSUME Base, Grounded, Restart
    PROVE  Grounded'
<1>1. /\ past'.lost = past.lost /\ UNCHANGED signals /\ memory' = EmptyMemory
      /\ \A r \in Requests : req'[r] = Idle
    BY RestartBase
<1>2. \A u \in Users : assessments'[u].row = assessments[u].row /\ assessments'[u].by = None
    BY RestartRows
<1>3. ASSUME NEW u \in Users, Risen(assessments'[u].row)
      PROVE  Two(u)'
    <2>1. Two(u)
        BY <1>2, <1>3 DEF Grounded, Risen
    <2> QED
        BY <1>1, <2>1 DEF Two, Known, Independent
<1>4. \A x \in AllSignals : memory'.ledger[x.subject][x] = 0
    BY <1>1, SignalFacts, LedgerFacts DEF EmptyMemory
<1>5. \A r \in Requests : req'[r].at = "idle" /\ r # None
    BY <1>1, IdleFacts, NullAssumption
<1> QED
    BY <1>2, <1>3, <1>4, <1>5 DEF Grounded

LEMMA StutterGrounds ==
    ASSUME Base, Grounded, Still
    PROVE  Grounded'
<1>1. UNCHANGED <<assessments, signals, memory, req, past>>
    BY DEF Still
<1> QED
    BY <1>1 DEF Grounded, Risen, Two, TwoTo, Independent, Known, KnownTo, Accounted, Subject

LEMMA GroundedInit == Init => Grounded
<1> SUFFICES ASSUME Init PROVE Grounded
    OBVIOUS
<1>1. \A u \in Users : assessments[u].row = None /\ assessments[u].by = None
    BY SettledFacts DEF Init
<1>2. \A x \in AllSignals : memory.ledger[x.subject][x] = 0
    BY SignalFacts, LedgerFacts DEF Init, EmptyMemory
<1>3. \A r \in Requests : req[r].at = "idle" /\ r # None
    BY IdleFacts, NullAssumption DEF Init
<1> QED
    BY <1>1, <1>2, <1>3 DEF Grounded, Risen

LEMMA TwoAreCounted ==
    ASSUME Base, NEW u \in Users, Two(u)
    PROVE  /\ Cardinality({x.detector : x \in Heard(u)} \ {"report_against"}) >= 2
           /\ {x.detector : x \in Recorded(u)} \ {"report_against"} # {}
<1> DEFINE heard == {x.detector : x \in Heard(u)} \ {"report_against"}
<1>1. PICK x \in AllSignals, y \in AllSignals :
          Independent(x, y, u) /\ signals[x] > 0 /\ Known(y)
    BY DEF Two
<1>2. x \in Recorded(u) /\ x \in Heard(u) /\ y \in Heard(u)
    BY <1>1 DEF Independent, Known, Heard, Recorded
<1>3. /\ x.detector # y.detector
      /\ x.detector # "report_against" /\ y.detector # "report_against"
    BY <1>1, SignalFacts DEF Independent
<1>4. {x.detector, y.detector} \subseteq heard
    BY <1>2, <1>3
<1>5. IsFiniteSet({x.detector, y.detector}) /\ Cardinality({x.detector, y.detector}) = 2
    <2>1. IsFiniteSet({x.detector}) /\ Cardinality({x.detector}) = 1
        BY FS_Singleton
    <2>2. /\ IsFiniteSet({x.detector} \cup {y.detector})
          /\ Cardinality({x.detector} \cup {y.detector}) = 2
        <3>1. y.detector \notin {x.detector}
            BY <1>3
        <3>2. /\ IsFiniteSet({x.detector} \cup {y.detector})
              /\ Cardinality({x.detector} \cup {y.detector}) = Cardinality({x.detector}) + 1
            BY <2>1, <3>1, FS_AddElement
        <3> QED
            BY <2>1, <3>2
    <2>3. {x.detector, y.detector} = {x.detector} \cup {y.detector}
        OBVIOUS
    <2> QED
        BY <2>2, <2>3
<1>6. IsFiniteSet(heard)
    <2>1. past.lost \subseteq AllSignals
        BY BaseTypes
    <2>2. \A z \in Heard(u) : z.detector \in Heeded
        BY <2>1, SignalFacts DEF Heard, Recorded
    <2>3. heard \subseteq {"message_burst"} \cup {"unmatch_by_counterparty"} \cup {"unmatch_report"}
        BY <2>2 DEF Heeded
    <2>4. IsFiniteSet({"message_burst"} \cup {"unmatch_by_counterparty"})
        BY FS_Singleton, FS_AddElement
    <2>5. IsFiniteSet({"message_burst"} \cup {"unmatch_by_counterparty"} \cup {"unmatch_report"})
        BY <2>4, FS_AddElement
    <2> QED
        BY <2>3, <2>4, <2>5, FS_Subset
<1>7. Cardinality({x.detector, y.detector}) <= Cardinality(heard)
    BY <1>4, <1>6, FS_Subset
<1>8. Cardinality(heard) \in Nat
    BY <1>6, FS_CardinalityType
<1>9. x.detector \in {z.detector : z \in Recorded(u)} \ {"report_against"}
    BY <1>2, <1>3
<1> QED
    BY <1>5, <1>7, <1>8, <1>9

(* Nobody is at risk on one detector's word, however often it speaks and     *)
(* whatever others report: behind an assessment that rose are signals of two *)
(* detectors, neither of them the report pattern, one stored and the other   *)
(* stored or drawn by a request that failed.                                 *)
THEOREM RiskIsAlwaysCorroborated == Spec => []RiskIsCorroborated
<1>1. Base /\ Grounded /\ [Next]_vars => Grounded'
    BY Steps, LocalGrounds, AppliedGrounds, CommitGrounds, FailGrounds, RestartGrounds,
       StutterGrounds
<1>2. Base /\ Grounded => RiskIsCorroborated
    <2> SUFFICES ASSUME Base, Grounded PROVE RiskIsCorroborated
        OBVIOUS
    <2>1. ASSUME NEW u \in Users, Assessment[u] # None, Assessment[u].state # "normal"
          PROVE  /\ Cardinality({x.detector : x \in Heard(u)} \ {"report_against"}) >= 2
                 /\ {x.detector : x \in Recorded(u)} \ {"report_against"} # {}
        <3>1. Assessment[u] = assessments[u].row
            BY BaseTypes DEF Assessment, Stored
        <3>2. Two(u)
            BY <2>1, <3>1 DEF Grounded, Risen
        <3> QED
            BY <3>2, TwoAreCounted
    <2> QED
        BY <2>1 DEF RiskIsCorroborated
<1> QED
    BY BaseAlways, GroundedInit, <1>1, <1>2, PTL DEF Spec
=============================================================================
