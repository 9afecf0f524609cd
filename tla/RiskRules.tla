----------------------------- MODULE RiskRules ------------------------------
(***************************************************************************)
(* The pure part of trust-safety: the risk machine of the kernel, the      *)
(* catalogue of detectors, the score of a signal, what corroborates it and *)
(* what one signal makes of a subject's risk.                              *)
(*                                                                         *)
(* Scores are whole numbers: a weight, a discount and two multipliers are  *)
(* hundredths, so a score of One is certainty.  A ledger is a bag of       *)
(* signals; the instant a signal is of is a whole number of hours.         *)
(***************************************************************************)
EXTENDS Integers, FiniteSets, Bags

RiskStates == {"normal", "elevated", "high", "critical"}
RiskEvents == {"signal_observed", "threshold_crossed", "decay", "manual_reassess",
               "reset_after_review"}

RISK_RANK == [normal |-> 0, elevated |-> 1, high |-> 2, critical |-> 3]
IsEscalation(from, to) == RISK_RANK[to] > RISK_RANK[from]

One == 100 * 100 * 100 * 100
Hundredths(n) == n * 100 * 100 * 100

-----------------------------------------------------------------------------
(* The state machine.  The first row that applies wins, so a threshold       *)
(* crossed from high is critical, and is never asked for.                    *)
GATE == [elevated |-> Hundredths(50), high |-> Hundredths(70), critical |-> Hundredths(90)]
DECAY_DAYS == [critical |-> 30, high |-> 14, elevated |-> 7]

RiskMoves(state, event, score, detectors, days, assessor) ==
    CASE event = "signal_observed" ->
             (CASE state = "normal" /\ score >= GATE.elevated -> {"elevated"}
                [] state = "elevated" /\ score >= GATE.high -> {"high"}
                [] state = "high" /\ (score >= GATE.critical \/ detectors >= 2) -> {"critical"}
                [] OTHER -> {})
      [] event = "threshold_crossed" ->
             (CASE state = "high" -> {"critical"}
                [] state \in {"normal", "elevated"} /\ score >= GATE.high -> {"high"}
                [] OTHER -> {})
      [] event = "decay" ->
             {to \in RiskStates : /\ state # "normal"
                                  /\ days >= DECAY_DAYS[state]
                                  /\ RISK_RANK[to] = RISK_RANK[state] - 1}
      [] OTHER -> {to \in {"normal"} : assessor}

-----------------------------------------------------------------------------
(* The catalogues.  Every detector in them is corroboration_only.            *)
Author(weight, reliability, kind) ==
    [weight |-> weight, reliability |-> reliability, kind |-> kind,
     escalation |-> "corroboration_only", dependsOnReports |-> FALSE]

SAFETY_DETECTORS ==
    [like_burst              |-> Author(35, "low", "like_velocity"),
     message_burst           |-> Author(40, "medium", "message_velocity"),
     profile_churn           |-> Author(30, "low", "profile_churn"),
     unmatch_by_counterparty |-> Author(50, "low", "unmatch_by_counterparty"),
     identity_reuse          |-> Author(45, "medium", "identity_reuse"),
     report_against          |-> [Author(50, "medium", "report_against")
                                    EXCEPT !.dependsOnReports = TRUE]]
Detectors == DOMAIN SAFETY_DETECTORS

(* With a pairing secret, a seventh joins a report to an earlier unmatch.    *)
PairedDetectors ==
    [d \in Detectors \cup {"unmatch_report"} |->
        IF d \in Detectors THEN SAFETY_DETECTORS[d]
        ELSE [Author(60, "high", "unmatch_then_report") EXCEPT !.dependsOnReports = TRUE]]

RELIABILITY_DISCOUNT == [low |-> 70, medium |-> 85, high |-> 100]
ESCALATION_GATE == 50 * 100
UnaidedScore(author) == author.weight * RELIABILITY_DISCOUNT[author.reliability]

(* createSignal: what a signal must be to be one.                            *)
AttributionIsValid(kind, subject, actor) == (kind = "report_against") <=> (actor # subject)
IsSignal(author, kind, subject, actor) ==
    /\ author.weight \in 1..100
    /\ AttributionIsValid(kind, subject, actor)
    /\ author.escalation = "self_escalating" => UnaidedScore(author) >= ESCALATION_GATE

-----------------------------------------------------------------------------
(* corroborate: what a ledger says about one more signal, from those of its  *)
(* entries that are no older than the window and no newer than the signal.   *)
CORROBORATION_WINDOW_HOURS == 168
REPEAT_WINDOW_HOURS == 24
Within(e, signal, hours) == e.at >= signal.at - hours /\ e.at <= signal.at

Recent(ledger, signal) ==
    {e \in BagToSet(ledger) : Within(e, signal, CORROBORATION_WINDOW_HOURS)}

SameBehaviour(a, b) == a.kind = b.kind /\ a.entity = b.entity
Copies(ledger, set) == Cardinality(UNION {{e} \X (1..ledger[e]) : e \in set})

Corroborating_Reports(ledger, signal) ==    \* mutant: a discarded report corroborates
    {signal.detector} \cup {e.detector : e \in Recent(ledger, signal)}
Corroborating(ledger, signal) ==
    {signal.detector} \cup {e.detector : e \in {x \in Recent(ledger, signal) :
                                                   /\ x.subject = signal.subject
                                                   /\ x.kind # "report_against"}}

Repetitions(ledger, signal) ==
    Copies(ledger, {x \in Recent(ledger, signal) : /\ Within(x, signal, REPEAT_WINDOW_HOURS)
                                                   /\ x.detector = signal.detector
                                                   /\ x.subject = signal.subject
                                                   /\ SameBehaviour(x, signal)})

MassReport_Prior(ledger, signal, clusterSize) ==    \* mutant: this report is not counted
    LET reporters == {e.actor : e \in {x \in Recent(ledger, signal) : SameBehaviour(x, signal)}}
    IN  IF signal.kind = "report_against" /\ Cardinality(reporters) >= clusterSize
        THEN reporters ELSE {}
MassReport(ledger, signal, clusterSize) ==
    LET reporters == {signal.actor} \cup {e.actor : e \in {x \in Recent(ledger, signal) :
                                                              SameBehaviour(x, signal)}}
    IN  IF signal.kind = "report_against" /\ Cardinality(reporters) >= clusterSize
        THEN reporters ELSE {}

-----------------------------------------------------------------------------
(* assessSignal: what one signal makes of a subject in a given state.        *)
REPEAT_STEP == 5
REPEAT_MULTIPLIER_CAP == 125
CORROBORATION_MULTIPLIER == 115
SINGLE_DETECTOR_SCORE_CEILING == Hundredths(85)
AtMost(n, cap) == IF n <= cap THEN n ELSE cap

EffectiveScore(author, detectors, repetitions) ==
    LET repeated == UnaidedScore(author)
                    * AtMost(100 + repetitions * REPEAT_STEP, REPEAT_MULTIPLIER_CAP)
    IN  IF detectors < 2 THEN AtMost(repeated * 100, SINGLE_DETECTOR_SCORE_CEILING)
                         ELSE AtMost(repeated * CORROBORATION_MULTIPLIER, One)

MayEscalateAlone(author, detectors) ==
    author.escalation = "self_escalating" \/ detectors >= 2

SelectEvent(state, score, corroborated) ==
    IF state # "high" /\ corroborated /\ score >= GATE.high
    THEN "threshold_crossed" ELSE "signal_observed"

AssessRisk(state, author, detectors, repetitions) ==
    LET score == EffectiveScore(author, detectors, repetitions)
        moves == RiskMoves(state, SelectEvent(state, score, detectors >= 2), score,
                           detectors, 0, FALSE)
    IN  IF MayEscalateAlone(author, detectors) /\ state # "critical" /\ moves # {}
        THEN CHOOSE to \in moves : TRUE ELSE state

(* A report is never evidence about the account it names.                    *)
AssessSignal(state, catalogue, signal, ledger) ==
    IF signal.kind = "report_against" THEN state
    ELSE AssessRisk(state, catalogue[signal.detector],
                    Cardinality(Corroborating(ledger, signal)), Repetitions(ledger, signal))

-----------------------------------------------------------------------------
(* What a catalogue can reach at all, from its weights alone.                *)
HighestReachableFromNormal(author) ==
    LET score == AtMost(UnaidedScore(author) * REPEAT_MULTIPLIER_CAP
                                             * CORROBORATION_MULTIPLIER, One)
    IN  CASE score >= GATE.critical -> "critical"
          [] score >= GATE.high -> "high"
          [] score >= GATE.elevated -> "elevated"
          [] OTHER -> "normal"

CountedStates == {"high", "critical"}
Measurable(catalogue) ==
    \E d \in DOMAIN catalogue : /\ ~catalogue[d].dependsOnReports
                                /\ HighestReachableFromNormal(catalogue[d]) \in CountedStates
=============================================================================
