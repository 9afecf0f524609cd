-------------------------- MODULE MCSafetyRecorder --------------------------
(* Three regimes, one of them chosen at the start.  A campaign is observed   *)
(* two requests at a time within two hours, the last behaviour alone.  The   *)
(* same campaign ages, a request at a time, and the clock moves only while   *)
(* none is in flight: a request takes less than the windows do.  Or one      *)
(* person's long nuisance at one instant, a request at a time and two at the *)
(* end of it.                                                                *)
EXTENDS SafetyRecorder, TLC

CONSTANTS target, a, b,
    MaxFailures,        \* bound: requests that fail, and restarts, in all
    CampaignObserved,   \* bound: behaviours observed of a campaign
    Alone               \* bound: behaviours of a nuisance observed before any two at once

VARIABLES regime, failures
MCVars == <<vars, regime, failures>>

Act(kind, by, of) == [kind |-> kind, by |-> by, of |-> of]

(* Two people report a third, who is as busy as the bound allows.            *)
Campaign == {Act("report", a, target), Act("report", b, target),
             Act("message_burst", target, a)}

(* One who floods another, is unmatched and reported.                        *)
Nuisance == {Act("message_burst", target, a), Act("unmatch", a, target),
             Act("report", a, target), Act("like", target, a)}

MCBehaviours == Campaign \cup Nuisance

OneAtATime == \A q, r \in Requests : ~At(q, "idle")' /\ ~At(r, "idle")' => q = r
OnlyOf(acts) == \A i \in DOMAIN memory'.observed :
                    \E x \in acts : /\ memory'.observed[i].kind \in {x.kind, "pairing"}
                                    /\ memory'.observed[i].by = x.by

MCInit == Init /\ failures = 0 /\ regime \in {"campaign", "aging", "nuisance"}
MCNext ==
    /\ Next /\ UNCHANGED regime
    /\ failures' = failures + Cardinality({r \in Requests : Fail(r)})
    /\ failures' + past'.restarts <= MaxFailures
    /\ \/ /\ regime = "campaign"
          /\ OnlyOf(Campaign) /\ past'.observed <= CampaignObserved
          /\ past'.observed = CampaignObserved => OneAtATime
          /\ clock' <= 1
       \/ /\ regime = "aging"
          /\ OnlyOf(Campaign) /\ past'.observed <= CampaignObserved /\ OneAtATime
          /\ UNCHANGED clock \/ \A r \in Requests : At(r, "idle")
       \/ /\ regime = "nuisance"
          /\ OnlyOf(Nuisance) /\ UNCHANGED clock
          /\ past'.observed <= Alone => OneAtATime
MCSpec == MCInit /\ [][MCNext]_MCVars

MCSymmetry == Permutations(Requests)
=============================================================================
