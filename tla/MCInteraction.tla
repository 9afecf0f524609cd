--------------------------- MODULE MCInteraction ---------------------------
(* The requests of one instance come in one of three ways, chosen at the     *)
(* start: two at once that like, block and unmatch; two at once by which one *)
(* user likes and passes; and all four operations one at a time, where the   *)
(* rules that a race breaks do hold.                                         *)
EXTENDS Interaction, FiniteSets

VARIABLE regime
MCVars == <<vars, regime>>

OfferedIn == [endings |-> {"like", "block", "unmatch"}, passes |-> {"like", "pass"},
              serial |-> {"like", "pass", "block", "unmatch"}]
Busy == {r \in Requests : ~At(r, "idle")}

MCInit == Init /\ regime \in DOMAIN OfferedIn
MCNext ==
    /\ Next /\ UNCHANGED regime
    /\ \A r \in Busy' : req'[r].op \in OfferedIn[regime]
    /\ regime = "passes" => \A r \in Busy' : req'[r].from = 1
    /\ regime = "serial" => Cardinality(Busy') <= 1
MCFairness == \A r \in Requests : SF_MCVars(Step(r) /\ UNCHANGED regime)
MCSpec == MCInit /\ [][MCNext]_MCVars /\ MCFairness

Serial == regime = "serial"

(* With one request at a time, a blocked pair has no open match, and two     *)
(* users who currently like each other with no pass in effect between them   *)
(* have a match on record, whatever was passed, withdrawn or ended before:   *)
(* the order of the checks in the like and the block handlers is right, and  *)
(* only requests in flight together break the two rules.                     *)
SerialMatchingRules == Serial => BlockedPairHasNoOpenMatch /\ ReciprocalLikesMatch
=============================================================================
