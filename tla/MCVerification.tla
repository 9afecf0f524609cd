--------------------------- MODULE MCVerification ---------------------------
EXTENDS Verification, TLC
Symmetry == Permutations(Requests)
Report(outcome) == [c \in REQUIRED_CHECKS |-> outcome]
CONSTANTS handle, other      \* two handles of the provider's
(* A clean pass at the floor, a failed check, and one short of the floor. *)
ResultsTried ==
    {[confidence |-> 90, checks |-> Report("passed"), reference |-> handle],
     [confidence |-> 89, checks |-> Report("failed"), reference |-> other],
     [confidence |-> 89, checks |-> Report("passed"), reference |-> handle]}

ASSUME ResultsAreReports ==
    \A x \in ResultsTried : \A c \in DOMAIN x.checks :
        c \in Checks /\ x.checks[c] \in CheckOutcomes
=============================================================================
