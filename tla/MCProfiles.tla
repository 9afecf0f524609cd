----------------------------- MODULE MCProfiles ------------------------------
(* Two regimes, one of them chosen at the start: two requests at once, none   *)
(* of them of the older route; or every route, one request at a time.         *)
EXTENDS Profiles

VARIABLE regime

MCInit == Init /\ regime \in {"crossing", "alone"}
MCNext ==
    /\ Next /\ UNCHANGED regime
    /\ \/ regime = "crossing" /\ \A r \in Requests : req'[r].op # "replace"
       \/ regime = "alone" /\ crossed' = {}
MCSpec == MCInit /\ [][MCNext]_<<vars, regime>>

(* No event of a profile leads back from deleted.                             *)
ASSUME DeletedIsFinal ==
    \A state \in ProfileStates, event \in DOMAIN ProfileTo, met \in BOOLEAN :
        MayMoveProfile(state, event, met) => state # "deleted" /\ ProfileTo[event] \in ProfileStates

(* A profile that is a draft, incomplete or complete can be saved either way. *)
ASSUME SavesAreMoves ==
    \A state \in {"draft", "incomplete", "complete"}, complete \in BOOLEAN :
        MayMoveProfile(state, SaveEvent(complete), complete)

(* The photos are symmetric until one has a position, which no definition     *)
(* reads by name, and so are the request slots.                               *)
MCSymmetry == Permutations(Photos) \cup Permutations(Requests)
=============================================================================
