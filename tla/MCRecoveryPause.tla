--------------------------- MODULE MCRecoveryPause ---------------------------
(* Instances of RecoveryPause.  Sources and request slots are symmetric.      *)
EXTENDS RecoveryPause, TLC

(* The catalogue names a use for every channel, and a pair's notice is never  *)
(* planned without its block edge, nor another's with one.                    *)
ASSUME CatalogueIsTotal ==
    \A k \in DOMAIN NotificationKinds : \A c \in Channels, edge \in Edges :
        LET spec == NotificationKinds[k]
            default == [optIn |-> spec.category :> DefaultOptIn(spec.category),
                        quiet |-> AlwaysOn, digest |-> [dayOfWeek |-> 0, hour |-> 9]]
        IN  /\ spec.channels[c] \in Modes
            /\ PlanNotification(k, c, edge, default, Channels, 0).outcome = "planned" =>
                   edge = (IF spec.pairScoped THEN "clear" ELSE "unstated")

MCSymmetry == Permutations(Sources) \cup Permutations(Requests)
=============================================================================
