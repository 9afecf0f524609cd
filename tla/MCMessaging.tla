----------------------------- MODULE MCMessaging -----------------------------
(* Two regimes, one of them chosen at the start.  Endings: sends beside       *)
(* blocks, unmatches and restrictions, at one instant.  Bursts: sends alone,  *)
(* while the clock takes the window past older messages and the conversation  *)
(* outgrows the page the burst rule counts.                                   *)
EXTENDS Messaging, TLC

VARIABLE regime

MCInit == Init /\ regime \in {"endings", "bursts"}
MCNext ==
    /\ Next /\ UNCHANGED regime
    /\ \/ regime = "endings" /\ UNCHANGED now
       \/ regime = "bursts" /\ UNCHANGED standing /\ \A r \in Requests : req'[r].op = "send"
MCSpec == MCInit /\ [][MCNext]_<<vars, regime>>

(* The two participants are symmetric, and so are the request slots.          *)
MCSymmetry == Permutations(Users) \cup Permutations(Requests)
=============================================================================
