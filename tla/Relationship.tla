---------------------------- MODULE Relationship ----------------------------
(***************************************************************************)
(* What the interaction component promises, whatever it does inside: the   *)
(* relationship of each pair moves one committed decision at a time, and   *)
(* only forward.  Interaction implements this specification.               *)
(***************************************************************************)
CONSTANTS Users, Pairs

VARIABLES
    liked,      \* <<a, b>>: a like from a to b is on record
    blocked,    \* pairs with an active block
    match       \* "none", "open" or how it ended, by pair

vars == <<liked, blocked, match>>

Init ==
    /\ liked = {}
    /\ blocked = {}
    /\ match = [p \in Pairs |-> "none"]

Mutual(p) == \A a, b \in p : a # b => <<a, b>> \in liked'

(* A like may, in the same decision, make the match of two who like each     *)
(* other; a retried like may make it alone.  An old match is not remade.     *)
Like(a, b) ==
    /\ liked' = liked \cup {<<a, b>>}
    /\ \/ match' = match
       \/ /\ match[{a, b}] = "none" /\ Mutual({a, b})
          /\ match' = [match EXCEPT ![{a, b}] = "open"]
    /\ UNCHANGED blocked

(* Unmatching.  The loser of two concurrent ends restates the cause.         *)
Unmatch(p) ==
    /\ match[p] # "none"
    /\ match' = [match EXCEPT ![p] = "unmatched"]
    /\ UNCHANGED <<liked, blocked>>

Block(p) ==
    /\ p \notin blocked
    /\ blocked' = blocked \cup {p}
    /\ \/ match' = match
       \/ match[p] # "none" /\ match' = [match EXCEPT ![p] = "ended_by_block"]
    /\ UNCHANGED liked

Next ==
    \/ \E a, b \in Users : a # b /\ Like(a, b)
    \/ \E p \in Pairs : Unmatch(p) \/ Block(p)

Spec == Init /\ [][Next]_vars
=============================================================================
