-------------------------- MODULE AccountStanding --------------------------
(***************************************************************************)
(* What enforcement promises: each account's state moves by the account    *)
(* machine and by nothing else.  A re-entering account starts suspended.   *)
(***************************************************************************)
EXTENDS AccountMachine

CONSTANT Accounts
VARIABLE state

Init == state \in [Accounts -> {"active", "suspended"}]

Apply(a, event) ==
    /\ state[a] \in Moves[event].from
    /\ state' = [state EXCEPT ![a] = Moves[event].to]

Next == \E a \in Accounts, event \in AccountEvents : Apply(a, event)

Spec == Init /\ [][Next]_state
=============================================================================
