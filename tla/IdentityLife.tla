----------------------------- MODULE IdentityLife -----------------------------
(***************************************************************************)
(* What verification promises of an identity, whoever asks and in whatever *)
(* order: it moves by the kernel's machine, one generation at a time.      *)
(***************************************************************************)
EXTENDS IdentityMachine

CONSTANT Accounts
VARIABLES state, generation

Init == /\ state = [u \in Accounts |-> "unverified"]
        /\ generation = [u \in Accounts |-> 1]

Move(u, event) ==
    /\ state[u] \in IdentityMoves[event].from
    /\ state' = [state EXCEPT ![u] = IdentityMoves[event].to]
    /\ generation' = [generation EXCEPT ![u] = @ + 1]

Next == \E u \in Accounts, event \in IdentityEvents : Move(u, event)

Spec == Init /\ [][Next]_<<state, generation>>
=============================================================================
