--------------------------- MODULE IdentityMachine ---------------------------
(***************************************************************************)
(* The kernel's identity machine, core/src/states/identity.ts: the only    *)
(* moves an identity may make.  A confidence is a whole percentage; a      *)
(* provider's value outside 0..100 is no confidence at all.                *)
(***************************************************************************)
EXTENDS Integers

IdentityStates == {"unverified", "pending", "verified", "review_required",
                   "verification_failed", "expired"}

IdentityMove(from, to) == [from |-> from, to |-> to]

IdentityMoves ==
    [submit_verification |->
         IdentityMove({"unverified", "expired", "verification_failed"}, "pending"),
     liveness_passed |-> IdentityMove({"pending"}, "pending"),
     likeness_passed |-> IdentityMove({"pending"}, "pending"),
     provider_result_received |-> IdentityMove({"pending"}, "verified"),
     fail |-> IdentityMove({"pending"}, "verification_failed"),
     flag_for_review |->
         IdentityMove({"pending", "verified", "verification_failed"}, "review_required"),
     review_cleared |-> IdentityMove({"review_required"}, "verified"),
     review_confirmed_fraud |-> IdentityMove({"review_required"}, "verification_failed"),
     expire |-> IdentityMove({"verified"}, "expired"),
     reverify_requested |-> IdentityMove({"verified", "expired"}, "pending"),
     withdraw |-> IdentityMove(IdentityStates \ {"review_required"}, "unverified")]

IdentityEvents == DOMAIN IdentityMoves

(* The guards: a confidence at the floor, a named reviewer. *)
VerifiedFloor == 90
MayMoveIdentity(state, event, confidence, reviewed) ==
    /\ state \in IdentityMoves[event].from
    /\ event = "provider_result_received" => confidence >= VerifiedFloor
    /\ event \in {"review_cleared", "review_confirmed_fraud"} => reviewed

IsDiscoverableIdentity(state) == state = "verified"
=============================================================================
