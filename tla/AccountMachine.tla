--------------------------- MODULE AccountMachine ---------------------------
(***************************************************************************)
(* The kernel's account machine: what an enforcement event does to an      *)
(* account, and what an account in each state may do.                      *)
(* core/src/states/account.ts                                              *)
(***************************************************************************)

AccountStates == {"active", "limited", "suspended", "banned"}

Move(from, to) == [from |-> from, to |-> to]

Moves ==
    [restrict         |-> Move({"active", "limited"}, "limited"),
     lift_restriction |-> Move({"limited"}, "active"),
     suspend          |-> Move({"active", "limited"}, "suspended"),
     reinstate        |-> Move({"suspended"}, "active"),
     ban              |-> Move({"active", "limited", "suspended"}, "banned"),
     lift_ban         |-> Move({"banned"}, "active")]

AccountEvents == DOMAIN Moves

(* A restriction names something it removes. *)
MayMove(state, event, removed) ==
    state \in Moves[event].from /\ (event = "restrict" => removed # {})

Granted ==
    [active    |-> {"browse_discovery", "like", "send_message", "report", "block",
                    "edit_profile"},
     limited   |-> {"browse_discovery", "report", "block", "edit_profile"},
     suspended |-> {"report", "block", "edit_profile"},
     banned    |-> {"report", "block", "appeal_request", "delete_account"}]

Capabilities == UNION {Granted[s] : s \in AccountStates}
Unrestrictable == {"report", "block", "delete_account"}

CapabilitiesFor(state, removed) == Granted[state] \ (removed \ Unrestrictable)
=============================================================================
