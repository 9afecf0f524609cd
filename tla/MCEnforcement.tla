--------------------------- MODULE MCEnforcement ---------------------------
(* Two moderators at once, every decision and every lift.  What holds only   *)
(* of one moderator at a time is stated of the behaviours in which no two    *)
(* requests have yet been under way together.                                *)
EXTENDS Enforcement, TLC

VARIABLE overlapped     \* two requests have been under way at one time
MCVars == <<vars, overlapped>>

(* Nothing, and one capability that every state but banned grants. *)
MCRemovals == {{}, {"edit_profile"}}
MCSymmetry == Permutations(CaseIds) \cup Permutations(DecisionIds) \cup Permutations(Requests)

Busy == {r \in Requests : ~At(r, "idle")}
MCInit == Init /\ overlapped = FALSE
MCNext == Next /\ overlapped' = (overlapped \/ Cardinality(Busy') > 1)
MCSpec == MCInit /\ [][MCNext]_MCVars

(* With one moderator at a time, accounts move by the account machine: what  *)
(* the routes write is a step of AccountStanding or leaves the state alone.  *)
SerialFollowsMachine == Promise!Init /\ [][~overlapped' => [Promise!Next]_State]_MCVars

(* With one moderator at a time, the record of a decision is whole: it has   *)
(* its audit rows, it is the only one of its case, and its case is resolved  *)
(* by it.                                                                    *)
SerialRecordIsWhole == ~overlapped => DecisionIsAudited /\ OneDecisionPerCase /\ ResolvedByDecision
=============================================================================
