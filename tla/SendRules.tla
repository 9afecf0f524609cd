------------------------------ MODULE SendRules ------------------------------
(***************************************************************************)
(* Who may send a message, and how often: the ordered checks of canSend    *)
(* and the sliding window of the burst rule, on what a send has read.      *)
(***************************************************************************)
EXTENDS Integers

CONSTANT None       \* no denial; also SQL NULL

ChatStates == {"active", "blocked", "ended_by_unmatch"}
Standings == {"may_send", "may_not_send", "missing"}

(* The conversation's state, each side's standing, the match, whether a block *)
(* is in force, and how many sends the burst rule counted.                    *)
Facts == [state : ChatStates, sender : Standings, peer : Standings,
          match : {"active", "ended"}, blocked : BOOLEAN, used : Nat]

(* The wiring fault the route answers itself, then SEND_CHECKS in order.      *)
Denial_SenderOnly(f) ==                         \* mutant: only the sender's account is consulted
    CASE f.sender = "missing" -> "standing_unidentifiable"
      [] f.sender # "missing" /\ f.blocked -> "blocked"
      [] f.sender # "missing" /\ ~f.blocked /\ f.match # "active" -> "match_not_active"
      [] OTHER -> IF f.state # "active" THEN "conversation_not_open"
                  ELSE IF f.sender = "may_send" THEN None ELSE "missing_send_message_capability"
Denial(f) ==
    IF "missing" \in {f.sender, f.peer} THEN "standing_unidentifiable"
    ELSE IF f.blocked THEN "blocked"
    ELSE IF f.match # "active" THEN "match_not_active"
    ELSE IF f.state # "active" THEN "conversation_not_open"
    ELSE IF {f.sender, f.peer} # {"may_send"} THEN "missing_send_message_capability"
    ELSE None

MaySend(f) == Denial(f) = None

(* evaluateRateRule: the attempts within one window of the request's instant. *)
InWindow_Fixed(instant, at, window) ==          \* mutant: windows laid end to end
    at \div window = instant \div window /\ at <= instant
InWindow(instant, at, window) == at > instant - window /\ at <= instant
WithinRate(used, limit) == used < limit
=============================================================================
