------------------------------ MODULE Messaging ------------------------------
(***************************************************************************)
(* Sending a message in one conversation, beside the requests that end the *)
(* match behind it.  A send reads everything it is decided on, one         *)
(* statement after another, decides, and only then inserts; whatever       *)
(* commits in between is not seen.                                         *)
(***************************************************************************)
EXTENDS FiniteSets, Folds, SendRules

CONSTANTS
    Users,          \* the two participants
    Requests,       \* requests in flight at once; slots are reused
    Limit,          \* PER_CONVERSATION_RATE_RULE.limit
    Window,         \* PER_CONVERSATION_RATE_RULE.windowMs, in ticks
    PageSize,       \* MAX_MESSAGE_PAGE
    MaxNow,         \* bound on the clock
    MaxMessages     \* bound: messages stored in all

ASSUME MessagingAssumption ==
    /\ Cardinality(Users) = 2 /\ None \notin Users \cup Requests
    /\ {Limit, Window, PageSize} \subseteq Nat \ {0}
    /\ {MaxNow, MaxMessages} \subseteq Nat

VARIABLES
    chat,       \* the row of app.conversations: its state and last_message_at
    match,      \* the row of app.matches: active or ended
    block,      \* the row of app.blocks: in force or None
    messages,   \* app.messages: how many committed messages each instant has
    standing,   \* each participant's account, as committed
    now,        \* the clock of the service
    req,        \* each request inside a handler
    late        \* history: what has refused each request ever since it began

vars == <<chat, match, block, messages, standing, now, req, late>>

INSTANCE RowVersions WITH Nobody <- None

Times == 0..MaxNow
Never == -1                         \* no message yet
One == {"row"}                      \* the key of the only row of a table
Row(table, r) == Seen(table, r)["row"]

Readable == Standings \ {"missing"}
ChatRow == [state : ChatStates, last : Times \cup {Never}]

Total(counts, times) == MapThenFoldSet(+, 0, LAMBDA t : counts[t],
                                       LAMBDA T : CHOOSE t \in T : TRUE, times)

-----------------------------------------------------------------------------
(* Requests *)

Places == {"idle", "find", "sender", "peer", "match", "blocks", "history", "decide",
           "insert", "touch", "insert_block", "find_match", "end_match", "close_chat", "reply"}
Ops == {"send", "block", "unmatch"}

(* What a send has read; a field it has not read yet holds what Unread says.  *)
Unread == [state |-> "active", sender |-> "may_send", peer |-> "may_send",
           match |-> "active", blocked |-> FALSE, used |-> 0]
Idle == [op |-> "send", by |-> None, at |-> "idle", now |-> 0,
         facts |-> Unread, sent |-> None]
RequestState == [op : Ops, by : Users \cup {None}, at : Places, now : Times, facts : Facts,
                 sent : Times \cup {None}]

At(r, place) == req[r].at = place
Peer(r) == CHOOSE u \in Users : u # req[r].by
Goto(r, place) == req' = [req EXCEPT ![r].at = place]
Learn(r, field, value, place) ==
    req' = [req EXCEPT ![r].facts[field] = value, ![r].at = place]
Reply(r) == req' = [req EXCEPT ![r].at = "reply", ![r].facts = Unread]

(* What refuses a send while it lasts, as committed.                          *)
Grounds == {u \in Users : standing[u] # "may_send"}
           \cup (IF chat["row"].row.state = "active" THEN {} ELSE {"ended"})

Begin(r, op, u, place) ==
    /\ At(r, "idle")
    /\ req' = [req EXCEPT ![r] = [Idle EXCEPT !.op = op, !.by = u, !.at = place, !.now = now]]
    /\ late' = [late EXCEPT ![r] = Grounds]
    /\ UNCHANGED <<chat, match, block, messages, standing, now>>

BeginSend(r, u) == Begin(r, "send", u, "find")
BeginBlock(r) == Begin(r, "block", None, "insert_block")    \* by either participant
BeginUnmatch(r) == Begin(r, "unmatch", None, "find_match")

-----------------------------------------------------------------------------
(* POST /v1/conversations/:conversationId/messages: what it reads *)

Reads(r, here, field, value, place) ==
    /\ At(r, here)
    /\ Learn(r, field, value, place)
    /\ UNCHANGED <<chat, match, block, messages, standing, now, late>>

FindConversation(r) == Reads(r, "find", "state", Row(chat, r).state, "sender")
ReadSenderStanding(r) == Reads(r, "sender", "sender", standing[req[r].by], "peer")
ReadPeerStanding(r) == Reads(r, "peer", "peer", standing[Peer(r)], "match")
ReadMatch(r) == Reads(r, "match", "match", Row(match, r), "blocks")
ReadBlocks(r) == Reads(r, "blocks", "blocked", Row(block, r) # None, "history")

(* findMessages: the first PageSize messages, oldest first.                   *)
Page(t) ==
    LET room == PageSize - Total(messages, {s \in Times : s < t})
    IN IF room < 0 THEN 0 ELSE IF room < messages[t] THEN room ELSE messages[t]

Used(r) == Total([t \in Times |-> Page(t)], {t \in Times : InWindow(req[r].now, t, Window)})

ReadHistory(r) == Reads(r, "history", "used", Used(r), "decide")

-----------------------------------------------------------------------------
(* What it decides *)

(* sendMessage: canSend, then the body, then the rate rule.                   *)
Refuse(r) ==
    /\ At(r, "decide")     \* a body may be refused whatever the rest says
    /\ Reply(r)
    /\ UNCHANGED <<chat, match, block, messages, standing, now, late>>

StoredCount == Total(messages, Times)
InFlight == Cardinality({r \in Requests : req[r].sent # None})

InsertMessage(r) ==
    /\ At(r, "decide") /\ MaySend(req[r].facts) /\ WithinRate(req[r].facts.used, Limit)
    /\ StoredCount + InFlight < MaxMessages
    /\ req' = [req EXCEPT ![r].at = "touch", ![r].sent = req[r].now, ![r].facts = Unread]
    /\ UNCHANGED <<chat, match, block, messages, standing, now, late>>

(* UPDATE app.conversations SET last_message_at = GREATEST(...).              *)
Later(last, at) == IF at > last THEN at ELSE last

TouchConversation(r) ==
    /\ At(r, "touch") /\ FreeFor(chat, "row", r)
    /\ chat' = Put(chat, "row", r,
                   [Row(chat, r) EXCEPT !.last = Later(Row(chat, r).last, req[r].sent)])
    /\ Reply(r)
    /\ UNCHANGED <<match, block, messages, standing, now, late>>

-----------------------------------------------------------------------------
(* What ends the match: a block by either side, or an unmatch *)

InsertBlock(r) ==
    /\ At(r, "insert_block") /\ FreeFor(block, "row", r)
    /\ IF Row(block, r) = None
         THEN block' = Put(block, "row", r, "in_force") /\ Goto(r, "find_match")
         ELSE Reply(r) /\ UNCHANGED block
    /\ UNCHANGED <<chat, match, messages, standing, now, late>>

FindMatch(r) ==
    /\ At(r, "find_match")
    /\ IF Row(match, r) = "active" THEN Goto(r, "end_match") ELSE Reply(r)
    /\ UNCHANGED <<chat, match, block, messages, standing, now, late>>

EndMatch(r) ==
    /\ At(r, "end_match") /\ FreeFor(match, "row", r)
    /\ match' = Put(match, "row", r, "ended")
    /\ Goto(r, "close_chat")
    /\ UNCHANGED <<chat, block, messages, standing, now, late>>

(* updateState writes the state it is given and leaves last_message_at as it   *)
(* is; a block and an unmatch that both found the match open both write.      *)
ClosedAs(op) == IF op = "block" THEN "blocked" ELSE "ended_by_unmatch"

CloseChat(r) ==
    /\ At(r, "close_chat") /\ FreeFor(chat, "row", r)
    /\ chat' = Put(chat, "row", r, [Row(chat, r) EXCEPT !.state = ClosedAs(req[r].op)])
    /\ Reply(r)
    /\ UNCHANGED <<match, block, messages, standing, now, late>>

-----------------------------------------------------------------------------
(* The end of the transaction *)

End(r) == /\ req' = [req EXCEPT ![r] = Idle]
          /\ late' = [late EXCEPT ![r] = {}]
          /\ UNCHANGED <<standing, now>>

CommitRequest(r) ==
    /\ At(r, "reply")
    /\ chat' = Commit(chat, r) /\ match' = Commit(match, r) /\ block' = Commit(block, r)
    /\ messages' = IF req[r].sent = None THEN messages
                   ELSE [messages EXCEPT ![req[r].sent] = @ + 1]
    /\ End(r)

(* The recorder throws, a statement fails, or the process stops.              *)
Abort(r) ==
    /\ ~At(r, "idle")
    /\ chat' = Rollback(chat, r) /\ match' = Rollback(match, r) /\ block' = Rollback(block, r)
    /\ UNCHANGED messages
    /\ End(r)

-----------------------------------------------------------------------------
(* The rest of the system *)

(* A decision restricts the account or lifts the restriction; no row of       *)
(* app.users is ever deleted.  What a send began under ends when it is lifted. *)
ChangeStanding(u, s) ==
    /\ s # standing[u]
    /\ standing' = [standing EXCEPT ![u] = s]
    /\ UNCHANGED <<chat, match, block, messages, now, req>>
    /\ late' = IF s = "may_send" THEN [r \in Requests |-> late[r] \ {u}] ELSE late

Tick ==
    /\ now < MaxNow /\ now' = now + 1
    /\ UNCHANGED <<chat, match, block, messages, standing, req, late>>

Init ==
    /\ chat = [k \in One |-> Settled([state |-> "active", last |-> Never])]
    /\ match = [k \in One |-> Settled("active")]
    /\ block = [k \in One |-> Settled(None)]
    /\ messages = [t \in Times |-> 0]
    /\ standing = [u \in Users |-> "may_send"]
    /\ now = 0
    /\ req = [r \in Requests |-> Idle]
    /\ late = [r \in Requests |-> {}]

Send(r) ==
    \/ FindConversation(r) \/ ReadSenderStanding(r) \/ ReadPeerStanding(r)
    \/ ReadMatch(r) \/ ReadBlocks(r) \/ ReadHistory(r)
    \/ Refuse(r) \/ InsertMessage(r) \/ TouchConversation(r)

Next ==
    \/ \E r \in Requests, u \in Users : BeginSend(r, u)
    \/ \E r \in Requests :
          \/ BeginBlock(r) \/ BeginUnmatch(r)
          \/ Send(r) \/ InsertBlock(r) \/ FindMatch(r) \/ EndMatch(r) \/ CloseChat(r)
          \/ CommitRequest(r) \/ Abort(r)
    \/ \E u \in Users, s \in Readable : ChangeStanding(u, s)
    \/ Tick

Spec == Init /\ [][Next]_vars

-----------------------------------------------------------------------------
(* Properties *)

(* Every row, counter and request of this module has its type.               *)
TypeOK ==
    /\ chat \in [One -> Versions(ChatRow, Requests)]
    /\ match \in [One -> Versions({"active", "ended"}, Requests)]
    /\ block \in [One -> Versions({"in_force", None}, Requests)]
    /\ messages \in [Times -> 0..MaxMessages]
    /\ standing \in [Users -> Readable]
    /\ now \in Times
    /\ req \in [Requests -> RequestState]
    /\ late \in [Requests -> SUBSET (Users \cup {"ended"})]

(* A send that began once the match was over, or while either participant     *)
(* could not send, is never accepted as long as that lasts.  (One that began  *)
(* before may still be: it was decided on what it had read.)                  *)
LateSendRefused == \A r \in Requests : late[r] # {} => req[r].sent = None

(* The burst rule: the messages of any one window stay below Limit and one    *)
(* for each request that may be in flight, whenever the window is placed.  It *)
(* gives way only when the messages before the window leave fewer than Limit  *)
(* places on the page the rule counts: from then on it has nothing to count.  *)
BurstIsBounded ==
    \A t \in Times :
        LET burst  == Total(messages, {s \in Times : t - Window < s /\ s <= t})
            before == Total(messages, {s \in Times : s <= t - Window})
        IN burst >= Limit + Cardinality(Requests) => before + Limit > PageSize
=============================================================================
