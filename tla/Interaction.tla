---------------------------- MODULE Interaction ----------------------------
(***************************************************************************)
(* Likes, passes, blocks, matches and unmatching: the routes of            *)
(* service/src/routes/interactions.ts and matches.ts over the decisions of *)
(* the dating package and the statements of PostgresInteractionStore.      *)
(*                                                                         *)
(* A request is one transaction.  Its statements are separate steps, so    *)
(* every interleaving of concurrent requests under READ COMMITTED is a     *)
(* behaviour; the decisions of the dating package are pure and are taken   *)
(* on the rows the request read, which may be stale by then.  A returned   *)
(* domain error commits what was written before it; only a thrown error    *)
(* rolls back.                                                             *)
(***************************************************************************)
EXTENDS Naturals, Sequences, Functions

CONSTANTS
    Users,      \* user ids: naturals, because the code orders a pair by id
    LikeIds,    \* ids a client may supply for a like, or the server may draw
    PassIds,    \* ids the server may draw for a pass
    Requests,   \* requests in flight at once; each slot is reused
    Offered,    \* the operations clients call, of Ops
    None        \* SQL NULL: no such row, no value

ASSUME UsersAssumption == Users \subseteq Nat /\ Users # {}
ASSUME OfferedAssumption == Offered \subseteq {"like", "pass", "block", "unmatch"}
ChatStates == {"active", "blocked", "ended_by_unmatch"}
ASSUME NoneAssumption == /\ None \notin Users /\ None \notin LikeIds /\ None \notin PassIds
                        /\ None \notin Requests /\ None \notin ChatStates

VARIABLES
    likes,      \* app.likes by like_id
    passes,     \* app.passes by pass_id
    blocks,     \* the active row of app.blocks by unordered pair
    matches,    \* app.matches by pair_key
    chats,      \* app.conversations by match_id, that is by pair
    req         \* the handler of each request: its place and its local values

tables == <<likes, passes, blocks, matches, chats>>
vars == <<likes, passes, blocks, matches, chats, req>>

INSTANCE RowVersions WITH Nobody <- None

-----------------------------------------------------------------------------
(* Rows *)

Pairs == {p \in SUBSET Users : \E a, b \in Users : a < b /\ p = {a, b}}

LikeRow == [from : Users, to : Users, state : {"live", "matched", "withdrawn"},
            superseded : PassIds \cup {None}]
PassRow == [from : Users, to : Users, state : {"live", "superseded"},
            fresh : BOOLEAN]    \* fresh: inside the 30-day window
MatchRow == [likeIds : Seq(LikeIds),
             end : {"open", "unmatched", "ended_by_block"}]

Likes == LikeRow \cup {None}
Passes == PassRow \cup {None}

ASSUME RowAssumption == None \notin LikeRow /\ None \notin PassRow /\ None \notin MatchRow

Directed(row, a, b) == row # None /\ row.from = a /\ row.to = b
IsCurrentLike(row) == row # None /\ row.state \in {"live", "matched"}
IsPassInEffect(row) == row # None /\ row.state = "live" /\ row.fresh

(* The id of the current like from a to b among the rows given, or None. *)
CurrentLikeBetween(rows, a, b) ==
    LET found == {id \in LikeIds : IsCurrentLike(rows[id]) /\ Directed(rows[id], a, b)}
    IN  IF found = {} THEN None ELSE CHOOSE id \in found : TRUE

LivePassBetween(rows, a, b) ==
    LET found == {p \in PassIds : Directed(rows[p], a, b) /\ rows[p].state = "live"}
    IN  IF found = {} THEN None ELSE CHOOSE p \in found : TRUE

PassInEffectBetween_Forever(rows, a, b) ==      \* mutant: the window never closes
    \E p \in PassIds : Directed(rows[p], a, b) /\ rows[p].state = "live"
PassInEffectBetween(rows, a, b) ==
    \E p \in PassIds : IsPassInEffect(rows[p]) /\ Directed(rows[p], a, b)

-----------------------------------------------------------------------------
(* Requests *)

NoLikes == [id \in LikeIds |-> None]
NoPasses == [p \in PassIds |-> None]

Ops == {"like", "pass", "block", "unmatch"}
Places == {"idle", "read_likes", "read_passes", "read_blocks", "find_live_pass",
           "insert_like", "supersede_own", "supersede_pair", "resolve",
           "mark_likes", "open_chat", "insert_pass", "insert_block",
           "find_match", "end_match", "close_chat", "reply", "failed"}
Replies == {None, "created", "recorded", "conflict", "not_eligible", "not_found",
            "already_ended", "awaiting_counterpart", "match_refused",
            "match_created", "unmatched"}

RequestState ==
    [at : Places, op : Ops, from : Users, to : Users,
     id : LikeIds \cup PassIds \cup {None},
     likes : [LikeIds -> Likes], passes : [PassIds -> Passes],
     livePass : PassIds \cup {None}, todo : Seq(LikeIds), reply : Replies]

Starting(op, a, b, id, place) ==
    [at |-> place, op |-> op, from |-> a, to |-> b, id |-> id,
     likes |-> NoLikes, passes |-> NoPasses, livePass |-> None,
     todo |-> <<>>, reply |-> None]

(* A slot with no request in flight; its parties are of no consequence. *)
Idle == LET u == CHOOSE u \in Users : TRUE
        IN  Starting("like", u, u, None, "idle")

At(r, place) == req[r].at = place
PairOf(r) == {req[r].from, req[r].to}

Goto(r, place) == req' = [req EXCEPT ![r].at = place]

(* Values a handler reads no more are forgotten. *)
Forgetting(q) == [q EXCEPT !.likes = NoLikes, !.passes = NoPasses, !.livePass = None]

Mark(r, ids, reply) ==
    req' = [req EXCEPT ![r] = [Forgetting(req[r]) EXCEPT
                                 !.todo = ids, !.reply = reply,
                                 !.at = IF ids = <<>> THEN "reply" ELSE "mark_likes"]]
Answer(r, reply) == Mark(r, <<>>, reply)

-----------------------------------------------------------------------------
(* Starting a request.  A like carries the id its client supplied, so any id *)
(* may come again: a retry, or a reply that was lost.  A pass id is a fresh  *)
(* UUID.  A request naming oneself is refused before it touches a table.     *)

Fresh(p) == /\ passes[p] = Settled(None)
            /\ \A r \in Requests : req[r].id # p

Begin(r, op, a, b, id, place) ==
    /\ At(r, "idle") /\ op \in Offered /\ a # b
    /\ req' = [req EXCEPT ![r] = Starting(op, a, b, id, place)]
    /\ UNCHANGED tables

BeginLike(r, a, b, id) == Begin(r, "like", a, b, id, "read_likes")
BeginPass(r, a, b, p) == Fresh(p) /\ Begin(r, "pass", a, b, p, "read_likes")
BeginBlock(r, a, b) == Begin(r, "block", a, b, None, "insert_block")
BeginUnmatch(r, a, b) == Begin(r, "unmatch", a, b, None, "find_match")

-----------------------------------------------------------------------------
(* Reading the ledgers *)

(* findLikesFor returns only current likes: a withdrawn one is never seen.   *)
(* (Rows of other pairs are returned too; every decision picks its pair's.)  *)
ReadLikes(r) ==
    /\ At(r, "read_likes")
    /\ LET seen == Seen(likes, r)
       IN  req' = [req EXCEPT ![r] = [@ EXCEPT
             !.likes = [id \in LikeIds |->
                          IF IsCurrentLike(seen[id]) THEN seen[id] ELSE None],
             !.at = "read_passes"]]
    /\ UNCHANGED tables

ReadPasses(r) ==
    /\ At(r, "read_passes")
    /\ req' = [req EXCEPT ![r] = [@ EXCEPT
         !.passes = Seen(passes, r),
         !.at = IF req[r].op = "like" THEN "read_blocks" ELSE "insert_pass"]]
    /\ UNCHANGED tables

-----------------------------------------------------------------------------
(* POST /v1/interactions/likes: recordLike, then appendLike *)

OwnLike(r) == CurrentLikeBetween(req[r].likes, req[r].from, req[r].to)
TheirLike_Own(r) ==                             \* mutant: the direction is not turned
    CurrentLikeBetween(req[r].likes, req[r].from, req[r].to)
TheirLike(r) == CurrentLikeBetween(req[r].likes, req[r].to, req[r].from)

(* Either party may lack the standing to like or be liked (the account and   *)
(* profile tables decide), and a block in either direction refuses.          *)
RefuseLike(r) ==
    /\ At(r, "read_blocks")
    /\ Answer(r, "not_eligible")
    /\ UNCHANGED tables

NotBlocked_Unread(r) == TRUE                    \* mutant: the blocks are not consulted
NotBlocked(r) == Seen(blocks, r)[PairOf(r)] = None

RefuseSecondLike(r) ==
    /\ At(r, "read_blocks") /\ NotBlocked(r)
    /\ OwnLike(r) \notin {None, req[r].id}
    /\ IF req[r].likes[OwnLike(r)].state = "matched"
         THEN Goto(r, "failed")      \* recordLike: ok; recordedLike: throws
         ELSE Answer(r, "conflict")
    /\ UNCHANGED tables

(* A new like supersedes, in memory, the liker's own pass in effect. *)
Overrides(r, p) == /\ IsPassInEffect(req[r].passes[p])
                   /\ Directed(req[r].passes[p], req[r].from, req[r].to)

NewLike(r) ==
    LET overridden == {p \in PassIds : Overrides(r, p)}
    IN  [from |-> req[r].from, to |-> req[r].to, state |-> "live",
         superseded |-> IF overridden = {} THEN None
                        ELSE CHOOSE p \in overridden : TRUE]

PassesLeft(r) ==
    [p \in PassIds |-> IF Overrides(r, p)
                         THEN [req[r].passes[p] EXCEPT !.state = "superseded"]
                         ELSE req[r].passes[p]]

RecordLike(r) ==
    /\ At(r, "read_blocks") /\ NotBlocked(r)
    /\ OwnLike(r) \in {None, req[r].id}
    /\ req' = IF OwnLike(r) = req[r].id
                THEN [req EXCEPT ![r].at = "find_live_pass"]
                ELSE [req EXCEPT ![r] = [@ EXCEPT
                        !.likes = [req[r].likes EXCEPT ![req[r].id] = NewLike(r)],
                        !.passes = PassesLeft(r),
                        !.at = "find_live_pass"]]
    /\ UNCHANGED tables

FindLivePass(r) ==
    /\ At(r, "find_live_pass")
    /\ req' = [req EXCEPT ![r] = [@ EXCEPT
         !.livePass = LivePassBetween(Seen(passes, r), req[r].from, req[r].to),
         !.at = "insert_like"]]
    /\ UNCHANGED tables

(* Where the handler goes once appendLike has returned. *)
AfterAppend(r) == IF req[r].likes[req[r].id].superseded # None
                  THEN "supersede_pair" ELSE "resolve"

(* The insert waits for the holder of its id, and of a row that the unique   *)
(* index on current likes in this direction has, or would have.              *)
LikeRivals_Unindexed(r) == {}                   \* mutant: no unique index on current likes
LikeRivals(r) ==
    {k \in LikeIds :
        /\ ~FreeFor(likes, k, r)
        /\ \/ k = req[r].id
           \/ \E row \in {likes[k].row, likes[k].next} :
                IsCurrentLike(row) /\ Directed(row, req[r].from, req[r].to)}

InsertLike(r) ==
    /\ At(r, "insert_like") /\ LikeRivals(r) = {}
    /\ LET q == req[r]
           seen == Seen(likes, r)
           row == [from |-> q.from, to |-> q.to, state |-> "live",
                   superseded |-> q.livePass]
       IN  \/ /\ seen[q.id] # None       \* the id is taken: a replay, or a fault
              /\ Goto(r, IF Directed(seen[q.id], q.from, q.to) THEN AfterAppend(r)
                                                               ELSE "failed")
              /\ UNCHANGED likes
           \/ /\ seen[q.id] = None
              /\ CurrentLikeBetween(seen, q.from, q.to) # None
              /\ Goto(r, "failed")       \* InteractionConflictError
              /\ UNCHANGED likes
           \/ /\ seen[q.id] = None
              /\ CurrentLikeBetween(seen, q.from, q.to) = None
              /\ likes' = Put(likes, q.id, r, row)
              /\ Goto(r, IF q.livePass # None THEN "supersede_own" ELSE AfterAppend(r))
    /\ UNCHANGED <<passes, blocks, matches, chats>>

Supersede_Skipped(table, p, tx) == table        \* mutant: the pass is linked, not moved
Supersede(table, p, tx) ==
    IF Seen(table, tx)[p] # None /\ Seen(table, tx)[p].state = "live"
      THEN Put(table, p, tx, [Seen(table, tx)[p] EXCEPT !.state = "superseded"])
      ELSE table

(* appendLike supersedes the pass it linked, by id ... *)
SupersedeOwnPass(r) ==
    /\ At(r, "supersede_own") /\ FreeFor(passes, req[r].livePass, r)
    /\ passes' = Supersede(passes, req[r].livePass, r)
    /\ Goto(r, AfterAppend(r))
    /\ UNCHANGED <<likes, blocks, matches, chats>>

(* ... and the route supersedes the pair's live pass once more. *)
SupersedePassByPair(r) ==
    /\ At(r, "supersede_pair")
    /\ LET p == LivePassBetween(Seen(passes, r), req[r].from, req[r].to)
       IN  IF p = None THEN UNCHANGED passes
           ELSE /\ FreeFor(passes, p, r)
                /\ passes' = Supersede(passes, p, r)
    /\ Goto(r, "resolve")
    /\ UNCHANGED <<likes, blocks, matches, chats>>

-----------------------------------------------------------------------------
(* resolveMatch, and the statements a match takes *)

(* A pass in effect, either way, among the rows read and overridden. *)
PassedEitherWay(r) ==
    \/ PassInEffectBetween(req[r].passes, req[r].from, req[r].to)
    \/ PassInEffectBetween(req[r].passes, req[r].to, req[r].from)

Reciprocated_Assumed(r) == TRUE                 \* mutant: no reciprocity test
Reciprocated(r) == TheirLike(r) # None

ResolveWithoutMatch(r) ==
    /\ At(r, "resolve")
    /\ \/ PassedEitherWay(r) /\ Answer(r, "match_refused")
       \/ /\ ~PassedEitherWay(r) /\ ~Reciprocated(r)
          /\ Answer(r, "awaiting_counterpart")
    /\ UNCHANGED tables

(* The two like ids in the canonical order of the users who gave them. *)
MatchLikes(r) == IF req[r].from < req[r].to THEN <<req[r].id, TheirLike(r)>>
                                            ELSE <<TheirLike(r), req[r].id>>

Unlisted(ids, listed) ==
    LET unless(id) == IF id \in Range(listed) THEN <<>> ELSE <<id>>
    IN  unless(ids[1]) \o unless(ids[2])

(* INSERT ... ON CONFLICT (pair_key): an existing match, ended or not, is    *)
(* kept and only learns the like ids it did not list.                        *)
Converged_Revived(stored, ids) ==               \* mutant: the conflict writes the new row
    [likeIds |-> ids, end |-> "open"]
Converged(stored, ids) ==
    IF stored = None THEN [likeIds |-> ids, end |-> "open"]
    ELSE [stored EXCEPT !.likeIds = @ \o Unlisted(ids, stored.likeIds)]

UpsertMatch(r) ==
    /\ At(r, "resolve") /\ ~PassedEitherWay(r) /\ Reciprocated(r)
    /\ FreeFor(matches, PairOf(r), r)
    /\ matches' = Put(matches, PairOf(r), r,
         Converged(Seen(matches, r)[PairOf(r)], MatchLikes(r)))
    /\ Mark(r, MatchLikes(r), None)
    /\ UNCHANGED <<likes, passes, blocks, chats>>

(* Where a handler goes when it is done at a place. *)
After(op, place) ==
    CASE op = "pass" -> "reply"
      [] op = "like" -> "open_chat"
      [] op \in {"block", "unmatch"} ->
           [find_match |-> "end_match", end_match |-> "mark_likes",
            mark_likes |-> "close_chat"][place]

(* updateLike: one statement per like; a withdrawn like stays withdrawn. *)
Movable_Revived(row, state) == row # None       \* mutant: UPDATE by like_id alone
Movable(row, state) == IsCurrentLike(row) \/ (row # None /\ row.state = state)

MarkLike(r) ==
    /\ At(r, "mark_likes")
    /\ LET q == req[r]
           id == Head(q.todo)
           row == Seen(likes, r)[id]
           state == IF q.op = "like" THEN "matched" ELSE "withdrawn"
       IN  /\ FreeFor(likes, id, r)
           /\ likes' = IF Movable(row, state)
                         THEN Put(likes, id, r, [row EXCEPT !.state = state])
                         ELSE likes
           /\ req' = [req EXCEPT ![r] = [@ EXCEPT
                 !.todo = Tail(q.todo),
                 !.at = IF Tail(q.todo) # <<>> THEN "mark_likes"
                                               ELSE After(q.op, "mark_likes")]]
    /\ UNCHANGED <<passes, blocks, matches, chats>>

(* The pair's conversation is found, or created if the match is new.  The    *)
(* match row this transaction wrote keeps other creators of it waiting, so   *)
(* the lookup and the insert are one step.                                   *)
MustOpen_Always(r) == TRUE                      \* mutant: the conversation is reopened
MustOpen(r) == Seen(chats, r)[PairOf(r)] = None

OpenChat(r) ==
    /\ At(r, "open_chat") /\ FreeFor(chats, PairOf(r), r)
    /\ chats' = IF MustOpen(r) THEN Put(chats, PairOf(r), r, "active") ELSE chats
    /\ Answer(r, "match_created")
    /\ UNCHANGED <<likes, passes, blocks, matches>>

-----------------------------------------------------------------------------
(* POST /v1/interactions/passes: recordPass, then appendPass *)

(* The live pass that refuses a second one need not be in effect any more. *)
RefusePass(r) ==
    /\ At(r, "insert_pass")
    /\ LivePassBetween(req[r].passes, req[r].from, req[r].to) # None
    /\ Answer(r, "conflict")
    /\ UNCHANGED tables

PassRivals(r) ==
    {k \in PassIds :
        /\ ~FreeFor(passes, k, r)
        /\ \E row \in {passes[k].row, passes[k].next} :
             row # None /\ row.state = "live" /\ Directed(row, req[r].from, req[r].to)}

(* A pass withdraws the passer's own like as the request read it. *)
Overtaken(r) == IF OwnLike(r) = None THEN <<>> ELSE <<OwnLike(r)>>

InsertPass(r) ==
    /\ At(r, "insert_pass") /\ PassRivals(r) = {}
    /\ LivePassBetween(req[r].passes, req[r].from, req[r].to) = None
    /\ LET q == req[r]
           row == [from |-> q.from, to |-> q.to, state |-> "live", fresh |-> TRUE]
       IN  IF LivePassBetween(Seen(passes, r), q.from, q.to) # None
             THEN Goto(r, "failed") /\ UNCHANGED passes
             ELSE passes' = Put(passes, q.id, r, row) /\ Mark(r, Overtaken(r), "recorded")
    /\ UNCHANGED <<likes, blocks, matches, chats>>

-----------------------------------------------------------------------------
(* POST /v1/blocks, and POST /v1/matches/:matchId/unmatch *)

(* One active block per pair, in either direction; no route lifts one. *)
InsertBlock(r) ==
    /\ At(r, "insert_block") /\ FreeFor(blocks, PairOf(r), r)
    /\ IF Seen(blocks, r)[PairOf(r)] = None
         THEN /\ blocks' = Put(blocks, PairOf(r), r, req[r].from)
              /\ Goto(r, "find_match")
         ELSE Answer(r, "conflict") /\ UNCHANGED blocks
    /\ UNCHANGED <<likes, passes, matches, chats>>

(* The match and its conversation are read (they commit together), decoded   *)
(* by matchRecordOf, which takes two like ids and no more, and judged by     *)
(* applyBlockToMatch or unmatch, which refuse a match that has ended.        *)
FindMatch(r) ==
    /\ At(r, "find_match")
    /\ LET match == Seen(matches, r)[PairOf(r)]
       IN  IF match = None
             THEN Answer(r, IF req[r].op = "block" THEN "created" ELSE "not_found")
           ELSE IF Len(match.likeIds) # 2 THEN Goto(r, "failed")
           ELSE IF match.end # "open" THEN Answer(r, "already_ended")
           ELSE req' = [req EXCEPT ![r] = [@ EXCEPT
                  !.todo = match.likeIds, !.at = After(req[r].op, "find_match")]]
    /\ UNCHANGED tables

EndedAs(op) == IF op = "block" THEN "ended_by_block" ELSE "unmatched"

EndMatch(r) ==
    /\ At(r, "end_match") /\ FreeFor(matches, PairOf(r), r)
    /\ matches' = Put(matches, PairOf(r), r,
         [Seen(matches, r)[PairOf(r)] EXCEPT !.end = EndedAs(req[r].op)])
    /\ Goto(r, After(req[r].op, "end_match"))
    /\ UNCHANGED <<likes, passes, blocks, chats>>

(* updateState writes the state it is given, whatever the state was. *)
ClosedAs(op) == IF op = "block" THEN "blocked" ELSE "ended_by_unmatch"

CloseChat(r) ==
    /\ At(r, "close_chat") /\ FreeFor(chats, PairOf(r), r)
    /\ chats' = Put(chats, PairOf(r), r, ClosedAs(req[r].op))
    /\ Answer(r, IF req[r].op = "block" THEN "created" ELSE "unmatched")
    /\ UNCHANGED <<likes, passes, blocks, matches>>

-----------------------------------------------------------------------------
(* The end of a transaction.  A handler that answers commits, a domain error *)
(* included; one that throws, or loses its connection, rolls back.           *)

CommitRequest(r) ==
    /\ At(r, "reply")
    /\ likes' = Commit(likes, r)
    /\ passes' = Commit(passes, r)
    /\ blocks' = Commit(blocks, r)
    /\ matches' = Commit(matches, r)
    /\ chats' = Commit(chats, r)
    /\ req' = [req EXCEPT ![r] = Idle]

RollbackRequest(r) ==
    /\ likes' = Rollback(likes, r)
    /\ passes' = Rollback(passes, r)
    /\ blocks' = Rollback(blocks, r)
    /\ matches' = Rollback(matches, r)
    /\ chats' = Rollback(chats, r)
    /\ req' = [req EXCEPT ![r] = Idle]

Throw(r) == At(r, "failed") /\ RollbackRequest(r)
Crash(r) == ~At(r, "idle") /\ RollbackRequest(r)

(* Thirty days pass. *)
ExpirePass(p) ==
    /\ passes[p].row # None /\ passes[p].row.fresh
    /\ passes' = [passes EXCEPT ![p].row.fresh = FALSE, ![p].next.fresh = FALSE]
    /\ UNCHANGED <<likes, blocks, matches, chats, req>>

-----------------------------------------------------------------------------

Init ==
    /\ likes = [id \in LikeIds |-> Settled(None)]
    /\ passes = [p \in PassIds |-> Settled(None)]
    /\ blocks = [p \in Pairs |-> Settled(None)]
    /\ matches = [p \in Pairs |-> Settled(None)]
    /\ chats = [p \in Pairs |-> Settled(None)]
    /\ req = [r \in Requests |-> Idle]

Start(r) ==
    \E a, b \in Users :
        \/ \E id \in LikeIds : BeginLike(r, a, b, id)
        \/ \E p \in PassIds : BeginPass(r, a, b, p)
        \/ BeginBlock(r, a, b)
        \/ BeginUnmatch(r, a, b)

Step(r) ==
    \/ ReadLikes(r) \/ ReadPasses(r)
    \/ RefuseLike(r) \/ RefuseSecondLike(r) \/ RecordLike(r)
    \/ FindLivePass(r) \/ InsertLike(r) \/ SupersedeOwnPass(r) \/ SupersedePassByPair(r)
    \/ ResolveWithoutMatch(r) \/ UpsertMatch(r) \/ MarkLike(r) \/ OpenChat(r)
    \/ RefusePass(r) \/ InsertPass(r)
    \/ InsertBlock(r) \/ FindMatch(r) \/ EndMatch(r) \/ CloseChat(r)
    \/ CommitRequest(r) \/ Throw(r)

Next ==
    \/ \E r \in Requests : Start(r) \/ Step(r) \/ Crash(r)
    \/ \E p \in PassIds : ExpirePass(p)

Spec == Init /\ [][Next]_vars

(* Node and PostgreSQL keep running a handler until it answers or throws. *)
(* A statement that waits for a row is queued and woken, hence SF.          *)
Fairness == \A r \in Requests : SF_vars(Step(r))
FairSpec == Spec /\ Fairness

-----------------------------------------------------------------------------
(* What is committed *)

Like == Stored(likes)
Pass == Stored(passes)
Blocker == Stored(blocks)
Match == Stored(matches)
Chat == Stored(chats)

Opposite(p, u) == CHOOSE v \in p : v # u

(* Every table holds rows of its type, and every handler is at one of its    *)
(* places with local values of theirs.                                       *)
TypeOK ==
    /\ likes \in [LikeIds -> Versions(Likes, Requests)]
    /\ passes \in [PassIds -> Versions(Passes, Requests)]
    /\ blocks \in [Pairs -> Versions(Users \cup {None}, Requests)]
    /\ matches \in [Pairs -> Versions(MatchRow \cup {None}, Requests)]
    /\ chats \in [Pairs -> Versions(ChatStates \cup {None}, Requests)]
    /\ req \in [Requests -> RequestState]

(* likes_live_pair, as every reader sees it: however requests interleave, no *)
(* two committed likes from one user to another are both live or matched.    *)
OneCurrentLike ==
    \A i, j \in LikeIds :
        /\ IsCurrentLike(Like[i]) /\ IsCurrentLike(Like[j])
        /\ Like[i].from = Like[j].from /\ Like[i].to = Like[j].to
        => i = j

(* A match is derived from likes: whoever is in a committed match gave a     *)
(* like, still on record, to the other, and the match lists it; and a like   *)
(* is marked matched only by the transaction whose match lists it.           *)
MatchIsMutual ==
    /\ \A p \in Pairs : Match[p] # None =>
         \A u \in p : \E id \in Range(Match[p].likeIds) :
             Directed(Like[id], u, Opposite(p, u))
    /\ \A id \in LikeIds :
         Like[id] # None /\ Like[id].state = "matched" =>
             LET match == Match[{Like[id].from, Like[id].to}]
             IN  match # None /\ id \in Range(match.likeIds)

(* The state a match's conversation is in, by how the match stands. *)
ChatOf(match) ==
    IF match = None THEN None
    ELSE [open |-> "active", unmatched |-> "ended_by_unmatch",
          ended_by_block |-> "blocked"][match.end]

(* A conversation exists exactly when its match does, and it is open exactly *)
(* while the match is; two requests that end the match at once leave the     *)
(* cause and the conversation's state of one of them, never one of each.     *)
ChatAgreesWithMatch == \A p \in Pairs : Chat[p] = ChatOf(Match[p])

(* A like that names a pass it overrode names the liker's own pass over the  *)
(* same person, and that pass is superseded in the same commit.              *)
OverriddenPassIsSuperseded ==
    \A id \in LikeIds :
        Like[id] # None /\ Like[id].superseded # None =>
            LET pass == Pass[Like[id].superseded]
            IN  /\ Directed(pass, Like[id].from, Like[id].to)
                /\ pass.state = "superseded"

(* Nothing that happened is un-happened: a committed like, pass or match     *)
(* stays on record with its parties; a withdrawn like, a superseded pass and *)
(* an ended match stay so; a match never drops a like it listed.             *)
HistoryKept ==
    /\ \A id \in LikeIds : Like[id] # None =>
         /\ Directed(Like'[id], Like[id].from, Like[id].to)
         /\ Like[id].state = "withdrawn" => Like'[id] = Like[id]
    /\ \A q \in PassIds : Pass[q] # None =>
         /\ Directed(Pass'[q], Pass[q].from, Pass[q].to)
         /\ Pass[q].state = "superseded" => Pass'[q].state = "superseded"
    /\ \A p \in Pairs : Match[p] # None =>
         /\ Match'[p] # None
         /\ Range(Match[p].likeIds) \subseteq Range(Match'[p].likeIds)
         /\ Match[p].end # "open" => Match'[p].end # "open"
NothingUnhappens == [][HistoryKept]_vars

(* A block precedes every other rule: a blocked pair has no open match.      *)
(* Holds of one request at a time; see MCInteraction.                        *)
BlockedPairHasNoOpenMatch ==
    \A p \in Pairs : Blocker[p] # None /\ Match[p] # None => Match[p].end # "open"

(* Two users who currently like each other have a match on record.  Holds of *)
(* one request at a time; see MCInteraction.                                 *)
ReciprocalLikesMatch ==
    \A i, j \in LikeIds :
        /\ IsCurrentLike(Like[i]) /\ IsCurrentLike(Like[j])
        /\ Like[i].from = Like[j].to /\ Like[i].to = Like[j].from
        => Match[{Like[i].from, Like[i].to}] # None

(* Whatever happens inside, the pair's relationship moves as promised: one   *)
(* commit at a time, a match only of two who liked each other, never back.   *)
Promise == INSTANCE Relationship WITH
    liked <- {<<Like[id].from, Like[id].to>> : id \in {i \in LikeIds : Like[i] # None}},
    blocked <- {p \in Pairs : Blocker[p] # None},
    match <- [p \in Pairs |-> IF Match[p] = None THEN "none" ELSE Match[p].end]
KeepsPromise == Promise!Spec

(* Every request ends. *)
EveryRequestEnds == \A r \in Requests : ~At(r, "idle") ~> At(r, "idle")

-----------------------------------------------------------------------------
(* What the repository says of this component and the code does not do *)

(* A block is immediate and unilateral: no block request fails.              *)
BlockNeverFails ==
    \A r \in Requests : req[r].op = "block" => ~At(r, "failed")

(* A match is made of two reciprocal likes that are current when it commits. *)
MatchMadeOfCurrentLikes ==
    [][\A p \in Pairs : Match[p] = None /\ Match'[p] # None =>
          \A id \in Range(Match'[p].likeIds) : IsCurrentLike(Like'[id])]_vars
=============================================================================
