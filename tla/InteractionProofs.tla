------------------------- MODULE InteractionProofs -------------------------
(***************************************************************************)
(* Theorems about Interaction, for any users, ids and number of concurrent *)
(* requests, and about MCInteraction's behaviours with one at a time.      *)
(***************************************************************************)
EXTENDS MCInteraction, FiniteSetTheorems, TLAPS

-----------------------------------------------------------------------------
(* Tables *)

(* What a transaction reads of a table of Rows are Rows. *)
LEMMA SeenType ==
    ASSUME NEW K, NEW Rows, NEW tx, NEW table \in [K -> Versions(Rows, Requests)]
    PROVE  Seen(table, tx) \in [K -> Rows]
  BY DEF Seen, Versions

(* Writing one of Rows keeps a table one of Rows. *)
LEMMA PutType ==
    ASSUME NEW K, NEW Rows, NEW tx \in Requests, NEW row \in Rows, NEW k \in K,
           NEW table \in [K -> Versions(Rows, Requests)]
    PROVE  Put(table, k, tx, row) \in [K -> Versions(Rows, Requests)]
  BY DEF Put, Versions

(* So do the ends of a transaction. *)
LEMMA EndType ==
    ASSUME NEW K, NEW Rows, NEW tx \in Requests,
           NEW table \in [K -> Versions(Rows, Requests)]
    PROVE  /\ Commit(table, tx) \in [K -> Versions(Rows, Requests)]
           /\ Rollback(table, tx) \in [K -> Versions(Rows, Requests)]
  BY DEF Commit, Rollback, Settled, Versions

-----------------------------------------------------------------------------
(* The invariant *)

(* What may become of a row, in one commit or several: its parties stay, and *)
(* a withdrawn like, a superseded pass and an ended match stay so.           *)
LikeKept(old, new) ==
    old # None => /\ Directed(new, old.from, old.to)
                  /\ old.state = "withdrawn" => new = old
PassKept(old, new) ==
    old # None => /\ Directed(new, old.from, old.to)
                  /\ old.state = "superseded" => new.state = "superseded"
MatchKept(old, new) ==
    old # None => /\ new # None
                  /\ Range(old.likeIds) \subseteq Range(new.likeIds)
                  /\ old.end # "open" => new.end # "open"

(* What a transaction would commit keeps what is committed.                  *)
RowsKept ==
    /\ \A id \in LikeIds : LikeKept(likes[id].row, likes[id].next)
    /\ \A p \in PassIds : PassKept(passes[p].row, passes[p].next)
    /\ \A p \in Pairs : MatchKept(matches[p].row, matches[p].next)

(* What a handler's local values are at its place.  A pass id drawn is the   *)
(* id of no row until its handler writes one.                                *)
HandlerOK(r) ==
    LET q == req[r]
    IN  /\ q.at # "idle" => q.from # q.to
        /\ q.at # "idle" /\ q.op = "like" => q.id \in LikeIds
        /\ q.op = "pass" => q.id \in PassIds
        /\ q.at \in {"read_likes", "read_passes"} => q.op \in {"like", "pass"}
        /\ q.at \in {"read_blocks", "find_live_pass", "insert_like", "supersede_own",
                     "supersede_pair", "resolve", "open_chat"} => q.op = "like"
        /\ q.at = "insert_pass" => q.op = "pass"
        /\ q.at \in {"insert_block", "find_match", "end_match", "close_chat"}
             => q.op \in {"block", "unmatch"}
        /\ q.at = "supersede_own" => q.livePass \in PassIds
        /\ q.at \in {"end_match", "mark_likes"} => q.todo # <<>>
        /\ q.at = "end_match" => Seen(matches, r)[PairOf(r)] # None
        /\ q.op = "pass" /\ q.at \in {"read_likes", "read_passes", "insert_pass"}
             => passes[q.id] = Settled(None)

PassIdsDiffer ==
    \A r, q \in Requests :
        r # q /\ req[r].op = "pass" /\ req[q].op = "pass" => req[r].id # req[q].id

TypeInv ==
    /\ TypeOK
    /\ RowsKept
    /\ \A r \in Requests : HandlerOK(r)
    /\ PassIdsDiffer

LEMMA PairType ==
    ASSUME NEW a \in Users, NEW b \in Users, a # b
    PROVE  {a, b} \in Pairs
<1>1. a \in Nat /\ b \in Nat
  BY UsersAssumption
<1>2. a < b \/ b < a
  BY <1>1
<1>3. {a, b} = {b, a} /\ {a, b} \in SUBSET Users
  OBVIOUS
<1> QED
  BY <1>2, <1>3 DEF Pairs

(* Idle is a request. *)
LEMMA IdleType == Idle \in RequestState /\ Idle.at = "idle" /\ Idle.op = "like"
<1>1. PICK u \in Users : u = CHOOSE v \in Users : TRUE
  BY UsersAssumption
<1> QED
  BY <1>1 DEF Idle, Starting, RequestState, Places, Ops, Replies, NoLikes, NoPasses,
             Likes, Passes

LEMMA InitTypeInv == Init => TypeInv
<1> SUFFICES ASSUME Init PROVE TypeInv
  OBVIOUS
<1>1. TypeOK
  BY IdleType DEF Init, TypeOK, Versions, Settled, Likes, Passes
<1>2. RowsKept
  BY DEF Init, RowsKept, LikeKept, PassKept, MatchKept, Settled
<1>3. \A r \in Requests : HandlerOK(r)
  BY IdleType DEF Init, HandlerOK
<1>4. PassIdsDiffer
  BY IdleType DEF Init, PassIdsDiffer
<1> QED
  BY <1>1, <1>2, <1>3, <1>4 DEF TypeInv

(* What is looked up by its parties is found in the ledger or not at all.    *)
LEMMA LivePassType ==
    ASSUME NEW rows, NEW a, NEW b
    PROVE  LivePassBetween(rows, a, b) \in PassIds \cup {None}
  BY DEF LivePassBetween

LEMMA CurrentLikeType ==
    ASSUME NEW rows, NEW a, NEW b
    PROVE  CurrentLikeBetween(rows, a, b) \in LikeIds \cup {None}
  BY DEF CurrentLikeBetween

(* The ways a handler moves on keep it a request.                            *)
LEMMA MoveType ==
    ASSUME req \in [Requests -> RequestState], NEW r \in Requests
    PROVE  /\ \A place \in Places : Goto(r, place) => req' \in [Requests -> RequestState]
           /\ \A ids \in Seq(LikeIds), reply \in Replies :
                Mark(r, ids, reply) => req' \in [Requests -> RequestState]
           /\ \A reply \in Replies : Answer(r, reply) => req' \in [Requests -> RequestState]
<1>1. ASSUME NEW place \in Places, Goto(r, place)
      PROVE  req' \in [Requests -> RequestState]
  BY ZenonT(60), <1>1 DEF Goto, RequestState
<1>2. ASSUME NEW ids \in Seq(LikeIds), NEW reply \in Replies, Mark(r, ids, reply)
      PROVE  req' \in [Requests -> RequestState]
  <2> DEFINE q == [Forgetting(req[r]) EXCEPT !.todo = ids, !.reply = reply,
                     !.at = IF ids = <<>> THEN "reply" ELSE "mark_likes"]
  <2>1. NoLikes \in [LikeIds -> Likes] /\ NoPasses \in [PassIds -> Passes]
    BY DEF NoLikes, NoPasses, Likes, Passes
  <2>2. Forgetting(req[r]) \in RequestState
    BY <2>1 DEF Forgetting, RequestState
  <2>3. q \in RequestState
    BY <2>2 DEF RequestState, Places
  <2> QED
    BY <1>2, <2>3 DEF Mark
<1>3. <<>> \in Seq(LikeIds)
  OBVIOUS
<1> QED
  BY <1>1, <1>2, <1>3 DEF Answer


-----------------------------------------------------------------------------
(* What a handler writes *)

(* A sequence keeps its elements when another is appended. *)
LEMMA RangeConcat ==
    ASSUME NEW S, NEW s \in Seq(S), NEW t \in Seq(S)
    PROVE  s \o t \in Seq(S) /\ Range(s) \subseteq Range(s \o t)
<1>1. \A i \in DOMAIN s : i \in DOMAIN (s \o t) /\ (s \o t)[i] = s[i]
  OBVIOUS
<1> QED
  BY <1>1 DEF Range

(* A like that is moved keeps what its row said. *)
LEMMA LikeMoved ==
    ASSUME NEW row \in LikeRow, NEW state \in {"matched", "withdrawn"}, Movable(row, state)
    PROVE  LET moved == [row EXCEPT !.state = state]
           IN  moved \in LikeRow /\ LikeKept(row, moved)
<1> DEFINE moved == [row EXCEPT !.state = state]
<1>1. moved \in LikeRow /\ moved.from = row.from /\ moved.to = row.to
  BY DEF LikeRow
<1>2. ASSUME row.state = "withdrawn" PROVE moved = row
  <2>1. state = row.state
    BY <1>2 DEF Movable, IsCurrentLike
  <2> QED
    BY <2>1 DEF LikeRow
<1> QED
  BY <1>1, <1>2, RowAssumption DEF LikeKept, Directed

(* The likes a match is made of are two. *)
LEMMA MatchLikesType ==
    ASSUME TypeInv, NEW r \in Requests, UpsertMatch(r)
    PROVE  MatchLikes(r) \in Seq(LikeIds) /\ DOMAIN MatchLikes(r) = {1, 2}
<1>1. req[r].id \in LikeIds
  BY DEF TypeInv, HandlerOK, UpsertMatch, At
<1>2. TheirLike(r) \in LikeIds
  BY CurrentLikeType DEF UpsertMatch, Reciprocated, TheirLike
<1> QED
  BY <1>1, <1>2 DEF MatchLikes

(* What every transaction reads are rows; a handler serves a pair of users.  *)
LEMMA ReadType ==
    ASSUME TypeInv, NEW r \in Requests
    PROVE  /\ Seen(likes, r) \in [LikeIds -> Likes]
           /\ Seen(passes, r) \in [PassIds -> Passes]
           /\ Seen(blocks, r) \in [Pairs -> Users \cup {None}]
           /\ Seen(matches, r) \in [Pairs -> MatchRow \cup {None}]
           /\ Seen(chats, r) \in [Pairs -> ChatStates \cup {None}]
           /\ ~At(r, "idle") => PairOf(r) \in Pairs
           /\ req[r] \in RequestState
<1>1. TypeOK
  BY DEF TypeInv
<1>2. req[r] \in RequestState
  BY <1>1 DEF TypeOK
<1>3. ~At(r, "idle") => PairOf(r) \in Pairs
  BY <1>2, PairType DEF TypeInv, HandlerOK, PairOf, At, RequestState
<1> QED
  BY <1>1, <1>2, <1>3, SeenType DEF TypeOK

(* A step of request r, or its loss; and the steps that end its transaction. *)
Acts(r) == Start(r) \/ Step(r) \/ Crash(r)
Ends(r) == CommitRequest(r) \/ Throw(r) \/ Crash(r)

(* What a transaction writes keeps what it saw. *)
WritesLike(r) ==
    \E id \in LikeIds, row \in LikeRow :
        /\ FreeFor(likes, id, r)
        /\ LikeKept(Seen(likes, r)[id], row)
        /\ likes' = Put(likes, id, r, row)
WritesPass(r) ==
    \E p \in PassIds, row \in PassRow :
        /\ FreeFor(passes, p, r)
        /\ PassKept(Seen(passes, r)[p], row)
        /\ passes' = Put(passes, p, r, row)
        /\ passes[p] = Settled(None) => req[r].op = "pass" /\ req[r].id = p
WritesMatch(r) ==
    \E row \in MatchRow :
        /\ PairOf(r) \in Pairs
        /\ FreeFor(matches, PairOf(r), r)
        /\ MatchKept(Seen(matches, r)[PairOf(r)], row)
        /\ matches' = Put(matches, PairOf(r), r, row)

LEMMA LikeWrites ==
    ASSUME TypeInv, NEW r \in Requests, Acts(r)
    PROVE  \/ UNCHANGED likes
           \/ Ends(r) /\ likes' = Commit(likes, r)
           \/ Ends(r) /\ likes' = Rollback(likes, r)
           \/ WritesLike(r)
<1>read. /\ Seen(likes, r) \in [LikeIds -> Likes]
         /\ req[r] \in RequestState
  BY ReadType
<1>1. CASE InsertLike(r)
  <2> DEFINE row == [from |-> req[r].from, to |-> req[r].to, state |-> "live",
                     superseded |-> req[r].livePass]
  <2>1. row \in LikeRow
    BY <1>read DEF LikeRow, RequestState
  <2>2. req[r].id \in LikeIds
    BY <1>1 DEF TypeInv, HandlerOK, InsertLike, At
  <2>3. UNCHANGED likes \/ /\ Seen(likes, r)[req[r].id] = None
                           /\ likes' = Put(likes, req[r].id, r, row)
                           /\ FreeFor(likes, req[r].id, r)
    BY <1>1, <2>2 DEF InsertLike, LikeRivals
  <2> HIDE DEF row
  <2> QED
    BY <2>1, <2>2, <2>3 DEF WritesLike, LikeKept
<1>2. CASE MarkLike(r)
  <2> DEFINE id == Head(req[r].todo)
             row == Seen(likes, r)[id]
             state == IF req[r].op = "like" THEN "matched" ELSE "withdrawn"
             moved == [row EXCEPT !.state = state]
  <2>1. id \in LikeIds
    BY <1>2, <1>read DEF MarkLike, At, TypeInv, HandlerOK, RequestState
  <2>2. UNCHANGED likes \/ /\ Movable(row, state)
                           /\ likes' = Put(likes, id, r, moved)
                           /\ FreeFor(likes, id, r)
    BY <1>2 DEF MarkLike
  <2>3. ASSUME Movable(row, state)
        PROVE  moved \in LikeRow /\ LikeKept(row, moved)
    <3>1. row \in LikeRow
      BY <1>read, <2>1, <2>3 DEF Movable, IsCurrentLike, Likes
    <3> HIDE DEF row
    <3> QED
      BY <2>3, <3>1, LikeMoved
  <2> HIDE DEF id, moved, state
  <2> QED
    BY <2>1, <2>2, <2>3 DEF WritesLike
<1>3. CASE CommitRequest(r)
  BY <1>3 DEF CommitRequest, Ends
<1>4. CASE Throw(r) \/ Crash(r)
  BY <1>4 DEF Throw, Crash, RollbackRequest, Ends
<1>5. ASSUME Acts(r), ~InsertLike(r), ~MarkLike(r), ~CommitRequest(r), ~Throw(r), ~Crash(r)
      PROVE  UNCHANGED likes
  BY <1>5 DEF Acts, Start, Step, Begin, BeginLike, BeginPass, BeginBlock, BeginUnmatch,
     ReadLikes, ReadPasses, RefuseLike, RefuseSecondLike, RecordLike, FindLivePass,
     SupersedeOwnPass, SupersedePassByPair, ResolveWithoutMatch, UpsertMatch, OpenChat,
     RefusePass, InsertPass, InsertBlock, FindMatch, EndMatch, CloseChat, tables
<1> QED
  BY <1>1, <1>2, <1>3, <1>4, <1>5

LEMMA PassWrites ==
    ASSUME TypeInv, NEW r \in Requests, Acts(r)
    PROVE  \/ UNCHANGED passes
           \/ Ends(r) /\ passes' = Commit(passes, r)
           \/ Ends(r) /\ passes' = Rollback(passes, r)
           \/ WritesPass(r)
<1>read. /\ passes \in [PassIds -> Versions(Passes, Requests)]
         /\ Seen(passes, r) \in [PassIds -> Passes]
         /\ req[r] \in RequestState
  BY ReadType DEF TypeInv, TypeOK
<1>1. ASSUME NEW p \in PassIds, FreeFor(passes, p, r), passes' = Supersede(passes, p, r)
      PROVE  UNCHANGED passes \/ WritesPass(r)
  <2> DEFINE row == Seen(passes, r)[p]
             moved == [row EXCEPT !.state = "superseded"]
  <2>1. CASE row # None
    <3>1. row \in PassRow
      BY <1>read, <2>1 DEF Passes
    <3>2. moved \in PassRow /\ PassKept(row, moved)
      BY <3>1, RowAssumption DEF PassRow, PassKept, Directed
    <3>3. passes[p] # Settled(None)
      BY <1>read, <2>1 DEF Seen, Settled
    <3>4. passes' = passes \/ passes' = Put(passes, p, r, moved)
      BY <1>1 DEF Supersede
    <3> HIDE DEF moved
    <3> QED
      BY <1>1, <3>2, <3>3, <3>4 DEF WritesPass
  <2>2. CASE row = None
    BY <1>1, <2>2 DEF Supersede
  <2> QED
    BY <2>1, <2>2
<1>2. CASE SupersedeOwnPass(r)
  BY <1>1, <1>2 DEF SupersedeOwnPass, TypeInv, HandlerOK, At
<1>3. CASE SupersedePassByPair(r)
  BY <1>1, <1>3, LivePassType DEF SupersedePassByPair
<1>4. CASE InsertPass(r)
  <2> DEFINE row == [from |-> req[r].from, to |-> req[r].to, state |-> "live",
                     fresh |-> TRUE]
             p == req[r].id
  <2>1. row \in PassRow
    BY <1>read DEF PassRow, RequestState
  <2>2. req[r].op = "pass" /\ p \in PassIds /\ passes[p] = Settled(None)
    BY <1>4 DEF TypeInv, HandlerOK, InsertPass, At
  <2>3. FreeFor(passes, p, r) /\ Seen(passes, r)[p] = None
    BY <1>read, <2>2 DEF FreeFor, Seen, Settled
  <2>4. UNCHANGED passes \/ passes' = Put(passes, p, r, row)
    BY <1>4 DEF InsertPass
  <2> HIDE DEF row
  <2> QED
    BY <2>1, <2>2, <2>3, <2>4 DEF WritesPass, PassKept
<1>5. CASE CommitRequest(r)
  BY <1>5 DEF CommitRequest, Ends
<1>6. CASE Throw(r) \/ Crash(r)
  BY <1>6 DEF Throw, Crash, RollbackRequest, Ends
<1>7. ASSUME Acts(r), ~SupersedeOwnPass(r), ~SupersedePassByPair(r), ~InsertPass(r),
             ~CommitRequest(r), ~Throw(r), ~Crash(r)
      PROVE  UNCHANGED passes
  BY <1>7 DEF Acts, Start, Step, Begin, BeginLike, BeginPass, BeginBlock, BeginUnmatch,
     ReadLikes, ReadPasses, RefuseLike, RefuseSecondLike, RecordLike, FindLivePass,
     InsertLike, ResolveWithoutMatch, UpsertMatch, MarkLike, OpenChat,
     RefusePass, InsertBlock, FindMatch, EndMatch, CloseChat, tables
<1> QED
  BY <1>1, <1>2, <1>3, <1>4, <1>5, <1>6, <1>7

LEMMA MatchWrites ==
    ASSUME TypeInv, NEW r \in Requests, Acts(r)
    PROVE  \/ UNCHANGED matches
           \/ Ends(r) /\ matches' = Commit(matches, r)
           \/ Ends(r) /\ matches' = Rollback(matches, r)
           \/ WritesMatch(r)
<1>read. /\ Seen(matches, r) \in [Pairs -> MatchRow \cup {None}]
         /\ ~At(r, "idle") => PairOf(r) \in Pairs
         /\ req[r] \in RequestState
  BY ReadType
<1> DEFINE stored == Seen(matches, r)[PairOf(r)]
<1>1. CASE UpsertMatch(r)
  <2>1. PairOf(r) \in Pairs /\ stored \in MatchRow \cup {None}
    BY <1>1, <1>read DEF UpsertMatch, At
  <2>2. MatchLikes(r) \in Seq(LikeIds) /\ DOMAIN MatchLikes(r) = {1, 2}
    BY <1>1, MatchLikesType
  <2>3. Unlisted(MatchLikes(r), stored.likeIds) \in Seq(LikeIds)
    BY <2>2 DEF Unlisted
  <2> DEFINE row == Converged(stored, MatchLikes(r))
  <2>4. row \in MatchRow /\ MatchKept(stored, row)
    <3> HIDE DEF stored
    <3>1. CASE stored = None
      BY <2>2, <3>1 DEF Converged, MatchRow, MatchKept
    <3>2. CASE stored \in MatchRow
      <4> DEFINE more == stored.likeIds \o Unlisted(MatchLikes(r), stored.likeIds)
      <4>1. more \in Seq(LikeIds) /\ Range(stored.likeIds) \subseteq Range(more)
        BY <2>3, <3>2, RangeConcat DEF MatchRow
      <4>2. row = [stored EXCEPT !.likeIds = more]
        BY <3>2, RowAssumption DEF Converged
      <4> HIDE DEF more
      <4> QED
        BY <3>2, <4>1, <4>2, RowAssumption DEF MatchRow, MatchKept
    <3> QED
      BY <2>1, <3>1, <3>2
  <2>5. FreeFor(matches, PairOf(r), r) /\ matches' = Put(matches, PairOf(r), r, row)
    BY <1>1 DEF UpsertMatch
  <2> HIDE DEF row
  <2> QED
    BY <2>1, <2>4, <2>5 DEF WritesMatch
<1>2. CASE EndMatch(r)
  <2> DEFINE row == [stored EXCEPT !.end = EndedAs(req[r].op)]
  <2>1. PairOf(r) \in Pairs /\ stored \in MatchRow
    BY <1>2, <1>read DEF EndMatch, At, TypeInv, HandlerOK
  <2>2. row \in MatchRow /\ MatchKept(stored, row)
    <3> HIDE DEF stored
    <3> QED
      BY <2>1, RowAssumption DEF MatchRow, MatchKept, EndedAs
  <2>3. FreeFor(matches, PairOf(r), r) /\ matches' = Put(matches, PairOf(r), r, row)
    BY <1>2 DEF EndMatch
  <2> HIDE DEF row
  <2> QED
    BY <2>1, <2>2, <2>3 DEF WritesMatch
<1>3. CASE CommitRequest(r)
  BY <1>3 DEF CommitRequest, Ends
<1>4. CASE Throw(r) \/ Crash(r)
  BY <1>4 DEF Throw, Crash, RollbackRequest, Ends
<1>5. ASSUME Acts(r), ~UpsertMatch(r), ~EndMatch(r), ~CommitRequest(r), ~Throw(r), ~Crash(r)
      PROVE  UNCHANGED matches
  BY <1>5 DEF Acts, Start, Step, Begin, BeginLike, BeginPass, BeginBlock, BeginUnmatch,
     ReadLikes, ReadPasses, RefuseLike, RefuseSecondLike, RecordLike, FindLivePass,
     InsertLike, SupersedeOwnPass, SupersedePassByPair, ResolveWithoutMatch, MarkLike,
     OpenChat, RefusePass, InsertPass, InsertBlock, FindMatch, CloseChat, tables
<1> QED
  BY <1>1, <1>2, <1>3, <1>4, <1>5

-----------------------------------------------------------------------------
(* Types are kept *)

LEMMA TableTypeStep ==
    ASSUME TypeInv, NEW r \in Requests, Acts(r)
    PROVE  /\ likes' \in [LikeIds -> Versions(Likes, Requests)]
           /\ passes' \in [PassIds -> Versions(Passes, Requests)]
           /\ blocks' \in [Pairs -> Versions(Users \cup {None}, Requests)]
           /\ matches' \in [Pairs -> Versions(MatchRow \cup {None}, Requests)]
           /\ chats' \in [Pairs -> Versions(ChatStates \cup {None}, Requests)]
<1>types. TypeOK
  BY DEF TypeInv
<1>pair. ~At(r, "idle") => PairOf(r) \in Pairs
  BY ReadType
<1>1. likes' \in [LikeIds -> Versions(Likes, Requests)]
  <2>1. ASSUME NEW id \in LikeIds, NEW row \in LikeRow
        PROVE  Put(likes, id, r, row) \in [LikeIds -> Versions(Likes, Requests)]
    BY <1>types, PutType DEF TypeOK, Likes
  <2>2. Commit(likes, r) \in [LikeIds -> Versions(Likes, Requests)] /\ Rollback(likes, r) \in [LikeIds -> Versions(Likes, Requests)]
    BY <1>types, EndType DEF TypeOK
  <2>3. WritesLike(r) => likes' \in [LikeIds -> Versions(Likes, Requests)]
    BY <2>1 DEF WritesLike
  <2> QED
    BY <1>types, <2>2, <2>3, LikeWrites DEF TypeOK
<1>2. passes' \in [PassIds -> Versions(Passes, Requests)]
  <2>1. ASSUME NEW p \in PassIds, NEW row \in PassRow
        PROVE  Put(passes, p, r, row) \in [PassIds -> Versions(Passes, Requests)]
    BY <1>types, PutType DEF TypeOK, Passes
  <2>2. Commit(passes, r) \in [PassIds -> Versions(Passes, Requests)] /\ Rollback(passes, r) \in [PassIds -> Versions(Passes, Requests)]
    BY <1>types, EndType DEF TypeOK
  <2>3. WritesPass(r) => passes' \in [PassIds -> Versions(Passes, Requests)]
    BY <2>1 DEF WritesPass
  <2> QED
    BY <1>types, <2>2, <2>3, PassWrites DEF TypeOK
<1>3. matches' \in [Pairs -> Versions(MatchRow \cup {None}, Requests)]
  <2>1. ASSUME NEW p \in Pairs, NEW row \in MatchRow
        PROVE  Put(matches, p, r, row) \in [Pairs -> Versions(MatchRow \cup {None}, Requests)]
    BY <1>types, PutType DEF TypeOK
  <2>2. Commit(matches, r) \in [Pairs -> Versions(MatchRow \cup {None}, Requests)] /\ Rollback(matches, r) \in [Pairs -> Versions(MatchRow \cup {None}, Requests)]
    BY <1>types, EndType DEF TypeOK
  <2>3. WritesMatch(r) => matches' \in [Pairs -> Versions(MatchRow \cup {None}, Requests)]
    BY <2>1 DEF WritesMatch
  <2> QED
    BY <1>types, <2>2, <2>3, MatchWrites DEF TypeOK
<1>4. blocks' \in [Pairs -> Versions(Users \cup {None}, Requests)]
  <2>1. CASE InsertBlock(r)
    <3>1. PairOf(r) \in Pairs /\ req[r].from \in Users
      BY <1>pair, <2>1, ReadType DEF InsertBlock, At, RequestState
    <3>2. Put(blocks, PairOf(r), r, req[r].from)
            \in [Pairs -> Versions(Users \cup {None}, Requests)]
      BY <1>types, <3>1, PutType DEF TypeOK
    <3> QED
      BY <1>types, <2>1, <3>2 DEF InsertBlock, TypeOK
  <2>5. Commit(blocks, r) \in [Pairs -> Versions(Users \cup {None}, Requests)] /\ Rollback(blocks, r) \in [Pairs -> Versions(Users \cup {None}, Requests)]
    BY <1>types, EndType DEF TypeOK
  <2>2. CASE CommitRequest(r)
    BY <2>2, <2>5 DEF CommitRequest
  <2>3. CASE Throw(r) \/ Crash(r)
    BY <2>3, <2>5 DEF Throw, Crash, RollbackRequest
  <2>4. ASSUME Acts(r), ~InsertBlock(r), ~CommitRequest(r), ~Throw(r), ~Crash(r)
        PROVE  UNCHANGED blocks
    BY <2>4 DEF Acts, Start, Step, Begin, BeginLike, BeginPass, BeginBlock, BeginUnmatch,
       ReadLikes, ReadPasses, RefuseLike, RefuseSecondLike, RecordLike, FindLivePass,
       InsertLike, SupersedeOwnPass, SupersedePassByPair, ResolveWithoutMatch, UpsertMatch,
       MarkLike, OpenChat, RefusePass, InsertPass, FindMatch, EndMatch, CloseChat, tables
  <2> QED
    BY <1>types, <2>1, <2>2, <2>3, <2>4 DEF TypeOK
<1>5. chats' \in [Pairs -> Versions(ChatStates \cup {None}, Requests)]
  <2>1. CASE OpenChat(r) \/ CloseChat(r)
    <3>1. PairOf(r) \in Pairs
      BY <1>pair, <2>1 DEF OpenChat, CloseChat, At
    <3>2. ASSUME NEW state \in ChatStates
          PROVE  Put(chats, PairOf(r), r, state)
                   \in [Pairs -> Versions(ChatStates \cup {None}, Requests)]
      BY <1>types, <3>1, PutType DEF TypeOK
    <3>3. {"active", ClosedAs(req[r].op)} \subseteq ChatStates
      BY DEF ClosedAs, ChatStates
    <3> QED
      BY <1>types, <2>1, <3>2, <3>3 DEF OpenChat, CloseChat, TypeOK
  <2>5. Commit(chats, r) \in [Pairs -> Versions(ChatStates \cup {None}, Requests)] /\ Rollback(chats, r) \in [Pairs -> Versions(ChatStates \cup {None}, Requests)]
    BY <1>types, EndType DEF TypeOK
  <2>2. CASE CommitRequest(r)
    BY <2>2, <2>5 DEF CommitRequest
  <2>3. CASE Throw(r) \/ Crash(r)
    BY <2>3, <2>5 DEF Throw, Crash, RollbackRequest
  <2>4. ASSUME Acts(r), ~OpenChat(r), ~CloseChat(r), ~CommitRequest(r), ~Throw(r), ~Crash(r)
        PROVE  UNCHANGED chats
    BY <2>4 DEF Acts, Start, Step, Begin, BeginLike, BeginPass, BeginBlock, BeginUnmatch,
       ReadLikes, ReadPasses, RefuseLike, RefuseSecondLike, RecordLike, FindLivePass,
       InsertLike, SupersedeOwnPass, SupersedePassByPair, ResolveWithoutMatch, UpsertMatch,
       MarkLike, RefusePass, InsertPass, InsertBlock, FindMatch, EndMatch, tables
  <2> QED
    BY <1>types, <2>1, <2>2, <2>3, <2>4 DEF TypeOK
<1> QED
  BY <1>1, <1>2, <1>3, <1>4, <1>5

LEMMA RequestTypeStep ==
    ASSUME TypeInv, NEW r \in Requests, Acts(r)
    PROVE  req' \in [Requests -> RequestState]
<1>req. req \in [Requests -> RequestState] /\ req[r] \in RequestState
  BY DEF TypeInv, TypeOK
<1>seen. /\ Seen(likes, r) \in [LikeIds -> Likes]
         /\ Seen(passes, r) \in [PassIds -> Passes]
         /\ Seen(matches, r) \in [Pairs -> MatchRow \cup {None}]
  BY ReadType
<1>1. CASE Start(r)
  <2>1. PICK op \in Ops, a \in Users, b \in Users, id \in LikeIds \cup PassIds \cup {None},
             place \in Places : Begin(r, op, a, b, id, place)
    BY <1>1 DEF Start, BeginLike, BeginPass, BeginBlock, BeginUnmatch, Ops, Places
  <2>2. Starting(op, a, b, id, place) \in RequestState
    BY DEF Starting, RequestState, Replies, NoLikes, NoPasses, Likes, Passes
  <2> QED
    BY <1>req, <2>1, <2>2 DEF Begin
<1>2. CASE ReadLikes(r)
  <2> DEFINE read == [id \in LikeIds |-> IF IsCurrentLike(Seen(likes, r)[id])
                                           THEN Seen(likes, r)[id] ELSE None]
  <2>1. read \in [LikeIds -> Likes]
    BY <1>seen DEF Likes
  <2>2. req' = [req EXCEPT ![r] = [req[r] EXCEPT !.likes = read, !.at = "read_passes"]]
    BY <1>2, Zenon DEF ReadLikes
  <2> HIDE DEF read
  <2>3. [req[r] EXCEPT !.likes = read, !.at = "read_passes"] \in RequestState
    BY <1>req, <2>1 DEF RequestState, Places
  <2> QED
    BY <1>req, <2>2, <2>3
<1>3. CASE ReadPasses(r)
  <2> DEFINE place == IF req[r].op = "like" THEN "read_blocks" ELSE "insert_pass"
             q == [req[r] EXCEPT !.passes = Seen(passes, r), !.at = place]
  <2>1. q \in RequestState
    BY ZenonT(60), <1>req, <1>seen DEF RequestState, Places
  <2>2. req' = [req EXCEPT ![r] = q]
    BY <1>3, Zenon DEF ReadPasses
  <2> QED
    BY <1>req, <2>1, <2>2
<1>4. CASE RefuseLike(r) \/ RefuseSecondLike(r) \/ RefusePass(r) \/ ResolveWithoutMatch(r)
  BY <1>4, <1>req, MoveType
  DEF RefuseLike, RefuseSecondLike, RefusePass, ResolveWithoutMatch, Places, Replies
<1>5. CASE RecordLike(r)
  <2> DEFINE read == [req[r].likes EXCEPT ![req[r].id] = NewLike(r)]
             q == [req[r] EXCEPT !.likes = read, !.passes = PassesLeft(r),
                                 !.at = "find_live_pass"]
  <2>1. req' = IF OwnLike(r) = req[r].id THEN [req EXCEPT ![r].at = "find_live_pass"]
                                         ELSE [req EXCEPT ![r] = q]
    BY <1>5, Zenon DEF RecordLike
  <2>2. req[r].id \in LikeIds
    BY <1>5 DEF TypeInv, HandlerOK, RecordLike, At
  <2>3. NewLike(r) \in LikeRow
    <3> DEFINE overridden == {p \in PassIds : Overrides(r, p)}
    <3>1. overridden = {} \/ (CHOOSE p \in overridden : TRUE) \in PassIds
      OBVIOUS
    <3> QED
      BY <1>req, <3>1 DEF NewLike, LikeRow, RequestState
  <2>4. read \in [LikeIds -> Likes]
    BY <1>req, <2>2, <2>3 DEF Likes, RequestState
  <2>5. PassesLeft(r) \in [PassIds -> Passes]
    <3> SUFFICES ASSUME NEW p \in PassIds, Overrides(r, p)
                 PROVE  [req[r].passes[p] EXCEPT !.state = "superseded"] \in Passes
      BY <1>req DEF RequestState, PassesLeft
    <3>1. req[r].passes[p] \in PassRow
      BY <1>req DEF RequestState, Passes, Overrides, Directed
    <3> QED
      BY <3>1 DEF Passes, PassRow
  <2> HIDE DEF read
  <2>6. q \in RequestState
    BY <1>req, <2>4, <2>5 DEF RequestState, Places
  <2>7. [req[r] EXCEPT !.at = "find_live_pass"] \in RequestState
    BY <1>req DEF RequestState, Places
  <2> HIDE DEF q
  <2> QED
    BY <1>req, <2>1, <2>6, <2>7
<1>6. CASE FindLivePass(r)
  <2> DEFINE found == LivePassBetween(Seen(passes, r), req[r].from, req[r].to)
             q == [req[r] EXCEPT !.livePass = found, !.at = "insert_like"]
  <2>1. found \in PassIds \cup {None}
    BY LivePassType
  <2> HIDE DEF found
  <2>2. q \in RequestState
    BY <1>req, <2>1 DEF RequestState, Places
  <2>3. req' = [req EXCEPT ![r] = q]
    BY <1>6, Zenon DEF FindLivePass, found
  <2> QED
    BY <1>req, <2>2, <2>3
<1>7. CASE InsertLike(r) \/ SupersedeOwnPass(r) \/ SupersedePassByPair(r)
  <2>1. \E place \in Places : Goto(r, place)
    BY <1>7 DEF InsertLike, SupersedeOwnPass, SupersedePassByPair, AfterAppend, Places
  <2> QED
    BY <1>req, <2>1, MoveType
<1>8. CASE UpsertMatch(r)
  BY <1>8, <1>req, MatchLikesType, MoveType DEF UpsertMatch, Replies
<1>9. CASE MarkLike(r)
  <2> DEFINE place == IF Tail(req[r].todo) # <<>> THEN "mark_likes"
                                                  ELSE After(req[r].op, "mark_likes")
             q == [req[r] EXCEPT !.todo = Tail(req[r].todo), !.at = place]
  <2>1. Tail(req[r].todo) \in Seq(LikeIds)
    BY <1>9, <1>req DEF MarkLike, At, TypeInv, HandlerOK, RequestState
  <2>2. place \in Places
    BY <1>req DEF After, Places, RequestState, Ops
  <2>3. req' = [req EXCEPT ![r] = q]
    BY <1>9, Zenon DEF MarkLike
  <2> HIDE DEF place
  <2>4. q \in RequestState
    BY <1>req, <2>1, <2>2 DEF RequestState
  <2> HIDE DEF q
  <2> QED
    BY <1>req, <2>3, <2>4
<1>10. CASE OpenChat(r) \/ CloseChat(r)
  BY <1>10, <1>req, MoveType DEF OpenChat, CloseChat, Replies
<1>11. CASE InsertPass(r)
  <2>1. Overtaken(r) \in Seq(LikeIds)
    BY CurrentLikeType DEF Overtaken, OwnLike
  <2>2. Goto(r, "failed") \/ Mark(r, Overtaken(r), "recorded")
    BY <1>11 DEF InsertPass
  <2> QED
    BY <1>req, <2>1, <2>2, MoveType DEF Places, Replies
<1>12. CASE InsertBlock(r)
  BY <1>12, <1>req, MoveType DEF InsertBlock, Places, Replies
<1>13. CASE FindMatch(r)
  <2> DEFINE match == Seen(matches, r)[PairOf(r)]
             q == [req[r] EXCEPT !.todo = match.likeIds,
                                 !.at = After(req[r].op, "find_match")]
  <2>1. CASE match = None
    BY <1>13, <1>req, <2>1, MoveType DEF FindMatch, Replies
  <2>2. CASE match # None
    <3>1. match.likeIds \in Seq(LikeIds)
      BY <1>13, <1>seen, <2>2, ReadType DEF FindMatch, At, MatchRow
    <3>2. After(req[r].op, "find_match") \in Places
      BY <1>req DEF After, Places, RequestState, Ops
    <3>3. q \in RequestState
      BY <1>req, <3>1, <3>2 DEF RequestState
    <3>4. Goto(r, "failed") \/ Answer(r, "already_ended") \/ req' = [req EXCEPT ![r] = q]
      BY <1>13, <2>2, Zenon DEF FindMatch
    <3> HIDE DEF q
    <3> QED
      BY <1>req, <3>3, <3>4, MoveType DEF Places, Replies
  <2> QED
    BY <2>1, <2>2
<1>14. CASE EndMatch(r)
  <2>1. After(req[r].op, "end_match") \in Places
    BY <1>req DEF After, Places, RequestState, Ops
  <2> QED
    BY <1>14, <1>req, <2>1, MoveType DEF EndMatch
<1>15. CASE CommitRequest(r) \/ Throw(r) \/ Crash(r)
  BY <1>15, <1>req, IdleType DEF CommitRequest, Throw, Crash, RollbackRequest
<1> QED
  BY <1>1, <1>2, <1>3, <1>4, <1>5, <1>6, <1>7, <1>8, <1>9, <1>10, <1>11, <1>12, <1>13,
     <1>14, <1>15 DEF Acts, Step

-----------------------------------------------------------------------------
(* History is kept *)

LEMMA KeptReflexive ==
    \A row : LikeKept(row, row) /\ PassKept(row, row) /\ MatchKept(row, row)
  BY DEF LikeKept, PassKept, MatchKept, Directed

LEMMA KeptTransitive ==
    ASSUME NEW a, NEW b, NEW c
    PROVE  /\ LikeKept(a, b) /\ LikeKept(b, c) => LikeKept(a, c)
           /\ PassKept(a, b) /\ PassKept(b, c) => PassKept(a, c)
           /\ MatchKept(a, b) /\ MatchKept(b, c) => MatchKept(a, c)
  BY DEF LikeKept, PassKept, MatchKept, Directed

(* A request keeps the rows it would commit, and those that are committed.   *)
LEMMA LikeRowStep ==
    ASSUME TypeInv, NEW r \in Requests, Acts(r), NEW id \in LikeIds
    PROVE  /\ LikeKept(likes'[id].row, likes'[id].next)
           /\ LikeKept(likes[id].row, likes'[id].row)
<1>type. likes \in [LikeIds -> Versions(Likes, Requests)]
  BY DEF TypeInv, TypeOK
<1>kept. LikeKept(likes[id].row, likes[id].next)
  BY DEF TypeInv, RowsKept
<1>1. CASE UNCHANGED likes
  BY <1>1, <1>kept, KeptReflexive
<1>2. CASE likes' = Commit(likes, r) \/ likes' = Rollback(likes, r)
  <2>1. \/ likes'[id] = likes[id]
        \/ likes'[id] = Settled(likes[id].next)
        \/ likes'[id] = Settled(likes[id].row)
    BY <1>type, <1>2 DEF Commit, Rollback
  <2> QED
    BY <2>1, <1>kept, KeptReflexive DEF Settled
<1>3. CASE WritesLike(r)
  <2>1. PICK key \in LikeIds, row \in LikeRow :
               /\ FreeFor(likes, key, r)
               /\ LikeKept(Seen(likes, r)[key], row)
               /\ likes' = Put(likes, key, r, row)
    BY <1>3 DEF WritesLike
  <2>2. CASE key # id
    BY <1>type, <1>kept, <2>1, <2>2, KeptReflexive DEF Put
  <2>3. CASE key = id
    <3>1. likes'[id].row = likes[id].row /\ likes'[id].next = row
      BY <1>type, <2>1, <2>3 DEF Put
    <3>2. Seen(likes, r)[id] \in {likes[id].row, likes[id].next}
      BY <1>type DEF Seen
    <3> QED
      BY <1>kept, <2>1, <2>3, <3>1, <3>2, KeptReflexive, KeptTransitive
  <2> QED
    BY <2>2, <2>3
<1> QED
  BY <1>1, <1>2, <1>3, LikeWrites

LEMMA PassRowStep ==
    ASSUME TypeInv, NEW r \in Requests, Acts(r), NEW p \in PassIds
    PROVE  /\ PassKept(passes'[p].row, passes'[p].next)
           /\ PassKept(passes[p].row, passes'[p].row)
<1>type. passes \in [PassIds -> Versions(Passes, Requests)]
  BY DEF TypeInv, TypeOK
<1>kept. PassKept(passes[p].row, passes[p].next)
  BY DEF TypeInv, RowsKept
<1>1. CASE UNCHANGED passes
  BY <1>1, <1>kept, KeptReflexive
<1>2. CASE passes' = Commit(passes, r) \/ passes' = Rollback(passes, r)
  <2>1. \/ passes'[p] = passes[p]
        \/ passes'[p] = Settled(passes[p].next)
        \/ passes'[p] = Settled(passes[p].row)
    BY <1>type, <1>2 DEF Commit, Rollback
  <2> QED
    BY <2>1, <1>kept, KeptReflexive DEF Settled
<1>3. CASE WritesPass(r)
  <2>1. PICK key \in PassIds, row \in PassRow :
               /\ FreeFor(passes, key, r)
               /\ PassKept(Seen(passes, r)[key], row)
               /\ passes' = Put(passes, key, r, row)
    BY <1>3 DEF WritesPass
  <2>2. CASE key # p
    BY <1>type, <1>kept, <2>1, <2>2, KeptReflexive DEF Put
  <2>3. CASE key = p
    <3>1. passes'[p].row = passes[p].row /\ passes'[p].next = row
      BY <1>type, <2>1, <2>3 DEF Put
    <3>2. Seen(passes, r)[p] \in {passes[p].row, passes[p].next}
      BY <1>type DEF Seen
    <3> QED
      BY <1>kept, <2>1, <2>3, <3>1, <3>2, KeptReflexive, KeptTransitive
  <2> QED
    BY <2>2, <2>3
<1> QED
  BY <1>1, <1>2, <1>3, PassWrites

LEMMA MatchRowStep ==
    ASSUME TypeInv, NEW r \in Requests, Acts(r), NEW p \in Pairs
    PROVE  /\ MatchKept(matches'[p].row, matches'[p].next)
           /\ MatchKept(matches[p].row, matches'[p].row)
<1>type. matches \in [Pairs -> Versions(MatchRow \cup {None}, Requests)]
  BY DEF TypeInv, TypeOK
<1>kept. MatchKept(matches[p].row, matches[p].next)
  BY DEF TypeInv, RowsKept
<1>1. CASE UNCHANGED matches
  BY <1>1, <1>kept, KeptReflexive
<1>2. CASE matches' = Commit(matches, r) \/ matches' = Rollback(matches, r)
  <2>1. \/ matches'[p] = matches[p]
        \/ matches'[p] = Settled(matches[p].next)
        \/ matches'[p] = Settled(matches[p].row)
    BY <1>type, <1>2 DEF Commit, Rollback
  <2> QED
    BY <2>1, <1>kept, KeptReflexive DEF Settled
<1>3. CASE WritesMatch(r)
  <2>1. PICK key \in Pairs, row \in MatchRow :
               /\ FreeFor(matches, key, r)
               /\ MatchKept(Seen(matches, r)[key], row)
               /\ matches' = Put(matches, key, r, row)
    BY <1>3 DEF WritesMatch
  <2>2. CASE key # p
    BY <1>type, <1>kept, <2>1, <2>2, KeptReflexive DEF Put
  <2>3. CASE key = p
    <3>1. matches'[p].row = matches[p].row /\ matches'[p].next = row
      BY <1>type, <2>1, <2>3 DEF Put
    <3>2. Seen(matches, r)[p] \in {matches[p].row, matches[p].next}
      BY <1>type DEF Seen
    <3> QED
      BY <1>kept, <2>1, <2>3, <3>1, <3>2, KeptReflexive, KeptTransitive
  <2> QED
    BY <2>2, <2>3
<1> QED
  BY <1>1, <1>2, <1>3, MatchWrites

(* Time passing does so too. *)
LEMMA ExpireStep ==
    ASSUME TypeInv, NEW p \in PassIds, ExpirePass(p)
    PROVE  /\ passes' \in [PassIds -> Versions(Passes, Requests)]
           /\ \A q \in PassIds : /\ PassKept(passes'[q].row, passes'[q].next)
                                 /\ PassKept(passes[q].row, passes'[q].row)
                                 /\ PassKept(passes[q].next, passes'[q].next)
                                 /\ passes'[q].by = passes[q].by
                                 /\ passes[q] = Settled(None) => passes'[q] = Settled(None)
<1>1. passes \in [PassIds -> Versions(Passes, Requests)]
  BY DEF TypeInv, TypeOK
<1>2. \A q \in PassIds : PassKept(passes[q].row, passes[q].next)
  BY DEF TypeInv, RowsKept
<1>3. passes[p].row \in PassRow /\ passes[p].next \in PassRow
  BY <1>1, <1>2 DEF ExpirePass, PassKept, Directed, Versions, Passes
<1> DEFINE row == [passes[p].row EXCEPT !.fresh = FALSE]
           next == [passes[p].next EXCEPT !.fresh = FALSE]
           version == [passes[p] EXCEPT !.row.fresh = FALSE, !.next.fresh = FALSE]
<1>4. row \in PassRow /\ next \in PassRow
  BY <1>3 DEF PassRow
<1>5. /\ version.row = row /\ version.next = next /\ version.by = passes[p].by
      /\ version \in Versions(Passes, Requests)
  BY <1>1, <1>4 DEF Versions, Passes
<1>6. passes' = [passes EXCEPT ![p] = version]
  BY <1>1 DEF ExpirePass, Versions
<1>7. PassKept(row, next) /\ PassKept(passes[p].row, row) /\ PassKept(passes[p].next, next)
  BY <1>2, <1>3, <1>4, RowAssumption DEF PassKept, Directed, PassRow
<1>8. passes[p] # Settled(None)
  BY DEF ExpirePass, Settled
<1> HIDE DEF row, next, version
<1> QED
  BY <1>1, <1>2, <1>5, <1>6, <1>7, <1>8, KeptReflexive

-----------------------------------------------------------------------------
(* Handlers keep to their places *)

SameRequest(r) == /\ req'[r].op = req[r].op /\ req'[r].id = req[r].id
                  /\ req'[r].from = req[r].from /\ req'[r].to = req[r].to

(* A handler writes its own local values only, and serves one request.       *)
LEMMA OwnStep ==
    ASSUME TypeInv, NEW r \in Requests, Acts(r)
    PROVE  /\ \A q \in Requests \ {r} : req'[q] = req[q]
           /\ \/ Start(r) \/ SameRequest(r)
              \/ Ends(r) /\ req'[r] = Idle
<1>req. req \in [Requests -> RequestState] /\ req[r] \in RequestState
  BY DEF TypeInv, TypeOK
<1>1. \A place : Goto(r, place) => \A q \in Requests \ {r} : req'[q] = req[q]
  BY <1>req DEF Goto
<1>2. \A place : Goto(r, place) => SameRequest(r)
  BY <1>req DEF Goto, SameRequest, RequestState
<1>3. \A ids, reply : Mark(r, ids, reply) => \A q \in Requests \ {r} : req'[q] = req[q]
  BY <1>req DEF Mark
<1>4. \A ids, reply : Mark(r, ids, reply) => SameRequest(r)
  BY <1>req DEF Mark, Forgetting, SameRequest, RequestState
<1>5. CASE \/ RefuseLike(r) \/ RefuseSecondLike(r) \/ RefusePass(r) \/ ResolveWithoutMatch(r)
           \/ InsertLike(r) \/ SupersedeOwnPass(r) \/ SupersedePassByPair(r) \/ UpsertMatch(r)
           \/ OpenChat(r) \/ CloseChat(r) \/ InsertPass(r) \/ InsertBlock(r) \/ EndMatch(r)
  BY <1>5, <1>1, <1>2, <1>3, <1>4
  DEF RefuseLike, RefuseSecondLike, RefusePass, ResolveWithoutMatch, InsertLike,
      SupersedeOwnPass, SupersedePassByPair, UpsertMatch, OpenChat, CloseChat, InsertPass,
      InsertBlock, EndMatch, Answer
<1>6. CASE Start(r)
  BY <1>6, <1>req DEF Start, Begin, BeginLike, BeginPass, BeginBlock, BeginUnmatch
<1>7. CASE ReadLikes(r) \/ ReadPasses(r) \/ FindLivePass(r) \/ MarkLike(r)
  <2>1. \A q \in Requests \ {r} : req'[q] = req[q]
    BY <1>7, <1>req DEF ReadLikes, ReadPasses, FindLivePass, MarkLike
  <2>2. SameRequest(r)
    BY ZenonT(60), <1>7, <1>req
    DEF ReadLikes, ReadPasses, FindLivePass, MarkLike, SameRequest, RequestState
  <2> QED
    BY <2>1, <2>2
<1>8. CASE RecordLike(r)
  <2>1. \A q \in Requests \ {r} : req'[q] = req[q]
    BY <1>8, <1>req DEF RecordLike
  <2>2. SameRequest(r)
    BY <1>8, <1>req DEF RecordLike, SameRequest, RequestState
  <2> QED
    BY <2>1, <2>2
<1>9. CASE FindMatch(r)
  <2>1. \A q \in Requests \ {r} : req'[q] = req[q]
    BY <1>9, <1>req, <1>1, <1>3 DEF FindMatch, Answer
  <2>2. SameRequest(r)
    <3>1. CASE Goto(r, "failed") \/ \E reply : Answer(r, reply)
      BY <3>1, <1>2, <1>4 DEF Answer
    <3>2. CASE ~(Goto(r, "failed") \/ \E reply : Answer(r, reply))
      BY <1>9, <1>req, <3>2 DEF FindMatch, SameRequest, RequestState
    <3> QED
      BY <3>1, <3>2
  <2> QED
    BY <2>1, <2>2
<1>10. CASE CommitRequest(r) \/ Throw(r) \/ Crash(r)
  BY <1>10, <1>req DEF CommitRequest, Throw, Crash, RollbackRequest, Ends
<1> QED
  BY <1>5, <1>6, <1>7, <1>8, <1>9, <1>10 DEF Acts, Step

(* Ids of passes stay different: a fresh one is nobody else's.               *)
LEMMA PassIdsStep ==
    ASSUME TypeInv, NEW r \in Requests, Acts(r)
    PROVE  PassIdsDiffer'
<1>1. PassIdsDiffer
  BY DEF TypeInv
<1>2. CASE Start(r)
  <2>1. req'[r].op = "pass" => \A q \in Requests : req[q].id # req'[r].id
    BY <1>2 DEF TypeInv, TypeOK, Start, Begin, BeginLike, BeginPass, BeginBlock,
                BeginUnmatch, Starting, Fresh
  <2> QED
    BY <1>1, <2>1, OwnStep DEF PassIdsDiffer
<1>3. CASE req'[r] = Idle \/ SameRequest(r)
  BY <1>1, <1>3, OwnStep, IdleType DEF PassIdsDiffer, SameRequest
<1> QED
  BY <1>2, <1>3, OwnStep

(* A handler at rest or waiting is not disturbed by another's step.          *)
LEMMA OtherHandlerStep ==
    ASSUME TypeInv, NEW r \in Requests, Acts(r), NEW q \in Requests \ {r}
    PROVE  HandlerOK(q)'
<1>1. HandlerOK(q) /\ req'[q] = req[q] /\ q # None
  BY OwnStep, NoneAssumption DEF TypeInv
<1>2. ASSUME At(q, "end_match") PROVE Seen(matches', q)[PairOf(q)] # None
  <2>1. /\ matches \in [Pairs -> Versions(MatchRow \cup {None}, Requests)]
        /\ PairOf(q) \in Pairs
        /\ Seen(matches, q)[PairOf(q)] # None
    BY <1>1, <1>2, ReadType DEF TypeInv, TypeOK, HandlerOK, At
  <2> DEFINE p == PairOf(q)
  <2>2. MatchKept(matches[p].row, matches[p].next)
    BY <2>1 DEF TypeInv, RowsKept
  <2>3. \/ matches'[p] = matches[p]
        \/ matches[p].by = r /\ matches'[p] \in {Settled(matches[p].row), Settled(matches[p].next)}
        \/ /\ matches[p].by \in {None, r}
           /\ matches'[p].by = r /\ matches'[p].row = matches[p].row
    BY <2>1, MatchWrites DEF Commit, Rollback, WritesMatch, Put, FreeFor
  <2>4. p \in DOMAIN matches'
    BY TableTypeStep, <2>1
  <2> QED
    BY <1>1, <2>1, <2>2, <2>3, <2>4 DEF Seen, Settled, MatchKept
<1>3. ASSUME req[q].op = "pass", req[q].at \in {"read_likes", "read_passes", "insert_pass"}
      PROVE  passes'[req[q].id] = Settled(None)
  <2> DEFINE p == req[q].id
  <2>1. /\ passes \in [PassIds -> Versions(Passes, Requests)]
        /\ p \in PassIds /\ passes[p] = Settled(None)
    BY <1>1, <1>3 DEF TypeInv, TypeOK, HandlerOK
  <2>2. ~(req[r].op = "pass" /\ req[r].id = p)
    BY <1>3 DEF TypeInv, PassIdsDiffer
  <2>3. CASE passes' = Commit(passes, r) \/ passes' = Rollback(passes, r)
    BY <2>1, <2>3, NoneAssumption DEF Commit, Rollback, Settled
  <2>4. CASE WritesPass(r)
    BY <2>1, <2>2, <2>4 DEF WritesPass, Put
  <2> QED
    BY <2>1, <2>3, <2>4, PassWrites
<1> QED
  BY <1>1, <1>2, <1>3 DEF HandlerOK, At, PairOf

(* The handler that steps is where its step leaves it. *)
LEMMA OwnHandlerStep ==
    ASSUME TypeInv, NEW r \in Requests, Acts(r)
    PROVE  HandlerOK(r)'
<1>req. req \in [Requests -> RequestState] /\ req[r] \in RequestState
  BY DEF TypeInv, TypeOK
<1>ok. HandlerOK(r)
  BY DEF TypeInv
<1>goto. \A place : Goto(r, place) =>
           req'[r].at = place /\ req'[r].todo = req[r].todo
           /\ req'[r].livePass = req[r].livePass
  BY <1>req DEF Goto, RequestState
<1>mark. \A ids, reply : Mark(r, ids, reply) =>
           /\ req'[r].at = IF ids = <<>> THEN "reply" ELSE "mark_likes"
           /\ req'[r].todo = ids
  BY <1>req DEF Mark, Forgetting, RequestState
<1>answer. \A reply : Answer(r, reply) => req'[r].at = "reply"
  BY <1>mark DEF Answer
<1>idle. ASSUME req'[r] = Idle PROVE HandlerOK(r)'
  BY <1>idle, IdleType DEF HandlerOK
<1>1. CASE Start(r)
  <2>1. CASE \E a, b \in Users, p \in PassIds : BeginPass(r, a, b, p)
    <3>1. PICK a \in Users, b \in Users, p \in PassIds : BeginPass(r, a, b, p)
      BY <2>1
    <3>2. req'[r] = Starting("pass", a, b, p, "read_likes") /\ a # b
          /\ passes' = passes /\ passes[p] = Settled(None)
      BY <1>req, <3>1 DEF BeginPass, Begin, tables, Fresh
    <3> QED
      BY <3>2 DEF HandlerOK, Starting
  <2>2. CASE ~\E a, b \in Users, p \in PassIds : BeginPass(r, a, b, p)
    <3>1. PICK a \in Users, b \in Users :
             a # b /\ \/ \E id \in LikeIds : req'[r] = Starting("like", a, b, id, "read_likes")
                      \/ req'[r] = Starting("block", a, b, None, "insert_block")
                      \/ req'[r] = Starting("unmatch", a, b, None, "find_match")
      BY <1>1, <1>req, <2>2 DEF Start, BeginLike, BeginBlock, BeginUnmatch, Begin
    <3>2. CASE \E id \in LikeIds : req'[r] = Starting("like", a, b, id, "read_likes")
      BY <3>1, <3>2 DEF HandlerOK, Starting
    <3>3. CASE req'[r] = Starting("block", a, b, None, "insert_block")
      BY <3>1, <3>3 DEF HandlerOK, Starting
    <3>4. CASE req'[r] = Starting("unmatch", a, b, None, "find_match")
      BY <3>1, <3>4 DEF HandlerOK, Starting
    <3> QED
      BY <3>1, <3>2, <3>3, <3>4
  <2> QED
    BY <2>1, <2>2
<1>3. CASE CommitRequest(r) \/ Throw(r) \/ Crash(r)
  BY <1>3, <1>req, <1>idle DEF CommitRequest, Throw, Crash, RollbackRequest
<1>2. CASE ~Start(r) /\ SameRequest(r) /\ ~At(r, "idle")
  <2>same. /\ req'[r].op = req[r].op /\ req'[r].id = req[r].id
           /\ req'[r].from = req[r].from /\ req'[r].to = req[r].to
    BY <1>2 DEF SameRequest
  <2>rest. ASSUME req'[r].at \in {"reply", "failed"}
           PROVE  HandlerOK(r)'
    BY <2>rest, <1>2, <1>ok, <2>same DEF HandlerOK, At
  <2>1. CASE RefuseLike(r) \/ RefuseSecondLike(r) \/ RefusePass(r) \/ ResolveWithoutMatch(r)
             \/ OpenChat(r) \/ CloseChat(r)
    <3>1. req'[r].at \in {"reply", "failed"}
      BY <2>1, <1>goto, <1>answer
      DEF RefuseLike, RefuseSecondLike, RefusePass, ResolveWithoutMatch, OpenChat, CloseChat
    <3> QED
      BY <3>1, <2>rest
  <2>2. CASE ReadLikes(r) \/ ReadPasses(r)
    <3>1. \/ At(r, "read_likes") /\ req'[r].at = "read_passes"
          \/ At(r, "read_passes") /\ req'[r].at = IF req[r].op = "like" THEN "read_blocks"
                                                                       ELSE "insert_pass"
      BY <2>2, <1>req DEF ReadLikes, ReadPasses, RequestState
    <3>2. passes' = passes
      BY <2>2 DEF ReadLikes, ReadPasses, tables
    <3> QED
      BY <1>2, <1>ok, <2>same, <3>1, <3>2 DEF HandlerOK, At
  <2>3. CASE RecordLike(r) \/ FindLivePass(r)
    <3>1. /\ req'[r].at \in {"find_live_pass", "insert_like"}
          /\ req[r].at \in {"read_blocks", "find_live_pass"}
      BY ZenonT(60), <2>3, <1>req DEF RecordLike, FindLivePass, RequestState, At
    <3> QED
      BY <1>2, <1>ok, <2>same, <3>1 DEF HandlerOK, At
  <2>4. CASE InsertLike(r) \/ SupersedeOwnPass(r) \/ SupersedePassByPair(r)
    <3>1. /\ req'[r].at \in {"failed", "supersede_own", "supersede_pair", "resolve"}
          /\ req[r].at \in {"insert_like", "supersede_own", "supersede_pair"}
          /\ req'[r].livePass = req[r].livePass
      BY <2>4, <1>goto
      DEF InsertLike, SupersedeOwnPass, SupersedePassByPair, AfterAppend, At
    <3>2. req'[r].at = "supersede_own" => req[r].livePass \in PassIds
      BY <2>4, <1>goto, <1>req
      DEF InsertLike, SupersedeOwnPass, SupersedePassByPair, AfterAppend, RequestState
    <3> QED
      BY <1>2, <1>ok, <2>same, <3>1, <3>2 DEF HandlerOK, At
  <2>5. CASE UpsertMatch(r) \/ InsertPass(r)
    <3>1. req'[r].at \in {"failed", "reply", "mark_likes"}
          /\ (req'[r].at = "mark_likes" => req'[r].todo # <<>>)
      BY <2>5, <1>goto, <1>mark DEF UpsertMatch, InsertPass
    <3> QED
      BY <1>2, <1>ok, <2>same, <3>1 DEF HandlerOK, At
  <2>6. CASE MarkLike(r)
    <3> DEFINE next == After(req[r].op, "mark_likes")
               place == IF Tail(req[r].todo) # <<>> THEN "mark_likes" ELSE next
    <3>1. req'[r].at = place /\ req'[r].todo = Tail(req[r].todo)
      BY <2>6, <1>req DEF MarkLike, RequestState
    <3>2. /\ req[r].op = "pass" => next = "reply"
          /\ req[r].op = "like" => next = "open_chat"
          /\ req[r].op \in {"block", "unmatch"} => next = "close_chat"
      BY DEF After
    <3>3. req[r].op \in {"like", "pass", "block", "unmatch"}
      BY <1>req DEF RequestState, Ops
    <3> HIDE DEF next
    <3>4. \/ place \in {"mark_likes", "reply"}
          \/ place = "open_chat" /\ req[r].op = "like"
          \/ place = "close_chat" /\ req[r].op \in {"block", "unmatch"}
      BY <3>2, <3>3
    <3>5. place = "mark_likes" => Tail(req[r].todo) # <<>>
      BY <3>2, <3>3
    <3> HIDE DEF place
    <3> QED
      BY <1>2, <1>ok, <2>same, <3>1, <3>4, <3>5 DEF HandlerOK, At
  <2>7. CASE InsertBlock(r)
    <3>1. At(r, "insert_block") /\ req'[r].at \in {"find_match", "reply"}
      BY <2>7, <1>goto, <1>answer DEF InsertBlock
    <3> QED
      BY <1>2, <1>ok, <2>same, <3>1 DEF HandlerOK, At
  <2>8. CASE FindMatch(r)
    <3> DEFINE match == Seen(matches, r)[PairOf(r)]
               q == [req[r] EXCEPT !.todo = match.likeIds,
                                   !.at = After(req[r].op, "find_match")]
    <3>1. CASE match = None
      BY <2>8, <3>1, <1>answer, <2>rest DEF FindMatch
    <3>2. CASE match # None /\ (Len(match.likeIds) # 2 \/ match.end # "open")
      BY <2>8, <3>2, <1>answer, <1>goto, <2>rest DEF FindMatch
    <3>3. CASE match # None /\ Len(match.likeIds) = 2 /\ match.end = "open"
      <4>1. req' = [req EXCEPT ![r] = q]
        BY <2>8, <3>3, Zenon DEF FindMatch
      <4>2. req'[r].at = After(req[r].op, "find_match") /\ req'[r].todo = match.likeIds
        BY <4>1, <1>req DEF RequestState
      <4>3. req[r].op \in {"block", "unmatch"} /\ req'[r].at = "end_match"
        BY <2>8, <1>ok, <4>2 DEF HandlerOK, FindMatch, At, After
      <4>4. match.likeIds # <<>>
        <5> HIDE DEF match
        <5>1. Len(match.likeIds) = 2
          BY <3>3
        <5> HIDE <3>3
        <5>2. match.likeIds = <<>> => Len(match.likeIds) = 0
          OBVIOUS
        <5> QED
          BY <5>1, <5>2
      <4>5. matches' = matches /\ PairOf(r)' = PairOf(r)
        BY <2>8, <2>same DEF FindMatch, tables, PairOf
      <4>6. (Seen(matches, r)[PairOf(r)])' = match
        BY <4>5 DEF Seen
      <4> HIDE DEF match
      <4> QED
        BY <1>2, <1>ok, <2>same, <3>3, <4>2, <4>3, <4>4, <4>6 DEF HandlerOK, At
    <3> QED
      BY <3>1, <3>2, <3>3
  <2>9. CASE EndMatch(r)
    <3>1. req'[r].todo = req[r].todo /\ req'[r].at = "mark_likes" /\ At(r, "end_match")
      BY <2>9, <1>ok, <1>goto DEF EndMatch, After, HandlerOK, At
    <3> QED
      BY <1>2, <1>ok, <2>same, <3>1 DEF HandlerOK, At
  <2> QED
    BY <1>2, <1>3, <2>1, <2>2, <2>3, <2>4, <2>5, <2>6, <2>7, <2>8, <2>9 DEF Acts, Step
<1>4. ~At(r, "idle") \/ Start(r)
  BY DEF Acts, Step, Crash, At, ReadLikes, ReadPasses, RefuseLike, RefuseSecondLike,
     RecordLike, FindLivePass, InsertLike, SupersedeOwnPass, SupersedePassByPair,
     ResolveWithoutMatch, UpsertMatch, MarkLike, OpenChat, RefusePass, InsertPass,
     InsertBlock, FindMatch, EndMatch, CloseChat, CommitRequest, Throw
<1> QED
  BY <1>1, <1>2, <1>4, <1>idle, OwnStep

-----------------------------------------------------------------------------
(* Typing, for every number of users, ids and requests *)

LEMMA TypeInvStep == TypeInv /\ [Next]_vars => TypeInv'
<1> SUFFICES ASSUME TypeInv, [Next]_vars PROVE TypeInv'
  OBVIOUS
<1>1. CASE UNCHANGED vars
  BY <1>1 DEF vars, TypeInv, TypeOK, RowsKept, HandlerOK, PassIdsDiffer, At, PairOf
<1>2. ASSUME NEW r \in Requests, Acts(r) PROVE TypeInv'
  <2>1. TypeOK'
    BY <1>2, TableTypeStep, RequestTypeStep DEF TypeOK
  <2>2. RowsKept'
    BY <1>2, LikeRowStep, PassRowStep, MatchRowStep DEF RowsKept
  <2>3. \A q \in Requests : HandlerOK(q)'
    BY <1>2, OwnHandlerStep, OtherHandlerStep
  <2> QED
    BY <1>2, <2>1, <2>2, <2>3, PassIdsStep DEF TypeInv
<1>3. ASSUME NEW p \in PassIds, ExpirePass(p) PROVE TypeInv'
  <2>1. UNCHANGED <<likes, blocks, matches, chats, req>>
    BY <1>3 DEF ExpirePass
  <2>2. TypeOK'
    BY <1>3, <2>1, ExpireStep DEF TypeInv, TypeOK
  <2>3. RowsKept'
    BY <1>3, <2>1, ExpireStep DEF TypeInv, RowsKept
  <2>4. \A q \in Requests : HandlerOK(q)'
    BY <1>3, <2>1, ExpireStep DEF TypeInv, HandlerOK, PairOf
  <2> QED
    BY <2>1, <2>2, <2>3, <2>4 DEF TypeInv, PassIdsDiffer
<1> QED
  BY <1>1, <1>2, <1>3 DEF Next, Acts

LEMMA TypeInvAlways == Spec => []TypeInv
  BY InitTypeInv, TypeInvStep, PTL DEF Spec

(* Every row and every handler's values are of their types, however requests *)
(* interleave, throw or are lost.                                            *)
THEOREM TypeSafety == Spec => []TypeOK
<1>1. TypeInv => TypeOK
  BY DEF TypeInv
<1> QED
  BY <1>1, TypeInvAlways, PTL

(* Likes, passes and matches only move forward: no step, commit, rollback or *)
(* crash takes a committed one away, changes its parties, or revives it.     *)
THEOREM NothingEverUnhappens == Spec => NothingUnhappens
<1>1. TypeInv /\ [Next]_vars => [HistoryKept]_vars
  <2> SUFFICES ASSUME TypeInv, Next PROVE HistoryKept
    OBVIOUS
  <2>type. TypeOK /\ TypeInv'
    BY TypeInvStep DEF TypeInv
  <2> DEFINE kept == /\ \A id \in LikeIds : LikeKept(likes[id].row, likes'[id].row)
                     /\ \A p \in PassIds : PassKept(passes[p].row, passes'[p].row)
                     /\ \A p \in Pairs : MatchKept(matches[p].row, matches'[p].row)
  <2>1. kept
    <3>1. ASSUME NEW r \in Requests, Acts(r) PROVE kept
      BY <3>1, LikeRowStep, PassRowStep, MatchRowStep
    <3>2. ASSUME NEW p \in PassIds, ExpirePass(p) PROVE kept
      BY <3>2, ExpireStep, KeptReflexive DEF ExpirePass
    <3> QED
      BY <3>1, <3>2 DEF Next, Acts
  <2>2. /\ \A id \in LikeIds : Like[id] = likes[id].row /\ Like'[id] = likes'[id].row
        /\ \A p \in PassIds : Pass[p] = passes[p].row /\ Pass'[p] = passes'[p].row
        /\ \A p \in Pairs : Match[p] = matches[p].row /\ Match'[p] = matches'[p].row
    BY <2>type DEF TypeInv, TypeOK, Like, Pass, Match, Stored
  <2> QED
    BY <2>1, <2>2 DEF HistoryKept, LikeKept, PassKept, MatchKept
<1> QED
  BY <1>1, TypeInvAlways, PTL DEF Spec, NothingUnhappens

-----------------------------------------------------------------------------
(* One current like in each direction *)

(* OneCurrentLike is not inductive: what a transaction has not committed yet *)
(* could break it.  The index counts a row's uncommitted version too, and a  *)
(* handler that is about to insert has written no like before.               *)
CouldBeCurrent(id, a, b) ==
    \E row \in {likes[id].row, likes[id].next} : IsCurrentLike(row) /\ Directed(row, a, b)

Reading == {"idle", "read_likes", "read_passes", "read_blocks", "find_live_pass", "insert_like"}

IndexInv ==
    /\ \A i, j \in LikeIds : \A a, b \in Users :
          CouldBeCurrent(i, a, b) /\ CouldBeCurrent(j, a, b) => i = j
    /\ \A id \in LikeIds : likes[id].by = None => likes[id].row = likes[id].next
    /\ \A r \in Requests : req[r].at \in Reading => \A id \in LikeIds : likes[id].by # r

LEMMA InitIndexInv == Init => IndexInv
  BY NoneAssumption DEF Init, IndexInv, CouldBeCurrent, IsCurrentLike, Settled

(* Where a handler reads, it came by reading, and wrote no like on the way.  *)
LEMMA ReadingStep ==
    ASSUME TypeInv, NEW r \in Requests, Acts(r), req'[r].at \in Reading
    PROVE  \/ req'[r] = Idle /\ likes' \in {Commit(likes, r), Rollback(likes, r)}
           \/ req[r].at \in Reading /\ UNCHANGED likes
<1>req. req \in [Requests -> RequestState] /\ req[r] \in RequestState
  BY DEF TypeInv, TypeOK
<1>goto. \A place : Goto(r, place) => req'[r].at = place
  BY <1>req DEF Goto, RequestState
<1>mark. \A ids, reply : Mark(r, ids, reply) => req'[r].at \in {"reply", "mark_likes"}
  BY <1>req DEF Mark, Forgetting, RequestState
<1>answer. \A reply : Answer(r, reply) => req'[r].at = "reply"
  BY <1>req DEF Answer, Mark, Forgetting, RequestState
<1>1. CASE Start(r) \/ ReadLikes(r) \/ ReadPasses(r) \/ RecordLike(r) \/ FindLivePass(r)
  <2>1. UNCHANGED likes
    BY <1>1 DEF Start, Begin, BeginLike, BeginPass, BeginBlock, BeginUnmatch, ReadLikes,
                ReadPasses, RecordLike, FindLivePass, tables
  <2>2. req[r].at \in {"idle", "read_likes", "read_passes", "read_blocks", "find_live_pass"}
    BY <1>1 DEF Start, Begin, BeginLike, BeginPass, BeginBlock, BeginUnmatch, ReadLikes,
                ReadPasses, RecordLike, FindLivePass, At
  <2> QED
    BY <2>1, <2>2 DEF Reading
<1>2. CASE CommitRequest(r) \/ Throw(r) \/ Crash(r)
  BY <1>2, <1>req DEF CommitRequest, Throw, Crash, RollbackRequest
<1>3. CASE \/ RefuseLike(r) \/ RefuseSecondLike(r) \/ RefusePass(r) \/ ResolveWithoutMatch(r)
           \/ OpenChat(r) \/ CloseChat(r) \/ InsertLike(r) \/ SupersedeOwnPass(r)
           \/ SupersedePassByPair(r) \/ UpsertMatch(r) \/ InsertPass(r) \/ InsertBlock(r)
  <2>1. req'[r].at \notin Reading
    BY <1>3, <1>goto, <1>mark, <1>answer
    DEF RefuseLike, RefuseSecondLike, RefusePass, ResolveWithoutMatch, OpenChat, CloseChat,
        InsertLike, SupersedeOwnPass, SupersedePassByPair, AfterAppend, UpsertMatch,
        InsertPass, InsertBlock, Reading
  <2> QED
    BY <2>1
<1>4. CASE MarkLike(r) \/ FindMatch(r) \/ EndMatch(r)
  <2>1. \A place \in {"find_match", "end_match", "mark_likes"} :
          place = "mark_likes" \/ req[r].op \in {"block", "unmatch"}
            => After(req[r].op, place) \notin Reading
    BY <1>req DEF After, Reading, RequestState, Ops
  <2>2. /\ At(r, "find_match") \/ At(r, "end_match") => req[r].op \in {"block", "unmatch"}
        /\ "mark_likes" \notin Reading /\ "failed" \notin Reading /\ "reply" \notin Reading
    BY DEF TypeInv, HandlerOK, At, Reading
  <2>3. CASE MarkLike(r)
    <3>1. req'[r].at \in {"mark_likes", After(req[r].op, "mark_likes")}
      BY <2>3, <1>req DEF MarkLike, RequestState
    <3> QED
      BY <2>1, <2>2, <3>1
  <2>4. CASE FindMatch(r)
    <3>1. req'[r].at \in {"failed", "reply", After(req[r].op, "find_match")}
      BY ZenonT(60), <2>4, <1>req, <1>goto, <1>answer DEF FindMatch, RequestState
    <3> QED
      BY <2>1, <2>2, <2>4, <3>1 DEF FindMatch
  <2>5. CASE EndMatch(r)
    BY <2>1, <2>2, <2>5, <1>goto DEF EndMatch
  <2> QED
    BY <1>4, <2>3, <2>4, <2>5
<1> QED
  BY <1>1, <1>2, <1>3, <1>4 DEF Acts, Step

(* A like that could be current after a step could be so before it, or is    *)
(* the one just inserted, which had no rival.                                *)
LEMMA CurrentStep ==
    ASSUME TypeInv, IndexInv, NEW r \in Requests, Acts(r)
    PROVE  \A i, j \in LikeIds : \A a, b \in Users :
              (CouldBeCurrent(i, a, b) /\ CouldBeCurrent(j, a, b))' => i = j
<1>type. /\ likes \in [LikeIds -> Versions(Likes, Requests)]
         /\ Seen(likes, r) \in [LikeIds -> Likes]
         /\ req[r] \in RequestState
  BY ReadType DEF TypeInv, TypeOK
<1> SUFFICES \/ \A id \in LikeIds : \A a, b \in Users :
                  CouldBeCurrent(id, a, b)' => CouldBeCurrent(id, a, b)
             \/ \E id \in LikeIds :
                  /\ \A k \in LikeIds \ {id} : likes'[k] = likes[k]
                  /\ \A a, b \in Users : CouldBeCurrent(id, a, b)' =>
                       \A k \in LikeIds \ {id} : ~CouldBeCurrent(k, a, b)
  BY DEF IndexInv, CouldBeCurrent
<1>1. CASE InsertLike(r)
  <2> DEFINE q == req[r]
             row == [from |-> q.from, to |-> q.to, state |-> "live",
                     superseded |-> q.livePass]
  <2>1. CASE UNCHANGED likes
    BY <2>1 DEF CouldBeCurrent
  <2>2. CASE ~UNCHANGED likes
    <3>1. /\ q.id \in LikeIds
          /\ Seen(likes, r)[q.id] = None
          /\ CurrentLikeBetween(Seen(likes, r), q.from, q.to) = None
          /\ likes' = Put(likes, q.id, r, row)
          /\ LikeRivals(r) = {}
      BY <1>1, <2>2 DEF InsertLike, TypeInv, HandlerOK, At
    <3>2. \A k \in LikeIds : likes[k].by # r
      BY <1>1 DEF IndexInv, InsertLike, At, Reading
    <3>3. likes[q.id].row = None
      BY <1>type, <3>1, <3>2 DEF Seen
    <3>4. \A k \in LikeIds \ {q.id} : likes'[k] = likes[k]
      BY <1>type, <3>1 DEF Put
    <3>5. ASSUME NEW k \in LikeIds \ {q.id}, CouldBeCurrent(k, q.from, q.to)
          PROVE  FALSE
      <4>1. FreeFor(likes, k, r)
        BY <3>1, <3>5 DEF LikeRivals, CouldBeCurrent
      <4>2. likes[k].by = None /\ likes[k].row = likes[k].next
        BY <3>2, <4>1 DEF FreeFor, IndexInv
      <4>3. IsCurrentLike(Seen(likes, r)[k]) /\ Directed(Seen(likes, r)[k], q.from, q.to)
        BY <1>type, <3>2, <3>5, <4>2 DEF Seen, CouldBeCurrent
      <4> DEFINE found == {n \in LikeIds : /\ IsCurrentLike(Seen(likes, r)[n])
                                           /\ Directed(Seen(likes, r)[n], q.from, q.to)}
      <4>4. k \in found
        BY <4>3
      <4>5. CurrentLikeBetween(Seen(likes, r), q.from, q.to) = CHOOSE n \in found : TRUE
        BY <4>4 DEF CurrentLikeBetween
      <4>6. (CHOOSE n \in found : TRUE) \in found
        BY <4>4
      <4>7. CurrentLikeBetween(Seen(likes, r), q.from, q.to) \in LikeIds
        BY <4>5, <4>6
      <4> QED
        BY <3>1, <4>7, NoneAssumption
    <3> PICK n \in LikeIds : n = q.id
      BY <3>1
    <3>6. ASSUME NEW a \in Users, NEW b \in Users, CouldBeCurrent(n, a, b)'
          PROVE  a = q.from /\ b = q.to
      <4>1. likes'[n].row = None /\ likes'[n].next = row
        BY <1>type, <3>1, <3>3 DEF Put
      <4>2. row.from = q.from /\ row.to = q.to
        OBVIOUS
      <4> HIDE DEF row, q
      <4> QED
        BY <3>6, <4>1, <4>2 DEF CouldBeCurrent, IsCurrentLike, Directed
    <3>7. \A k \in LikeIds \ {n} : likes'[k] = likes[k]
      BY <3>4
    <3>8. \A a, b \in Users : CouldBeCurrent(n, a, b)' =>
             \A k \in LikeIds \ {n} : ~CouldBeCurrent(k, a, b)
      BY <3>5, <3>6
    <3> HIDE DEF q, row
    <3> QED
      BY <3>7, <3>8
  <2> QED
    BY <2>1, <2>2
<1>2. CASE MarkLike(r)
  <2> DEFINE id == Head(req[r].todo)
             row == Seen(likes, r)[id]
             state == IF req[r].op = "like" THEN "matched" ELSE "withdrawn"
             moved == [row EXCEPT !.state = state]
  <2>1. id \in LikeIds
    BY <1>2, <1>type DEF MarkLike, At, TypeInv, HandlerOK, RequestState
  <2>2. CASE UNCHANGED likes
    BY <2>2 DEF CouldBeCurrent
  <2>3. CASE Movable(row, state) /\ likes' = Put(likes, id, r, moved)
    <3>1. row \in LikeRow
      BY <1>type, <2>1, <2>3 DEF Movable, IsCurrentLike, Likes
    <3>2. row \in {likes[id].row, likes[id].next}
      BY <1>type, <2>1 DEF Seen
    <3>3. /\ moved.from = row.from /\ moved.to = row.to /\ moved.state = state
          /\ row.state = "withdrawn" => state = "withdrawn"
      BY <2>3, <3>1 DEF LikeRow, Movable, IsCurrentLike
    <3>4. likes'[id].row = likes[id].row /\ likes'[id].next = moved
          /\ \A k \in LikeIds \ {id} : likes'[k] = likes[k]
      BY <1>type, <2>1, <2>3 DEF Put
    <3>5. row # None /\ row.state \in {"live", "matched", "withdrawn"}
      BY <3>1, RowAssumption DEF LikeRow
    <3> HIDE DEF id, row, state, moved
    <3> SUFFICES ASSUME NEW n \in LikeIds, NEW a \in Users, NEW b \in Users,
                        CouldBeCurrent(n, a, b)'
                 PROVE  CouldBeCurrent(n, a, b)
      OBVIOUS
    <3>6. CASE n # id
      BY <3>4, <3>6 DEF CouldBeCurrent
    <3>7. CASE n = id
      <4>1. PICK new \in {likes'[n].row, likes'[n].next} :
                   IsCurrentLike(new) /\ Directed(new, a, b)
        BY DEF CouldBeCurrent
      <4>2. CASE new = likes[n].row
        BY <4>1, <4>2 DEF CouldBeCurrent
      <4>3. CASE new = moved
        <5>1. state # "withdrawn" /\ moved.from = a /\ moved.to = b
          BY <3>3, <4>1, <4>3 DEF IsCurrentLike, Directed
        <5>2. IsCurrentLike(row) /\ Directed(row, a, b)
          BY <3>3, <3>5, <5>1 DEF IsCurrentLike, Directed
        <5> QED
          BY <3>2, <3>7, <5>2 DEF CouldBeCurrent
      <4> QED
        BY <3>4, <3>7, <4>1, <4>2, <4>3
    <3> QED
      BY <3>6, <3>7
  <2> QED
    BY <1>2, <2>2, <2>3 DEF MarkLike
<1>3. CASE likes' = Commit(likes, r) \/ likes' = Rollback(likes, r)
  <2>1. \A id \in LikeIds : \/ likes'[id] = likes[id]
                            \/ likes'[id] = Settled(likes[id].row)
                            \/ likes'[id] = Settled(likes[id].next)
    BY <1>type, <1>3 DEF Commit, Rollback
  <2>2. ASSUME NEW id \in LikeIds
        PROVE  {likes'[id].row, likes'[id].next} \subseteq {likes[id].row, likes[id].next}
    <3>1. CASE likes'[id] = likes[id]
      BY <3>1
    <3>2. CASE likes'[id] = Settled(likes[id].row)
      BY <3>2 DEF Settled
    <3>3. CASE likes'[id] = Settled(likes[id].next)
      BY <3>3 DEF Settled
    <3> QED
      BY <2>1, <3>1, <3>2, <3>3
  <2> QED
    BY <2>2 DEF CouldBeCurrent
<1>4. CASE UNCHANGED likes
  BY <1>4 DEF CouldBeCurrent
<1>5. ASSUME ~InsertLike(r), ~MarkLike(r)
      PROVE  UNCHANGED likes \/ likes' = Commit(likes, r) \/ likes' = Rollback(likes, r)
  BY <1>5 DEF Acts, Start, Step, Begin, BeginLike, BeginPass, BeginBlock, BeginUnmatch,
     ReadLikes, ReadPasses, RefuseLike, RefuseSecondLike, RecordLike, FindLivePass,
     SupersedeOwnPass, SupersedePassByPair, ResolveWithoutMatch, UpsertMatch, OpenChat,
     RefusePass, InsertPass, InsertBlock, FindMatch, EndMatch, CloseChat, CommitRequest,
     Throw, Crash, RollbackRequest, tables
<1> QED
  BY <1>1, <1>2, <1>3, <1>4, <1>5

LEMMA IndexInvStep == TypeInv /\ IndexInv /\ [Next]_vars => IndexInv'
<1> SUFFICES ASSUME TypeInv, IndexInv, [Next]_vars PROVE IndexInv'
  OBVIOUS
<1>1. CASE UNCHANGED <<likes, req>>
  BY <1>1 DEF IndexInv, CouldBeCurrent
<1>2. ASSUME NEW r \in Requests, Acts(r) PROVE IndexInv'
  <2>type. likes \in [LikeIds -> Versions(Likes, Requests)] /\ r # None
    BY NoneAssumption DEF TypeInv, TypeOK
  <2>1. ASSUME NEW id \in LikeIds
        PROVE  \/ likes'[id] = likes[id]
               \/ /\ likes'[id].by = None /\ likes'[id].row = likes'[id].next
                  /\ likes[id].by = r
               \/ likes'[id].by = r
    BY <1>2, <2>type, LikeWrites DEF WritesLike, Put, Commit, Rollback, Settled
  <2>2. ASSUME NEW q \in Requests, req'[q].at \in Reading, NEW id \in LikeIds
        PROVE  likes'[id].by # q
    <3>1. CASE q # r
      BY <1>2, <2>1, <2>2, <3>1, OwnStep, NoneAssumption DEF IndexInv
    <3>2. CASE q = r
      <4>1. CASE req[r].at \in Reading /\ UNCHANGED likes
        BY <3>2, <4>1 DEF IndexInv
      <4>2. CASE likes' \in {Commit(likes, r), Rollback(likes, r)}
        BY <2>type, <3>2, <4>2 DEF Commit, Rollback, Settled
      <4> QED
        BY <1>2, <2>2, <3>2, <4>1, <4>2, ReadingStep
    <3> QED
      BY <3>1, <3>2
  <2>3. \A id \in LikeIds : likes'[id].by = None => likes'[id].row = likes'[id].next
    BY <2>type, <2>1 DEF IndexInv
  <2> QED
    BY <1>2, <2>2, <2>3, CurrentStep DEF IndexInv
<1>3. ASSUME NEW p \in PassIds, ExpirePass(p) PROVE UNCHANGED <<likes, req>>
  BY <1>3 DEF ExpirePass
<1> QED
  BY <1>1, <1>2, <1>3 DEF Next, Acts, vars

(* However requests of one user interleave, and whatever ids they bring, no  *)
(* two committed likes from that user to another are both current.           *)
THEOREM AlwaysOneCurrentLike == Spec => []OneCurrentLike
<1>1. TypeInv /\ IndexInv => OneCurrentLike
  <2> SUFFICES ASSUME TypeInv, IndexInv,
                      NEW i \in LikeIds, NEW j \in LikeIds,
                      IsCurrentLike(Like[i]), IsCurrentLike(Like[j]),
                      Like[i].from = Like[j].from, Like[i].to = Like[j].to
               PROVE  i = j
    BY DEF OneCurrentLike
  <2>1. likes \in [LikeIds -> Versions(Likes, Requests)]
    BY DEF TypeInv, TypeOK
  <2>2. Like[i] = likes[i].row /\ Like[j] = likes[j].row
    BY <2>1 DEF Like, Stored
  <2>3. Like[i] \in LikeRow /\ Like[j] \in LikeRow
    BY <2>1, <2>2 DEF Versions, Likes, IsCurrentLike
  <2>4. Like[i].from \in Users /\ Like[i].to \in Users
    BY <2>3 DEF LikeRow
  <2>5. /\ CouldBeCurrent(i, Like[i].from, Like[i].to)
        /\ CouldBeCurrent(j, Like[i].from, Like[i].to)
    BY <2>2 DEF CouldBeCurrent, IsCurrentLike, Directed
  <2> QED
    BY <2>4, <2>5 DEF IndexInv
<1>2. TypeInv /\ IndexInv /\ [Next]_vars => (TypeInv /\ IndexInv)'
  BY TypeInvStep, IndexInvStep
<1> QED
  BY <1>1, <1>2, InitTypeInv, InitIndexInv, PTL DEF Spec

-----------------------------------------------------------------------------
(* Views *)

(* What a request does to a table: nothing, one write of a row it may write, *)
(* or the end of its transaction.                                            *)
Touched(table, new, r) ==
    \/ new = table
    \/ new = Commit(table, r)
    \/ new = Rollback(table, r)
    \/ \E k \in DOMAIN table : \E row : FreeFor(table, k, r) /\ new = Put(table, k, r, row)

(* No request disturbs what another has written and not yet committed.       *)
LEMMA OthersKeepTheirWrites ==
    ASSUME NEW K, NEW Rows, NEW table \in [K -> Versions(Rows, Requests)], NEW new,
           NEW r \in Requests, Touched(table, new, r),
           NEW q \in Requests \ {r}, NEW k \in K, table[k].by = q \/ new[k].by = q
    PROVE  new[k] = table[k]
  BY NoneAssumption DEF Touched, Commit, Rollback, Put, FreeFor, Settled

(* A commit stores what the transaction saw and leaves nothing held; a       *)
(* rollback leaves what is stored.                                           *)
LEMMA CommitStores ==
    ASSUME NEW K, NEW Rows, NEW table \in [K -> Versions(Rows, Requests)],
           NEW r \in Requests, NEW k \in K
    PROVE  /\ Commit(table, r)[k].row = Seen(table, r)[k]
           /\ Rollback(table, r)[k].row = table[k].row
           /\ Commit(table, r)[k].by # r /\ Rollback(table, r)[k].by # r
  BY NoneAssumption DEF Commit, Rollback, Seen, Settled, Versions

(* A transaction sees what it wrote.                                         *)
LEMMA PutSeen ==
    ASSUME NEW K, NEW Rows, NEW table \in [K -> Versions(Rows, Requests)],
           NEW r \in Requests, NEW row, NEW key \in K
    PROVE  /\ Seen(Put(table, key, r, row), r)[key] = row
           /\ \A k \in K \ {key} : Seen(Put(table, key, r, row), r)[k] = Seen(table, r)[k]
           /\ \A k \in K : Put(table, key, r, row)[k].row = table[k].row
  BY DEF Put, Seen, Versions

LEMMA TablesTouched ==
    ASSUME TypeInv, NEW r \in Requests, Acts(r)
    PROVE  /\ Touched(likes, likes', r) /\ Touched(passes, passes', r)
           /\ Touched(blocks, blocks', r) /\ Touched(matches, matches', r)
           /\ Touched(chats, chats', r)
<1>type. TypeOK
  BY DEF TypeInv
<1>pair. ~At(r, "idle") => PairOf(r) \in Pairs
  BY ReadType
<1>1. Touched(likes, likes', r)
  BY <1>type, LikeWrites DEF TypeOK, Touched, WritesLike
<1>2. Touched(passes, passes', r)
  BY <1>type, PassWrites DEF TypeOK, Touched, WritesPass
<1>3. Touched(matches, matches', r)
  BY <1>type, MatchWrites DEF TypeOK, Touched, WritesMatch
<1>4. Touched(blocks, blocks', r)
  <2>1. CASE InsertBlock(r)
    BY <1>type, <1>pair, <2>1 DEF InsertBlock, At, TypeOK, Touched
  <2>2. CASE Ends(r)
    BY <2>2 DEF Ends, CommitRequest, Throw, Crash, RollbackRequest, Touched
  <2>3. ASSUME ~InsertBlock(r), ~Ends(r)
        PROVE  UNCHANGED blocks
    BY <2>3 DEF Acts, Start, Step, Begin, BeginLike, BeginPass, BeginBlock, BeginUnmatch,
       ReadLikes, ReadPasses, RefuseLike, RefuseSecondLike, RecordLike, FindLivePass,
       InsertLike, SupersedeOwnPass, SupersedePassByPair, ResolveWithoutMatch, UpsertMatch,
       MarkLike, OpenChat, RefusePass, InsertPass, FindMatch, EndMatch, CloseChat, tables,
       Ends
  <2> QED
    BY <2>1, <2>2, <2>3 DEF Touched
<1>5. Touched(chats, chats', r)
  <2>1. CASE OpenChat(r) \/ CloseChat(r)
    BY <1>type, <1>pair, <2>1 DEF OpenChat, CloseChat, At, TypeOK, Touched
  <2>2. CASE Ends(r)
    BY <2>2 DEF Ends, CommitRequest, Throw, Crash, RollbackRequest, Touched
  <2>3. ASSUME ~OpenChat(r), ~CloseChat(r), ~Ends(r)
        PROVE  UNCHANGED chats
    BY <2>3 DEF Acts, Start, Step, Begin, BeginLike, BeginPass, BeginBlock, BeginUnmatch,
       ReadLikes, ReadPasses, RefuseLike, RefuseSecondLike, RecordLike, FindLivePass,
       InsertLike, SupersedeOwnPass, SupersedePassByPair, ResolveWithoutMatch, UpsertMatch,
       MarkLike, RefusePass, InsertPass, InsertBlock, FindMatch, EndMatch, tables, Ends
  <2> QED
    BY <2>1, <2>2, <2>3 DEF Touched
<1> QED
  BY <1>1, <1>2, <1>3, <1>4, <1>5

(* The end of a transaction leaves its request idle and nothing held by it;  *)
(* what it stores is what it saw, or what was stored.                        *)
LEMMA EndStep ==
    ASSUME TypeInv, NEW r \in Requests, Ends(r)
    PROVE  /\ req'[r] = Idle
           /\ \/ At(r, "reply") /\ likes' = Commit(likes, r) /\ passes' = Commit(passes, r)
                 /\ blocks' = Commit(blocks, r) /\ matches' = Commit(matches, r)
                 /\ chats' = Commit(chats, r)
              \/ likes' = Rollback(likes, r) /\ passes' = Rollback(passes, r)
                 /\ blocks' = Rollback(blocks, r) /\ matches' = Rollback(matches, r)
                 /\ chats' = Rollback(chats, r)
  BY DEF TypeInv, TypeOK, Ends, CommitRequest, Throw, Crash, RollbackRequest

LEMMA OthersVersions ==
    ASSUME TypeInv, NEW r \in Requests, Acts(r), NEW q \in Requests \ {r}
    PROVE  /\ \A id \in LikeIds : likes[id].by = q \/ likes'[id].by = q => likes'[id] = likes[id]
           /\ \A p \in PassIds : passes[p].by = q \/ passes'[p].by = q => passes'[p] = passes[p]
           /\ \A p \in Pairs : blocks[p].by = q \/ blocks'[p].by = q => blocks'[p] = blocks[p]
           /\ \A p \in Pairs : matches[p].by = q \/ matches'[p].by = q => matches'[p] = matches[p]
           /\ \A p \in Pairs : chats[p].by = q \/ chats'[p].by = q => chats'[p] = chats[p]
<1>1. /\ likes \in [LikeIds -> Versions(Likes, Requests)]
      /\ passes \in [PassIds -> Versions(Passes, Requests)]
      /\ blocks \in [Pairs -> Versions(Users \cup {None}, Requests)]
      /\ matches \in [Pairs -> Versions(MatchRow \cup {None}, Requests)]
      /\ chats \in [Pairs -> Versions(ChatStates \cup {None}, Requests)]
  BY DEF TypeInv, TypeOK
<1>2. \A id \in LikeIds : likes[id].by = q \/ likes'[id].by = q => likes'[id] = likes[id]
  BY <1>1, TablesTouched, OthersKeepTheirWrites
<1>3. \A p \in PassIds : passes[p].by = q \/ passes'[p].by = q => passes'[p] = passes[p]
  BY <1>1, TablesTouched, OthersKeepTheirWrites
<1>4. \A p \in Pairs : blocks[p].by = q \/ blocks'[p].by = q => blocks'[p] = blocks[p]
  BY <1>1, TablesTouched, OthersKeepTheirWrites
<1>5. \A p \in Pairs : matches[p].by = q \/ matches'[p].by = q => matches'[p] = matches[p]
  BY <1>1, TablesTouched, OthersKeepTheirWrites
<1>6. \A p \in Pairs : chats[p].by = q \/ chats'[p].by = q => chats'[p] = chats[p]
  BY <1>1, TablesTouched, OthersKeepTheirWrites
<1> QED
  BY <1>2, <1>3, <1>4, <1>5, <1>6

(* What a request in progress sees moves only as rows move.                  *)
LEMMA SeenKept ==
    ASSUME TypeInv, NEW r \in Requests, Acts(r), NEW q \in Requests, q # r \/ ~Ends(r)
    PROVE  /\ \A id \in LikeIds : LikeKept(Seen(likes, q)[id], Seen(likes', q)[id])
           /\ \A p \in PassIds : PassKept(Seen(passes, q)[p], Seen(passes', q)[p])
           /\ \A p \in Pairs : MatchKept(Seen(matches, q)[p], Seen(matches', q)[p])
<1>type. /\ likes \in [LikeIds -> Versions(Likes, Requests)]
         /\ passes \in [PassIds -> Versions(Passes, Requests)]
         /\ matches \in [Pairs -> Versions(MatchRow \cup {None}, Requests)]
         /\ likes' \in [LikeIds -> Versions(Likes, Requests)]
         /\ passes' \in [PassIds -> Versions(Passes, Requests)]
         /\ matches' \in [Pairs -> Versions(MatchRow \cup {None}, Requests)]
  BY TableTypeStep DEF TypeInv, TypeOK
<1>1. CASE q # r
  <2>1. \A id \in LikeIds : LikeKept(Seen(likes, q)[id], Seen(likes', q)[id])
    BY <1>type, <1>1, OthersVersions, LikeRowStep, KeptReflexive DEF Seen
  <2>2. \A p \in PassIds : PassKept(Seen(passes, q)[p], Seen(passes', q)[p])
    BY <1>type, <1>1, OthersVersions, PassRowStep, KeptReflexive DEF Seen
  <2>3. \A p \in Pairs : MatchKept(Seen(matches, q)[p], Seen(matches', q)[p])
    BY <1>type, <1>1, OthersVersions, MatchRowStep, KeptReflexive DEF Seen
  <2> QED
    BY <2>1, <2>2, <2>3
<1>2. CASE q = r /\ ~Ends(r)
  <2>1. ASSUME NEW id \in LikeIds
        PROVE  LikeKept(Seen(likes, r)[id], Seen(likes', r)[id])
    BY <1>type, <1>2, LikeWrites, KeptReflexive, PutSeen DEF WritesLike
  <2>2. ASSUME NEW p \in PassIds
        PROVE  PassKept(Seen(passes, r)[p], Seen(passes', r)[p])
    BY <1>type, <1>2, PassWrites, KeptReflexive, PutSeen DEF WritesPass
  <2>3. ASSUME NEW p \in Pairs
        PROVE  MatchKept(Seen(matches, r)[p], Seen(matches', r)[p])
    BY <1>type, <1>2, MatchWrites, KeptReflexive, PutSeen DEF WritesMatch
  <2> QED
    BY <1>2, <2>1, <2>2, <2>3
<1> QED
  BY <1>1, <1>2

-----------------------------------------------------------------------------
(* A match is of two who liked each other *)

(* MatchIsMutual is not inductive: it must hold of what each transaction     *)
(* would commit, seen with that transaction's own likes, and a handler must  *)
(* have in hand the likes it is about to list and to mark.                   *)
Lists(match, id) == match # None /\ id \in Range(match.likeIds)

MutualIn(ledger, p, match) ==
    match # None => \A u \in p : \E id \in LikeIds :
                        Lists(match, id) /\ Directed(ledger[id], u, Opposite(p, u))

MarkedIn(ledger, id, like) ==
    like # None /\ like.state = "matched" =>
        {like.from, like.to} \in Pairs /\ Lists(ledger[{like.from, like.to}], id)

Own(r, row) == Directed(row, req[r].from, req[r].to)
Theirs(r, row) == Directed(row, req[r].to, req[r].from)

LikesInHand(r) ==
    /\ \A id \in LikeIds : req[r].likes[id] # None =>
          \/ Directed(Seen(likes, r)[id], req[r].likes[id].from, req[r].likes[id].to)
          \/ id = req[r].id /\ Own(r, req[r].likes[id])
    /\ req[r].at \in {"supersede_own", "supersede_pair", "resolve"} =>
          Own(r, Seen(likes, r)[req[r].id])
    /\ req[r].at = "mark_likes" /\ req[r].op = "like" =>
          \A id \in Range(req[r].todo) :
             /\ Lists(Seen(matches, r)[PairOf(r)], id)
             /\ Own(r, Seen(likes, r)[id]) \/ Theirs(r, Seen(likes, r)[id])

MatchInv ==
    /\ \A p \in Pairs : MutualIn(Stored(likes), p, matches[p].row)
    /\ \A r \in Requests, p \in Pairs :
          matches[p].by = r => MutualIn(Seen(likes, r), p, matches[p].next)
    /\ \A id \in LikeIds : MarkedIn(Stored(matches), id, likes[id].row)
    /\ \A r \in Requests, id \in LikeIds :
          likes[id].by = r => MarkedIn(Seen(matches, r), id, likes[id].next)
    /\ \A r \in Requests : LikesInHand(r)

LEMMA InitMatchInv == Init => MatchInv
<1> SUFFICES ASSUME Init PROVE MatchInv
  OBVIOUS
<1>1. \A r \in Requests : req[r] = Idle /\ req[r].likes = NoLikes /\ req[r].at = "idle"
  BY DEF Init, Idle, Starting
<1>2. \A r \in Requests : LikesInHand(r)
  BY <1>1 DEF LikesInHand, NoLikes
<1>3. \A p \in Pairs : matches[p].row = None /\ matches[p].by = None
  BY DEF Init, Settled
<1>4. \A id \in LikeIds : likes[id].row = None /\ likes[id].by = None
  BY DEF Init, Settled
<1> QED
  BY <1>2, <1>3, <1>4, NoneAssumption DEF MatchInv, MutualIn, MarkedIn

(* Both stay true as ledgers move on.                                        *)
LEMMA MutualKept ==
    ASSUME NEW old, NEW new, \A id \in LikeIds : LikeKept(old[id], new[id]),
           NEW p, NEW match, MutualIn(old, p, match)
    PROVE  MutualIn(new, p, match)
  BY DEF MutualIn, LikeKept, Directed, Lists

LEMMA MarkedKept ==
    ASSUME NEW old, NEW new, \A p \in Pairs : MatchKept(old[p], new[p]),
           NEW id, NEW like, MarkedIn(old, id, like)
    PROVE  MarkedIn(new, id, like)
  BY DEF MarkedIn, MatchKept, Lists

LEMMA StoredRows ==
    ASSUME TypeInv
    PROVE  /\ \A id \in LikeIds : Stored(likes)[id] = likes[id].row
           /\ \A p \in PassIds : Stored(passes)[p] = passes[p].row
           /\ \A p \in Pairs : Stored(matches)[p] = matches[p].row
           /\ \A p \in Pairs : Stored(chats)[p] = chats[p].row
           /\ \A p \in Pairs : Stored(blocks)[p] = blocks[p].row
  BY DEF TypeInv, TypeOK, Stored

(* What is stored is kept by what any transaction sees.                      *)
LEMMA StoredKept ==
    ASSUME TypeInv, NEW r \in Requests
    PROVE  /\ \A id \in LikeIds : LikeKept(Stored(likes)[id], Seen(likes, r)[id])
           /\ \A p \in PassIds : PassKept(Stored(passes)[p], Seen(passes, r)[p])
           /\ \A p \in Pairs : MatchKept(Stored(matches)[p], Seen(matches, r)[p])
  BY StoredRows, KeptReflexive DEF TypeInv, TypeOK, RowsKept, Seen

(* What a transaction would commit of a match is of two who liked.           *)
LEMMA SeenMutual ==
    ASSUME TypeInv, MatchInv, NEW r \in Requests, NEW p \in Pairs
    PROVE  MutualIn(Seen(likes, r), p, Seen(matches, r)[p])
<1>1. CASE matches[p].by = r
  BY <1>1 DEF MatchInv, Seen, TypeInv, TypeOK
<1>2. CASE matches[p].by # r
  <2>1. Seen(matches, r)[p] = matches[p].row
    BY <1>2 DEF Seen, TypeInv, TypeOK
  <2>2. MutualIn(Stored(likes), p, matches[p].row)
    BY DEF MatchInv
  <2>3. \A id \in LikeIds : LikeKept(Stored(likes)[id], Seen(likes, r)[id])
    BY StoredKept
  <2> QED
    BY <2>1, <2>2, <2>3, MutualKept
<1> QED
  BY <1>1, <1>2

LEMMA SeenMarked ==
    ASSUME TypeInv, MatchInv, NEW r \in Requests, NEW id \in LikeIds
    PROVE  MarkedIn(Seen(matches, r), id, Seen(likes, r)[id])
<1>1. CASE likes[id].by = r
  BY <1>1 DEF MatchInv, Seen, TypeInv, TypeOK
<1>2. CASE likes[id].by # r
  <2>1. Seen(likes, r)[id] = likes[id].row
    BY <1>2 DEF Seen, TypeInv, TypeOK
  <2> QED
    BY <2>1, StoredKept, MarkedKept DEF MatchInv
<1> QED
  BY <1>1, <1>2

(* The same, of what a step of a request leaves it seeing.                   *)
LEMMA OthersMatchStep ==
    ASSUME TypeInv, TypeInv', MatchInv, NEW r \in Requests, Acts(r),
           NEW q \in Requests \ {r}
    PROVE  /\ \A p \in Pairs : matches'[p].by = q => MutualIn(Seen(likes', q), p, matches'[p].next)
           /\ \A id \in LikeIds : likes'[id].by = q => MarkedIn(Seen(matches', q), id, likes'[id].next)
           /\ LikesInHand(q)'
<1>kept. /\ \A id \in LikeIds : LikeKept(Seen(likes, q)[id], Seen(likes', q)[id])
         /\ \A p \in Pairs : MatchKept(Seen(matches, q)[p], Seen(matches', q)[p])
  BY SeenKept
<1>1. ASSUME NEW p \in Pairs, matches'[p].by = q
      PROVE  MutualIn(Seen(likes', q), p, matches'[p].next)
  <2>1. matches'[p] = matches[p] /\ q \in Requests
    BY <1>1, OthersVersions
  <2>2. MutualIn(Seen(likes, q), p, matches[p].next)
    BY <1>1, <2>1 DEF MatchInv
  <2> QED
    BY <1>kept, <2>1, <2>2, MutualKept
<1>2. ASSUME NEW id \in LikeIds, likes'[id].by = q
      PROVE  MarkedIn(Seen(matches', q), id, likes'[id].next)
  <2>1. likes'[id] = likes[id] /\ q \in Requests
    BY <1>2, OthersVersions
  <2>2. MarkedIn(Seen(matches, q), id, likes[id].next)
    BY <1>2, <2>1 DEF MatchInv
  <2> QED
    BY <1>kept, <2>1, <2>2, MarkedKept
<1>3. LikesInHand(q)'
  <2>1. req'[q] = req[q] /\ LikesInHand(q)
    BY OwnStep DEF MatchInv
  <2>2. req[q] \in RequestState /\ HandlerOK(q)
    BY DEF TypeInv, TypeOK
  <2>3. ASSUME NEW id \in LikeIds, req[q].likes[id] # None
        PROVE  \/ Directed(Seen(likes', q)[id], req[q].likes[id].from, req[q].likes[id].to)
               \/ id = req[q].id /\ Own(q, req[q].likes[id])
    BY <1>kept, <2>1, <2>3 DEF LikesInHand, LikeKept, Directed
  <2>4. ASSUME req[q].at \in {"supersede_own", "supersede_pair", "resolve"}
        PROVE  Own(q, Seen(likes', q)[req[q].id])
    <3>1. req[q].id \in LikeIds
      BY <2>2, <2>4 DEF HandlerOK
    <3> QED
      BY <1>kept, <2>1, <2>4, <3>1 DEF LikesInHand, LikeKept, Directed, Own
  <2>5. ASSUME req[q].at = "mark_likes", req[q].op = "like", NEW id \in Range(req[q].todo)
        PROVE  /\ Lists(Seen(matches', q)[PairOf(q)], id)
               /\ Own(q, Seen(likes', q)[id]) \/ Theirs(q, Seen(likes', q)[id])
    <3>1. id \in LikeIds
      BY <2>2 DEF RequestState, Range
    <3>2. PairOf(q) \in Pairs
      BY <2>5, ReadType DEF At
    <3> QED
      BY <1>kept, <2>1, <2>5, <3>1, <3>2
      DEF LikesInHand, LikeKept, MatchKept, Directed, Own, Theirs, Lists
  <2> QED
    BY <2>1, <2>3, <2>4, <2>5 DEF LikesInHand, Own, Theirs, PairOf
<1> QED
  BY <1>1, <1>2, <1>3

(* Of a pair, the other one. *)
LEMMA OppositeOf ==
    ASSUME NEW a, NEW b, a # b
    PROVE  Opposite({a, b}, a) = b /\ Opposite({a, b}, b) = a
  BY DEF Opposite

(* The like found among those read is the one on record in that direction.   *)
LEMMA FoundLike ==
    ASSUME NEW rows, NEW a, NEW b, CurrentLikeBetween(rows, a, b) # None
    PROVE  /\ CurrentLikeBetween(rows, a, b) \in LikeIds
           /\ Directed(rows[CurrentLikeBetween(rows, a, b)], a, b)
           /\ rows[CurrentLikeBetween(rows, a, b)] # None
<1> DEFINE found == {id \in LikeIds : IsCurrentLike(rows[id]) /\ Directed(rows[id], a, b)}
<1>1. found # {} /\ CurrentLikeBetween(rows, a, b) = CHOOSE id \in found : TRUE
  BY DEF CurrentLikeBetween
<1>2. CurrentLikeBetween(rows, a, b) \in found
  BY <1>1
<1> QED
  BY <1>2 DEF Directed

(* The two likes a match is made of are on record, one each way.             *)
LEMMA MatchLikesOnRecord ==
    ASSUME TypeInv, MatchInv, NEW r \in Requests, UpsertMatch(r)
    PROVE  /\ req[r].id \in LikeIds /\ Own(r, Seen(likes, r)[req[r].id])
           /\ TheirLike(r) \in LikeIds /\ Theirs(r, Seen(likes, r)[TheirLike(r)])
           /\ Range(MatchLikes(r)) = {req[r].id, TheirLike(r)}
<1>1. /\ HandlerOK(r) /\ LikesInHand(r) /\ req[r].at = "resolve"
      /\ req[r].id \in LikeIds /\ req[r].from # req[r].to
  BY DEF TypeInv, MatchInv, HandlerOK, UpsertMatch, At
<1>2. Own(r, Seen(likes, r)[req[r].id])
  BY <1>1 DEF LikesInHand
<1>3. /\ TheirLike(r) \in LikeIds
      /\ Theirs(r, req[r].likes[TheirLike(r)]) /\ req[r].likes[TheirLike(r)] # None
  BY FoundLike DEF UpsertMatch, Reciprocated, TheirLike, Theirs
<1>4. Theirs(r, Seen(likes, r)[TheirLike(r)])
  BY <1>1, <1>3 DEF LikesInHand, Theirs, Own, Directed
<1>5. Range(MatchLikes(r)) = {req[r].id, TheirLike(r)}
  BY <1>1, <1>3 DEF MatchLikes, Range
<1> QED
  BY <1>1, <1>2, <1>3, <1>4, <1>5

LEMMA SeqElements ==
    ASSUME NEW S, NEW s \in Seq(S)
    PROVE  \A i \in DOMAIN s : s[i] \in S
  OBVIOUS

LEMMA RangeUnion ==
    ASSUME NEW S, NEW s \in Seq(S), NEW t \in Seq(S)
    PROVE  s \o t \in Seq(S) /\ Range(s \o t) = Range(s) \cup Range(t)
<1> DEFINE all == s \o t
<1>1. /\ all \in Seq(S) /\ Len(all) = Len(s) + Len(t)
      /\ DOMAIN all = 1..Len(all) /\ DOMAIN s = 1..Len(s) /\ DOMAIN t = 1..Len(t)
      /\ Len(s) \in Nat /\ Len(t) \in Nat
  OBVIOUS
<1>2. \A i \in 1..Len(s) : i \in 1..Len(all) /\ all[i] = s[i]
  OBVIOUS
<1>3. \A i \in 1..Len(t) : i + Len(s) \in 1..Len(all) /\ all[i + Len(s)] = t[i]
  OBVIOUS
<1>4. \A i \in 1..Len(all) : i \in 1..Len(s) \/ i - Len(s) \in 1..Len(t)
  BY <1>1
<1>5. \A i \in 1..Len(all) : ~(i \in 1..Len(s)) => (i - Len(s)) + Len(s) = i
  BY <1>1
<1> HIDE DEF all
<1>6. Range(s) \subseteq Range(all) /\ Range(t) \subseteq Range(all)
  BY <1>1, <1>2, <1>3 DEF Range
<1>7. \A i \in 1..Len(all) : all[i] \in Range(s) \cup Range(t)
  BY <1>1, <1>2, <1>3, <1>4, <1>5 DEF Range
<1>8. Range(all) = Range(s) \cup Range(t)
  BY <1>1, <1>6, <1>7 DEF Range
<1> QED
  BY <1>1, <1>8 DEF all

LEMMA RangeTail ==
    ASSUME NEW S, NEW s \in Seq(S), s # <<>>
    PROVE  Range(Tail(s)) \subseteq Range(s)
<1>1. /\ DOMAIN s = 1..Len(s) /\ DOMAIN Tail(s) = 1..Len(Tail(s))
      /\ Len(Tail(s)) = Len(s) - 1 /\ Len(s) \in Nat
  OBVIOUS
<1>2. \A i \in 1..Len(Tail(s)) : Tail(s)[i] = s[i + 1] /\ i + 1 \in 1..Len(s)
  OBVIOUS
<1> QED
  BY <1>1, <1>2 DEF Range

(* An upserted match lists both of them, and what it listed before.          *)
LEMMA ConvergedLists ==
    ASSUME NEW stored \in MatchRow \cup {None}, NEW ids \in Seq(LikeIds), DOMAIN ids = {1, 2}
    PROVE  /\ \A id \in Range(ids) : Lists(Converged(stored, ids), id)
           /\ \A id : Lists(stored, id) => Lists(Converged(stored, ids), id)
<1>1. CASE stored = None
  <2>1. [likeIds |-> ids, end |-> "open"] \in MatchRow
    BY DEF MatchRow
  <2> QED
    BY <1>1, <2>1, RowAssumption DEF Converged, Lists
<1>2. CASE stored \in MatchRow
  <2> DEFINE unless(id) == IF id \in Range(stored.likeIds) THEN <<>> ELSE <<id>>
             more == unless(ids[1]) \o unless(ids[2])
  <2>1. Unlisted(ids, stored.likeIds) = more
    BY DEF Unlisted
  <2>2. ids[1] \in LikeIds /\ ids[2] \in LikeIds /\ stored.likeIds \in Seq(LikeIds)
    <3>1. \A i \in DOMAIN ids : ids[i] \in LikeIds
      BY SeqElements
    <3> QED
      BY <1>2, <3>1 DEF MatchRow
  <2>3. more \in Seq(LikeIds) /\ \A id \in Range(ids) :
           id \in Range(stored.likeIds) \/ id \in Range(more)
    <3> HIDE DEF more, unless
    <3>1. unless(ids[1]) \in Seq(LikeIds) /\ unless(ids[2]) \in Seq(LikeIds)
      BY <2>2 DEF unless
    <3>2. more \in Seq(LikeIds) /\ Range(more) = Range(unless(ids[1])) \cup Range(unless(ids[2]))
      BY <3>1, RangeUnion DEF more
    <3>3. \A id : id \in Range(stored.likeIds) \/ id \in Range(unless(id))
      <4> TAKE id
      <4>1. Range(<<id>>) = {id}
        BY DEF Range
      <4> QED
        BY <4>1 DEF unless
    <3>4. Range(ids) = {ids[1], ids[2]}
      BY DEF Range
    <3> QED
      BY <3>2, <3>3, <3>4
  <2> DEFINE all == stored.likeIds \o more
  <2>4. Converged(stored, ids) = [stored EXCEPT !.likeIds = all]
    BY <1>2, <2>1, RowAssumption DEF Converged
  <2> HIDE DEF more
  <2>5. all \in Seq(LikeIds) /\ Range(all) = Range(stored.likeIds) \cup Range(more)
    BY <2>2, <2>3, RangeUnion
  <2> HIDE DEF all
  <2>6. Converged(stored, ids) \in MatchRow /\ Converged(stored, ids).likeIds = all
    BY <1>2, <2>4, <2>5 DEF MatchRow
  <2> QED
    BY <2>3, <2>5, <2>6, RowAssumption DEF Lists
<1> QED
  BY <1>1, <1>2

LEMMA OwnMatchStep ==
    ASSUME TypeInv, MatchInv, NEW r \in Requests, Acts(r), ~Ends(r)
    PROVE  \A p \in Pairs : matches'[p].by = r => MutualIn(Seen(likes', r), p, matches'[p].next)
<1>type. matches \in [Pairs -> Versions(MatchRow \cup {None}, Requests)]
  BY DEF TypeInv, TypeOK
<1>kept. \A id \in LikeIds : LikeKept(Seen(likes, r)[id], Seen(likes', r)[id])
  BY SeenKept
<1> SUFFICES ASSUME NEW p \in Pairs, matches'[p].by = r
             PROVE  MutualIn(Seen(likes', r), p, matches'[p].next)
  OBVIOUS
<1>same. ASSUME matches'[p] = matches[p]
         PROVE  MutualIn(Seen(likes', r), p, matches'[p].next)
  <2>1. MutualIn(Seen(likes, r), p, matches[p].next)
    BY <1>same DEF MatchInv
  <2> QED
    BY <1>kept, <1>same, <2>1, MutualKept
<1>1. CASE UpsertMatch(r)
  <2> DEFINE stored == Seen(matches, r)[PairOf(r)]
             row == Converged(stored, MatchLikes(r))
  <2>1. /\ matches' = Put(matches, PairOf(r), r, row) /\ likes' = likes
        /\ PairOf(r) \in Pairs /\ stored \in MatchRow \cup {None}
        /\ req[r].from # req[r].to
    BY <1>1, ReadType DEF UpsertMatch, At, TypeInv, HandlerOK
  <2>2. CASE p # PairOf(r)
    BY <1>type, <1>same, <2>1, <2>2 DEF Put
  <2>3. CASE p = PairOf(r)
    <3>1. matches'[p].next = row
      BY <1>type, <2>1, <2>3 DEF Put
    <3>2. Lists(row, req[r].id) /\ Lists(row, TheirLike(r))
      <4>1. MatchLikes(r) \in Seq(LikeIds) /\ DOMAIN MatchLikes(r) = {1, 2}
        BY <1>1, MatchLikesType
      <4>2. \A id \in Range(MatchLikes(r)) : Lists(row, id)
        BY <2>1, <4>1, ConvergedLists
      <4> QED
        BY <1>1, <4>2, MatchLikesOnRecord
    <3> HIDE DEF row
    <3>3. MutualIn(Seen(likes, r), p, row)
      <4>1. Opposite(p, req[r].from) = req[r].to /\ Opposite(p, req[r].to) = req[r].from
        BY <2>1, <2>3, OppositeOf DEF PairOf
      <4> QED
        BY <1>1, <2>3, <3>2, <4>1, MatchLikesOnRecord DEF MutualIn, Own, Theirs, PairOf
    <3> QED
      BY <2>1, <3>1, <3>3
  <2> QED
    BY <2>2, <2>3
<1>2. CASE EndMatch(r)
  <2> DEFINE stored == Seen(matches, r)[PairOf(r)]
             row == [stored EXCEPT !.end = EndedAs(req[r].op)]
  <2>1. /\ matches' = Put(matches, PairOf(r), r, row) /\ likes' = likes
        /\ PairOf(r) \in Pairs /\ stored \in MatchRow
    BY <1>2, ReadType DEF EndMatch, At, TypeInv, HandlerOK
  <2>2. CASE p # PairOf(r)
    BY <1>type, <1>same, <2>1, <2>2 DEF Put
  <2>3. CASE p = PairOf(r)
    <3>1. matches'[p].next = row
      BY <1>type, <2>1, <2>3 DEF Put
    <3>2. MutualIn(Seen(likes, r), p, stored)
      BY <2>1, <2>3, SeenMutual
    <3> HIDE DEF stored
    <3>3. row.likeIds = stored.likeIds
      BY <2>1 DEF MatchRow
    <3>4. MutualIn(Seen(likes, r), p, row)
      BY <2>1, <3>2, <3>3, RowAssumption DEF MutualIn, Lists
    <3> QED
      BY <2>1, <3>1, <3>4
  <2> QED
    BY <2>2, <2>3
<1>3. CASE ~UpsertMatch(r) /\ ~EndMatch(r)
  <2>1. UNCHANGED matches
    BY <1>3 DEF Acts, Start, Step, Begin, BeginLike, BeginPass, BeginBlock, BeginUnmatch,
       ReadLikes, ReadPasses, RefuseLike, RefuseSecondLike, RecordLike, FindLivePass,
       InsertLike, SupersedeOwnPass, SupersedePassByPair, ResolveWithoutMatch, MarkLike,
       OpenChat, RefusePass, InsertPass, InsertBlock, FindMatch, CloseChat, Ends, tables
  <2> QED
    BY <1>same, <2>1
<1> QED
  BY <1>1, <1>2, <1>3

LEMMA OwnMarkStep ==
    ASSUME TypeInv, MatchInv, NEW r \in Requests, Acts(r), ~Ends(r)
    PROVE  \A id \in LikeIds : likes'[id].by = r => MarkedIn(Seen(matches', r), id, likes'[id].next)
<1>type. likes \in [LikeIds -> Versions(Likes, Requests)] /\ req[r] \in RequestState
  BY DEF TypeInv, TypeOK
<1>kept. \A p \in Pairs : MatchKept(Seen(matches, r)[p], Seen(matches', r)[p])
  BY SeenKept
<1> SUFFICES ASSUME NEW id \in LikeIds, likes'[id].by = r
             PROVE  MarkedIn(Seen(matches', r), id, likes'[id].next)
  OBVIOUS
<1>same. ASSUME likes'[id] = likes[id]
         PROVE  MarkedIn(Seen(matches', r), id, likes'[id].next)
  <2>1. MarkedIn(Seen(matches, r), id, likes[id].next)
    BY <1>same DEF MatchInv
  <2> QED
    BY <1>kept, <1>same, <2>1, MarkedKept
<1>1. CASE InsertLike(r)
  <2> DEFINE row == [from |-> req[r].from, to |-> req[r].to, state |-> "live",
                     superseded |-> req[r].livePass]
  <2>1. likes' = likes \/ likes' = Put(likes, req[r].id, r, row)
    BY <1>1 DEF InsertLike
  <2>2. likes'[id] = likes[id] \/ likes'[id].next = row
    BY <1>type, <2>1 DEF Put
  <2>3. row.state = "live"
    OBVIOUS
  <2> HIDE DEF row
  <2> QED
    BY <1>same, <2>2, <2>3 DEF MarkedIn
<1>2. CASE MarkLike(r)
  <2> DEFINE key == Head(req[r].todo)
             row == Seen(likes, r)[key]
             state == IF req[r].op = "like" THEN "matched" ELSE "withdrawn"
             moved == [row EXCEPT !.state = state]
  <2>1. /\ req[r].todo # <<>> /\ key \in LikeIds /\ key \in Range(req[r].todo)
        /\ req[r].at = "mark_likes" /\ LikesInHand(r)
    BY <1>2, <1>type DEF MarkLike, At, TypeInv, HandlerOK, RequestState, MatchInv, Range
  <2>2. \/ likes' = likes
        \/ Movable(row, state) /\ likes' = Put(likes, key, r, moved)
    BY <1>2 DEF MarkLike
  <2>3. CASE likes'[id] = likes[id]
    BY <1>same, <2>3
  <2>4. CASE likes'[id] # likes[id]
    <3>1. id = key /\ Movable(row, state) /\ likes'[id].next = moved
      BY <1>type, <2>2, <2>4 DEF Put
    <3>2. row \in LikeRow
      BY <3>1, <2>1, ReadType DEF Movable, IsCurrentLike, Likes
    <3>3. moved.from = row.from /\ moved.to = row.to /\ moved.state = state
      BY <3>2 DEF LikeRow
    <3>4. CASE req[r].op = "like"
      <4>1. /\ Lists(Seen(matches, r)[PairOf(r)], key)
            /\ Own(r, row) \/ Theirs(r, row)
        BY <2>1, <3>4 DEF LikesInHand
      <4>2. {row.from, row.to} = PairOf(r) /\ PairOf(r) \in Pairs
        BY <2>1, <4>1, ReadType DEF Own, Theirs, Directed, PairOf, At
      <4>3. Lists(Seen(matches', r)[PairOf(r)], key)
        BY <1>kept, <4>1, <4>2 DEF MatchKept, Lists
      <4> HIDE DEF moved, row
      <4> QED
        BY <3>1, <3>3, <4>2, <4>3 DEF MarkedIn
    <3>5. CASE req[r].op # "like"
      <4> HIDE DEF moved, row
      <4> QED
        BY <3>1, <3>3, <3>5 DEF MarkedIn
    <3> QED
      BY <3>4, <3>5
  <2> QED
    BY <2>3, <2>4
<1>3. CASE ~InsertLike(r) /\ ~MarkLike(r)
  <2>1. UNCHANGED likes
    BY <1>3 DEF Acts, Start, Step, Begin, BeginLike, BeginPass, BeginBlock, BeginUnmatch,
       ReadLikes, ReadPasses, RefuseLike, RefuseSecondLike, RecordLike, FindLivePass,
       SupersedeOwnPass, SupersedePassByPair, ResolveWithoutMatch, UpsertMatch, EndMatch,
       OpenChat, RefusePass, InsertPass, InsertBlock, FindMatch, CloseChat, Ends, tables
  <2> QED
    BY <1>same, <2>1
<1> QED
  BY <1>1, <1>2, <1>3

(* What a handler has in hand after its own step.                            *)
LEMMA OwnHandStep ==
    ASSUME TypeInv, MatchInv, NEW r \in Requests, Acts(r), ~Ends(r)
    PROVE  LikesInHand(r)'
<1>req. req \in [Requests -> RequestState] /\ req[r] \in RequestState
  BY DEF TypeInv, TypeOK
<1>ok. HandlerOK(r) /\ LikesInHand(r)
  BY DEF TypeInv, MatchInv
<1>kept. /\ \A id \in LikeIds : LikeKept(Seen(likes, r)[id], Seen(likes', r)[id])
         /\ \A p \in Pairs : MatchKept(Seen(matches, r)[p], Seen(matches', r)[p])
  BY SeenKept
<1>goto. \A place : Goto(r, place) => req'[r].at = place /\ req'[r].likes = req[r].likes
  BY <1>req DEF Goto, RequestState
<1>mark. \A ids, reply : Mark(r, ids, reply) =>
           /\ req'[r].at \in {"reply", "mark_likes"} /\ req'[r].likes = NoLikes
           /\ req'[r].todo = ids
  BY <1>req DEF Mark, Forgetting, RequestState
<1>answer. \A reply : Answer(r, reply) => req'[r].at = "reply" /\ req'[r].likes = NoLikes
  BY <1>req DEF Answer, Mark, Forgetting, RequestState
<1>1. CASE Start(r)
  <2>1. /\ req'[r].at \in {"read_likes", "insert_block", "find_match"}
        /\ req'[r].likes = NoLikes
    BY <1>1, <1>req DEF Start, Begin, BeginLike, BeginPass, BeginBlock, BeginUnmatch, Starting
  <2> QED
    BY <2>1 DEF LikesInHand, NoLikes
<1>2. CASE ~Start(r) /\ SameRequest(r)
  <2>same. /\ req'[r].op = req[r].op /\ req'[r].id = req[r].id
           /\ req'[r].from = req[r].from /\ req'[r].to = req[r].to
           /\ PairOf(r)' = PairOf(r)
           /\ \A row : Own(r, row)' = Own(r, row') /\ Theirs(r, row)' = Theirs(r, row')
    BY <1>2 DEF SameRequest, PairOf, Own, Theirs
  <2>hand. ASSUME req'[r].likes \in {req[r].likes, NoLikes},
                  NEW id \in LikeIds, req'[r].likes[id] # None
           PROVE  \/ Directed(Seen(likes', r)[id], req'[r].likes[id].from, req'[r].likes[id].to)
                  \/ id = req'[r].id /\ Own(r, req[r].likes[id]) /\ req'[r].likes = req[r].likes
    BY <1>kept, <1>ok, <2>hand, <2>same DEF LikesInHand, LikeKept, Directed, NoLikes
  <2>own. ASSUME req[r].at \in {"supersede_own", "supersede_pair", "resolve"}
          PROVE  Own(r, Seen(likes', r)[req[r].id])
    <3>1. req[r].id \in LikeIds
      BY <1>ok, <2>own DEF HandlerOK
    <3> QED
      BY <1>kept, <1>ok, <2>own, <3>1 DEF LikesInHand, LikeKept, Directed, Own
  <2>rest. ASSUME req'[r].likes \in {req[r].likes, NoLikes},
                  req'[r].at \in {"supersede_own", "supersede_pair", "resolve"} =>
                     req[r].at \in {"supersede_own", "supersede_pair"},
                  req'[r].at = "mark_likes" => req[r].op # "like"
           PROVE  LikesInHand(r)'
    BY <2>same, <2>hand, <2>own, <2>rest DEF LikesInHand, Own, Theirs
  <2>1. CASE \/ RefuseLike(r) \/ RefuseSecondLike(r) \/ RefusePass(r) \/ ResolveWithoutMatch(r)
             \/ OpenChat(r) \/ CloseChat(r) \/ InsertBlock(r)
    <3>1. /\ req'[r].at \in {"reply", "failed", "find_match"}
          /\ req'[r].likes \in {req[r].likes, NoLikes}
      BY <2>1, <1>goto, <1>answer
      DEF RefuseLike, RefuseSecondLike, RefusePass, ResolveWithoutMatch, OpenChat, CloseChat,
          InsertBlock
    <3> QED
      BY <2>rest, <3>1
  <2>2. CASE ReadPasses(r) \/ FindLivePass(r)
    <3>1. /\ req'[r].at \in {"read_blocks", "insert_pass", "insert_like"}
          /\ req'[r].likes = req[r].likes
      BY ZenonT(60), <2>2, <1>req DEF ReadPasses, FindLivePass, RequestState
    <3> QED
      BY <2>rest, <3>1
  <2>3. CASE SupersedeOwnPass(r) \/ SupersedePassByPair(r)
    <3>1. /\ req'[r].at \in {"supersede_pair", "resolve"}
          /\ req[r].at \in {"supersede_own", "supersede_pair"}
          /\ req'[r].likes = req[r].likes
      BY <2>3, <1>goto DEF SupersedeOwnPass, SupersedePassByPair, AfterAppend, At
    <3> QED
      BY <2>rest, <3>1
  <2>4. CASE InsertPass(r) \/ EndMatch(r)
    <3>1. /\ req'[r].at \notin {"supersede_own", "supersede_pair", "resolve"}
          /\ req'[r].likes \in {req[r].likes, NoLikes} /\ req[r].op # "like"
      BY <2>4, <1>ok, <1>goto, <1>mark DEF InsertPass, EndMatch, HandlerOK, At, After
    <3> QED
      BY <2>rest, <3>1
  <2>5. CASE FindMatch(r)
    <3>1. /\ req[r].op \in {"block", "unmatch"} /\ req[r].op # "like"
          /\ After(req[r].op, "find_match") = "end_match"
      BY <2>5, <1>ok DEF FindMatch, HandlerOK, At, After
    <3>2. /\ req'[r].at \in {"reply", "failed", "end_match"}
          /\ req'[r].likes \in {req[r].likes, NoLikes}
      BY ZenonT(60), <2>5, <3>1, <1>req, <1>goto, <1>answer DEF FindMatch, RequestState
    <3> QED
      BY <2>rest, <3>1, <3>2
  <2>6. CASE ReadLikes(r)
    <3> DEFINE read == [id \in LikeIds |-> IF IsCurrentLike(Seen(likes, r)[id])
                                             THEN Seen(likes, r)[id] ELSE None]
    <3>1. req'[r].likes = read /\ req'[r].at = "read_passes" /\ likes' = likes
      BY <2>6, <1>req DEF ReadLikes, RequestState, tables
    <3>2. \A id \in LikeIds : read[id] # None => read[id] = Seen(likes, r)[id]
      OBVIOUS
    <3> HIDE DEF read
    <3>3. \A id \in LikeIds : read[id] # None =>
             Directed(Seen(likes', r)[id], read[id].from, read[id].to)
      BY <3>1, <3>2 DEF Directed
    <3> QED
      BY <3>1, <3>3 DEF LikesInHand
  <2>7. CASE RecordLike(r)
    <3>1. likes' = likes /\ req'[r].at = "find_live_pass"
      BY <2>7, <1>req DEF RecordLike, RequestState, tables
    <3>2. CASE req'[r].likes = req[r].likes
      BY <2>rest, <3>1, <3>2
    <3>3. CASE req'[r].likes # req[r].likes
      <4>1. req'[r].likes = [req[r].likes EXCEPT ![req[r].id] = NewLike(r)]
        BY <2>7, <3>3, <1>req DEF RecordLike, RequestState
      <4>2. Own(r, NewLike(r)) \/ NewLike(r) = None
        BY DEF NewLike, Own, Directed
      <4>3. \A id \in LikeIds : id # req[r].id => req'[r].likes[id] = req[r].likes[id]
        BY <1>req, <4>1 DEF RequestState
      <4>4. req[r].id \in LikeIds => req'[r].likes[req[r].id] = NewLike(r)
        BY <1>req, <4>1 DEF RequestState
      <4>5. \A id \in LikeIds : req'[r].likes[id] # None =>
               \/ Directed(Seen(likes', r)[id], req'[r].likes[id].from, req'[r].likes[id].to)
               \/ id = req[r].id /\ Own(r, req'[r].likes[id])
        BY <1>ok, <3>1, <4>2, <4>3, <4>4 DEF LikesInHand
      <4> QED
        BY <2>same, <3>1, <4>5 DEF LikesInHand, Own
    <3> QED
      BY <3>2, <3>3
  <2>8. CASE InsertLike(r)
    <3> DEFINE row == [from |-> req[r].from, to |-> req[r].to, state |-> "live",
                       superseded |-> req[r].livePass]
    <3>1. /\ req'[r].at \in {"failed", "supersede_own", "supersede_pair", "resolve"}
          /\ req'[r].likes = req[r].likes
      BY <2>8, <1>goto DEF InsertLike, AfterAppend
    <3>2. CASE req'[r].at = "failed"
      BY <2>rest, <3>1, <3>2
    <3>3. CASE req'[r].at # "failed"
      <4>1. req[r].id \in LikeIds
        BY <2>8, <1>ok DEF InsertLike, HandlerOK, At
      <4>2. \/ likes' = likes /\ Own(r, Seen(likes, r)[req[r].id])
            \/ likes' = Put(likes, req[r].id, r, row)
        BY <2>8, <1>goto, <3>3 DEF InsertLike, Own
      <4>3. Own(r, row) \/ row = None
        BY DEF Own, Directed
      <4>4. row # None
        <5>1. row \in LikeRow
          BY <1>req DEF LikeRow, RequestState
        <5> QED
          BY <5>1, RowAssumption
      <4> HIDE DEF row
      <4>5. Own(r, Seen(likes', r)[req[r].id])
        BY <4>1, <4>2, <4>3, <4>4, PutSeen DEF TypeInv, TypeOK
      <4> QED
        BY <2>same, <2>hand, <3>1, <4>5 DEF LikesInHand, Own
    <3> QED
      BY <3>2, <3>3
  <2>9. CASE UpsertMatch(r)
    <3> DEFINE stored == Seen(matches, r)[PairOf(r)]
               row == Converged(stored, MatchLikes(r))
    <3>1. /\ req'[r].at \in {"reply", "mark_likes"} /\ req'[r].likes = NoLikes
          /\ req'[r].todo = MatchLikes(r)
      BY <2>9, <1>mark DEF UpsertMatch
    <3>2. /\ matches' = Put(matches, PairOf(r), r, row) /\ likes' = likes
          /\ PairOf(r) \in Pairs /\ stored \in MatchRow \cup {None}
      BY <2>9, ReadType DEF UpsertMatch, At
    <3>3. MatchLikes(r) \in Seq(LikeIds) /\ DOMAIN MatchLikes(r) = {1, 2}
      BY <2>9, MatchLikesType
    <3>4. \A id \in Range(MatchLikes(r)) : Lists(row, id)
      BY <3>2, <3>3, ConvergedLists
    <3>5. Seen(matches', r)[PairOf(r)] = row
      BY <3>2, PutSeen DEF TypeInv, TypeOK
    <3> HIDE DEF row
    <3>6. \A id \in Range(MatchLikes(r)) :
             Own(r, Seen(likes, r)[id]) \/ Theirs(r, Seen(likes, r)[id])
      BY <2>9, MatchLikesOnRecord
    <3> QED
      BY <2>same, <2>hand, <3>1, <3>2, <3>4, <3>5, <3>6 DEF LikesInHand, Own, Theirs, NoLikes
  <2>10. CASE MarkLike(r)
    <3>1. /\ req'[r].likes = req[r].likes /\ req'[r].todo = Tail(req[r].todo)
          /\ req'[r].at \in {"mark_likes", After(req[r].op, "mark_likes")}
          /\ req[r].at = "mark_likes" /\ req[r].todo # <<>>
      BY <2>10, <1>req, <1>ok DEF MarkLike, RequestState, At, HandlerOK
    <3>2. After(req[r].op, "mark_likes") \in {"reply", "open_chat", "close_chat"}
      BY <1>req DEF After, RequestState, Ops
    <3>3. CASE req[r].op # "like"
      BY <2>rest, <3>1, <3>2, <3>3
    <3>4. CASE req[r].op = "like"
      <4>1. Range(Tail(req[r].todo)) \subseteq Range(req[r].todo)
        BY <1>req, <3>1, RangeTail DEF RequestState
      <4>2. ASSUME NEW id \in Range(Tail(req[r].todo))
            PROVE  /\ Lists(Seen(matches', r)[PairOf(r)], id)
                   /\ Own(r, Seen(likes', r)[id]) \/ Theirs(r, Seen(likes', r)[id])
        <5>1. id \in Range(req[r].todo) /\ id \in LikeIds
          BY <1>req, <4>1, <4>2 DEF RequestState, Range
        <5>2. PairOf(r) \in Pairs
          BY <3>1, ReadType DEF At
        <5>3. /\ Lists(Seen(matches, r)[PairOf(r)], id)
              /\ Own(r, Seen(likes, r)[id]) \/ Theirs(r, Seen(likes, r)[id])
          BY <1>ok, <3>1, <3>4, <5>1 DEF LikesInHand
        <5>4. Lists(Seen(matches', r)[PairOf(r)], id)
          BY <1>kept, <5>2, <5>3 DEF MatchKept, Lists
        <5>5. Own(r, Seen(likes', r)[id]) \/ Theirs(r, Seen(likes', r)[id])
          BY <1>kept, <5>1, <5>3 DEF LikeKept, Own, Theirs, Directed
        <5> QED
          BY <5>4, <5>5
      <4> QED
        BY <2>same, <2>hand, <3>1, <3>2, <4>2 DEF LikesInHand, Own, Theirs
    <3> QED
      BY <3>3, <3>4
  <2> QED
    BY <1>2, <2>1, <2>2, <2>3, <2>4, <2>5, <2>6, <2>7, <2>8, <2>9, <2>10 DEF Acts, Step, Ends
<1>3. CASE req'[r] = Idle
  BY <1>3, IdleType DEF LikesInHand, Idle, Starting, NoLikes
<1> QED
  BY <1>1, <1>2, <1>3, OwnStep

(* The end of a transaction: what it saw, or what was there, is stored.      *)
LEMMA EndKept ==
    ASSUME TypeInv, NEW r \in Requests, Ends(r)
    PROVE  \/ /\ \A id \in LikeIds : likes'[id].row = Seen(likes, r)[id]
              /\ \A p \in PassIds : passes'[p].row = Seen(passes, r)[p]
              /\ \A p \in Pairs : /\ matches'[p].row = Seen(matches, r)[p]
                                  /\ chats'[p].row = Seen(chats, r)[p]
                                  /\ blocks'[p].row = Seen(blocks, r)[p]
              /\ At(r, "reply")
           \/ /\ \A id \in LikeIds : likes'[id].row = likes[id].row
              /\ \A p \in PassIds : passes'[p].row = passes[p].row
              /\ \A p \in Pairs : /\ matches'[p].row = matches[p].row
                                  /\ chats'[p].row = chats[p].row
                                  /\ blocks'[p].row = blocks[p].row
<1>1. /\ likes \in [LikeIds -> Versions(Likes, Requests)]
      /\ passes \in [PassIds -> Versions(Passes, Requests)]
      /\ blocks \in [Pairs -> Versions(Users \cup {None}, Requests)]
      /\ matches \in [Pairs -> Versions(MatchRow \cup {None}, Requests)]
      /\ chats \in [Pairs -> Versions(ChatStates \cup {None}, Requests)]
  BY DEF TypeInv, TypeOK
<1>2. CASE /\ At(r, "reply") /\ likes' = Commit(likes, r) /\ passes' = Commit(passes, r)
           /\ blocks' = Commit(blocks, r) /\ matches' = Commit(matches, r)
           /\ chats' = Commit(chats, r)
  <2>1. \A id \in LikeIds : likes'[id].row = Seen(likes, r)[id]
    BY <1>1, <1>2, CommitStores
  <2>2. \A p \in PassIds : passes'[p].row = Seen(passes, r)[p]
    BY <1>1, <1>2, CommitStores
  <2>3. \A p \in Pairs : matches'[p].row = Seen(matches, r)[p]
    BY <1>1, <1>2, CommitStores
  <2>4. \A p \in Pairs : chats'[p].row = Seen(chats, r)[p]
    BY <1>1, <1>2, CommitStores
  <2>5. \A p \in Pairs : blocks'[p].row = Seen(blocks, r)[p]
    BY <1>1, <1>2, CommitStores
  <2> QED
    BY <1>2, <2>1, <2>2, <2>3, <2>4, <2>5
<1>3. CASE /\ likes' = Rollback(likes, r) /\ passes' = Rollback(passes, r)
           /\ blocks' = Rollback(blocks, r) /\ matches' = Rollback(matches, r)
           /\ chats' = Rollback(chats, r)
  <2>1. \A id \in LikeIds : likes'[id].row = likes[id].row
    BY <1>1, <1>3, CommitStores
  <2>2. \A p \in PassIds : passes'[p].row = passes[p].row
    BY <1>1, <1>3, CommitStores
  <2>3. \A p \in Pairs : matches'[p].row = matches[p].row
    BY <1>1, <1>3, CommitStores
  <2>4. \A p \in Pairs : chats'[p].row = chats[p].row
    BY <1>1, <1>3, CommitStores
  <2>5. \A p \in Pairs : blocks'[p].row = blocks[p].row
    BY <1>1, <1>3, CommitStores
  <2> QED
    BY <2>1, <2>2, <2>3, <2>4, <2>5
<1> QED
  BY <1>2, <1>3, EndStep

(* Afterwards it holds nothing. *)
LEMMA EndReleases ==
    ASSUME TypeInv, NEW r \in Requests, Ends(r)
    PROVE  /\ \A id \in LikeIds : likes'[id].by # r
           /\ \A p \in PassIds : passes'[p].by # r
           /\ \A p \in Pairs : matches'[p].by # r /\ chats'[p].by # r /\ blocks'[p].by # r
<1>1. /\ likes \in [LikeIds -> Versions(Likes, Requests)]
      /\ passes \in [PassIds -> Versions(Passes, Requests)]
      /\ blocks \in [Pairs -> Versions(Users \cup {None}, Requests)]
      /\ matches \in [Pairs -> Versions(MatchRow \cup {None}, Requests)]
      /\ chats \in [Pairs -> Versions(ChatStates \cup {None}, Requests)]
  BY DEF TypeInv, TypeOK
<1>2. \A id \in LikeIds : likes'[id].by # r
  BY <1>1, EndStep, CommitStores
<1>3. \A p \in PassIds : passes'[p].by # r
  BY <1>1, EndStep, CommitStores
<1>4. \A p \in Pairs : matches'[p].by # r
  BY <1>1, EndStep, CommitStores
<1>5. \A p \in Pairs : chats'[p].by # r
  BY <1>1, EndStep, CommitStores
<1>6. \A p \in Pairs : blocks'[p].by # r
  BY <1>1, EndStep, CommitStores
<1> QED
  BY <1>2, <1>3, <1>4, <1>5, <1>6

(* A step that does not end a transaction stores nothing.                    *)
LEMMA StoredStays ==
    ASSUME TypeInv, NEW r \in Requests, Acts(r), ~Ends(r)
    PROVE  /\ \A id \in LikeIds : likes'[id].row = likes[id].row
           /\ \A p \in PassIds : passes'[p].row = passes[p].row
           /\ \A p \in Pairs : matches'[p].row = matches[p].row
<1>1. /\ likes \in [LikeIds -> Versions(Likes, Requests)]
      /\ passes \in [PassIds -> Versions(Passes, Requests)]
      /\ matches \in [Pairs -> Versions(MatchRow \cup {None}, Requests)]
  BY DEF TypeInv, TypeOK
<1>2. \A id \in LikeIds : likes'[id].row = likes[id].row
  BY <1>1, LikeWrites, PutSeen DEF WritesLike
<1>3. \A p \in PassIds : passes'[p].row = passes[p].row
  BY <1>1, PassWrites, PutSeen DEF WritesPass
<1>4. \A p \in Pairs : matches'[p].row = matches[p].row
  BY <1>1, MatchWrites, PutSeen DEF WritesMatch
<1> QED
  BY <1>2, <1>3, <1>4

(* Of what is stored after a step. *)
LEMMA StoredMatchStep ==
    ASSUME TypeInv, TypeInv', MatchInv, NEW r \in Requests, Acts(r)
    PROVE  /\ \A p \in Pairs : MutualIn(Stored(likes'), p, matches'[p].row)
           /\ \A id \in LikeIds : MarkedIn(Stored(matches'), id, likes'[id].row)
<1>stored. /\ \A id \in LikeIds : Stored(likes)[id] = likes[id].row
           /\ \A p \in Pairs : Stored(matches)[p] = matches[p].row
           /\ \A id \in LikeIds : Stored(likes')[id] = likes'[id].row
           /\ \A p \in Pairs : Stored(matches')[p] = matches'[p].row
  BY DEF TypeInv, TypeOK, Stored
<1>1. CASE /\ \A id \in LikeIds : likes'[id].row = Seen(likes, r)[id]
           /\ \A p \in Pairs : matches'[p].row = Seen(matches, r)[p]
  <2>1. ASSUME NEW p \in Pairs PROVE MutualIn(Stored(likes'), p, matches'[p].row)
    <3>1. MutualIn(Seen(likes, r), p, Seen(matches, r)[p])
      BY SeenMutual
    <3>2. \A id \in LikeIds : LikeKept(Seen(likes, r)[id], Stored(likes')[id])
      BY <1>1, <1>stored, KeptReflexive
    <3> QED
      BY <1>1, <3>1, <3>2, MutualKept
  <2>2. ASSUME NEW id \in LikeIds PROVE MarkedIn(Stored(matches'), id, likes'[id].row)
    <3>1. MarkedIn(Seen(matches, r), id, Seen(likes, r)[id])
      BY SeenMarked
    <3>2. \A p \in Pairs : MatchKept(Seen(matches, r)[p], Stored(matches')[p])
      BY <1>1, <1>stored, KeptReflexive
    <3> QED
      BY <1>1, <3>1, <3>2, MarkedKept
  <2> QED
    BY <2>1, <2>2
<1>2. CASE /\ \A id \in LikeIds : likes'[id].row = likes[id].row
           /\ \A p \in Pairs : matches'[p].row = matches[p].row
  <2>1. ASSUME NEW p \in Pairs PROVE MutualIn(Stored(likes'), p, matches'[p].row)
    <3>1. MutualIn(Stored(likes), p, matches[p].row)
      BY DEF MatchInv
    <3>2. \A id \in LikeIds : LikeKept(Stored(likes)[id], Stored(likes')[id])
      BY <1>2, <1>stored, KeptReflexive
    <3> QED
      BY <1>2, <3>1, <3>2, MutualKept
  <2>2. ASSUME NEW id \in LikeIds PROVE MarkedIn(Stored(matches'), id, likes'[id].row)
    <3>1. MarkedIn(Stored(matches), id, likes[id].row)
      BY DEF MatchInv
    <3>2. \A p \in Pairs : MatchKept(Stored(matches)[p], Stored(matches')[p])
      BY <1>2, <1>stored, KeptReflexive
    <3> QED
      BY <1>2, <3>1, <3>2, MarkedKept
  <2> QED
    BY <2>1, <2>2
<1> QED
  BY <1>1, <1>2, EndKept, StoredStays

LEMMA MatchInvStep == TypeInv /\ MatchInv /\ [Next]_vars => MatchInv'
<1> SUFFICES ASSUME TypeInv, MatchInv, [Next]_vars PROVE MatchInv'
  OBVIOUS
<1>type. TypeInv'
  BY TypeInvStep
<1>1. CASE UNCHANGED <<likes, matches, req>>
  BY <1>1 DEF MatchInv, LikesInHand, Own, Theirs, PairOf
<1>2. ASSUME NEW r \in Requests, Acts(r) PROVE MatchInv'
  <2>1. ASSUME NEW q \in Requests
        PROVE  /\ \A p \in Pairs : matches'[p].by = q =>
                     MutualIn(Seen(likes', q), p, matches'[p].next)
               /\ \A id \in LikeIds : likes'[id].by = q =>
                     MarkedIn(Seen(matches', q), id, likes'[id].next)
               /\ LikesInHand(q)'
    <3>1. CASE q # r
      BY <1>2, <1>type, <3>1, OthersMatchStep
    <3>2. CASE q = r /\ Ends(r)
      <4>1. LikesInHand(r)'
        BY <3>2, EndStep, IdleType DEF LikesInHand, Idle, Starting, NoLikes
      <4> QED
        BY <3>2, <4>1, EndReleases
    <3>3. CASE q = r /\ ~Ends(r)
      BY <1>2, <3>3, OwnMatchStep, OwnMarkStep, OwnHandStep
    <3> QED
      BY <3>1, <3>2, <3>3
  <2>2. /\ \A p \in Pairs : MutualIn(Stored(likes'), p, matches'[p].row)
        /\ \A id \in LikeIds : MarkedIn(Stored(matches'), id, likes'[id].row)
    BY <1>2, <1>type, StoredMatchStep
  <2> QED
    BY <2>1, <2>2 DEF MatchInv
<1>3. ASSUME NEW p \in PassIds, ExpirePass(p) PROVE UNCHANGED <<likes, matches, req>>
  BY <1>3 DEF ExpirePass
<1> QED
  BY <1>1, <1>2, <1>3 DEF Next, Acts, vars

LEMMA MatchInvAlways == Spec => [](TypeInv /\ MatchInv)
<1>1. TypeInv /\ MatchInv /\ [Next]_vars => (TypeInv /\ MatchInv)'
  BY TypeInvStep, MatchInvStep
<1> QED
  BY <1>1, InitTypeInv, InitMatchInv, PTL DEF Spec

LEMMA MatchIsMutualHolds == TypeInv /\ MatchInv => MatchIsMutual
<1> SUFFICES ASSUME TypeInv, MatchInv PROVE MatchIsMutual
  OBVIOUS
<1>1. /\ \A p \in Pairs : Match[p] = matches[p].row
      /\ \A id \in LikeIds : Like[id] = likes[id].row
  BY StoredRows DEF Match, Like
<1>2. ASSUME NEW p \in Pairs, Match[p] # None, NEW u \in p
      PROVE  \E id \in Range(Match[p].likeIds) : Directed(Like[id], u, Opposite(p, u))
  <2>1. MutualIn(Stored(likes), p, Match[p])
    BY <1>1 DEF MatchInv
  <2> QED
    BY <1>1, <1>2, <2>1 DEF MutualIn, Lists, Like
<1>3. ASSUME NEW id \in LikeIds, Like[id] # None, Like[id].state = "matched"
      PROVE  LET match == Match[{Like[id].from, Like[id].to}]
             IN  match # None /\ id \in Range(match.likeIds)
  <2>1. MarkedIn(Match, id, Like[id])
    BY <1>1 DEF MatchInv, Match
  <2> QED
    BY <1>3, <2>1 DEF MarkedIn, Lists
<1> QED
  BY <1>2, <1>3 DEF MatchIsMutual

(* However requests interleave, fail or are lost, whoever is in a match gave *)
(* the other a like that is on record and listed, and no like is marked      *)
(* matched that its pair's match does not list.                              *)
THEOREM MatchAlwaysMutual == Spec => []MatchIsMutual
  BY MatchInvAlways, MatchIsMutualHolds, PTL

-----------------------------------------------------------------------------
(* A pass that a like overrode is superseded *)

(* OverriddenPassIsSuperseded is not inductive either: a like names the pass *)
(* one statement before the pass is superseded, and another transaction may  *)
(* supersede it first.                                                       *)
OverriddenIn(ledger, like) ==
    like # None /\ like.superseded # None =>
        /\ Directed(ledger[like.superseded], like.from, like.to)
        /\ ledger[like.superseded].state = "superseded"

Superseding(r, like) ==
    At(r, "supersede_own") /\ like.superseded = req[r].livePass /\ Own(r, like)

PassInHand(r) ==
    req[r].at \in {"insert_like", "supersede_own"} /\ req[r].livePass # None =>
        Own(r, Seen(passes, r)[req[r].livePass])

OverrideInv ==
    /\ \A id \in LikeIds : OverriddenIn(Stored(passes), likes[id].row)
    /\ \A r \in Requests, id \in LikeIds : likes[id].by = r =>
          Superseding(r, likes[id].next) \/ OverriddenIn(Seen(passes, r), likes[id].next)
    /\ \A r \in Requests : PassInHand(r)

LEMMA InitOverrideInv == Init => OverrideInv
<1> SUFFICES ASSUME Init PROVE OverrideInv
  OBVIOUS
<1>1. \A r \in Requests : req[r].at = "idle"
  BY IdleType DEF Init
<1>2. \A id \in LikeIds : likes[id].row = None /\ likes[id].by = None
  BY DEF Init, Settled
<1> QED
  BY <1>1, <1>2, NoneAssumption DEF OverrideInv, OverriddenIn, PassInHand

LEMMA OverriddenKept ==
    ASSUME NEW old, NEW new, \A p \in PassIds : PassKept(old[p], new[p]),
           NEW like \in Likes, OverriddenIn(old, like)
    PROVE  OverriddenIn(new, like)
<1> SUFFICES ASSUME like # None, like.superseded # None
             PROVE  /\ Directed(new[like.superseded], like.from, like.to)
                    /\ new[like.superseded].state = "superseded"
  BY DEF OverriddenIn
<1>1. like.superseded \in PassIds
  BY DEF Likes, LikeRow
<1> QED
  BY <1>1 DEF OverriddenIn, PassKept, Directed

LEMMA LikeVersionTypes ==
    ASSUME TypeInv, NEW id \in LikeIds
    PROVE  likes[id].row \in Likes /\ likes[id].next \in Likes
  BY DEF TypeInv, TypeOK, Versions

LEMMA SeenOverridden ==
    ASSUME TypeInv, OverrideInv, NEW r \in Requests, NEW id \in LikeIds
    PROVE  \/ Superseding(r, Seen(likes, r)[id])
           \/ OverriddenIn(Seen(passes, r), Seen(likes, r)[id])
<1>1. CASE likes[id].by = r
  BY <1>1 DEF OverrideInv, Seen, TypeInv, TypeOK
<1>2. CASE likes[id].by # r
  <2>1. Seen(likes, r)[id] = likes[id].row
    BY <1>2 DEF Seen, TypeInv, TypeOK
  <2>2. OverriddenIn(Stored(passes), likes[id].row)
    BY DEF OverrideInv
  <2>3. \A p \in PassIds : PassKept(Stored(passes)[p], Seen(passes, r)[p])
    BY StoredKept
  <2> QED
    BY <2>1, <2>2, <2>3, LikeVersionTypes, OverriddenKept
<1> QED
  BY <1>1, <1>2

(* The live pass that was found is the one in that direction.                *)
LEMMA FoundPass ==
    ASSUME NEW rows, NEW a, NEW b, LivePassBetween(rows, a, b) # None
    PROVE  Directed(rows[LivePassBetween(rows, a, b)], a, b)
<1> DEFINE found == {p \in PassIds : Directed(rows[p], a, b) /\ rows[p].state = "live"}
<1>1. found # {} /\ LivePassBetween(rows, a, b) = CHOOSE p \in found : TRUE
  BY DEF LivePassBetween
<1>2. LivePassBetween(rows, a, b) \in found
  BY <1>1
<1> QED
  BY <1>2

(* A pass that is superseded is so afterwards, whoever did it.               *)
LEMMA SupersededSeen ==
    ASSUME TypeInv, NEW r \in Requests, NEW p \in PassIds, NEW a, NEW b,
           Directed(Seen(passes, r)[p], a, b), passes' = Supersede(passes, p, r)
    PROVE  /\ Directed(Seen(passes', r)[p], a, b)
           /\ Seen(passes', r)[p].state = "superseded"
<1> DEFINE row == Seen(passes, r)[p]
           moved == [row EXCEPT !.state = "superseded"]
<1>1. row \in PassRow /\ row # None
  BY ReadType DEF Directed, Passes
<1>2. CASE row.state = "live"
  <2>1. passes' = Put(passes, p, r, moved)
    BY <1>1, <1>2 DEF Supersede
  <2>2. moved \in PassRow /\ moved.from = row.from /\ moved.to = row.to
        /\ moved.state = "superseded"
    BY <1>1 DEF PassRow
  <2> HIDE DEF moved
  <2>3. Seen(passes', r)[p] = moved
    BY <2>1, PutSeen DEF TypeInv, TypeOK
  <2> QED
    BY <2>2, <2>3, RowAssumption DEF Directed
<1>3. CASE row.state # "live"
  <2>1. passes' = passes
    BY <1>1, <1>3 DEF Supersede
  <2>2. row.state = "superseded"
    BY <1>1, <1>3 DEF PassRow
  <2> QED
    BY <2>1, <2>2
<1> QED
  BY <1>2, <1>3

LEMMA OthersOverrideStep ==
    ASSUME TypeInv, TypeInv', OverrideInv, NEW r \in Requests, Acts(r),
           NEW q \in Requests \ {r}
    PROVE  /\ \A id \in LikeIds : likes'[id].by = q =>
                 Superseding(q, likes[id].next)' \/ OverriddenIn(Seen(passes', q), likes'[id].next)
           /\ PassInHand(q)'
<1>same. req'[q] = req[q] /\ q \in Requests
  BY OwnStep
<1>kept. \A p \in PassIds : PassKept(Seen(passes, q)[p], Seen(passes', q)[p])
  BY SeenKept
<1>1. ASSUME NEW id \in LikeIds, likes'[id].by = q
      PROVE  Superseding(q, likes[id].next)' \/ OverriddenIn(Seen(passes', q), likes'[id].next)
  <2>1. likes'[id] = likes[id]
    BY <1>1, OthersVersions
  <2>2. CASE Superseding(q, likes[id].next)
    BY <1>same, <2>1, <2>2 DEF Superseding, At, Own
  <2>3. CASE OverriddenIn(Seen(passes, q), likes[id].next)
    BY <1>kept, <2>1, <2>3, LikeVersionTypes, OverriddenKept
  <2> QED
    BY <1>same, <1>1, <2>1, <2>2, <2>3 DEF OverrideInv
<1>2. PassInHand(q)'
  <2> SUFFICES ASSUME req[q].at \in {"insert_like", "supersede_own"}, req[q].livePass # None
               PROVE  Own(q, Seen(passes', q)[req[q].livePass])
    BY <1>same DEF PassInHand, Own
  <2>1. req[q].livePass \in PassIds
    BY DEF TypeInv, TypeOK, RequestState
  <2>2. Own(q, Seen(passes, q)[req[q].livePass])
    BY <1>same DEF OverrideInv, PassInHand
  <2> QED
    BY <1>kept, <2>1, <2>2 DEF PassKept, Own, Directed
<1> QED
  BY <1>1, <1>2

LEMMA OwnOverrideStep ==
    ASSUME TypeInv, TypeInv', OverrideInv, NEW r \in Requests, Acts(r), ~Ends(r)
    PROVE  \A id \in LikeIds : likes'[id].by = r =>
              Superseding(r, likes[id].next)' \/ OverriddenIn(Seen(passes', r), likes'[id].next)
<1>type. likes \in [LikeIds -> Versions(Likes, Requests)] /\ req[r] \in RequestState
         /\ req \in [Requests -> RequestState]
  BY DEF TypeInv, TypeOK
<1>kept. \A p \in PassIds : PassKept(Seen(passes, r)[p], Seen(passes', r)[p])
  BY SeenKept
<1>goto. \A place : Goto(r, place) =>
           /\ req'[r].at = place /\ req'[r].livePass = req[r].livePass
           /\ req'[r].from = req[r].from /\ req'[r].to = req[r].to
  BY <1>type DEF Goto, RequestState
<1> SUFFICES ASSUME NEW id \in LikeIds, likes'[id].by = r
             PROVE  Superseding(r, likes[id].next)' \/ OverriddenIn(Seen(passes', r), likes'[id].next)
  OBVIOUS
<1>same. ASSUME likes'[id] = likes[id], ~At(r, "supersede_own")
         PROVE  OverriddenIn(Seen(passes', r), likes'[id].next)
  <2>1. OverriddenIn(Seen(passes, r), likes[id].next)
    BY <1>same DEF OverrideInv, Superseding
  <2> QED
    BY <1>kept, <1>same, <2>1, LikeVersionTypes, OverriddenKept
<1>1. CASE InsertLike(r)
  <2> DEFINE row == [from |-> req[r].from, to |-> req[r].to, state |-> "live",
                     superseded |-> req[r].livePass]
  <2>1. \/ likes' = likes
        \/ /\ likes' = Put(likes, req[r].id, r, row)
           /\ req[r].livePass # None => Goto(r, "supersede_own")
    BY <1>1 DEF InsertLike
  <2>2. CASE likes'[id] = likes[id]
    BY <1>1, <1>same, <2>2 DEF InsertLike, At
  <2>3. CASE likes'[id] # likes[id]
    <3>1. likes'[id].next = row /\ (req[r].livePass # None => Goto(r, "supersede_own"))
      BY <1>type, <2>1, <2>3 DEF Put
    <3>2. /\ row.superseded = req[r].livePass
          /\ row.from = req[r].from /\ row.to = req[r].to
      OBVIOUS
    <3>3. row # None
      <4>1. row \in LikeRow
        BY <1>type DEF LikeRow, RequestState
      <4> QED
        BY <4>1, RowAssumption
    <3> HIDE DEF row
    <3> QED
      BY <1>goto, <3>1, <3>2, <3>3 DEF Superseding, At, Own, Directed, OverriddenIn
  <2> QED
    BY <2>2, <2>3
<1>2. CASE MarkLike(r)
  <2> DEFINE key == Head(req[r].todo)
             row == Seen(likes, r)[key]
             state == IF req[r].op = "like" THEN "matched" ELSE "withdrawn"
             moved == [row EXCEPT !.state = state]
  <2>1. key \in LikeIds /\ ~At(r, "supersede_own")
    BY <1>2, <1>type DEF MarkLike, At, TypeInv, HandlerOK, RequestState
  <2>2. \/ likes' = likes
        \/ Movable(row, state) /\ likes' = Put(likes, key, r, moved)
    BY <1>2 DEF MarkLike
  <2>3. CASE likes'[id] = likes[id]
    BY <1>same, <2>1, <2>3
  <2>4. CASE likes'[id] # likes[id]
    <3>1. id = key /\ Movable(row, state) /\ likes'[id].next = moved
      BY <1>type, <2>2, <2>4 DEF Put
    <3>2. row \in LikeRow /\ row # None
      BY <3>1, <2>1, ReadType, RowAssumption DEF Movable, IsCurrentLike, Likes
    <3>3. moved.from = row.from /\ moved.to = row.to /\ moved.superseded = row.superseded
      BY <3>2 DEF LikeRow
    <3>4. OverriddenIn(Seen(passes, r), row)
      BY <2>1, SeenOverridden DEF Superseding
    <3> HIDE DEF row
    <3>5. OverriddenIn(Seen(passes', r), row)
      BY <1>kept, <3>2, <3>4, OverriddenKept DEF Likes
    <3> HIDE DEF moved
    <3>6. OverriddenIn(Seen(passes', r), moved)
      BY <3>2, <3>3, <3>5 DEF OverriddenIn
    <3> QED
      BY <3>1, <3>6
  <2> QED
    BY <2>3, <2>4
<1>3. CASE ~InsertLike(r) /\ ~MarkLike(r)
  <2>1. UNCHANGED likes
    BY <1>3 DEF Acts, Start, Step, Begin, BeginLike, BeginPass, BeginBlock, BeginUnmatch,
       ReadLikes, ReadPasses, RefuseLike, RefuseSecondLike, RecordLike, FindLivePass,
       SupersedeOwnPass, SupersedePassByPair, ResolveWithoutMatch, UpsertMatch, EndMatch,
       OpenChat, RefusePass, InsertPass, InsertBlock, FindMatch, CloseChat, Ends, tables
  <2>2. CASE At(r, "supersede_own")
    <3>1. SupersedeOwnPass(r)
      BY <2>2 DEF Acts, Start, Step, Begin, BeginLike, BeginPass, BeginBlock, BeginUnmatch,
       ReadLikes, ReadPasses, RefuseLike, RefuseSecondLike, RecordLike, FindLivePass, InsertLike,
       MarkLike, SupersedePassByPair, ResolveWithoutMatch, UpsertMatch, EndMatch,
       OpenChat, RefusePass, InsertPass, InsertBlock, FindMatch, CloseChat, Ends, At
    <3>2. CASE OverriddenIn(Seen(passes, r), likes[id].next)
      BY <1>kept, <2>1, <3>2, LikeVersionTypes, OverriddenKept
    <3>3. CASE Superseding(r, likes[id].next)
      <4>1. /\ req[r].livePass \in PassIds /\ likes[id].next.superseded = req[r].livePass
            /\ Own(r, likes[id].next) /\ Own(r, Seen(passes, r)[req[r].livePass])
        BY <2>2, <3>3, NoneAssumption DEF Superseding, TypeInv, HandlerOK, OverrideInv, PassInHand, At
      <4>2. passes' = Supersede(passes, req[r].livePass, r)
        BY <3>1 DEF SupersedeOwnPass
      <4>3. /\ Own(r, Seen(passes', r)[req[r].livePass])
            /\ Seen(passes', r)[req[r].livePass].state = "superseded"
        BY <4>1, <4>2, SupersededSeen DEF Own
      <4> QED
        BY <2>1, <4>1, <4>3 DEF OverriddenIn, Own, Directed
    <3> QED
      BY <2>1, <3>2, <3>3 DEF OverrideInv
  <2> QED
    BY <1>same, <2>1, <2>2
<1> QED
  BY <1>1, <1>2, <1>3

LEMMA OwnPassInHand ==
    ASSUME TypeInv, OverrideInv, NEW r \in Requests, Acts(r), ~Ends(r)
    PROVE  PassInHand(r)'
<1>req. req \in [Requests -> RequestState] /\ req[r] \in RequestState
  BY DEF TypeInv, TypeOK
<1>goto. \A place : Goto(r, place) =>
           /\ req'[r].at = place /\ req'[r].livePass = req[r].livePass
           /\ req'[r].from = req[r].from /\ req'[r].to = req[r].to
  BY <1>req DEF Goto, RequestState
<1>mark. \A ids, reply : Mark(r, ids, reply) => req'[r].at \in {"reply", "mark_likes"}
  BY <1>req DEF Mark, Forgetting, RequestState
<1>1. CASE FindLivePass(r)
  <2>1. /\ req'[r].livePass = LivePassBetween(Seen(passes, r), req[r].from, req[r].to)
        /\ req'[r].from = req[r].from /\ req'[r].to = req[r].to /\ passes' = passes
    BY <1>1, <1>req DEF FindLivePass, RequestState, tables
  <2> QED
    BY <2>1, FoundPass DEF PassInHand, Own
<1>2. CASE InsertLike(r)
  <2>1. /\ req'[r].livePass = req[r].livePass /\ passes' = passes /\ req[r].at = "insert_like"
        /\ req'[r].from = req[r].from /\ req'[r].to = req[r].to
    BY <1>2, <1>goto DEF InsertLike, At
  <2> QED
    BY <2>1 DEF PassInHand, Own, OverrideInv
<1>3. CASE \/ RefuseLike(r) \/ RefuseSecondLike(r) \/ RefusePass(r) \/ ResolveWithoutMatch(r)
           \/ OpenChat(r) \/ CloseChat(r) \/ InsertBlock(r) \/ SupersedeOwnPass(r)
           \/ SupersedePassByPair(r) \/ UpsertMatch(r) \/ InsertPass(r)
  <2>1. req'[r].at \notin {"insert_like", "supersede_own"}
    BY <1>3, <1>goto, <1>mark
    DEF RefuseLike, RefuseSecondLike, RefusePass, ResolveWithoutMatch, OpenChat, CloseChat,
        InsertBlock, SupersedeOwnPass, SupersedePassByPair, AfterAppend, UpsertMatch,
        InsertPass, Answer
  <2> QED
    BY <2>1 DEF PassInHand
<1>4. CASE Start(r) \/ ReadLikes(r) \/ ReadPasses(r) \/ RecordLike(r)
  <2>1. CASE Start(r)
    <3>1. req'[r].at \in {"read_likes", "insert_block", "find_match"}
      BY <2>1, <1>req
      DEF Start, Begin, BeginLike, BeginPass, BeginBlock, BeginUnmatch, Starting
    <3> QED
      BY <3>1 DEF PassInHand
  <2>2. CASE ReadLikes(r) \/ ReadPasses(r) \/ RecordLike(r)
    <3>1. ReadLikes(r) => req'[r].at = "read_passes"
      BY <1>req DEF ReadLikes, RequestState
    <3>2. ReadPasses(r) => req'[r].at \in {"read_blocks", "insert_pass"}
      BY <1>req DEF ReadPasses, RequestState
    <3>3. RecordLike(r) => req'[r].at = "find_live_pass"
      BY <1>req DEF RecordLike, RequestState
    <3> QED
      BY <2>2, <3>1, <3>2, <3>3 DEF PassInHand
  <2> QED
    BY <1>4, <2>1, <2>2
<1>5. CASE MarkLike(r) \/ FindMatch(r) \/ EndMatch(r)
  <2>1. req'[r].at \in {"mark_likes", "reply", "failed", After(req[r].op, "mark_likes"),
                        After(req[r].op, "find_match"), After(req[r].op, "end_match")}
    BY ZenonT(60), <1>5, <1>req, <1>goto, <1>mark DEF MarkLike, FindMatch, EndMatch, Answer, RequestState
  <2>2. \A place \in {"find_match", "end_match", "mark_likes"} :
           After(req[r].op, place) \notin {"insert_like", "supersede_own"}
    BY <1>req DEF After, RequestState, Ops
  <2> QED
    BY <2>1, <2>2 DEF PassInHand
<1> QED
  BY <1>1, <1>2, <1>3, <1>4, <1>5 DEF Acts, Step, Ends

LEMMA StoredOverrideStep ==
    ASSUME TypeInv, TypeInv', OverrideInv, NEW r \in Requests, Acts(r)
    PROVE  \A id \in LikeIds : OverriddenIn(Stored(passes'), likes'[id].row)
<1>stored. /\ \A p \in PassIds : Stored(passes)[p] = passes[p].row
           /\ \A p \in PassIds : Stored(passes')[p] = passes'[p].row
  BY DEF TypeInv, TypeOK, Stored
<1> SUFFICES ASSUME NEW id \in LikeIds PROVE OverriddenIn(Stored(passes'), likes'[id].row)
  OBVIOUS
<1>1. CASE /\ \A i \in LikeIds : likes'[i].row = Seen(likes, r)[i]
           /\ \A p \in PassIds : passes'[p].row = Seen(passes, r)[p]
           /\ At(r, "reply")
  <2>1. OverriddenIn(Seen(passes, r), Seen(likes, r)[id])
    BY <1>1, SeenOverridden DEF Superseding, At
  <2>2. \A p \in PassIds : PassKept(Seen(passes, r)[p], Stored(passes')[p])
    BY <1>1, <1>stored, KeptReflexive
  <2> QED
    BY <1>1, <2>1, <2>2, ReadType, OverriddenKept
<1>2. CASE /\ \A i \in LikeIds : likes'[i].row = likes[i].row
           /\ \A p \in PassIds : passes'[p].row = passes[p].row
  <2>1. OverriddenIn(Stored(passes), likes[id].row)
    BY DEF OverrideInv
  <2>2. \A p \in PassIds : PassKept(Stored(passes)[p], Stored(passes')[p])
    BY <1>2, <1>stored, KeptReflexive
  <2> QED
    BY <1>2, <2>1, <2>2, LikeVersionTypes, OverriddenKept
<1> QED
  BY <1>1, <1>2, EndKept, StoredStays

(* Thirty days passing changes no direction and no state of a pass.          *)
LEMMA ExpireOverrideStep ==
    ASSUME TypeInv, OverrideInv, NEW k \in PassIds, ExpirePass(k)
    PROVE  OverrideInv'
<1>same. UNCHANGED <<likes, req>>
  BY DEF ExpirePass
<1>1. /\ passes \in [PassIds -> Versions(Passes, Requests)]
      /\ passes' \in [PassIds -> Versions(Passes, Requests)]
  BY ExpireStep DEF TypeInv, TypeOK
<1>2. \A p \in PassIds : PassKept(Stored(passes)[p], Stored(passes')[p])
  BY <1>1, ExpireStep DEF Stored
<1>3. \A q \in Requests : \A p \in PassIds : PassKept(Seen(passes, q)[p], Seen(passes', q)[p])
  BY <1>1, ExpireStep DEF Seen
<1>4. ASSUME NEW id \in LikeIds PROVE OverriddenIn(Stored(passes'), likes[id].row)
  <2>1. OverriddenIn(Stored(passes), likes[id].row)
    BY DEF OverrideInv
  <2> QED
    BY <1>2, <2>1, LikeVersionTypes, OverriddenKept
<1>5. ASSUME NEW q \in Requests, NEW id \in LikeIds, likes[id].by = q
      PROVE  Superseding(q, likes[id].next) \/ OverriddenIn(Seen(passes', q), likes[id].next)
  <2>1. Superseding(q, likes[id].next) \/ OverriddenIn(Seen(passes, q), likes[id].next)
    BY <1>5 DEF OverrideInv
  <2> QED
    BY <1>3, <2>1, LikeVersionTypes, OverriddenKept
<1>6. ASSUME NEW q \in Requests, req[q].at \in {"insert_like", "supersede_own"},
             req[q].livePass # None
      PROVE  Own(q, Seen(passes', q)[req[q].livePass])
  <2>1. req[q].livePass \in PassIds
    BY <1>6 DEF TypeInv, TypeOK, RequestState
  <2>2. Own(q, Seen(passes, q)[req[q].livePass])
    BY <1>6 DEF OverrideInv, PassInHand
  <2> QED
    BY <1>3, <2>1, <2>2 DEF PassKept, Own, Directed
<1> QED
  BY <1>same, <1>4, <1>5, <1>6 DEF OverrideInv, Superseding, PassInHand, Own, At

LEMMA OverrideInvStep == TypeInv /\ OverrideInv /\ [Next]_vars => OverrideInv'
<1> SUFFICES ASSUME TypeInv, OverrideInv, [Next]_vars PROVE OverrideInv'
  OBVIOUS
<1>type. TypeInv'
  BY TypeInvStep
<1>1. CASE UNCHANGED vars
  BY <1>1 DEF OverrideInv, Superseding, PassInHand, Own, At, vars
<1>2. ASSUME NEW r \in Requests, Acts(r) PROVE OverrideInv'
  <2>1. ASSUME NEW q \in Requests
        PROVE  /\ \A id \in LikeIds : likes'[id].by = q =>
                     Superseding(q, likes[id].next)' \/ OverriddenIn(Seen(passes', q), likes'[id].next)
               /\ PassInHand(q)'
    <3>1. CASE q # r
      BY <1>2, <1>type, <3>1, OthersOverrideStep
    <3>2. CASE q = r /\ Ends(r)
      <4>1. PassInHand(r)'
        BY <3>2, EndStep, IdleType DEF PassInHand
      <4> QED
        BY <3>2, <4>1, EndReleases
    <3>3. CASE q = r /\ ~Ends(r)
      BY <1>2, <1>type, <3>3, OwnOverrideStep, OwnPassInHand
    <3> QED
      BY <3>1, <3>2, <3>3
  <2>2. \A id \in LikeIds : OverriddenIn(Stored(passes'), likes'[id].row)
    BY <1>2, <1>type, StoredOverrideStep
  <2> QED
    BY <2>1, <2>2 DEF OverrideInv
<1>3. ASSUME NEW p \in PassIds, ExpirePass(p) PROVE OverrideInv'
  BY <1>3, ExpireOverrideStep
<1> QED
  BY <1>1, <1>2, <1>3 DEF Next, Acts

(* However requests interleave and passes age, a like on record that names   *)
(* the pass it overrode names the liker's own, and that one is superseded.   *)
THEOREM OverriddenPassAlwaysSuperseded == Spec => []OverriddenPassIsSuperseded
<1>1. TypeInv /\ OverrideInv => OverriddenPassIsSuperseded
  <2> SUFFICES ASSUME TypeInv, OverrideInv, NEW id \in LikeIds,
                      Like[id] # None, Like[id].superseded # None
               PROVE  LET pass == Pass[Like[id].superseded]
                      IN  /\ Directed(pass, Like[id].from, Like[id].to)
                          /\ pass.state = "superseded"
    BY DEF OverriddenPassIsSuperseded
  <2>1. Like[id] = likes[id].row
    BY StoredRows DEF Like
  <2>2. OverriddenIn(Pass, Like[id])
    BY <2>1 DEF OverrideInv, Pass
  <2> QED
    BY <2>2 DEF OverriddenIn
<1>2. TypeInv /\ OverrideInv /\ [Next]_vars => (TypeInv /\ OverrideInv)'
  BY TypeInvStep, OverrideInvStep
<1> QED
  BY <1>1, <1>2, InitTypeInv, InitOverrideInv, PTL DEF Spec

-----------------------------------------------------------------------------
(* A conversation agrees with its match *)

(* ChatAgreesWithMatch is not inductive: a transaction writes the match well *)
(* before the conversation.  What makes it hold is that whoever writes a     *)
(* conversation holds the row of its match, and holds no other match.        *)
Made(old, new) == new # None /\ new.end = IF old = None THEN "open" ELSE old.end

MatchHeld(r, p) ==
    /\ p = PairOf(r)
    /\ req[r].at \in {"mark_likes", "open_chat", "close_chat", "reply"}
    /\ \/ /\ req[r].op = "like" /\ ~At(r, "close_chat")
          /\ Made(matches[p].row, matches[p].next)
       \/ /\ req[r].op \in {"block", "unmatch"} /\ ~At(r, "open_chat")
          /\ matches[p].row # None /\ matches[p].next # None
          /\ matches[p].next.end = EndedAs(req[r].op)
          /\ req[r].op = "block" => blocks[p].by = r
    /\ IF At(r, "reply") THEN Seen(chats, r)[p] = ChatOf(matches[p].next)
                         ELSE chats[p].by # r

BlockHeld(r, p) ==
    /\ p = PairOf(r) /\ req[r].op = "block" /\ req[r].at \notin {"idle", "insert_block"}
    /\ blocks[p].row = None /\ blocks[p].next # None

HoldsWhatItNeeds(r) ==
    /\ At(r, "insert_block") => req[r].op = "block"
    /\ req[r].op = "block" /\ req[r].at \in {"find_match", "end_match"} =>
          blocks[PairOf(r)].by = r
    /\ \/ req[r].at \in {"open_chat", "close_chat"}
       \/ req[r].at = "mark_likes" /\ req[r].op # "pass"
       => matches[PairOf(r)].by = r

ChatInv ==
    /\ \A p \in Pairs : chats[p].row = ChatOf(matches[p].row)
    /\ \A p \in Pairs : chats[p].by \in {None, matches[p].by}
    /\ \A r \in Requests, p \in Pairs : matches[p].by = r => MatchHeld(r, p)
    /\ \A r \in Requests, p \in Pairs : blocks[p].by = r => BlockHeld(r, p)
    /\ \A r \in Requests, id \in LikeIds : likes[id].by = r /\ likes[id].row = None =>
          req[r].op = "like" /\ Own(r, likes[id].next)
    /\ \A r \in Requests : HoldsWhatItNeeds(r)

LEMMA InitChatInv == Init => ChatInv
<1> SUFFICES ASSUME Init PROVE ChatInv
  OBVIOUS
<1>1. \A r \in Requests : HoldsWhatItNeeds(r)
  BY IdleType DEF Init, HoldsWhatItNeeds, At
<1>2. \A p \in Pairs : /\ matches[p].row = None /\ matches[p].by = None
                       /\ chats[p].row = None /\ chats[p].by = None /\ blocks[p].by = None
  BY DEF Init, Settled
<1>3. \A id \in LikeIds : likes[id].by = None
  BY DEF Init, Settled
<1>4. ChatOf(None) = None
  BY DEF ChatOf
<1> QED
  BY <1>1, <1>2, <1>3, <1>4, NoneAssumption DEF ChatInv

(* A conversation exists when its match does.                                *)
LEMMA ChatOfType ==
    ASSUME NEW match \in MatchRow \cup {None}
    PROVE  /\ ChatOf(match) \in ChatStates \cup {None}
           /\ ChatOf(match) = None <=> match = None
<1>1. CASE match = None
  BY <1>1 DEF ChatOf
<1>2. CASE match \in MatchRow
  <2>1. match # None /\ match.end \in {"open", "unmatched", "ended_by_block"}
    BY <1>2, RowAssumption DEF MatchRow
  <2>2. ChatOf(match) \in ChatStates
    BY <2>1 DEF ChatOf, ChatStates
  <2> QED
    BY <2>1, <2>2, NoneAssumption
<1> QED
  BY <1>1, <1>2

LEMMA ChatTables ==
    ASSUME TypeInv
    PROVE  /\ likes \in [LikeIds -> Versions(Likes, Requests)]
           /\ blocks \in [Pairs -> Versions(Users \cup {None}, Requests)]
           /\ matches \in [Pairs -> Versions(MatchRow \cup {None}, Requests)]
           /\ chats \in [Pairs -> Versions(ChatStates \cup {None}, Requests)]
           /\ req \in [Requests -> RequestState]
           /\ \A p \in Pairs : /\ matches[p].row \in MatchRow \cup {None}
                               /\ matches[p].next \in MatchRow \cup {None}
                               /\ matches[p].by \in Requests \cup {None}
  BY DEF TypeInv, TypeOK, Versions

(* Between its start and its end a request stays one request, and most of    *)
(* its steps touch neither a match, nor a block, nor a conversation.         *)
Working(r) == Acts(r) /\ ~Start(r) /\ ~Ends(r)

Quiet(r) ==
    \/ ReadLikes(r) \/ ReadPasses(r) \/ RefuseLike(r) \/ RefuseSecondLike(r) \/ RecordLike(r)
    \/ FindLivePass(r) \/ SupersedeOwnPass(r) \/ SupersedePassByPair(r)
    \/ ResolveWithoutMatch(r) \/ RefusePass(r) \/ InsertPass(r) \/ InsertLike(r)

HeldPlaces == {"insert_block", "find_match", "end_match", "mark_likes", "open_chat",
               "close_chat", "reply", "failed", "idle"}

LEMMA WorkingStep ==
    ASSUME TypeInv, NEW r \in Requests, Working(r)
    PROVE  /\ SameRequest(r) /\ PairOf(r)' = PairOf(r) /\ PairOf(r) \in Pairs
           /\ \/ Quiet(r) \/ UpsertMatch(r) \/ MarkLike(r) \/ OpenChat(r) \/ InsertBlock(r)
              \/ FindMatch(r) \/ EndMatch(r) \/ CloseChat(r)
<1>1. /\ \/ Quiet(r) \/ UpsertMatch(r) \/ MarkLike(r) \/ OpenChat(r) \/ InsertBlock(r)
         \/ FindMatch(r) \/ EndMatch(r) \/ CloseChat(r)
  BY DEF Working, Acts, Ends, Step, Quiet
<1>2. ~At(r, "idle")
  BY <1>1 DEF Quiet, ReadLikes, ReadPasses, RefuseLike, RefuseSecondLike, RecordLike,
     FindLivePass, SupersedeOwnPass, SupersedePassByPair, ResolveWithoutMatch, RefusePass,
     InsertPass, InsertLike, UpsertMatch, MarkLike, OpenChat, InsertBlock, FindMatch,
     EndMatch, CloseChat, At
<1>3. SameRequest(r)
  BY OwnStep DEF Working
<1> QED
  BY <1>1, <1>2, <1>3, ReadType DEF SameRequest, PairOf

LEMMA QuietStep ==
    ASSUME TypeInv, NEW r \in Requests, Quiet(r)
    PROVE  /\ UNCHANGED <<blocks, matches, chats>>
           /\ req[r].at \notin HeldPlaces
           /\ req'[r].at \notin {"idle", "insert_block", "find_match", "end_match", "open_chat",
                                 "close_chat"}
           /\ req'[r].at = "mark_likes" => req[r].op = "pass"
<1>req. req \in [Requests -> RequestState] /\ req[r] \in RequestState
  BY DEF TypeInv, TypeOK
<1>1. UNCHANGED <<blocks, matches, chats>> /\ req[r].at \notin HeldPlaces
  BY DEF Quiet, ReadLikes, ReadPasses, RefuseLike, RefuseSecondLike, RecordLike,
     FindLivePass, SupersedeOwnPass, SupersedePassByPair, ResolveWithoutMatch, RefusePass,
     InsertPass, InsertLike, At, tables, HeldPlaces
<1>goto. \A place : Goto(r, place) => req'[r].at = place
  BY <1>req DEF Goto, RequestState
<1>mark. \A ids, reply : Mark(r, ids, reply) => req'[r].at \in {"mark_likes", "reply"}
  BY <1>req DEF Mark, Forgetting, RequestState
<1>answer. \A reply : Answer(r, reply) => req'[r].at = "reply"
  BY <1>req DEF Answer, Mark, Forgetting, RequestState
<1>2. CASE ReadLikes(r) \/ ReadPasses(r) \/ RecordLike(r) \/ FindLivePass(r)
  <2>1. ReadLikes(r) => req'[r].at = "read_passes"
    BY <1>req DEF ReadLikes, RequestState
  <2>2. ReadPasses(r) => req'[r].at \in {"read_blocks", "insert_pass"}
    BY <1>req DEF ReadPasses, RequestState
  <2>3. RecordLike(r) => req'[r].at = "find_live_pass"
    BY <1>req DEF RecordLike, RequestState
  <2>4. FindLivePass(r) => req'[r].at = "insert_like"
    BY <1>req DEF FindLivePass, RequestState
  <2> QED
    BY <1>1, <1>2, <2>1, <2>2, <2>3, <2>4
<1>3. CASE RefuseLike(r) \/ RefuseSecondLike(r) \/ ResolveWithoutMatch(r) \/ RefusePass(r)
  BY <1>1, <1>3, <1>goto, <1>answer
  DEF RefuseLike, RefuseSecondLike, ResolveWithoutMatch, RefusePass
<1>4. CASE SupersedeOwnPass(r) \/ SupersedePassByPair(r) \/ InsertLike(r)
  BY <1>1, <1>4, <1>goto DEF SupersedeOwnPass, SupersedePassByPair, InsertLike, AfterAppend
<1>5. CASE InsertPass(r)
  <2>1. req[r].op = "pass"
    BY <1>5 DEF InsertPass, TypeInv, HandlerOK, At
  <2> QED
    BY <1>1, <1>5, <2>1, <1>goto, <1>mark DEF InsertPass
<1> QED
  BY <1>1, <1>2, <1>3, <1>4, <1>5 DEF Quiet

(* What a working request holds it goes on holding; what is stored stays.    *)
LEMMA HeldStays ==
    ASSUME TypeInv, NEW r \in Requests, Acts(r), ~Ends(r)
    PROVE  /\ \A p \in Pairs : matches[p].by = r => matches'[p].by = r
           /\ \A p \in Pairs : blocks[p].by = r => blocks'[p].by = r
           /\ \A p \in Pairs : chats'[p].row = chats[p].row /\ blocks'[p].row = blocks[p].row
<1>1. \A p \in Pairs : matches[p].by = r => matches'[p].by = r
  BY MatchWrites, ChatTables DEF WritesMatch, Put
<1>2. UNCHANGED blocks \/ InsertBlock(r)
  BY DEF Acts, Start, Step, Begin, BeginLike, BeginPass, BeginBlock, BeginUnmatch,
       ReadLikes, ReadPasses, RefuseLike, RefuseSecondLike, RecordLike, FindLivePass,
       InsertLike, SupersedeOwnPass, SupersedePassByPair, ResolveWithoutMatch, UpsertMatch,
       MarkLike, OpenChat, RefusePass, InsertPass, FindMatch, EndMatch, CloseChat, tables,
       Ends
<1>3. UNCHANGED chats \/ OpenChat(r) \/ CloseChat(r)
  BY DEF Acts, Start, Step, Begin, BeginLike, BeginPass, BeginBlock, BeginUnmatch,
       ReadLikes, ReadPasses, RefuseLike, RefuseSecondLike, RecordLike, FindLivePass,
       InsertLike, SupersedeOwnPass, SupersedePassByPair, ResolveWithoutMatch, UpsertMatch,
       MarkLike, RefusePass, InsertPass, InsertBlock, FindMatch, EndMatch, tables, Ends
<1>4. \A p \in Pairs : blocks'[p].row = blocks[p].row /\ (blocks[p].by = r => blocks'[p].by = r)
  BY <1>2, ChatTables DEF InsertBlock, Put
<1>5. \A p \in Pairs : chats'[p].row = chats[p].row
  BY <1>3, ChatTables DEF OpenChat, CloseChat, Put
<1> QED
  BY <1>1, <1>4, <1>5

(* Only who holds a match touches its conversation.                          *)
LEMMA ChatTouchedByHolder ==
    ASSUME TypeInv, ChatInv, NEW r \in Requests, Acts(r), NEW p \in Pairs, matches[p].by # r
    PROVE  chats'[p] = chats[p]
<1>1. chats[p].by # r
  BY NoneAssumption DEF ChatInv
<1>2. CASE OpenChat(r) \/ CloseChat(r)
  <2>1. matches[PairOf(r)].by = r
    BY <1>2 DEF ChatInv, HoldsWhatItNeeds, OpenChat, CloseChat, At
  <2> QED
    BY <1>2, <2>1, ChatTables DEF OpenChat, CloseChat, Put
<1>3. CASE chats' \in {Commit(chats, r), Rollback(chats, r)}
  BY <1>1, <1>3, ChatTables DEF Commit, Rollback
<1>4. CASE UNCHANGED chats
  BY <1>4
<1>5. ASSUME ~OpenChat(r), ~CloseChat(r)
      PROVE  UNCHANGED chats \/ chats' \in {Commit(chats, r), Rollback(chats, r)}
  <2>1. CASE Ends(r)
    BY <2>1, EndStep
  <2>2. CASE ~Ends(r)
    BY <1>5, <2>2 DEF Acts, Start, Step, Begin, BeginLike, BeginPass, BeginBlock, BeginUnmatch,
       ReadLikes, ReadPasses, RefuseLike, RefuseSecondLike, RecordLike, FindLivePass,
       InsertLike, SupersedeOwnPass, SupersedePassByPair, ResolveWithoutMatch, UpsertMatch,
       MarkLike, RefusePass, InsertPass, InsertBlock, FindMatch, EndMatch, tables, Ends
  <2> QED
    BY <2>1, <2>2
<1> QED
  BY <1>2, <1>3, <1>4, <1>5

(* Of the other requests nothing changes.                                    *)
LEMMA OthersChatStep ==
    ASSUME TypeInv, ChatInv, NEW r \in Requests, Acts(r), NEW q \in Requests \ {r}
    PROVE  /\ \A p \in Pairs : matches'[p].by = q => MatchHeld(q, p)'
           /\ \A p \in Pairs : blocks'[p].by = q => BlockHeld(q, p)'
           /\ \A id \in LikeIds : likes'[id].by = q /\ likes'[id].row = None =>
                 req'[q].op = "like" /\ Own(q, likes[id].next)'
           /\ HoldsWhatItNeeds(q)'
<1>same. req'[q] = req[q] /\ PairOf(q)' = PairOf(q)
  BY OwnStep DEF PairOf
<1>pair. ~At(q, "idle") => PairOf(q) \in Pairs
  BY ReadType
<1>others. /\ \A id \in LikeIds : likes[id].by = q \/ likes'[id].by = q => likes'[id] = likes[id]
           /\ \A p \in Pairs : blocks[p].by = q \/ blocks'[p].by = q => blocks'[p] = blocks[p]
           /\ \A p \in Pairs : matches[p].by = q \/ matches'[p].by = q => matches'[p] = matches[p]
  BY OthersVersions
<1>1. ASSUME NEW p \in Pairs, matches'[p].by = q PROVE MatchHeld(q, p)'
  <2>1. matches'[p] = matches[p] /\ matches[p].by = q /\ MatchHeld(q, p)
    BY <1>1, <1>others DEF ChatInv
  <2>2. chats'[p] = chats[p]
    BY <2>1, ChatTouchedByHolder
  <2>3. Seen(chats', q)[p] = Seen(chats, q)[p]
    <3>1. DOMAIN chats = Pairs /\ DOMAIN chats' = Pairs
      BY TableTypeStep, ChatTables
    <3> QED
      BY <2>2, <3>1 DEF Seen
  <2>4. req[q].op = "block" => blocks'[p].by = q
    BY <1>others, <2>1 DEF MatchHeld
  <2> QED
    BY <1>same, <2>1, <2>2, <2>3, <2>4 DEF MatchHeld, At
<1>2. ASSUME NEW p \in Pairs, blocks'[p].by = q PROVE BlockHeld(q, p)'
  <2>1. blocks'[p] = blocks[p] /\ BlockHeld(q, p)
    BY <1>2, <1>others DEF ChatInv
  <2> QED
    BY <1>same, <2>1 DEF BlockHeld
<1>3. ASSUME NEW id \in LikeIds, likes'[id].by = q, likes'[id].row = None
      PROVE  req'[q].op = "like" /\ Own(q, likes[id].next)'
  <2>1. likes'[id] = likes[id] /\ req[q].op = "like" /\ Own(q, likes[id].next)
    BY <1>3, <1>others DEF ChatInv
  <2> QED
    BY <1>same, <2>1 DEF Own
<1>4. HoldsWhatItNeeds(q)'
  <2>1. HoldsWhatItNeeds(q)
    BY DEF ChatInv
  <2> QED
    BY <1>same, <1>pair, <1>others, <2>1 DEF HoldsWhatItNeeds, At
<1> QED
  BY <1>1, <1>2, <1>3, <1>4

(* A request that starts holds nothing.                                      *)
LEMMA StartChatStep ==
    ASSUME TypeInv, IndexInv, ChatInv, NEW r \in Requests, Start(r)
    PROVE  /\ \A p \in Pairs : matches'[p].by # r /\ blocks'[p].by # r
           /\ \A id \in LikeIds : likes'[id].by # r
           /\ HoldsWhatItNeeds(r)'
<1>req. req \in [Requests -> RequestState]
  BY DEF TypeInv, TypeOK
<1>1. UNCHANGED tables /\ req[r].at = "idle"
  BY DEF Start, Begin, BeginLike, BeginPass, BeginBlock, BeginUnmatch, At
<1>2. \/ req'[r].at = "read_likes"
      \/ req'[r].at = "insert_block" /\ req'[r].op = "block"
      \/ req'[r].at = "find_match" /\ req'[r].op = "unmatch"
  BY <1>req DEF Start, Begin, BeginLike, BeginPass, BeginBlock, BeginUnmatch, Starting
<1>3. HoldsWhatItNeeds(r)'
  BY <1>2 DEF HoldsWhatItNeeds, At
<1>4. \A id \in LikeIds : likes[id].by # r
  BY <1>1 DEF IndexInv, Reading
<1>5. \A p \in Pairs : matches[p].by # r /\ blocks[p].by # r
  BY <1>1 DEF ChatInv, MatchHeld, BlockHeld
<1> QED
  BY <1>1, <1>3, <1>4, <1>5 DEF tables

LEMMA EndedAsChat ==
    ASSUME NEW match \in MatchRow, NEW op \in {"block", "unmatch"}, match.end = EndedAs(op)
    PROVE  ChatOf(match) = ClosedAs(op)
  BY RowAssumption DEF ChatOf, EndedAs, ClosedAs

(* What a new or converged match is.                                         *)
LEMMA ConvergedMade ==
    ASSUME NEW stored \in MatchRow \cup {None}, NEW ids \in Seq(LikeIds),
           Converged(stored, ids) \in MatchRow
    PROVE  Made(stored, Converged(stored, ids))
<1>1. CASE stored = None
  BY <1>1, RowAssumption DEF Made, Converged
<1>2. CASE stored \in MatchRow
  <2> DEFINE more == stored.likeIds \o Unlisted(ids, stored.likeIds)
  <2>1. Converged(stored, ids) = [stored EXCEPT !.likeIds = more]
    BY <1>2, RowAssumption DEF Converged
  <2> HIDE DEF more
  <2>2. Converged(stored, ids).end = stored.end
    BY <1>2, <2>1 DEF MatchRow
  <2> QED
    BY <1>2, <2>2, RowAssumption DEF Made
<1> QED
  BY <1>1, <1>2

LEMMA OwnMatchHeld ==
    ASSUME TypeInv, ChatInv, NEW r \in Requests, Working(r), NEW p \in Pairs, matches'[p].by = r
    PROVE  MatchHeld(r, p)'
<1>same. /\ req'[r].op = req[r].op /\ PairOf(r)' = PairOf(r) /\ PairOf(r) \in Pairs
         /\ req[r] \in RequestState /\ req \in [Requests -> RequestState]
  BY WorkingStep, ChatTables DEF SameRequest
<1>ok. HandlerOK(r)
  BY DEF TypeInv
<1>goto. \A place : Goto(r, place) => req'[r].at = place
  BY <1>same DEF Goto, RequestState
<1>answer. \A reply : Answer(r, reply) => req'[r].at = "reply"
  BY <1>same DEF Answer, Mark, Forgetting, RequestState
<1>held. matches[p].by = r => MatchHeld(r, p)
  BY DEF ChatInv
<1>free. matches[p].by # r => /\ Seen(matches, r)[p] = matches[p].row
                              /\ chats[p].by # r
  BY ChatTables, NoneAssumption DEF Seen, ChatInv
<1>blocks. blocks[p].by = r => blocks'[p].by = r
  BY HeldStays DEF Working
<1>1. CASE Quiet(r)
  <2>1. matches' = matches /\ req[r].at \notin HeldPlaces
    BY <1>1, QuietStep
  <2> QED
    BY <1>held, <2>1 DEF MatchHeld, HeldPlaces
<1>2. CASE UpsertMatch(r)
  <2> DEFINE row == Converged(Seen(matches, r)[PairOf(r)], MatchLikes(r))
  <2>1. /\ matches' = Put(matches, PairOf(r), r, row) /\ chats' = chats
        /\ req[r].at = "resolve" /\ req[r].op = "like"
    BY <1>2, <1>ok DEF UpsertMatch, HandlerOK, At
  <2>2. matches[p].by # r
    BY <1>held, <2>1 DEF MatchHeld
  <2>3. p = PairOf(r) /\ matches'[p].row = matches[p].row /\ matches'[p].next = row
    BY <2>1, <2>2, ChatTables DEF Put
  <2>4. row = Converged(matches[p].row, MatchLikes(r))
    BY <1>free, <2>2, <2>3
  <2>5. row \in MatchRow
    <3>1. row \in MatchRow \cup {None}
      BY <2>3, TableTypeStep DEF Working, Versions
    <3>2. Lists(row, req[r].id)
      <4>1. MatchLikes(r) \in Seq(LikeIds) /\ DOMAIN MatchLikes(r) = {1, 2}
        BY <1>2, MatchLikesType
      <4>2. req[r].id \in Range(MatchLikes(r))
        BY <4>1 DEF MatchLikes, Range
      <4> QED
        BY <2>3, <2>4, <4>1, <4>2, ConvergedLists, ChatTables
    <3> QED
      BY <3>1, <3>2 DEF Lists
  <2>6. Made(matches[p].row, row)
    BY <1>2, <2>4, <2>5, MatchLikesType, ConvergedMade, ChatTables
  <2>7. req'[r].at = "mark_likes"
    <3>1. MatchLikes(r) # <<>>
      BY DEF MatchLikes
    <3> QED
      BY <1>2, <1>same, <3>1 DEF UpsertMatch, Mark, Forgetting, RequestState
  <2> HIDE DEF row
  <2> QED
    BY <1>same, <1>free, <2>1, <2>2, <2>3, <2>6, <2>7 DEF MatchHeld, At
<1>3. CASE EndMatch(r)
  <2> DEFINE stored == Seen(matches, r)[PairOf(r)]
             row == [stored EXCEPT !.end = EndedAs(req[r].op)]
  <2>1. /\ matches' = Put(matches, PairOf(r), r, row) /\ chats' = chats
        /\ req[r].at = "end_match" /\ req[r].op \in {"block", "unmatch"}
        /\ stored # None /\ stored \in MatchRow
    BY <1>3, <1>ok, <1>same, ReadType DEF EndMatch, HandlerOK, At
  <2>2. matches[p].by # r
    BY <1>held, <2>1 DEF MatchHeld
  <2>3. p = PairOf(r) /\ matches'[p].row = matches[p].row /\ matches'[p].next = row
    BY <2>1, <2>2, ChatTables DEF Put
  <2>4. matches[p].row # None
    BY <1>free, <2>1, <2>2, <2>3
  <2>5. row \in MatchRow /\ row.end = EndedAs(req[r].op) /\ row # None
    <3> HIDE DEF stored
    <3>1. row \in MatchRow /\ row.end = EndedAs(req[r].op)
      BY <2>1 DEF MatchRow, EndedAs
    <3> QED
      BY <3>1, RowAssumption
  <2>6. req'[r].at = "mark_likes"
    BY <1>3, <1>goto, <2>1 DEF EndMatch, After
  <2>7. req[r].op = "block" => blocks[p].by = r
    BY <2>1, <2>3 DEF ChatInv, HoldsWhatItNeeds
  <2> HIDE DEF row
  <2> QED
    BY <1>same, <1>free, <1>blocks, <2>1, <2>2, <2>3, <2>4, <2>5, <2>6, <2>7 DEF MatchHeld, At
<1>4. CASE MarkLike(r)
  <2>1. /\ matches' = matches /\ chats' = chats /\ req[r].at = "mark_likes"
        /\ req'[r].at \in {"mark_likes", After(req[r].op, "mark_likes")}
    BY <1>4, <1>same DEF MarkLike, At, RequestState
  <2>2. MatchHeld(r, p)
    BY <1>held, <2>1
  <2>3. /\ req[r].op = "like" => After(req[r].op, "mark_likes") = "open_chat"
        /\ req[r].op \in {"block", "unmatch"} => After(req[r].op, "mark_likes") = "close_chat"
    BY DEF After
  <2> QED
    BY <1>same, <1>blocks, <2>1, <2>2, <2>3 DEF MatchHeld, At
<1>5. CASE OpenChat(r)
  <2>1. /\ matches' = matches /\ req[r].at = "open_chat" /\ req'[r].at = "reply"
        /\ chats' = IF MustOpen(r) THEN Put(chats, PairOf(r), r, "active") ELSE chats
        /\ req[r].op = "like"
    BY <1>5, <1>ok, <1>answer DEF OpenChat, At, HandlerOK
  <2>2. /\ MatchHeld(r, p) /\ p = PairOf(r) /\ chats[p].by # r
        /\ Made(matches[p].row, matches[p].next)
    BY <1>held, <2>1 DEF MatchHeld, At
  <2>3. Seen(chats, r)[p] = ChatOf(matches[p].row)
    BY <2>2, ChatTables DEF Seen, ChatInv
  <2>4. Seen(chats', r)[p] = ChatOf(matches[p].next)
    <3>1. CASE matches[p].row = None
      <4>1. matches[p].next # None /\ matches[p].next.end = "open"
        BY <2>2, <3>1 DEF Made
      <4>2. ChatOf(matches[p].next) = "active"
        BY <4>1 DEF ChatOf
      <4>3. MustOpen(r)
        BY <2>2, <2>3, <3>1 DEF MustOpen, ChatOf
      <4> QED
        BY <1>same, <2>1, <2>2, <4>2, <4>3, PutSeen, ChatTables
    <3>2. CASE matches[p].row # None
      <4>1. ~MustOpen(r)
        BY <2>2, <2>3, <3>2, ChatOfType, ChatTables DEF MustOpen
      <4>2. ChatOf(matches[p].next) = ChatOf(matches[p].row)
        BY <2>2, <3>2 DEF Made, ChatOf
      <4> QED
        BY <2>1, <2>3, <4>1, <4>2
    <3> QED
      BY <3>1, <3>2
  <2> QED
    BY <1>same, <2>1, <2>2, <2>4 DEF MatchHeld, At
<1>6. CASE CloseChat(r)
  <2>1. /\ matches' = matches /\ req[r].at = "close_chat" /\ req'[r].at = "reply"
        /\ chats' = Put(chats, PairOf(r), r, ClosedAs(req[r].op))
        /\ req[r].op \in {"block", "unmatch"}
    BY <1>6, <1>ok, <1>answer DEF CloseChat, At, HandlerOK
  <2>2. /\ MatchHeld(r, p) /\ p = PairOf(r)
        /\ matches[p].row # None /\ matches[p].next # None
        /\ matches[p].next.end = EndedAs(req[r].op)
        /\ req[r].op = "block" => blocks[p].by = r
    BY <1>held, <2>1 DEF MatchHeld, At
  <2>3. Seen(chats', r)[p] = ClosedAs(req[r].op)
    BY <1>same, <2>1, <2>2, PutSeen, ChatTables
  <2>4. ChatOf(matches[p].next) = ClosedAs(req[r].op)
    BY <2>1, <2>2, EndedAsChat, ChatTables
  <2> QED
    BY <1>same, <1>blocks, <2>1, <2>2, <2>3, <2>4 DEF MatchHeld, At
<1>7. CASE InsertBlock(r) \/ FindMatch(r)
  <2>1. matches' = matches /\ req[r].at \in {"insert_block", "find_match"}
    BY <1>7 DEF InsertBlock, FindMatch, At, tables
  <2> QED
    BY <1>held, <2>1 DEF MatchHeld
<1> QED
  BY <1>1, <1>2, <1>3, <1>4, <1>5, <1>6, <1>7, WorkingStep

LEMMA FindMatchMoves ==
    ASSUME TypeInv, NEW r \in Requests, FindMatch(r)
    PROVE  req'[r].at \in {"reply", "failed", After(req[r].op, "find_match")}
<1>req. req \in [Requests -> RequestState]
  BY DEF TypeInv, TypeOK
<1> DEFINE place == After(req[r].op, "find_match")
<1>1. \/ \E reply : Answer(r, reply)
      \/ Goto(r, "failed")
      \/ req' = [req EXCEPT ![r] = [@ EXCEPT !.todo = Seen(matches, r)[PairOf(r)].likeIds,
                                             !.at = place]]
  BY Zenon DEF FindMatch
<1> HIDE DEF place
<1>2. req'[r].at \in {"reply", "failed", place}
  BY <1>1, <1>req DEF Answer, Mark, Forgetting, Goto, RequestState
<1> QED
  BY <1>2 DEF place

LEMMA OwnBlockHeld ==
    ASSUME TypeInv, ChatInv, NEW r \in Requests, Working(r), NEW p \in Pairs, blocks'[p].by = r
    PROVE  BlockHeld(r, p)'
<1>same. /\ req'[r].op = req[r].op /\ PairOf(r)' = PairOf(r) /\ PairOf(r) \in Pairs
         /\ req[r] \in RequestState /\ req \in [Requests -> RequestState]
  BY WorkingStep, ChatTables DEF SameRequest
<1>ok. HandlerOK(r) /\ HoldsWhatItNeeds(r)
  BY DEF TypeInv, ChatInv
<1>goto. \A place : Goto(r, place) => req'[r].at = place
  BY <1>same DEF Goto, RequestState
<1>mark. \A ids, reply : Mark(r, ids, reply) => req'[r].at \in {"reply", "mark_likes"}
  BY <1>same DEF Mark, Forgetting, RequestState
<1>1. req'[r].at \notin {"idle", "insert_block"}
  <2>1. CASE Quiet(r)
    BY <2>1, QuietStep
  <2>2. CASE UpsertMatch(r) \/ OpenChat(r) \/ InsertBlock(r) \/ CloseChat(r)
    BY <2>2, <1>goto, <1>mark DEF UpsertMatch, OpenChat, InsertBlock, CloseChat, Answer
  <2>3. CASE MarkLike(r) \/ EndMatch(r) \/ FindMatch(r)
    <3>1. MarkLike(r) => req'[r].at \in {"mark_likes", After(req[r].op, "mark_likes")}
      BY <1>same DEF MarkLike, RequestState
    <3>2. EndMatch(r) => req'[r].at = After(req[r].op, "end_match")
      BY <1>goto DEF EndMatch
    <3>3. FindMatch(r) => req'[r].at \in {"reply", "mark_likes", "failed",
                                          After(req[r].op, "find_match")}
      BY FindMatchMoves
    <3>4. \A place \in {"find_match", "end_match", "mark_likes"} :
             After(req[r].op, place) \notin {"idle", "insert_block"}
      BY <1>same DEF After, RequestState, Ops
    <3> QED
      BY <2>3, <3>1, <3>2, <3>3, <3>4
  <2> QED
    BY <2>1, <2>2, <2>3, WorkingStep
<1>2. CASE InsertBlock(r)
  <2>1. /\ req[r].at = "insert_block" /\ req[r].op = "block"
        /\ \/ /\ Seen(blocks, r)[PairOf(r)] = None
              /\ blocks' = Put(blocks, PairOf(r), r, req[r].from)
           \/ blocks' = blocks
    BY <1>2, <1>ok DEF InsertBlock, At, HoldsWhatItNeeds
  <2>2. \A k \in Pairs : blocks[k].by # r
    BY <2>1 DEF ChatInv, BlockHeld
  <2>3. /\ p = PairOf(r) /\ blocks'[p].row = blocks[p].row /\ blocks'[p].next = req[r].from
        /\ Seen(blocks, r)[p] = None /\ Seen(blocks, r)[p] = blocks[p].row
    BY <2>1, <2>2, ChatTables DEF Put, Seen
  <2>4. req[r].from # None
    BY <1>same, NoneAssumption DEF RequestState
  <2> QED
    BY <1>1, <1>same, <2>1, <2>3, <2>4 DEF BlockHeld
<1>3. CASE ~InsertBlock(r)
  <2>1. UNCHANGED blocks
    BY <1>3, WorkingStep, QuietStep DEF UpsertMatch, MarkLike, OpenChat, FindMatch, EndMatch,
       CloseChat, tables
  <2> QED
    BY <1>1, <1>same, <2>1 DEF ChatInv, BlockHeld
<1> QED
  BY <1>2, <1>3

LEMMA OwnLikeHeld ==
    ASSUME TypeInv, ChatInv, NEW r \in Requests, Working(r), NEW id \in LikeIds,
           likes'[id].by = r, likes'[id].row = None
    PROVE  req'[r].op = "like" /\ Own(r, likes[id].next)'
<1>same. SameRequest(r) /\ req[r] \in RequestState
  BY WorkingStep, ChatTables
<1>own. \A row : Directed(row, req'[r].from, req'[r].to) <=> Own(r, row)
  BY <1>same DEF SameRequest, Own
<1>kept. ASSUME likes'[id] = likes[id]
         PROVE  req'[r].op = "like" /\ Own(r, likes[id].next)'
  BY <1>kept, <1>same DEF SameRequest, ChatInv, Own
<1>1. CASE InsertLike(r)
  <2> DEFINE row == [from |-> req[r].from, to |-> req[r].to, state |-> "live",
                     superseded |-> req[r].livePass]
  <2>1. /\ likes' = likes \/ likes' = Put(likes, req[r].id, r, row)
        /\ req[r].op = "like"
    BY <1>1 DEF InsertLike, TypeInv, HandlerOK, At
  <2>2. likes'[id] = likes[id] \/ likes'[id].next = row
    BY <2>1, ChatTables DEF Put
  <2>3. Directed(row, req[r].from, req[r].to)
    <3>1. row \in LikeRow
      BY <1>same DEF LikeRow, RequestState
    <3> QED
      BY <3>1, RowAssumption DEF Directed
  <2> HIDE DEF row
  <2> QED
    BY <1>kept, <1>same, <2>1, <2>2, <2>3 DEF SameRequest, Own
<1>2. CASE MarkLike(r)
  <2> DEFINE key == Head(req[r].todo)
             row == Seen(likes, r)[key]
             state == IF req[r].op = "like" THEN "matched" ELSE "withdrawn"
             moved == [row EXCEPT !.state = state]
  <2>1. \/ likes' = likes
        \/ Movable(row, state) /\ likes' = Put(likes, key, r, moved)
    BY <1>2 DEF MarkLike
  <2>2. CASE likes'[id] = likes[id]
    BY <1>kept, <2>2
  <2>3. CASE likes'[id] # likes[id]
    <3>1. /\ key = id /\ Movable(row, state) /\ likes'[id].next = moved
          /\ likes'[id].row = likes[id].row
      BY <2>1, <2>3, ChatTables DEF Put
    <3>2. row # None
      BY <3>1 DEF Movable, IsCurrentLike
    <3>3. likes[id].by = r /\ row = likes[id].next
      BY <3>1, <3>2, ChatTables DEF Seen
    <3>4. req[r].op = "like" /\ Own(r, row)
      BY <3>1, <3>3 DEF ChatInv
    <3>5. row \in LikeRow
      BY <3>2, <3>3, ChatTables DEF Versions, Likes
    <3> HIDE DEF row, state
    <3>6. moved \in LikeRow /\ moved.from = row.from /\ moved.to = row.to
      BY <3>1, <3>5 DEF LikeRow, Movable, IsCurrentLike, state
    <3> HIDE DEF moved
    <3>7. Own(r, moved)
      BY <3>4, <3>6, RowAssumption DEF Own, Directed
    <3> QED
      BY <1>same, <3>1, <3>4, <3>7 DEF SameRequest, Own
  <2> QED
    BY <2>2, <2>3
<1>3. CASE ~InsertLike(r) /\ ~MarkLike(r)
  <2>1. UNCHANGED likes
    BY <1>3, WorkingStep DEF Quiet, ReadLikes, ReadPasses, RefuseLike, RefuseSecondLike, RecordLike,
     FindLivePass, SupersedeOwnPass, SupersedePassByPair, ResolveWithoutMatch, RefusePass,
     InsertPass, UpsertMatch, OpenChat, FindMatch, EndMatch, InsertBlock,
       CloseChat, tables
  <2> QED
    BY <1>kept, <2>1
<1> QED
  BY <1>1, <1>2, <1>3

LEMMA OwnNeeds ==
    ASSUME TypeInv, ChatInv, NEW r \in Requests, Working(r)
    PROVE  HoldsWhatItNeeds(r)'
<1>same. /\ req'[r].op = req[r].op /\ PairOf(r)' = PairOf(r) /\ PairOf(r) \in Pairs
         /\ req[r] \in RequestState /\ req \in [Requests -> RequestState]
  BY WorkingStep, ChatTables DEF SameRequest
<1>ok. HandlerOK(r) /\ HoldsWhatItNeeds(r)
  BY DEF TypeInv, ChatInv
<1>held. /\ matches[PairOf(r)].by = r => matches'[PairOf(r)].by = r
         /\ blocks[PairOf(r)].by = r => blocks'[PairOf(r)].by = r
  BY <1>same, HeldStays DEF Working
<1>goto. \A place : Goto(r, place) => req'[r].at = place
  BY <1>same DEF Goto, RequestState
<1>mark. \A ids, reply : Mark(r, ids, reply) => req'[r].at \in {"reply", "mark_likes"}
  BY <1>same DEF Mark, Forgetting, RequestState
<1>answer. \A reply : Answer(r, reply) => req'[r].at = "reply"
  BY <1>same DEF Answer, Mark, Forgetting, RequestState
<1>1. CASE Quiet(r)
  BY <1>1, <1>same, QuietStep DEF HoldsWhatItNeeds, At
<1>2. CASE UpsertMatch(r)
  <2>1. /\ req'[r].at \in {"reply", "mark_likes"} /\ matches'[PairOf(r)].by = r
    BY <1>2, <1>same, <1>mark, ChatTables DEF UpsertMatch, Put
  <2> QED
    BY <1>same, <2>1 DEF HoldsWhatItNeeds, At
<1>3. CASE EndMatch(r)
  <2>1. /\ req'[r].at = "mark_likes" /\ matches'[PairOf(r)].by = r
    BY <1>3, <1>ok, <1>same, <1>goto, ChatTables DEF EndMatch, Put, After, HandlerOK, At
  <2> QED
    BY <1>same, <2>1 DEF HoldsWhatItNeeds, At
<1>4. CASE MarkLike(r)
  <2>1. /\ req[r].at = "mark_likes"
        /\ req'[r].at \in {"mark_likes", After(req[r].op, "mark_likes")}
    BY <1>4, <1>same DEF MarkLike, At, RequestState
  <2>2. /\ req[r].op = "like" => After(req[r].op, "mark_likes") = "open_chat"
        /\ req[r].op = "pass" => After(req[r].op, "mark_likes") = "reply"
        /\ req[r].op \in {"block", "unmatch"} => After(req[r].op, "mark_likes") = "close_chat"
        /\ req[r].op \in {"like", "pass", "block", "unmatch"}
    BY <1>same DEF After, RequestState, Ops
  <2>3. CASE req[r].op = "like" /\ req'[r].at = "open_chat"
    <3>1. matches[PairOf(r)].by = r
      BY <1>ok, <2>1, <2>3 DEF HoldsWhatItNeeds
    <3> QED
      BY <1>same, <1>held, <2>3, <3>1 DEF HoldsWhatItNeeds, At
  <2>4. CASE req[r].op \in {"block", "unmatch"}
    <3>1. matches[PairOf(r)].by = r
      BY <1>ok, <2>1, <2>4 DEF HoldsWhatItNeeds
    <3> QED
      BY <1>same, <1>held, <2>1, <2>2, <2>4, <3>1 DEF HoldsWhatItNeeds, At
  <2>5. CASE /\ req[r].op \in {"like", "pass"} /\ req'[r].at \in {"mark_likes", "reply"}
    BY <1>ok, <1>same, <1>held, <2>1, <2>5 DEF HoldsWhatItNeeds, At
  <2> QED
    BY <2>1, <2>2, <2>3, <2>4, <2>5
<1>5. CASE OpenChat(r) \/ CloseChat(r)
  <2>1. req'[r].at = "reply"
    BY <1>5, <1>answer DEF OpenChat, CloseChat
  <2> QED
    BY <2>1 DEF HoldsWhatItNeeds, At
<1>6. CASE InsertBlock(r)
  <2>1. \/ req'[r].at = "reply"
        \/ req'[r].at = "find_match" /\ blocks'[PairOf(r)].by = r
    BY <1>6, <1>same, <1>goto, <1>answer, ChatTables DEF InsertBlock, Put
  <2> QED
    BY <1>same, <2>1 DEF HoldsWhatItNeeds, At
<1>7. CASE FindMatch(r)
  <2>1. /\ req[r].at = "find_match" /\ After(req[r].op, "find_match") = "end_match"
        /\ req'[r].at \in {"reply", "failed", After(req[r].op, "find_match")}
    BY <1>7, <1>ok, FindMatchMoves DEF FindMatch, HandlerOK, At, After
  <2> QED
    BY <1>ok, <1>same, <1>held, <2>1 DEF HoldsWhatItNeeds, At
<1> QED
  BY <1>1, <1>2, <1>3, <1>4, <1>5, <1>6, <1>7, WorkingStep

(* A step leaves the stored conversations agreeing with the stored matches.  *)
LEMMA StoredChatStep ==
    ASSUME TypeInv, ChatInv, NEW r \in Requests, Acts(r), NEW p \in Pairs
    PROVE  chats'[p].row = ChatOf(matches'[p].row)
<1>1. chats[p].row = ChatOf(matches[p].row) /\ chats[p].by \in {None, matches[p].by}
  BY DEF ChatInv
<1>2. CASE ~Ends(r)
  BY <1>1, <1>2, HeldStays, StoredStays
<1>3. CASE Ends(r)
  <2>1. CASE matches'[p].row = matches[p].row /\ chats'[p].row = chats[p].row
    BY <1>1, <2>1
  <2>2. CASE /\ matches'[p].row = Seen(matches, r)[p] /\ chats'[p].row = Seen(chats, r)[p]
             /\ At(r, "reply")
    <3>1. CASE matches[p].by = r
      <4>1. MatchHeld(r, p)
        BY <3>1 DEF ChatInv
      <4>2. Seen(chats, r)[p] = ChatOf(matches[p].next) /\ Seen(matches, r)[p] = matches[p].next
        BY <2>2, <3>1, <4>1, ChatTables DEF MatchHeld, Seen
      <4> QED
        BY <2>2, <4>2
    <3>2. CASE matches[p].by # r
      <4>1. chats[p].by # r
        BY <1>1, <3>2, NoneAssumption
      <4>2. Seen(chats, r)[p] = chats[p].row /\ Seen(matches, r)[p] = matches[p].row
        BY <3>2, <4>1, ChatTables DEF Seen
      <4> QED
        BY <1>1, <2>2, <4>2
    <3> QED
      BY <3>1, <3>2
  <2> QED
    BY <1>3, <2>1, <2>2, EndKept
<1> QED
  BY <1>2, <1>3

LEMMA ChatHolderStep ==
    ASSUME TypeInv, ChatInv, NEW r \in Requests, Acts(r), NEW p \in Pairs
    PROVE  chats'[p].by \in {None, matches'[p].by}
<1>1. chats[p].by \in {None, matches[p].by} /\ matches[p].by \in Requests \cup {None}
  BY ChatTables DEF ChatInv
<1>type. chats'[p].by \in Requests \cup {None}
  BY TableTypeStep DEF Versions
<1>2. CASE matches[p].by # r /\ matches[p].by # None
  <2>1. chats'[p] = chats[p] /\ matches'[p] = matches[p]
    BY <1>1, <1>2, ChatTouchedByHolder, OthersVersions
  <2> QED
    BY <1>1, <2>1
<1>3. CASE matches[p].by = None
  <2>1. chats'[p] = chats[p]
    BY <1>3, ChatTouchedByHolder, NoneAssumption
  <2> QED
    BY <1>1, <1>3, <2>1
<1>4. CASE matches[p].by = r
  <2>1. \A q \in Requests \ {r} : chats'[p].by # q
    BY <1>1, <1>4, OthersVersions, NoneAssumption
  <2>2. CASE Ends(r)
    BY <1>type, <2>1, <2>2, EndReleases
  <2>3. CASE ~Ends(r)
    BY <1>type, <1>4, <2>1, <2>3, HeldStays
  <2> QED
    BY <2>2, <2>3
<1> QED
  BY <1>2, <1>3, <1>4

LEMMA ChatInvStep == TypeInv /\ IndexInv /\ ChatInv /\ [Next]_vars => ChatInv'
<1> SUFFICES ASSUME TypeInv, IndexInv, ChatInv, [Next]_vars PROVE ChatInv'
  OBVIOUS
<1>1. CASE UNCHANGED <<likes, blocks, matches, chats, req>>
  BY <1>1 DEF ChatInv, MatchHeld, BlockHeld, HoldsWhatItNeeds, Own, At, PairOf
<1>2. ASSUME NEW r \in Requests, Acts(r) PROVE ChatInv'
  <2> DEFINE Held(q) ==
        /\ \A p \in Pairs : matches'[p].by = q => MatchHeld(q, p)'
        /\ \A p \in Pairs : blocks'[p].by = q => BlockHeld(q, p)'
        /\ \A id \in LikeIds : likes'[id].by = q /\ likes'[id].row = None =>
              req'[q].op = "like" /\ Own(q, likes[id].next)'
        /\ HoldsWhatItNeeds(q)'
  <2>1. ASSUME NEW q \in Requests PROVE Held(q)
    <3>1. CASE q # r
      BY <1>2, <3>1, OthersChatStep
    <3>2. CASE q = r /\ Ends(r)
      <4>1. HoldsWhatItNeeds(r)'
        BY <3>2, EndStep, IdleType DEF HoldsWhatItNeeds, At
      <4> QED
        BY <3>2, <4>1, EndReleases
    <3>3. CASE q = r /\ Start(r)
      BY <3>3, StartChatStep
    <3>4. CASE q = r /\ Working(r)
      BY <3>4, OwnMatchHeld, OwnBlockHeld, OwnLikeHeld, OwnNeeds
    <3> QED
      BY <1>2, <3>1, <3>2, <3>3, <3>4 DEF Working
  <2>2. \A p \in Pairs : chats'[p].row = ChatOf(matches'[p].row)
    BY <1>2, StoredChatStep
  <2>3. \A p \in Pairs : chats'[p].by \in {None, matches'[p].by}
    BY <1>2, ChatHolderStep
  <2> QED
    BY <2>1, <2>2, <2>3 DEF ChatInv
<1>3. ASSUME NEW p \in PassIds, ExpirePass(p) PROVE UNCHANGED <<likes, blocks, matches, chats, req>>
  BY <1>3 DEF ExpirePass
<1> QED
  BY <1>1, <1>2, <1>3 DEF Next, Acts, vars

LEMMA ChatInvAlways == Spec => [](TypeInv /\ IndexInv /\ ChatInv)
<1>1. TypeInv /\ IndexInv /\ ChatInv /\ [Next]_vars => (TypeInv /\ IndexInv /\ ChatInv)'
  BY TypeInvStep, IndexInvStep, ChatInvStep
<1> QED
  BY <1>1, InitTypeInv, InitIndexInv, InitChatInv, PTL DEF Spec

(* However likes, blocks and unmatches interleave, crash and are retried, a  *)
(* conversation stands committed exactly when its match does, and is open or *)
(* ended as the match is.                                                    *)
THEOREM ChatAlwaysAgrees == Spec => []ChatAgreesWithMatch
<1>1. TypeInv /\ ChatInv => ChatAgreesWithMatch
  BY StoredRows DEF ChatInv, ChatAgreesWithMatch, Chat, Match
<1> QED
  BY <1>1, ChatInvAlways, PTL

-----------------------------------------------------------------------------
(* The pair's relationship moves as promised *)

(* What Relationship sees of the ledger.                                     *)
Liked == {<<Like[id].from, Like[id].to>> : id \in {i \in LikeIds : Like[i] # None}}
Blocked == {p \in Pairs : Blocker[p] # None}
Standing == [p \in Pairs |-> IF Match[p] = None THEN "none" ELSE Match[p].end]

LEMMA PromiseInit == Init => Promise!Init
<1> SUFFICES ASSUME Init PROVE Promise!Init
  OBVIOUS
<1>1. \A id \in LikeIds : Like[id] = None
  BY DEF Init, Like, Stored, Settled
<1>2. \A p \in Pairs : Blocker[p] = None /\ Match[p] = None
  BY DEF Init, Blocker, Match, Stored, Settled
<1> QED
  BY <1>1, <1>2 DEF Promise!Init

(* Steps that change no stored like, block or match do not show.             *)
LEMMA Hidden ==
    ASSUME TypeInv, TypeInv',
           \A id \in LikeIds : likes'[id].row = likes[id].row,
           \A p \in Pairs : blocks'[p].row = blocks[p].row /\ matches'[p].row = matches[p].row
    PROVE  UNCHANGED Promise!vars
<1>1. /\ DOMAIN likes = LikeIds /\ DOMAIN likes' = LikeIds
      /\ DOMAIN blocks = Pairs /\ DOMAIN blocks' = Pairs
      /\ DOMAIN matches = Pairs /\ DOMAIN matches' = Pairs
  BY DEF TypeInv, TypeOK
<1>2. Like' = Like
  BY <1>1 DEF Like, Stored
<1>3. Blocker' = Blocker
  BY <1>1 DEF Blocker, Stored
<1>4. Match' = Match
  BY <1>1 DEF Match, Stored
<1> QED
  BY <1>2, <1>3, <1>4 DEF Promise!vars

(* A commit records the like it brought and no other, ...                    *)
LEMMA LikedByCommit ==
    ASSUME TypeInv, TypeInv', ChatInv, NEW r \in Requests,
           \A id \in LikeIds : likes'[id].row = Seen(likes, r)[id]
    PROVE  \/ Liked' = Liked
           \/ req[r].op = "like" /\ Liked' = Liked \cup {<<req[r].from, req[r].to>>}
<1> DEFINE new == <<req[r].from, req[r].to>>
           Way(row) == <<row.from, row.to>>
<1>1. \A id \in LikeIds : Like[id] = likes[id].row /\ Like'[id] = Seen(likes, r)[id]
  BY ChatTables DEF Like, Stored, TypeInv, TypeOK
<1>2. ASSUME NEW id \in LikeIds, Like[id] # None
      PROVE  Like'[id] # None /\ Way(Like'[id]) = Way(Like[id])
  <2>1. LikeKept(Stored(likes)[id], Seen(likes, r)[id])
    BY StoredKept
  <2> QED
    BY <1>1, <1>2, <2>1 DEF LikeKept, Directed, Like
<1>3. ASSUME NEW id \in LikeIds, Like[id] = None, Like'[id] # None
      PROVE  req[r].op = "like" /\ Way(Like'[id]) = new
  <2>1. likes[id].by = r /\ likes[id].row = None /\ Like'[id] = likes[id].next
    BY <1>1, <1>3, ChatTables DEF Seen
  <2>2. req[r].op = "like" /\ Own(r, likes[id].next)
    BY <2>1 DEF ChatInv
  <2> QED
    BY <2>1, <2>2 DEF Own, Directed
<1>4. \A w : w \in Liked <=> \E id \in LikeIds : Like[id] # None /\ w = Way(Like[id])
  BY DEF Liked
<1>5. \A w : w \in Liked' <=> \E id \in LikeIds : Like'[id] # None /\ w = Way(Like'[id])
  BY DEF Liked
<1> HIDE DEF new, Way
<1>6. CASE \E id \in LikeIds : Like[id] = None /\ Like'[id] # None
  <2>1. req[r].op = "like" /\ new \in Liked'
    BY <1>3, <1>5, <1>6
  <2>2. \A w : w \in Liked' <=> w \in Liked \/ w = new
    BY <1>2, <1>3, <1>4, <1>5, <2>1
  <2>3. Liked' = Liked \cup {new}
    BY <2>2
  <2> QED
    BY <2>1, <2>3 DEF new
<1>7. CASE ~ \E id \in LikeIds : Like[id] = None /\ Like'[id] # None
  <2>1. \A w : w \in Liked' <=> w \in Liked
    BY <1>2, <1>4, <1>5, <1>7
  <2> QED
    BY <2>1
<1> QED
  BY <1>6, <1>7

(* ... the block it was asked for and no other, ...                          *)
LEMMA BlockedByCommit ==
    ASSUME TypeInv, TypeInv', ChatInv, NEW r \in Requests,
           \A p \in Pairs : blocks'[p].row = Seen(blocks, r)[p]
    PROVE  \/ Blocked' = Blocked /\ \A p \in Pairs : blocks[p].by # r
           \/ /\ req[r].op = "block" /\ PairOf(r) \in Pairs \ Blocked
              /\ Blocked' = Blocked \cup {PairOf(r)}
<1>1. \A p \in Pairs : Blocker[p] = blocks[p].row /\ Blocker'[p] = Seen(blocks, r)[p]
  BY ChatTables DEF Blocker, Stored, TypeInv, TypeOK
<1>2. CASE \A p \in Pairs : blocks[p].by # r
  <2>1. \A p \in Pairs : Blocker'[p] = Blocker[p]
    BY <1>1, <1>2, ChatTables DEF Seen
  <2> QED
    BY <1>2, <2>1 DEF Blocked
<1>3. ASSUME NEW p \in Pairs, blocks[p].by = r
      PROVE  /\ req[r].op = "block" /\ PairOf(r) \in Pairs \ Blocked
             /\ Blocked' = Blocked \cup {PairOf(r)}
  <2>1. /\ p = PairOf(r) /\ req[r].op = "block"
        /\ blocks[p].row = None /\ blocks[p].next # None
    BY <1>3 DEF ChatInv, BlockHeld
  <2>2. Blocker[p] = None /\ Blocker'[p] # None
    BY <1>1, <1>3, <2>1, ChatTables DEF Seen
  <2>3. \A k \in Pairs \ {p} : blocks[k].by # r
    BY <2>1 DEF ChatInv, BlockHeld
  <2>4. \A k \in Pairs \ {p} : Blocker'[k] = Blocker[k]
    BY <1>1, <2>3, ChatTables DEF Seen
  <2> QED
    BY <2>1, <2>2, <2>4 DEF Blocked
<1> QED
  BY <1>2, <1>3

(* ... and makes or ends its pair's match and no other.                      *)
LEMMA StandingByCommit ==
    ASSUME TypeInv, TypeInv', ChatInv, NEW r \in Requests,
           \A p \in Pairs : matches'[p].row = Seen(matches, r)[p]
    PROVE  \/ Standing' = Standing
           \/ /\ PairOf(r) \in Pairs
              /\ \/ /\ req[r].op = "like" /\ Standing[PairOf(r)] = "none"
                    /\ Standing' = [Standing EXCEPT ![PairOf(r)] = "open"]
                 \/ /\ req[r].op \in {"block", "unmatch"} /\ Standing[PairOf(r)] # "none"
                    /\ Standing' = [Standing EXCEPT ![PairOf(r)] = EndedAs(req[r].op)]
                    /\ req[r].op = "block" => blocks[PairOf(r)].by = r
<1> DEFINE As(match) == IF match = None THEN "none" ELSE match.end
<1>1. \A p \in Pairs : Match[p] = matches[p].row /\ Match'[p] = Seen(matches, r)[p]
  BY ChatTables DEF Match, Stored, TypeInv, TypeOK
<1>2. /\ Standing = [p \in Pairs |-> As(Match[p])]
      /\ Standing' = [p \in Pairs |-> As(Match'[p])]
  BY DEF Standing
<1>3. CASE \A p \in Pairs : matches[p].by # r
  <2>1. \A p \in Pairs : Match'[p] = Match[p]
    BY <1>1, <1>3, ChatTables DEF Seen
  <2> QED
    BY <1>2, <2>1
<1>4. ASSUME NEW p \in Pairs, matches[p].by = r
      PROVE  \/ Standing' = Standing
             \/ /\ PairOf(r) = p
                /\ \/ /\ req[r].op = "like" /\ Standing[p] = "none"
                      /\ Standing' = [Standing EXCEPT ![p] = "open"]
                   \/ /\ req[r].op \in {"block", "unmatch"} /\ Standing[p] # "none"
                      /\ Standing' = [Standing EXCEPT ![p] = EndedAs(req[r].op)]
                      /\ req[r].op = "block" => blocks[p].by = r
  <2>1. MatchHeld(r, p) /\ p = PairOf(r)
    BY <1>4 DEF ChatInv, MatchHeld
  <2>2. \A k \in Pairs \ {p} : matches[k].by # r
    BY <2>1 DEF ChatInv, MatchHeld
  <2>3. \A k \in Pairs \ {p} : Match'[k] = Match[k]
    BY <1>1, <2>2, ChatTables DEF Seen
  <2>4. Match[p] = matches[p].row /\ Match'[p] = matches[p].next
    BY <1>1, <1>4, ChatTables DEF Seen
  <2>5. Standing' = [Standing EXCEPT ![p] = As(matches[p].next)]
    BY <1>2, <2>3, <2>4
  <2>6. Standing[p] = As(matches[p].row)
    BY <1>2, <2>4
  <2>7. CASE req[r].op = "like" /\ Made(matches[p].row, matches[p].next)
    <3>1. CASE matches[p].row = None
      BY <2>1, <2>5, <2>6, <2>7, <3>1 DEF Made
    <3>2. CASE matches[p].row # None
      <4>1. As(matches[p].next) = Standing[p]
        BY <2>6, <2>7, <3>2 DEF Made
      <4> HIDE DEF As
      <4>2. Standing' = Standing
        BY <1>2, <2>5, <4>1
      <4> QED
        BY <4>2
    <3> QED
      BY <3>1, <3>2
  <2>8. CASE /\ req[r].op \in {"block", "unmatch"}
             /\ matches[p].row # None /\ matches[p].next # None
             /\ matches[p].next.end = EndedAs(req[r].op)
             /\ req[r].op = "block" => blocks[p].by = r
    <3>1. matches[p].row.end # "none"
      BY <2>8, ChatTables DEF MatchRow
    <3> QED
      BY <2>1, <2>5, <2>6, <2>8, <3>1
  <2> QED
    BY <2>1, <2>7, <2>8 DEF MatchHeld
<1> QED
  BY <1>3, <1>4

(* Two whose match is of who liked each other have liked each other.         *)
LEMMA MutualBothWays ==
    ASSUME NEW ledger, NEW a, NEW b, a # b, NEW match, match # None,
           MutualIn(ledger, {a, b}, match)
    PROVE  \A u, v \in {a, b} : u # v =>
              \E id \in LikeIds : Directed(ledger[id], u, v)
<1>1. ASSUME NEW u \in {a, b}, NEW v \in {a, b}, u # v
      PROVE  \E id \in LikeIds : Directed(ledger[id], u, v)
  <2>1. Opposite({a, b}, u) = v
    BY <1>1 DEF Opposite
  <2> QED
    BY <2>1 DEF MutualIn
<1> QED
  BY <1>1

LEMMA PromiseSteps ==
    ASSUME NEW a \in Users, NEW b \in Users, a # b, NEW p \in Pairs
    PROVE  /\ Promise!Like(a, b) => Promise!Next
           /\ Promise!Unmatch(p) => Promise!Next
           /\ Promise!Block(p) => Promise!Next
  BY Zenon DEF Promise!Next

LEMMA PromiseCommit ==
    ASSUME TypeInv, TypeInv', ChatInv, MatchInv', NEW r \in Requests, ~At(r, "idle"),
           \A id \in LikeIds : likes'[id].row = Seen(likes, r)[id],
           \A p \in Pairs : /\ matches'[p].row = Seen(matches, r)[p]
                            /\ blocks'[p].row = Seen(blocks, r)[p]
    PROVE  Promise!Next \/ UNCHANGED Promise!vars
<1>0. /\ req[r].from \in Users /\ req[r].to \in Users /\ req[r].from # req[r].to
      /\ PairOf(r) \in Pairs /\ req[r].op \in Ops
  BY ReadType DEF TypeInv, HandlerOK, At, RequestState
<1> PICK a \in Users, b \in Users, p \in Pairs :
         a = req[r].from /\ b = req[r].to /\ p = PairOf(r)
  BY <1>0
<1>type. a # b /\ p = {a, b} /\ req[r].op \in Ops
  BY <1>0 DEF PairOf
<1>liked. \/ Liked' = Liked
          \/ req[r].op = "like" /\ Liked' = Liked \cup {<<a, b>>}
  BY LikedByCommit
<1>blocked. \/ Blocked' = Blocked /\ \A k \in Pairs : blocks[k].by # r
            \/ req[r].op = "block" /\ p \notin Blocked /\ Blocked' = Blocked \cup {p}
  BY BlockedByCommit
<1>standing. \/ Standing' = Standing
             \/ /\ req[r].op = "like" /\ Standing[p] = "none"
                /\ Standing' = [Standing EXCEPT ![p] = "open"]
             \/ /\ req[r].op \in {"block", "unmatch"} /\ Standing[p] # "none"
                /\ Standing' = [Standing EXCEPT ![p] = EndedAs(req[r].op)]
                /\ req[r].op = "block" => blocks[p].by = r
  BY StandingByCommit
<1>same. Liked' = Liked /\ Blocked' = Blocked /\ Standing' = Standing => UNCHANGED Promise!vars
  BY DEF Promise!vars, Liked, Blocked, Standing
<1>like. /\ Liked' = Liked \cup {<<a, b>>} /\ Blocked' = Blocked
         /\ \/ Standing' = Standing
            \/ /\ Standing[{a, b}] = "none" /\ \A u, v \in {a, b} : u # v => <<u, v>> \in Liked'
               /\ Standing' = [Standing EXCEPT ![{a, b}] = "open"]
         => Promise!Like(a, b)
  BY DEF Promise!Like, Promise!Mutual, Liked, Blocked, Standing
<1>unmatch. /\ Liked' = Liked /\ Blocked' = Blocked /\ Standing[p] # "none"
            /\ Standing' = [Standing EXCEPT ![p] = "unmatched"]
            => Promise!Unmatch(p)
  BY DEF Promise!Unmatch, Liked, Blocked, Standing
<1>block. /\ Liked' = Liked /\ p \notin Blocked /\ Blocked' = Blocked \cup {p}
          /\ \/ Standing' = Standing
             \/ /\ Standing[p] # "none"
                /\ Standing' = [Standing EXCEPT ![p] = "ended_by_block"]
          => Promise!Block(p)
  BY DEF Promise!Block, Liked, Blocked, Standing
<1>next. Promise!Like(a, b) \/ Promise!Unmatch(p) \/ Promise!Block(p) => Promise!Next
  BY <1>type, PromiseSteps
<1>1. CASE req[r].op = "like"
  <2>1. Blocked' = Blocked
    BY <1>blocked, <1>1
  <2>2. CASE Standing' = Standing
    BY <1>liked, <1>same, <1>like, <1>next, <2>1, <2>2
  <2>3. CASE Standing[p] = "none" /\ Standing' = [Standing EXCEPT ![p] = "open"]
    <3>1. Standing'[p] # "none"
      <4>1. DOMAIN Standing = Pairs
        BY DEF Standing
      <4> QED
        BY <1>type, <2>3, <4>1
    <3>2. \A u, v \in {a, b} : u # v => <<u, v>> \in Liked'
      <4>1. /\ \A id \in LikeIds : Like'[id] = likes'[id].row /\ Stored(likes')[id] = likes'[id].row
            /\ Match'[p] = matches'[p].row
        BY <1>type DEF Like, Match, Stored, TypeInv, TypeOK
      <4>2. matches'[p].row # None
        BY <1>type, <3>1, <4>1 DEF Standing
      <4>3. MutualIn(Stored(likes'), {a, b}, matches'[p].row)
        BY <1>type DEF MatchInv
      <4>4. \A u, v \in {a, b} : u # v => \E id \in LikeIds : Directed(Stored(likes')[id], u, v)
        <5> DEFINE ledger == Stored(likes')
                   match == matches'[p].row
        <5>1. MutualIn(ledger, {a, b}, match) /\ match # None
          BY <4>2, <4>3
        <5> HIDE DEF ledger, match
        <5>2. \A u, v \in {a, b} : u # v => \E id \in LikeIds : Directed(ledger[id], u, v)
          BY ZenonT(60), <1>type, <5>1, MutualBothWays
        <5> QED
          BY <5>2 DEF ledger
      <4>5. \A u, v : (\E id \in LikeIds : Directed(Stored(likes')[id], u, v)) => <<u, v>> \in Liked'
        BY <4>1 DEF Liked, Directed
      <4> QED
        BY <4>4, <4>5
    <3>3. <<a, b>> \in Liked'
      BY <1>type, <3>2
    <3>4. Liked' = Liked \cup {<<a, b>>}
      BY <1>liked, <3>3
    <3> QED
      BY <1>type, <1>like, <1>next, <2>1, <2>3, <3>2, <3>4
  <2> QED
    BY <1>standing, <1>1, <2>2, <2>3
<1>2. CASE req[r].op = "pass"
  BY <1>liked, <1>blocked, <1>standing, <1>same, <1>2
<1>3. CASE req[r].op = "unmatch"
  BY <1>liked, <1>blocked, <1>standing, <1>same, <1>unmatch, <1>next, <1>3 DEF EndedAs
<1>4. CASE req[r].op = "block"
  <2>1. Liked' = Liked
    BY <1>liked, <1>4
  <2>2. CASE Blocked' = Blocked /\ \A k \in Pairs : blocks[k].by # r
    BY <1>standing, <1>type, <1>same, <1>4, <2>1, <2>2
  <2>3. CASE p \notin Blocked /\ Blocked' = Blocked \cup {p}
    BY <1>standing, <1>block, <1>next, <1>4, <2>1, <2>3 DEF EndedAs
  <2> QED
    BY <1>blocked, <2>2, <2>3
<1> QED
  BY <1>type, <1>1, <1>2, <1>3, <1>4 DEF Ops

LEMMA PromiseStep ==
    ASSUME TypeInv, TypeInv', ChatInv, MatchInv', [Next]_vars
    PROVE  [Promise!Next]_(Promise!vars)
<1>1. CASE UNCHANGED vars
  <2>1. UNCHANGED <<likes, blocks, matches>>
    BY <1>1 DEF vars
  <2> QED
    BY <2>1, Hidden
<1>2. ASSUME NEW r \in Requests, Acts(r), ~Ends(r) PROVE UNCHANGED Promise!vars
  BY <1>2, HeldStays, StoredStays, Hidden
<1>3. ASSUME NEW r \in Requests, Acts(r), Ends(r)
      PROVE  Promise!Next \/ UNCHANGED Promise!vars
  <2>1. CASE At(r, "reply") /\ (/\ \A id \in LikeIds : likes'[id].row = Seen(likes, r)[id]
                                /\ \A p \in Pairs : /\ matches'[p].row = Seen(matches, r)[p]
                                                    /\ blocks'[p].row = Seen(blocks, r)[p])
    BY <2>1, PromiseCommit DEF At
  <2>2. CASE /\ \A id \in LikeIds : likes'[id].row = likes[id].row
             /\ \A p \in Pairs : /\ matches'[p].row = matches[p].row
                                 /\ blocks'[p].row = blocks[p].row
    BY <2>2, Hidden
  <2> QED
    BY <1>3, <2>1, <2>2, EndKept
<1>4. ASSUME NEW p \in PassIds, ExpirePass(p) PROVE UNCHANGED Promise!vars
  <2>1. UNCHANGED <<likes, blocks, matches>>
    BY <1>4 DEF ExpirePass
  <2> QED
    BY <2>1, Hidden
<1> QED
  BY <1>1, <1>2, <1>3, <1>4 DEF Next, Acts

(* Whatever the statements do inside, the ledger implements the promise: a   *)
(* pair's relationship moves one commit at a time, a match is only made of   *)
(* two who liked each other, and nothing moves back.                         *)
THEOREM PromiseKept == Spec => KeepsPromise
<1>1. Init => Promise!Init
  BY PromiseInit
<1>2. /\ TypeInv /\ TypeInv' /\ ChatInv /\ MatchInv' /\ [Next]_vars
      => [Promise!Next]_(Promise!vars)
  BY PromiseStep
<1>3. Spec => [](TypeInv /\ MatchInv)
  BY MatchInvAlways
<1>4. Spec => [](TypeInv /\ IndexInv /\ ChatInv)
  BY ChatInvAlways
<1> QED
  BY <1>1, <1>2, <1>3, <1>4, PTL DEF Spec, KeepsPromise, Promise!Spec

-----------------------------------------------------------------------------
(* One request at a time: MCInteraction's third regime *)

(* SerialMatchingRules is not inductive: inside a transaction a handler      *)
(* breaks a rule of its pair before it mends it, and decides on rows it read *)
(* before.  What is inductive says, of every handler at work, which rule it  *)
(* has broken where it stands, and that what it has in hand will mend it.    *)

(* The like with that id is current, the pass is live, from a to b.          *)
CurrentIn(L, id, a, b) == IsCurrentLike(L[id]) /\ Directed(L[id], a, b)
LiveIn(P, p, a, b) == Directed(P[p], a, b) /\ P[p].state = "live"

(* The rules of a pair, in the tables given.                                 *)
Clear(L, P, a, b) ==
    \A id \in LikeIds, p \in PassIds : ~(CurrentIn(L, id, a, b) /\ LiveIn(P, p, a, b))
Matched(L, M, a, b) ==
    \A i, j \in LikeIds : CurrentIn(L, i, a, b) /\ CurrentIn(L, j, b, a) => M[{a, b}] # None
Parted(B, M, x) == B[x] # None /\ M[x] # None => M[x].end # "open"

(* Where a handler has broken a rule of its pair and not yet mended it.      *)
Overriding(q) == q.at = "supersede_own" \/ (q.at = "mark_likes" /\ q.op = "pass")
Matching(q) == q.at \in {"supersede_own", "supersede_pair", "resolve"}
Blocking(q) == q.op = "block" /\ q.at \in {"find_match", "end_match"}

Rules(q, L, P, B, M) ==
    /\ \A id \in LikeIds : L[id] # None => {L[id].from, L[id].to} \in Pairs
    /\ \A a, b \in Users : \A p, o \in PassIds : LiveIn(P, p, a, b) /\ LiveIn(P, o, a, b) => p = o
    /\ \A a, b \in Users :
          /\ Clear(L, P, a, b) \/ (a = q.from /\ b = q.to /\ Overriding(q))
          /\ Matched(L, M, a, b) \/ ({a, b} = {q.from, q.to} /\ Matching(q))
    /\ \A x \in Pairs : Parted(B, M, x) \/ (x = {q.from, q.to} /\ Blocking(q))

(* What a handler has in hand: the rows it read are what is stored; a like   *)
(* that is answered will be matched; and the rule it broke it can mend.      *)
MayMatch(q) ==
    /\ CurrentLikeBetween(q.likes, q.to, q.from) # None
    /\ ~PassInEffectBetween(q.passes, q.from, q.to)
    /\ ~PassInEffectBetween(q.passes, q.to, q.from)
InHand(q, L, P, B, M) ==
    /\ q.at \in {"read_passes", "read_blocks", "insert_pass"} =>
          \A id \in LikeIds : q.likes[id] = IF IsCurrentLike(L[id]) THEN L[id] ELSE None
    /\ q.at \in {"read_blocks", "insert_pass"} =>
          \A p \in PassIds : \A a, b \in Users : LiveIn(q.passes, p, a, b) => LiveIn(P, p, a, b)
    /\ q.at \in {"find_live_pass", "insert_like"} \/ Matching(q) =>
          /\ B[{q.from, q.to}] = None
          /\ \A id \in LikeIds \ {q.id} : CurrentIn(L, id, q.to, q.from) =>
                M[{q.from, q.to}] # None \/ MayMatch(q)
    /\ q.at \in {"insert_like", "supersede_own"} =>
          \A p \in PassIds : LiveIn(P, p, q.from, q.to) => p = q.livePass
    /\ q.at = "mark_likes" /\ q.op = "pass" =>
          /\ Tail(q.todo) = <<>>
          /\ \A id \in LikeIds : CurrentIn(L, id, q.from, q.to) => id = Head(q.todo)

Rule(r) == Rules(req[r], Seen(likes, r), Seen(passes, r), Seen(blocks, r), Seen(matches, r))
Hand(r) == InHand(req[r], Seen(likes, r), Seen(passes, r), Seen(blocks, r), Seen(matches, r))

(* One request at most is at work; what is committed keeps every rule, and   *)
(* what the one at work would commit keeps them but where it stands.         *)
Orderly ==
    /\ IsFiniteSet(Busy)
    /\ Serial =>
        /\ \A r, q \in Requests : ~At(r, "idle") /\ ~At(q, "idle") => r = q
        /\ Rules(Idle, Like, Pass, Blocker, Match)
        /\ \A r \in Requests :
              /\ At(r, "idle") => \A p \in PassIds : passes[p].by # r
              /\ req[r].at \notin {"idle", "failed"} => Rule(r) /\ Hand(r)

(* A table a request writes, as it sees it.                                  *)
LEMMA PutSees ==
    ASSUME NEW K, NEW Rows, NEW table \in [K -> Versions(Rows, Requests)],
           NEW r \in Requests, NEW row, NEW key \in K
    PROVE  Seen(Put(table, key, r, row), r) = [Seen(table, r) EXCEPT ![key] = row]
  BY DEF Put, Seen, Versions

(* The rules ask nothing of currency but that there be no more of it, and    *)
(* nothing of live passes either.                                            *)
Fewer(L, N) ==
    \A id \in LikeIds : \A a, b \in Users : CurrentIn(N, id, a, b) => CurrentIn(L, id, a, b)
FewerLive(P, N) ==
    \A p \in PassIds : \A a, b \in Users : LiveIn(N, p, a, b) => LiveIn(P, p, a, b)

LEMMA FewerRules ==
    ASSUME NEW L, NEW N, NEW P, NEW O, NEW M, NEW a \in Users, NEW b \in Users,
           Fewer(L, N), FewerLive(P, O)
    PROVE  /\ Clear(L, P, a, b) => Clear(N, O, a, b)
           /\ Matched(L, M, a, b) => Matched(N, M, a, b)
  BY DEF Fewer, FewerLive, Clear, Matched

(* A request in progress, what it sees, and the parties it is about.         *)
LEMMA Sights ==
    ASSUME TypeInv, NEW r \in Requests, ~At(r, "idle")
    PROVE  /\ req \in [Requests -> RequestState] /\ req[r] \in RequestState
           /\ Seen(likes, r) \in [LikeIds -> Likes]
           /\ Seen(passes, r) \in [PassIds -> Passes]
           /\ Seen(blocks, r) \in [Pairs -> Users \cup {None}]
           /\ Seen(matches, r) \in [Pairs -> MatchRow \cup {None}]
           /\ req[r].from \in Users /\ req[r].to \in Users /\ req[r].from # req[r].to
           /\ {req[r].from, req[r].to} \in Pairs /\ PairOf(r) = {req[r].from, req[r].to}
           /\ HandlerOK(r)
  BY ReadType, PairType DEF TypeInv, TypeOK, HandlerOK, At, RequestState, PairOf

(* What a place change is.                                                   *)
LEMMA Gone ==
    ASSUME TypeInv, NEW r \in Requests
    PROVE  /\ \A place : Goto(r, place) => req'[r] = [req[r] EXCEPT !.at = place]
           /\ \A ids, reply : Mark(r, ids, reply) =>
                /\ req'[r].at = IF ids = <<>> THEN "reply" ELSE "mark_likes"
                /\ req'[r].todo = ids /\ req'[r].op = req[r].op
                /\ req'[r].from = req[r].from /\ req'[r].to = req[r].to
           /\ \A reply : Answer(r, reply) => req'[r].at = "reply"
<1>1. req \in [Requests -> RequestState] /\ req[r] \in RequestState
  BY DEF TypeInv, TypeOK
<1>2. ASSUME NEW ids, NEW reply, Mark(r, ids, reply)
      PROVE  /\ req'[r].at = IF ids = <<>> THEN "reply" ELSE "mark_likes"
             /\ req'[r].todo = ids /\ req'[r].op = req[r].op
             /\ req'[r].from = req[r].from /\ req'[r].to = req[r].to
  BY <1>1, <1>2 DEF Mark, Forgetting, RequestState
<1> QED
  BY <1>1, <1>2 DEF Goto, Answer

(* A handler that has mended its rules answers.                              *)
LEMMA Mended ==
    ASSUME NEW q, NEW w, NEW L, NEW P, NEW B, NEW M, Rules(q, L, P, B, M),
           ~Overriding(q), ~Matching(q), ~Blocking(q)
    PROVE  /\ Rules(w, L, P, B, M)
           /\ w.at = "reply" => InHand(w, L, P, B, M)
<1>1. Rules(w, L, P, B, M)
  BY DEF Rules
<1>2. w.at = "reply" => InHand(w, L, P, B, M)
  BY DEF InHand, Matching
<1> QED
  BY <1>1, <1>2

LEMMA LikeReads ==
    ASSUME TypeInv, NEW r \in Requests, ReadLikes(r) \/ ReadPasses(r) \/ FindLivePass(r),
           Rule(r), Hand(r)
    PROVE  Rule(r)' /\ Hand(r)'
<1> DEFINE q == req[r]  w == req'[r]
           L == Seen(likes, r)  P == Seen(passes, r)  B == Seen(blocks, r)  M == Seen(matches, r)
<1>1. /\ q \in RequestState /\ req \in [Requests -> RequestState]
      /\ L \in [LikeIds -> Likes] /\ P \in [PassIds -> Passes]
      /\ q.from \in Users /\ q.to \in Users
  BY Sights DEF ReadLikes, ReadPasses, FindLivePass, At
<1>2. /\ Seen(likes, r)' = L /\ Seen(passes, r)' = P
      /\ Seen(blocks, r)' = B /\ Seen(matches, r)' = M
  BY DEF ReadLikes, ReadPasses, FindLivePass, tables
<1>3. q.at \in {"read_likes", "read_passes", "find_live_pass"}
  BY DEF ReadLikes, ReadPasses, FindLivePass, At
<1>4. Rules(q, L, P, B, M) /\ InHand(q, L, P, B, M)
  BY DEF Rule, Hand
<1>5. Rules(w, L, P, B, M)
  BY <1>3, <1>4, Mended DEF Overriding, Matching, Blocking
<1>6. CASE ReadLikes(r)
  <2>1. w = [q EXCEPT !.likes = [id \in LikeIds |-> IF IsCurrentLike(L[id]) THEN L[id] ELSE None],
                      !.at = "read_passes"]
    BY <1>1, <1>6 DEF ReadLikes
  <2>2. /\ w.at = "read_passes"
        /\ w.likes = [id \in LikeIds |-> IF IsCurrentLike(L[id]) THEN L[id] ELSE None]
    BY <1>1, <2>1 DEF RequestState
  <2>3. InHand(w, L, P, B, M)
    BY <2>2 DEF InHand, Matching
  <2> QED
    BY <1>2, <1>5, <2>3 DEF Rule, Hand
<1>7. CASE ReadPasses(r)
  <2>1. /\ w = [q EXCEPT !.passes = P,
                         !.at = IF q.op = "like" THEN "read_blocks" ELSE "insert_pass"]
        /\ q.at = "read_passes"
    BY <1>1, <1>7 DEF ReadPasses, At
  <2>2. /\ w.at \in {"read_blocks", "insert_pass"}
        /\ w.likes = q.likes /\ w.passes = P
    BY <1>1, <2>1 DEF RequestState
  <2>3. InHand(w, L, P, B, M)
    BY <1>4, <2>1, <2>2 DEF InHand, Matching
  <2> QED
    BY <1>2, <1>5, <2>3 DEF Rule, Hand
<1>8. CASE FindLivePass(r)
  <2>1. /\ w = [q EXCEPT !.livePass = LivePassBetween(P, q.from, q.to), !.at = "insert_like"]
        /\ q.at = "find_live_pass"
    BY <1>1, <1>8 DEF FindLivePass, At
  <2>2. /\ w.at = "insert_like" /\ w.livePass = LivePassBetween(P, q.from, q.to)
        /\ w.from = q.from /\ w.to = q.to /\ w.id = q.id
        /\ w.likes = q.likes /\ w.passes = q.passes
    BY <1>1, <2>1 DEF RequestState
  <2>3. ASSUME NEW p \in PassIds, LiveIn(P, p, q.from, q.to)
        PROVE  p = w.livePass
    <3> DEFINE found == {o \in PassIds : Directed(P[o], q.from, q.to) /\ P[o].state = "live"}
    <3>1. p \in found /\ (CHOOSE o \in found : TRUE) \in found
      BY <2>3 DEF LiveIn
    <3>2. w.livePass \in found
      BY <2>2, <3>1 DEF LivePassBetween
    <3> QED
      BY <1>1, <1>4, <2>3, <3>2 DEF Rules, LiveIn
  <2>4. MayMatch(q) <=> MayMatch(w)
    BY <2>2 DEF MayMatch
  <2>5. InHand(w, L, P, B, M)
    <3> HIDE DEF w, L, P, B, M
    <3> QED
      BY <1>4, <2>1, <2>2, <2>3, <2>4 DEF InHand, Matching
  <2> QED
    BY <1>2, <1>5, <2>5 DEF Rule, Hand
<1> QED
  BY <1>6, <1>7, <1>8

(* A handler that writes nothing and answers, or throws.                     *)
LEMMA Answers ==
    ASSUME TypeInv, MatchInv, NEW r \in Requests, Rule(r), Hand(r), req'[r].at # "failed",
           \/ RefuseLike(r) \/ RefuseSecondLike(r) \/ RefusePass(r) \/ ResolveWithoutMatch(r)
    PROVE  Rule(r)' /\ Hand(r)'
<1> DEFINE q == req[r]  w == req'[r]
           L == Seen(likes, r)  P == Seen(passes, r)  B == Seen(blocks, r)  M == Seen(matches, r)
<1>1. /\ q \in RequestState /\ req \in [Requests -> RequestState]
      /\ L \in [LikeIds -> Likes] /\ q.from \in Users /\ q.to \in Users /\ q.from # q.to
      /\ PairOf(r) = {q.from, q.to} /\ HandlerOK(r)
  BY Sights DEF RefuseLike, RefuseSecondLike, RefusePass, ResolveWithoutMatch, At
<1>2. /\ Seen(likes, r)' = L /\ Seen(passes, r)' = P
      /\ Seen(blocks, r)' = B /\ Seen(matches, r)' = M
  BY DEF RefuseLike, RefuseSecondLike, RefusePass, ResolveWithoutMatch, tables
<1>3. w.at = "reply"
  <2>1. Goto(r, "failed") => w.at = "failed"
    BY <1>1 DEF Goto, RequestState
  <2> QED
    BY <2>1, Gone DEF RefuseLike, RefuseSecondLike, RefusePass, ResolveWithoutMatch
<1>4. Rules(q, L, P, B, M) /\ InHand(q, L, P, B, M)
  BY DEF Rule, Hand
<1>5. CASE RefuseLike(r) \/ RefuseSecondLike(r) \/ RefusePass(r)
  <2>1. ~Overriding(q) /\ ~Matching(q) /\ ~Blocking(q)
    BY <1>5 DEF RefuseLike, RefuseSecondLike, RefusePass, At, Overriding, Matching, Blocking
  <2> QED
    BY <1>2, <1>3, <1>4, <2>1, Mended DEF Rule, Hand
<1>6. CASE ResolveWithoutMatch(r)
  <2>1. q.at = "resolve" /\ ~MayMatch(q)
    BY <1>6 DEF ResolveWithoutMatch, At, MayMatch, PassedEitherWay, Reciprocated, TheirLike
  <2>2. M[{q.from, q.to}] # None \/ \A id \in LikeIds \ {q.id} : ~CurrentIn(L, id, q.to, q.from)
    BY <1>4, <2>1 DEF InHand, Matching
  <2>3. \A id \in LikeIds : CurrentIn(L, id, q.to, q.from) => id # q.id
    <3>1. Own(r, L[q.id])
      BY <2>1 DEF MatchInv, LikesInHand
    <3> QED
      BY <1>1, <3>1 DEF Own, CurrentIn, Directed
  <2>4. ASSUME NEW a \in Users, NEW b \in Users, {a, b} = {q.from, q.to}
        PROVE  Matched(L, M, a, b)
    <3>1. \/ a = q.from /\ b = q.to
          \/ a = q.to /\ b = q.from
      BY <1>1, <2>4
    <3> QED
      BY <2>2, <2>3, <2>4, <3>1 DEF Matched
  <2>5. Rules(w, L, P, B, M)
    BY <1>4, <2>1, <2>4 DEF Rules, Overriding, Blocking
  <2>6. InHand(w, L, P, B, M)
    BY <1>3 DEF InHand, Matching
  <2> QED
    BY <1>2, <2>5, <2>6 DEF Rule, Hand
<1> QED
  BY <1>5, <1>6

(* A like recorded in memory: what answers it is in hand, and no pass of     *)
(* either is in the way, or the two are matched already.                     *)
LEMMA Records ==
    ASSUME TypeInv, NEW r \in Requests, Rule(r), Hand(r), RecordLike(r)
    PROVE  Rule(r)' /\ Hand(r)'
<1> DEFINE q == req[r]  w == req'[r]
           L == Seen(likes, r)  P == Seen(passes, r)  B == Seen(blocks, r)  M == Seen(matches, r)
<1>1. /\ q \in RequestState /\ req \in [Requests -> RequestState]
      /\ L \in [LikeIds -> Likes] /\ P \in [PassIds -> Passes]
      /\ q.from \in Users /\ q.to \in Users /\ q.from # q.to
      /\ PairOf(r) = {q.from, q.to} /\ HandlerOK(r) /\ q.at = "read_blocks"
  BY Sights DEF RecordLike, At
<1>2. /\ Seen(likes, r)' = L /\ Seen(passes, r)' = P
      /\ Seen(blocks, r)' = B /\ Seen(matches, r)' = M
  BY DEF RecordLike, tables
<1>3. Rules(q, L, P, B, M) /\ InHand(q, L, P, B, M)
  BY DEF Rule, Hand
<1>4. ~Overriding(q) /\ ~Matching(q) /\ ~Blocking(q)
  BY <1>1 DEF Overriding, Matching, Blocking
<1>5. /\ w.at = "find_live_pass" /\ w.from = q.from /\ w.to = q.to /\ w.id = q.id
      /\ B[{q.from, q.to}] = None
  <2>1. w.at = "find_live_pass" /\ w.from = q.from /\ w.to = q.to /\ w.id = q.id
    BY <1>1 DEF RecordLike, RequestState
  <2> QED
    BY <1>1, <2>1 DEF RecordLike, NotBlocked
<1>6. ASSUME NEW id \in LikeIds \ {q.id}, CurrentIn(L, id, q.to, q.from)
      PROVE  M[{q.from, q.to}] # None \/ MayMatch(w)
  <2>1. q.likes[id] = L[id]
    BY <1>1, <1>3, <1>6 DEF InHand, CurrentIn
  <2>2. CASE OwnLike(r) = q.id
    <3>1. q.id \in LikeIds
      BY <1>1 DEF HandlerOK
    <3>2. CurrentIn(q.likes, q.id, q.from, q.to)
      <4> DEFINE found == {i \in LikeIds : IsCurrentLike(q.likes[i]) /\ Directed(q.likes[i], q.from, q.to)}
      <4>1. found # {} /\ q.id = CHOOSE i \in found : TRUE
        BY <2>2, <3>1, NoneAssumption DEF OwnLike, CurrentLikeBetween
      <4>2. q.id \in found
        BY <4>1
      <4> QED
        BY <4>2 DEF CurrentIn
    <3>3. CurrentIn(L, q.id, q.from, q.to)
      BY <1>1, <1>3, <3>1, <3>2 DEF InHand, CurrentIn, IsCurrentLike
    <3>4. Matched(L, M, q.from, q.to)
      BY <1>1, <1>3, <1>4 DEF Rules
    <3> QED
      BY <1>6, <3>1, <3>3, <3>4 DEF Matched
  <2>3. CASE OwnLike(r) # q.id
    <3>1. /\ w.likes = [q.likes EXCEPT ![q.id] = NewLike(r)] /\ w.passes = PassesLeft(r)
      BY <1>1, <2>3 DEF RecordLike, RequestState
    <3>2. w.likes[id] = L[id]
      BY <1>1, <2>1, <3>1 DEF RequestState
    <3>3. CurrentLikeBetween(w.likes, w.to, w.from) # None
      <4>1. CurrentIn(w.likes, id, w.to, w.from)
        BY <1>5, <1>6, <3>2 DEF CurrentIn
      <4> QED
        BY <4>1, NoneAssumption DEF CurrentLikeBetween, CurrentIn
    <3>4. Clear(L, P, q.to, q.from)
      BY <1>1, <1>3, <1>4 DEF Rules
    <3>5. ASSUME NEW p \in PassIds, IsPassInEffect(w.passes[p])
          PROVE  ~Directed(w.passes[p], q.from, q.to) /\ ~Directed(w.passes[p], q.to, q.from)
      <4>1. w.passes[p] = IF Overrides(r, p) THEN [q.passes[p] EXCEPT !.state = "superseded"]
                                             ELSE q.passes[p]
        BY <3>1 DEF PassesLeft
      <4>2. q.passes[p] \in Passes
        BY <1>1 DEF RequestState
      <4>3. ~Overrides(r, p)
        <5> SUFFICES ASSUME Overrides(r, p) PROVE FALSE
          OBVIOUS
        <5>1. q.passes[p] \in PassRow
          BY <4>2 DEF Overrides, Directed, Passes
        <5>2. w.passes[p].state = "superseded"
          BY <4>1, <5>1 DEF PassRow
        <5> QED
          BY <3>5, <5>2 DEF IsPassInEffect
      <4>4. w.passes[p] = q.passes[p]
        BY <4>1, <4>3
      <4>5. ~Directed(q.passes[p], q.from, q.to)
        BY <3>5, <4>3, <4>4 DEF Overrides
      <4>6. Directed(q.passes[p], q.to, q.from) => LiveIn(P, p, q.to, q.from)
        BY <1>1, <1>3, <3>5, <4>4 DEF InHand, LiveIn, IsPassInEffect
      <4> QED
        BY <1>6, <3>4, <4>4, <4>5, <4>6 DEF Clear
    <3>6. MayMatch(w)
      BY <1>5, <3>3, <3>5 DEF MayMatch, PassInEffectBetween
    <3> QED
      BY <3>6
  <2> QED
    BY <2>2, <2>3
<1>7. Rules(w, L, P, B, M)
  BY <1>3, <1>4, Mended
<1>8. InHand(w, L, P, B, M)
  <2> HIDE DEF w, L, P, B, M
  <2> QED
    BY <1>5, <1>6 DEF InHand
<1> QED
  BY <1>2, <1>7, <1>8 DEF Rule, Hand

(* A like is inserted: its liker's live pass, if any, is the one to go.      *)
LEMMA Inserts ==
    ASSUME TypeInv, NEW r \in Requests, Rule(r), Hand(r), InsertLike(r), req'[r].at # "failed"
    PROVE  Rule(r)' /\ Hand(r)'
<1> DEFINE q == req[r]  w == req'[r]
           L == Seen(likes, r)  P == Seen(passes, r)  B == Seen(blocks, r)  M == Seen(matches, r)
           N == Seen(likes', r)
           row == [from |-> q.from, to |-> q.to, state |-> "live", superseded |-> q.livePass]
<1>1. /\ q \in RequestState /\ req \in [Requests -> RequestState]
      /\ likes \in [LikeIds -> Versions(Likes, Requests)]
      /\ L \in [LikeIds -> Likes] /\ P \in [PassIds -> Passes]
      /\ q.from \in Users /\ q.to \in Users /\ q.from # q.to /\ {q.from, q.to} \in Pairs
      /\ q.id \in LikeIds /\ q.at = "insert_like"
  BY Sights DEF InsertLike, At, HandlerOK, TypeInv, TypeOK
<1>2. /\ Seen(passes, r)' = P /\ Seen(blocks, r)' = B /\ Seen(matches, r)' = M
      /\ Seen(likes, r)' = N
  BY DEF InsertLike
<1>3. Rules(q, L, P, B, M) /\ InHand(q, L, P, B, M)
  BY DEF Rule, Hand
<1>4. ~Overriding(q) /\ ~Matching(q) /\ ~Blocking(q)
  BY <1>1 DEF Overriding, Matching, Blocking
<1>5. /\ w.from = q.from /\ w.to = q.to /\ w.id = q.id /\ w.livePass = q.livePass
      /\ w.likes = q.likes /\ w.passes = q.passes
      /\ w.at \in {"supersede_own", "supersede_pair", "resolve"}
      /\ \/ N = L /\ w.at # "supersede_own"
         \/ /\ N = [L EXCEPT ![q.id] = row]
            /\ w.at = "supersede_own" <=> q.livePass # None
  <2>1. ASSUME NEW place, Goto(r, place)
        PROVE  /\ w.from = q.from /\ w.to = q.to /\ w.id = q.id /\ w.livePass = q.livePass
               /\ w.likes = q.likes /\ w.passes = q.passes /\ w.at = place
    BY <1>1, <2>1 DEF Goto, RequestState
  <2>2. AfterAppend(r) \in {"supersede_pair", "resolve"}
    BY DEF AfterAppend
  <2>3. likes' = Put(likes, q.id, r, row) => N = [L EXCEPT ![q.id] = row]
    <3>1. Seen(Put(likes, q.id, r, row), r) = [L EXCEPT ![q.id] = row]
      <4>1. likes \in [LikeIds -> Versions(Likes, Requests)] /\ q.id \in LikeIds
        BY <1>1
      <4> HIDE DEF row, q
      <4> QED
        BY <4>1, PutSees
    <3> QED
      BY <3>1
  <2>4. \/ Goto(r, AfterAppend(r)) /\ UNCHANGED likes
        \/ /\ likes' = Put(likes, q.id, r, row)
           /\ Goto(r, IF q.livePass # None THEN "supersede_own" ELSE AfterAppend(r))
    <3>1. ~Goto(r, "failed")
      BY <2>1
    <3> QED
      BY <3>1 DEF InsertLike
  <2> QED
    BY <2>1, <2>2, <2>3, <2>4
<1>6. \A id \in LikeIds \ {q.id} : N[id] = L[id]
  BY <1>1, <1>5
<1>7. N[q.id] = L[q.id] \/ N[q.id] = row
  BY <1>1, <1>5
<1>8. ASSUME NEW id \in LikeIds, NEW a \in Users, NEW b \in Users, CurrentIn(N, id, a, b)
      PROVE  CurrentIn(L, id, a, b) \/ (N # L /\ a = q.from /\ b = q.to)
  <2>1. CASE N[id] = L[id]
    BY <1>8, <2>1 DEF CurrentIn
  <2>2. CASE N[id] = row /\ N # L
    BY <1>8, <2>2 DEF CurrentIn, Directed
  <2> QED
    BY <1>6, <1>7, <2>1, <2>2
<1>9. \A p \in PassIds : LiveIn(P, p, q.from, q.to) => p = q.livePass
  BY <1>1, <1>3 DEF InHand
<1>10. N # L /\ w.at # "supersede_own" => \A p \in PassIds : ~LiveIn(P, p, q.from, q.to)
  BY <1>5, <1>9, NoneAssumption
<1>11. ASSUME NEW a \in Users, NEW b \in Users
       PROVE  /\ Clear(N, P, a, b) \/ (a = w.from /\ b = w.to /\ Overriding(w))
              /\ Matched(N, M, a, b) \/ ({a, b} = {w.from, w.to} /\ Matching(w))
  <2>1. Clear(L, P, a, b) /\ Matched(L, M, a, b)
    BY <1>3, <1>4 DEF Rules
  <2>2. CASE N = L
    BY <2>1, <2>2
  <2>3. CASE N # L
    <3>1. Clear(N, P, a, b) \/ (a = q.from /\ b = q.to /\ w.at = "supersede_own")
      BY <1>8, <1>10, <2>1, <2>3 DEF Clear
    <3>2. Matched(N, M, a, b) \/ {a, b} = {q.from, q.to}
      BY <1>8, <2>1 DEF Matched
    <3> QED
      BY <1>5, <3>1, <3>2 DEF Overriding, Matching
  <2> QED
    BY <2>2, <2>3
<1>12. \A id \in LikeIds : N[id] # None => {N[id].from, N[id].to} \in Pairs
  <2>1. {row.from, row.to} \in Pairs
    BY <1>1
  <2>2. \A id \in LikeIds : L[id] # None => {L[id].from, L[id].to} \in Pairs
    BY <1>3 DEF Rules
  <2> HIDE DEF L, N, row
  <2> QED
    BY <1>6, <1>7, <2>1, <2>2
<1>13. Rules(w, N, P, B, M)
  <2> HIDE DEF w, N, P, B, M, row
  <2> QED
    BY <1>3, <1>4, <1>11, <1>12 DEF Rules
<1>14. InHand(w, N, P, B, M)
  <2>1. MayMatch(w) <=> MayMatch(q)
    BY <1>5 DEF MayMatch
  <2>2. \A id \in LikeIds \ {w.id} : CurrentIn(N, id, w.to, w.from) =>
           M[{w.from, w.to}] # None \/ MayMatch(w)
    BY <1>1, <1>3, <1>5, <1>6, <2>1 DEF InHand, CurrentIn
  <2>3. B[{w.from, w.to}] = None
    BY <1>1, <1>3, <1>5 DEF InHand
  <2> HIDE DEF w, N, P, B, M, row
  <2> QED
    BY <1>5, <1>9, <2>2, <2>3 DEF InHand
<1> QED
  BY <1>2, <1>13, <1>14 DEF Rule, Hand

(* Superseding a pass leaves one live pass less, and no other.               *)
LEMMA Superseded ==
    ASSUME TypeInv, NEW r \in Requests, NEW p \in PassIds,
           passes' = Supersede(passes, p, r)
    PROVE  /\ FewerLive(Seen(passes, r), Seen(passes, r)')
           /\ \A a, b \in Users : ~LiveIn(Seen(passes, r)', p, a, b)
<1> DEFINE P == Seen(passes, r)  row == [P[p] EXCEPT !.state = "superseded"]
<1>1. passes \in [PassIds -> Versions(Passes, Requests)] /\ P \in [PassIds -> Passes]
  BY SeenType DEF TypeInv, TypeOK
<1>2. CASE P[p] # None /\ P[p].state = "live"
  <2>1. P[p] \in PassRow /\ row.state = "superseded"
    BY <1>1, <1>2 DEF Passes, PassRow
  <2>2. Seen(Put(passes, p, r, row), r) = [P EXCEPT ![p] = row]
    <3> HIDE DEF row
    <3> QED
      BY <1>1, PutSees
  <2>3. Seen(passes, r)' = [P EXCEPT ![p] = row]
    BY <1>2, <2>2 DEF Supersede
  <2>4. Seen(passes, r)'[p] = row /\ \A o \in PassIds \ {p} : Seen(passes, r)'[o] = P[o]
    BY <1>1, <2>3
  <2> HIDE DEF row
  <2> QED
    BY <2>1, <2>4 DEF FewerLive, LiveIn
<1>3. CASE ~(P[p] # None /\ P[p].state = "live")
  <2>1. Seen(passes, r)' = P
    BY <1>3 DEF Supersede
  <2> QED
    BY <1>3, <2>1 DEF FewerLive, LiveIn, Directed
<1> QED
  BY <1>2, <1>3

LEMMA Supersedes ==
    ASSUME TypeInv, NEW r \in Requests, Rule(r), Hand(r),
           SupersedeOwnPass(r) \/ SupersedePassByPair(r)
    PROVE  Rule(r)' /\ Hand(r)'
<1> DEFINE q == req[r]  w == req'[r]
           L == Seen(likes, r)  P == Seen(passes, r)  B == Seen(blocks, r)  M == Seen(matches, r)
           O == Seen(passes', r)
<1>1. /\ q \in RequestState /\ req \in [Requests -> RequestState]
      /\ L \in [LikeIds -> Likes] /\ P \in [PassIds -> Passes]
      /\ q.from \in Users /\ q.to \in Users /\ q.from # q.to /\ {q.from, q.to} \in Pairs
      /\ HandlerOK(r) /\ q.at \in {"supersede_own", "supersede_pair"}
  BY Sights DEF SupersedeOwnPass, SupersedePassByPair, At
<1>2. /\ Seen(likes, r)' = L /\ Seen(blocks, r)' = B /\ Seen(matches, r)' = M
      /\ Seen(passes, r)' = O
  BY DEF SupersedeOwnPass, SupersedePassByPair
<1>3. Rules(q, L, P, B, M) /\ InHand(q, L, P, B, M)
  BY DEF Rule, Hand
<1>4. /\ w.from = q.from /\ w.to = q.to /\ w.id = q.id /\ w.livePass = q.livePass
      /\ w.likes = q.likes /\ w.passes = q.passes /\ w.at \in {"supersede_pair", "resolve"}
  BY <1>1 DEF SupersedeOwnPass, SupersedePassByPair, Goto, AfterAppend, RequestState
<1>5. /\ FewerLive(P, O)
      /\ q.at = "supersede_own" => \A p \in PassIds : ~LiveIn(O, p, q.from, q.to)
  <2>1. CASE SupersedeOwnPass(r)
    <3>1. q.livePass \in PassIds /\ passes' = Supersede(passes, q.livePass, r) /\ q.at = "supersede_own"
      BY <1>1, <2>1 DEF SupersedeOwnPass, HandlerOK, At
    <3>2. FewerLive(P, O) /\ \A a, b \in Users : ~LiveIn(O, q.livePass, a, b)
      BY <1>2, <3>1, Superseded
    <3>3. \A p \in PassIds : LiveIn(P, p, q.from, q.to) => p = q.livePass
      BY <1>3, <3>1 DEF InHand
    <3> QED
      BY <1>1, <3>2, <3>3 DEF FewerLive
  <2>2. CASE SupersedePassByPair(r)
    <3>1. q.at = "supersede_pair"
      BY <2>2 DEF SupersedePassByPair, At
    <3>2. CASE O = P
      BY <3>1, <3>2 DEF FewerLive
    <3>3. CASE \E p \in PassIds : passes' = Supersede(passes, p, r)
      BY <1>2, <3>1, <3>3, Superseded
    <3> QED
      BY <2>2, <3>2, <3>3, LivePassType DEF SupersedePassByPair
  <2> QED
    BY <2>1, <2>2
<1>6. ASSUME NEW a \in Users, NEW b \in Users
      PROVE  Clear(L, O, a, b)
  <2>1. Clear(L, P, a, b) \/ (a = q.from /\ b = q.to /\ q.at = "supersede_own")
    BY <1>1, <1>3 DEF Rules, Overriding
  <2> QED
    BY <1>5, <2>1 DEF Clear, FewerLive
<1>7. \A a, b \in Users : \A p, o \in PassIds : LiveIn(O, p, a, b) /\ LiveIn(O, o, a, b) => p = o
  BY <1>3, <1>5 DEF Rules, FewerLive
<1>8. ~Blocking(q)
  BY <1>1 DEF Blocking
<1>9. Rules(w, L, O, B, M)
  <2> HIDE DEF q, w, L, P, O, B, M
  <2> QED
    BY <1>3, <1>4, <1>6, <1>7, <1>8 DEF Rules, Matching
<1>10. MayMatch(w) <=> MayMatch(q)
  BY <1>4 DEF MayMatch
<1>11. InHand(w, L, O, B, M)
  <2> HIDE DEF q, w, L, P, O, B, M
  <2> QED
    BY <1>1, <1>3, <1>4, <1>10 DEF InHand, Matching
<1> QED
  BY <1>2, <1>9, <1>11 DEF Rule, Hand

(* The match is recorded: the two who like each other have theirs.           *)
LEMMA Upserts ==
    ASSUME TypeInv, NEW r \in Requests, Rule(r), Hand(r), UpsertMatch(r)
    PROVE  Rule(r)' /\ Hand(r)'
<1> DEFINE q == req[r]  w == req'[r]
           L == Seen(likes, r)  P == Seen(passes, r)  B == Seen(blocks, r)  M == Seen(matches, r)
           N == Seen(matches', r)  x == {q.from, q.to}
           row == Converged(M[x], MatchLikes(r))
<1>1. /\ q \in RequestState /\ req \in [Requests -> RequestState]
      /\ matches \in [Pairs -> Versions(MatchRow \cup {None}, Requests)]
      /\ M \in [Pairs -> MatchRow \cup {None}]
      /\ q.from \in Users /\ q.to \in Users /\ q.from # q.to /\ x \in Pairs
      /\ PairOf(r) = x /\ HandlerOK(r) /\ q.at = "resolve"
  BY Sights DEF UpsertMatch, At, TypeInv, TypeOK
<1>2. /\ Seen(likes, r)' = L /\ Seen(blocks, r)' = B /\ Seen(passes, r)' = P
      /\ Seen(matches, r)' = N
  BY DEF UpsertMatch
<1>3. Rules(q, L, P, B, M) /\ InHand(q, L, P, B, M)
  BY DEF Rule, Hand
<1>4. /\ w.from = q.from /\ w.to = q.to /\ w.op = "like" /\ w.at = "mark_likes"
  <2>1. MatchLikes(r) # <<>>
    BY DEF MatchLikes
  <2> QED
    BY <1>1, <2>1, Gone DEF UpsertMatch, HandlerOK
<1>5. N[x] # None /\ \A y \in Pairs \ {x} : N[y] = M[y]
  <2>1. matches' = Put(matches, x, r, row)
    BY <1>1 DEF UpsertMatch
  <2>2. N = [M EXCEPT ![x] = row]
    <3>1. Seen(Put(matches, x, r, row), r) = [M EXCEPT ![x] = row]
      <4> HIDE DEF row, x
      <4> QED
        BY <1>1, PutSees
    <3> QED
      BY <2>1, <3>1
  <2>3. row # None
    <3>1. MatchLikes(r) \in Seq(LikeIds) /\ DOMAIN MatchLikes(r) = {1, 2}
      BY MatchLikesType
    <3>2. M[x] \in MatchRow \cup {None} /\ MatchLikes(r)[1] \in Range(MatchLikes(r))
      BY <1>1, <3>1 DEF Range
    <3>3. Lists(row, MatchLikes(r)[1])
      <4> HIDE DEF M, x
      <4> QED
        BY <3>1, <3>2, ConvergedLists
    <3> QED
      BY <3>3 DEF Lists
  <2> HIDE DEF row, x
  <2> QED
    BY <1>1, <2>2, <2>3
<1>6. ASSUME NEW a \in Users, NEW b \in Users
      PROVE  Clear(L, P, a, b) /\ Matched(L, N, a, b)
  <2>1. ~Overriding(q)
    BY <1>1 DEF Overriding
  <2>2. Clear(L, P, a, b) /\ (Matched(L, M, a, b) \/ {a, b} = x)
    BY <1>3, <2>1 DEF Rules
  <2>3. Matched(L, M, a, b) => Matched(L, N, a, b)
    <3>1. \A i \in LikeIds : CurrentIn(L, i, a, b) => {a, b} \in Pairs
      BY <1>3 DEF Rules, CurrentIn, Directed, IsCurrentLike
    <3> QED
      BY <1>5, <3>1 DEF Matched
  <2>4. {a, b} = x => Matched(L, N, a, b)
    BY <1>5 DEF Matched
  <2> QED
    BY <2>2, <2>3, <2>4
<1>7. ASSUME NEW y \in Pairs
      PROVE  Parted(B, N, y)
  <2>1. ~Blocking(q) /\ B[x] = None
    BY <1>1, <1>3 DEF Blocking, InHand, Matching
  <2>2. Parted(B, M, y)
    BY <1>3, <2>1 DEF Rules
  <2> QED
    BY <1>5, <2>1, <2>2 DEF Parted
<1>8. Rules(w, L, P, B, N)
  <2> HIDE DEF q, w, L, P, B, M, N, x, row
  <2> QED
    BY <1>3, <1>6, <1>7 DEF Rules
<1>9. InHand(w, L, P, B, N)
  <2> HIDE DEF q, w, L, P, B, M, N, x, row
  <2> QED
    BY <1>4 DEF InHand, Matching
<1> QED
  BY <1>2, <1>8, <1>9 DEF Rule, Hand

(* A like is marked: no like becomes current, and one that is withdrawn is   *)
(* current no more.                                                          *)
LEMMA Marked ==
    ASSUME TypeInv, NEW r \in Requests, MarkLike(r)
    PROVE  /\ Fewer(Seen(likes, r), Seen(likes, r)')
           /\ \A id \in LikeIds : Seen(likes, r)'[id] # None =>
                /\ Seen(likes, r)[id] # None
                /\ Seen(likes, r)'[id].from = Seen(likes, r)[id].from
                /\ Seen(likes, r)'[id].to = Seen(likes, r)[id].to
           /\ req[r].op # "like" /\ Head(req[r].todo) \in LikeIds =>
                \A a, b \in Users : ~CurrentIn(Seen(likes, r)', Head(req[r].todo), a, b)
           /\ SameRequest(r) /\ req'[r].todo = Tail(req[r].todo)
           /\ req'[r].at = IF Tail(req[r].todo) # <<>> THEN "mark_likes"
                                                       ELSE After(req[r].op, "mark_likes")
<1> DEFINE q == req[r]  w == req'[r]  id == Head(q.todo)
           L == Seen(likes, r)  N == Seen(likes', r)
           state == IF q.op = "like" THEN "matched" ELSE "withdrawn"
           row == [L[id] EXCEPT !.state = state]
<1>1. /\ likes \in [LikeIds -> Versions(Likes, Requests)] /\ L \in [LikeIds -> Likes]
      /\ req \in [Requests -> RequestState] /\ q \in RequestState /\ q.todo # <<>>
  BY Sights DEF MarkLike, At, TypeInv, TypeOK, HandlerOK
<1>2. id \in LikeIds
  BY <1>1 DEF RequestState
<1>3. SameRequest(r) /\ w.todo = Tail(q.todo)
      /\ w.at = IF Tail(q.todo) # <<>> THEN "mark_likes" ELSE After(q.op, "mark_likes")
  BY <1>1 DEF MarkLike, SameRequest, RequestState
<1>4. CASE Movable(L[id], state)
  <2>1. L[id] \in LikeRow /\ row.state = state /\ row.from = L[id].from /\ row.to = L[id].to
        /\ row # None
    <3>1. L[id] \in LikeRow
      BY <1>1, <1>2, <1>4 DEF Movable, IsCurrentLike, Likes
    <3>2. state \in {"matched", "withdrawn"}
      OBVIOUS
    <3> HIDE DEF L, id, state
    <3>3. row \in LikeRow
      BY <3>1, <3>2 DEF LikeRow
    <3> QED
      BY <3>1, <3>3, RowAssumption DEF LikeRow
  <2>2. N = [L EXCEPT ![id] = row]
    <3>1. Seen(Put(likes, id, r, row), r) = [L EXCEPT ![id] = row]
      <4> HIDE DEF row, id
      <4> QED
        BY <1>1, <1>2, PutSees
    <3> QED
      BY <1>4, <3>1 DEF MarkLike
  <2>3. N[id] = row /\ \A o \in LikeIds \ {id} : N[o] = L[o]
    <3> HIDE DEF row, id, L, N
    <3> QED
      BY <1>1, <1>2, <2>2
  <2>4. q.op = "like" => IsCurrentLike(L[id])
    <3>1. q.op = "like" => Movable(L[id], "matched")
      BY <1>4
    <3> QED
      BY <3>1 DEF Movable, IsCurrentLike
  <2>5. q.op # "like" => ~IsCurrentLike(row)
    BY <2>1 DEF IsCurrentLike
  <2>6. Fewer(L, N)
    <3>1. L[id] # None
      BY <1>4 DEF Movable, IsCurrentLike
    <3> HIDE DEF row, id, L, N, q
    <3> QED
      BY <2>1, <2>3, <2>4, <2>5, <3>1 DEF Fewer, CurrentIn, Directed
  <2>7. \A o \in LikeIds : N[o] # None => L[o] # None /\ N[o].from = L[o].from /\ N[o].to = L[o].to
    <3>1. L[id] # None
      BY <1>4 DEF Movable, IsCurrentLike
    <3> HIDE DEF row, id, L, N
    <3> QED
      BY <2>1, <2>3, <3>1
  <2>8. q.op # "like" => \A a, b \in Users : ~CurrentIn(N, id, a, b)
    BY <2>3, <2>5 DEF CurrentIn
  <2> QED
    BY <1>3, <2>6, <2>7, <2>8
<1>5. CASE ~Movable(L[id], state)
  <2>1. N = L
    BY <1>5 DEF MarkLike
  <2>2. ~IsCurrentLike(L[id])
    BY <1>5 DEF Movable
  <2> QED
    BY <1>3, <2>1, <2>2 DEF Fewer, CurrentIn
<1> QED
  BY <1>4, <1>5

LEMMA Marks ==
    ASSUME TypeInv, NEW r \in Requests, Rule(r), Hand(r), MarkLike(r)
    PROVE  Rule(r)' /\ Hand(r)'
<1> DEFINE q == req[r]  w == req'[r]
           L == Seen(likes, r)  P == Seen(passes, r)  B == Seen(blocks, r)  M == Seen(matches, r)
           N == Seen(likes', r)
<1>1. /\ q \in RequestState /\ q.from \in Users /\ q.to \in Users
      /\ HandlerOK(r) /\ q.at = "mark_likes"
  BY Sights DEF MarkLike, At
<1>2. /\ Seen(passes, r)' = P /\ Seen(blocks, r)' = B /\ Seen(matches, r)' = M
      /\ Seen(likes, r)' = N
  BY DEF MarkLike
<1>3. Rules(q, L, P, B, M) /\ InHand(q, L, P, B, M)
  BY DEF Rule, Hand
<1>4. /\ Fewer(L, N)
      /\ \A id \in LikeIds : N[id] # None =>
            L[id] # None /\ N[id].from = L[id].from /\ N[id].to = L[id].to
      /\ w.op = q.op /\ w.from = q.from /\ w.to = q.to
      /\ w.at = IF Tail(q.todo) # <<>> THEN "mark_likes" ELSE After(q.op, "mark_likes")
  BY <1>2, Marked DEF SameRequest
<1>5. q.op = "pass" => w.at = "reply" /\ \A id \in LikeIds : ~CurrentIn(N, id, q.from, q.to)
  <2> SUFFICES ASSUME q.op = "pass"
               PROVE  w.at = "reply" /\ \A id \in LikeIds : ~CurrentIn(N, id, q.from, q.to)
    OBVIOUS
  <2>1. Tail(q.todo) = <<>> /\ \A id \in LikeIds : CurrentIn(L, id, q.from, q.to) => id = Head(q.todo)
    BY <1>1, <1>3 DEF InHand
  <2>2. Head(q.todo) \in LikeIds
    BY <1>1 DEF HandlerOK, RequestState
  <2>3. \A a, b \in Users : ~CurrentIn(N, Head(q.todo), a, b)
    BY <1>2, <2>2, Marked
  <2> QED
    BY <1>1, <1>4, <2>1, <2>3 DEF Fewer, After
<1>6. q.op # "pass" => w.at \in {"mark_likes", "open_chat", "close_chat"}
  BY <1>1, <1>4 DEF After, RequestState, Ops
<1>7. ASSUME NEW a \in Users, NEW b \in Users
      PROVE  Clear(N, P, a, b) /\ Matched(N, M, a, b)
  <2>1. FewerLive(P, P)
    BY DEF FewerLive
  <2>2. Clear(N, P, a, b)
    <3>1. CASE q.op = "pass" /\ a = q.from /\ b = q.to
      BY <1>5, <3>1 DEF Clear
    <3>2. CASE ~(q.op = "pass" /\ a = q.from /\ b = q.to)
      <4>1. Clear(L, P, a, b)
        BY <1>1, <1>3, <3>2 DEF Rules, Overriding
      <4> QED
        BY <1>4, <2>1, <4>1, FewerRules
    <3> QED
      BY <3>1, <3>2
  <2>3. Matched(L, M, a, b)
    BY <1>1, <1>3 DEF Rules, Matching
  <2> QED
    BY <1>4, <2>1, <2>2, <2>3, FewerRules
<1>8. Rules(w, N, P, B, M)
  <2> HIDE DEF q, w, L, P, B, M, N
  <2> QED
    BY <1>1, <1>3, <1>4, <1>7 DEF Rules, Blocking
<1>9. InHand(w, N, P, B, M)
  <2> HIDE DEF q, w, L, P, B, M, N
  <2> QED
    BY <1>4, <1>5, <1>6 DEF InHand, Matching
<1> QED
  BY <1>2, <1>8, <1>9 DEF Rule, Hand

(* The conversation is no part of the rules.                                 *)
LEMMA Chats ==
    ASSUME TypeInv, NEW r \in Requests, Rule(r), OpenChat(r) \/ CloseChat(r)
    PROVE  Rule(r)' /\ Hand(r)'
<1>1. /\ Seen(likes, r)' = Seen(likes, r) /\ Seen(passes, r)' = Seen(passes, r)
      /\ Seen(blocks, r)' = Seen(blocks, r) /\ Seen(matches, r)' = Seen(matches, r)
  BY DEF OpenChat, CloseChat
<1>2. ~Overriding(req[r]) /\ ~Matching(req[r]) /\ ~Blocking(req[r])
  BY DEF OpenChat, CloseChat, At, Overriding, Matching, Blocking
<1>3. req'[r].at = "reply"
  BY Gone DEF OpenChat, CloseChat
<1> QED
  BY <1>1, <1>2, <1>3, Mended DEF Rule, Hand

(* A pass is recorded over the like it overtakes, which it then withdraws.   *)
LEMMA InsertsPass ==
    ASSUME TypeInv, IndexInv, NEW r \in Requests, Rule(r), Hand(r), InsertPass(r),
           req'[r].at # "failed"
    PROVE  Rule(r)' /\ Hand(r)'
<1> DEFINE q == req[r]  w == req'[r]
           L == Seen(likes, r)  P == Seen(passes, r)  B == Seen(blocks, r)  M == Seen(matches, r)
           O == Seen(passes', r)
           row == [from |-> q.from, to |-> q.to, state |-> "live", fresh |-> TRUE]
<1>1. /\ q \in RequestState /\ req \in [Requests -> RequestState]
      /\ likes \in [LikeIds -> Versions(Likes, Requests)]
      /\ passes \in [PassIds -> Versions(Passes, Requests)]
      /\ L \in [LikeIds -> Likes] /\ P \in [PassIds -> Passes]
      /\ q.from \in Users /\ q.to \in Users /\ q.from # q.to /\ {q.from, q.to} \in Pairs
      /\ HandlerOK(r) /\ q.at = "insert_pass"
  BY Sights DEF InsertPass, At, TypeInv, TypeOK
<1>2. /\ Seen(likes, r)' = L /\ Seen(blocks, r)' = B /\ Seen(matches, r)' = M
      /\ Seen(passes, r)' = O
  BY DEF InsertPass
<1>3. Rules(q, L, P, B, M) /\ InHand(q, L, P, B, M)
  BY DEF Rule, Hand
<1>4. q.op = "pass" /\ q.id \in PassIds /\ P[q.id] = None
  <2>1. q.op = "pass" /\ q.id \in PassIds /\ passes[q.id] = Settled(None)
    BY <1>1 DEF HandlerOK
  <2> QED
    BY <1>1, <2>1 DEF Seen, Settled
<1>5. /\ LivePassBetween(P, q.from, q.to) = None
      /\ passes' = Put(passes, q.id, r, row) /\ Mark(r, Overtaken(r), "recorded")
  <2>1. Goto(r, "failed") => w.at = "failed"
    BY <1>1 DEF Goto, RequestState
  <2> QED
    BY <2>1 DEF InsertPass
<1>6. /\ w.at = IF Overtaken(r) = <<>> THEN "reply" ELSE "mark_likes"
      /\ w.todo = Overtaken(r) /\ w.op = "pass" /\ w.from = q.from /\ w.to = q.to
  BY <1>4, <1>5, Gone
<1>7. O[q.id] = row /\ \A p \in PassIds \ {q.id} : O[p] = P[p]
  <2>1. Seen(Put(passes, q.id, r, row), r) = [P EXCEPT ![q.id] = row]
    <3>1. passes \in [PassIds -> Versions(Passes, Requests)] /\ q.id \in PassIds
      BY <1>1, <1>4
    <3> HIDE DEF row, q
    <3> QED
      BY <3>1, PutSees
  <2>2. O = [P EXCEPT ![q.id] = row]
    BY <1>5, <2>1
  <2> HIDE DEF row, q, O, P
  <2> QED
    BY <1>1, <1>4, <2>2
<1>8. \A p \in PassIds : ~LiveIn(P, p, q.from, q.to)
  <2> DEFINE found == {o \in PassIds : Directed(P[o], q.from, q.to) /\ P[o].state = "live"}
  <2>1. found = {}
    <3>1. found # {} => (CHOOSE p \in found : TRUE) \in PassIds
      OBVIOUS
    <3> QED
      BY <1>5, <3>1, NoneAssumption DEF LivePassBetween
  <2> QED
    BY <2>1 DEF LiveIn
<1>9. ASSUME NEW p \in PassIds, NEW a \in Users, NEW b \in Users, LiveIn(O, p, a, b)
      PROVE  \/ LiveIn(P, p, a, b) /\ ~(a = q.from /\ b = q.to)
             \/ p = q.id /\ a = q.from /\ b = q.to
  <2>1. CASE p = q.id
    BY <1>7, <1>9, <2>1 DEF LiveIn, Directed
  <2>2. CASE p # q.id
    BY <1>7, <1>8, <1>9, <2>2 DEF LiveIn
  <2> QED
    BY <2>1, <2>2
<1>10. \A a, b \in Users : \A p, o \in PassIds : LiveIn(O, p, a, b) /\ LiveIn(O, o, a, b) => p = o
  BY <1>3, <1>9 DEF Rules
<1>11. \A id \in LikeIds : CurrentIn(L, id, q.from, q.to) =>
          Overtaken(r) = <<id>>
  <2> SUFFICES ASSUME NEW id \in LikeIds, CurrentIn(L, id, q.from, q.to)
               PROVE  Overtaken(r) = <<id>>
    OBVIOUS
  <2> DEFINE found == {i \in LikeIds : IsCurrentLike(q.likes[i]) /\ Directed(q.likes[i], q.from, q.to)}
  <2>1. \A i \in LikeIds : q.likes[i] = IF IsCurrentLike(L[i]) THEN L[i] ELSE None
    BY <1>1, <1>3 DEF InHand
  <2>2. id \in found
    BY <2>1 DEF CurrentIn
  <2>3. OwnLike(r) = (CHOOSE i \in found : TRUE) /\ OwnLike(r) \in found
    BY <2>2 DEF OwnLike, CurrentLikeBetween
  <2>4. OwnLike(r) \in LikeIds /\ CurrentIn(L, OwnLike(r), q.from, q.to)
    BY <2>1, <2>3 DEF CurrentIn, IsCurrentLike
  <2>5. \A i \in LikeIds : CurrentIn(L, i, q.from, q.to) => CouldBeCurrent(i, q.from, q.to)
    BY <1>1 DEF CurrentIn, CouldBeCurrent, Seen
  <2>6. OwnLike(r) = id
    BY <1>1, <2>4, <2>5 DEF IndexInv
  <2> QED
    BY <2>6, NoneAssumption DEF Overtaken
<1>12. Overtaken(r) = <<>> \/ \E id \in LikeIds : Overtaken(r) = <<id>>
  BY CurrentLikeType DEF Overtaken, OwnLike
<1>13. ASSUME NEW a \in Users, NEW b \in Users
       PROVE  /\ Clear(L, O, a, b) \/ (a = w.from /\ b = w.to /\ Overriding(w))
              /\ Matched(L, M, a, b)
  <2>1. Clear(L, P, a, b) /\ Matched(L, M, a, b)
    BY <1>1, <1>3 DEF Rules, Overriding, Matching
  <2>2. CASE ~(a = q.from /\ b = q.to)
    BY <1>9, <2>1, <2>2 DEF Clear
  <2>3. CASE a = q.from /\ b = q.to /\ Overtaken(r) = <<>>
    BY <1>11, <2>1, <2>3 DEF Clear
  <2>4. CASE a = q.from /\ b = q.to /\ Overtaken(r) # <<>>
    BY <1>6, <2>1, <2>4 DEF Overriding
  <2> QED
    BY <2>1, <2>2, <2>3, <2>4
<1>14. Rules(w, L, O, B, M)
  <2>1. ~Blocking(q)
    BY <1>1 DEF Blocking
  <2> HIDE DEF q, w, L, P, O, B, M, row
  <2> QED
    BY <1>3, <1>10, <1>13, <2>1 DEF Rules
<1>15. InHand(w, L, O, B, M)
  <2>1. w.at = "mark_likes" => /\ Tail(w.todo) = <<>>
                               /\ \A id \in LikeIds : CurrentIn(L, id, w.from, w.to) => id = Head(w.todo)
    <3>1. w.at = "mark_likes" => \E id \in LikeIds : w.todo = <<id>>
      BY <1>6, <1>12
    <3>2. \A id \in LikeIds : CurrentIn(L, id, w.from, w.to) => w.todo = <<id>>
      BY <1>6, <1>11
    <3> HIDE DEF w, L
    <3>3. \A id : Head(<<id>>) = id /\ Tail(<<id>>) = <<>>
      OBVIOUS
    <3> QED
      BY <3>1, <3>2, <3>3
  <2>2. w.at \in {"reply", "mark_likes"}
    BY <1>6
  <2> HIDE DEF q, w, L, P, O, B, M, row
  <2> QED
    BY <2>1, <2>2 DEF InHand, Matching
<1> QED
  BY <1>2, <1>14, <1>15 DEF Rule, Hand

(* A block is recorded; its pair's match is ended next.                      *)
LEMMA InsertsBlock ==
    ASSUME TypeInv, ChatInv, NEW r \in Requests, Rule(r), Hand(r), InsertBlock(r)
    PROVE  Rule(r)' /\ Hand(r)'
<1> DEFINE q == req[r]  w == req'[r]
           L == Seen(likes, r)  P == Seen(passes, r)  B == Seen(blocks, r)  M == Seen(matches, r)
           C == Seen(blocks', r)  x == {q.from, q.to}
<1>1. /\ q \in RequestState /\ req \in [Requests -> RequestState]
      /\ blocks \in [Pairs -> Versions(Users \cup {None}, Requests)]
      /\ B \in [Pairs -> Users \cup {None}]
      /\ q.from \in Users /\ q.to \in Users /\ x \in Pairs /\ PairOf(r) = x
      /\ q.at = "insert_block"
  BY Sights DEF InsertBlock, At, TypeInv, TypeOK
<1>2. /\ Seen(likes, r)' = L /\ Seen(passes, r)' = P /\ Seen(matches, r)' = M
      /\ Seen(blocks, r)' = C
  BY DEF InsertBlock
<1>3. Rules(q, L, P, B, M) /\ InHand(q, L, P, B, M)
  BY DEF Rule, Hand
<1>4. ~Overriding(q) /\ ~Matching(q) /\ ~Blocking(q)
  BY <1>1 DEF Overriding, Matching, Blocking
<1>5. CASE Goto(r, "find_match") /\ blocks' = Put(blocks, x, r, q.from)
  <2>1. C = [B EXCEPT ![x] = q.from]
    <3>1. Seen(Put(blocks, x, r, q.from), r) = [B EXCEPT ![x] = q.from]
      <4>1. blocks \in [Pairs -> Versions(Users \cup {None}, Requests)] /\ x \in Pairs
        BY <1>1
      <4> HIDE DEF x, q
      <4> QED
        BY <4>1, PutSees
    <3> QED
      BY <1>5, <3>1
  <2>2. \A y \in Pairs \ {x} : C[y] = B[y]
    <3> HIDE DEF x, B, C, q
    <3> QED
      BY <1>1, <2>1
  <2>3. w.at = "find_match" /\ w.op = "block" /\ w.from = q.from /\ w.to = q.to
    <3>1. q.op = "block"
      BY <1>1 DEF ChatInv, HoldsWhatItNeeds, At
    <3> QED
      BY <1>1, <1>5, <3>1 DEF Goto, RequestState
  <2>4. \A y \in Pairs : Parted(C, M, y) \/ (y = x /\ Blocking(w))
    BY <1>3, <1>4, <2>2, <2>3 DEF Rules, Parted, Blocking
  <2>5. Rules(w, L, P, C, M)
    <3> HIDE DEF w, L, P, B, C, M
    <3> QED
      BY <1>3, <1>4, <2>3, <2>4 DEF Rules
  <2>6. InHand(w, L, P, C, M)
    BY <2>3 DEF InHand, Matching
  <2> QED
    BY <1>2, <2>5, <2>6 DEF Rule, Hand
<1>6. CASE Answer(r, "conflict") /\ UNCHANGED blocks
  <2>1. w.at = "reply" /\ C = B
    BY <1>6, Gone
  <2> QED
    BY <1>2, <1>3, <1>4, <2>1, Mended DEF Rule, Hand
<1> QED
  BY <1>1, <1>5, <1>6 DEF InsertBlock

(* The match is found ended, or is about to be.                              *)
LEMMA FindsMatch ==
    ASSUME TypeInv, NEW r \in Requests, Rule(r), Hand(r), FindMatch(r), req'[r].at # "failed"
    PROVE  Rule(r)' /\ Hand(r)'
<1> DEFINE q == req[r]  w == req'[r]
           L == Seen(likes, r)  P == Seen(passes, r)  B == Seen(blocks, r)  M == Seen(matches, r)
           x == {q.from, q.to}
<1>1. /\ q \in RequestState /\ req \in [Requests -> RequestState]
      /\ q.from \in Users /\ q.to \in Users /\ x \in Pairs /\ PairOf(r) = x
      /\ q.at = "find_match" /\ q.op \in {"block", "unmatch"}
  BY Sights DEF FindMatch, At, HandlerOK
<1>2. /\ Seen(likes, r)' = L /\ Seen(passes, r)' = P /\ Seen(matches, r)' = M
      /\ Seen(blocks, r)' = B
  BY DEF FindMatch, tables
<1>3. Rules(q, L, P, B, M)
  BY DEF Rule
<1>4. ~Overriding(q) /\ ~Matching(q)
  BY <1>1 DEF Overriding, Matching
<1>5. \/ w.at = "reply" /\ (M[x] = None \/ M[x].end # "open")
      \/ w.at = "end_match" /\ w.op = q.op /\ w.from = q.from /\ w.to = q.to
  <2>1. ~Goto(r, "failed")
    BY <1>1 DEF Goto, RequestState
  <2>2. CASE \/ M[x] = None /\ \E reply : Answer(r, reply)
             \/ M[x].end # "open" /\ \E reply : Answer(r, reply)
    BY <2>2, Gone
  <2>3. CASE req' = [req EXCEPT ![r] = [@ EXCEPT !.todo = M[x].likeIds,
                                                 !.at = After(q.op, "find_match")]]
    <3>1. After(q.op, "find_match") = "end_match"
      BY <1>1 DEF After
    <3> QED
      BY <1>1, <2>3, <3>1 DEF RequestState
  <2> QED
    BY <1>1, <2>1, <2>2, <2>3 DEF FindMatch
<1>6. CASE w.at = "reply" /\ (M[x] = None \/ M[x].end # "open")
  <2>1. \A y \in Pairs : Parted(B, M, y)
    BY <1>3, <1>6 DEF Rules, Parted
  <2>2. Rules(w, L, P, B, M)
    <3> HIDE DEF q, w, L, P, B, M
    <3> QED
      BY <1>3, <1>4, <2>1 DEF Rules
  <2>3. InHand(w, L, P, B, M)
    BY <1>6 DEF InHand, Matching
  <2> QED
    BY <1>2, <2>2, <2>3 DEF Rule, Hand
<1>7. CASE w.at = "end_match" /\ w.op = q.op /\ w.from = q.from /\ w.to = q.to
  <2>1. Blocking(w) <=> Blocking(q)
    BY <1>1, <1>7 DEF Blocking
  <2>2. Rules(w, L, P, B, M)
    <3> HIDE DEF q, w, L, P, B, M
    <3> QED
      BY <1>3, <1>4, <1>7, <2>1 DEF Rules
  <2>3. InHand(w, L, P, B, M)
    BY <1>7 DEF InHand, Matching
  <2> QED
    BY <1>2, <2>2, <2>3 DEF Rule, Hand
<1> QED
  BY <1>5, <1>6, <1>7

(* The match is ended, and stays on record.                                  *)
LEMMA EndsMatch ==
    ASSUME TypeInv, NEW r \in Requests, Rule(r), Hand(r), EndMatch(r)
    PROVE  Rule(r)' /\ Hand(r)'
<1> DEFINE q == req[r]  w == req'[r]
           L == Seen(likes, r)  P == Seen(passes, r)  B == Seen(blocks, r)  M == Seen(matches, r)
           N == Seen(matches', r)  x == {q.from, q.to}
           row == [M[x] EXCEPT !.end = EndedAs(q.op)]
<1>1. /\ q \in RequestState /\ req \in [Requests -> RequestState]
      /\ matches \in [Pairs -> Versions(MatchRow \cup {None}, Requests)]
      /\ M \in [Pairs -> MatchRow \cup {None}]
      /\ q.from \in Users /\ q.to \in Users /\ x \in Pairs /\ PairOf(r) = x
      /\ q.at = "end_match" /\ q.op \in {"block", "unmatch"} /\ M[x] # None
  BY Sights DEF EndMatch, At, HandlerOK, TypeInv, TypeOK
<1>2. /\ Seen(likes, r)' = L /\ Seen(passes, r)' = P /\ Seen(blocks, r)' = B
      /\ Seen(matches, r)' = N
  BY DEF EndMatch
<1>3. Rules(q, L, P, B, M)
  BY DEF Rule
<1>4. ~Overriding(q) /\ ~Matching(q)
  BY <1>1 DEF Overriding, Matching
<1>5. w.at = "mark_likes" /\ w.op = q.op
  <2>1. After(q.op, "end_match") = "mark_likes"
    BY <1>1 DEF After
  <2> QED
    BY <1>1, <2>1 DEF EndMatch, Goto, RequestState
<1>6. N[x] # None /\ N[x].end # "open" /\ \A y \in Pairs \ {x} : N[y] = M[y]
  <2>1. row \in MatchRow /\ row.end # "open"
    <3>1. M[x] \in MatchRow
      BY <1>1
    <3> HIDE DEF M, x
    <3> QED
      BY <3>1 DEF MatchRow, EndedAs
  <2>2. Seen(Put(matches, x, r, row), r) = [M EXCEPT ![x] = row]
    <3> HIDE DEF row, x
    <3> QED
      BY <1>1, PutSees
  <2>3. N = [M EXCEPT ![x] = row]
    BY <1>1, <2>2 DEF EndMatch
  <2> HIDE DEF row, x, M, N
  <2> QED
    BY <1>1, <2>1, <2>3, RowAssumption
<1>7. ASSUME NEW a \in Users, NEW b \in Users
      PROVE  Clear(L, P, a, b) /\ Matched(L, N, a, b)
  <2>1. Clear(L, P, a, b) /\ Matched(L, M, a, b)
    BY <1>3, <1>4 DEF Rules
  <2>2. \A i \in LikeIds : CurrentIn(L, i, a, b) => {a, b} \in Pairs
    BY <1>3 DEF Rules, CurrentIn, Directed, IsCurrentLike
  <2> QED
    BY <1>6, <2>1, <2>2 DEF Matched
<1>8. \A y \in Pairs : Parted(B, N, y)
  BY <1>3, <1>6 DEF Rules, Parted
<1>9. Rules(w, L, P, B, N)
  <2> HIDE DEF q, w, L, P, B, M, N, x, row
  <2> QED
    BY <1>3, <1>7, <1>8 DEF Rules
<1>10. InHand(w, L, P, B, N)
  <2>1. w.op # "pass"
    BY <1>1, <1>5
  <2> HIDE DEF q, w, L, P, B, M, N, x, row
  <2> QED
    BY <1>5, <2>1 DEF InHand, Matching
<1> QED
  BY <1>2, <1>9, <1>10 DEF Rule, Hand

(* A handler at work keeps to its pair's rules, or is about to mend the one  *)
(* it broke.                                                                 *)
LEMMA WorkKeepsRules ==
    ASSUME TypeInv, MatchInv, IndexInv, ChatInv, NEW r \in Requests, Working(r),
           Rule(r), Hand(r), req'[r].at # "failed"
    PROVE  Rule(r)' /\ Hand(r)'
  BY LikeReads, Answers, Records, Inserts, Supersedes, Upserts, Marks, Chats, InsertsPass,
     InsertsBlock, FindsMatch, EndsMatch DEF Working, Acts, Ends, Step

(* It is at work before and after, unless it throws.                         *)
LEMMA WorkGoesOn ==
    ASSUME TypeInv, NEW r \in Requests, Working(r)
    PROVE  req[r].at \notin {"idle", "failed"} /\ req'[r].at # "idle"
<1>1. req[r].at \notin {"idle", "failed"}
  BY DEF Working, Acts, Ends, Step, ReadLikes, ReadPasses, RefuseLike, RefuseSecondLike,
     RecordLike, FindLivePass, SupersedeOwnPass, SupersedePassByPair, ResolveWithoutMatch,
     RefusePass, InsertPass, InsertLike, UpsertMatch, MarkLike, OpenChat, InsertBlock,
     FindMatch, EndMatch, CloseChat, At
<1>2. SameRequest(r) /\ req[r].from # req[r].to
  BY <1>1, WorkingStep DEF TypeInv, HandlerOK
<1>3. req'[r] # Idle
  <2>1. Idle.from = Idle.to
    BY DEF Idle, Starting
  <2> QED
    BY <1>2, <2>1 DEF SameRequest
<1>4. CASE Quiet(r)
  BY <1>1, <1>4, QuietStep
<1>5. CASE UpsertMatch(r) \/ MarkLike(r) \/ OpenChat(r) \/ InsertBlock(r) \/ CloseChat(r)
           \/ FindMatch(r) \/ EndMatch(r)
  <2>1. req[r].at \notin Reading
    BY <1>5 DEF UpsertMatch, MarkLike, OpenChat, InsertBlock, CloseChat, FindMatch, EndMatch,
       At, Reading
  <2> QED
    BY <1>1, <1>3, <2>1, ReadingStep DEF Working, Reading
<1> QED
  BY <1>1, <1>4, <1>5, WorkingStep

(* What is stored is what it was, unless the step commits.                   *)
LEMMA StoredTables ==
    ASSUME TypeInv, TypeInv', NEW r \in Requests, Acts(r)
    PROVE  \/ /\ Like' = Like /\ Pass' = Pass /\ Blocker' = Blocker /\ Match' = Match
           \/ /\ At(r, "reply") /\ Ends(r)
              /\ Like' = Seen(likes, r) /\ Pass' = Seen(passes, r)
              /\ Blocker' = Seen(blocks, r) /\ Match' = Seen(matches, r)
<1>0. /\ DOMAIN likes = LikeIds /\ DOMAIN likes' = LikeIds
      /\ DOMAIN passes = PassIds /\ DOMAIN passes' = PassIds
      /\ DOMAIN blocks = Pairs /\ DOMAIN blocks' = Pairs
      /\ DOMAIN matches = Pairs /\ DOMAIN matches' = Pairs
      /\ blocks \in [Pairs -> Versions(Users \cup {None}, Requests)]
  BY DEF TypeInv, TypeOK
<1>1. CASE /\ \A id \in LikeIds : likes'[id].row = likes[id].row
           /\ \A p \in PassIds : passes'[p].row = passes[p].row
           /\ \A p \in Pairs : matches'[p].row = matches[p].row /\ blocks'[p].row = blocks[p].row
  <2>1. Like' = Like
    BY <1>0, <1>1 DEF Like, Stored
  <2>2. Pass' = Pass
    BY <1>0, <1>1 DEF Pass, Stored
  <2>3. Blocker' = Blocker
    BY <1>0, <1>1 DEF Blocker, Stored
  <2>4. Match' = Match
    BY <1>0, <1>1 DEF Match, Stored
  <2> QED
    BY <2>1, <2>2, <2>3, <2>4
<1>2. CASE /\ At(r, "reply") /\ Ends(r)
           /\ \A id \in LikeIds : likes'[id].row = Seen(likes, r)[id]
           /\ \A p \in PassIds : passes'[p].row = Seen(passes, r)[p]
           /\ \A p \in Pairs : /\ matches'[p].row = Seen(matches, r)[p]
                               /\ blocks'[p].row = Seen(blocks, r)[p]
  <2>1. Like' = Seen(likes, r)
    BY <1>0, <1>2 DEF Like, Stored, Seen
  <2>2. Pass' = Seen(passes, r)
    BY <1>0, <1>2 DEF Pass, Stored, Seen
  <2>3. Blocker' = Seen(blocks, r)
    BY <1>0, <1>2 DEF Blocker, Stored, Seen
  <2>4. Match' = Seen(matches, r)
    BY <1>0, <1>2 DEF Match, Stored, Seen
  <2> QED
    BY <1>2, <2>1, <2>2, <2>3, <2>4
<1>3. CASE Ends(r)
  BY <1>1, <1>2, <1>3, EndKept
<1>4. CASE ~Ends(r)
  <2>1. \A p \in Pairs : blocks'[p].row = blocks[p].row
    <3>1. CASE InsertBlock(r)
      BY <1>0, <3>1 DEF InsertBlock, Put
    <3>2. CASE ~InsertBlock(r)
      <4>1. UNCHANGED blocks
        BY <1>4, <3>2 DEF Acts, Start, Step, Begin, BeginLike, BeginPass, BeginBlock,
           BeginUnmatch, ReadLikes, ReadPasses, RefuseLike, RefuseSecondLike, RecordLike,
           FindLivePass, InsertLike, SupersedeOwnPass, SupersedePassByPair,
           ResolveWithoutMatch, UpsertMatch, MarkLike, OpenChat, RefusePass, InsertPass,
           FindMatch, EndMatch, CloseChat, tables, Ends
      <4> QED
        BY <4>1
    <3> QED
      BY <3>1, <3>2
  <2> QED
    BY <1>1, <1>4, <2>1, StoredStays
<1> QED
  BY <1>3, <1>4

(* A request that starts holds nothing, so it sees what is stored.           *)
LEMMA StartsOrderly ==
    ASSUME TypeInv, IndexInv, ChatInv, NEW r \in Requests, Start(r),
           \A p \in PassIds : passes[p].by # r, Rules(Idle, Like, Pass, Blocker, Match)
    PROVE  Rule(r)' /\ Hand(r)' /\ req'[r].at # "idle" /\ At(r, "idle")
<1>0. /\ DOMAIN likes = LikeIds /\ DOMAIN passes = PassIds
      /\ DOMAIN blocks = Pairs /\ DOMAIN matches = Pairs
      /\ req \in [Requests -> RequestState] /\ At(r, "idle")
  BY DEF TypeInv, TypeOK, Start, BeginLike, BeginPass, BeginBlock, BeginUnmatch, Begin
<1>1. Seen(likes, r) = Like
  <2>1. \A id \in LikeIds : likes[id].by # r
    BY <1>0 DEF IndexInv, Reading, At
  <2> QED
    BY <1>0, <2>1 DEF Seen, Like, Stored
<1>2. Seen(passes, r) = Pass
  BY <1>0 DEF Seen, Pass, Stored
<1>3. Seen(blocks, r) = Blocker
  <2>1. \A p \in Pairs : blocks[p].by # r
    BY <1>0 DEF ChatInv, BlockHeld, At
  <2> QED
    BY <1>0, <2>1 DEF Seen, Blocker, Stored
<1>4. Seen(matches, r) = Match
  <2>1. \A p \in Pairs : matches[p].by # r
    BY <1>0 DEF ChatInv, MatchHeld, At
  <2> QED
    BY <1>0, <2>1 DEF Seen, Match, Stored
<1>5. UNCHANGED tables
  BY DEF Start, BeginLike, BeginPass, BeginBlock, BeginUnmatch, Begin
<1>6. /\ Seen(likes, r)' = Like /\ Seen(passes, r)' = Pass
      /\ Seen(blocks, r)' = Blocker /\ Seen(matches, r)' = Match
  BY <1>1, <1>2, <1>3, <1>4, <1>5 DEF tables
<1>7. req'[r].at \in {"read_likes", "insert_block", "find_match"}
  BY <1>0 DEF Start, BeginLike, BeginPass, BeginBlock, BeginUnmatch, Begin, Starting
<1>8. ~Overriding(Idle) /\ ~Matching(Idle) /\ ~Blocking(Idle)
  BY IdleType DEF Overriding, Matching, Blocking
<1>9. Rules(req'[r], Like, Pass, Blocker, Match)
  BY <1>8, Mended
<1>10. InHand(req'[r], Like, Pass, Blocker, Match)
  BY <1>7 DEF InHand, Matching
<1> QED
  BY <1>0, <1>6, <1>7, <1>9, <1>10 DEF Rule, Hand

(* With one request under way at a time, the others are idle.                *)
LEMMA OneAtATime ==
    ASSUME TypeInv, Orderly, NEW r \in Requests, Acts(r), Serial, Cardinality(Busy') <= 1,
           IsFiniteSet(Busy'), ~At(r, "idle") \/ ~At(r, "idle")'
    PROVE  /\ \A q \in Requests \ {r} : At(q, "idle") /\ At(q, "idle")'
           /\ \A p, q \in Requests : ~At(p, "idle")' /\ ~At(q, "idle")' => p = q
<1>1. ASSUME NEW p \in Requests, NEW q \in Requests, p # q, ~At(p, "idle")', ~At(q, "idle")'
      PROVE  FALSE
  <2>1. {p, q} \in SUBSET Busy'
    BY <1>1 DEF Busy
  <2>2. Cardinality({p, q}) = 2
    <3>1. IsFiniteSet({p}) /\ Cardinality({p}) = 1
      <4>1. {p} = {} \cup {p} /\ p \notin {}
        OBVIOUS
      <4>2. IsFiniteSet({}) /\ Cardinality({}) = 0
        BY FS_EmptySet
      <4>3. /\ IsFiniteSet({} \cup {p})
            /\ Cardinality({} \cup {p}) = IF p \in {} THEN Cardinality({})
                                                       ELSE Cardinality({}) + 1
        BY <4>2, FS_AddElement, Zenon
      <4> QED
        BY <4>1, <4>2, <4>3
    <3>2. {p, q} = {p} \cup {q} /\ q \notin {p}
      BY <1>1
    <3>3. Cardinality({p} \cup {q}) = IF q \in {p} THEN Cardinality({p})
                                                    ELSE Cardinality({p}) + 1
      BY <3>1, FS_AddElement, Zenon
    <3> QED
      BY <3>1, <3>2, <3>3
  <2>3. IsFiniteSet({p, q}) /\ Cardinality({p, q}) <= Cardinality(Busy')
    BY <2>1, FS_Subset, Zenon
  <2>4. Cardinality(Busy') \in Nat
    BY FS_CardinalityType
  <2> QED
    BY <2>2, <2>3, <2>4
<1>2. \A q \in Requests \ {r} : req'[q] = req[q]
  BY OwnStep
<1>3. \A q \in Requests \ {r} : At(q, "idle") <=> At(q, "idle")'
  BY <1>2 DEF At
<1> QED
  BY <1>1, <1>3 DEF Orderly

(* Thirty days change nothing the rules ask about.                           *)
LEMMA ExpireKeepsLive ==
    ASSUME TypeInv, NEW p \in PassIds, ExpirePass(p), NEW o \in PassIds,
           NEW a \in Users, NEW b \in Users
    PROVE  /\ LiveIn(Pass', o, a, b) <=> LiveIn(Pass, o, a, b)
           /\ \A r \in Requests : LiveIn(Seen(passes, r)', o, a, b) <=>
                                  LiveIn(Seen(passes, r), o, a, b)
           /\ passes'[o].by = passes[o].by
<1>1. passes \in [PassIds -> Versions(Passes, Requests)]
  BY DEF TypeInv, TypeOK
<1>2. /\ passes' \in [PassIds -> Versions(Passes, Requests)]
      /\ PassKept(passes[p].row, passes'[p].row) /\ PassKept(passes[p].next, passes'[p].next)
      /\ passes'[o].by = passes[o].by
  BY ExpireStep
<1>3. passes[p].row \in PassRow /\ passes[p].next \in PassRow
  <2>1. PassKept(passes[p].row, passes[p].next)
    BY DEF TypeInv, RowsKept
  <2> QED
    BY <1>1, <2>1 DEF ExpirePass, PassKept, Directed, Versions, Passes
<1>4. o # p => passes'[o] = passes[o]
  BY <1>1 DEF ExpirePass
<1>5. /\ passes'[p].row = [passes[p].row EXCEPT !.fresh = FALSE]
      /\ passes'[p].next = [passes[p].next EXCEPT !.fresh = FALSE]
  BY <1>1, <1>3 DEF ExpirePass, Versions
<1>6. \A row \in PassRow : /\ [row EXCEPT !.fresh = FALSE] \in PassRow
                           /\ [row EXCEPT !.fresh = FALSE].from = row.from
                           /\ [row EXCEPT !.fresh = FALSE].to = row.to
                           /\ [row EXCEPT !.fresh = FALSE].state = row.state
  BY DEF PassRow
<1>7. \A row \in PassRow : row # None
  BY RowAssumption
<1>8. /\ Directed(passes'[o].row, a, b) <=> Directed(passes[o].row, a, b)
      /\ Directed(passes'[o].next, a, b) <=> Directed(passes[o].next, a, b)
      /\ passes'[o].row.state = passes[o].row.state
      /\ passes'[o].next.state = passes[o].next.state
  <2>1. CASE o # p
    BY <1>4, <2>1
  <2>2. CASE o = p
    BY ZenonT(60), <1>3, <1>5, <1>6, <1>7, <2>2 DEF Directed
  <2> QED
    BY <2>1, <2>2
<1>9. Pass[o] = passes[o].row /\ Pass'[o] = passes'[o].row
  BY <1>1, <1>2 DEF Pass, Stored
<1>10. \A r \in Requests :
          /\ Seen(passes, r)[o] = IF passes[o].by = r THEN passes[o].next ELSE passes[o].row
          /\ Seen(passes, r)'[o] = IF passes[o].by = r THEN passes'[o].next ELSE passes'[o].row
  BY <1>1, <1>2 DEF Seen
<1> QED
  BY <1>2, <1>8, <1>9, <1>10 DEF LiveIn

(* The rules and what is in hand ask of passes only which are live.          *)
LEMMA SameLive ==
    ASSUME NEW q, q.from \in Users, q.to \in Users, NEW L, NEW P, NEW O, NEW B, NEW M,
           \A p \in PassIds : \A a, b \in Users : LiveIn(O, p, a, b) <=> LiveIn(P, p, a, b)
    PROVE  /\ Rules(q, L, P, B, M) => Rules(q, L, O, B, M)
           /\ InHand(q, L, P, B, M) => InHand(q, L, O, B, M)
<1>1. \A a, b \in Users : Clear(L, P, a, b) => Clear(L, O, a, b)
  BY DEF Clear
<1>2. Rules(q, L, P, B, M) => Rules(q, L, O, B, M)
  BY <1>1 DEF Rules
<1>3. InHand(q, L, P, B, M) => InHand(q, L, O, B, M)
  BY DEF InHand
<1> QED
  BY <1>2, <1>3

LEMMA InitOrderly == MCInit => Orderly
<1> SUFFICES ASSUME MCInit PROVE Orderly
  OBVIOUS
<1>1. Init /\ \A r \in Requests : At(r, "idle")
  BY IdleType DEF MCInit, Init, At
<1>2. IsFiniteSet(Busy)
  <2>1. Busy = {}
    BY <1>1 DEF Busy
  <2> QED
    BY <2>1, FS_EmptySet
<1>3. /\ \A id \in LikeIds : Like[id] = None
      /\ \A p \in PassIds : Pass[p] = None
      /\ \A x \in Pairs : Blocker[x] = None /\ Match[x] = None
      /\ \A p \in PassIds, r \in Requests : passes[p].by # r
  BY <1>1, NoneAssumption DEF Init, Like, Pass, Blocker, Match, Stored, Settled
<1>4. Rules(Idle, Like, Pass, Blocker, Match)
  BY <1>3 DEF Rules, Clear, Matched, Parted, LiveIn, CurrentIn, Directed
<1> QED
  BY <1>1, <1>2, <1>3, <1>4 DEF Orderly, At

LEMMA OrderlyStep ==
    TypeInv /\ MatchInv /\ IndexInv /\ ChatInv /\ Orderly /\ [MCNext]_MCVars => Orderly'
<1> SUFFICES ASSUME TypeInv, MatchInv, IndexInv, ChatInv, Orderly, [MCNext]_MCVars
             PROVE  Orderly'
  OBVIOUS
<1>0. [Next]_vars
  BY DEF MCNext, MCVars
<1>type. TypeInv'
  BY <1>0, TypeInvStep
<1>1. CASE UNCHANGED MCVars
  BY <1>1 DEF MCVars, vars, Orderly, Busy, Serial, At, Rule, Hand, Like, Pass, Blocker, Match
<1>2. ASSUME NEW r \in Requests, Acts(r), MCNext
      PROVE  Orderly'
  <2>1. IsFiniteSet(Busy')
    <3>1. Busy' \in SUBSET (Busy \cup {r})
      BY <1>2, OwnStep DEF Busy, At
    <3>2. IsFiniteSet(Busy \cup {r})
      BY FS_AddElement DEF Orderly
    <3> QED
      BY <3>1, <3>2, FS_Subset
  <2> SUFFICES ASSUME Serial
               PROVE  Orderly'
    BY <1>2, <2>1 DEF Orderly, MCNext, Serial
  <2>2. /\ Cardinality(Busy') <= 1
        /\ Rules(Idle, Like, Pass, Blocker, Match)
        /\ At(r, "idle") => \A p \in PassIds : passes[p].by # r
        /\ req[r].at \notin {"idle", "failed"} => Rule(r) /\ Hand(r)
    BY <1>2 DEF Orderly, MCNext, Serial
  <2>3. /\ At(r, "idle") <=> Start(r)
        /\ At(r, "idle")' <=> Ends(r)
        /\ Start(r) \/ Working(r) \/ Ends(r)
    <3>1. Start(r) => At(r, "idle") /\ ~At(r, "idle")'
      BY DEF TypeInv, TypeOK, Start, BeginLike, BeginPass, BeginBlock, BeginUnmatch, Begin,
         Starting, At
    <3>2. Ends(r) => ~At(r, "idle") /\ At(r, "idle")'
      <4>1. Ends(r) => ~At(r, "idle")
        BY DEF Ends, CommitRequest, Throw, Crash, At
      <4> QED
        BY <4>1, EndStep, IdleType DEF At
    <3>3. Working(r) => ~At(r, "idle") /\ ~At(r, "idle")'
      BY WorkGoesOn DEF At
    <3>4. Start(r) \/ Working(r) \/ Ends(r)
      BY <1>2 DEF Working
    <3> QED
      BY <3>1, <3>2, <3>3, <3>4
  <2>4. /\ \A q \in Requests \ {r} : At(q, "idle") /\ At(q, "idle")'
        /\ \A p, q \in Requests : ~At(p, "idle")' /\ ~At(q, "idle")' => p = q
    <3>1. ~At(r, "idle") \/ ~At(r, "idle")'
      BY <2>3 DEF Working, Ends, Start, At, CommitRequest, Throw, Crash
    <3> QED
      BY <1>2, <2>1, <2>2, <3>1, OneAtATime
  <2>5. Rules(Idle, Like', Pass', Blocker', Match')
    <3>1. CASE Like' = Like /\ Pass' = Pass /\ Blocker' = Blocker /\ Match' = Match
      BY <2>2, <3>1
    <3>2. CASE /\ At(r, "reply") /\ Ends(r)
               /\ Like' = Seen(likes, r) /\ Pass' = Seen(passes, r)
               /\ Blocker' = Seen(blocks, r) /\ Match' = Seen(matches, r)
      <4>1. ~Overriding(req[r]) /\ ~Matching(req[r]) /\ ~Blocking(req[r])
        BY <3>2 DEF At, Overriding, Matching, Blocking
      <4>2. Rules(req[r], Like', Pass', Blocker', Match')
        BY <2>2, <3>2 DEF Rule, At
      <4> QED
        BY <4>1, <4>2, Mended
    <3> QED
      BY <1>2, <1>type, <3>1, <3>2, StoredTables
  <2>6. ASSUME NEW q \in Requests, At(q, "idle")', NEW p \in PassIds
        PROVE  passes'[p].by # q
    <3>1. CASE q = r
      BY <2>3, <2>6, <3>1, EndReleases
    <3>2. CASE q # r
      <4>1. passes[p].by # q
        BY <2>4, <3>2 DEF Orderly
      <4> QED
        BY <1>2, <3>2, <4>1, OthersVersions
    <3> QED
      BY <3>1, <3>2
  <2>7. ASSUME NEW q \in Requests, req'[q].at \notin {"idle", "failed"}
        PROVE  Rule(q)' /\ Hand(q)'
    <3>1. q = r
      BY <2>4, <2>7 DEF At
    <3>2. CASE Start(r)
      BY <2>2, <2>3, <3>1, <3>2, StartsOrderly
    <3>3. CASE Working(r)
      BY <2>2, <2>7, <3>1, <3>3, WorkGoesOn, WorkKeepsRules
    <3> QED
      BY <2>3, <2>7, <3>1, <3>2, <3>3 DEF At
  <2>8. Rules(Idle, Like, Pass, Blocker, Match)'
    BY <2>5
  <2> QED
    BY <2>1, <2>4, <2>6, <2>7, <2>8 DEF Orderly
<1>3. ASSUME NEW p \in PassIds, ExpirePass(p), MCNext
      PROVE  Orderly'
  <2>1. UNCHANGED <<likes, blocks, matches, req, regime>>
    BY <1>3 DEF ExpirePass, MCNext
  <2>2. /\ Busy' = Busy /\ Serial' = Serial
        /\ Like' = Like /\ Blocker' = Blocker /\ Match' = Match
        /\ \A r \in Requests : /\ At(r, "idle")' <=> At(r, "idle")
                               /\ req'[r] = req[r]
                               /\ Seen(likes, r)' = Seen(likes, r)
                               /\ Seen(blocks, r)' = Seen(blocks, r)
                               /\ Seen(matches, r)' = Seen(matches, r)
    BY <2>1 DEF Busy, Serial, At, Like, Blocker, Match
  <2>3. /\ \A o \in PassIds : passes'[o].by = passes[o].by
        /\ \A o \in PassIds : \A a, b \in Users : LiveIn(Pass', o, a, b) <=> LiveIn(Pass, o, a, b)
    BY <1>3, ExpireKeepsLive, UsersAssumption
  <2>4. Idle.from \in Users /\ Idle.to \in Users
    BY IdleType DEF RequestState
  <2>5. Serial => Rules(Idle, Like, Pass', Blocker, Match)
    BY <2>3, <2>4, SameLive DEF Orderly
  <2>6. ASSUME Serial, NEW r \in Requests, req[r].at \notin {"idle", "failed"}
        PROVE  Rule(r)' /\ Hand(r)'
    <3>1. \A o \in PassIds : \A a, b \in Users :
             LiveIn(Seen(passes, r)', o, a, b) <=> LiveIn(Seen(passes, r), o, a, b)
      BY <1>3, ExpireKeepsLive
    <3>2. req[r].from \in Users /\ req[r].to \in Users
      BY DEF TypeInv, TypeOK, RequestState
    <3>3. Rule(r) /\ Hand(r)
      BY <2>6 DEF Orderly
    <3>4. /\ Rules(req[r], Seen(likes, r), Seen(passes, r)', Seen(blocks, r), Seen(matches, r))
          /\ InHand(req[r], Seen(likes, r), Seen(passes, r)', Seen(blocks, r), Seen(matches, r))
      BY <3>1, <3>2, <3>3, SameLive DEF Rule, Hand
    <3> QED
      BY <2>2, <3>4 DEF Rule, Hand
  <2> QED
    BY <2>2, <2>3, <2>5, <2>6 DEF Orderly
<1> QED
  BY <1>1, <1>2, <1>3 DEF MCNext, MCVars, Next, Acts

LEMMA OrderlyAlways == MCSpec => [](TypeInv /\ Orderly)
<1> DEFINE IInv == TypeInv /\ MatchInv /\ IndexInv /\ ChatInv /\ Orderly
<1>1. MCInit => IInv
  BY InitTypeInv, InitMatchInv, InitIndexInv, InitChatInv, InitOrderly DEF MCInit
<1>2. IInv /\ [MCNext]_MCVars => IInv'
  <2>1. [MCNext]_MCVars => [Next]_vars
    BY DEF MCNext, MCVars
  <2> QED
    BY <2>1, TypeInvStep, MatchInvStep, IndexInvStep, ChatInvStep, OrderlyStep
<1> QED
  BY <1>1, <1>2, PTL DEF MCSpec

(* One request at a time, for any users and ids: a blocked pair has no open  *)
(* match, and two users who currently like each other have a match on        *)
(* record, whatever was passed, withdrawn, blocked or ended before, and      *)
(* wherever a handler threw or was lost.  So the like, pass and block        *)
(* handlers check and write in the right order, and only requests in flight  *)
(* together break the two rules.                                             *)
THEOREM MatchingRulesAlone == MCSpec => []SerialMatchingRules
<1>1. TypeInv /\ Orderly => SerialMatchingRules
  <2> SUFFICES ASSUME TypeInv, Orderly, Serial
               PROVE  BlockedPairHasNoOpenMatch /\ ReciprocalLikesMatch
    BY DEF SerialMatchingRules
  <2>1. Rules(Idle, Like, Pass, Blocker, Match)
    BY DEF Orderly
  <2>2. ~Matching(Idle) /\ ~Blocking(Idle)
    BY IdleType DEF Matching, Blocking
  <2>3. BlockedPairHasNoOpenMatch
    BY <2>1, <2>2 DEF Rules, Parted, BlockedPairHasNoOpenMatch
  <2>4. ReciprocalLikesMatch
    <3> SUFFICES ASSUME NEW i \in LikeIds, NEW j \in LikeIds,
                        IsCurrentLike(Like[i]), IsCurrentLike(Like[j]),
                        Like[i].from = Like[j].to, Like[i].to = Like[j].from
                 PROVE  Match[{Like[i].from, Like[i].to}] # None
      BY DEF ReciprocalLikesMatch
    <3> DEFINE a == Like[i].from  b == Like[i].to
    <3>1. Like[i] \in LikeRow /\ a \in Users /\ b \in Users
      BY DEF TypeInv, TypeOK, Like, Stored, Versions, Likes, LikeRow, IsCurrentLike
    <3>2. CurrentIn(Like, i, a, b) /\ CurrentIn(Like, j, b, a)
      BY DEF CurrentIn, Directed, IsCurrentLike
    <3>3. Matched(Like, Match, a, b)
      BY <2>1, <2>2, <3>1 DEF Rules
    <3> QED
      BY <3>2, <3>3 DEF Matched
  <2> QED
    BY <2>3, <2>4
<1> QED
  BY <1>1, OrderlyAlways, PTL
=============================================================================
