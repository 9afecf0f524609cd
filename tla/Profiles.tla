------------------------------ MODULE Profiles -------------------------------
(***************************************************************************)
(* One member's profile and photos: editing the profile, and uploading,    *)
(* screening, ordering and removing its photos.  Every operation but the   *)
(* reorder ends in saveProfile, which reads the profile and the photos and *)
(* writes the whole profile row; what discovery shows is read from there.  *)
(* The older route writes the same row from what its request says.         *)
(***************************************************************************)
EXTENDS ProfileRules, DiscoveryRules

CONSTANTS
    Photos,         \* photo ids; a fresh one for every upload
    Requests,       \* the member's requests in flight at once; slots are reused
    MaxPhotos,      \* MAX_PHOTOS
    MaxListed,      \* bound: photos one request of the older route lists
    Removed         \* what is left of a deleted photo: its id is never used again

ASSUME ProfilesAssumption ==
    MaxPhotos \in Nat \ {0} /\ MaxListed \in Nat /\ None \notin Requests \cup Nat

VARIABLES
    photos,         \* app.profile_photos by photo_id: state and position
    profile,        \* app.profiles by user_id: the one member's
    req,            \* each request inside a handler
    crossed,        \* history: the requests in flight that met another in flight
    copy            \* history: how the profile's photos stand to the published ones

vars == <<photos, profile, req, crossed, copy>>
histories == <<crossed, copy>>

INSTANCE RowVersions WITH Nobody <- None

Member == "member"
Offset == 1000              \* what a reorder adds to keep its positions apart
Positions == 0..Cardinality(Photos)
PhotoRow == [state : MediaStates, position : Positions \cup {p + Offset : p \in Positions} \cup {None}]
Photo(state, position) == [state |-> state, position |-> position]
IsRow(row) == row \notin {None, Removed}

ProfileRow == [state : {"incomplete", "complete"}, written : BOOLEAN, shown : Seq(Photos)]

(* The published set of a reading of the table, and its order.                *)
Published(seen) == {p \in Photos : IsRow(seen[p]) /\ seen[p].state = "approved"}
InOrder(seen) == SetToSortSeq(Published(seen), LAMBDA p, q : seen[p].position < seen[q].position)

-----------------------------------------------------------------------------
(* Requests *)

Ops == {"edit", "upload", "screen", "reorder", "remove", "replace"}
Places == {"idle", "held", "apply", "insert", "delete", "published", "stage", "finalise",
           "find_profile", "list_photos", "replace", "upsert", "reply"}

RequestState ==
    [op : Ops, at : Places, photo : Photos \cup {None}, verdict : ScanVerdicts \cup {None},
     reasoned : BOOLEAN, written : BOOLEAN, row : PhotoRow \cup {None},
     order : Seq(Photos), save : ProfileRow \cup {None}]

Idle == [op |-> "edit", at |-> "idle", photo |-> None, verdict |-> None, reasoned |-> FALSE,
         written |-> FALSE, row |-> None, order |-> <<>>, save |-> None]

At(r, place) == req[r].at = place
Goto(r, place) == req' = [req EXCEPT ![r].at = place]

Begin(r, first, request) ==
    /\ At(r, "idle")
    /\ req' = [req EXCEPT ![r] = [f \in DOMAIN Idle |->
                   IF f \in DOMAIN request THEN request[f]
                   ELSE IF f = "at" THEN first ELSE Idle[f]]]
    /\ crossed' = LET inFlight == {q \in Requests : ~At(q, "idle")}
                  IN  IF inFlight = {} THEN crossed ELSE inFlight \cup {r}
    /\ UNCHANGED <<photos, profile, copy>>

BeginEdit(r, written) == Begin(r, "find_profile", [op |-> "edit", written |-> written])
BeginUpload(r) == Begin(r, "held", [op |-> "upload"])
BeginScreen(r, p, verdict, reasoned) ==
    Begin(r, "held", [op |-> "screen", photo |-> p, verdict |-> verdict, reasoned |-> reasoned])
BeginReorder(r) == Begin(r, "published", [op |-> "reorder"])
BeginRemove(r, p) == Begin(r, "delete", [op |-> "remove", photo |-> p])
BeginReplace(r, written, list) ==
    Begin(r, "replace", [op |-> "replace", written |-> written, order |-> list])

-----------------------------------------------------------------------------
(* Photos *)

(* The position is free for r's row p to take, taken for good, or held by a   *)
(* transaction whose end the unique index makes the statement wait for.       *)
Taken(k, row) == IsRow(row) /\ row.position = k
TakenFor_Unindexed(r, p, k) == FALSE        \* mutant: there is no unique index on the position
TakenFor(r, p, k) == \E q \in Photos \ {p} : Taken(k, Seen(photos, r)[q])
HeldFrom(r, p, k) ==
    \E q \in Photos \ {p} : /\ ~FreeFor(photos, q, r)
                            /\ Taken(k, photos[q].row) \/ Taken(k, photos[q].next)

(* A failed statement: the request throws and its transaction rolls back.     *)
Throw(r) ==
    /\ photos' = Rollback(photos, r) /\ profile' = Rollback(profile, r)
    /\ req' = [req EXCEPT ![r] = Idle]
    /\ crossed' = crossed \ {r} /\ UNCHANGED copy

(* listProfilePhotos before an upload: only published photos count.           *)
CountForUpload(r) ==
    /\ At(r, "held") /\ req[r].op = "upload"
    /\ Goto(r, IF Cardinality(Published(Seen(photos, r))) >= MaxPhotos THEN "reply" ELSE "insert")
    /\ UNCHANGED <<photos, profile, histories>>

InsertPhoto(r, p) ==
    /\ At(r, "insert") /\ photos[p] = Settled(None)
    /\ photos' = Put(photos, p, r, Photo(MediaTo["begin_scan"], None))
    /\ Goto(r, "find_profile")
    /\ UNCHANGED <<profile, histories>>

(* The verdict on a photo as it was read: the row it would leave, its         *)
(* position after those published then.                                       *)
Screened(r, seen) ==
    LET state == MediaTo[EventByVerdict[req[r].verdict]]
    IN  Photo(state, IF state = "approved" THEN Cardinality(Published(seen)) ELSE None)

ReadForScreening(r) ==
    LET seen == Seen(photos, r)
        row == seen[req[r].photo]
    IN
    /\ At(r, "held") /\ req[r].op = "screen"
    /\ IF /\ IsRow(row)
          /\ MayMoveMedia(row.state, EventByVerdict[req[r].verdict], req[r].verdict,
                          req[r].reasoned, FALSE)
         THEN req' = [req EXCEPT ![r].row = Screened(r, seen), ![r].at = "apply"]
         ELSE Goto(r, "reply")
    /\ UNCHANGED <<photos, profile, histories>>

(* applyPhotoDecision: an update by id, of no row if the photo has gone.      *)
ApplyDecision(r) ==
    LET p == req[r].photo
        row == req[r].row
        gone == ~IsRow(Seen(photos, r)[p])
    IN
    /\ At(r, "apply") /\ FreeFor(photos, p, r)
    /\ gone \/ row.position = None \/ ~HeldFrom(r, p, row.position)
    /\ IF ~gone /\ row.position # None /\ TakenFor(r, p, row.position)
         THEN Throw(r)
         ELSE /\ photos' = IF gone THEN photos ELSE Put(photos, p, r, row)
              /\ req' = [req EXCEPT ![r].at = "find_profile", ![r].row = None]
              /\ UNCHANGED <<profile, histories>>

DeletePhoto(r) ==
    LET p == req[r].photo IN
    /\ At(r, "delete") /\ FreeFor(photos, p, r)
    /\ IF IsRow(Seen(photos, r)[p])
         THEN photos' = Put(photos, p, r, Removed) /\ Goto(r, "find_profile")
         ELSE UNCHANGED photos /\ Goto(r, "reply")
    /\ UNCHANGED <<profile, histories>>

-----------------------------------------------------------------------------
(* reorderProfilePhotos: an order that is not exactly the published set is    *)
(* refused; the photos of one that is are moved out of the way and back.      *)

ReadPublished(r) ==
    /\ At(r, "published")
    /\ \/ Goto(r, "reply")
       \/ \E order \in SetToSeqs(Published(Seen(photos, r))) :
             req' = [req EXCEPT ![r].order = order, ![r].at = "stage"]
    /\ UNCHANGED <<photos, profile, histories>>

Stage(r) ==
    LET order == req[r].order
        staged == ToSet(order) \cap Published(Seen(photos, r))
        place(p) == CHOOSE i \in DOMAIN order : order[i] = p
    IN
    /\ At(r, "stage") /\ \A p \in ToSet(order) : FreeFor(photos, p, r)
    /\ photos' = [p \in Photos |->
           IF p \in staged
             THEN Put(photos, p, r, Photo("approved", Offset + place(p) - 1))[p]
             ELSE photos[p]]
    /\ req' = [req EXCEPT ![r].at = "finalise", ![r].order = <<>>]
    /\ UNCHANGED <<profile, histories>>

StagedBy(r) == {p \in Published(Seen(photos, r)) : Seen(photos, r)[p].position >= Offset}
Finalise(r) ==
    LET back(p) == Seen(photos, r)[p].position - Offset IN
    /\ At(r, "finalise") /\ \A p \in StagedBy(r) : ~HeldFrom(r, p, back(p))
    /\ IF \E p \in StagedBy(r) : TakenFor(r, p, back(p))
         THEN Throw(r)
         ELSE /\ photos' = [p \in Photos |->
                     IF p \in StagedBy(r) THEN Put(photos, p, r, Photo("approved", back(p)))[p]
                     ELSE photos[p]]
              /\ Goto(r, "reply")
              /\ UNCHANGED <<profile, histories>>

-----------------------------------------------------------------------------
(* saveProfile *)

FindProfile(r) ==
    LET row == Seen(profile, r)[Member] IN
    /\ At(r, "find_profile")
    /\ req' = [req EXCEPT ![r].at = "list_photos",
                   ![r].written = IF req[r].op = "edit" THEN @ ELSE row # None /\ row.written]
    /\ UNCHANGED <<photos, profile, histories>>

(* The event comes from the evaluation, and moves a profile from any state it *)
(* is in here (SavesAreMoves of MCProfiles).                                  *)
SaveEvent(complete) == IF complete THEN "mark_complete" ELSE "mark_incomplete"
Saved(written, shown) ==
    LET complete == IsComplete(IF written THEN WrittenParts ELSE {}, ToSet(shown))
    IN  [state |-> ProfileTo[SaveEvent(complete)], written |-> written, shown |-> shown]

(* photosFor: those of the table, never of the request, in their order.       *)
ForProfile_Unsorted(seen) == SetToSeq(Published(seen))  \* mutant: as the table returns them
ForProfile(seen) == InOrder(seen)

Save(r, shown) ==
    req' = [req EXCEPT ![r].at = "upsert", ![r].written = FALSE, ![r].order = <<>>,
                       ![r].save = Saved(req[r].written, shown)]

ListPhotos(r) ==
    /\ At(r, "list_photos") /\ Save(r, ForProfile(Seen(photos, r)))
    /\ UNCHANGED <<photos, profile, histories>>

(* PUT /v1/accounts/:userId/profile, the older route: the whole content, and  *)
(* the photos it calls approved, are those of the request.                    *)
ReplaceContent(r) ==
    /\ At(r, "replace") /\ Save(r, req[r].order)
    /\ UNCHANGED <<photos, profile, histories>>

UpsertProfile(r) ==
    /\ At(r, "upsert") /\ FreeFor(profile, Member, r)
    /\ profile' = Put(profile, Member, r, req[r].save)
    /\ req' = [req EXCEPT ![r].at = "reply", ![r].save = None]
    /\ UNCHANGED <<photos, histories>>

CommitRequest(r) ==
    /\ At(r, "reply")
    /\ photos' = Commit(photos, r) /\ profile' = Commit(profile, r)
    /\ req' = [req EXCEPT ![r] = Idle]
    /\ crossed' = crossed \ {r}
    /\ copy' = IF profile[Member].by = r
                 THEN IF req[r].op = "replace" \/ r \in crossed THEN "apart" ELSE "exact"
                 ELSE IF copy = "exact" /\ \E p \in Photos : photos[p].by = r THEN "reordered"
                 ELSE copy

Abort(r) == ~At(r, "idle") /\ Throw(r)

Init ==
    /\ photos = [p \in Photos |-> Settled(None)]
    /\ profile = [m \in {Member} |-> Settled(None)]
    /\ req = [r \in Requests |-> Idle]
    /\ crossed = {} /\ copy = "exact"

Next ==
    \E r \in Requests :
       \/ \E written \in BOOLEAN : BeginEdit(r, written)
       \/ \E written \in BOOLEAN, list \in SeqOf(Photos, MaxListed) : BeginReplace(r, written, list)
       \/ BeginUpload(r) \/ BeginReorder(r)
       \/ \E p \in Photos : BeginRemove(r, p) \/ InsertPhoto(r, p)
       \/ \E p \in Photos, v \in ScanVerdicts, reasoned \in BOOLEAN : BeginScreen(r, p, v, reasoned)
       \/ CountForUpload(r) \/ ReadForScreening(r) \/ ApplyDecision(r) \/ DeletePhoto(r)
       \/ ReadPublished(r) \/ Stage(r) \/ Finalise(r)
       \/ FindProfile(r) \/ ListPhotos(r) \/ ReplaceContent(r) \/ UpsertProfile(r)
       \/ CommitRequest(r) \/ Abort(r)

Spec == Init /\ [][Next]_vars

-----------------------------------------------------------------------------
(* Properties *)

PhotoOf == Stored(photos)
Profile == Stored(profile)[Member]
Live == Published(PhotoOf)

(* Every row and request of this module has its type, and a photo has a       *)
(* position exactly while it is published, as the schema's CHECK says.        *)
TypeOK ==
    /\ photos \in [Photos -> Versions(PhotoRow \cup {None, Removed}, Requests)]
    /\ profile \in [{Member} -> Versions(ProfileRow \cup {None}, Requests)]
    /\ req \in [Requests -> RequestState]
    /\ crossed \subseteq Requests /\ copy \in {"exact", "reordered", "apart"}
    /\ \A p \in Photos : IsRow(PhotoOf[p]) =>
          (PhotoOf[p].state = "approved") = (PhotoOf[p].position # None)

(* "The existing primary survives": whatever requests overlap, the photo at   *)
(* position 0 is replaced there only by its owner's reorder or removal, or by *)
(* a verdict on that photo itself, and never by a second one beside it.       *)
Primaries == {p \in Live : PhotoOf[p].position = 0}
PrimarySurvives ==
    [][Primaries # {} /\ Primaries' # Primaries =>
          \E r \in Requests :
             \/ req[r].op = "reorder"
             \/ req[r].op \in {"remove", "screen"} /\ Primaries = {req[r].photo}]_vars

(* A profile is complete exactly when it is written and shows a photo.  Once  *)
(* it was saved by a request that met no other, it shows the photos published *)
(* and no others; and in their order, until they are reordered.  The older    *)
(* route's own list, and saves that crossed, last until the next such save.   *)
ProfileShowsPublished ==
    Profile # None =>
        /\ (Profile.state = "complete") = (Profile.written /\ Profile.shown # <<>>)
        /\ copy # "apart" => IsInjective(Profile.shown) /\ ToSet(Profile.shown) = Live
        /\ copy = "exact" => Profile.shown = InOrder(PhotoOf)

(* A stranger who filters nothing, and the preferences members express.      *)
Subject(user, identity, account, state, preferences) ==
    [user |-> user, identity |-> identity, capabilities |-> CapabilitiesFor(account, {}),
     visible |-> account \in {"active", "limited"}, profile |-> state, age |-> 30,
     genders |-> {"woman"}, preferences |-> preferences]
Viewer == Subject("viewer", "verified", "active", "complete", UnsetPreferences)
Strangers == [blocked |-> FALSE, passed |-> FALSE, liked |-> FALSE, matched |-> FALSE]
Expressible ==
    {[UnsetPreferences EXCEPT !.ageRange = range, !.openTo = list, !.maxDistanceKm = km,
                              !.locationPrecision = band] :
        range \in {None, [min |-> 18, max |-> 25]}, list \in {None, <<"man">>},
        km \in {None, 5}, band \in {None, "5_25_km"}}
StateOfProfile == IF Profile = None THEN "draft" ELSE Profile.state

(* The profile states in which a member is told "discoverable" exactly when a *)
(* stranger is shown them and their preferences count as set, and then none   *)
(* of the steps these facts stand for is left.                                *)
Agreeing ==
    {state \in ProfileStates :
        \A identity \in IdentityStates, account \in AccountStates, signedUp \in BOOLEAN,
           p \in {e \in Expressible : AcceptsPreferences(e)} :
            LET facts == [identity |-> identity, account |-> account, profile |-> state,
                          preferences |-> PreferencesSet(p), contact_verification |-> signedUp,
                          age_gate |-> signedUp, terms |-> signedUp]
                shown == IsShown(Viewer, Subject(Member, identity, account, state, p), Strangers)
            IN  /\ IsDiscoverable(facts) <=> shown /\ PreferencesSet(p)
                /\ IsDiscoverable(facts) => OutstandingSteps(facts) \in
                       {<<>>, <<"contact_verification", "age_gate", "terms">>}}

(* What a member is told about being in discovery is what strangers who       *)
(* filter nothing see, in both directions and whatever preferences they gave: *)
(* except that one who gave neither an age range nor a distance is shown, and *)
(* is told that they are not discoverable.                                    *)
ToldAsShown == StateOfProfile \in Agreeing
=============================================================================
