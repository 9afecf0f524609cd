---------------------------- MODULE SignUpProofs -----------------------------
(***************************************************************************)
(* The age gate of a sign-up, for every date of birth and every day; and,  *)
(* for any contacts, addresses and number of requests in flight at once,   *)
(* the two limits a sign-up meets, the hold it puts on a person who comes  *)
(* back, and the credential that goes with a person who leaves.            *)
(***************************************************************************)
EXTENDS SignUp, TLAPS

(* The eighteenth birthday, wherever the calendar of that year puts it.      *)
ComesOfAge(d) == [d EXCEPT !.year = @ + AdultMinimumAge]

(* The gate opens on the eighteenth birthday and not a day before: what the  *)
(* years, months and days of evaluateAgeGate compute is the comparison of    *)
(* two dates, for a person born on a leap day as well.                       *)
THEOREM GateOpensOnTheBirthday ==
    \A d, today \in Dates :
        Earlier(d, today) => (IsAdult(d, today) <=> ~Earlier(today, ComesOfAge(d)))
<1> SUFFICES ASSUME NEW d \in Dates, NEW today \in Dates, Earlier(d, today)
             PROVE  IsAdult(d, today) <=> ~Earlier(today, ComesOfAge(d))
    OBVIOUS
<1>1. /\ d \in [year : Nat, month : 1..12, day : 1..31]
      /\ today \in [year : Nat, month : 1..12, day : 1..31]
    BY DEF Dates
<1> DEFINE birthday == [d EXCEPT !.year = today.year]
<1>2. /\ birthday.year = today.year /\ birthday.month = d.month /\ birthday.day = d.day
      /\ ComesOfAge(d).year = d.year + 18
      /\ ComesOfAge(d).month = d.month /\ ComesOfAge(d).day = d.day
    BY <1>1 DEF ComesOfAge, AdultMinimumAge
<1>3. ~Earlier(today, d)
    BY <1>1 DEF Earlier
<1>4. AgeOn(d, today) =
        today.year - d.year - (IF Earlier(today, birthday) THEN 1 ELSE 0)
    BY <1>3 DEF AgeOn
<1>5. CASE Earlier(today, birthday)
    <2>1. AgeOn(d, today) = today.year - d.year - 1
        BY <1>1, <1>4, <1>5
    <2>2. IsAdult(d, today) <=> today.year >= d.year + 19
        BY <1>1, <2>1 DEF IsAdult, AdultMinimumAge
    <2>3. Earlier(today, ComesOfAge(d)) <=> today.year <= d.year + 18
        BY <1>1, <1>2, <1>5 DEF Earlier
    <2> QED  BY <1>1, <2>2, <2>3
<1>6. CASE ~Earlier(today, birthday)
    <2>1. AgeOn(d, today) = today.year - d.year
        BY <1>1, <1>4, <1>6
    <2>2. IsAdult(d, today) <=> today.year >= d.year + 18
        BY <1>1, <2>1 DEF IsAdult, AdultMinimumAge
    <2>3. Earlier(today, ComesOfAge(d)) <=> today.year < d.year + 18
        BY <1>1, <1>2, <1>6 DEF Earlier
    <2> QED  BY <1>1, <2>2, <2>3
<1> QED  BY <1>5, <1>6

(* Every adult age falls into exactly one band, so the sign-up never throws  *)
(* on an adult whose age has none ("AGE_BANDS is incomplete").               *)
THEOREM EveryAdultHasOneBand ==
    \A age \in Nat : age >= AdultMinimumAge =>
        \E b \in BandStarts : AgeBandsFor(age) = {b}
<1> SUFFICES ASSUME NEW age \in Nat, age >= 18
             PROVE  \E b \in BandStarts : AgeBandsFor(age) = {b}
    BY DEF AdultMinimumAge
<1>1. \E b \in BandStarts : InBand(age, b)
    BY DEF BandStarts, InBand, BandWidth
<1>2. \A b, c \in BandStarts : InBand(age, b) /\ InBand(age, c) => b = c
    BY DEF BandStarts, InBand, BandWidth
<1>3. PICK b \in BandStarts : InBand(age, b)
    BY <1>1
<1>4. AgeBandsFor(age) = {b}
    BY <1>2, <1>3 DEF AgeBandsFor
<1> QED  BY <1>4

-----------------------------------------------------------------------------
(* The limit on an address and the lock on a contact *)

(* A household is counted under one key, and no key counts two households.   *)
LEMMA OneKeyPerHousehold ==
    ASSUME NEW a \in Addresses, NEW b \in Addresses
    PROVE  Household(a) = Household(b) <=> SourceKey(a) = SourceKey(b)
<1>1. a.kind \in AddressKinds /\ b.kind \in AddressKinds
    BY SignUpAssumption
<1> QED
    BY <1>1 DEF AddressKinds, Household, SourceKey

Counting == {"lock_contact", "find_credential", "count_contact", "insert_user",
             "insert_credential", "find_subject", "hold"}
OnContact == Counting \ {"lock_contact"}
SigningUp == Counting \cup {"lock_address", "count_address"}
Deleting == {"find_contact", "delete_credential", "retire"}

(* What a request has at each place: what it was asked with, the user it     *)
(* works on, and the attempt it has recorded.                                *)
PlaceOK(q) ==
    /\ q.at \in SigningUp => q.contact \in Contacts /\ q.address \in Addresses
    /\ q.at \in {"insert_credential", "find_subject", "hold"} \cup Deleting => q.user \in Users
    /\ q.at \in {"delete_credential", "retire"} => q.contact \in Contacts
    /\ q.at \in Deleting \cup {"idle", "lock_address", "count_address"} => q.recorded = {}
    /\ q.created => /\ q.at \in {"hold", "reply"} /\ q.address \in Addresses
                    /\ q.contact \in Contacts /\ q.user \in Users

(* The advisory locks a request holds to its end, and the room that was left *)
(* under the limit when it counted, which stays until it ends.               *)
RoomOK(r) ==
    LET q == req[r]
        k == SourceKey(q.address)
    IN
    /\ q.at = "count_address" => locks[k] = r
    /\ q.at \in Counting \/ q.created =>
           locks[k] = r /\ k \in q.recorded /\ attempts[k] < PerAddress
    /\ q.at \in OnContact \/ q.created => locks[q.contact] = r
    /\ \A j \in SourceKeys \cap q.recorded : locks[j] = r

(* A credential being written is the first of its contact, under the lock on *)
(* the contact, or is being deleted.                                         *)
WrittenOK(c) ==
    LET r == credentials[c].by IN
    r # None =>
        /\ req[r].contact = c
        /\ req[r].at \in {"find_subject", "hold", "retire", "reply", "failed"}
        /\ credentials[c].row = None =>
               locks[c] = r /\ req[r].at \in {"find_subject", "hold", "reply"}

NotTaken(r) ==
    req[r].at \in {"count_contact", "insert_user", "insert_credential"} =>
        credentials[req[r].contact].row = None

CountOK(a) ==
    made[Household(a)] <= attempts[SourceKey(a)] /\ attempts[SourceKey(a)] <= PerAddress

LimitTypes ==
    /\ credentials \in [Contacts -> Versions(Users \cup {None}, Requests)]
    /\ attempts \in [Keys -> Nat] /\ made \in [Households -> Nat]
    /\ locks \in [Keys -> Requests \cup {None}]
    /\ req \in [Requests -> RequestState]

Limited ==
    /\ LimitTypes
    /\ \A r \in Requests : PlaceOK(req[r]) /\ RoomOK(r) /\ NotTaken(r)
    /\ \A c \in Contacts : WrittenOK(c)
    /\ \A a \in Addresses : CountOK(a)

LEMMA SignUpNull == None \notin Users /\ None \notin Contacts /\ None \notin Requests
  BY SignUpAssumption

LEMMA IdleRequest == Idle \in RequestState /\ PlaceOK(Idle) /\ Idle.at = "idle"
  BY DEF Idle, RequestState, Places, PlaceOK, SigningUp, Counting, Deleting

LEMMA SourceIsKey ==
    /\ \A a \in Addresses : SourceKey(a) \in SourceKeys /\ Household(a) \in Households
    /\ SourceKeys \subseteq Keys /\ Contacts \subseteq Keys
  BY DEF SourceKeys, Households, Keys

(* A request that writes no credential is nobody's holder.                   *)
LEMMA HoldsNone ==
    ASSUME Limited, NEW r \in Requests,
           req[r].at \notin {"find_subject", "hold", "retire", "reply", "failed"}
    PROVE  \A c \in Contacts : credentials[c].by # r
<1> SUFFICES ASSUME NEW c \in Contacts, credentials[c].by = r
             PROVE  FALSE
    OBVIOUS
<1> QED
    BY SignUpNull DEF Limited, WrittenOK

(* A step of a request that does not end it: it takes locks nobody holds,    *)
(* and what it writes is not yet committed.                                  *)
LEMMA StepKept ==
    ASSUME Limited, NEW r \in Requests, NEW q \in RequestState,
           req' = [req EXCEPT ![r] = q], UNCHANGED <<attempts, made>>,
           locks' \in [Keys -> Requests \cup {None}],
           \A k \in Keys : locks[k] # None => locks'[k] = locks[k],
           credentials' \in [Contacts -> Versions(Users \cup {None}, Requests)],
           \A c \in Contacts : credentials'[c].row = credentials[c].row,
           \A c \in Contacts : credentials'[c] = credentials[c] \/ credentials'[c].by = r,
           \A c \in Contacts : credentials'[c].by = r => WrittenOK(c)',
           PlaceOK(q), RoomOK(r)', NotTaken(r)'
    PROVE  Limited'
<1>1. req'[r] = q /\ \A p \in Requests \ {r} : req'[p] = req[p]
    BY DEF Limited, LimitTypes
<1>2. LimitTypes'
    BY DEF Limited, LimitTypes
<1>3. ASSUME NEW p \in Requests, p # r
      PROVE  PlaceOK(req'[p]) /\ RoomOK(p)' /\ NotTaken(p)'
    <2>1. req'[p] = req[p] /\ PlaceOK(req[p]) /\ RoomOK(p) /\ NotTaken(p)
        BY <1>1, <1>3 DEF Limited
    <2>2. \A k \in Keys : locks[k] = p => locks'[k] = p
        BY SignUpNull
    <2>3. /\ req[p].at \in SigningUp \/ req[p].created =>
                SourceKey(req[p].address) \in Keys /\ req[p].contact \in Keys
        BY <2>1, SourceIsKey DEF PlaceOK
    <2>4. /\ req[p].at = "count_address" => req[p].at \in SigningUp
          /\ req[p].at \in Counting => req[p].at \in SigningUp
          /\ req[p].at \in OnContact => req[p].at \in SigningUp
        BY DEF SigningUp, OnContact
    <2>5. RoomOK(p)'
        BY <2>1, <2>2, <2>3, <2>4, SourceIsKey DEF RoomOK
    <2>6. NotTaken(p)'
        <3>1. req[p].at \in {"count_contact", "insert_user", "insert_credential"} =>
                  req[p].contact \in Contacts
            BY <2>1 DEF PlaceOK, SigningUp, Counting
        <3> QED
            BY <2>1, <3>1 DEF NotTaken
    <2> QED
        BY <2>1, <2>5, <2>6
<1>4. ASSUME NEW c \in Contacts
      PROVE  WrittenOK(c)'
    <2>1. CASE credentials'[c].by = r
        BY <2>1
    <2>2. CASE credentials'[c].by # r
        <3>1. credentials'[c] = credentials[c] /\ WrittenOK(c) /\ c \in Keys
              /\ credentials[c].by \in Requests \cup {None}
            BY <2>2, SourceIsKey DEF Limited, LimitTypes, Versions
        <3>2. credentials[c].by # None =>
                  /\ req'[credentials[c].by] = req[credentials[c].by]
                  /\ locks[c] = credentials[c].by => locks'[c] = locks[c]
            BY <1>1, <2>2, <3>1, SignUpNull
        <3> QED
            BY <3>1, <3>2 DEF WrittenOK
    <2> QED
        BY <2>1, <2>2
<1>5. \A a \in Addresses : CountOK(a)'
    BY DEF Limited, CountOK
<1> QED
    BY <1>1, <1>2, <1>3, <1>4, <1>5 DEF Limited

(* A step that moves a request and takes at most a lock.                     *)
LEMMA QuietStep ==
    ASSUME Limited, NEW r \in Requests, NEW q \in RequestState,
           req' = [req EXCEPT ![r] = q], UNCHANGED <<attempts, made, credentials>>,
           locks' \in [Keys -> Requests \cup {None}],
           \A k \in Keys : locks[k] # None => locks'[k] = locks[k],
           PlaceOK(q), RoomOK(r)', NotTaken(r)',
           \/ req[r].at \notin {"find_subject", "hold", "retire", "reply", "failed"}
           \/ /\ q.contact = req[r].contact
              /\ \/ req[r].at \in {"find_subject", "hold"} /\ q.at \in {"hold", "reply"}
                 \/ req[r].at = "retire" /\ q.at \in {"reply", "failed"}
    PROVE  Limited'
<1>1. ASSUME NEW c \in Contacts, credentials'[c].by = r
      PROVE  WrittenOK(c)'
    <2>1. credentials[c].by = r /\ WrittenOK(c) /\ c \in Keys
        BY <1>1, SourceIsKey DEF Limited
    <2>2. /\ req[r].contact = c
          /\ req[r].at \in {"find_subject", "hold", "retire", "reply", "failed"}
          /\ credentials[c].row = None =>
                 locks[c] = r /\ req[r].at \in {"find_subject", "hold", "reply"}
        BY <2>1, SignUpNull DEF WrittenOK
    <2>3. req'[r] = q
        BY DEF Limited, LimitTypes
    <2>4. credentials[c].row = None => locks'[c] = r
        <3>1. locks[c] # None => locks'[c] = locks[c]
            BY <2>1
        <3> QED
            BY <2>2, <3>1, SignUpNull
    <2> QED
        BY <2>1, <2>2, <2>3, <2>4 DEF WrittenOK
<1>2. credentials' \in [Contacts -> Versions(Users \cup {None}, Requests)]
    BY DEF Limited, LimitTypes
<1> QED
    BY <1>1, <1>2, StepKept

(* Each place a request passes through before its contact's credential.      *)
LEMMA BeginLimited ==
    ASSUME Limited, NEW r \in Requests,
           \/ \E c \in Contacts, a \in Addresses, born \in Births : BeginSignUp(r, c, a, born)
           \/ \E u \in Users : BeginDeletion(r, u)
    PROVE  Limited'
<1>1. req[r].at = "idle" /\ UNCHANGED <<attempts, made, credentials, locks>>
    BY DEF BeginSignUp, BeginDeletion, At, tables
<1>2. PICK q \in RequestState :
          /\ req' = [req EXCEPT ![r] = q] /\ PlaceOK(q) /\ q.recorded = {}
          /\ q.at \in {"lock_address", "reply", "find_contact"} /\ q.created = FALSE
    <2>1. ASSUME NEW c \in Contacts, NEW a \in Addresses, NEW born \in Births,
                 BeginSignUp(r, c, a, born)
          PROVE  \E q \in RequestState :
                    /\ req' = [req EXCEPT ![r] = q] /\ PlaceOK(q) /\ q.recorded = {}
                    /\ q.at \in {"lock_address", "reply", "find_contact"} /\ q.created = FALSE
        <3> DEFINE q == [Idle EXCEPT !.at = "lock_address", !.contact = c, !.address = a,
                                     !.owed = Owed(c)]
                   p == [Idle EXCEPT !.at = "reply"]
        <3>1. req' = [req EXCEPT ![r] = q] \/ req' = [req EXCEPT ![r] = p]
            BY <2>1 DEF BeginSignUp
        <3>2. Owed(c) \in BOOLEAN
            BY DEF Owed
        <3>3. /\ q \in RequestState /\ PlaceOK(q) /\ q.recorded = {} /\ q.at = "lock_address"
              /\ q.created = FALSE
            BY <3>2 DEF Idle, RequestState, Places, PlaceOK, SigningUp, Counting, Deleting
        <3>4. /\ p \in RequestState /\ PlaceOK(p) /\ p.recorded = {} /\ p.at = "reply"
              /\ p.created = FALSE
            BY DEF Idle, RequestState, Places, PlaceOK, SigningUp, Counting, Deleting
        <3> QED
            BY <3>1, <3>3, <3>4
    <2>2. ASSUME NEW u \in Users, BeginDeletion(r, u)
          PROVE  \E q \in RequestState :
                    /\ req' = [req EXCEPT ![r] = q] /\ PlaceOK(q) /\ q.recorded = {}
                    /\ q.at \in {"lock_address", "reply", "find_contact"} /\ q.created = FALSE
        <3> DEFINE q == [Idle EXCEPT !.at = "find_contact", !.user = u]
        <3>1. /\ q \in RequestState /\ PlaceOK(q) /\ q.recorded = {} /\ q.at = "find_contact"
              /\ q.created = FALSE
            BY DEF Idle, RequestState, Places, PlaceOK, SigningUp, Counting, Deleting
        <3> QED
            BY <2>2, <3>1 DEF BeginDeletion
    <2> QED
        BY <2>1, <2>2
<1>3. req'[r] = q
    BY <1>2 DEF Limited, LimitTypes
<1>4. RoomOK(r)' /\ NotTaken(r)'
    BY <1>2, <1>3 DEF RoomOK, NotTaken, Counting, OnContact
<1> QED
    BY <1>1, <1>2, <1>4, QuietStep DEF Limited, LimitTypes

LEMMA LockLimited ==
    ASSUME Limited, NEW r \in Requests, LockAddress(r) \/ LockContact(r)
    PROVE  Limited'
<1>1. /\ req \in [Requests -> RequestState] /\ locks \in [Keys -> Requests \cup {None}]
      /\ req[r] \in RequestState /\ PlaceOK(req[r]) /\ RoomOK(r)
      /\ req[r].contact \in Keys /\ SourceKey(req[r].address) \in Keys
      /\ req[r].at \in {"lock_address", "lock_contact"} /\ req[r].created = FALSE
    <2>1. req[r].at \in {"lock_address", "lock_contact"}
        BY DEF LockAddress, LockContact, At
    <2>2. req[r] \in RequestState /\ PlaceOK(req[r])
        BY DEF Limited, LimitTypes
    <2>3. req[r].contact \in Contacts /\ req[r].address \in Addresses /\ req[r].created = FALSE
        BY <2>1, <2>2 DEF PlaceOK, SigningUp, Counting, RequestState
    <2> QED
        BY <2>1, <2>2, <2>3, SourceIsKey DEF Limited, LimitTypes
<1>2. PICK place \in {"count_address", "find_credential"}, k \in Keys :
          /\ locks[k] \in {None, r} /\ locks' = [locks EXCEPT ![k] = r]
          /\ req' = [req EXCEPT ![r] = [req[r] EXCEPT !.at = place]]
          /\ \/ /\ place = "count_address" /\ k = SourceKey(req[r].address)
                /\ req[r].at = "lock_address"
             \/ place = "find_credential" /\ k = req[r].contact /\ req[r].at = "lock_contact"
    BY <1>1 DEF LockAddress, LockContact, Locked, Goto, At
<1> DEFINE q == [req[r] EXCEPT !.at = place]
<1>3. /\ q \in RequestState /\ q.recorded = req[r].recorded /\ q.contact = req[r].contact
      /\ q.address = req[r].address /\ q.created = FALSE /\ q.at = place
    BY <1>1 DEF RequestState, Places
<1>4. PlaceOK(q)
    BY <1>1, <1>2, <1>3 DEF PlaceOK, SigningUp, Counting, Deleting
<1>5. req'[r] = q /\ req' = [req EXCEPT ![r] = q]
    BY <1>1, <1>2
<1> HIDE DEF q
<1>6. /\ locks' \in [Keys -> Requests \cup {None}] /\ locks'[k] = r
      /\ \A j \in Keys : locks[j] # None => locks'[j] = locks[j]
    BY <1>1, <1>2
<1>7. UNCHANGED <<attempts, made, credentials>>
    BY DEF LockAddress, LockContact, tables
<1>8. NotTaken(r)'
    BY <1>2, <1>3, <1>5 DEF NotTaken
<1>9. RoomOK(r)'
    <2>1. CASE place = "count_address"
        <3>1. req[r].recorded = {}
            BY <1>1, <1>2, <2>1 DEF PlaceOK
        <3> QED
            BY <1>2, <1>3, <1>5, <1>6, <2>1, <3>1 DEF RoomOK, Counting, OnContact
    <2>2. CASE place = "find_credential"
        <3>1. /\ locks[SourceKey(req[r].address)] = r
              /\ SourceKey(req[r].address) \in req[r].recorded
              /\ attempts[SourceKey(req[r].address)] < PerAddress
              /\ \A j \in SourceKeys \cap req[r].recorded : locks[j] = r
            BY <1>1, <1>2, <2>2 DEF RoomOK, Counting
        <3>2. /\ locks'[SourceKey(req[r].address)] = r
              /\ \A j \in SourceKeys \cap req[r].recorded : locks'[j] = r
            BY <1>1, <1>6, <3>1, SourceIsKey, SignUpNull
        <3> QED
            BY <1>2, <1>3, <1>5, <1>6, <1>7, <2>2, <3>1, <3>2 DEF RoomOK, OnContact
    <2> QED
        BY <1>2, <2>1, <2>2
<1> QED
    BY <1>1, <1>3, <1>4, <1>5, <1>6, <1>7, <1>8, <1>9, QuietStep

(* What the handler at a place has, and how a step that only moves it on     *)
(* leaves it.                                                                *)
LEMMA HandlerAt ==
    ASSUME Limited, NEW r \in Requests
    PROVE  /\ req \in [Requests -> RequestState] /\ req[r] \in RequestState
           /\ PlaceOK(req[r]) /\ RoomOK(r) /\ NotTaken(r)
           /\ locks \in [Keys -> Requests \cup {None}]
           /\ credentials \in [Contacts -> Versions(Users \cup {None}, Requests)]
           /\ attempts \in [Keys -> Nat]
  BY DEF Limited, LimitTypes

LEMMA CountAddressLimited ==
    ASSUME Limited, NEW r \in Requests, CountAddress(r)
    PROVE  Limited'
<1> DEFINE k == SourceKey(req[r].address)
           more == {k} \cup (IF attempts[k] < PerAddress THEN {} ELSE {req[r].contact})
           place == IF attempts[k] < PerAddress THEN "lock_contact" ELSE "reply"
           q == [req[r] EXCEPT !.recorded = @ \cup more, !.at = place]
<1>1. /\ req[r].at = "count_address" /\ UNCHANGED <<attempts, made, credentials, locks>>
      /\ req' = [req EXCEPT ![r] = q]
    BY HandlerAt DEF CountAddress, At, tables, WithinLimit
<1>2. /\ req[r].contact \in Contacts /\ req[r].address \in Addresses /\ req[r].created = FALSE
      /\ req[r].recorded = {} /\ k \in SourceKeys /\ k \in Keys /\ locks[k] = r
      /\ req[r].contact \in Keys
    BY <1>1, HandlerAt, SourceIsKey DEF PlaceOK, SigningUp, Counting, RequestState, RoomOK
<1>3. /\ q \in RequestState /\ q.recorded = more /\ q.contact = req[r].contact
      /\ q.address = req[r].address /\ q.created = FALSE /\ q.at = place
    <2>1. req[r] \in RequestState
        BY HandlerAt
    <2>2. more \subseteq Keys /\ place \in Places
        BY <1>2 DEF Places
    <2> HIDE DEF more, place
    <2> QED
        BY <1>2, <2>1, <2>2 DEF RequestState
<1>4. PlaceOK(q)
    BY <1>2, <1>3 DEF PlaceOK, SigningUp, Counting, Deleting
<1>5. req'[r] = q
    BY <1>1, HandlerAt
<1>6. RoomOK(r)' /\ NotTaken(r)'
    BY <1>1, <1>2, <1>3, <1>5, SignUpKeysAssumption DEF RoomOK, NotTaken, Counting, OnContact
<1>7. locks' \in [Keys -> Requests \cup {None}] /\ \A j \in Keys : locks'[j] = locks[j]
    BY <1>1, HandlerAt
<1> QED
    BY <1>1, <1>3, <1>4, <1>6, <1>7, QuietStep

(* A place where the request holds its contact's lock, left for another.     *)
LEMMA OnContactLimited ==
    ASSUME Limited, NEW r \in Requests, NEW q \in RequestState,
           req[r].at \in OnContact, req' = [req EXCEPT ![r] = q],
           UNCHANGED <<attempts, made, locks>>,
           q.contact = req[r].contact, q.address = req[r].address,
           q.recorded \in {req[r].recorded, req[r].recorded \cup {req[r].contact}},
           q.at \in (OnContact \ {"find_credential"}) \cup {"reply", "failed"},
           q.at \in {"insert_credential", "find_subject", "hold"} \/ q.created => q.user \in Users,
           q.created => q.at \in {"hold", "reply"},
           q.at \in {"count_contact", "insert_user", "insert_credential"} =>
               credentials'[q.contact].row = None
    PROVE  PlaceOK(q) /\ RoomOK(r)' /\ NotTaken(r)'
<1>1. /\ req[r].contact \in Contacts /\ req[r].address \in Addresses
      /\ locks[req[r].contact] = r
    BY HandlerAt DEF PlaceOK, SigningUp, OnContact, RoomOK
<1>2. PlaceOK(q)
    BY <1>1 DEF PlaceOK, SigningUp, Counting, OnContact, Deleting
<1>3. req'[r] = q
    BY HandlerAt
<1>4. RoomOK(r)'
    <2>1. /\ req[r].at \in Counting
          /\ q.at \in Counting => q.at \in OnContact
        BY DEF OnContact, Counting
    <2>2. q.at # "count_address"
        BY DEF OnContact, Counting
    <2>3. /\ locks[SourceKey(q.address)] = r /\ attempts[SourceKey(q.address)] < PerAddress
          /\ SourceKey(q.address) \in q.recorded /\ locks[q.contact] = r
          /\ \A j \in SourceKeys \cap q.recorded : locks[j] = r
        BY <1>1, <2>1, HandlerAt, SignUpKeysAssumption DEF RoomOK
    <2> QED
        BY <1>3, <2>2, <2>3 DEF RoomOK
<1>5. NotTaken(r)'
    BY <1>3 DEF NotTaken
<1> QED
    BY <1>2, <1>4, <1>5

LEMMA CountContactLimited ==
    ASSUME Limited, NEW r \in Requests,
           FindCredential(r) \/ CountContact(r) \/ \E u \in Users : InsertUser(r, u)
    PROVE  Limited'
<1>1. /\ req[r].at \in {"find_credential", "count_contact", "insert_user"}
      /\ UNCHANGED <<attempts, made, credentials, locks>>
    BY DEF FindCredential, CountContact, InsertUser, At, tables
<1>2. req[r].contact \in Contacts /\ req[r].created = FALSE
    BY <1>1, HandlerAt DEF PlaceOK, SigningUp, Counting, RequestState
<1>3. \A c \in Contacts : credentials[c].by # r
    BY <1>1, HoldsNone
<1>4. PICK q \in RequestState :
          /\ req' = [req EXCEPT ![r] = q] /\ q.contact = req[r].contact
          /\ q.address = req[r].address /\ q.created = FALSE
          /\ q.recorded \in {req[r].recorded, req[r].recorded \cup {req[r].contact}}
          /\ q.at \in {"count_contact", "insert_user", "insert_credential", "reply"}
          /\ q.at = "insert_credential" => q.user \in Users
          /\ q.at # "reply" => credentials[req[r].contact].row = None
    <2>1. CASE FindCredential(r)
        <3>1. PICK place \in {"reply", "count_contact"} :
                  /\ req' = [req EXCEPT ![r].at = place]
                  /\ place = "count_contact" => credentials[req[r].contact].row = None
            BY <2>1, <1>2, <1>3, HandlerAt DEF FindCredential, Goto, Seen
        <3> DEFINE q == [req[r] EXCEPT !.at = place]
        <3>2. q \in RequestState
            BY HandlerAt DEF RequestState, Places
        <3> QED
            BY <3>1, <3>2, <1>2, HandlerAt DEF RequestState
    <2>2. CASE CountContact(r)
        <3>1. PICK place \in {"reply", "insert_user"},
                   recorded \in {req[r].recorded, req[r].recorded \cup {req[r].contact}} :
                  req' = [req EXCEPT ![r].at = place, ![r].recorded = recorded]
            <4>1. CASE Record(r, req[r].contact, "insert_user")
                BY <4>1 DEF Record
            <4>2. CASE Goto(r, "reply")
                <5>1. req[r] = [req[r] EXCEPT !.recorded = req[r].recorded]
                    BY HandlerAt DEF RequestState
                <5> QED
                    BY <4>2, <5>1, HandlerAt DEF Goto, RequestState
            <4> QED
                BY <2>2, <4>1, <4>2 DEF CountContact
        <3> DEFINE q == [req[r] EXCEPT !.at = place, !.recorded = recorded]
        <3>2. q \in RequestState
            BY ZenonT(60), <1>2, HandlerAt, SourceIsKey DEF RequestState, Places
        <3>3. credentials[req[r].contact].row = None
            BY <2>2, HandlerAt DEF CountContact, At, NotTaken
        <3> QED
            BY <3>1, <3>2, <3>3, <1>2, HandlerAt DEF RequestState
    <2>3. CASE \E u \in Users : InsertUser(r, u)
        <3>0. PICK u \in Users : InsertUser(r, u)
            BY <2>3
        <3> DEFINE q == [req[r] EXCEPT !.user = u, !.at = "insert_credential"]
        <3>1. q \in RequestState
            BY HandlerAt DEF RequestState, Places
        <3>2. credentials[req[r].contact].row = None
            BY <3>0, HandlerAt DEF InsertUser, At, NotTaken
        <3> QED
            BY <3>0, <3>1, <3>2, <1>2, HandlerAt DEF InsertUser, RequestState
    <2> QED
        BY <2>1, <2>2, <2>3
<1>5. PlaceOK(q) /\ RoomOK(r)' /\ NotTaken(r)'
    <2>1. /\ req[r].at \in OnContact
          /\ q.at \in (OnContact \ {"find_credential"}) \cup {"reply", "failed"}
        BY <1>1, <1>4 DEF OnContact, Counting
    <2> QED
        BY <1>1, <1>4, <2>1, OnContactLimited
<1> QED
    BY <1>1, <1>4, <1>5, HandlerAt, QuietStep

(* Under the lock and with the contact found free, nobody else can be        *)
(* writing its credential: a sign-up would need the lock, a deletion a       *)
(* credential to delete.                                                     *)
LEMMA ContactIsFree ==
    ASSUME Limited, NEW r \in Requests, req[r].at = "insert_credential"
    PROVE  /\ req[r].contact \in Contacts
           /\ credentials[req[r].contact].by = None /\ credentials[req[r].contact].row = None
<1> DEFINE c == req[r].contact
<1>1. c \in Contacts /\ credentials[c].row = None /\ locks[c] = r
    BY HandlerAt DEF PlaceOK, SigningUp, Counting, OnContact, RoomOK, NotTaken
<1>2. credentials[c].by # r
    BY <1>1, HoldsNone
<1>3. credentials[c].by # None => locks[c] = credentials[c].by
    BY <1>1 DEF Limited, WrittenOK
<1> QED
    BY <1>1, <1>2, <1>3

LEMMA InsertCredentialLimited ==
    ASSUME Limited, NEW r \in Requests, InsertCredential(r)
    PROVE  Limited'
<1> DEFINE c == req[r].contact
           q == [req[r] EXCEPT !.at = "find_subject"]
<1>1. /\ req[r].at = "insert_credential" /\ UNCHANGED <<attempts, made, locks>>
      /\ req[r].user \in Users /\ req[r].created = FALSE
    BY HandlerAt DEF InsertCredential, At, PlaceOK, RequestState
<1>2. /\ c \in Contacts /\ credentials[c].by = None /\ credentials[c].row = None
    BY <1>1, ContactIsFree
<1>3. /\ credentials' = Put(credentials, c, r, req[r].user)
      /\ req' = [req EXCEPT ![r] = q]
    BY <1>2, HandlerAt, SignUpNull DEF InsertCredential, Taken, Seen, Goto
<1>4. /\ q \in RequestState /\ q.contact = c /\ q.address = req[r].address
      /\ q.at = "find_subject" /\ q.recorded = req[r].recorded /\ q.user = req[r].user
      /\ q.created = FALSE
    BY <1>1, HandlerAt DEF RequestState, Places
<1>5. req'[r] = q
    BY <1>3, HandlerAt
<1> HIDE DEF q
<1>6. PlaceOK(q) /\ RoomOK(r)' /\ NotTaken(r)'
    <2>1. req[r].at \in OnContact /\ q.at \in OnContact \ {"find_credential"}
        BY <1>1, <1>4 DEF OnContact, Counting
    <2> QED
        BY <1>1, <1>3, <1>4, <2>1, OnContactLimited
<1>7. /\ credentials'[c] = [row |-> None, next |-> req[r].user, by |-> r]
      /\ \A b \in Contacts \ {c} : credentials'[b] = credentials[b]
      /\ credentials' \in [Contacts -> Versions(Users \cup {None}, Requests)]
    BY <1>1, <1>2, <1>3, HandlerAt DEF Put, Versions
<1>8. ASSUME NEW b \in Contacts, credentials'[b].by = r
      PROVE  WrittenOK(b)'
    <2>1. b = c
        BY <1>1, <1>7, <1>8, HoldsNone
    <2>2. locks[c] = r
        BY <1>1, HandlerAt DEF RoomOK, OnContact, Counting
    <2> QED
        BY <1>1, <1>4, <1>5, <1>7, <2>1, <2>2, SignUpNull DEF WrittenOK
<1>9. /\ locks' \in [Keys -> Requests \cup {None}] /\ \A j \in Keys : locks'[j] = locks[j]
      /\ \A b \in Contacts : credentials'[b].row = credentials[b].row
      /\ \A b \in Contacts : credentials'[b] = credentials[b] \/ credentials'[b].by = r
    BY <1>1, <1>2, <1>7, HandlerAt
<1> QED
    BY <1>1, <1>3, <1>4, <1>6, <1>7, <1>8, <1>9, StepKept

LEMMA SubjectLimited ==
    ASSUME Limited, NEW r \in Requests, FindSubject(r) \/ Hold(r)
    PROVE  Limited'
<1>1. /\ req[r].at \in {"find_subject", "hold"}
      /\ UNCHANGED <<attempts, made, credentials, locks>>
    BY DEF FindSubject, Hold, At, tables
<1>2. req[r].user \in Users
    BY <1>1, HandlerAt DEF PlaceOK
<1>3. PICK q \in RequestState :
          /\ req' = [req EXCEPT ![r] = q]
          /\ q.contact = req[r].contact /\ q.address = req[r].address
          /\ q.at \in {"hold", "reply"} /\ q.recorded = req[r].recorded /\ q.user = req[r].user
    <2>1. CASE FindSubject(r)
        <3>1. PICK place \in {"hold", "reply"} :
                  req' = [req EXCEPT ![r].at = place, ![r].created = TRUE]
            BY <2>1 DEF FindSubject
        <3> DEFINE q == [req[r] EXCEPT !.at = place, !.created = TRUE]
        <3>2. q \in RequestState
            BY HandlerAt DEF RequestState, Places
        <3> QED
            BY <3>1, <3>2, HandlerAt DEF RequestState
    <2>2. CASE Hold(r)
        <3> DEFINE q == [req[r] EXCEPT !.at = "reply"]
        <3>1. q \in RequestState
            BY HandlerAt DEF RequestState, Places
        <3> QED
            BY <2>2, <3>1, HandlerAt DEF Hold, Goto, RequestState
    <2> QED
        BY <2>1, <2>2
<1>4. PlaceOK(q) /\ RoomOK(r)' /\ NotTaken(r)'
    <2>1. /\ req[r].at \in OnContact
          /\ q.at \in (OnContact \ {"find_credential"}) \cup {"reply", "failed"}
        BY <1>1, <1>3 DEF OnContact, Counting
    <2> QED
        BY <1>1, <1>2, <1>3, <2>1, OnContactLimited
<1>5. locks' \in [Keys -> Requests \cup {None}] /\ \A j \in Keys : locks'[j] = locks[j]
    BY <1>1, HandlerAt
<1> QED
    BY <1>1, <1>3, <1>4, <1>5, QuietStep

LEMMA DeletionLimited ==
    ASSUME Limited, NEW r \in Requests, DeletionStep(r)
    PROVE  Limited'
<1>1. /\ req[r].at \in Deleting /\ UNCHANGED <<attempts, made, locks>>
    BY DEF DeletionStep, FindContact, DeleteCredential, Retire, At, tables, Deleting
<1>2. /\ req[r].user \in Users /\ req[r].recorded = {} /\ req[r].created = FALSE
      /\ req[r].at \in {"delete_credential", "retire"} => req[r].contact \in Contacts
    BY <1>1, HandlerAt DEF PlaceOK, RequestState, Deleting
<1>3. PICK q \in RequestState :
          /\ req' = [req EXCEPT ![r] = q] /\ q.recorded = {} /\ q.user = req[r].user
          /\ q.created = FALSE
          /\ \/ req[r].at = "find_contact" /\ q.at = "reply"
             \/ req[r].at = "find_contact" /\ q.at = "delete_credential" /\ q.contact \in Contacts
             \/ /\ req[r].at = "delete_credential" /\ q.at = "retire"
                /\ q.contact = req[r].contact
             \/ /\ req[r].at = "retire" /\ q.at \in {"reply", "failed"}
                /\ q.contact = req[r].contact
    <2>1. CASE FindContact(r)
        <3>1. CASE Goto(r, "reply")
            <4> DEFINE q == [req[r] EXCEPT !.at = "reply"]
            <4>1. q \in RequestState
                BY HandlerAt DEF RequestState, Places
            <4> QED
                BY <1>2, <2>1, <3>1, <4>1, HandlerAt DEF FindContact, At, Goto, RequestState
        <3>2. CASE \E c \in Contacts :
                      req' = [req EXCEPT ![r].contact = c, ![r].at = "delete_credential"]
            <4>1. PICK c \in Contacts :
                      req' = [req EXCEPT ![r].contact = c, ![r].at = "delete_credential"]
                BY <3>2
            <4> DEFINE q == [req[r] EXCEPT !.contact = c, !.at = "delete_credential"]
            <4>2. q \in RequestState
                BY HandlerAt DEF RequestState, Places
            <4> QED
                BY ZenonT(60), <1>2, <2>1, <4>1, <4>2, HandlerAt DEF FindContact, At, RequestState
        <3>3. \/ Goto(r, "reply")
              \/ \E c \in Contacts :
                     req' = [req EXCEPT ![r].contact = c, ![r].at = "delete_credential"]
            BY <2>1 DEF FindContact, ContactsOf
        <3> QED
            BY <3>1, <3>2, <3>3
    <2>2. CASE DeleteCredential(r)
        <3> DEFINE q == [req[r] EXCEPT !.at = "retire"]
        <3>1. q \in RequestState
            BY HandlerAt DEF RequestState, Places
        <3> QED
            BY <1>2, <2>2, <3>1, HandlerAt DEF DeleteCredential, At, Goto, RequestState
    <2>3. CASE Retire(r)
        <3>1. PICK place \in {"reply", "failed"} : Goto(r, place)
            BY <2>3 DEF Retire
        <3> DEFINE q == [req[r] EXCEPT !.at = place]
        <3>2. q \in RequestState
            BY HandlerAt DEF RequestState, Places
        <3> QED
            BY <1>2, <2>3, <3>1, <3>2, HandlerAt DEF Retire, At, Goto, RequestState
    <2> QED
        BY <2>1, <2>2, <2>3 DEF DeletionStep
<1> DEFINE c == q.contact
<1>5. req'[r] = q
    BY <1>3, HandlerAt
<1>6. PlaceOK(q) /\ RoomOK(r)' /\ NotTaken(r)'
    BY <1>2, <1>3, <1>5
       DEF PlaceOK, RoomOK, NotTaken, SigningUp, Counting, OnContact, Deleting
<1>7. locks' \in [Keys -> Requests \cup {None}] /\ \A j \in Keys : locks'[j] = locks[j]
    BY <1>1, HandlerAt
<1>8. CASE UNCHANGED credentials
    BY <1>1, <1>3, <1>5, <1>6, <1>7, <1>8, QuietStep DEF Deleting
<1>9. CASE ~UNCHANGED credentials
    <2>1. /\ DeleteCredential(r) /\ req[r].at = "delete_credential"
          /\ credentials' = Put(credentials, c, r, None)
          /\ Seen(credentials, r)[c] = req[r].user /\ FreeFor(credentials, c, r)
          /\ c \in Contacts
        BY <1>2, <1>3, <1>9 DEF DeletionStep, FindContact, DeleteCredential, Retire, At, tables
    <2>2. \A b \in Contacts : credentials[b].by # r
        BY <2>1, HoldsNone
    <2>3. credentials[c].row = req[r].user /\ req[r].user # None
        BY <1>2, <2>1, <2>2, HandlerAt, SignUpNull DEF Seen
    <2>4. /\ credentials'[c] = [row |-> req[r].user, next |-> None, by |-> r]
          /\ \A b \in Contacts \ {c} : credentials'[b] = credentials[b]
          /\ credentials' \in [Contacts -> Versions(Users \cup {None}, Requests)]
        BY <1>2, <2>1, <2>3, HandlerAt DEF Put, Versions
    <2>5. ASSUME NEW b \in Contacts, credentials'[b].by = r
          PROVE  WrittenOK(b)'
        <3>1. b = c
            BY <2>2, <2>4, <2>5
        <3> QED
            BY <1>3, <1>5, <2>1, <2>3, <2>4, <3>1 DEF WrittenOK
    <2>6. /\ \A b \in Contacts : credentials'[b].row = credentials[b].row
          /\ \A b \in Contacts : credentials'[b] = credentials[b] \/ credentials'[b].by = r
        BY <2>3, <2>4, HandlerAt
    <2> QED
        BY <1>1, <1>3, <1>5, <1>6, <1>7, <2>4, <2>5, <2>6, StepKept
<1> QED
    BY <1>8, <1>9

(* The end of a request: its locks are released, its credential is settled,  *)
(* and what it made is counted with the attempt it recorded.                 *)
LEMMA EndLimited ==
    ASSUME Limited, NEW r \in Requests, CommitRequest(r) \/ Throw(r)
    PROVE  Limited'
<1> DEFINE k == SourceKey(req[r].address)
           h == Household(req[r].address)
<1>1. /\ req' = [req EXCEPT ![r] = Idle] /\ locks' = Unlocked(r)
      /\ req[r].at \in {"reply", "failed"}
      /\ \/ CommitRequest(r) /\ credentials' = Commit(credentials, r) /\ attempts' = Counted(r)
         \/ /\ credentials' = Rollback(credentials, r) /\ UNCHANGED <<attempts, made>>
    BY DEF CommitRequest, Throw, At
<1>2. req'[r] = Idle /\ \A p \in Requests \ {r} : req'[p] = req[p]
    BY <1>1, HandlerAt
<1>3. /\ locks' \in [Keys -> Requests \cup {None}]
      /\ \A j \in Keys, p \in Requests \ {r} : locks[j] = p => locks'[j] = p
    BY <1>1, HandlerAt, SignUpNull DEF Unlocked
<1>4. /\ credentials' \in [Contacts -> Versions(Users \cup {None}, Requests)]
      /\ \A c \in Contacts : credentials[c].by # r => credentials'[c] = credentials[c]
      /\ \A c \in Contacts : credentials[c].by = r =>
             /\ credentials'[c].by = None
             /\ credentials'[c].row \in {credentials[c].row, credentials[c].next}
    BY <1>1, HandlerAt DEF Commit, Rollback, Settled, Versions
<1>5. /\ attempts' \in [Keys -> Nat]
      /\ \A j \in Keys : attempts'[j] \in {attempts[j], attempts[j] + 1}
      /\ \A j \in Keys : attempts'[j] # attempts[j] => j \in req[r].recorded /\ attempts[j] < Limit(j)
      /\ CommitRequest(r) => \A j \in Keys :
             j \in req[r].recorded /\ attempts[j] < Limit(j) => attempts'[j] = attempts[j] + 1
    BY <1>1, HandlerAt DEF Counted, CommitRequest
<1>6. LimitTypes'
    <2>1. made \in [Households -> Nat]
        BY DEF Limited, LimitTypes
    <2>2. made' = made \/ made' = [made EXCEPT ![h] = @ + 1]
        BY <1>1 DEF CommitRequest
    <2>3. made' \in [Households -> Nat]
        BY <2>1, <2>2
    <2>4. req' \in [Requests -> RequestState]
        BY <1>1, HandlerAt, IdleRequest
    <2> QED
        BY <1>3, <1>4, <1>5, <2>3, <2>4 DEF LimitTypes
<1>7. ASSUME NEW p \in Requests, p # r
      PROVE  PlaceOK(req'[p]) /\ RoomOK(p)' /\ NotTaken(p)'
    <2>1. req'[p] = req[p] /\ PlaceOK(req[p]) /\ RoomOK(p) /\ NotTaken(p)
        BY <1>2, <1>7, HandlerAt
    <2>2. \A j \in SourceKeys : locks[j] = p => attempts'[j] = attempts[j]
        BY <1>5, <1>7, HandlerAt, SourceIsKey DEF RoomOK
    <2>3. /\ req[p].at \in SigningUp \/ req[p].created =>
                /\ SourceKey(req[p].address) \in SourceKeys
                /\ SourceKey(req[p].address) \in Keys /\ req[p].contact \in Keys
                /\ req[p].contact \in Contacts
          /\ req[p].at = "count_address" => req[p].at \in SigningUp
          /\ req[p].at \in Counting => req[p].at \in SigningUp
          /\ req[p].at \in OnContact => req[p].at \in SigningUp
        BY <2>1, SourceIsKey DEF PlaceOK, SigningUp, OnContact
    <2>4. RoomOK(p)'
        BY <1>3, <1>7, <2>1, <2>2, <2>3, SourceIsKey DEF RoomOK
    <2>5. NotTaken(p)'
        <3>1. SUFFICES ASSUME req[p].at \in {"count_contact", "insert_user", "insert_credential"}
                       PROVE  credentials'[req[p].contact].row = None
            BY <2>1 DEF NotTaken
        <3>2. req[p].contact \in Contacts /\ locks[req[p].contact] = p
              /\ credentials[req[p].contact].row = None
            BY <2>1, <2>3, <3>1 DEF OnContact, Counting, SigningUp, RoomOK, NotTaken
        <3>3. credentials[req[p].contact].by # r
            BY <1>7, <3>2, SignUpNull DEF Limited, WrittenOK
        <3> QED
            BY <1>4, <3>2, <3>3
    <2> QED
        BY <2>1, <2>4, <2>5
<1>8. PlaceOK(req'[r]) /\ RoomOK(r)' /\ NotTaken(r)'
    BY <1>2, IdleRequest DEF RoomOK, NotTaken, Idle, Counting, OnContact
<1>9. ASSUME NEW c \in Contacts
      PROVE  WrittenOK(c)'
    <2>1. CASE credentials[c].by = r
        BY <1>4, <2>1 DEF WrittenOK
    <2>2. CASE credentials[c].by # r
        <3>1. /\ credentials'[c] = credentials[c] /\ WrittenOK(c) /\ c \in Keys
              /\ credentials[c].by \in Requests \cup {None}
            BY <1>4, <2>2, HandlerAt, SourceIsKey DEF Limited, Versions
        <3>2. credentials[c].by # None =>
                  /\ req'[credentials[c].by] = req[credentials[c].by]
                  /\ locks[c] = credentials[c].by => locks'[c] = credentials[c].by
            BY <1>2, <1>3, <2>2, <3>1
        <3> QED
            BY <3>1, <3>2 DEF WrittenOK
    <2> QED
        BY <2>1, <2>2
<1>10. ASSUME NEW a \in Addresses
       PROVE  CountOK(a)'
    <2>1. /\ CountOK(a) /\ SourceKey(a) \in SourceKeys /\ SourceKey(a) \in Keys
          /\ Household(a) \in Households
          /\ made \in [Households -> Nat] /\ PerAddress \in Nat
          /\ attempts[SourceKey(a)] \in Nat
        BY SourceIsKey, SignUpAssumption, HandlerAt DEF Limited, LimitTypes
    <2>2. Limit(SourceKey(a)) = PerAddress
        BY <2>1, SignUpKeysAssumption DEF Limit
    <2>3. attempts'[SourceKey(a)] <= PerAddress
          /\ attempts'[SourceKey(a)] >= attempts[SourceKey(a)]
        BY <1>5, <2>1, <2>2 DEF CountOK
    <2>4. CASE made'[Household(a)] = made[Household(a)]
        BY <1>5, <2>1, <2>3, <2>4 DEF CountOK
    <2>5. CASE made'[Household(a)] # made[Household(a)]
        <3>1. /\ CommitRequest(r) /\ req[r].created /\ Household(a) = h
              /\ made'[Household(a)] = made[Household(a)] + 1
            BY <1>1, <2>1, <2>5 DEF CommitRequest
        <3>2. /\ req[r].address \in Addresses /\ k \in req[r].recorded
              /\ attempts[k] < PerAddress
            BY <3>1, HandlerAt DEF PlaceOK, RoomOK
        <3>3. SourceKey(a) = k
            BY <3>1, <3>2, OneKeyPerHousehold
        <3>4. attempts'[SourceKey(a)] = attempts[SourceKey(a)] + 1
            BY <1>5, <2>1, <2>2, <3>1, <3>2, <3>3
        <3> QED
            BY <2>1, <2>3, <3>1, <3>4 DEF CountOK
    <2> QED
        BY <2>4, <2>5
<1> QED
    BY <1>6, <1>7, <1>8, <1>9, <1>10 DEF Limited

LEMMA UnmovedLimited ==
    ASSUME Limited, UNCHANGED <<credentials, locks, req>>,
           attempts' \in [Keys -> Nat], made' \in [Households -> Nat],
           \A a \in Addresses : CountOK(a)',
           \A p \in Requests : req[p].address \in Addresses =>
               attempts'[SourceKey(req[p].address)] = attempts[SourceKey(req[p].address)]
    PROVE  Limited'
<1>1. ASSUME NEW p \in Requests
      PROVE  PlaceOK(req'[p]) /\ RoomOK(p)' /\ NotTaken(p)'
    <2>1. PlaceOK(req[p]) /\ RoomOK(p) /\ NotTaken(p)
        BY DEF Limited
    <2>2. req[p].at \in Counting \/ req[p].created => req[p].address \in Addresses
        BY <2>1 DEF PlaceOK, SigningUp
    <2> QED
        BY <2>1, <2>2 DEF RoomOK, NotTaken
<1>2. LimitTypes' /\ \A c \in Contacts : WrittenOK(c)'
    BY DEF Limited, LimitTypes, WrittenOK
<1> QED
    BY <1>1, <1>2 DEF Limited

(* The window moves on over a key only when no sign-up on it is in flight.   *)
LEMMA ClockLimited ==
    ASSUME Limited,
           \/ \E h \in Households : HourPasses(h)
           \/ \E c \in Contacts : DayPasses(c)
    PROVE  Limited'
<1>1. UNCHANGED <<credentials, locks, req>>
    BY DEF HourPasses, DayPasses, tables
<1>2. /\ attempts \in [Keys -> Nat] /\ made \in [Households -> Nat]
      /\ PerAddress \in Nat \ {0}
    BY SignUpAssumption DEF Limited, LimitTypes
<1>3. CASE \E h \in Households : HourPasses(h)
    <2>1. PICK h \in Households : HourPasses(h)
        BY <1>3
    <2>2. /\ attempts' = [k \in Keys |-> IF k \in HouseKeys(h) THEN 0 ELSE attempts[k]]
          /\ made' = [made EXCEPT ![h] = 0]
          /\ \A p \in Requests : req[p].address # None => Household(req[p].address) # h
        BY <2>1 DEF HourPasses
    <2>3. attempts' \in [Keys -> Nat] /\ made' \in [Households -> Nat]
        BY <1>2, <2>2
    <2>4. ASSUME NEW a \in Addresses
          PROVE  SourceKey(a) \in HouseKeys(h) <=> Household(a) = h
        BY OneKeyPerHousehold DEF HouseKeys, Households
    <2>5. ASSUME NEW a \in Addresses
          PROVE  CountOK(a)'
        <3>1. CountOK(a) /\ SourceKey(a) \in Keys /\ Household(a) \in Households
            BY SourceIsKey DEF Limited
        <3>2. CASE Household(a) = h
            BY <1>2, <2>2, <2>4, <3>1, <3>2 DEF CountOK
        <3>3. CASE Household(a) # h
            BY <1>2, <2>2, <2>4, <3>1, <3>3 DEF CountOK
        <3> QED
            BY <3>2, <3>3
    <2>6. ASSUME NEW p \in Requests, req[p].address \in Addresses
          PROVE  attempts'[SourceKey(req[p].address)] = attempts[SourceKey(req[p].address)]
        BY <2>2, <2>4, <2>6, SourceIsKey, SignUpAssumption
    <2> QED
        BY <1>1, <2>3, <2>5, <2>6, UnmovedLimited
<1>4. CASE \E c \in Contacts : DayPasses(c)
    <2>1. PICK c \in Contacts : attempts' = [attempts EXCEPT ![c] = 0] /\ UNCHANGED made
        BY <1>4 DEF DayPasses
    <2>2. attempts' \in [Keys -> Nat] /\ made' \in [Households -> Nat]
        BY <1>2, <2>1
    <2>3. \A a \in Addresses : attempts'[SourceKey(a)] = attempts[SourceKey(a)]
        BY <1>2, <2>1, SourceIsKey, SignUpKeysAssumption
    <2>4. \A a \in Addresses : CountOK(a)'
        BY <2>1, <2>3 DEF Limited, CountOK
    <2> QED
        BY <1>1, <2>2, <2>3, <2>4, UnmovedLimited
<1> QED
    BY <1>3, <1>4

LEMMA LimitedStart == Init => Limited
<1> SUFFICES ASSUME Init PROVE Limited
    OBVIOUS
<1>1. /\ credentials = [c \in Contacts |-> Settled(None)] /\ attempts = [k \in Keys |-> 0]
      /\ locks = [k \in Keys |-> None] /\ req = [r \in Requests |-> Idle]
      /\ made = [h \in Households |-> 0] /\ PerAddress \in Nat \ {0}
    BY SignUpAssumption DEF Init
<1>2. LimitTypes
    BY <1>1, IdleRequest DEF LimitTypes, Settled, Versions
<1>3. \A r \in Requests : PlaceOK(req[r]) /\ RoomOK(r) /\ NotTaken(r)
    BY <1>1, IdleRequest DEF RoomOK, NotTaken, Idle, Counting, OnContact
<1>4. \A c \in Contacts : WrittenOK(c)
    BY <1>1 DEF WrittenOK, Settled
<1>5. \A a \in Addresses : CountOK(a)
    BY <1>1, SourceIsKey DEF CountOK
<1> QED
    BY <1>2, <1>3, <1>4, <1>5 DEF Limited

LEMMA LimitedStep == Limited /\ [Next]_vars => Limited'
<1> SUFFICES ASSUME Limited, [Next]_vars PROVE Limited'
    OBVIOUS
<1>1. CASE \/ UNCHANGED vars
           \/ \E u \in Users : OpenCase(u)
           \/ \E u \in Users, outcome \in {"dismiss", "ban"} : Decide(u, outcome)
    <2>1. UNCHANGED <<credentials, attempts, locks, req, made>>
        BY <1>1 DEF vars, tables, OpenCase, Decide
    <2> QED
        BY <2>1 DEF Limited, LimitTypes, RoomOK, NotTaken, WrittenOK, CountOK
<1>2. CASE \E r \in Requests :
              \/ \E c \in Contacts, a \in Addresses, born \in Births : BeginSignUp(r, c, a, born)
              \/ \E u \in Users : BeginDeletion(r, u)
    BY <1>2, BeginLimited
<1>3. CASE \E r \in Requests : SignUpStep(r)
    <2>1. PICK r \in Requests : SignUpStep(r)
        BY <1>3
    <2> QED
        BY <2>1, LockLimited, CountAddressLimited, CountContactLimited, InsertCredentialLimited,
           SubjectLimited DEF SignUpStep
<1>4. CASE \E r \in Requests : DeletionStep(r) \/ CommitRequest(r) \/ Throw(r)
    BY <1>4, DeletionLimited, EndLimited
<1>5. CASE \/ \E h \in Households : HourPasses(h)
           \/ \E c \in Contacts : DayPasses(c)
    BY <1>5, ClockLimited
<1> QED
    BY <1>1, <1>2, <1>3, <1>4, <1>5 DEF Next

LEMMA AlwaysLimited == Spec => []Limited
  BY LimitedStart, LimitedStep, PTL DEF Spec

(* A sign-up that finds its contact taken answers so: whoever else signs up  *)
(* or is deleted on that contact meanwhile, the insert neither waits for     *)
(* another transaction nor fails on the unique index.                        *)
THEOREM DuplicateIsAlwaysAnswered == Spec => []DuplicateIsAnswered
<1>1. Limited => DuplicateIsAnswered
    <2> SUFFICES ASSUME Limited, NEW r \in Requests, At(r, "insert_credential")
                 PROVE  FreeFor(credentials, req[r].contact, r) /\ ~Taken(r)
        BY DEF DuplicateIsAnswered
    <2>1. /\ req[r].contact \in Contacts
          /\ credentials[req[r].contact].by = None /\ credentials[req[r].contact].row = None
        BY ContactIsFree DEF At
    <2> QED
        BY <2>1, HandlerAt, SignUpNull DEF FreeFor, Taken, Seen
<1> QED
    BY <1>1, AlwaysLimited, PTL

(* No household makes more accounts within the window than the limit on an   *)
(* address, from however many addresses and with however many sign-ups in    *)
(* flight together.                                                          *)
THEOREM AddressLimitAlwaysHolds == Spec => []AddressLimitHolds
<1>1. Limited => AddressLimitHolds
    <2> SUFFICES ASSUME Limited, NEW a \in Addresses
                 PROVE  made[Household(a)] <= PerAddress
        BY DEF AddressLimitHolds, Households
    <2>1. /\ made[Household(a)] \in Nat /\ attempts[SourceKey(a)] \in Nat
          /\ PerAddress \in Nat /\ CountOK(a)
        BY SourceIsKey, SignUpAssumption DEF Limited, LimitTypes
    <2> QED
        BY <2>1 DEF CountOK
<1> QED
    BY <1>1, AlwaysLimited, PTL

-----------------------------------------------------------------------------
(* A person who comes back *)

UserTypes ==
    /\ users \in [Users -> Versions(UserRow \cup {None}, Requests)]
    /\ standing \in [Users -> Versions({"active", "suspended", "banned"}, Requests)]
    /\ cases \in [Users -> {"none", "open", "resolved"}]

(* No two requests work on one user.                                         *)
OwnersDiffer ==
    \A r, p \in Requests : r # p /\ req[r].user # None => req[r].user # req[p].user

(* A users row being written is a new account, made by the sign-up it is of, *)
(* or an account that its deletion retires under the pseudonym of a contact. *)
Making == {"insert_credential", "find_subject", "hold"}
RowOK(u) ==
    LET r == users[u].by IN
    r # None =>
        /\ req[r].user = u
        /\ \/ /\ users[u].row = None /\ users[u].next = Active
              /\ req[r].at \in Making \cup {"failed"} \/ (req[r].at = "reply" /\ req[r].created)
           \/ /\ users[u].row = Active /\ req[r].at = "reply" /\ req[r].contact \in Contacts
              /\ users[u].next = Retired(req[r].contact)

(* A standing being written is the hold on a new account.                    *)
HoldOK(u) ==
    LET r == standing[u].by IN
    r # None => /\ req[r].user = u /\ req[r].at = "reply" /\ standing[u].next = "suspended"
                /\ users[u].row = None

MakingOK(r) ==
    /\ req[r].at \in Making => users[req[r].user].row = None /\ users[req[r].user].by = r
    /\ req[r].at \in Deleting => users[req[r].user].row = Active
    /\ req[r].at = "hold" => req[r].created

(* No two users carry the pseudonym of one contact, nor are about to.        *)
Named(u, c) == users[u].row # None /\ users[u].row.pseudonym = c
Carries(u, c) == Named(u, c) \/ (users[u].next # None /\ users[u].next.pseudonym = c)
OneCarrier ==
    \A c \in Contacts : \A u, v \in Users : Carries(u, c) /\ Carries(v, c) => u = v

(* A sign-up that began with a debt still has its debtor: one who was        *)
(* banned, or whose case is open or was resolved since.                      *)
DebtOK(r) ==
    (req[r].at \in SigningUp \/ req[r].created) /\ req[r].owed =>
        \E v \in Users : /\ Named(v, req[r].contact)
                         /\ standing[v].row = "banned" \/ cases[v] \in {"open", "resolved"}

(* The account it made is held, or is about to be, or the debtor has been    *)
(* cleared for good.                                                         *)
AnsweredOK(r) ==
    req[r].created /\ req[r].owed =>
        \/ req[r].at = "hold"
        \/ standing[req[r].user].by = r /\ standing[req[r].user].next = "suspended"
        \/ \E v \in Users : /\ Named(v, req[r].contact)
                            /\ standing[v].row # "banned" /\ cases[v] = "resolved"

Answerable ==
    /\ UserTypes /\ OwnersDiffer /\ OneCarrier
    /\ \A u \in Users : RowOK(u) /\ HoldOK(u)
    /\ \A r \in Requests : MakingOK(r) /\ DebtOK(r) /\ AnsweredOK(r)

LEMMA UserRows ==
    /\ Active \in UserRow /\ Active # None /\ Active.pseudonym = None /\ Active.state = "active"
    /\ \A c \in Contacts : /\ Retired(c) \in UserRow /\ Retired(c) # None /\ Retired(c) # Active
                           /\ Retired(c).pseudonym = c
  BY SignUpNoRowAssumption DEF Active, Retired, UserRow

(* A step of a request that writes neither users nor standing.               *)
LEMMA ReadingKept ==
    ASSUME Limited, Answerable, NEW r \in Requests, NEW q \in RequestState,
           req' = [req EXCEPT ![r] = q], UNCHANGED <<users, standing, cases>>,
           \/ q.user \in {req[r].user, None}
           \/ \A p \in Requests : req[p].user # q.user,
           \A u \in Users : users[u].by = r => RowOK(u)',
           \A u \in Users : standing[u].by = r => HoldOK(u)',
           MakingOK(r)', DebtOK(r)', AnsweredOK(r)'
    PROVE  Answerable'
<1>1. req'[r] = q /\ \A p \in Requests \ {r} : req'[p] = req[p]
    BY HandlerAt
<1>2. UserTypes'
    BY DEF Answerable, UserTypes
<1>3. OwnersDiffer'
    BY <1>1 DEF Answerable, OwnersDiffer
<1>4. OneCarrier'
    BY DEF Answerable, OneCarrier, Carries, Named
<1>5. ASSUME NEW u \in Users
      PROVE  RowOK(u)' /\ HoldOK(u)'
    <2>1. /\ RowOK(u) /\ HoldOK(u) /\ users[u].by \in Requests \cup {None}
          /\ standing[u].by \in Requests \cup {None}
        BY DEF Answerable, UserTypes, Versions
    <2>2. RowOK(u)'
        BY <2>1, <1>1 DEF RowOK
    <2>3. HoldOK(u)'
        BY <2>1, <1>1 DEF HoldOK
    <2> QED
        BY <2>2, <2>3
<1>6. ASSUME NEW p \in Requests, p # r
      PROVE  MakingOK(p)' /\ DebtOK(p)' /\ AnsweredOK(p)'
    <2>1. MakingOK(p) /\ DebtOK(p) /\ AnsweredOK(p) /\ req'[p] = req[p]
        BY <1>1, <1>6 DEF Answerable
    <2> QED
        BY <2>1 DEF MakingOK, DebtOK, AnsweredOK, Named
<1> QED
    BY <1>1, <1>2, <1>3, <1>4, <1>5, <1>6 DEF Answerable

LEMMA WritesNothing ==
    ASSUME Answerable, NEW r \in Requests, req[r].at \notin Making \cup {"failed", "reply"}
    PROVE  \A u \in Users : users[u].by # r /\ standing[u].by # r
<1> SUFFICES ASSUME NEW u \in Users, users[u].by = r \/ standing[u].by = r
             PROVE  FALSE
    OBVIOUS
<1> QED
    BY SignUpNull DEF Answerable, RowOK, HoldOK

LEMMA BeginAnswerable ==
    ASSUME Limited, Answerable, NEW r \in Requests,
           \/ \E c \in Contacts, a \in Addresses, born \in Births : BeginSignUp(r, c, a, born)
           \/ \E u \in Users : BeginDeletion(r, u)
    PROVE  Answerable'
<1>1. req[r].at = "idle" /\ UNCHANGED <<users, standing, cases>>
    BY DEF BeginSignUp, BeginDeletion, At, tables
<1>2. \A u \in Users : users[u].by # r /\ standing[u].by # r
    BY <1>1, WritesNothing DEF Making
<1>3. CASE \E c \in Contacts, a \in Addresses, born \in Births : BeginSignUp(r, c, a, born)
    <2>1. PICK c \in Contacts, a \in Addresses, born \in Births : BeginSignUp(r, c, a, born)
        BY <1>3
    <2> DEFINE full == [Idle EXCEPT !.at = "lock_address", !.contact = c, !.address = a,
                                    !.owed = Owed(c)]
               refused == [Idle EXCEPT !.at = "reply"]
    <2>2. Owed(c) \in BOOLEAN
        BY DEF Owed
    <2>3. /\ full \in RequestState /\ full.user = None /\ full.created = FALSE
          /\ full.at = "lock_address" /\ full.owed = Owed(c) /\ full.contact = c
          /\ refused \in RequestState /\ refused.user = None /\ refused.created = FALSE
          /\ refused.at = "reply"
        BY <2>2 DEF Idle, RequestState, Places
    <2>4. PICK q \in {full, refused} : req' = [req EXCEPT ![r] = q]
        BY <2>1 DEF BeginSignUp
    <2> HIDE DEF full, refused
    <2>5. req'[r] = q /\ q \in RequestState
        BY <2>3, <2>4, HandlerAt
    <2>6. MakingOK(r)' /\ AnsweredOK(r)'
        BY <2>3, <2>4, <2>5 DEF MakingOK, AnsweredOK, Making, Deleting
    <2>7. DebtOK(r)'
        <3>1. SUFFICES ASSUME q = full, Owed(c)
                       PROVE  \E v \in Users : Named(v, c)' /\
                                 (standing'[v].row = "banned" \/ cases'[v] \in {"open", "resolved"})
            BY <2>3, <2>4, <2>5 DEF DebtOK, SigningUp, Counting
        <3>2. PICK v \in DeletedOn(c, Stored(users)) : standing[v].row = "banned" \/ cases[v] = "open"
            BY <3>1 DEF Owed
        <3>3. v \in Users /\ users[v].row # None /\ users[v].row.pseudonym = c
            BY <3>2 DEF DeletedOn, Stored, Answerable, UserTypes
        <3> QED
            BY <1>1, <3>2, <3>3 DEF Named
    <2> QED
        BY <1>1, <1>2, <2>3, <2>4, <2>5, <2>6, <2>7, ReadingKept
<1>4. CASE \E u \in Users : BeginDeletion(r, u)
    <2>1. PICK u \in Users : BeginDeletion(r, u)
        BY <1>4
    <2> DEFINE q == [Idle EXCEPT !.at = "find_contact", !.user = u]
    <2>2. /\ q \in RequestState /\ q.user = u /\ q.created = FALSE /\ q.at = "find_contact"
        BY DEF Idle, RequestState, Places
    <2>3. /\ req' = [req EXCEPT ![r] = q] /\ Stored(users)[u] = Active
          /\ \A p \in Requests : req[p].user # u
        BY <2>1 DEF BeginDeletion
    <2> HIDE DEF q
    <2>4. req'[r] = q
        BY <2>3, HandlerAt
    <2>5. users[u].row = Active
        BY <2>3 DEF Stored, Answerable, UserTypes
    <2>6. MakingOK(r)' /\ AnsweredOK(r)' /\ DebtOK(r)'
        BY <1>1, <2>2, <2>4, <2>5
           DEF MakingOK, AnsweredOK, DebtOK, Making, Deleting, SigningUp, Counting
    <2> QED
        BY <1>1, <1>2, <2>2, <2>3, <2>6, ReadingKept
<1> QED
    BY <1>3, <1>4

(* A handler that has written nothing yet moves on.                          *)
LEMMA EarlyAnswerable ==
    ASSUME Limited, Answerable, NEW r \in Requests, NEW q \in RequestState,
           req' = [req EXCEPT ![r] = q], UNCHANGED <<users, standing, cases>>,
           req[r].at \notin Making \cup {"failed", "reply"},
           q.at \notin Making, q.user = req[r].user, q.created = FALSE,
           q.at \in Deleting => req[r].at \in Deleting,
           q.at \in SigningUp => /\ req[r].at \in SigningUp
                                /\ q.contact = req[r].contact /\ q.owed = req[r].owed
    PROVE  Answerable'
<1>1. req'[r] = q /\ MakingOK(r) /\ DebtOK(r)
    BY HandlerAt DEF Answerable
<1>2. \A u \in Users : users[u].by # r /\ standing[u].by # r
    BY WritesNothing
<1>3. MakingOK(r)' /\ AnsweredOK(r)' /\ DebtOK(r)'
    BY <1>1 DEF MakingOK, AnsweredOK, DebtOK, Making, Named
<1> QED
    BY <1>2, <1>3, ReadingKept

LEMMA EarlySteps ==
    ASSUME Limited, Answerable, NEW r \in Requests,
           \/ LockAddress(r) \/ CountAddress(r) \/ LockContact(r) \/ FindCredential(r)
           \/ CountContact(r) \/ FindContact(r) \/ DeleteCredential(r)
    PROVE  Answerable'
<1>1. /\ UNCHANGED <<users, standing, cases>>
      /\ req[r].at \in {"lock_address", "count_address", "lock_contact", "find_credential",
                       "count_contact", "find_contact", "delete_credential"}
    BY DEF LockAddress, CountAddress, LockContact, FindCredential, CountContact, FindContact,
           DeleteCredential, At, tables
<1>2. req[r] \in RequestState /\ PlaceOK(req[r]) /\ req[r].created = FALSE
    BY <1>1, HandlerAt DEF PlaceOK, RequestState
<1>3. PICK q \in RequestState :
          /\ req' = [req EXCEPT ![r] = q] /\ q.user = req[r].user /\ q.created = FALSE
          /\ q.owed = req[r].owed
          /\ \/ /\ q.at \in SigningUp \ Making /\ req[r].at \in SigningUp
                /\ q.contact = req[r].contact
             \/ q.at = "reply"
             \/ q.at \in Deleting /\ req[r].at \in Deleting
    <2>1. ASSUME NEW place \in {"count_address", "find_credential", "reply", "count_contact", "retire"},
                 Goto(r, place),
                 \/ req[r].at \in SigningUp /\ place # "retire"
                 \/ place = "reply" \/ (place = "retire" /\ req[r].at \in Deleting)
          PROVE  \E q \in RequestState :
                    /\ req' = [req EXCEPT ![r] = q] /\ q.user = req[r].user /\ q.created = FALSE
                    /\ q.owed = req[r].owed
                    /\ \/ /\ q.at \in SigningUp \ Making /\ req[r].at \in SigningUp
                          /\ q.contact = req[r].contact
                       \/ q.at = "reply"
                       \/ q.at \in Deleting /\ req[r].at \in Deleting
        <3> DEFINE q == [req[r] EXCEPT !.at = place]
        <3>1. /\ q \in RequestState /\ q.at = place /\ q.user = req[r].user /\ q.created = FALSE
              /\ q.owed = req[r].owed /\ q.contact = req[r].contact
            BY <1>2 DEF RequestState, Places
        <3>2. req' = [req EXCEPT ![r] = q]
            BY <2>1 DEF Goto
        <3> HIDE DEF q
        <3> QED
            BY <2>1, <3>1, <3>2 DEF SigningUp, Counting, Making, Deleting
    <2>2. CASE LockAddress(r) \/ LockContact(r) \/ FindCredential(r)
        <3>1. PICK place \in {"count_address", "find_credential", "reply", "count_contact"} :
                  Goto(r, place) /\ req[r].at \in SigningUp
            BY <2>2 DEF LockAddress, LockContact, FindCredential, At, SigningUp, Counting
        <3> QED
            BY <2>1, <3>1
    <2>3. CASE DeleteCredential(r)
        BY <2>1, <2>3 DEF DeleteCredential, At, Deleting
    <2>4. CASE CountAddress(r)
        <3> DEFINE k == SourceKey(req[r].address)
                   more == {k} \cup (IF attempts[k] < PerAddress THEN {} ELSE {req[r].contact})
                   place == IF attempts[k] < PerAddress THEN "lock_contact" ELSE "reply"
                   q == [req[r] EXCEPT !.recorded = @ \cup more, !.at = place]
        <3>1. /\ req[r].at \in SigningUp /\ k \in Keys /\ req[r].contact \in Keys
            BY <1>2, <2>4, SourceIsKey DEF CountAddress, At, SigningUp, PlaceOK
        <3>2. /\ q \in RequestState /\ q.at \in {"lock_contact", "reply"}
              /\ q.user = req[r].user /\ q.created = FALSE
              /\ q.owed = req[r].owed /\ q.contact = req[r].contact
            BY <1>2, <3>1 DEF RequestState, Places
        <3>3. req' = [req EXCEPT ![r] = q]
            BY <2>4, <1>2 DEF CountAddress, WithinLimit
        <3> HIDE DEF q
        <3> QED
            BY <3>1, <3>2, <3>3 DEF SigningUp, Counting, Making
    <2>5. CASE CountContact(r)
        <3> DEFINE q == [req[r] EXCEPT !.at = "insert_user", !.recorded = @ \cup {req[r].contact}]
        <3>1. req[r].at \in SigningUp /\ req[r].contact \in Keys
            BY <1>2, <2>5, SourceIsKey DEF CountContact, At, SigningUp, Counting, PlaceOK
        <3>2. /\ q \in RequestState /\ q.at = "insert_user"
              /\ q.user = req[r].user /\ q.created = FALSE
              /\ q.owed = req[r].owed /\ q.contact = req[r].contact
            BY <1>2, <3>1 DEF RequestState, Places
        <3>3. req' = [req EXCEPT ![r] = q] \/ Goto(r, "reply")
            BY <2>5, <1>2 DEF CountContact, Record
        <3>4. CASE Goto(r, "reply")
            BY <2>1, <3>1, <3>4
        <3>5. CASE req' = [req EXCEPT ![r] = q]
            <4> HIDE DEF q
            <4> QED
                BY <3>1, <3>2, <3>5 DEF SigningUp, Counting, Making
        <3> QED
            BY <3>3, <3>4, <3>5
    <2>6. CASE FindContact(r)
        <3>1. CASE Goto(r, "reply")
            BY <2>1, <3>1
        <3>2. CASE \E c \in Contacts :
                      req' = [req EXCEPT ![r].contact = c, ![r].at = "delete_credential"]
            <4>1. PICK c \in Contacts :
                      req' = [req EXCEPT ![r].contact = c, ![r].at = "delete_credential"]
                BY <3>2
            <4> DEFINE q == [req[r] EXCEPT !.contact = c, !.at = "delete_credential"]
            <4>2. /\ q \in RequestState /\ q.at = "delete_credential"
                  /\ q.user = req[r].user /\ q.created = FALSE /\ q.owed = req[r].owed
                BY <1>2 DEF RequestState, Places
            <4>3. req' = [req EXCEPT ![r] = q]
                BY <1>2, <4>1
            <4>4. req[r].at \in Deleting
                BY <2>6 DEF FindContact, At, Deleting
            <4> HIDE DEF q
            <4> QED
                BY <4>2, <4>3, <4>4 DEF Deleting
        <3> QED
            BY <2>6, <3>1, <3>2 DEF FindContact, ContactsOf
    <2> QED
        BY <2>2, <2>3, <2>4, <2>5, <2>6
<1>4. /\ req[r].at \notin Making \cup {"failed", "reply"}
      /\ q.at \notin Making
      /\ q.at \in Deleting => q.at \notin SigningUp
      /\ q.at = "reply" => q.at \notin SigningUp /\ q.at \notin Deleting
      /\ q.at \in SigningUp => q.at \notin Deleting
    BY <1>1, <1>3 DEF Making, Deleting, SigningUp, Counting
<1> QED
    BY <1>1, <1>3, <1>4, EarlyAnswerable

(* The unique index: the insert either waits or, as ContactIsFree shows, it  *)
(* succeeds; a request that fails has only its new account to roll back.     *)
LEMMA InsertCredentialAnswerable ==
    ASSUME Limited, Answerable, NEW r \in Requests, InsertCredential(r)
    PROVE  Answerable'
<1>1. PICK place \in {"find_subject", "failed"} :
          /\ req' = [req EXCEPT ![r] = [req[r] EXCEPT !.at = place]]
          /\ req[r].at = "insert_credential" /\ UNCHANGED <<users, standing, cases>>
    BY DEF InsertCredential, Goto, At
<1> DEFINE q == [req[r] EXCEPT !.at = place]
<1>2. /\ q \in RequestState /\ q.at = place /\ q.user = req[r].user /\ q.created = FALSE
      /\ q.owed = req[r].owed /\ q.contact = req[r].contact
    BY <1>1, HandlerAt DEF RequestState, Places, PlaceOK
<1>3. req'[r] = q /\ req' = [req EXCEPT ![r] = q]
    BY <1>1, HandlerAt
<1> HIDE DEF q
<1>4. MakingOK(r) /\ DebtOK(r) /\ \A u \in Users : RowOK(u) /\ HoldOK(u)
    BY DEF Answerable
<1>5. ASSUME NEW u \in Users, users[u].by = r
      PROVE  RowOK(u)'
    BY <1>1, <1>2, <1>3, <1>4, <1>5, SignUpNull DEF RowOK, Making
<1>6. \A u \in Users : standing[u].by # r
    BY <1>1, <1>4, SignUpNull DEF HoldOK
<1>7. MakingOK(r)' /\ AnsweredOK(r)'
    BY <1>1, <1>2, <1>3, <1>4 DEF MakingOK, AnsweredOK, Making, Deleting
<1>8. DebtOK(r)'
    BY <1>1, <1>2, <1>3, <1>4 DEF DebtOK, SigningUp, Counting, Named
<1> QED
    BY <1>1, <1>2, <1>3, <1>5, <1>6, <1>7, <1>8, ReadingKept

(* A new account: its id is no other request's and no row has it.            *)
LEMMA InsertUserAnswerable ==
    ASSUME Limited, Answerable, NEW r \in Requests, NEW u \in Users, InsertUser(r, u)
    PROVE  Answerable'
<1> DEFINE q == [req[r] EXCEPT !.user = u, !.at = "insert_credential"]
<1>1. /\ req' = [req EXCEPT ![r] = q] /\ users' = Put(users, u, r, Active)
      /\ req[r].at = "insert_user" /\ UNCHANGED <<standing, cases>>
      /\ users[u] = Settled(None) /\ \A p \in Requests : req[p].user # u
    BY HandlerAt DEF InsertUser, At, Fresh
<1>2. /\ q \in RequestState /\ q.at = "insert_credential" /\ q.user = u
      /\ q.owed = req[r].owed /\ q.contact = req[r].contact /\ q.created = FALSE
    BY <1>1, HandlerAt DEF RequestState, Places, PlaceOK
<1>3. req'[r] = q /\ \A p \in Requests \ {r} : req'[p] = req[p]
    BY <1>1, HandlerAt
<1> HIDE DEF q
<1>4. /\ users'[u] = [row |-> None, next |-> Active, by |-> r]
      /\ \A v \in Users \ {u} : users'[v] = users[v]
      /\ users' \in [Users -> Versions(UserRow \cup {None}, Requests)]
    BY <1>1, UserRows DEF Put, Settled, Answerable, UserTypes, Versions
<1>5. UserTypes'
    BY <1>1, <1>4 DEF Answerable, UserTypes
<1>6. OwnersDiffer'
    BY <1>1, <1>2, <1>3 DEF Answerable, OwnersDiffer
<1>7. OneCarrier'
    <2>1. ASSUME NEW c \in Contacts, NEW v \in Users, Carries(v, c)'
          PROVE  Carries(v, c)
        BY <1>4, <2>1, UserRows, SignUpNull DEF Carries, Named
    <2> QED
        BY <2>1 DEF Answerable, OneCarrier
<1>8. ASSUME NEW v \in Users
      PROVE  RowOK(v)' /\ HoldOK(v)'
    <2>1. /\ RowOK(v) /\ HoldOK(v) /\ users[v].by \in Requests \cup {None}
          /\ standing[v].by \in Requests \cup {None}
          /\ users[v].by # r /\ standing[v].by # r
        BY <1>1, WritesNothing DEF Answerable, UserTypes, Versions, Making
    <2>2. RowOK(v)'
        BY <1>2, <1>3, <1>4, <2>1 DEF RowOK, Making
    <2>3. HoldOK(v)'
        BY <1>1, <1>3, <1>4, <2>1 DEF HoldOK
    <2> QED
        BY <2>2, <2>3
<1>9. ASSUME NEW p \in Requests
      PROVE  MakingOK(p)' /\ DebtOK(p)' /\ AnsweredOK(p)'
    <2>1. MakingOK(p) /\ DebtOK(p) /\ AnsweredOK(p) /\ PlaceOK(req[p]) /\ PlaceOK(req[r])
        BY HandlerAt DEF Answerable
    <2>2. ASSUME NEW v \in Users, NEW c, Named(v, c)
          PROVE  Named(v, c)'
        BY <1>1, <1>4, <2>2 DEF Named, Settled
    <2>3. CASE p = r
        <3>1. MakingOK(r)' /\ AnsweredOK(r)'
            BY <1>2, <1>3, <1>4 DEF MakingOK, AnsweredOK, Making, Deleting
        <3>2. DebtOK(r)'
            BY <1>1, <1>2, <1>3, <2>1, <2>2, <2>3 DEF DebtOK, SigningUp, Counting
        <3> QED
            BY <2>3, <3>1, <3>2
    <2>4. CASE p # r
        <3>1. req[p].at \in Making \cup Deleting => req[p].user \in Users \ {u}
            BY <1>1, <2>1 DEF PlaceOK, Making
        <3>2. MakingOK(p)'
            BY <1>3, <1>4, <2>1, <2>4, <3>1 DEF MakingOK
        <3>3. DebtOK(p)' /\ AnsweredOK(p)'
            BY <1>1, <1>3, <2>1, <2>2, <2>4 DEF DebtOK, AnsweredOK
        <3> QED
            BY <3>2, <3>3
    <2> QED
        BY <2>3, <2>4
<1> QED
    BY <1>5, <1>6, <1>7, <1>8, <1>9 DEF Answerable

(* The pseudonym names the debtor and nobody else, so the review reads what  *)
(* the debtor's standing and case are when it runs.                          *)
LEMMA FindSubjectAnswerable ==
    ASSUME Limited, Answerable, NEW r \in Requests, FindSubject(r)
    PROVE  Answerable'
<1> DEFINE c == req[r].contact
           subject == SubjectOn(c, Seen(users, r), Seen(standing, r))
           place == IF ReviewRequired(subject) THEN "hold" ELSE "reply"
           q == [req[r] EXCEPT !.at = place, !.created = TRUE]
<1>1. /\ req' = [req EXCEPT ![r] = q] /\ req[r].at = "find_subject"
      /\ UNCHANGED <<users, standing, cases>>
    BY HandlerAt DEF FindSubject, At, tables
<1>2. /\ q \in RequestState /\ q.at = place /\ q.user = req[r].user /\ q.created = TRUE
      /\ q.owed = req[r].owed /\ q.contact = c /\ c \in Contacts /\ q.user \in Users
    BY ZenonT(60), <1>1, HandlerAt DEF RequestState, Places, PlaceOK, SigningUp, Counting
<1>3. req'[r] = q
    BY <1>1, HandlerAt
<1>4. /\ MakingOK(r) /\ DebtOK(r) /\ \A u \in Users : RowOK(u) /\ HoldOK(u)
      /\ users \in [Users -> Versions(UserRow \cup {None}, Requests)]
      /\ standing \in [Users -> Versions({"active", "suspended", "banned"}, Requests)]
      /\ cases \in [Users -> {"none", "open", "resolved"}]
    BY DEF Answerable, UserTypes
<1>5. \A u \in Users : standing[u].by # r
    BY <1>1, <1>4, SignUpNull DEF HoldOK
<1>6. AnsweredOK(r)'
    <2>1. SUFFICES ASSUME req[r].owed, ~ReviewRequired(subject)
                   PROVE  \E v \in Users : /\ Named(v, c)
                                           /\ standing[v].row # "banned" /\ cases[v] = "resolved"
        BY <1>1, <1>2, <1>3 DEF AnsweredOK, Named
    <2>2. PICK v \in Users : /\ Named(v, c)
                             /\ standing[v].row = "banned" \/ cases[v] \in {"open", "resolved"}
        BY <1>1, <1>4, <2>1 DEF DebtOK, SigningUp, Counting
    <2>3. ASSUME NEW u \in Users
          PROVE  u \in DeletedOn(c, Seen(users, r)) <=> u = v
        <3>1. Seen(users, r)[u] \in {users[u].row, users[u].next}
            BY <1>4 DEF Seen
        <3>2. u \in DeletedOn(c, Seen(users, r)) => Carries(u, c)
            BY <3>1 DEF DeletedOn, Carries, Named
        <3>3. Carries(v, c)
            BY <2>2 DEF Carries
        <3>4. users[v].by # r
            BY <1>1, <1>2, <1>4, <2>2, UserRows, SignUpNull DEF RowOK, Named, Making
        <3>5. v \in DeletedOn(c, Seen(users, r))
            BY <1>4, <2>2, <3>4 DEF DeletedOn, Seen, Named
        <3> QED
            BY <1>2, <3>2, <3>3, <3>5 DEF Answerable, OneCarrier
    <2>4. DeletedOn(c, Seen(users, r)) = {v}
        BY <2>3 DEF DeletedOn
    <2>5. (CHOOSE u \in DeletedOn(c, Seen(users, r)) : TRUE) = v
        BY <2>4
    <2>6. Seen(standing, r)[v] = standing[v].row
        BY <1>4, <1>5 DEF Seen
    <2>7. subject = [found |-> TRUE, openCase |-> cases[v] = "open", standing |-> standing[v].row]
        BY <2>4, <2>5, <2>6 DEF SubjectOn
    <2>8. /\ subject.found = TRUE /\ subject.standing = standing[v].row
          /\ subject.openCase = (cases[v] = "open")
        BY <2>7
    <2> HIDE DEF subject
    <2>9. standing[v].row # "banned" /\ cases[v] # "open"
        BY <2>1, <2>8 DEF ReviewRequired
    <2> QED
        BY <2>2, <2>9
<1>7. ASSUME NEW u \in Users, users[u].by = r
      PROVE  RowOK(u)'
    BY <1>1, <1>2, <1>3, <1>4, <1>7, SignUpNull, UserRows DEF RowOK, Making
<1>8. MakingOK(r)' /\ DebtOK(r)'
    BY <1>1, <1>2, <1>3, <1>4 DEF MakingOK, DebtOK, Making, Deleting, SigningUp, Counting, Named
<1> QED
    BY <1>1, <1>2, <1>5, <1>6, <1>7, <1>8, ReadingKept

(* The hold is written on the account the request made, and answers for it.  *)
LEMMA HoldAnswerable ==
    ASSUME Limited, Answerable, NEW r \in Requests, Hold(r)
    PROVE  Answerable'
<1> DEFINE q == [req[r] EXCEPT !.at = "reply"]
           u == req[r].user
<1>1. /\ req' = [req EXCEPT ![r] = q] /\ standing' = Put(standing, u, r, "suspended")
      /\ req[r].at = "hold" /\ UNCHANGED <<users, cases>>
    BY DEF Hold, Goto, At
<1>2. /\ q \in RequestState /\ q.at = "reply" /\ q.user = u /\ q.created = req[r].created
      /\ q.owed = req[r].owed /\ q.contact = req[r].contact /\ u \in Users
    BY <1>1, HandlerAt DEF RequestState, Places, PlaceOK
<1>3. req'[r] = q /\ \A p \in Requests \ {r} : req'[p] = req[p]
    BY <1>1, HandlerAt
<1>4. /\ MakingOK(r) /\ DebtOK(r)
      /\ users \in [Users -> Versions(UserRow \cup {None}, Requests)]
      /\ standing \in [Users -> Versions({"active", "suspended", "banned"}, Requests)]
    BY DEF Answerable, UserTypes
<1>5. req[r].created /\ users[u].row = None /\ users[u].by = r
    BY <1>1, <1>4 DEF MakingOK, Making
<1> HIDE DEF q
<1>6. /\ standing'[u] = [row |-> standing[u].row, next |-> "suspended", by |-> r]
      /\ \A v \in Users \ {u} : standing'[v] = standing[v]
      /\ \A v \in Users : standing'[v].row = standing[v].row
      /\ standing' \in [Users -> Versions({"active", "suspended", "banned"}, Requests)]
    BY <1>1, <1>2, <1>4 DEF Put, Versions
<1>7. UserTypes' /\ OwnersDiffer' /\ OneCarrier'
    <2>1. UserTypes'
        BY <1>1, <1>6 DEF Answerable, UserTypes
    <2>2. OwnersDiffer'
        BY <1>2, <1>3 DEF Answerable, OwnersDiffer
    <2>3. OneCarrier'
        BY <1>1 DEF Answerable, OneCarrier, Carries, Named
    <2> QED
        BY <2>1, <2>2, <2>3
<1>8. ASSUME NEW v \in Users
      PROVE  RowOK(v)' /\ HoldOK(v)'
    <2>1. RowOK(v) /\ HoldOK(v) /\ users[v].by \in Requests \cup {None}
          /\ standing[v].by \in Requests \cup {None}
        BY <1>4 DEF Answerable, Versions
    <2>2. RowOK(v)'
        <3>1. users'[v] = users[v]
            BY <1>1
        <3>2. CASE users[v].by = r
            <4>1. req[r].user = v /\ v = u /\ r # None
                BY <2>1, <3>2, SignUpNull DEF RowOK
            <4>2. users[v].row = None /\ users[v].next = Active
                BY <1>5, <2>1, <3>2, <4>1, UserRows DEF RowOK
            <4>3. req'[r].user = v /\ req'[r].at = "reply" /\ req'[r].created
                BY <1>2, <1>3, <1>5, <4>1
            <4> QED
                BY <3>1, <3>2, <4>2, <4>3 DEF RowOK
        <3>3. CASE users[v].by # r
            <4>1. req'[users[v].by] = req[users[v].by] \/ users[v].by = None
                BY <1>3, <2>1, <3>3
            <4> QED
                BY <2>1, <3>1, <4>1 DEF RowOK
        <3> QED
            BY <3>2, <3>3
    <2>3. CASE v = u
        BY <1>1, <1>2, <1>3, <1>5, <1>6, <2>2, <2>3 DEF HoldOK
    <2>4. CASE v # u
        <3>1. standing[v].by # r
            BY <1>1, <2>1, <2>4, SignUpNull DEF HoldOK
        <3> QED
            BY <1>1, <1>3, <1>6, <2>1, <2>2, <2>4, <3>1 DEF HoldOK
    <2> QED
        BY <2>2, <2>3, <2>4
<1>9. ASSUME NEW p \in Requests
      PROVE  MakingOK(p)' /\ DebtOK(p)' /\ AnsweredOK(p)'
    <2>1. MakingOK(p) /\ DebtOK(p) /\ AnsweredOK(p) /\ PlaceOK(req[p]) /\ PlaceOK(req[r])
        BY HandlerAt DEF Answerable
    <2>2. CASE p = r
        <3>1. MakingOK(r)'
            BY <1>2, <1>3 DEF MakingOK, Making, Deleting
        <3>2. AnsweredOK(r)'
            BY <1>2, <1>3, <1>6 DEF AnsweredOK
        <3>3. DebtOK(r)'
            BY <1>1, <1>2, <1>3, <1>4, <1>5, <1>6 DEF DebtOK, Named
        <3> QED
            BY <2>2, <3>1, <3>2, <3>3
    <2>3. CASE p # r
        <3>1. req[p].created => req[p].user \in Users \ {u}
            BY <1>2, <2>1, <2>3, SignUpNull DEF PlaceOK, Answerable, OwnersDiffer
        <3>2. req'[p] = req[p]
            BY <1>3, <2>3
        <3>3. MakingOK(p)' /\ DebtOK(p)'
            BY <1>1, <1>6, <2>1, <3>2 DEF MakingOK, DebtOK, Named
        <3>4. AnsweredOK(p)'
            BY <1>1, <1>6, <2>1, <3>1, <3>2 DEF AnsweredOK, Named
        <3> QED
            BY <3>3, <3>4
    <2> QED
        BY <2>2, <2>3
<1> QED
    BY <1>7, <1>8, <1>9 DEF Answerable

(* A retired row takes a pseudonym no other row has or is about to.          *)
LEMMA RetireAnswerable ==
    ASSUME Limited, Answerable, NEW r \in Requests, Retire(r)
    PROVE  Answerable'
<1>0. PICK u \in Users, c \in Contacts :
          req[r].user = u /\ req[r].contact = c /\ req[r].at = "retire"
    BY HandlerAt DEF Retire, At, PlaceOK, Deleting
<1>1. PICK place \in {"reply", "failed"} :
          /\ req' = [req EXCEPT ![r] = [req[r] EXCEPT !.at = place]]
          /\ req[r].at = "retire" /\ UNCHANGED <<standing, cases>>
          /\ \/ place = "failed" /\ users' = users
             \/ /\ place = "reply" /\ users' = Put(users, u, r, Retired(c))
                /\ users[u].by \in {None, r}
                /\ \A v \in Users \ {u} :
                       /\ ~(users[v].row # None /\ users[v].row.pseudonym = c)
                       /\ ~(users[v].next # None /\ users[v].next.pseudonym = c)
    BY <1>0 DEF Retire, Goto, FreeFor
<1> DEFINE q == [req[r] EXCEPT !.at = place]
<1>2. /\ q \in RequestState /\ q.at = place /\ q.user = u /\ q.created = FALSE
      /\ q.owed = req[r].owed /\ q.contact = c /\ q.user = req[r].user
    BY <1>0, <1>1, HandlerAt DEF RequestState, Places, PlaceOK, Deleting
<1>3. /\ req' = [req EXCEPT ![r] = q] /\ req'[r] = q
      /\ \A p \in Requests \ {r} : req'[p] = req[p]
    BY <1>1, HandlerAt
<1> HIDE DEF q
<1>4. \A v \in Users : users[v].by # r /\ standing[v].by # r
    BY <1>1, WritesNothing DEF Making
<1>5. CASE place = "failed"
    <2>1. q.at \notin Making \cup Deleting \cup SigningUp /\ req[r].at \notin Making \cup {"failed", "reply"}
        BY <1>1, <1>2, <1>5 DEF Making, Deleting, SigningUp, Counting
    <2> QED
        BY <1>1, <1>2, <1>3, <1>5, <2>1, EarlyAnswerable
<1>6. CASE place = "reply"
    <2>1. /\ MakingOK(r) /\ users \in [Users -> Versions(UserRow \cup {None}, Requests)]
          /\ standing \in [Users -> Versions({"active", "suspended", "banned"}, Requests)]
        BY DEF Answerable, UserTypes
    <2>2. users[u].row = Active /\ users[u].by = None
        BY <1>0, <1>1, <1>4, <1>6, <2>1 DEF MakingOK, Deleting
    <2>3. /\ users'[u] = [row |-> Active, next |-> Retired(c), by |-> r]
          /\ \A v \in Users \ {u} : users'[v] = users[v]
          /\ \A v \in Users : users'[v].row = users[v].row
          /\ users' \in [Users -> Versions(UserRow \cup {None}, Requests)]
        <3>1. users' = Put(users, u, r, Retired(c)) /\ Retired(c) \in UserRow \cup {None}
            BY <1>1, <1>2, <1>6, UserRows
        <3>2. users' = [users EXCEPT ![u] = [row |-> Active, next |-> Retired(c), by |-> r]]
            BY <2>1, <2>2, <3>1 DEF Put
        <3>3. users[u] \in Versions(UserRow \cup {None}, Requests)
            BY <2>1
        <3>4. [row |-> Active, next |-> Retired(c), by |-> r]
                  \in Versions(UserRow \cup {None}, Requests)
            BY <2>2, <3>1, <3>3 DEF Versions
        <3>5. users'[u] = [row |-> Active, next |-> Retired(c), by |-> r]
            BY <2>1, <3>2
        <3>6. \A v \in Users \ {u} : users'[v] = users[v]
            BY <2>1, <3>2
        <3>7. \A v \in Users : users'[v].row = users[v].row
            BY <2>2, <3>5, <3>6
        <3>8. users' \in [Users -> Versions(UserRow \cup {None}, Requests)]
            BY <2>1, <3>2, <3>4
        <3> QED
            BY <3>5, <3>6, <3>7, <3>8
    <2>4. UserTypes' /\ OwnersDiffer'
        <3>1. UserTypes'
            BY <1>1, <2>3 DEF Answerable, UserTypes
        <3>2. OwnersDiffer'
            BY <1>2, <1>3 DEF Answerable, OwnersDiffer
        <3> QED
            BY <3>1, <3>2
    <2>5. \A v \in Users, d \in Contacts : Named(v, d)' <=> Named(v, d)
        BY <2>3 DEF Named
    <2>6. \A d \in Contacts : Carries(u, d)' => d = c
        BY <2>3, UserRows, SignUpNull DEF Carries, Named
    <2>7. \A v \in Users \ {u}, d \in Contacts : Carries(v, d)' => Carries(v, d) /\ d # c
        BY <1>1, <1>6, <2>3 DEF Carries, Named
    <2>8. OneCarrier'
        BY <2>6, <2>7 DEF Answerable, OneCarrier
    <2>9. ASSUME NEW v \in Users
          PROVE  RowOK(v)' /\ HoldOK(v)'
        <3>1. RowOK(v) /\ HoldOK(v) /\ users[v].by \in Requests \cup {None}
              /\ standing[v].by \in Requests \cup {None}
            BY <2>1 DEF Answerable, Versions
        <3>2. HoldOK(v)'
            BY <1>1, <1>3, <1>4, <2>3, <3>1 DEF HoldOK
        <3>3. CASE v = u
            <4>1. /\ users'[u].row = Active /\ users'[u].next = Retired(c) /\ users'[u].by = r
                  /\ req'[r].user = u /\ req'[r].at = "reply" /\ req'[r].contact = c
                BY <1>0, <1>2, <1>3, <1>6, <2>3
            <4>2. RowOK(u)'
                BY <4>1 DEF RowOK
            <4> QED
                BY <3>2, <3>3, <4>2
        <3>4. CASE v # u
            BY <1>3, <1>4, <2>3, <3>1, <3>2, <3>4 DEF RowOK
        <3> QED
            BY <3>3, <3>4
    <2>10. ASSUME NEW p \in Requests
           PROVE  MakingOK(p)' /\ DebtOK(p)' /\ AnsweredOK(p)'
        <3>1. MakingOK(p) /\ DebtOK(p) /\ AnsweredOK(p) /\ PlaceOK(req[p])
            BY HandlerAt DEF Answerable
        <3>2. CASE p = r
            BY <1>2, <1>3, <1>6, <3>2
               DEF MakingOK, DebtOK, AnsweredOK, Making, Deleting, SigningUp, Counting
        <3>3. CASE p # r
            <4>1. req'[p] = req[p]
                BY <1>3, <3>3
            <4>2. req[p].at \in Making \cup Deleting => req[p].user \in Users \ {u}
                BY <1>0, <3>1, <3>3, SignUpNull DEF PlaceOK, Making, Answerable, OwnersDiffer
            <4>3. MakingOK(p)'
                BY <2>3, <3>1, <4>1, <4>2 DEF MakingOK
            <4>4. /\ req[p].at \in SigningUp \/ req[p].created => req[p].contact \in Contacts
                BY <3>1 DEF PlaceOK
            <4>5. DebtOK(p)' /\ AnsweredOK(p)'
                BY <1>1, <2>5, <3>1, <4>1, <4>4 DEF DebtOK, AnsweredOK
            <4> QED
                BY <4>3, <4>5
        <3> QED
            BY <3>2, <3>3
    <2> QED
        BY <2>4, <2>8, <2>9, <2>10 DEF Answerable
<1> QED
    BY <1>1, <1>5, <1>6

(* What the end of a request does to the rows it wrote, and to no others.    *)
LEMMA RowsEnd ==
    ASSUME Limited, Answerable, NEW r \in Requests, CommitRequest(r) \/ Throw(r)
    PROVE  /\ UserTypes'
           /\ req'[r] = Idle /\ \A p \in Requests \ {r} : req'[p] = req[p]
           /\ \A u \in Users :
                /\ users[u].by # r => users'[u] = users[u]
                /\ standing[u].by # r => standing'[u] = standing[u]
                /\ users[u].by = r =>
                      /\ users'[u].by = None /\ users'[u].next = users'[u].row
                      /\ users'[u].row = IF req[r].at = "reply" THEN users[u].next ELSE users[u].row
                /\ standing[u].by = r =>
                      /\ standing'[u].by = None
                      /\ standing'[u].row = IF req[r].at = "reply" THEN standing[u].next
                                                                   ELSE standing[u].row
<1>1. /\ users \in [Users -> Versions(UserRow \cup {None}, Requests)]
      /\ standing \in [Users -> Versions({"active", "suspended", "banned"}, Requests)]
      /\ cases \in [Users -> {"none", "open", "resolved"}]
    BY DEF Answerable, UserTypes
<1>2. /\ req' = [req EXCEPT ![r] = Idle] /\ cases' = cases
      /\ \/ /\ req[r].at = "reply"
            /\ users' = Commit(users, r) /\ standing' = Commit(standing, r)
         \/ /\ req[r].at = "failed"
            /\ users' = Rollback(users, r) /\ standing' = Rollback(standing, r)
    BY DEF CommitRequest, Throw, At
<1>3. req'[r] = Idle /\ \A p \in Requests \ {r} : req'[p] = req[p]
    BY <1>2, HandlerAt
<1>4. CASE req[r].at = "reply"
    <2>1. /\ users' = [u \in Users |-> IF users[u].by = r THEN Settled(users[u].next) ELSE users[u]]
          /\ standing' = [u \in Users |-> IF standing[u].by = r THEN Settled(standing[u].next)
                                                                ELSE standing[u]]
        BY <1>1, <1>2, <1>4 DEF Commit
    <2>2. UserTypes'
        BY <1>1, <1>2, <2>1 DEF UserTypes, Settled, Versions
    <2> QED
        BY <1>3, <1>4, <2>1, <2>2 DEF Settled
<1>5. CASE req[r].at = "failed"
    <2>1. /\ users' = [u \in Users |-> IF users[u].by = r THEN Settled(users[u].row) ELSE users[u]]
          /\ standing' = [u \in Users |-> IF standing[u].by = r THEN Settled(standing[u].row)
                                                                ELSE standing[u]]
        BY <1>1, <1>2, <1>5 DEF Rollback
    <2>2. UserTypes'
        BY <1>1, <1>2, <2>1 DEF UserTypes, Settled, Versions
    <2> QED
        BY <1>3, <1>5, <2>1, <2>2 DEF Settled
<1> QED
    BY <1>2, <1>4, <1>5

LEMMA EndAnswerable ==
    ASSUME Limited, Answerable, NEW r \in Requests, CommitRequest(r) \/ Throw(r)
    PROVE  Answerable'
<1>1. /\ req'[r] = Idle /\ \A p \in Requests \ {r} : req'[p] = req[p]
      /\ req[r].at \in {"reply", "failed"} /\ cases' = cases
    BY RowsEnd DEF CommitRequest, Throw, At
<1>2. \A u \in Users :
          /\ users[u].by # r => users'[u] = users[u]
          /\ standing[u].by # r => standing'[u] = standing[u]
          /\ users[u].by = r =>
                /\ users'[u].by = None /\ users'[u].next = users'[u].row
                /\ users'[u].row \in {users[u].row, users[u].next}
          /\ standing[u].by = r => standing'[u].by = None
    BY RowsEnd
<1>3. UserTypes'
    BY RowsEnd
<1>4. OwnersDiffer'
    BY <1>1 DEF Answerable, OwnersDiffer, Idle
<1>5. \A u \in Users, c \in Contacts : Carries(u, c)' => Carries(u, c)
    BY <1>2 DEF Carries, Named
<1>6. OneCarrier'
    BY <1>5 DEF Answerable, OneCarrier
<1>7. ASSUME NEW u \in Users
      PROVE  /\ RowOK(u) /\ HoldOK(u)
             /\ users[u].by \in Requests \cup {None} /\ standing[u].by \in Requests \cup {None}
    BY DEF Answerable, UserTypes, Versions
<1>8. ASSUME NEW u \in Users
      PROVE  RowOK(u)' /\ HoldOK(u)'
    <2>1. RowOK(u)'
        BY <1>1, <1>2, <1>7 DEF RowOK
    <2>2. HoldOK(u)'
        <3>1. CASE standing[u].by \in {r, None}
            BY <1>2, <3>1, SignUpNull DEF HoldOK
        <3>2. CASE standing[u].by \in Requests \ {r}
            <4>1. standing'[u] = standing[u] /\ req'[standing[u].by] = req[standing[u].by]
                BY <1>1, <1>2, <3>2
            <4>2. users[u].by # r
                BY <1>7, <3>2, SignUpNull DEF RowOK, HoldOK, Answerable, OwnersDiffer
            <4> QED
                BY <1>2, <1>7, <4>1, <4>2 DEF HoldOK
        <3> QED
            BY <1>7, <3>1, <3>2
    <2> QED
        BY <2>1, <2>2
<1>9. ASSUME NEW v \in Users, NEW c \in Contacts, Named(v, c)
      PROVE  Named(v, c)' /\ standing'[v] = standing[v]
    <2>1. users[v].row # None /\ users[v].row # Active
        BY <1>9, UserRows, SignUpNull DEF Named
    <2>2. users[v].by # r /\ standing[v].by # r
        BY <1>7, <2>1, SignUpNull DEF RowOK, HoldOK
    <2> QED
        BY <1>2, <1>9, <2>2 DEF Named
<1>10. ASSUME NEW p \in Requests
       PROVE  MakingOK(p)' /\ DebtOK(p)' /\ AnsweredOK(p)'
    <2>1. MakingOK(p) /\ DebtOK(p) /\ AnsweredOK(p) /\ PlaceOK(req[p])
        BY HandlerAt DEF Answerable
    <2>2. CASE p = r
        BY <1>1, <2>2 DEF MakingOK, DebtOK, AnsweredOK, Idle, Making, Deleting, SigningUp, Counting
    <2>3. CASE p # r
        <3>1. req'[p] = req[p]
            BY <1>1, <2>3
        <3>2. req[p].at \in Making \cup Deleting \/ req[p].created =>
                  req[p].user \in Users /\ users[req[p].user].by # r /\ standing[req[p].user].by # r
            <4>1. req[p].at \in Making \cup Deleting \/ req[p].created => req[p].user \in Users
                BY <2>1 DEF PlaceOK, Making
            <4> QED
                BY <1>7, <2>3, <4>1, SignUpNull DEF RowOK, HoldOK, Answerable, OwnersDiffer
        <3>3. MakingOK(p)'
            BY <1>2, <2>1, <3>1, <3>2 DEF MakingOK
        <3>4. req[p].at \in SigningUp \/ req[p].created => req[p].contact \in Contacts
            BY <2>1 DEF PlaceOK
        <3>5. DebtOK(p)'
            BY <1>1, <1>9, <2>1, <3>1, <3>4 DEF DebtOK
        <3>6. AnsweredOK(p)'
            BY <1>1, <1>2, <1>9, <2>1, <3>1, <3>2, <3>4 DEF AnsweredOK
        <3> QED
            BY <3>3, <3>5, <3>6
    <2> QED
        BY <2>2, <2>3
<1> QED
    BY <1>3, <1>4, <1>6, <1>8, <1>10 DEF Answerable

(* Moderators: a case never goes back to none, a ban is never taken back, a  *)
(* cleared debtor is not decided on again, and the clock writes no users row.*)
LEMMA OutsideAnswerable ==
    ASSUME Limited, Answerable,
           \/ UNCHANGED vars
           \/ \E u \in Users : OpenCase(u)
           \/ \E u \in Users, outcome \in {"dismiss", "ban"} : Decide(u, outcome)
           \/ \E h \in Households : HourPasses(h)
           \/ \E c \in Contacts : DayPasses(c)
    PROVE  Answerable'
<1>1. /\ UNCHANGED <<users, req>>
      /\ standing \in [Users -> Versions({"active", "suspended", "banned"}, Requests)]
      /\ cases \in [Users -> {"none", "open", "resolved"}]
    BY DEF vars, tables, OpenCase, Decide, HourPasses, DayPasses, Answerable, UserTypes
<1>2. \A u \in Users :
          /\ cases'[u] \in {"none", "open", "resolved"}
          /\ cases[u] \in {"open", "resolved"} => cases'[u] \in {"open", "resolved"}
          /\ cases[u] = "resolved" => cases'[u] = "resolved" /\ standing'[u] = standing[u]
          /\ standing[u].row = "banned" => standing'[u].row = "banned"
          /\ standing[u].by # None => standing'[u] = standing[u]
          /\ standing'[u].by = standing[u].by
          /\ standing'[u] \in Versions({"active", "suspended", "banned"}, Requests)
    <2>1. CASE UNCHANGED <<cases, standing>>
        BY <1>1, <2>1
    <2>2. CASE \E u \in Users : OpenCase(u)
        BY <1>1, <2>2 DEF OpenCase, tables
    <2>3. CASE \E u \in Users, outcome \in {"dismiss", "ban"} : Decide(u, outcome)
        <3>1. PICK u \in Users, row \in {"active", "suspended", "banned"} :
                  /\ cases[u] = "open" /\ standing[u].by = None
                  /\ cases' = [cases EXCEPT ![u] = "resolved"]
                  /\ standing' = [standing EXCEPT ![u] = Settled(row)]
                  /\ standing[u].row = "banned" => row = "banned"
            BY <1>1, <2>3 DEF Decide, Versions
        <3>2. Settled(row) \in Versions({"active", "suspended", "banned"}, Requests)
              /\ Settled(row).row = row /\ Settled(row).by = None
            BY DEF Settled, Versions
        <3> QED
            BY <1>1, <3>1, <3>2
    <2> QED
        BY <2>1, <2>2, <2>3 DEF vars, tables, HourPasses, DayPasses
<1>3. /\ standing' \in [Users -> Versions({"active", "suspended", "banned"}, Requests)]
      /\ cases' \in [Users -> {"none", "open", "resolved"}]
    BY <1>1, <1>2 DEF OpenCase, Decide, vars, tables, HourPasses, DayPasses
<1>4. UserTypes' /\ OwnersDiffer' /\ OneCarrier'
    BY <1>1, <1>3 DEF Answerable, UserTypes, OwnersDiffer, OneCarrier, Carries, Named
<1>5. \A u \in Users : RowOK(u)' /\ HoldOK(u)'
    BY <1>1, <1>2 DEF Answerable, RowOK, HoldOK
<1>6. ASSUME NEW p \in Requests
      PROVE  MakingOK(p)' /\ DebtOK(p)' /\ AnsweredOK(p)'
    <2>1. MakingOK(p) /\ DebtOK(p) /\ AnsweredOK(p) /\ PlaceOK(req[p])
        BY HandlerAt DEF Answerable
    <2>2. MakingOK(p)' /\ DebtOK(p)'
        BY <1>1, <1>2, <2>1 DEF MakingOK, DebtOK, Named
    <2>3. req[p].created => req[p].user \in Users
        BY <2>1 DEF PlaceOK
    <2>4. AnsweredOK(p)'
        BY <1>1, <1>2, <2>1, <2>3, SignUpNull DEF AnsweredOK, Named
    <2> QED
        BY <2>2, <2>4
<1> QED
    BY <1>4, <1>5, <1>6 DEF Answerable

LEMMA AnswerableStart == Init => Answerable
<1> SUFFICES ASSUME Init PROVE Answerable
    OBVIOUS
<1>1. /\ users = [u \in Users |-> Settled(None)] /\ standing = [u \in Users |-> Settled("active")]
      /\ cases = [u \in Users |-> "none"] /\ req = [r \in Requests |-> Idle]
    BY DEF Init
<1>2. UserTypes
    BY <1>1 DEF UserTypes, Settled, Versions
<1>3. OwnersDiffer /\ OneCarrier
    BY <1>1 DEF OwnersDiffer, OneCarrier, Carries, Named, Settled, Idle
<1>4. \A u \in Users : RowOK(u) /\ HoldOK(u)
    BY <1>1 DEF RowOK, HoldOK, Settled
<1>5. \A r \in Requests : MakingOK(r) /\ DebtOK(r) /\ AnsweredOK(r)
    BY <1>1 DEF MakingOK, DebtOK, AnsweredOK, Idle, Making, Deleting, SigningUp, Counting
<1> QED
    BY <1>2, <1>3, <1>4, <1>5 DEF Answerable

LEMMA AnswerableStep == Limited /\ Answerable /\ [Next]_vars => Answerable'
<1> SUFFICES ASSUME Limited, Answerable, [Next]_vars PROVE Answerable'
    OBVIOUS
<1>1. CASE \E r \in Requests :
              \/ \E c \in Contacts, a \in Addresses, born \in Births : BeginSignUp(r, c, a, born)
              \/ \E u \in Users : BeginDeletion(r, u)
    BY <1>1, BeginAnswerable
<1>2. CASE \E r \in Requests : SignUpStep(r)
    <2>1. PICK r \in Requests : SignUpStep(r)
        BY <1>2
    <2>2. CASE \E u \in Users : InsertUser(r, u)
        BY <2>2, InsertUserAnswerable
    <2> QED
        BY <2>1, <2>2, EarlySteps, InsertCredentialAnswerable, FindSubjectAnswerable,
           HoldAnswerable DEF SignUpStep
<1>3. CASE \E r \in Requests : DeletionStep(r) \/ CommitRequest(r) \/ Throw(r)
    BY <1>3, EarlySteps, RetireAnswerable, EndAnswerable DEF DeletionStep
<1>4. CASE \/ UNCHANGED vars
           \/ \E u \in Users : OpenCase(u)
           \/ \E u \in Users, outcome \in {"dismiss", "ban"} : Decide(u, outcome)
           \/ \E h \in Households : HourPasses(h)
           \/ \E c \in Contacts : DayPasses(c)
    BY <1>4, OutsideAnswerable
<1> QED
    BY <1>1, <1>2, <1>3, <1>4 DEF Next

(* A users row is first committed by the request that inserted it.           *)
LEMMA FirstCommit ==
    ASSUME Limited, Answerable, [Next]_vars, NEW u \in Users,
           users[u].row = None, users'[u].row # None
    PROVE  /\ users[u].by \in Requests /\ CommitRequest(users[u].by)
           /\ req[users[u].by].user = u /\ req[users[u].by].created
           /\ req[users[u].by].at = "reply"
<1>1. users \in [Users -> Versions(UserRow \cup {None}, Requests)]
    BY DEF Answerable, UserTypes
<1>2. CASE \/ UNCHANGED users
           \/ \E r \in Requests, v \in Users : \E row : users' = Put(users, v, r, row)
    BY <1>1, <1>2 DEF Put
<1>3. CASE \E r \in Requests : CommitRequest(r) \/ Throw(r)
    <2>1. PICK r \in Requests : CommitRequest(r) \/ Throw(r)
        BY <1>3
    <2>2. users[u].by = r /\ req[r].at = "reply" /\ RowOK(u) /\ r # None
        BY <2>1, RowsEnd, SignUpNull DEF Answerable
    <2>3. CommitRequest(r)
        BY <2>1, <2>2 DEF Throw, At
    <2>4. req[r].user = u /\ req[r].created
        BY <2>2, UserRows DEF RowOK, Making
    <2> QED
        BY <2>2, <2>3, <2>4
<1>4. CASE \E r \in Requests : SignUpStep(r)
    <2>1. PICK r \in Requests : SignUpStep(r)
        BY <1>4
    <2>2. \/ UNCHANGED users
          \/ \E v \in Users : users' = Put(users, v, r, Active)
        BY <2>1 DEF SignUpStep, LockAddress, CountAddress, LockContact, FindCredential,
                    CountContact, InsertCredential, FindSubject, Hold, InsertUser, tables
    <2> QED
        BY <1>2, <2>2
<1>5. CASE \E r \in Requests : DeletionStep(r)
    <2>1. PICK r \in Requests : DeletionStep(r)
        BY <1>5
    <2>2. CASE Retire(r)
        <3>1. req[r].user \in Users
            BY <2>2, HandlerAt DEF Retire, At, PlaceOK, Deleting
        <3>2. UNCHANGED users \/ users' = Put(users, req[r].user, r, Retired(req[r].contact))
            BY <2>2 DEF Retire
        <3> QED
            BY <1>2, <3>1, <3>2
    <2>3. CASE FindContact(r) \/ DeleteCredential(r)
        BY <1>2, <2>3 DEF FindContact, DeleteCredential, tables
    <2> QED
        BY <2>1, <2>2, <2>3 DEF DeletionStep
<1>6. CASE \/ UNCHANGED vars
           \/ \E r \in Requests :
                \/ \E c \in Contacts, a \in Addresses, born \in Births : BeginSignUp(r, c, a, born)
                \/ \E v \in Users : BeginDeletion(r, v)
           \/ \E v \in Users :
                OpenCase(v) \/ \E outcome \in {"dismiss", "ban"} : Decide(v, outcome)
           \/ \E h \in Households : HourPasses(h)
           \/ \E c \in Contacts : DayPasses(c)
    BY <1>2, <1>6 DEF vars, tables, BeginSignUp, BeginDeletion, OpenCase, Decide, HourPasses,
                      DayPasses
<1> QED
    BY <1>3, <1>4, <1>5, <1>6 DEF Next

LEMMA HeldAtCommit == Limited /\ Answerable /\ [Next]_vars => \A u \in Users : HeldFromTheStart(u)
<1> SUFFICES ASSUME Limited, Answerable, [Next]_vars, NEW u \in Users,
                    users[u].row = None, users'[u].row # None,
                    req[users[u].by].owed, Owed(req[users[u].by].contact)
             PROVE  standing'[u].row = "suspended"
    BY DEF HeldFromTheStart
<1>1. PICK r \in Requests :
          /\ r = users[u].by /\ CommitRequest(r)
          /\ req[r].user = u /\ req[r].created /\ req[r].at = "reply"
    BY FirstCommit
<1>2. PICK c \in Contacts : c = req[r].contact
    BY <1>1, HandlerAt DEF PlaceOK
<1>3. CASE \E v \in Users : /\ Named(v, c)
                            /\ standing[v].row # "banned" /\ cases[v] = "resolved"
    <2>1. PICK v \in Users : Named(v, c) /\ standing[v].row # "banned" /\ cases[v] = "resolved"
        BY <1>3
    <2>2. PICK w \in DeletedOn(c, Stored(users)) : standing[w].row = "banned" \/ cases[w] = "open"
        BY <1>1, <1>2 DEF Owed
    <2>3. w \in Users /\ Named(w, c)
        BY <2>2 DEF DeletedOn, Stored, Named, Answerable, UserTypes
    <2>4. w = v
        BY <2>1, <2>3 DEF Answerable, OneCarrier, Carries
    <2> QED
        BY <2>1, <2>2, <2>4
<1>4. CASE standing[u].by = r /\ standing[u].next = "suspended"
    BY <1>1, <1>4, RowsEnd
<1> QED
    BY <1>1, <1>2, <1>3, <1>4 DEF Answerable, AnsweredOK

(* Deleting an account does not launder it: whoever signs up, moderates or   *)
(* is deleted in between, an account made on the contact of a deleted one    *)
(* that was banned or has a case open, both when the sign-up began and when  *)
(* it commits, is held from the moment it exists.                            *)
THEOREM ReentryIsAlwaysHeld == Spec => ReentryIsHeld
<1>1. Init => Limited /\ Answerable
    BY LimitedStart, AnswerableStart
<1>2. Limited /\ Answerable /\ [Next]_vars => (Limited /\ Answerable)'
    BY LimitedStep, AnswerableStep
<1>3. Limited /\ Answerable /\ [Next]_vars => [\A u \in Users : HeldFromTheStart(u)]_vars
    BY HeldAtCommit
<1> QED
    BY <1>1, <1>2, <1>3, PTL DEF Spec, ReentryIsHeld

-----------------------------------------------------------------------------
(* The credential of a person who leaves *)

(* No two contacts are, or are about to be, credentials of one user.         *)
CredentialOf(c, u) == credentials[c].row = u \/ credentials[c].next = u
OneCredential ==
    \A u \in Users : \A c, d \in Contacts : CredentialOf(c, u) /\ CredentialOf(d, u) => c = d

(* A credential committed is of an account that is in use; while that one is *)
(* being retired, the same request deletes it.                               *)
InUse(c) ==
    credentials[c].row # None =>
        LET account == users[credentials[c].row] IN
        /\ account.row = Active
        /\ account.by # None => credentials[c].by = account.by /\ credentials[c].next = None

(* A credential being written is of a new account of the same request, or is *)
(* deleted by the request that deletes the account.                          *)
WriterOK(c) ==
    LET v == credentials[c] IN
    /\ v.by = None => v.next = v.row
    /\ v.by # None =>
           \/ /\ v.row = None /\ v.next \in Users
              /\ users[v.next].row = None /\ users[v.next].by = v.by /\ req[v.by].user = v.next
           \/ /\ v.row \in Users /\ v.next = None /\ req[v.by].user = v.row
              /\ req[v.by].at \in {"retire", "reply", "failed"}

(* A deletion has found the one contact of its account, and deletes it       *)
(* before it retires the account.                                            *)
FoundOK(r) ==
    /\ req[r].at = "delete_credential" => credentials[req[r].contact].row = req[r].user
    /\ req[r].at = "retire" =>
           \A c \in Contacts : credentials[c].row = req[r].user =>
               credentials[c].by = r /\ credentials[c].next = None

Owned ==
    /\ OneCredential
    /\ \A c \in Contacts : InUse(c) /\ WriterOK(c)
    /\ \A r \in Requests : FoundOK(r)

LEMMA OwnedFacts ==
    ASSUME Limited, Answerable, Owned
    PROVE  /\ users \in [Users -> Versions(UserRow \cup {None}, Requests)]
           /\ credentials \in [Contacts -> Versions(Users \cup {None}, Requests)]
           /\ \A u \in Users : RowOK(u) /\ users[u].by \in Requests \cup {None}
           /\ \A c \in Contacts : /\ InUse(c) /\ WriterOK(c)
                                  /\ credentials[c].by \in Requests \cup {None}
                                  /\ credentials[c].row \in Users \cup {None}
                                  /\ credentials[c].next \in Users \cup {None}
           /\ \A r \in Requests : FoundOK(r) /\ MakingOK(r) /\ PlaceOK(req[r])
  BY DEF Limited, LimitTypes, Answerable, UserTypes, Owned, Versions

(* A step of r that writes neither an account nor a credential.              *)
LEMMA QuietOwned ==
    ASSUME Limited, Answerable, Owned, NEW r \in Requests, NEW q \in RequestState,
           req' = [req EXCEPT ![r] = q], UNCHANGED <<users, credentials>>,
           \/ \A c \in Contacts : credentials[c].by # r
           \/ /\ q.user = req[r].user
              /\ req[r].at \in {"retire", "reply", "failed"} =>
                     q.at \in {"retire", "reply", "failed"},
           FoundOK(r)'
    PROVE  Owned'
<1>1. req'[r] = q /\ \A p \in Requests \ {r} : req'[p] = req[p]
    BY HandlerAt
<1>2. OneCredential'
    BY DEF Owned, OneCredential, CredentialOf
<1>3. ASSUME NEW c \in Contacts
      PROVE  InUse(c)' /\ WriterOK(c)'
    <2>1. InUse(c) /\ WriterOK(c) /\ credentials[c].by \in Requests \cup {None}
        BY OwnedFacts
    <2>2. InUse(c)'
        BY <2>1 DEF InUse
    <2>3. credentials[c].by # None =>
              /\ req'[credentials[c].by].user = req[credentials[c].by].user
              /\ req[credentials[c].by].at \in {"retire", "reply", "failed"} =>
                     req'[credentials[c].by].at \in {"retire", "reply", "failed"}
        BY <1>1, <2>1
    <2>4. WriterOK(c)'
        BY <2>1, <2>3 DEF WriterOK
    <2> QED
        BY <2>2, <2>4
<1>4. \A p \in Requests : FoundOK(p)'
    BY <1>1, OwnedFacts DEF FoundOK
<1> QED
    BY <1>2, <1>3, <1>4 DEF Owned

(* A handler that has written nothing yet moves on.                          *)
LEMMA EarlyOwned ==
    ASSUME Limited, Answerable, Owned, NEW r \in Requests,
           \/ \E c \in Contacts, a \in Addresses, born \in Births : BeginSignUp(r, c, a, born)
           \/ \E u \in Users : BeginDeletion(r, u)
           \/ LockAddress(r) \/ CountAddress(r) \/ LockContact(r) \/ FindCredential(r)
           \/ CountContact(r) \/ FindContact(r)
    PROVE  Owned'
<1>1. /\ UNCHANGED <<users, credentials>>
      /\ req[r].at \in {"idle", "lock_address", "count_address", "lock_contact",
                       "find_credential", "count_contact", "find_contact"}
    BY DEF BeginSignUp, BeginDeletion, LockAddress, CountAddress, LockContact, FindCredential,
           CountContact, FindContact, At, tables
<1>2. \A c \in Contacts : credentials[c].by # r
    BY <1>1, HoldsNone
<1>3. req' \in [Requests -> RequestState] /\ req' = [req EXCEPT ![r] = req'[r]]
    <2>1. req' \in [Requests -> RequestState]
        <3>1. Limited'
            BY LimitedStep DEF Next, SignUpStep, DeletionStep
        <3> QED
            BY <3>1 DEF Limited, LimitTypes
    <2>2. \A p \in Requests \ {r} : req'[p] = req[p]
        BY HandlerAt DEF BeginSignUp, BeginDeletion, LockAddress, CountAddress, LockContact,
                         FindCredential, CountContact, FindContact, Goto, Record
    <2> QED
        BY <2>1, <2>2, HandlerAt
<1>4. CASE ~FindContact(r)
    <2>1. req'[r].at \notin {"delete_credential", "retire"}
        <3>1. CASE \E c \in Contacts, a \in Addresses, born \in Births : BeginSignUp(r, c, a, born)
            <4>1. PICK c \in Contacts, a \in Addresses :
                      req'[r] \in {[Idle EXCEPT !.at = "lock_address", !.contact = c, !.address = a,
                                               !.owed = Owed(c)],
                                   [Idle EXCEPT !.at = "reply"]}
                BY <3>1, HandlerAt DEF BeginSignUp
            <4> QED
                BY <4>1 DEF Idle
        <3>2. CASE \E u \in Users : BeginDeletion(r, u)
            <4>1. PICK u \in Users : req'[r] = [Idle EXCEPT !.at = "find_contact", !.user = u]
                BY <3>2, HandlerAt DEF BeginDeletion
            <4> QED
                BY <4>1 DEF Idle
        <3>3. CASE LockAddress(r) \/ LockContact(r) \/ FindCredential(r)
            <4>1. PICK place \in {"count_address", "find_credential", "reply", "count_contact"} :
                      Goto(r, place)
                BY <3>3 DEF LockAddress, LockContact, FindCredential
            <4> QED
                BY <4>1, HandlerAt DEF Goto, RequestState
        <3>4. CASE CountAddress(r)
            BY <3>4, HandlerAt DEF CountAddress, RequestState
        <3>5. CASE CountContact(r)
            BY <3>5, HandlerAt DEF CountContact, Goto, Record, RequestState
        <3> QED
            BY <1>4, <3>1, <3>2, <3>3, <3>4, <3>5
    <2>2. FoundOK(r)'
        BY <2>1 DEF FoundOK
    <2> QED
        BY <1>1, <1>2, <1>3, <2>2, QuietOwned
<1>5. CASE FindContact(r)
    <2>1. req[r].at = "find_contact" /\ req[r].user \in Users
        BY <1>5, OwnedFacts DEF FindContact, At, PlaceOK, Deleting
    <2>2. \A c \in Contacts : Seen(credentials, r)[c] = credentials[c].row
        BY <1>2, OwnedFacts DEF Seen
    <2>3. \/ req'[r].at = "reply"
          \/ /\ req'[r].at = "delete_credential" /\ req'[r].user = req[r].user
             /\ req'[r].contact \in Contacts /\ credentials[req'[r].contact].row = req[r].user
        <3>1. CASE Goto(r, "reply")
            BY <3>1, HandlerAt DEF Goto
        <3>2. CASE ~Goto(r, "reply")
            <4>1. PICK c \in ContactsOf(req[r].user, Seen(credentials, r)) :
                      req' = [req EXCEPT ![r].contact = c, ![r].at = "delete_credential"]
                BY <1>5, <3>2 DEF FindContact
            <4>2. c \in Contacts /\ credentials[c].row = req[r].user
                BY <2>2, <4>1 DEF ContactsOf
            <4>3. req'[r] = [req[r] EXCEPT !.contact = c, !.at = "delete_credential"]
                BY <4>1, HandlerAt
            <4>4. /\ req'[r].at = "delete_credential" /\ req'[r].user = req[r].user
                  /\ req'[r].contact = c
                BY <4>3, HandlerAt DEF RequestState
            <4> QED
                BY <4>2, <4>4
        <3> QED
            BY <3>1, <3>2
    <2>4. FoundOK(r)'
        BY <1>1, <2>3 DEF FoundOK
    <2> QED
        BY <1>1, <1>2, <1>3, <2>4, QuietOwned
<1> QED
    BY <1>4, <1>5

LEMMA AnsweringOwned ==
    ASSUME Limited, Answerable, Owned, NEW r \in Requests, FindSubject(r) \/ Hold(r)
    PROVE  Owned'
<1>1. /\ req[r].at \in {"find_subject", "hold"} /\ UNCHANGED <<users, credentials>>
    BY DEF FindSubject, Hold, At, tables
<1>2. PICK place \in {"hold", "reply"}, created \in BOOLEAN :
          req' = [req EXCEPT ![r] = [req[r] EXCEPT !.at = place, !.created = created]]
    <2>1. CASE FindSubject(r)
        BY <2>1, HandlerAt DEF FindSubject
    <2>2. CASE Hold(r)
        <3>1. req[r].created \in BOOLEAN
            BY HandlerAt DEF RequestState
        <3>2. req' = [req EXCEPT ![r] = [req[r] EXCEPT !.at = "reply", !.created = req[r].created]]
            BY <2>2, HandlerAt DEF Hold, Goto, RequestState
        <3> QED
            BY <3>1, <3>2
    <2> QED
        BY <2>1, <2>2
<1> DEFINE q == [req[r] EXCEPT !.at = place, !.created = created]
<1>3. q \in RequestState /\ q.user = req[r].user /\ q.at = place
    BY HandlerAt DEF RequestState, Places
<1>4. req'[r] = q
    BY <1>2, HandlerAt
<1> HIDE DEF q
<1>5. FoundOK(r)'
    BY <1>3, <1>4 DEF FoundOK
<1> QED
    BY <1>1, <1>2, <1>3, <1>5, QuietOwned DEF q

(* A new account has a fresh id, which no credential has.                    *)
LEMMA InsertUserOwned ==
    ASSUME Limited, Answerable, Owned, NEW r \in Requests, NEW u \in Users, InsertUser(r, u)
    PROVE  Owned'
<1>1. /\ users' = Put(users, u, r, Active) /\ req[r].at = "insert_user"
      /\ UNCHANGED credentials /\ users[u] = Settled(None)
      /\ req' = [req EXCEPT ![r].user = u, ![r].at = "insert_credential"]
    BY DEF InsertUser, At, Fresh
<1>2. \A v \in Users \ {u} : users'[v] = users[v]
    BY <1>1, OwnedFacts DEF Put
<1>3. /\ req'[r].at = "insert_credential" /\ \A p \in Requests \ {r} : req'[p] = req[p]
    BY <1>1, HandlerAt DEF RequestState
<1>4. users[u].row # Active /\ users[u].by = None
    BY <1>1, UserRows DEF Settled
<1>5. ASSUME NEW c \in Contacts
      PROVE  InUse(c)' /\ WriterOK(c)'
    <2>1. /\ InUse(c) /\ WriterOK(c) /\ credentials[c].by \in Requests \cup {None}
          /\ credentials[c].by # r /\ credentials[c].row \in Users \cup {None}
        BY <1>1, OwnedFacts, HoldsNone
    <2>2. credentials[c].row # u
        BY <1>4, <2>1, SignUpNull DEF InUse
    <2>3. InUse(c)'
        BY <1>1, <1>2, <2>1, <2>2 DEF InUse
    <2>4. credentials[c].by # None /\ credentials[c].row = None => credentials[c].next # u
        BY <1>4, <2>1, SignUpNull DEF WriterOK
    <2>5. WriterOK(c)'
        <3>1. credentials[c].by # None => req'[credentials[c].by] = req[credentials[c].by]
            BY <1>3, <2>1
        <3>2. credentials[c].by # None /\ credentials[c].row = None /\ credentials[c].next \in Users
                  => users'[credentials[c].next] = users[credentials[c].next]
            BY <1>2, <2>4
        <3> QED
            BY <1>1, <2>1, <3>1, <3>2 DEF WriterOK
    <2> QED
        BY <2>3, <2>5
<1>6. ASSUME NEW p \in Requests
      PROVE  FoundOK(p)'
    <2>1. CASE p = r
        BY <1>3, <2>1 DEF FoundOK
    <2>2. CASE p # r
        <3>1. FoundOK(p) /\ req'[p] = req[p] /\ credentials' = credentials
            BY <1>1, <1>3, <2>2, OwnedFacts
        <3> QED
            BY <3>1 DEF FoundOK
    <2> QED
        BY <2>1, <2>2
<1>7. OneCredential'
    BY <1>1 DEF Owned, OneCredential, CredentialOf
<1> QED
    BY <1>5, <1>6, <1>7 DEF Owned

(* The new account has no other credential, committed or about to be.        *)
LEMMA InsertCredentialOwned ==
    ASSUME Limited, Answerable, Owned, NEW r \in Requests, InsertCredential(r)
    PROVE  Owned'
<1>1. PICK c \in Contacts : /\ c = req[r].contact /\ credentials[c].by = None
                            /\ credentials[c].row = None
    BY ContactIsFree DEF InsertCredential, At
<1>2. PICK u \in Users : u = req[r].user /\ users[u].row = None /\ users[u].by = r
    BY OwnedFacts DEF InsertCredential, At, PlaceOK, MakingOK, Making
<1>3. ~Taken(r)
    BY <1>1, OwnedFacts, SignUpNull DEF Taken, Seen
<1>4. /\ credentials' = Put(credentials, c, r, u) /\ UNCHANGED users
      /\ req' = [req EXCEPT ![r].at = "find_subject"] /\ req[r].at = "insert_credential"
    BY <1>1, <1>2, <1>3 DEF InsertCredential, At, Goto
<1>5. /\ credentials'[c] = [row |-> None, next |-> u, by |-> r]
      /\ \A d \in Contacts \ {c} : credentials'[d] = credentials[d]
    BY <1>1, <1>4, OwnedFacts DEF Put
<1>6. /\ req'[r].at = "find_subject" /\ req'[r].user = u
      /\ \A p \in Requests \ {r} : req'[p] = req[p]
    BY <1>2, <1>4, HandlerAt DEF RequestState
<1>7. ASSUME NEW d \in Contacts, d # c
      PROVE  /\ InUse(d) /\ WriterOK(d) /\ ~CredentialOf(d, u)
             /\ credentials[d].by \in Requests \cup {None} /\ credentials[d].by # r
    <2>1. /\ InUse(d) /\ WriterOK(d) /\ credentials[d].by \in Requests \cup {None}
          /\ credentials[d].by # r
        BY <1>4, OwnedFacts, HoldsNone
    <2>2. credentials[d].row # u
        BY <1>2, <2>1, UserRows, SignUpNull DEF InUse
    <2>3. credentials[d].next # u
        BY <1>2, <2>1, <2>2, SignUpNull DEF WriterOK
    <2> QED
        BY <2>1, <2>2, <2>3 DEF CredentialOf
<1>8. OneCredential'
    <2>1. ASSUME NEW v \in Users, NEW d \in Contacts, CredentialOf(d, v)'
          PROVE  (d = c /\ v = u) \/ (d # c /\ v # u /\ CredentialOf(d, v))
        <3>1. CASE d = c
            BY <1>5, <2>1, <3>1, SignUpNull DEF CredentialOf
        <3>2. CASE d # c
            BY <1>5, <1>7, <2>1, <3>2 DEF CredentialOf
        <3> QED
            BY <3>1, <3>2
    <2>2. \A v \in Users : \A d, e \in Contacts :
              CredentialOf(d, v)' /\ CredentialOf(e, v)' => d = e
        BY <2>1 DEF Owned, OneCredential
    <2> QED
        BY <2>2 DEF OneCredential, CredentialOf
<1>9. ASSUME NEW d \in Contacts
      PROVE  InUse(d)' /\ WriterOK(d)'
    <2>1. CASE d = c
        <3>1. InUse(d)'
            BY <1>5, <2>1 DEF InUse
        <3>2. credentials'[d].by = r /\ credentials'[d].row = None /\ credentials'[d].next = u
            BY <1>5, <2>1
        <3>3. users'[u].row = None /\ users'[u].by = r
            BY <1>2, <1>4
        <3> QED
            BY <1>6, <3>1, <3>2, <3>3, SignUpNull DEF WriterOK
    <2>2. CASE d # c
        <3>1. credentials'[d] = credentials[d] /\ users' = users
            BY <1>4, <1>5, <2>2
        <3>2. credentials[d].by # None => req'[credentials[d].by] = req[credentials[d].by]
            BY <1>6, <1>7, <2>2
        <3> QED
            BY <1>7, <2>2, <3>1, <3>2 DEF InUse, WriterOK
    <2> QED
        BY <2>1, <2>2
<1>10. ASSUME NEW p \in Requests
       PROVE  FoundOK(p)'
    <2>1. CASE p = r
        BY <1>6, <2>1 DEF FoundOK
    <2>2. CASE p # r
        <3>1. FoundOK(p) /\ PlaceOK(req[p]) /\ req'[p] = req[p]
            BY <1>6, <2>2, OwnedFacts
        <3>2. req[p].at \in {"delete_credential", "retire"} =>
                  req[p].user \in Users /\ req[p].contact \in Contacts
            BY <3>1 DEF PlaceOK, Deleting
        <3>3. \A d \in Contacts : credentials'[d].row = credentials[d].row
            BY <1>1, <1>5
        <3>4. \A d \in Contacts : credentials[d].row \in Users => credentials'[d] = credentials[d]
            BY <1>1, <1>5, SignUpNull
        <3> QED
            BY <3>1, <3>2, <3>3, <3>4 DEF FoundOK
    <2> QED
        BY <2>1, <2>2
<1> QED
    BY <1>8, <1>9, <1>10 DEF Owned

(* The credential a deletion found is still the account's, for nobody else   *)
(* works on that account, and it is the only one.                            *)
LEMMA DeleteCredentialOwned ==
    ASSUME Limited, Answerable, Owned, NEW r \in Requests, DeleteCredential(r)
    PROVE  Owned'
<1>1. PICK c \in Contacts, u \in Users :
          c = req[r].contact /\ u = req[r].user /\ req[r].at = "delete_credential"
    BY OwnedFacts DEF DeleteCredential, At, PlaceOK, Deleting
<1>2. \A d \in Contacts : credentials[d].by # r
    BY <1>1, HoldsNone
<1>3. credentials[c].row = u /\ credentials[c].by = None /\ Seen(credentials, r)[c] = u
    <2>1. credentials[c].row = u
        BY <1>1, OwnedFacts DEF FoundOK
    <2>2. credentials[c].by = None
        BY <1>1, <1>2 DEF DeleteCredential, FreeFor
    <2> QED
        BY <1>2, <2>1, <2>2, OwnedFacts DEF Seen
<1>4. /\ credentials' = Put(credentials, c, r, None) /\ UNCHANGED users
      /\ req' = [req EXCEPT ![r].at = "retire"]
    BY <1>1, <1>3 DEF DeleteCredential, Goto
<1>5. /\ credentials'[c] = [row |-> u, next |-> None, by |-> r]
      /\ \A d \in Contacts \ {c} : credentials'[d] = credentials[d]
    BY <1>3, <1>4, OwnedFacts DEF Put
<1>6. /\ req'[r].at = "retire" /\ req'[r].user = u
      /\ \A p \in Requests \ {r} : req'[p] = req[p]
    BY <1>1, <1>4, HandlerAt DEF RequestState
<1>7. users[u].row = Active /\ users[u].by = None
    BY <1>3, OwnedFacts, SignUpNull DEF InUse
<1>8. OneCredential'
    <2>1. ASSUME NEW v \in Users, NEW d \in Contacts, CredentialOf(d, v)'
          PROVE  CredentialOf(d, v)
        BY <1>3, <1>5, <2>1, SignUpNull DEF CredentialOf
    <2> QED
        BY <2>1 DEF Owned, OneCredential
<1>9. ASSUME NEW d \in Contacts
      PROVE  InUse(d)' /\ WriterOK(d)'
    <2>1. InUse(d) /\ WriterOK(d) /\ credentials[d].by \in Requests \cup {None}
        BY OwnedFacts
    <2>2. CASE d = c
        BY <1>4, <1>5, <1>6, <1>7, <2>2, SignUpNull DEF InUse, WriterOK
    <2>3. CASE d # c
        BY <1>2, <1>4, <1>5, <1>6, <2>1, <2>3 DEF InUse, WriterOK
    <2> QED
        BY <2>2, <2>3
<1>10. ASSUME NEW p \in Requests
       PROVE  FoundOK(p)'
    <2>1. CASE p = r
        <3>1. ASSUME NEW d \in Contacts, credentials[d].row = u
              PROVE  d = c
            BY <1>3, <3>1 DEF Owned, OneCredential, CredentialOf
        <3>2. \A d \in Contacts : credentials'[d].row = u => d = c
            BY <1>5, <3>1
        <3> QED
            BY <1>5, <1>6, <2>1, <3>2 DEF FoundOK
    <2>2. CASE p # r
        <3>1. FoundOK(p) /\ PlaceOK(req[p]) /\ req'[p] = req[p]
            BY <1>6, <2>2, OwnedFacts
        <3>2. req[p].at \in {"delete_credential", "retire"} =>
                  req[p].user # u /\ req[p].contact \in Contacts
            BY <1>1, <2>2, <3>1, SignUpNull DEF PlaceOK, Deleting, Answerable, OwnersDiffer
        <3>3. \A d \in Contacts : credentials'[d].row = credentials[d].row
            BY <1>3, <1>5
        <3>4. \A d \in Contacts : credentials[d].row # u => credentials'[d] = credentials[d]
            BY <1>3, <1>5
        <3> QED
            BY <3>1, <3>2, <3>3, <3>4 DEF FoundOK
    <2> QED
        BY <2>1, <2>2
<1> QED
    BY <1>8, <1>9, <1>10 DEF Owned

LEMMA RetireOwned ==
    ASSUME Limited, Answerable, Owned, NEW r \in Requests, Retire(r)
    PROVE  Owned'
<1>1. PICK u \in Users : u = req[r].user /\ req[r].at = "retire"
    BY OwnedFacts DEF Retire, At, PlaceOK, Deleting
<1>2. PICK place \in {"reply", "failed"} :
          /\ req' = [req EXCEPT ![r].at = place] /\ UNCHANGED credentials
          /\ \/ place = "failed" /\ users' = users
             \/ \E row : users' = Put(users, u, r, row)
    BY <1>1 DEF Retire, Goto
<1>3. /\ req'[r].at = place /\ req'[r].user = u /\ \A p \in Requests \ {r} : req'[p] = req[p]
    BY <1>1, <1>2, HandlerAt DEF RequestState
<1>4. users[u].row = Active
    BY <1>1, OwnedFacts DEF MakingOK, Deleting
<1>5. /\ users'[u] = users[u] \/ (users'[u].row = Active /\ users'[u].by = r)
      /\ \A v \in Users \ {u} : users'[v] = users[v]
    BY <1>2, <1>4, OwnedFacts DEF Put
<1>6. OneCredential'
    BY <1>2 DEF Owned, OneCredential, CredentialOf
<1>7. ASSUME NEW c \in Contacts
      PROVE  InUse(c)' /\ WriterOK(c)'
    <2>1. /\ InUse(c) /\ WriterOK(c) /\ credentials[c].by \in Requests \cup {None}
          /\ credentials[c].row \in Users \cup {None} /\ FoundOK(r)
        BY OwnedFacts
    <2>2. InUse(c)'
        <3>1. CASE credentials[c].row = u
            <4>1. credentials[c].by = r /\ credentials[c].next = None
                BY <1>1, <2>1, <3>1 DEF FoundOK
            <4> QED
                BY <1>2, <1>4, <1>5, <2>1, <3>1, <4>1 DEF InUse
        <3>2. CASE credentials[c].row # u
            BY <1>2, <1>5, <2>1, <3>2 DEF InUse
        <3> QED
            BY <3>1, <3>2
    <2>3. credentials[c].by # None /\ credentials[c].row = None => credentials[c].next # u
        BY <1>4, <2>1, UserRows, SignUpNull DEF WriterOK
    <2>4. credentials[c].by # None =>
              /\ req'[credentials[c].by].user = req[credentials[c].by].user
              /\ req[credentials[c].by].at \in {"retire", "reply", "failed"} =>
                     req'[credentials[c].by].at \in {"retire", "reply", "failed"}
        BY <1>1, <1>3, <2>1
    <2>5. WriterOK(c)'
        BY <1>2, <1>5, <2>1, <2>3, <2>4 DEF WriterOK
    <2> QED
        BY <2>2, <2>5
<1>8. ASSUME NEW p \in Requests
      PROVE  FoundOK(p)'
    BY <1>2, <1>3, OwnedFacts DEF FoundOK
<1> QED
    BY <1>6, <1>7, <1>8 DEF Owned

(* The account and its credential end together.                              *)
LEMMA EndOwned ==
    ASSUME Limited, Answerable, Owned, NEW r \in Requests, CommitRequest(r) \/ Throw(r)
    PROVE  Owned'
<1>1. /\ req'[r] = Idle /\ \A p \in Requests \ {r} : req'[p] = req[p]
      /\ req[r].at \in {"reply", "failed"}
      /\ \A u \in Users :
            /\ users[u].by # r => users'[u] = users[u]
            /\ users[u].by = r =>
                  /\ users'[u].by = None
                  /\ users'[u].row = IF req[r].at = "reply" THEN users[u].next ELSE users[u].row
    BY RowsEnd DEF CommitRequest, Throw, At
<1>2. ASSUME NEW c \in Contacts
      PROVE  /\ credentials[c].by # r => credentials'[c] = credentials[c]
             /\ credentials[c].by = r =>
                   /\ credentials'[c].by = None /\ credentials'[c].next = credentials'[c].row
                   /\ credentials'[c].row = IF req[r].at = "reply" THEN credentials[c].next
                                                                  ELSE credentials[c].row
    <2>1. \/ req[r].at = "reply" /\ credentials' = Commit(credentials, r)
          \/ req[r].at = "failed" /\ credentials' = Rollback(credentials, r)
        BY DEF CommitRequest, Throw, At
    <2> QED
        BY <2>1, OwnedFacts DEF Commit, Rollback, Settled
<1>3. ASSUME NEW c \in Contacts
      PROVE  /\ InUse(c) /\ WriterOK(c) /\ credentials[c].by \in Requests \cup {None}
             /\ credentials[c].row \in Users \cup {None}
             /\ credentials[c].next \in Users \cup {None}
    BY OwnedFacts
<1>4. OneCredential'
    <2>1. ASSUME NEW u \in Users, NEW c \in Contacts, CredentialOf(c, u)'
          PROVE  CredentialOf(c, u)
        BY <1>2, <2>1 DEF CredentialOf
    <2> QED
        BY <2>1 DEF Owned, OneCredential
<1>5. ASSUME NEW c \in Contacts
      PROVE  InUse(c)'
    <2>1. CASE credentials[c].by = r /\ credentials[c].row = None
        <3>1. PICK u \in Users : /\ credentials[c].next = u /\ users[u].row = None
                                 /\ users[u].by = r
            BY <1>3, <2>1, SignUpNull DEF WriterOK
        <3>2. users[u].next = Active
            BY <3>1, OwnedFacts, UserRows, SignUpNull DEF RowOK
        <3> QED
            BY <1>1, <1>2, <2>1, <3>1, <3>2, SignUpNull DEF InUse
    <2>2. CASE credentials[c].by = r /\ credentials[c].row # None
        <3>1. PICK u \in Users : credentials[c].row = u /\ credentials[c].next = None
            BY <1>3, <2>2, SignUpNull DEF WriterOK
        <3>2. users[u].row = Active /\ users[u].by \in {None, r}
            BY <1>3, <2>2, <3>1 DEF InUse
        <3> QED
            BY <1>1, <1>2, <2>2, <3>1, <3>2, SignUpNull DEF InUse
    <2>3. CASE credentials[c].by # r
        <3>1. credentials[c].row # None => users[credentials[c].row].by # r
            BY <1>3, <2>3, SignUpNull DEF InUse
        <3> QED
            BY <1>1, <1>2, <1>3, <2>3, <3>1 DEF InUse
    <2> QED
        BY <2>1, <2>2, <2>3
<1>6. ASSUME NEW c \in Contacts
      PROVE  WriterOK(c)'
    <2>1. CASE credentials[c].by = r
        BY <1>2, <2>1, SignUpNull DEF WriterOK
    <2>2. CASE credentials[c].by # r
        BY <1>1, <1>2, <1>3, <2>2 DEF WriterOK
    <2> QED
        BY <2>1, <2>2
<1>7. ASSUME NEW p \in Requests
      PROVE  FoundOK(p)'
    <2>1. CASE p = r
        BY <1>1, <2>1 DEF FoundOK, Idle
    <2>2. CASE p # r
        <3>1. FoundOK(p) /\ PlaceOK(req[p]) /\ req'[p] = req[p]
            BY <1>1, <2>2, OwnedFacts
        <3>2. req[p].at \in {"delete_credential", "retire"} =>
                  /\ req[p].user \in Users /\ req[p].user # req[r].user
                  /\ req[p].contact \in Contacts
            BY <2>2, <3>1, SignUpNull DEF PlaceOK, Deleting, Answerable, OwnersDiffer
        <3>3. ASSUME NEW c \in Contacts, req[p].at \in {"delete_credential", "retire"},
                     req[p].user \in {credentials[c].row, credentials'[c].row}
              PROVE  credentials'[c] = credentials[c]
            BY <1>2, <1>3, <3>2, <3>3, SignUpNull DEF WriterOK
        <3>4. CASE req[p].at = "delete_credential"
            BY <3>1, <3>2, <3>3, <3>4 DEF FoundOK
        <3>5. CASE req[p].at = "retire"
            BY <3>1, <3>3, <3>5 DEF FoundOK
        <3> QED
            BY <3>1, <3>4, <3>5 DEF FoundOK
    <2> QED
        BY <2>1, <2>2
<1> QED
    BY <1>4, <1>5, <1>6, <1>7 DEF Owned

LEMMA OwnedStart == Init => Owned
<1> SUFFICES ASSUME Init PROVE Owned
    OBVIOUS
<1>1. /\ credentials = [c \in Contacts |-> Settled(None)] /\ req = [r \in Requests |-> Idle]
    BY DEF Init
<1>2. OneCredential
    BY <1>1, SignUpNull DEF OneCredential, CredentialOf, Settled
<1>3. \A c \in Contacts : InUse(c) /\ WriterOK(c)
    BY <1>1 DEF InUse, WriterOK, Settled
<1>4. \A r \in Requests : FoundOK(r)
    BY <1>1 DEF FoundOK, Idle
<1> QED
    BY <1>2, <1>3, <1>4 DEF Owned

LEMMA OwnedStep == Limited /\ Answerable /\ Owned /\ [Next]_vars => Owned'
<1> SUFFICES ASSUME Limited, Answerable, Owned, [Next]_vars PROVE Owned'
    OBVIOUS
<1>1. CASE \E r \in Requests :
              \/ \E c \in Contacts, a \in Addresses, born \in Births : BeginSignUp(r, c, a, born)
              \/ \E u \in Users : BeginDeletion(r, u)
    BY <1>1, EarlyOwned
<1>2. CASE \E r \in Requests : SignUpStep(r)
    BY <1>2, EarlyOwned, InsertUserOwned, InsertCredentialOwned, AnsweringOwned DEF SignUpStep
<1>3. CASE \E r \in Requests : DeletionStep(r) \/ CommitRequest(r) \/ Throw(r)
    BY <1>3, EarlyOwned, DeleteCredentialOwned, RetireOwned, EndOwned DEF DeletionStep
<1>4. CASE \/ UNCHANGED vars
           \/ \E u \in Users : OpenCase(u)
           \/ \E u \in Users, outcome \in {"dismiss", "ban"} : Decide(u, outcome)
           \/ \E h \in Households : HourPasses(h)
           \/ \E c \in Contacts : DayPasses(c)
    <2>1. UNCHANGED <<users, credentials, req>>
        BY <1>4 DEF vars, tables, OpenCase, Decide, HourPasses, DayPasses
    <2> QED
        BY <2>1 DEF Owned, OneCredential, CredentialOf, InUse, WriterOK, FoundOK
<1> QED
    BY <1>1, <1>2, <1>3, <1>4 DEF Next

(* No count passes its limit: past it they are told apart by nothing.        *)
Capped == \A k \in Keys : attempts[k] <= Limit(k)

LEMMA CappedStep == Limited /\ Capped /\ [Next]_vars => Capped'
<1> SUFFICES ASSUME Limited, Capped, [Next]_vars PROVE Capped'
    OBVIOUS
<1>1. attempts \in [Keys -> Nat] /\ \A k \in Keys : Limit(k) \in Nat
    BY SignUpAssumption DEF Limited, LimitTypes, Limit
<1>2. ASSUME NEW k \in Keys
      PROVE  attempts'[k] <= Limit(k)
    <2>1. \/ attempts' = attempts
          \/ \E r \in Requests : attempts' = Counted(r)
          \/ \E h \in Households :
                 attempts' = [j \in Keys |-> IF j \in HouseKeys(h) THEN 0 ELSE attempts[j]]
          \/ \E c \in Contacts : attempts' = [attempts EXCEPT ![c] = 0]
        BY DEF Next, vars, BeginSignUp, BeginDeletion, SignUpStep, DeletionStep, LockAddress,
               CountAddress, LockContact, FindCredential, CountContact, InsertUser,
               InsertCredential, FindSubject, Hold, FindContact, DeleteCredential, Retire,
               CommitRequest, Throw, OpenCase, Decide, HourPasses, DayPasses
    <2>2. attempts[k] <= Limit(k) /\ attempts[k] \in Nat /\ Limit(k) \in Nat
        BY <1>1 DEF Capped
    <2>3. CASE \E r \in Requests : attempts' = Counted(r)
        <3>1. PICK r \in Requests : attempts' = Counted(r)
            BY <2>3
        <3>2. attempts'[k] = IF k \in req[r].recorded /\ attempts[k] < Limit(k)
                               THEN attempts[k] + 1 ELSE attempts[k]
            BY <3>1 DEF Counted
        <3> QED
            BY <2>2, <3>2
    <2>4. CASE ~(\E r \in Requests : attempts' = Counted(r))
        BY <1>1, <2>1, <2>2, <2>4
    <2> QED
        BY <2>3, <2>4
<1> QED
    BY <1>2 DEF Capped, Limit

(* Every row, count, lock and handler value keeps its type, and a contact    *)
(* is never the credential of an account that was deleted: whoever signs up  *)
(* meanwhile, a deletion that commits took its account's one contact along.  *)
THEOREM SignUpTypeSafety == Spec => []TypeOK
<1>1. Init => Limited /\ Answerable /\ Owned /\ Capped
    <2>1. Init => Capped
        BY SignUpAssumption DEF Init, Capped, Limit
    <2> QED
        BY <2>1, LimitedStart, AnswerableStart, OwnedStart
<1>2. Limited /\ Answerable /\ Owned /\ Capped /\ [Next]_vars
          => (Limited /\ Answerable /\ Owned /\ Capped)'
    BY LimitedStep, AnswerableStep, OwnedStep, CappedStep
<1>3. Limited /\ Answerable /\ Owned /\ Capped => TypeOK
    <2> SUFFICES ASSUME Limited, Answerable, Owned, Capped PROVE TypeOK
        OBVIOUS
    <2>1. \A k \in Keys : attempts[k] \in 0..Limit(k)
        BY SignUpAssumption DEF Capped, Limit, Limited, LimitTypes
    <2>2. \A c \in Contacts : credentials[c].row # None => Stored(users)[credentials[c].row] = Active
        BY OwnedFacts DEF InUse, Stored
    <2> QED
        BY <2>1, <2>2 DEF TypeOK, Limited, LimitTypes, Answerable, UserTypes
<1> QED
    BY <1>1, <1>2, <1>3, PTL DEF Spec
=============================================================================
