----------------------------- MODULE SignUpRules -----------------------------
(***************************************************************************)
(* The decisions of a sign-up that read no table: the age gate, what the   *)
(* request must carry, the key an address is counted under, and whether a  *)
(* person coming back on a deleted account's contact needs a review.       *)
(***************************************************************************)
EXTENDS Integers

-----------------------------------------------------------------------------
(* The age gate.  A date is a record of a year, a month and a day.            *)

AdultMinimumAge == 18

Earlier(d, e) ==
    \/ d.year < e.year
    \/ d.year = e.year /\ d.month < e.month
    \/ d.year = e.year /\ d.month = e.month /\ d.day < e.day

LeapYear(y) == (y % 4 = 0 /\ y % 100 # 0) \/ y % 400 = 0
DaysIn(y, m) ==
    IF m = 2 THEN IF LeapYear(y) THEN 29 ELSE 28
    ELSE IF m \in {4, 6, 9, 11} THEN 30 ELSE 31

Dates == {d \in [year : Nat, month : 1..12, day : 1..31] : d.day <= DaysIn(d.year, d.month)}

(* readDateOfBirth: a day that exists and is before today.                    *)
MayBeBorn(d, today) == d \in Dates /\ Earlier(d, today)

(* ageOn: Date.UTC reads the 29th of February of a common year as the 1st of  *)
(* March, which no day of that year separates from the 29th.                  *)
AgeOn(d, today) ==
    LET birthday == [d EXCEPT !.year = today.year]
        age == today.year - d.year - (IF Earlier(today, birthday) THEN 1 ELSE 0)
    IN IF Earlier(today, d) THEN 0 ELSE age

(* AGE_BANDS, by the youngest age of each.                                    *)
BandStarts == {18, 23, 28, 33, 38, 43, 48, 53, 58}
BandWidth == 5
InBand(age, start) == age >= start /\ (start = 58 \/ age < start + BandWidth)
AgeBandsFor(age) == {b \in BandStarts : InBand(age, b)}

(* evaluateAgeGate.                                                           *)
IsAdult(d, today) == AgeOn(d, today) >= AdultMinimumAge

-----------------------------------------------------------------------------
(* validateSignUp, after readSignUpInput: a submission is what of it is read. *)

Submissions == [born : Dates, contactUsable : BOOLEAN, domainAllowed : BOOLEAN,
                passwordFair : BOOLEAN, termsCurrent : BOOLEAN]

MayProceed(s, today) ==
    /\ s.contactUsable /\ s.domainAllowed
    /\ MayBeBorn(s.born, today) /\ IsAdult(s.born, today)
    /\ s.passwordFair /\ s.termsCurrent

-----------------------------------------------------------------------------
(* sourceKey: a v6 address is counted by its /64, a v4 one by itself, also    *)
(* where it comes wrapped in a v6 one; what is not an address is one key.     *)

AddressKinds == {"v4", "mapped_v4", "v6", "unreadable"}

SourceKey(a) ==
    IF a.kind = "unreadable" THEN <<"unknown_source">>
    ELSE IF a.kind = "v6" THEN <<"v6", a.net>>
    ELSE <<"v4", a.host>>

WithinLimit(seen, limit) == seen < limit

-----------------------------------------------------------------------------
(* reentryReviewFor, of a deleted subject or none.                            *)
ReviewRequired_BannedOnly(subject) ==           \* mutant: a case still open is forgotten
    subject.found /\ subject.standing = "banned"
ReviewRequired(subject) ==
    subject.found /\ (subject.standing = "banned" \/ subject.openCase)
=============================================================================
