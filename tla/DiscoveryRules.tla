--------------------------- MODULE DiscoveryRules ----------------------------
(***************************************************************************)
(* Who is shown to whom: the dating domain's deny-list in its order, the   *)
(* preferences it reads, and the readiness the service answers a member    *)
(* with.  A preference that is not expressed is None.                      *)
(*                                                                         *)
(* A subject is [user, identity, state, capabilities, visible, profile,    *)
(* age, genders, preferences]; a relationship is what stands between the   *)
(* viewer and the candidate when the page is read.                         *)
(***************************************************************************)
EXTENDS Integers, Sequences, SequencesExt, AccountMachine, IdentityMachine

CONSTANT None       \* null: not expressed, not known

-----------------------------------------------------------------------------
(* Distance *)

Bands == <<"lt_5_km", "5_25_km", "25_50_km", "50_100_km", "gt_100_km">>
FromKm == [lt_5_km |-> 0, gt_100_km |-> 100] @@ ("5_25_km" :> 5)
              @@ ("25_50_km" :> 25) @@ ("50_100_km" :> 50)
DistanceLimits == {5, 25, 50, 100}

(* A band is within a limit that its near edge fits.                          *)
IsWithinDistanceLimit(band, maxKm) ==
    maxKm = None \/ band = "unknown" \/ FromKm[band] <= maxKm

-----------------------------------------------------------------------------
(* Preferences *)

Genders == {"woman", "man", "non_binary", "self_described"}
UnsetPreferences == [ageRange |-> None, maxDistanceKm |-> None, seekingGenders |-> None,
                     openTo |-> None, locationPrecision |-> None]

MinAge == 18
MaxAge == 120
MinAgeRangeWidth == 5
DefaultPrecision == 2       \* PLATFORM_DEFAULT_LOCATION_PRECISION, in Bands

(* validatePreferences; a list of genders comes as a sequence.                *)
ValidAgeRange(range) ==
    /\ range.min >= MinAge /\ range.max <= MaxAge
    /\ range.max - range.min >= MinAgeRangeWidth
ValidGenders(list) == list # <<>> /\ ToSet(list) \subseteq Genders /\ IsInjective(list)
ValidPrecision(band) == \E i \in DefaultPrecision..Len(Bands) : Bands[i] = band
ValidPreferences(p) ==
    /\ p.ageRange # None => ValidAgeRange(p.ageRange)
    /\ p.maxDistanceKm # None => p.maxDistanceKm \in DistanceLimits
    /\ p.seekingGenders # None => ValidGenders(p.seekingGenders)
    /\ p.openTo # None => ValidGenders(p.openTo)
    /\ p.locationPrecision # None => ValidPrecision(p.locationPrecision)

(* preferencesFromRequest compares the names of the bands as strings, where   *)
(* "25_50_km" and "50_100_km" come before "5_25_km".                          *)
BandsByName == <<"25_50_km", "50_100_km", "5_25_km", "gt_100_km", "lt_5_km">>
NamedBefore(a, b) ==
    \E i, j \in DOMAIN BandsByName : i < j /\ BandsByName[i] = a /\ BandsByName[j] = b
AcceptsPreferences(p) ==
    /\ p.locationPrecision # None => ~NamedBefore(p.locationPrecision, Bands[DefaultPrecision])
    /\ ValidPreferences(p)

(* areMutuallyCompatible: a dimension excludes when both expressed it and     *)
(* either of them is outside what the other asked for.                        *)
Within(age, range) == age = None \/ (range.min <= age /\ age <= range.max)
AgeBreaks(a, b) ==
    /\ a.preferences.ageRange # None /\ b.preferences.ageRange # None
    /\ ~Within(b.age, a.preferences.ageRange) \/ ~Within(a.age, b.preferences.ageRange)

DistanceBreaks(a, b, distance) ==
    /\ distance # None
    /\ a.preferences.maxDistanceKm # None /\ b.preferences.maxDistanceKm # None
    /\ \/ ~IsWithinDistanceLimit(distance, a.preferences.maxDistanceKm)
       \/ ~IsWithinDistanceLimit(distance, b.preferences.maxDistanceKm)

Covers(list, genders) == ToSet(list) \cap genders # {}
GenderBreaks_OneSided(a, b) ==      \* mutant: one expressed side is enough
    \/ a.preferences.openTo # None /\ ~Covers(a.preferences.openTo, b.genders)
    \/ b.preferences.openTo # None /\ ~Covers(b.preferences.openTo, a.genders)
GenderBreaks(a, b) ==
    /\ a.preferences.openTo # None /\ b.preferences.openTo # None
    /\ \/ ~Covers(a.preferences.openTo, b.genders)
       \/ ~Covers(b.preferences.openTo, a.genders)

AreMutuallyCompatible(a, b, distance) ==
    ~AgeBreaks(a, b) /\ ~DistanceBreaks(a, b, distance) /\ ~GenderBreaks(a, b)

-----------------------------------------------------------------------------
(* Eligibility *)

(* The reasons not to show the candidate, safety before the relationship      *)
(* before the viewer's filters.                                               *)
StandingReasons(v, c) ==
    <<[reason |-> "viewer_identity_not_verified", applies |-> v.identity # "verified"],
      [reason |-> "viewer_lacks_discovery_capability",
       applies |-> "browse_discovery" \notin v.capabilities],
      [reason |-> "viewer_profile_not_complete", applies |-> v.profile # "complete"],
      [reason |-> "candidate_identity_not_verified", applies |-> c.identity # "verified"],
      [reason |-> "candidate_profile_not_complete", applies |-> c.profile # "complete"],
      [reason |-> "candidate_account_not_visible",
       applies |-> ~c.visible \/ "browse_discovery" \notin c.capabilities],
      [reason |-> "candidate_cannot_reciprocate", applies |-> "like" \notin c.capabilities]>>

RelationshipReasons(v, c, between) ==
    <<[reason |-> "blocked", applies |-> between.blocked],
      [reason |-> "self_view", applies |-> v.user = c.user],
      [reason |-> "already_passed", applies |-> between.passed],
      [reason |-> "already_liked", applies |-> between.liked],
      [reason |-> "already_matched", applies |-> between.matched]>>

FilterReasons(v, c, distance) ==
    <<[reason |-> "age_out_of_range",
       applies |-> v.preferences.ageRange # None /\ ~Within(c.age, v.preferences.ageRange)],
      [reason |-> "gender_out_of_scope",
       applies |-> /\ v.preferences.seekingGenders # None
                   /\ ~Covers(v.preferences.seekingGenders, c.genders)],
      [reason |-> "beyond_distance_limit",
       applies |-> ~IsWithinDistanceLimit(IF distance = None THEN "unknown" ELSE distance,
                                          v.preferences.maxDistanceKm)],
      [reason |-> "not_mutually_compatible", applies |-> ~AreMutuallyCompatible(v, c, distance)]>>

EligibilityReasons(v, c, between, distance) ==
    StandingReasons(v, c) \o RelationshipReasons(v, c, between) \o FilterReasons(v, c, distance)

EvaluateEligibility(v, c, between, distance) ==
    LET applying == SelectSeq(EligibilityReasons(v, c, between, distance), LAMBDA x : x.applies)
    IN  IF applying = <<>> THEN "eligible" ELSE Head(applying).reason

(* The route knows no distance, and a card needs an age.                      *)
IsShown(v, c, between) == EvaluateEligibility(v, c, between, None) = "eligible" /\ c.age # None

-----------------------------------------------------------------------------
(* Readiness *)

OnboardingOrder == <<"contact_verification", "age_gate", "terms", "identity_verification",
                     "profile", "preferences", "photo_screening">>

(* outstandingSteps: photo_screening is never one of them.                    *)
OutstandingSteps(facts) ==
    LET done == {step \in {"contact_verification", "age_gate", "terms", "preferences"} : facts[step]}
                \cup {step \in {"identity_verification"} : facts.identity = "verified"}
                \cup {step \in {"profile"} : facts.profile = "complete"}
                \cup {"photo_screening"}
    IN  SelectSeq(OnboardingOrder, LAMBDA step : step \notin done)

(* What readinessFor calls preferences that are set.                          *)
PreferencesSet(p) == p.ageRange # None \/ p.maxDistanceKm # None

(* What readinessFor tells a member about being in discovery.                 *)
IsDiscoverable(facts) ==
    /\ IsDiscoverableIdentity(facts.identity) /\ facts.account = "active"
    /\ facts.profile = "complete" /\ facts.preferences
=============================================================================
