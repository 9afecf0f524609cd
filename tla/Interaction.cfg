CONSTANTS
  Users = {1, 2}
  LikeIds = {l1, l2}
  PassIds = {p1}
  Requests = {r1, r2}
  Offered = {"like", "pass", "block", "unmatch"}
  None = None
SPECIFICATION MCSpec
INVARIANTS TypeOK OneCurrentLike MatchIsMutual ChatAgreesWithMatch
  OverriddenPassIsSuperseded SerialMatchingRules
PROPERTIES NothingUnhappens KeepsPromise EveryRequestEnds
