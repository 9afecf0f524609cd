CONSTANTS
  Users = {1, 2}
  LikeIds = {l1, l2}
  PassIds = {p1}
  Requests = {r1, r2}
  Offered = {"like"}
  None = None
SPECIFICATION MCSpec
INVARIANT ReciprocalLikesMatch
