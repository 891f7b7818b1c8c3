SPECIFICATION Spec
CONSTANTS
  opened = opened
  mention = mention
  posting = posting
  p1 = p1
  p2 = p2
  s1 = s1
  s2 = s2
  review = review
  w1 = w1
  w2 = w2
  NoKey = NoKey
  NoOwner = NoOwner
  NoSha = NoSha
  Key <- MCKey
  Owner = {w1, w2}
  Pull = {p1, p2}
  Sha = {s1, s2}
  Command = {review}
  PullOf <- MCPullOf
  KindOf <- MCKindOf
  CommandOf <- MCCommandOf
  ShaOf <- MCShaOf
  Lease = 2
  MaxAttempts = 2
SYMMETRY Workers
INVARIANTS TypeOK OneLiveLeasePerPull ClaimIsCounted
PROPERTIES NoTheft ClosedForGood LeasePromise
