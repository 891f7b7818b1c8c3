SPECIFICATION Spec
CONSTANTS
  opened = opened
  mention = mention
  postOpened = postOpened
  postMention = postMention
  p1 = p1
  s1 = s1
  s2 = s2
  review = review
  w1 = w1
  w2 = w2
  NoKey = NoKey
  NoOwner = NoOwner
  NoSha = NoSha
  Key <- MCKey
  Trigger = {opened}
  PubOf <- MCPubOf
  Owner = {w1, w2}
  Pull = {p1}
  Sha = {s1, s2}
  Command = {review}
  PullOf <- MCPullOf
  KindOf <- MCKindOf
  CommandOf <- MCCommandOf
  ShaOf <- MCShaOf
  FirstHead = s1
  Lease = 1
  MaxAttempts = 3
  MaxPublishAttempts = 4
  PostSuperseded = FALSE
  Withholds = FALSE
  LiveLapse = FALSE
  MaxUpsets = 3
SYMMETRY Workers
CHECK_DEADLOCK FALSE
INVARIANTS TypeOK PostedOnce DoneIsAnswered
PROPERTIES DrivesTheQueue
