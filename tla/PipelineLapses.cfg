SPECIFICATION FairSpec
CONSTANTS
  opened = opened
  mention = mention
  postOpened = postOpened
  postMention = postMention
  p1 = p1
  s1 = s1
  s2 = s2
  review = review
  w1 = w1
  w2 = w2
  NoKey = NoKey
  NoOwner = NoOwner
  NoSha = NoSha
  Key <- MCKey
  Trigger = {opened}
  PubOf <- MCPubOf
  Owner = {w1, w2}
  Pull = {p1}
  Sha = {s1}
  Command = {review}
  PullOf <- MCPullOf
  KindOf <- MCKindOf
  CommandOf <- MCCommandOf
  ShaOf <- MCShaOf
  FirstHead = s1
  Lease = 1
  MaxAttempts = 2
  MaxPublishAttempts = 2
  PostSuperseded = TRUE
  Withholds = TRUE
  LiveLapse = TRUE
  MaxUpsets = 1
CHECK_DEADLOCK FALSE
INVARIANTS UnclaimedIsSettled EntitlementsAgree DrainsAreCounted
PROPERTIES EveryRowEnds
