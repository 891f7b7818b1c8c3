SPECIFICATION FairSpec
CONSTANTS
  old = old
  new1 = new1
  new2 = new2
  c1 = c1
  c2 = c2
  Nothing = Nothing
  Pull = {old}
  Old = {old}
  Drafts = {}
  Comment = {c1, c2}
  Mentions = {c1, c2}
  PullOf <- MCPullOf
  SourceOf <- OneSource
  MaxTime = 3
  MaxTouches = 0
  MaxUpsets = 1
PROPERTIES MentionsAreSwept
