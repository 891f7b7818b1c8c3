SPECIFICATION Spec
CONSTANTS
  old = old
  new1 = new1
  new2 = new2
  c1 = c1
  c2 = c2
  Nothing = Nothing
  Pull = {old}
  Old = {old}
  Drafts = {}
  Comment = {c1, c2}
  Mentions = {c1, c2}
  PullOf <- MCPullOf
  SourceOf <- TwoSources
  MaxTime = 3
  MaxTouches = 0
  MaxUpsets = 0
INVARIANTS MentionsBelowWatermark
