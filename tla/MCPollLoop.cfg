SPECIFICATION Spec
CONSTANTS
  old = old
  new1 = new1
  new2 = new2
  c1 = c1
  c2 = c2
  Nothing = Nothing
  Pull = {old, new1, new2}
  Old = {old}
  Drafts = {new2}
  Comment = {c1, c2}
  Mentions = {c1}
  PullOf <- MCPullOf
  SourceOf <- OneSource
  MaxTime = 3
  MaxTouches = 1
  MaxUpsets = 1
INVARIANTS TypeOK OpeningsBelowWatermark MentionsBelowWatermark NoBacklog
