SPECIFICATION FairSpec
CONSTANTS
  r1 = r1
  r2 = r2
  Nothing = Nothing
  Broken = Broken
  Repo <- TwoRepos
  Limits <- TwoLimits
  Latest = 2
  Adds <- Fresh
  Installed = 0
  Legacy <- NoLegacy
  Sections <- FewSections
  MaxEdits = 0
  MaxDeaths = 0
PROPERTY StartsConverge
CHECK_DEADLOCK FALSE
