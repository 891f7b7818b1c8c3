SPECIFICATION FairSpec
CONSTANTS
  r1 = r1
  r2 = r2
  Nothing = Nothing
  Broken = Broken
  Repo <- TwoRepos
  Limits <- TwoLimits
  Latest = 3
  Adds <- Upgrade
  Installed = 1
  Legacy <- BothStems
  Sections <- AllSections
  MaxEdits = 2
  MaxDeaths = 1
INVARIANTS TypeOK SchemaIsCounted PoolIsGoverned LegacyGoesToOne
PROPERTY StartsConverge
CHECK_DEADLOCK FALSE
