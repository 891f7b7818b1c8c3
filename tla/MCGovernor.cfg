SPECIFICATION FairSpec
CONSTANTS
  opened = opened
  mention = mention
  alice = alice
  bob = bob
  p1 = p1
  w1 = w1
  w2 = w2
  NoKey = NoKey
  NoOwner = NoOwner
  Key = {opened, mention}
  Owner = {w1, w2}
  Actor = {alice, bob}
  Pull = {p1}
  ActorOf <- MCActorOf
  PullOf <- MCPullOf
  Mentions = {mention}
  Session = 1
  Daily = 2
  Weekly = 3
  Configs <- MCConfigs
  Comply = TRUE
  RecoveryPoints = 10
  Overruns = 1
  MaxRows = 3
  MaxTrips = 2
INVARIANTS TypeOK WindowsHold OneOpenReservation NoRecoveryWhileTripped KeepsItsPace
PROPERTIES ChargedOnce RefusalsEnd
