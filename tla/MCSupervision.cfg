SPECIFICATION FairSpec
CONSTANTS
  Worker = {w1, w2}
  Nobody = Nobody
INVARIANTS TypeOK NothingLeaks OneGitWritesRefs OrderlyStop
PROPERTY StopEnds
