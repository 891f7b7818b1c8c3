----------------------------- MODULE MCGovernor -----------------------------
(***************************************************************************)
(* The governor over an opening trigger and a mention of one pull request, *)
(* by two actors, and two workers; windows of one, two and three ticks.    *)
(* The roomy section lets a day take two reviews, the tight one takes one  *)
(* and reviews nothing after a trip until the calibration recovers.        *)
(***************************************************************************)
EXTENDS Governor

CONSTANTS opened, mention, alice, bob, p1, w1, w2

MCActorOf == [k \in Key |-> IF k = opened THEN alice ELSE bob]

MCPullOf == [k \in Key |-> p1]

Roomy == [session |-> 5, daily |-> 6, weekly |-> 9, contributor |-> 5, maxRun |-> 2,
          enabled |-> TRUE, interval |-> 1, mentionInterval |-> 0, cap |-> 2]

Tight == [session |-> 2, daily |-> 3, weekly |-> 6, contributor |-> 3, maxRun |-> 2,
          enabled |-> TRUE, interval |-> 1, mentionInterval |-> 1, cap |-> 1]

MCConfigs == {Roomy, Tight}
=============================================================================
