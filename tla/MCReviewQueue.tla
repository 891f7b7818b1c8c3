--------------------------- MODULE MCReviewQueue ---------------------------
(***************************************************************************)
(* The queue on a pull request with an opening trigger and a mention, and  *)
(* another pull request with a publication item; two workers, leases of    *)
(* two ticks, two counted attempts.                                        *)
(***************************************************************************)
EXTENDS ReviewQueue, TLC

CONSTANTS opened, mention, posting, p1, p2, s1, s2, review, w1, w2

MCKey == {opened, mention, posting}

MCPullOf == [k \in MCKey |-> IF k = posting THEN p2 ELSE p1]

MCKindOf ==
  [k \in MCKey |-> CASE k = opened -> "pr_opened"
                     [] k = posting -> "publish"
                     [] OTHER -> "mention"]

MCCommandOf == [k \in MCKey |-> review]

MCShaOf == [k \in MCKey |-> IF k \in {opened, posting} THEN s1 ELSE NoSha]

Workers == Permutations({w1, w2})
=============================================================================
