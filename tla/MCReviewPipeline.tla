------------------------- MODULE MCReviewPipeline -------------------------
(***************************************************************************)
(* The pipeline on one pull request with an opening trigger and, where the *)
(* configuration has it, a mention; the publication items of both; and two *)
(* workers.                                                                *)
(***************************************************************************)
EXTENDS ReviewPipeline, TLC

CONSTANTS opened, mention, postOpened, postMention, p1, s1, s2, review, w1, w2

MCPubOf == [t \in Trigger |-> IF t = opened THEN postOpened ELSE postMention]

MCKey == Trigger \cup {MCPubOf[t] : t \in Trigger}

MCPullOf == [k \in MCKey |-> p1]

MCKindOf ==
  [k \in MCKey |-> CASE k = opened -> "pr_opened"
                     [] k = mention -> "mention"
                     [] OTHER -> "publish"]

MCCommandOf == [k \in MCKey |-> review]

MCShaOf == [k \in MCKey |-> IF k = opened THEN s1 ELSE NoSha]

Workers == Permutations({w1, w2})

\* What the steps read, and what FoldedIsAnswered does: the counters are written
\* only, of comments it asks whether there is one, and states that differ in
\* nothing else have the same successors.
FoldView ==
  <<rows, lastRow, claims, open, runs, work, head, asked, foldedBy, upsets,
    {t \in Trigger : comments[t] > 0}>>
=============================================================================
