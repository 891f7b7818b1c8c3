----------------------------- MODULE MCPollLoop -----------------------------
(* Instances of PollLoop: an old pull request with the comments, new ones. *)
EXTENDS PollLoop

CONSTANTS old, new1, new2, c1, c2

MCPullOf == [c \in Comment |-> old]

\* All comments on the conversation, or one of them on the diff.
OneSource  == [c \in Comment |-> "issue_comments"]
TwoSources == [c \in Comment |->
                 IF c = c1 THEN "issue_comments" ELSE "review_comments"]
=============================================================================
