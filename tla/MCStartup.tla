----------------------------- MODULE MCStartup ------------------------------
(* Two daemons, each an authority or a complier with one of two limits.    *)
EXTENDS Startup, TLC

CONSTANTS r1, r2

Alone    == [authority |-> TRUE, comply |-> TRUE, limits |-> 1]
Raised   == [authority |-> TRUE, comply |-> TRUE, limits |-> 2]
Follower == [authority |-> FALSE, comply |-> TRUE, limits |-> 2]
Escaped  == [authority |-> FALSE, comply |-> FALSE, limits |-> 2]

TwoRepos  == {r1, r2}
TwoLimits == {1, 2}
AllSections == {Alone, Raised, Follower, Escaped}
\* An upgrade by the last two migrations, each of which adds a column.
Upgrade == {2, 3}
\* A new file: a table, then a column.
Fresh == {2}
FewSections == {Alone, Follower}
NoLegacy == {}
BothStems == {"pull_requests", "comments"}
=============================================================================
