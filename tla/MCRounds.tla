------------------------------ MODULE MCRounds ------------------------------
(* Three triggers and two lines.                                           *)
EXTENDS Rounds, TLC

CONSTANTS x, y

Lines == {x, y}
\* Many pushes, and an engine that says nothing: what a round is shown.
Pushing(described) ==
  [pushes |-> 3, findings |-> 0, exclusions |-> {{}, Lines}, describes |-> described]
\* One push, and an engine that says much: the numbers.
Talking == [pushes |-> 1, findings |-> 2, exclusions |-> {{}}, describes |-> {}]

AllScopes == {Pushing({}), Pushing({2}), Talking}
Symmetric == Permutations(Lines)
=============================================================================
