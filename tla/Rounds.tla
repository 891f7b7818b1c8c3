------------------------------- MODULE Rounds -------------------------------
(***************************************************************************)
(* The rounds of one pull request: what each of them is shown              *)
(* (Workspace.checkout, workspace/since.py), what it remembers for the     *)
(* next (runs.py), and the numbers of its findings (numbering.py).         *)
(*                                                                         *)
(* The queue lets one round run at a time.  Between its steps the          *)
(* contributor pushes, amends and rebases.                                 *)
(*                                                                         *)
(* A tree is the set of its lines.  A commit is the upstream commit it     *)
(* stands on and the contributor's own lines; upstream has a line per      *)
(* commit and its history is a line.  What may make a round full without   *)
(* a reason that is modelled (thresholds, a conflict, a git too old) is a  *)
(* free choice.                                                            *)
(***************************************************************************)
EXTENDS Integers, Sequences, SequencesExt

CONSTANTS
  Line,            \* what the contributor may write
  MaxBase,         \* upstream's commits, all there from the start
  Triggers,        \* the triggers, oldest first: 1 .. Triggers
  Scopes,          \* bounds that go together: pushes, findings of a round,
                   \* the lines budget.excluded_paths may cover on each reload,
                   \* and the triggers that ask for a description
  MaxUpsets,       \* rounds that fail or die, and posts that do
  Nothing          \* no number, no commit to start from

VARIABLES
  scope,           \* one of Scopes, from the start
  head,            \* the head of the pull request
  runs,            \* table runs, by its key: what each trigger recorded
  owed,            \* the triggers whose run a publication item is to post
  done,            \* the triggers that are done with
  round,           \* the round under way
  read, withheld,  \* bookkeeping: lines that completed rounds were shown or not
  missed,          \* bookkeeping: lines gone between the facts and the fetch
  posted,          \* bookkeeping: the numbers on the pull request, and
  replaced,        \* those of a record that a retry replaced
  upsets           \* bookkeeping: bounds what goes wrong

lines   == <<read, withheld, missed>>
numbers == <<posted, replaced>>
history == <<lines, numbers>>
table   == <<runs, owed>>
vars    == <<scope, head, table, done, round, history, upsets>>

Trigger == 1 .. Triggers
Commit == [n : Nat, base : 0 .. MaxBase, own : SUBSET Line]
Number == Nat \ {0}

BoundsAssumption ==
  /\ MaxBase \in Nat /\ Triggers \in Nat /\ MaxUpsets \in Nat
  /\ Scopes \subseteq [pushes : Nat, findings : Nat, exclusions : SUBSET SUBSET Line,
                       describes : SUBSET Trigger]
  /\ (0 .. MaxBase) \cap Line = {}
ASSUME BoundsAssumption

Upstream(base) == 1 .. base
Tree(c) == Upstream(c.base) \cup c.own

Idle == [pc |-> "idle"]
At(place) == round.pc = place

-----------------------------------------------------------------------------
(* What the contributor does.                                              *)

Pushed(own, base) ==
  /\ head.n < scope.pushes
  /\ head' = [n |-> head.n + 1, base |-> base, own |-> own]
  /\ UNCHANGED <<scope, table, done, round, history, upsets>>

\* A commit, an amendment or a squash: lines are written and taken back.
Push == \E own \in SUBSET Line : Pushed(own, head.base)

\* The same changes on another upstream commit, by rebase or by merge.
Rebase == \E base \in 0 .. MaxBase : base # head.base /\ Pushed(head.own, base)

-----------------------------------------------------------------------------
(* RunStore.history.                                                       *)

Largest(S) == CHOOSE n \in S \cup {0} : \A m \in S : m <= n

\* Fault: a description counts as a round.
AnyRun == DOMAIN runs

\* Every completed round, without the descriptions.
Rounds == {t \in DOMAIN runs : ~runs[t].describes}

\* The one recorded last.
Newest == CHOOSE t \in Rounds : \A u \in Rounds : runs[u].at <= runs[t].at

Findings(t) == ToSet(runs[t].findings)
Issued == {f.number : f \in UNION {Findings(t) : t \in Rounds}}
\* Fault: the largest number of the last round.
LastWater ==
  Largest(IF Rounds = {} THEN {} ELSE {f.number : f \in Findings(Newest)})

HighWater == Largest(Issued)

NoHistory == [since |-> Nothing, prior |-> <<>>, high |-> 0]
History ==
  IF Rounds = {} THEN NoHistory
  ELSE [since |-> runs[Newest].head, prior |-> runs[Newest].findings, high |-> HighWater]

-----------------------------------------------------------------------------
(* A round: ReviewWorker._attempt and Workspace.checkout.                  *)

Oldest == CHOOSE t \in Trigger \ done : \A u \in Trigger \ done : t <= u

\* The head the API reports, and the history.  A description is shown none.
Start ==
  /\ At("idle")
  /\ done # Trigger
  /\ round' = [pc |-> "fetch", trigger |-> Oldest, facts |-> head,
               past |-> IF Oldest \in scope.describes THEN NoHistory ELSE History]
  /\ UNCHANGED <<scope, head, table, done, history, upsets>>

\* Fault: a rebased branch is compared with the old head as it was.
ReplayNothing(onto, since) == Tree(since) \ Upstream(onto - onto)

\* git merge-tree: a three-way merge over the older of the two bases.
Replay(onto, since) ==
  LET ancestor == Upstream(onto) \cap Upstream(since.base)
  IN (Upstream(onto) \cap Tree(since)) \cup ((Upstream(onto) \cup Tree(since)) \ ancestor)

\* diff_start: the tree an incremental diff starts from, or that of the merge
\* base.  A head that has not moved since is reviewed in full.
StartOf(since, fetched) ==
  IF since = Nothing \/ since = fetched THEN Upstream(fetched.base)
  ELSE IF since.base = fetched.base THEN Tree(since)
  ELSE Replay(fetched.base, since)

\* The fetched head may be newer than the one of the facts.  The merge base is
\* the fetched head's.  A refusal for its size ends the trigger.
Fetch ==
  /\ At("fetch")
  /\ \E from \in {StartOf(round.past.since, head), Upstream(head.base)}, excluded \in scope.exclusions :
       round' = [pc |-> "engine", trigger |-> round.trigger, facts |-> round.facts,
                 past |-> round.past, fetched |-> head,
                 from |-> from, excluded |-> excluded]
  /\ UNCHANGED <<scope, head, table, done, history, upsets>>

Refuse ==
  /\ At("engine")
  /\ round' = Idle
  /\ done' = done \cup {round.trigger}
  /\ UNCHANGED <<scope, head, table, history, upsets>>

Added   == Tree(round.fetched) \ round.from
Removed == round.from \ Tree(round.fetched)
Shown   == Added \ round.excluded

-----------------------------------------------------------------------------
(* What the engine answers, and what is kept of it.                        *)

\* numbering.assign: a number is kept if it was issued here and no earlier
\* finding claims it, and every other finding gets the next one.
Keeps(findings, high, i) ==
  /\ findings[i].number # Nothing
  /\ findings[i].number \in 1 .. high
  /\ \A j \in 1 .. i - 1 : findings[j].number # findings[i].number

\* Fault: a number that was never issued is taken at its word.
assignUnnumbered(findings, high) ==
  [i \in DOMAIN findings |->
    [line |-> findings[i].line,
     number |-> IF findings[i].number = Nothing THEN high ELSE findings[i].number]]

assign(findings, high) ==
  [i \in DOMAIN findings |->
    [line |-> findings[i].line,
     number |-> IF Keeps(findings, high, i) THEN findings[i].number
                ELSE high + Cardinality({j \in 1 .. i : ~Keeps(findings, high, j)})]]

\* The engine says something of lines it was shown, and again of those the
\* last round said something of; a number it carries is that of the line.
Carried(line) ==
  {f.number : f \in {g \in ToSet(round.past.prior) : g.line = line}}
Claims(line) == Carried(line) \cup {Nothing}
Reports ==
  {findings \in UNION {[1 .. n -> [line : Shown \cup {f.line : f \in ToSet(round.past.prior)},
                                   number : Issued \cup {Nothing}]] : n \in 0 .. scope.findings} :
     /\ \A i \in DOMAIN findings : findings[i].number \in Claims(findings[i].line)
     /\ \A i, j \in DOMAIN findings : findings[i].line = findings[j].line => i = j}

\* RunStore.record: a row under the key of an earlier attempt is replaced, and
\* is the newest again: of recorded_at only the order counts.  The head it
\* names is the one of the facts.
Others == DOMAIN runs \ {round.trigger}
Now == Largest({runs[t].at : t \in Others}) + 1
Row(findings) ==
  [head |-> round.facts, findings |-> findings, at |-> Now,
   describes |-> round.trigger \in scope.describes]
Recorded(findings) ==
  [t \in Others \cup {round.trigger} |->
     IF t = round.trigger THEN Row(findings) ELSE runs[t]]
Replaced == IF round.trigger \in DOMAIN runs THEN Findings(round.trigger) ELSE {}

Record ==
  /\ At("engine")
  /\ \E report \in IF round.trigger \in scope.describes THEN {<<>>} ELSE Reports :
       LET findings == assign(report, round.past.high) IN
       /\ runs' = Recorded(findings)
       /\ replaced' = replaced \cup (Replaced \ ToSet(findings))
  /\ IF round.trigger \in scope.describes
       THEN UNCHANGED lines
       ELSE /\ read' = read \cup Shown
            /\ withheld' = withheld \cup (Added \cap round.excluded)
            /\ missed' = missed \cup (round.facts.own \ round.fetched.own)
  /\ round' = [pc |-> "post", trigger |-> round.trigger]
  /\ UNCHANGED <<scope, head, owed, done, posted, upsets>>

\* What is posted carries the recorded numbers.
Posts(t) == posted' = posted \cup Findings(t)

Post ==
  /\ At("post")
  /\ Posts(round.trigger)
  /\ round' = [pc |-> "close", trigger |-> round.trigger]
  /\ UNCHANGED <<scope, head, table, done, lines, replaced, upsets>>

\* A post that fails leaves a publication item, and the row is done with.  A
\* review of an old head may be dropped instead.
PostFails ==
  /\ At("post")
  /\ upsets < MaxUpsets
  /\ upsets' = upsets + 1
  /\ owed' \in {owed, owed \cup {round.trigger}}
  /\ round' = [pc |-> "close", trigger |-> round.trigger]
  /\ UNCHANGED <<scope, head, runs, done, history>>

PostLate ==
  \E t \in owed :
    /\ Posts(t)
    /\ owed' = owed \ {t}
    /\ UNCHANGED <<scope, head, runs, done, round, lines, replaced, upsets>>

Close ==
  /\ At("close")
  /\ round' = Idle
  /\ done' = done \cup {round.trigger}
  /\ UNCHANGED <<scope, head, table, history, upsets>>

\* A failure, or a death: the trigger is offered again.
Fail ==
  /\ ~At("idle")
  /\ upsets < MaxUpsets
  /\ upsets' = upsets + 1
  /\ round' = Idle
  /\ UNCHANGED <<scope, head, table, done, history>>

-----------------------------------------------------------------------------
Init ==
  /\ \E own \in SUBSET Line : head = [n |-> 0, base |-> 0, own |-> own]
  /\ scope \in Scopes
  /\ runs = <<>> /\ owed = {} /\ done = {}
  /\ round = Idle
  /\ read = {} /\ withheld = {} /\ missed = {} /\ posted = {} /\ replaced = {}
  /\ upsets = 0

Next ==
  \/ Push \/ Rebase
  \/ Start \/ Fetch \/ Refuse \/ Record
  \/ Post \/ PostFails \/ PostLate \/ Close \/ Fail

Spec == Init /\ [][Next]_vars

-----------------------------------------------------------------------------
Finding == [line : Line, number : Number]

TypeOK ==
  /\ head \in Commit
  /\ DOMAIN runs \subseteq Trigger
  /\ \A t \in DOMAIN runs :
       /\ runs[t].head \in Commit
       /\ Findings(t) \subseteq Finding
       /\ runs[t].at \in Nat
       /\ \A u \in DOMAIN runs : runs[t].at = runs[u].at => t = u
  /\ owed \subseteq DOMAIN runs
  /\ scope \in Scopes /\ done \subseteq Trigger
  /\ round.pc \in {"idle", "fetch", "engine", "post", "close"}
  /\ read \subseteq Line /\ withheld \subseteq Line /\ missed \subseteq Line
  /\ posted \subseteq Finding /\ replaced \subseteq Finding
  /\ upsets \in 0 .. MaxUpsets

\* However its branch was amended, squashed, rebased and reviewed in part: of
\* the commit a completed round is recorded under, every line the contributor
\* wrote was shown to some completed round, or named as withheld.  The one
\* exception is a line taken back between the facts of a round and its fetch.
EveryLineIsRead ==
  \A t \in Rounds : runs[t].head.own \subseteq read \cup withheld \cup missed

\* A round is shown nothing that is upstream's: not what a rebase brought
\* along, and as removed only what a rebase to an older base left behind.
NothingUpstreamIsShown ==
  At("engine") =>
    /\ Added \subseteq Line
    /\ \/ Removed \subseteq Line
       \/ round.past.since.base > round.fetched.base

\* A number stands for one line for the life of the pull request, whatever was
\* fixed, dropped, posted late or tried again in between.  The one exception
\* is a number of a record that was replaced, by a round that died after it.
NumbersMeanOneThing ==
  \A f, g \in posted \ replaced : f.number = g.number => f.line = g.line

=============================================================================
