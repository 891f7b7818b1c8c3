---------------------------- MODULE Rounds_proofs ----------------------------
(***************************************************************************)
(* Proofs about the rounds of one pull request, for any lines, upstream    *)
(* commits, triggers, pushes, findings and upsets.                         *)
(***************************************************************************)
EXTENDS Rounds, FiniteSetTheorems, WellFoundedInduction, TLAPS

-----------------------------------------------------------------------------
(* The inductive invariant.                                                *)

Underway == round.pc \in {"fetch", "engine"}
Seen == read \cup withheld \cup missed

\* What a round under way has read is what there was.
RoundOK ==
  /\ Underway =>
       /\ round.trigger \in Trigger
       /\ round.facts \in Commit
       /\ round.past.since \in Commit \cup {Nothing}
       /\ round.past.high \in Nat
  /\ At("engine") => round.fetched \in Commit
  /\ round.pc \in {"post", "close"} => round.trigger \in DOMAIN runs

\* Times and numbers are bounded, so there is a newest row and a largest number.
Limit(b) ==
  \A t \in DOMAIN runs :
    /\ runs[t].at <= b
    /\ \A f \in Findings(t) : f.number <= b
Bounded == \E b \in Nat : Limit(b)

Shape == TypeOK /\ RoundOK /\ Bounded

\* What an incremental round starts from has been seen before.
SinceIsSeen ==
  /\ Underway /\ round.past.since # Nothing => round.past.since.own \subseteq Seen
  /\ At("engine") => round.from \cap Line \subseteq Seen

AllFindings == UNION {Findings(t) : t \in DOMAIN runs}

\* The findings on record agree on what a number means, and a round knows the
\* largest of them.
RecordsAgree ==
  /\ \A f, g \in AllFindings : f.number = g.number => f.line = g.line
  /\ \A t \in DOMAIN runs : runs[t].describes => Findings(t) = {}
  /\ posted \subseteq AllFindings \cup replaced
  /\ Underway /\ round.trigger \notin scope.describes =>
       /\ ToSet(round.past.prior) \subseteq AllFindings
       /\ \A f \in AllFindings : f.number <= round.past.high

Inv ==
  /\ Shape
  /\ EveryLineIsRead /\ NothingUpstreamIsShown /\ SinceIsSeen
  /\ RecordsAgree

-----------------------------------------------------------------------------
(* Sets of numbers.                                                        *)

\* A set of numbers that is not empty has a least one.
LEMMA Least ==
  ASSUME NEW S \in SUBSET Nat, S # {}
  PROVE  \E n \in S : \A m \in S : n <= m
<1> DEFINE Before == OpToRel(<, Nat)
<1>1. IsWellFoundedOn(Before, Nat) BY NatLessThanWellFounded
<1>2. \A m, n \in Nat : m < n => <<m, n>> \in Before BY DEF OpToRel
<1> HIDE DEF Before
<1>3. PICK n \in S : \A m \in S : <<m, n>> \notin Before BY <1>1, WFMin
<1>4. \A m \in S : ~ (m < n) BY <1>2, <1>3, Zenon
<1> QED BY <1>4

\* One that has a bound has a largest one, unless it is empty.
LEMMA Greatest ==
  ASSUME NEW S \in SUBSET Nat, NEW b \in Nat, \A m \in S : m <= b
  PROVE  \E n \in S \cup {0} : \A m \in S : m <= n
<1> DEFINE B == {c \in Nat : \A m \in S : m <= c}
<1>1. PICK c \in B : \A d \in B : c <= d
  <2>1. B \in SUBSET Nat /\ b \in B OBVIOUS
  <2> HIDE DEF B
  <2> QED BY <2>1, Least
<1>2. CASE c = 0 BY <1>1, <1>2
<1>3. CASE c # 0
  <2>1. c - 1 \in Nat /\ c - 1 \notin B BY <1>1, <1>3
  <2>2. PICK m \in S : ~(m <= c - 1) BY <2>1
  <2>3. m = c BY <2>2, <1>1
  <2> QED BY <2>3, <1>1
<1> QED BY <1>2, <1>3

\* Largest is what its name says.
LEMMA LargestIs ==
  ASSUME NEW S \in SUBSET Nat, NEW b \in Nat, \A m \in S : m <= b
  PROVE  /\ Largest(S) \in S \cup {0} /\ Largest(S) \in Nat
         /\ Largest(S) <= b
         /\ \A m \in S : m <= Largest(S)
<1> DEFINE n == Largest(S)
<1>1. \E k \in S \cup {0} : \A m \in S : m <= k BY Greatest
<1>2. n \in S \cup {0} /\ \A m \in S : m <= n BY <1>1, Zenon DEF Largest
<1> HIDE DEF n
<1>3. n \in S \cup {0} /\ n \in Nat /\ n <= b /\ \A m \in S : m <= n BY <1>2
<1> QED BY <1>3 DEF n

-----------------------------------------------------------------------------
(* The operators of a round.                                               *)

\* What stands in a tree that is not upstream's is the contributor's.
LEMMA TreesAre ==
  ASSUME NEW c \in Commit
  PROVE  /\ Tree(c) \cap Line = c.own
         /\ Upstream(c.base) \cap Line = {}
         /\ c.base \in 0 .. MaxBase /\ c.own \subseteq Line
<1>1. c.base \in 0 .. MaxBase /\ c.own \subseteq Line BY DEF Commit
<1>2. (0 .. MaxBase) \cap Line = {} /\ MaxBase \in Nat
  BY BoundsAssumption DEF BoundsAssumption
<1>3. \A b \in 0 .. MaxBase : 1 .. b \subseteq 0 .. MaxBase BY <1>2
<1>4. Upstream(c.base) \cap Line = {}
  BY <1>1, <1>2, <1>3, Zenon DEF Upstream
<1> QED BY <1>1, <1>4 DEF Tree

\* A round starts from a tree that has all of upstream's lines that the fetched
\* head has, and more only after a rebase to an older base; and its lines of the
\* contributor's are those of the commit it starts from.
LEMMA StartIs ==
  ASSUME NEW since \in Commit \cup {Nothing}, NEW fetched \in Commit,
         NEW from \in {StartOf(since, fetched), Upstream(fetched.base)}
  PROVE  /\ Tree(fetched) \ from \subseteq Line
         /\ \/ from \ Tree(fetched) \subseteq Line
            \/ since.base > fetched.base
         /\ \/ from \cap Line = {}
            \/ since # Nothing /\ from \cap Line \subseteq since.own
<1>1. /\ fetched.base \in 0 .. MaxBase /\ fetched.own \subseteq Line
      /\ Upstream(fetched.base) \cap Line = {}
  BY TreesAre
<1>2. CASE from = Upstream(fetched.base)
  BY <1>1, <1>2 DEF Tree
<1>3. CASE from # Upstream(fetched.base)
  <2>1. from = StartOf(since, fetched) BY <1>3
  <2>2. since # Nothing /\ since \in Commit BY <2>1, <1>3 DEF StartOf
  <2>3. /\ since.base \in 0 .. MaxBase /\ since.own \subseteq Line
        /\ Upstream(since.base) \cap Line = {}
    BY <2>2, TreesAre
  <2>4. CASE since.base = fetched.base
    <3>1. from = Tree(since) BY <1>3, <2>1, <2>2, <2>4 DEF StartOf
    <3> QED BY <3>1, <2>2, <2>3, <2>4, <1>1 DEF Tree
  <2>5. CASE since.base # fetched.base
    <3>1. from = Replay(fetched.base, since) BY <1>3, <2>1, <2>2, <2>5 DEF StartOf
    <3>2. Upstream(fetched.base) \subseteq from BY <3>1 DEF Replay, Tree
    <3>3. from \subseteq Upstream(fetched.base) \cup Tree(since)
      BY <3>1 DEF Replay
    <3>4. from \cap Line \subseteq since.own BY <3>3, <1>1, <2>3 DEF Tree
    <3>5. since.base <= fetched.base => Upstream(since.base) \subseteq Upstream(fetched.base)
      BY <1>1, <2>3, BoundsAssumption DEF BoundsAssumption, Upstream
    <3>6. from \ Tree(fetched) \subseteq Line \/ since.base > fetched.base
      <4>1. CASE since.base <= fetched.base
        BY <4>1, <3>3, <3>5, <2>3 DEF Tree
      <4>2. CASE ~(since.base <= fetched.base)
        BY <4>2, <1>1, <2>3, BoundsAssumption DEF BoundsAssumption
      <4> QED BY <4>1, <4>2
    <3> QED BY <3>2, <3>4, <3>6, <2>2, <1>1 DEF Tree
  <2> QED BY <2>4, <2>5
<1> QED BY <1>2, <1>3

\* A finding keeps its line and, if it keeps its number, that; and the new
\* numbers are above the high-water mark, each greater than the one before it.
LEMMA AssignIs ==
  ASSUME NEW n \in Nat, NEW high \in Nat, NEW report, DOMAIN report = 1 .. n
  PROVE  LET findings == assign(report, high)
             keeps(i) == Keeps(report, high, i)
         IN /\ DOMAIN findings = 1 .. n
            /\ \A i \in 1 .. n :
                 /\ findings[i].line = report[i].line
                 /\ findings[i].number \in Number
                 /\ findings[i].number <= high + n
                 /\ keeps(i) => findings[i].number = report[i].number
                 /\ ~keeps(i) => findings[i].number > high
            /\ \A i, j \in 1 .. n :
                 ~keeps(i) /\ ~keeps(j) /\ i < j => findings[i].number # findings[j].number
<1> DEFINE keeps(i) == Keeps(report, high, i)
           fresh(i) == {j \in 1 .. i : ~keeps(j)}
           findings == assign(report, high)
<1>1. \A i \in 1 .. n :
        /\ IsFiniteSet(fresh(i)) /\ Cardinality(fresh(i)) \in Nat
        /\ Cardinality(fresh(i)) <= n
  <2> TAKE i \in 1 .. n
  <2>1. IsFiniteSet(1 .. n) /\ Cardinality(1 .. n) = n BY FS_Interval
  <2>2. fresh(i) \in SUBSET (1 .. n) OBVIOUS
  <2> HIDE DEF fresh
  <2>3. IsFiniteSet(fresh(i)) /\ Cardinality(fresh(i)) <= n
    BY <2>1, <2>2, FS_Subset
  <2> QED BY <2>3, FS_CardinalityType
<1>2. \A i \in 1 .. n : ~keeps(i) => Cardinality(fresh(i)) # 0
  <2> TAKE i \in 1 .. n
  <2>1. ~keeps(i) => i \in fresh(i) OBVIOUS
  <2> HIDE DEF fresh, keeps
  <2> QED BY <2>1, <1>1, FS_EmptySet
<1>3. \A i, j \in 1 .. n :
        ~keeps(j) /\ i < j => Cardinality(fresh(i)) # Cardinality(fresh(j))
  <2> TAKE i, j \in 1 .. n
  <2>1. i < j => fresh(i) \in SUBSET fresh(j) OBVIOUS
  <2>2. i < j => j \notin fresh(i) OBVIOUS
  <2>3. ~keeps(j) => j \in fresh(j) OBVIOUS
  <2> HIDE DEF fresh, keeps
  <2> QED BY <2>1, <2>2, <2>3, <1>1, FS_Subset
<1>4. /\ DOMAIN findings = 1 .. n
      /\ \A i \in 1 .. n :
           /\ findings[i].line = report[i].line
           /\ findings[i].number = IF keeps(i) THEN report[i].number
                                   ELSE high + Cardinality(fresh(i))
  BY DEF assign
<1>5. \A i \in 1 .. n : keeps(i) => report[i].number \in Number /\ report[i].number <= high
  BY DEF Keeps, Number
<1> HIDE DEF keeps, fresh, findings
<1>6. \A i \in 1 .. n :
        /\ findings[i].number \in Number
        /\ findings[i].number <= high + n
        /\ ~keeps(i) => findings[i].number > high
  BY <1>1, <1>2, <1>4, <1>5 DEF Number
<1>7. \A i, j \in 1 .. n :
        ~keeps(i) /\ ~keeps(j) /\ i < j => findings[i].number # findings[j].number
  BY <1>1, <1>3, <1>4
<1> QED BY <1>4, <1>6, <1>7 DEF keeps, findings

\* The newest round is one of the rounds.
LEMMA NewestIs ==
  ASSUME Shape, Rounds # {}
  PROVE  Newest \in Rounds
<1> DEFINE S == {runs[t].at : t \in Rounds}
<1>1. PICK b \in Nat : Limit(b) BY DEF Shape, Bounded
<1>2. Rounds \subseteq DOMAIN runs /\ \A t \in DOMAIN runs : runs[t].at \in Nat
  BY DEF Shape, TypeOK, Rounds
<1>3. S \in SUBSET Nat /\ \A m \in S : m <= b BY <1>1, <1>2 DEF Limit
<1>4. S # {} OBVIOUS
<1>5. \E n \in S : \A m \in S : m <= n
  <2> HIDE DEF S
  <2>1. PICK n \in S \cup {0} : \A m \in S : m <= n BY <1>1, <1>3, Greatest
  <2>2. PICK k \in S : TRUE BY <1>4
  <2>3. n = 0 => k = n BY <1>3, <2>1, <2>2
  <2> QED BY <2>1, <2>2, <2>3
<1>6. \E t \in Rounds : \A u \in Rounds : runs[u].at <= runs[t].at BY <1>5
<1> QED BY <1>6, Zenon DEF Newest

\* The oldest trigger is one that is not done with.
LEMMA OldestIs ==
  ASSUME done \subseteq Trigger, done # Trigger
  PROVE  Oldest \in Trigger \ done
<1>1. Trigger \ done \in SUBSET Nat
  <2>1. Triggers \in Nat BY BoundsAssumption DEF BoundsAssumption
  <2> QED BY <2>1 DEF Trigger
<1>2. Trigger \ done # {} OBVIOUS
<1>3. \E t \in Trigger \ done : \A u \in Trigger \ done : t <= u
  BY <1>1, <1>2, Least, Zenon
<1> QED BY <1>3, Zenon DEF Oldest

\* What a round reads of the earlier ones: a head whose lines have been seen,
\* findings that are on record, and a number that none of them exceeds.
LEMMA HistoryIs ==
  ASSUME Shape, EveryLineIsRead, RecordsAgree
  PROVE  /\ History.since \in Commit \cup {Nothing} /\ History.high \in Nat
         /\ History.since # Nothing => History.since.own \subseteq Seen
         /\ ToSet(History.prior) \subseteq AllFindings
         /\ \A f \in AllFindings : f.number <= History.high
<1>1. CASE Rounds = {}
  <2>1. AllFindings = {} BY <1>1 DEF Rounds, AllFindings, RecordsAgree
  <2>2. History = [since |-> Nothing, prior |-> <<>>, high |-> 0]
    BY <1>1 DEF History, NoHistory
  <2>3. ToSet(<<>>) = {} BY DEF ToSet
  <2> QED BY <2>1, <2>2, <2>3
<1>2. CASE Rounds # {}
  <2> DEFINE t == Newest
  <2>1. t \in Rounds /\ t \in DOMAIN runs BY <1>2, NewestIs DEF Rounds
  <2> HIDE DEF t
  <2>2. History = [since |-> runs[t].head, prior |-> runs[t].findings, high |-> HighWater]
    BY <1>2 DEF History, t
  <2>3. runs[t].head \in Commit /\ runs[t].head.own \subseteq Seen
    BY <2>1 DEF Shape, TypeOK, EveryLineIsRead, Seen
  <2>4. ToSet(runs[t].findings) \subseteq AllFindings
    BY <2>1 DEF AllFindings, Findings
  <2>5. PICK b \in Nat : Limit(b) BY DEF Shape, Bounded
  <2>6. \A u \in DOMAIN runs : \A f \in Findings(u) : f.number \in Nat /\ f.number <= b
    BY <2>5 DEF Limit, Shape, TypeOK, Finding, Number
  <2>7. Issued \in SUBSET Nat /\ \A m \in Issued : m <= b
    BY <2>6 DEF Issued, Rounds
  <2>8. HighWater \in Nat /\ \A m \in Issued : m <= HighWater
    BY <2>5, <2>7, LargestIs DEF HighWater
  <2>9. \A f \in AllFindings : f.number \in Issued
    BY DEF AllFindings, Issued, Rounds, RecordsAgree
  <2> QED BY <2>2, <2>3, <2>4, <2>8, <2>9
<1> QED BY <1>1, <1>2

-----------------------------------------------------------------------------
(* The steps.                                                              *)

LEMMA Begins == Init => Inv
<1> SUFFICES ASSUME Init PROVE Inv OBVIOUS
<1>1. runs = <<>> /\ DOMAIN runs = {} BY DEF Init
<1>2. Shape
  <2>1. RoundOK BY DEF Init, RoundOK, Underway, At, Idle
  <2>2. Limit(0) BY <1>1 DEF Limit
  <2>3. head \in Commit BY BoundsAssumption DEF Init, Commit, BoundsAssumption
  <2>4. upsets \in 0 .. MaxUpsets BY BoundsAssumption DEF Init, BoundsAssumption
  <2>5. TypeOK BY <1>1, <2>3, <2>4 DEF TypeOK, Init, Idle
  <2> QED BY <2>1, <2>2, <2>5 DEF Shape, Bounded
<1>3. EveryLineIsRead BY <1>1 DEF EveryLineIsRead, Rounds
<1>4. NothingUpstreamIsShown /\ SinceIsSeen
  BY DEF Init, Idle, At, NothingUpstreamIsShown, SinceIsSeen, Underway
<1>5. RecordsAgree
  BY <1>1 DEF Init, Idle, RecordsAgree, AllFindings, Underway
<1> QED BY <1>2, <1>3, <1>4, <1>5 DEF Inv

\* A step that records nothing, shows nothing and posts what is on record.
LEMMA Aside ==
  ASSUME Inv, UNCHANGED <<scope, runs, lines, replaced>>,
         head' \in Commit, done' \subseteq Trigger, owed' \subseteq DOMAIN runs,
         upsets' \in 0 .. MaxUpsets,
         posted' \subseteq posted \cup AllFindings,
         \/ UNCHANGED round
         \/ round'.pc = "idle"
         \/ round'.pc = "close" /\ round'.trigger \in DOMAIN runs
  PROVE  Inv'
<1>1. /\ read' = read /\ withheld' = withheld /\ missed' = missed
      /\ scope' = scope /\ runs' = runs /\ replaced' = replaced
  BY DEF lines
<1>2. \A t : Findings(t)' = Findings(t) BY <1>1 DEF Findings
<1>3. /\ AllFindings' = AllFindings /\ Seen' = Seen /\ Rounds' = Rounds
      /\ \A b : Limit(b)' = Limit(b)
  BY <1>1, <1>2 DEF AllFindings, Seen, Rounds, Limit
<1>4. AllFindings \subseteq Finding BY DEF Inv, Shape, TypeOK, AllFindings
<1>5. TypeOK'
  <2>1. round'.pc \in {"idle", "fetch", "engine", "post", "close"}
    BY DEF Inv, Shape, TypeOK
  <2> QED BY <2>1, <1>1, <1>2, <1>4 DEF Inv, Shape, TypeOK
<1>6. Bounded' BY <1>3 DEF Inv, Shape, Bounded
<1>7. EveryLineIsRead' BY <1>1, <1>3 DEF Inv, EveryLineIsRead
<1>8. posted' \subseteq AllFindings \cup replaced BY DEF Inv, RecordsAgree
<1>9. CASE UNCHANGED round
  <2>1. Underway' = Underway /\ Added' = Added /\ Removed' = Removed
    BY <1>9 DEF Underway, Added, Removed
  <2>2. RoundOK' BY <1>1, <1>9, <2>1 DEF Inv, Shape, RoundOK, At
  <2>3. NothingUpstreamIsShown' BY <1>9, <2>1 DEF Inv, NothingUpstreamIsShown, At
  <2>4. SinceIsSeen' BY <1>3, <1>9, <2>1 DEF Inv, SinceIsSeen, At
  <2>5. RecordsAgree' BY <1>1, <1>2, <1>3, <1>8, <1>9, <2>1 DEF Inv, RecordsAgree
  <2> QED BY <1>5, <1>6, <1>7, <2>2, <2>3, <2>4, <2>5 DEF Inv, Shape
<1>10. CASE round'.pc \in {"idle", "close"} /\ (round'.pc = "close" => round'.trigger \in DOMAIN runs)
  <2>1. ~Underway' /\ ~At("engine")' BY <1>10 DEF Underway, At
  <2>2. RoundOK' BY <1>1, <1>10, <2>1 DEF RoundOK
  <2>3. NothingUpstreamIsShown' BY <2>1 DEF NothingUpstreamIsShown
  <2>4. SinceIsSeen' BY <2>1 DEF SinceIsSeen
  <2>5. RecordsAgree' BY <1>1, <1>2, <1>3, <1>8, <2>1 DEF Inv, RecordsAgree
  <2> QED BY <1>5, <1>6, <1>7, <2>2, <2>3, <2>4, <2>5 DEF Inv, Shape
<1> QED BY <1>9, <1>10

LEMMA Starting ==
  ASSUME Inv, Start
  PROVE  Inv'
<1>1. /\ read' = read /\ withheld' = withheld /\ missed' = missed
      /\ scope' = scope /\ runs' = runs /\ replaced' = replaced
      /\ posted' = posted /\ head' = head /\ done' = done /\ owed' = owed
      /\ upsets' = upsets
  BY DEF Start, history, lines, numbers, table
<1>2. \A t : Findings(t)' = Findings(t) BY <1>1 DEF Findings
<1>3. /\ AllFindings' = AllFindings /\ Seen' = Seen /\ Rounds' = Rounds
      /\ \A b : Limit(b)' = Limit(b)
  BY <1>1, <1>2 DEF AllFindings, Seen, Rounds, Limit
<1>4. PICK r : r = round' OBVIOUS
<1>5. /\ r.pc = "fetch" /\ r.trigger = Oldest /\ r.facts = head
      /\ r.past = IF Oldest \in scope.describes THEN NoHistory ELSE History
  BY <1>4 DEF Start
<1>6. Oldest \in Trigger
  BY OldestIs DEF Start, Inv, Shape, TypeOK
<1>7. /\ r.past.since \in Commit \cup {Nothing} /\ r.past.high \in Nat
      /\ r.past.since # Nothing => r.past.since.own \subseteq Seen
      /\ r.trigger \notin scope.describes =>
           /\ ToSet(r.past.prior) \subseteq AllFindings
           /\ \A f \in AllFindings : f.number <= r.past.high
  <2>1. CASE Oldest \in scope.describes BY <1>5, <2>1 DEF NoHistory
  <2>2. CASE Oldest \notin scope.describes BY <1>5, <2>2, HistoryIs DEF Inv
  <2> QED BY <2>1, <2>2
<1>8. Underway' /\ ~At("engine")' /\ round'.pc = "fetch"
  BY <1>4, <1>5 DEF Underway, At
<1>9. TypeOK' BY <1>1, <1>2, <1>8 DEF Inv, Shape, TypeOK
<1>10. RoundOK'
  <2>1. head \in Commit BY DEF Inv, Shape, TypeOK
  <2> QED BY <1>4, <1>5, <1>6, <1>7, <1>8, <2>1 DEF RoundOK
<1>11. Bounded' BY <1>3 DEF Inv, Shape, Bounded
<1>12. EveryLineIsRead' BY <1>1, <1>3 DEF Inv, EveryLineIsRead
<1>13. NothingUpstreamIsShown' BY <1>8 DEF NothingUpstreamIsShown
<1>14. SinceIsSeen' BY <1>3, <1>4, <1>7, <1>8 DEF SinceIsSeen
<1>15. RecordsAgree'
  BY <1>1, <1>2, <1>3, <1>4, <1>7 DEF Inv, RecordsAgree
<1> QED BY <1>9, <1>10, <1>11, <1>12, <1>13, <1>14, <1>15 DEF Inv, Shape

LEMMA Fetching ==
  ASSUME Inv, Fetch
  PROVE  Inv'
<1>1. /\ read' = read /\ withheld' = withheld /\ missed' = missed
      /\ scope' = scope /\ runs' = runs /\ replaced' = replaced
      /\ posted' = posted /\ head' = head /\ done' = done /\ owed' = owed
      /\ upsets' = upsets
  BY DEF Fetch, history, lines, numbers, table
<1>2. \A t : Findings(t)' = Findings(t) BY <1>1 DEF Findings
<1>3. /\ AllFindings' = AllFindings /\ Seen' = Seen /\ Rounds' = Rounds
      /\ \A b : Limit(b)' = Limit(b)
  BY <1>1, <1>2 DEF AllFindings, Seen, Rounds, Limit
<1>4. PICK r : r = round' OBVIOUS
<1>5. /\ r.pc = "engine" /\ r.trigger = round.trigger /\ r.facts = round.facts
      /\ r.past = round.past /\ r.fetched = head
      /\ r.from \in {StartOf(r.past.since, r.fetched), Upstream(r.fetched.base)}
  BY <1>4 DEF Fetch
<1>6. Underway /\ ~At("engine") BY DEF Fetch, Underway, At
<1>7. /\ r.trigger \in Trigger /\ r.facts \in Commit
      /\ r.past.since \in Commit \cup {Nothing} /\ r.past.high \in Nat
      /\ r.fetched \in Commit
  BY <1>5, <1>6 DEF Inv, Shape, RoundOK, TypeOK
<1>8. /\ Tree(r.fetched) \ r.from \subseteq Line
      /\ \/ r.from \ Tree(r.fetched) \subseteq Line
         \/ r.past.since.base > r.fetched.base
      /\ \/ r.from \cap Line = {}
         \/ r.past.since # Nothing /\ r.from \cap Line \subseteq r.past.since.own
  BY <1>5, <1>7, StartIs
<1>9. r.past.since # Nothing => r.past.since.own \subseteq Seen
  BY <1>5, <1>6 DEF Inv, SinceIsSeen
<1>10. Underway' /\ At("engine")' /\ round'.pc = "engine"
  BY <1>4, <1>5 DEF Underway, At
<1>11. TypeOK' BY <1>1, <1>2, <1>10 DEF Inv, Shape, TypeOK
<1>12. RoundOK' BY <1>4, <1>7, <1>10 DEF RoundOK
<1>13. Bounded' BY <1>3 DEF Inv, Shape, Bounded
<1>14. EveryLineIsRead' BY <1>1, <1>3 DEF Inv, EveryLineIsRead
<1>15. NothingUpstreamIsShown'
  BY <1>4, <1>8 DEF NothingUpstreamIsShown, Added, Removed
<1>16. SinceIsSeen' BY <1>3, <1>4, <1>8, <1>9 DEF SinceIsSeen
<1>17. RecordsAgree'
  <2>1. r.trigger \notin scope.describes =>
          /\ ToSet(r.past.prior) \subseteq AllFindings
          /\ \A f \in AllFindings : f.number <= r.past.high
    BY <1>5, <1>6 DEF Inv, RecordsAgree
  <2> QED BY <1>1, <1>2, <1>3, <1>4, <2>1 DEF Inv, RecordsAgree
<1> QED BY <1>11, <1>12, <1>13, <1>14, <1>15, <1>16, <1>17 DEF Inv, Shape

\* What the engine may report in this round.
Answer == IF round.trigger \in scope.describes THEN {<<>>} ELSE Reports

\* The numbers of a report are in range, and mean what they mean on record.
LEMMA NumbersAre ==
  ASSUME Inv, At("engine"), NEW report \in Answer,
         NEW findings, findings = assign(report, round.past.high)
  PROVE  /\ ToSet(findings) \subseteq Finding
         /\ \E b \in Nat : \A f \in ToSet(findings) : f.number <= b
         /\ round.trigger \in scope.describes => ToSet(findings) = {}
         /\ \A f \in ToSet(findings), g \in AllFindings \cup ToSet(findings) :
              f.number = g.number => f.line = g.line
<1> DEFINE high == round.past.high
           told == ToSet(round.past.prior)
           spoken == Shown \cup {f.line : f \in told}
           keeps(i) == Keeps(report, high, i)
<1>1. Underway /\ high \in Nat
  BY DEF At, Underway, Inv, Shape, RoundOK
<1>2. CASE round.trigger \in scope.describes
  <2>1. report = <<>> BY <1>2 DEF Answer
  <2>2. DOMAIN report = 1 .. 0 BY <2>1
  <2>3. DOMAIN findings = 1 .. 0 BY <1>1, <2>2, AssignIs
  <2>4. ToSet(findings) = {} BY <2>3 DEF ToSet
  <2> QED BY <2>4
<1>3. CASE round.trigger \notin scope.describes
  <2>1. /\ told \subseteq AllFindings
        /\ \A f \in AllFindings : f.number <= high
    BY <1>1, <1>3 DEF Inv, RecordsAgree
  <2>2. AllFindings \subseteq Finding BY DEF Inv, Shape, TypeOK, AllFindings
  <2>3. spoken \subseteq Line
    BY <2>1, <2>2 DEF Inv, NothingUpstreamIsShown, Shown, Finding
  <2>4. /\ report \in UNION {[1 .. n -> [line : spoken, number : Issued \cup {Nothing}]] : n \in 0 .. scope.findings}
        /\ \A i \in DOMAIN report : report[i].number \in Claims(report[i].line)
        /\ \A i, j \in DOMAIN report : report[i].line = report[j].line => i = j
    BY <1>3 DEF Answer, Reports
  <2>5. PICK n \in Nat : report \in [1 .. n -> [line : spoken, number : Issued \cup {Nothing}]]
    BY <2>4
  <2>6. DOMAIN report = 1 .. n /\ \A i \in 1 .. n : report[i].line \in spoken
    BY <2>5
  <2> HIDE DEF spoken
  <2>7. /\ DOMAIN findings = 1 .. n
        /\ \A i \in 1 .. n :
             /\ findings[i].line = report[i].line
             /\ findings[i].number \in Number
             /\ findings[i].number <= high + n
             /\ keeps(i) => findings[i].number = report[i].number
             /\ ~keeps(i) => findings[i].number > high
        /\ \A i, j \in 1 .. n :
             ~keeps(i) /\ ~keeps(j) /\ i < j => findings[i].number # findings[j].number
    BY <1>1, <2>6, AssignIs
  <2>8. \A i \in 1 .. n : findings[i] = [line |-> findings[i].line, number |-> findings[i].number]
    BY <2>6 DEF assign
  <2>9. \A i \in 1 .. n : findings[i] \in Finding
    <3> TAKE i \in 1 .. n
    <3>1. PICK line, number : line = findings[i].line /\ number = findings[i].number
      OBVIOUS
    <3>2. findings[i] = [line |-> line, number |-> number] BY <3>1, <2>8
    <3>3. line \in Line /\ number \in Number BY <3>1, <2>3, <2>6, <2>7
    <3> QED BY <3>2, <3>3 DEF Finding
  <2>10. \A i \in 1 .. n : keeps(i) =>
           \E p \in AllFindings : p.line = findings[i].line /\ p.number = findings[i].number
    <3> TAKE i \in 1 .. n
    <3> HAVE keeps(i)
    <3>1. report[i].number # Nothing BY DEF Keeps
    <3>2. report[i].number \in Carried(report[i].line)
      BY <3>1, <2>4, <2>6 DEF Claims
    <3>3. \E p \in told : p.line = report[i].line /\ p.number = report[i].number
      BY <3>2 DEF Carried
    <3> QED BY <3>3, <2>1, <2>7
  <2>11. \A i \in 1 .. n : keeps(i) => findings[i].number <= high
    BY <2>10, <2>1
  <2> HIDE DEF keeps, high, told
  <2>12. \A f, g \in AllFindings : f.number = g.number => f.line = g.line
    BY DEF Inv, RecordsAgree
  <2>13. \A i \in 1 .. n, g \in AllFindings :
           findings[i].number = g.number => findings[i].line = g.line
    <3> TAKE i \in 1 .. n, g \in AllFindings
    <3>1. CASE keeps(i) BY <3>1, <2>10, <2>12
    <3>2. CASE ~keeps(i)
      <4>1. findings[i].number \in Nat /\ g.number \in Nat
        BY <2>2, <2>7 DEF Finding, Number
      <4>2. findings[i].number > high /\ g.number <= high BY <3>2, <2>1, <2>7
      <4> QED BY <1>1, <4>1, <4>2 DEF high
    <3> QED BY <3>1, <3>2
  <2>14. \A i, j \in 1 .. n :
           findings[i].number = findings[j].number => findings[i].line = findings[j].line
    <3> TAKE i, j \in 1 .. n
    <3>1. CASE keeps(i)
      <4>1. PICK p \in AllFindings : p.line = findings[i].line /\ p.number = findings[i].number
        BY <3>1, <2>10
      <4> QED BY <4>1, <2>13
    <3>2. CASE keeps(j)
      <4>1. PICK p \in AllFindings : p.line = findings[j].line /\ p.number = findings[j].number
        BY <3>2, <2>10
      <4> QED BY <4>1, <2>13
    <3>3. CASE ~keeps(i) /\ ~keeps(j)
      <4>1. i < j \/ j < i \/ i = j OBVIOUS
      <4> QED BY <3>3, <4>1, <2>7
    <3> QED BY <3>1, <3>2, <3>3
  <2>15. ToSet(findings) = {findings[i] : i \in 1 .. n} BY <2>7 DEF ToSet
  <2>16. high + n \in Nat /\ \A f \in ToSet(findings) : f.number <= high + n
    BY <1>1, <2>7, <2>15 DEF high
  <2>17. \A f \in ToSet(findings), g \in AllFindings \cup ToSet(findings) :
           f.number = g.number => f.line = g.line
    BY <2>13, <2>14, <2>15
  <2> QED BY <1>3, <2>9, <2>15, <2>16, <2>17
<1> QED BY <1>2, <1>3

LEMMA Recording ==
  ASSUME Inv, Record
  PROVE  Inv'
<1>0. PICK trigger : trigger = round.trigger OBVIOUS
<1> DEFINE describes == trigger \in scope.describes
<1>1. PICK report \in Answer :
        LET findings == assign(report, round.past.high) IN
        /\ runs' = Recorded(findings)
        /\ replaced' = replaced \cup (Replaced \ ToSet(findings))
  BY DEF Record, Answer
<1>2. PICK findings : findings = assign(report, round.past.high) OBVIOUS
<1>3. /\ runs' = Recorded(findings)
      /\ replaced' = replaced \cup (Replaced \ ToSet(findings))
  BY <1>1, <1>2
<1>4. /\ At("engine") /\ Underway
      /\ round'.pc = "post" /\ round'.trigger = trigger
      /\ scope' = scope /\ head' = head /\ owed' = owed /\ done' = done
      /\ posted' = posted /\ upsets' = upsets
  BY <1>0 DEF Record, At, Underway
<1>5. /\ trigger \in Trigger /\ round.facts \in Commit /\ round.fetched \in Commit
  BY <1>0, <1>4 DEF Inv, Shape, RoundOK
<1>6. /\ ToSet(findings) \subseteq Finding
      /\ \E b \in Nat : \A f \in ToSet(findings) : f.number <= b
      /\ describes => ToSet(findings) = {}
      /\ \A f \in ToSet(findings), g \in AllFindings \cup ToSet(findings) :
           f.number = g.number => f.line = g.line
  BY <1>0, <1>2, <1>4, NumbersAre
<1>7. /\ DOMAIN runs' = Others \cup {trigger}
      /\ runs'[trigger] = Row(findings)
      /\ \A t \in Others : runs'[t] = runs[t]
  BY <1>0, <1>3 DEF Recorded, Others
<1>8. /\ Row(findings).head = round.facts /\ Row(findings).findings = findings
      /\ Row(findings).at = Now /\ Row(findings).describes = describes
  BY <1>0 DEF Row
<1>9. Others = DOMAIN runs \ {trigger} BY <1>0 DEF Others
<1>10. PICK b \in Nat : Limit(b) BY DEF Inv, Shape, Bounded
<1>11. /\ Now \in Nat /\ Now <= b + 1
       /\ \A t \in Others : runs[t].at \in Nat /\ runs[t].at < Now
  <2> DEFINE S == {runs[t].at : t \in Others}
  <2>1. \A t \in Others : runs[t].at \in Nat /\ runs[t].at <= b
    BY <1>9, <1>10 DEF Limit, Inv, Shape, TypeOK
  <2>2. S \in SUBSET Nat /\ \A m \in S : m <= b BY <2>1
  <2>3. \A t \in Others : runs[t].at \in S OBVIOUS
  <2>4. Now = Largest(S) + 1 BY DEF Now
  <2> HIDE DEF S
  <2>5. /\ Largest(S) \in Nat /\ Largest(S) <= b
        /\ \A m \in S : m <= Largest(S)
    BY <2>2, LargestIs
  <2> QED BY <2>1, <2>3, <2>4, <2>5
<1>12. /\ Findings(trigger)' = ToSet(findings)
       /\ \A t \in Others : Findings(t)' = Findings(t)
  BY <1>7, <1>8 DEF Findings
<1> HIDE DEF describes
<1>13. TypeOK'
  <2>1. DOMAIN runs' \subseteq Trigger
    BY <1>5, <1>7, <1>9 DEF Inv, Shape, TypeOK
  <2>2. \A t \in DOMAIN runs' :
          /\ runs'[t].head \in Commit /\ Findings(t)' \subseteq Finding
          /\ runs'[t].at \in Nat
    <3>1. \A t \in Others :
            /\ runs[t].head \in Commit /\ Findings(t) \subseteq Finding
            /\ runs[t].at \in Nat
      BY <1>9 DEF Inv, Shape, TypeOK
    <3> QED BY <3>1, <1>5, <1>6, <1>7, <1>8, <1>11, <1>12
  <2>3. \A t, u \in DOMAIN runs' : runs'[t].at = runs'[u].at => t = u
    <3>1. \A t, u \in Others : runs[t].at = runs[u].at => t = u
      BY <1>9 DEF Inv, Shape, TypeOK
    <3>2. runs'[trigger].at = Now BY <1>7, <1>8
    <3>3. \A t \in Others : runs'[t].at # runs'[trigger].at
      BY <3>2, <1>7, <1>11
    <3> QED BY <3>1, <3>3, <1>7
  <2>4. /\ read' \subseteq Line /\ withheld' \subseteq Line /\ missed' \subseteq Line
    <3>1. Shown \subseteq Line /\ Added \subseteq Line
      BY <1>4 DEF Inv, NothingUpstreamIsShown, Shown
    <3>2. round.facts.own \subseteq Line BY <1>5 DEF Commit
    <3> QED BY <3>1, <3>2 DEF Record, lines, Inv, Shape, TypeOK
  <2>5. replaced' \subseteq Finding
    <3>1. Replaced \subseteq Finding BY DEF Replaced, Inv, Shape, TypeOK
    <3> QED BY <1>3, <3>1 DEF Inv, Shape, TypeOK
  <2>6. owed' \subseteq DOMAIN runs'
    BY <1>4, <1>7, <1>9 DEF Inv, Shape, TypeOK
  <2> QED BY <2>1, <2>2, <2>3, <2>4, <2>5, <2>6, <1>4 DEF Inv, Shape, TypeOK
<1>14. RoundOK'
  BY <1>4, <1>7 DEF RoundOK, Underway, At
<1>15. Bounded'
  <2>1. PICK c \in Nat : \A f \in ToSet(findings) : f.number <= c BY <1>6
  <2>2. \A f \in ToSet(findings) : f.number \in Nat BY <1>6 DEF Finding, Number
  <2>3. \A t \in Others :
          /\ runs[t].at \in Nat /\ runs[t].at <= b
          /\ \A f \in Findings(t) : f.number \in Nat /\ f.number <= b
    BY <1>9, <1>10 DEF Limit, Inv, Shape, TypeOK, Finding, Number
  <2>4. \A m \in Nat : m <= b \/ m <= b + 1 \/ m <= c => m <= b + c + 1
    OBVIOUS
  <2>5. \A t \in DOMAIN runs' :
          /\ runs'[t].at <= b + c + 1
          /\ \A f \in Findings(t)' : f.number <= b + c + 1
    <3>1. \A t \in Others :
            /\ runs'[t].at <= b + c + 1
            /\ \A f \in Findings(t)' : f.number <= b + c + 1
      BY <1>7, <1>12, <2>3, <2>4
    <3>2. runs'[trigger].at <= b + c + 1 BY <1>7, <1>8, <1>11, <2>4
    <3>3. \A f \in Findings(trigger)' : f.number <= b + c + 1
      BY <1>12, <2>1, <2>2, <2>4
    <3> QED BY <1>7, <3>1, <3>2, <3>3
  <2>6. Limit(b + c + 1)' BY <2>5 DEF Limit
  <2>7. b + c + 1 \in Nat OBVIOUS
  <2> QED BY <2>6, <2>7, Zenon DEF Bounded
<1>16. Seen \subseteq Seen' /\ (~describes => round.facts.own \subseteq Seen')
  <2>1. CASE describes
    BY <2>1, <1>0 DEF Record, lines, Seen, describes
  <2>2. CASE ~describes
    <3>1. /\ read' = read \cup Shown
          /\ withheld' = withheld \cup (Added \cap round.excluded)
          /\ missed' = missed \cup (round.facts.own \ round.fetched.own)
      BY <2>2, <1>0 DEF Record, describes
    <3>2. round.fetched.own \subseteq round.from \cup Added
      BY DEF Added, Tree
    <3>3. Added \subseteq Shown \cup (Added \cap round.excluded) BY DEF Shown
    <3>4. round.facts.own \subseteq Line BY <1>5 DEF Commit
    <3>5. round.from \cap Line \subseteq Seen BY <1>4 DEF Inv, SinceIsSeen
    <3> QED BY <3>1, <3>2, <3>3, <3>4, <3>5, <2>2 DEF Seen
  <2> QED BY <2>1, <2>2
<1>17. EveryLineIsRead'
  <2>1. \A t \in Rounds' : runs'[t].head.own \subseteq Seen'
    <3>1. \A t \in Others : ~runs'[t].describes => runs'[t].head.own \subseteq Seen'
      BY <1>7, <1>9, <1>16 DEF Inv, EveryLineIsRead, Rounds, Seen
    <3>2. ~runs'[trigger].describes => runs'[trigger].head.own \subseteq Seen'
      BY <1>7, <1>8, <1>16
    <3> QED BY <1>7, <3>1, <3>2 DEF Rounds
  <2> QED BY <2>1 DEF EveryLineIsRead, Seen
<1>18. NothingUpstreamIsShown' BY <1>4 DEF NothingUpstreamIsShown, At
<1>19. SinceIsSeen' BY <1>4 DEF SinceIsSeen, Underway, At
<1>20. RecordsAgree'
  <2>1. AllFindings' \subseteq AllFindings \cup ToSet(findings)
    BY <1>7, <1>9, <1>12 DEF AllFindings
  <2>2. \A f, g \in AllFindings' : f.number = g.number => f.line = g.line
    BY <1>6, <2>1 DEF Inv, RecordsAgree
  <2>3. \A t \in DOMAIN runs' : runs'[t].describes => Findings(t)' = {}
    BY <1>6, <1>7, <1>8, <1>9, <1>12 DEF Inv, RecordsAgree
  <2>4. AllFindings \subseteq AllFindings' \cup replaced'
    <3> SUFFICES ASSUME NEW t \in DOMAIN runs, NEW f \in Findings(t)
                 PROVE  f \in AllFindings' \cup replaced'
      BY DEF AllFindings
    <3>1. CASE t = trigger
      <4>1. f \in Replaced BY <3>1, <1>0 DEF Replaced
      <4>2. ToSet(findings) \subseteq AllFindings' BY <1>7, <1>12 DEF AllFindings
      <4> QED BY <4>1, <4>2, <1>3
    <3>2. CASE t # trigger
      <4>1. t \in Others BY <3>2, <1>9
      <4> QED BY <4>1, <1>7, <1>12 DEF AllFindings
    <3> QED BY <3>1, <3>2
  <2>5. posted' \subseteq AllFindings' \cup replaced'
    BY <1>3, <1>4, <2>4 DEF Inv, RecordsAgree
  <2>6. ~Underway' BY <1>4 DEF Underway
  <2> QED BY <2>2, <2>3, <2>5, <2>6 DEF RecordsAgree
<1> QED BY <1>13, <1>14, <1>15, <1>17, <1>18, <1>19, <1>20 DEF Inv, Shape

LEMMA Stepping ==
  ASSUME Inv, [Next]_vars
  PROVE  Inv'
<1> USE DEF table, history, lines, numbers
<1>1. /\ head \in Commit /\ done \subseteq Trigger /\ owed \subseteq DOMAIN runs
      /\ upsets \in 0 .. MaxUpsets
      /\ \A t \in owed : Findings(t) \subseteq AllFindings
  BY DEF Inv, Shape, TypeOK, AllFindings
<1>2. At("engine") => round.trigger \in Trigger
  BY DEF Inv, Shape, RoundOK, Underway, At
<1>3. round.pc \in {"post", "close"} =>
        /\ round.trigger \in DOMAIN runs /\ round.trigger \in Trigger
        /\ Findings(round.trigger) \subseteq AllFindings
  BY DEF Inv, Shape, TypeOK, RoundOK, AllFindings
<1>4. upsets < MaxUpsets => upsets + 1 \in 0 .. MaxUpsets
  BY <1>1, BoundsAssumption DEF BoundsAssumption
<1>5. \A own \in SUBSET Line, base \in 0 .. MaxBase : Pushed(own, base) => Inv'
  <2> SUFFICES ASSUME NEW own \in SUBSET Line, NEW base \in 0 .. MaxBase, Pushed(own, base)
               PROVE  Inv'
    OBVIOUS
  <2>1. head' = [n |-> head.n + 1, base |-> base, own |-> own] BY DEF Pushed
  <2>2. head.n + 1 \in Nat BY <1>1 DEF Commit
  <2>3. head' \in Commit BY <2>1, <2>2 DEF Commit
  <2> QED BY <1>1, <2>3, Aside DEF Pushed
<1>6. CASE Push \/ Rebase
  BY <1>1, <1>5, <1>6 DEF Push, Rebase, Commit
<1>7. CASE Start BY <1>7, Starting
<1>8. CASE Fetch BY <1>8, Fetching
<1>9. CASE Refuse BY <1>1, <1>2, <1>9, Aside DEF Refuse, Idle
<1>10. CASE Record BY <1>10, Recording
<1>11. CASE Post
  <2>1. round'.pc = "close" /\ round'.trigger = round.trigger BY <1>11 DEF Post
  <2> QED BY <1>1, <1>3, <1>11, <2>1, Aside DEF Post, Posts, At
<1>12. CASE PostFails
  <2>1. round'.pc = "close" /\ round'.trigger = round.trigger BY <1>12 DEF PostFails
  <2> QED BY <1>1, <1>3, <1>4, <1>12, <2>1, Aside DEF PostFails, At
<1>13. CASE PostLate BY <1>1, <1>13, Aside DEF PostLate, Posts
<1>14. CASE Close BY <1>1, <1>3, <1>14, Aside DEF Close, At, Idle
<1>15. CASE Fail BY <1>1, <1>4, <1>15, Aside DEF Fail, Idle
<1>16. CASE UNCHANGED vars BY <1>1, <1>16, Aside DEF vars
<1> QED
  BY <1>6, <1>7, <1>8, <1>9, <1>10, <1>11, <1>12, <1>13, <1>14, <1>15, <1>16 DEF Next

LEMMA Always == Spec => []Inv
<1>1. Inv /\ [Next]_vars => Inv' BY Stepping
<1> QED BY Begins, <1>1, PTL DEF Spec

-----------------------------------------------------------------------------
(* What the rounds promise.                                                *)

\* Whatever numbers an engine claims, the findings of one report get different
\* ones, and one that was issued before only if it was claimed (numbering.assign).
THEOREM NumbersDiffer ==
  ASSUME NEW n \in Nat, NEW high \in Nat, NEW report, DOMAIN report = 1 .. n
  PROVE  \A i, j \in 1 .. n :
           /\ i # j => assign(report, high)[i].number # assign(report, high)[j].number
           /\ assign(report, high)[i].number <= high =>
                assign(report, high)[i].number = report[i].number
<1> DEFINE findings == assign(report, high)
           keeps(i) == Keeps(report, high, i)
<1>1. \A i \in 1 .. n :
        /\ findings[i].number \in Nat
        /\ keeps(i) => findings[i].number = report[i].number
        /\ ~keeps(i) => findings[i].number > high
  BY AssignIs DEF Number
<1>2. \A i, j \in 1 .. n :
        ~keeps(i) /\ ~keeps(j) /\ i < j => findings[i].number # findings[j].number
  BY AssignIs
<1>3. \A i \in 1 .. n : keeps(i) => report[i].number \in Nat /\ report[i].number <= high
  BY DEF Keeps
<1>4. \A i, j \in 1 .. n : keeps(j) /\ i < j => report[i].number # report[j].number
  BY DEF Keeps
<1> HIDE DEF findings, keeps
<1>5. \A i, j \in 1 .. n : i < j => findings[i].number # findings[j].number
  BY <1>1, <1>2, <1>3, <1>4
<1>6. \A i, j \in 1 .. n : i # j => findings[i].number # findings[j].number
  <2> TAKE i, j \in 1 .. n
  <2>1. i = j \/ i < j \/ j < i OBVIOUS
  <2> QED BY <2>1, <1>5
<1>7. \A i \in 1 .. n : findings[i].number <= high => findings[i].number = report[i].number
  BY <1>1
<1> QED BY <1>6, <1>7 DEF findings

\* The rows, the numbers and the lines keep their types: a recorded finding is
\* of a line of the contributor's and has a number, and no two rows are of one
\* time.
THEOREM Typing == Spec => []TypeOK
<1>1. Inv => TypeOK BY DEF Inv, Shape
<1> QED BY Always, <1>1, PTL

\* However a branch is amended, rebased and reviewed in part, no line the
\* contributor wrote falls between two rounds (diff_start, RunStore.history).
THEOREM LeavesNoLine == Spec => []EveryLineIsRead
<1>1. Inv => EveryLineIsRead BY DEF Inv
<1> QED BY Always, <1>1, PTL

\* What a rebase brings along is not shown as the contributor's (_replay).
THEOREM ShowsNoUpstream == Spec => []NothingUpstreamIsShown
<1>1. Inv => NothingUpstreamIsShown BY DEF Inv
<1> QED BY Always, <1>1, PTL

\* A number on the pull request stands for one line, through retries, fixed
\* findings and posts that come late (numbering.assign, RunStore.record).
THEOREM NumbersStay == Spec => []NumbersMeanOneThing
<1>1. Inv => NumbersMeanOneThing
  <2> SUFFICES ASSUME Inv PROVE NumbersMeanOneThing OBVIOUS
  <2>1. posted \ replaced \subseteq AllFindings BY DEF Inv, RecordsAgree
  <2>2. \A f, g \in AllFindings : f.number = g.number => f.line = g.line
    BY DEF Inv, RecordsAgree
  <2> QED BY <2>1, <2>2 DEF NumbersMeanOneThing
<1> QED BY Always, <1>1, PTL

=============================================================================
